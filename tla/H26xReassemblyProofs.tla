------------------------ MODULE H26xReassemblyProofs ------------------------
(***************************************************************************)
(* The reassembly of NAL units, for every stream, every number of slices   *)
(* in an access unit and every order, loss and repetition of its packets.  *)
(***************************************************************************)
EXTENDS H26xReassembly, SequenceTheorems, WellFoundedInduction, TLAPS

(* Sequence numbers.                                                       *)

LEMMA Smallest ==
  ASSUME NEW S \in SUBSET Nat, S # {}
  PROVE  \E m \in S : \A x \in S : m <= x
<1> DEFINE R == OpToRel(<, Nat)
<1>1. IsWellFoundedOn(R, Nat)
  BY NatLessThanWellFounded
<1>2. \A x, m \in Nat : <<x, m>> \in R <=> x < m
  BY DEF OpToRel
<1> HIDE DEF R
<1>3. PICK m \in S : \A x \in S : <<x, m>> \notin R
  BY <1>1, WFMin
<1>4. ASSUME NEW x \in S PROVE m <= x
  <2>1. x \in Nat /\ m \in Nat /\ ~(x < m)
    BY <1>2, <1>3
  <2> QED
    BY <2>1
<1> QED
  BY <1>4

LEMMA Remainder ==
  ASSUME NEW b \in Nat \ {0}, NEW q \in Int, NEW r \in 0 .. b - 1
  PROVE  ((q * b) + r) % b = r
BY SMTT(60)

LEMMA Quotient ==
  ASSUME NEW b \in Nat \ {0}, NEW n \in Int
  PROVE  \E q \in Int : n = (q * b) + (n % b) /\ n % b \in 0 .. b - 1
<1>1. n = ((n \div b) * b) + (n % b) /\ n % b \in 0 .. b - 1 /\ n \div b \in Int
  BY SMTT(60)
<1> QED
  BY <1>1

LEMMA RemainderOfSum ==
  ASSUME NEW b \in Nat \ {0}, NEW n \in Int, NEW d \in Int
  PROVE  ((n % b) + d) % b = (n + d) % b
<1>1. PICK q \in Int : n = (q * b) + (n % b) /\ n % b \in 0 .. b - 1
  BY Quotient
<1> DEFINE r == n % b
<1>2. r \in Int /\ n = (q * b) + r
  BY <1>1
<1> HIDE DEF r
<1> DEFINE c == r + d
           m == c % b
<1>3. c \in Int
  BY <1>2
<1> HIDE DEF c
<1>4. PICK k \in Int : c = (k * b) + m /\ m \in 0 .. b - 1
  BY <1>3, Quotient
<1> HIDE DEF m
<1>5. n + d = ((q + k) * b) + m /\ q + k \in Int
  BY <1>2, <1>4, SMT DEF c
<1>6. (((q + k) * b) + m) % b = m
  BY <1>4, <1>5, Remainder
<1>7. (n + d) % b = m
  BY <1>5, <1>6
<1> QED
  BY <1>7 DEF c, m, r

-----------------------------------------------------------------------------
(* The packets of a stream.                                                *)

\* What the trial sets.
LEMMA Settings ==
  ASSUME trial \in Trials
  PROVE  /\ SeqMod \in Nat \ {0} /\ FirstSeq \in Nat /\ Len(Stream) \in Nat
         /\ Len(Stream) < SeqMod /\ Packet = 1 .. Len(Stream)
         /\ \A p \in Packet : p \in Nat \ {0} /\ p <= Len(Stream) /\ p # NoFrame
         /\ \A p \in Packet : Ts(p) \in Timestamps /\ Ts(p) \in Nat
         /\ MaxDelay \in Nat /\ KeepTrack \in Nat /\ MaxTime \in Nat
         /\ Enforcement \in BOOLEAN /\ GcInterval \in Nat
BY SeqModAssumption, TrialsAssumption, ClockAssumption, NoFrameAssumption, StreamAssumption
   DEF Packet, Stream, FirstSeq, Ts, Timestamps, MaxDelay, KeepTrack, MaxTime, Enforcement

LEMMA Carries ==
  ASSUME trial \in Trials, NEW p \in Packet
  PROVE  /\ Stream[p].nals \in Seq(Nat) /\ Len(Stream[p].nals) \in Nat \ {0}
         /\ DOMAIN Stream[p].nals = 1 .. Len(Stream[p].nals)
         /\ Stream[p].nals[1] \in Carried(p) /\ Carried(p) \subseteq NalUnits
<1>1. Stream[p].nals \in Seq(Nat) /\ Stream[p].nals # <<>>
  BY StreamAssumption DEF Stream, Packet
<1>2. /\ Len(Stream[p].nals) \in Nat \ {0}
      /\ DOMAIN Stream[p].nals = 1 .. Len(Stream[p].nals)
  BY <1>1, LenProperties, EmptySeq
<1> QED
  BY <1>1, <1>2 DEF Carried, NalUnits

LEMMA Shift ==
  ASSUME trial \in Trials, NEW f \in Packet, NEW d \in Int
  PROVE  /\ Seq16(f) \in SeqNum /\ Seq16(f) \in Nat
         /\ (Seq16(f) + d) % SeqMod = Seq16(f + d)
<1>1. /\ SeqMod \in Nat \ {0} /\ FirstSeq \in Nat /\ f \in Nat
      /\ FirstSeq + f - 1 \in Int /\ (FirstSeq + f - 1) + d = FirstSeq + (f + d) - 1
  BY Settings
<1>2. (((FirstSeq + f - 1) % SeqMod) + d) % SeqMod = ((FirstSeq + f - 1) + d) % SeqMod
  BY <1>1, RemainderOfSum
<1>3. (FirstSeq + f - 1) % SeqMod \in 0 .. SeqMod - 1
  BY <1>1, Quotient
<1> QED
  BY <1>1, <1>2, <1>3 DEF Seq16, SeqNum

LEMMA DistanceIs ==
  ASSUME trial \in Trials, NEW f \in Packet, NEW q \in Int, q - f \in 0 .. SeqMod - 1
  PROVE  Distance(Seq16(f), Seq16(q)) = q - f
<1> DEFINE n == FirstSeq + f - 1
           m == FirstSeq + q - 1
           r == n % SeqMod
<1>1. SeqMod \in Nat \ {0} /\ n \in Int /\ m \in Int /\ m = n + (q - f) /\ q - f \in Int
  <2>1. FirstSeq \in Nat /\ f \in Nat /\ SeqMod \in Nat \ {0}
    BY Settings
  <2> QED
    BY <2>1
<1>2. PICK k \in Int : n = (k * SeqMod) + r /\ r \in 0 .. SeqMod - 1
  BY <1>1, Quotient
<1>3. ((m % SeqMod) + (-r)) % SeqMod = (m + (-r)) % SeqMod
  <2>1. -r \in Int
    BY <1>2
  <2> HIDE DEF r, m
  <2> QED
    BY <1>1, <2>1, RemainderOfSum
<1>4. (m % SeqMod) + (-r) = (m % SeqMod) - r
  <2>1. m % SeqMod \in Int /\ r \in Int
    BY <1>1, <1>2, Quotient
  <2> QED
    BY <2>1
<1>5. m + (-r) = (k * SeqMod) + (q - f)
  <2>1. r \in Int
    BY <1>2
  <2> HIDE DEF n, r, m
  <2> QED
    BY <1>1, <1>2, <2>1, SMT
<1>6. ((k * SeqMod) + (q - f)) % SeqMod = q - f
  BY <1>1, Remainder
<1>7. Distance(Seq16(f), Seq16(q)) = ((m % SeqMod) - r) % SeqMod
  BY DEF Distance, Seq16
<1> QED
  BY <1>3, <1>4, <1>5, <1>6, <1>7

\* Packets have different numbers, and the number after the last one is free.
LEMMA NumbersDiffer ==
  ASSUME trial \in Trials, NEW f \in Packet, NEW q \in Packet, Seq16(f) = Seq16(q)
  PROVE  f = q
<1>1. /\ f \in Nat /\ q \in Nat /\ SeqMod \in Nat
      /\ (f <= q => q - f \in 0 .. SeqMod - 1) /\ (q <= f => f - q \in 0 .. SeqMod - 1)
  BY Settings
<1>2. CASE f <= q
  <2>1. Distance(Seq16(f), Seq16(q)) = q - f /\ Distance(Seq16(f), Seq16(f)) = f - f
    BY <1>1, <1>2, DistanceIs
  <2> QED
    BY <1>1, <2>1
<1>3. CASE q <= f
  <2>1. Distance(Seq16(q), Seq16(f)) = f - q /\ Distance(Seq16(q), Seq16(q)) = q - q
    BY <1>1, <1>3, DistanceIs
  <2> QED
    BY <1>1, <2>1
<1> QED
  BY <1>1, <1>2, <1>3

LEMMA AfterTheLast ==
  ASSUME trial \in Trials, NEW q \in Packet
  PROVE  Seq16(q) # Seq16(Len(Stream) + 1)
<1> DEFINE n == Len(Stream) + 1
<1>1. q \in Nat /\ n \in Int /\ SeqMod \in Nat /\ n - q \in 0 .. SeqMod - 1 /\ n # q
  BY Settings
<1>2. Distance(Seq16(q), Seq16(n)) = n - q /\ Distance(Seq16(q), Seq16(q)) = q - q
  BY <1>1, DistanceIs
<1> QED
  BY <1>1, <1>2

\* How the number of a packet that was sent before f is reached from there.
LEMMA DistanceAround ==
  ASSUME trial \in Trials, NEW f \in Packet, NEW q \in Packet, q < f
  PROVE  Distance(Seq16(f), Seq16(q)) >= Len(Stream) + 1 - f
<1>1. /\ q \in Nat /\ f \in Nat /\ SeqMod \in Nat \ {0} /\ Len(Stream) + 1 <= SeqMod
      /\ Len(Stream) \in Nat /\ q >= 1 /\ f <= Len(Stream)
      /\ (q + SeqMod) - f \in 0 .. SeqMod - 1 /\ q + SeqMod \in Int
  BY Settings
<1>2. Distance(Seq16(f), Seq16(q + SeqMod)) = (q + SeqMod) - f
  BY <1>1, DistanceIs
<1>3. Seq16(q + SeqMod) = Seq16(q)
  <2>1. (Seq16(q) + SeqMod) % SeqMod = Seq16(q + SeqMod) /\ Seq16(q) \in 0 .. SeqMod - 1
    BY <1>1, Shift DEF SeqNum
  <2>2. ((1 * SeqMod) + Seq16(q)) % SeqMod = Seq16(q)
    <3>1. \A r \in 0 .. SeqMod - 1 : ((1 * SeqMod) + r) % SeqMod = r
      <4>1. SeqMod \in Nat \ {0} /\ 1 \in Int
        BY <1>1
      <4> QED
        BY <4>1, Remainder
    <3> QED
      BY <2>1, <3>1
  <2>3. (1 * SeqMod) + Seq16(q) = Seq16(q) + SeqMod
    BY <1>1, <2>1
  <2> QED
    BY <2>1, <2>2, <2>3
<1>4. (q + SeqMod) - f >= Len(Stream) + 1 - f
  BY <1>1
<1> QED
  BY <1>2, <1>3, <1>4

\* The packets that the walk visits from f on: those behind it, up to a gap
\* (h26x.cc:800-814).
Following(f, seqs) ==
  {q \in Packet : f <= q /\ \A r \in f .. q : Seq16(r) \in seqs}

LEMMA Between ==
  ASSUME trial \in Trials, NEW f \in Packet, NEW q \in Packet, NEW r \in f .. q
  PROVE  r \in Packet
BY Settings

LEMMA WalkIsForward ==
  ASSUME trial \in Trials, NEW seqs, NEW f \in Packet, Seq16(f) \in seqs,
         \A x \in seqs : \E q \in Packet : x = Seq16(q)
  PROVE  ConsecutiveFrom(Seq16(f), seqs) = {Seq16(q) : q \in Following(f, seqs)}
<1> DEFINE s == Seq16(f)
<1>0. /\ SeqMod \in Nat \ {0} /\ f \in Nat /\ Len(Stream) \in Nat /\ Len(Stream) < SeqMod
      /\ f <= Len(Stream) /\ \A q \in Packet : q \in Nat /\ q <= Len(Stream)
  BY Settings
<1>1. ASSUME NEW q \in Following(f, seqs) PROVE Seq16(q) \in ConsecutiveFrom(s, seqs)
  <2>1. q \in Packet /\ f <= q /\ q \in f .. q /\ Seq16(q) \in seqs
    BY <1>0 DEF Following
  <2>2. Distance(s, Seq16(q)) = q - f
    BY <1>0, <2>1, DistanceIs
  <2>3. ASSUME NEW d \in 0 .. q - f PROVE (s + d) % SeqMod \in seqs
    <3>1. d \in Int /\ f + d \in f .. q
      BY <1>0, <2>1
    <3>2. (s + d) % SeqMod = Seq16(f + d)
      BY <3>1, Shift
    <3> QED
      BY <3>1, <3>2 DEF Following
  <2> QED
    BY <2>1, <2>2, <2>3 DEF ConsecutiveFrom
<1>2. ASSUME NEW x \in ConsecutiveFrom(s, seqs)
      PROVE  \E q \in Following(f, seqs) : x = Seq16(q)
  <2>1. x \in seqs /\ \A d \in 0 .. Distance(s, x) : (s + d) % SeqMod \in seqs
    BY DEF ConsecutiveFrom
  <2>2. PICK q \in Packet : x = Seq16(q)
    BY <2>1
  <2>3. CASE f <= q
    <3>1. Distance(s, x) = q - f
      BY <1>0, <2>2, <2>3, DistanceIs
    <3>2. ASSUME NEW r \in f .. q PROVE Seq16(r) \in seqs
      <4>1. r - f \in 0 .. q - f /\ r - f \in Int /\ f + (r - f) = r
        BY <1>0
      <4>2. (s + (r - f)) % SeqMod = Seq16(f + (r - f))
        BY <4>1, Shift
      <4> QED
        BY <2>1, <3>1, <4>1, <4>2
    <3> QED
      BY <2>2, <2>3, <3>2 DEF Following
  <2>4. CASE q < f
    <3> DEFINE n == Len(Stream) + 1
    <3>1. Distance(s, x) >= n - f
      <4>1. Distance(Seq16(f), Seq16(q)) >= Len(Stream) + 1 - f
        BY <2>4, DistanceAround
      <4>2. Distance(s, x) = Distance(Seq16(f), Seq16(q))
        BY <2>2
      <4> HIDE DEF s
      <4>3. Len(Stream) + 1 - f = n - f
        BY <1>0
      <4> HIDE DEF n
      <4> QED
        BY <4>1, <4>2, <4>3, Zenon
    <3>2. Distance(s, x) \in Int
      <4>1. x \in Int /\ s \in Int
        BY <2>2, Shift
      <4>2. \A d \in Int : d % SeqMod \in Int
        BY <1>0, Quotient
      <4>3. x - s \in Int
        BY <4>1
      <4> QED
        BY <4>2, <4>3 DEF Distance
    <3>3. n - f \in 0 .. Distance(s, x) /\ n - f \in Int /\ f + (n - f) = n
      BY <1>0, <3>1, <3>2
    <3>4. (s + (n - f)) % SeqMod = Seq16(f + (n - f))
      BY <3>3, Shift
    <3>5. Seq16(n) \in seqs
      BY <2>1, <3>3, <3>4
    <3> QED
      BY <3>5, AfterTheLast
  <2> QED
    BY <1>0, <2>3, <2>4
<1> QED
  BY <1>1, <1>2 DEF ConsecutiveFrom

-----------------------------------------------------------------------------
(* Fragmented NAL units.                                                   *)

Nal(p) == Stream[p].nals[1]

\* The packets f to l are the fragments of a NAL unit.
Span(f, l) == f \in Packet /\ l \in Packet /\ InFragments(Stream, f, l)

LEMMA FragmentSpan ==
  ASSUME trial \in Trials, NEW p \in Packet, Fragmented(p)
  PROVE  \E f, l \in Packet : Span(f, l) /\ p \in f .. l
<1>1. \A q \in 1 .. Len(trial.stream) :
        \/ Whole(trial.stream, q)
        \/ \E f, l \in 1 .. Len(trial.stream) : q \in f .. l /\ InFragments(trial.stream, f, l)
  BY StreamAssumption
<1>2. ~Whole(Stream, p)
  BY DEF Whole, Fragmented
<1> QED
  BY <1>1, <1>2 DEF Span, Packet, Stream

\* What is used of a span.
LEMMA SpanFacts ==
  ASSUME trial \in Trials, NEW f, NEW l, Span(f, l)
  PROVE  /\ f \in Packet /\ l \in Packet /\ f \in Nat /\ l \in Nat /\ f < l
         /\ f \in f .. l /\ l \in f .. l
         /\ \A q \in f .. l : /\ q \in Packet /\ q \in Nat /\ Fragmented(q) /\ Ts(q) = Ts(f)
                              /\ Nal(q) = Nal(f) /\ Carried(q) = {Nal(f)}
                              /\ Stream[q].type = Stream[f].type
                              /\ (Stream[q].frag = "start") <=> (q = f)
                              /\ (Stream[q].frag = "end") <=> (q = l)
         /\ Nal(f) \in NalUnits /\ PacketsOf(Nal(f)) = f .. l
<1>1. f \in Packet /\ l \in Packet /\ f \in Nat /\ l \in Nat /\ f < l
  BY Settings DEF Span, InFragments
<1>2. f \in f .. l /\ l \in f .. l
  BY <1>1
<1>3. ASSUME NEW q \in f .. l
      PROVE  /\ q \in Packet /\ q \in Nat /\ Fragmented(q) /\ Ts(q) = Ts(f)
             /\ Nal(q) = Nal(f) /\ Carried(q) = {Nal(f)}
             /\ Stream[q].type = Stream[f].type
             /\ (Stream[q].frag = "start") <=> (q = f)
             /\ (Stream[q].frag = "end") <=> (q = l)
  <2>1. q \in Packet
    BY <1>1, Between
  <2>4. /\ Stream[q].ts = Stream[f].ts /\ Stream[q].nals = Stream[f].nals
        /\ Len(Stream[q].nals) = 1 /\ Stream[q].type = Stream[f].type
        /\ Stream[q].frag = IF q = f THEN "start" ELSE IF q = l THEN "end" ELSE "middle"
    BY DEF Span, InFragments
  <2>2. DOMAIN Stream[q].nals = 1 .. 1
    BY <2>1, <2>4, Carries
  <2>3. Carried(q) = {Stream[q].nals[1]}
    BY <2>2 DEF Carried
  <2>5. q \in Nat
    BY <2>1, Settings
  <2>6. Nal(q) = Nal(f) /\ Ts(q) = Ts(f)
    BY <2>4 DEF Nal, Ts
  <2>7. /\ Fragmented(q)
        /\ (Stream[q].frag = "start") <=> (q = f)
        /\ (Stream[q].frag = "end") <=> (q = l)
    BY <1>1, <2>4 DEF Fragmented
  <2> QED
    BY <2>1, <2>3, <2>4, <2>5, <2>6, <2>7 DEF Nal
<1>4. Nal(f) \in NalUnits
  BY <1>1, Carries DEF Nal
<1>5. PacketsOf(Nal(f)) = f .. l
  <2>1. ASSUME NEW q \in Packet, Nal(f) \in Carried(q) PROVE q \in f .. l
    <3>1. PICK j \in DOMAIN Stream[q].nals : Stream[q].nals[j] = Nal(f)
      BY <2>1 DEF Carried
    <3> QED
      BY <3>1 DEF Span, InFragments, Nal, Packet
  <2> QED
    BY <1>3, <2>1 DEF PacketsOf
<1> QED
  BY <1>1, <1>2, <1>3, <1>4, <1>5

\* A fragment is of one NAL unit, and different ones do not overlap.
LEMMA SpansApart ==
  ASSUME trial \in Trials, NEW f, NEW l, NEW g, NEW m, Span(f, l), Span(g, m),
         f # g \/ l # m
  PROVE  /\ l < g \/ m < f
         /\ f # g /\ Nal(f) # Nal(g)
         /\ \A q \in f .. l : q \notin g .. m
<1>0. /\ f \in Nat /\ l \in Nat /\ f < l /\ f \in f .. l /\ f \in Packet
      /\ g \in Nat /\ m \in Nat /\ g < m /\ g \in g .. m /\ g \in Packet
  BY SpanFacts
<1>1. Nal(f) # Nal(g)
  <2>1. SUFFICES ASSUME Nal(f) = Nal(g) PROVE FALSE
    OBVIOUS
  <2>2. f .. l = g .. m
    BY <2>1, SpanFacts
  <2>3. f = g /\ l = m
    BY <1>0, <2>2
  <2> QED
    BY <2>3
<1>2. \A q \in f .. l : q \notin g .. m
  BY <1>1, SpanFacts
<1>3. l < g \/ m < f
  <2>1. f \notin g .. m /\ g \notin f .. l
    BY <1>0, <1>2
  <2> QED
    BY <1>0, <2>1
<1> QED
  BY <1>0, <1>1, <1>2, <1>3

\* A fragment of a later NAL unit of the access unit has overtaken p.
LEMMA OvertakenIfLater ==
  ASSUME trial \in Trials, NEW f, NEW l, Span(f, l), NEW p \in f .. l,
         NEW q \in Packet, Fragmented(q), l < q, Ts(q) = Ts(f), Known(q)
  PROVE  Overtaken(p)
<1>1. p \in Nat /\ p < q /\ Ts(p) = Ts(f) /\ Nal(p) = Nal(f) /\ q \notin f .. l
  <2>1. p \in Nat /\ l \in Nat /\ q \in Nat /\ p <= l
    BY SpanFacts, Settings
  <2> QED
    BY <2>1, SpanFacts
<1>2. Stream[q].nals # Stream[p].nals
  <2>1. Nal(q) \in Carried(q)
    BY Carries DEF Nal
  <2>2. Nal(f) \notin Carried(q)
    <3>1. q \notin PacketsOf(Nal(f))
      BY <1>1, SpanFacts
    <3> QED
      BY <3>1 DEF PacketsOf
  <2> QED
    BY <1>1, <2>1, <2>2 DEF Nal
<1> QED
  BY <1>1, <1>2 DEF Overtaken

-----------------------------------------------------------------------------
(* What the handler holds, in access units aus and fragments frags; x is   *)
(* the access units whose NAL units interleave, dl what was delivered.     *)

In(aus, q) == Ts(q) \in DOMAIN aus /\ Seq16(q) \in aus[Ts(q)].received_packet_seqs

Waits(aus, q) == Ts(q) \in DOMAIN aus /\ Seq16(q) \in aus[Ts(q)].incomplete_packet_seqs

Returned(dl, n) == \E i \in DOMAIN dl : dl[i].nal = n

\* The numbers of an access unit are those of fragments of it (h26x.cc:728-773).
UnitOK(au, t) ==
  /\ au \in AccessUnit
  /\ au.incomplete_packet_seqs \cup au.start \cup au.end \subseteq au.received_packet_seqs
  /\ \A s \in au.received_packet_seqs : \E q \in Packet :
       /\ s = Seq16(q) /\ Ts(q) = t /\ Fragmented(q)
       /\ s \in au.start <=> Stream[q].frag = "start"
       /\ s \in au.end <=> Stream[q].frag = "end"

UnitsOK(aus) ==
  /\ DOMAIN aus \subseteq Timestamps
  /\ \A t \in DOMAIN aus : UnitOK(aus[t], t)

\* A fragment is held under its number, and while it waits it is held.
HeldOK(aus, frags) ==
  /\ frags \in [SeqNum -> Packet \cup {NoFrame}]
  /\ \A s \in SeqNum : frags[s] # NoFrame => Seq16(frags[s]) = s
  /\ \A q \in Packet : Waits(aus, q) => frags[Seq16(q)] = q

NoLeak(aus, frags, x) ==
  \A q \in Packet : frags[Seq16(q)] = q => Waits(aus, q) \/ Ts(q) \in x

\* A NAL unit of which some fragment was used was returned, and all of it used.
Used(aus, x, dl) ==
  \A f, l \in Packet : Span(f, l) /\ Ts(f) \notin x =>
    \A q \in f .. l : In(aus, q) /\ ~Waits(aus, q) =>
      /\ Returned(dl, Nal(f))
      /\ \A r \in f .. l : In(aus, r) /\ ~Waits(aus, r)

Sound(aus, frags, x, dl) ==
  UnitsOK(aus) /\ HeldOK(aus, frags) /\ NoLeak(aus, frags, x) /\ Used(aus, x, dl)

\* A complete NAL unit waits only behind an earlier one, which the search for the
\* start fragment meets first (h26x.cc:781).
Blocked(aus, x) ==
  \A f, l \in Packet :
    Span(f, l) /\ Ts(f) \notin x /\ (\A q \in f .. l : Waits(aus, q)) =>
      \E g, m \in Packet : /\ Span(g, m) /\ g < f /\ Ts(g) = Ts(f)
                           /\ Waits(aus, g) /\ Seq16(g) < Seq16(f)

LEMMA WaitingIsFragment ==
  ASSUME trial \in Trials, NEW aus, UnitsOK(aus), NEW q \in Packet
  PROVE  /\ Waits(aus, q) => In(aus, q)
         /\ In(aus, q) => /\ Fragmented(q) /\ Ts(q) \in Timestamps
                          /\ Seq16(q) \in aus[Ts(q)].start <=> Stream[q].frag = "start"
                          /\ Seq16(q) \in aus[Ts(q)].end <=> Stream[q].frag = "end"
<1>1. Waits(aus, q) => In(aus, q)
  BY DEF Waits, In, UnitsOK, UnitOK
<1>2. ASSUME In(aus, q)
      PROVE  /\ Fragmented(q) /\ Ts(q) \in Timestamps
             /\ Seq16(q) \in aus[Ts(q)].start <=> Stream[q].frag = "start"
             /\ Seq16(q) \in aus[Ts(q)].end <=> Stream[q].frag = "end"
  <2>1. PICK r \in Packet :
          /\ Seq16(q) = Seq16(r) /\ Fragmented(r)
          /\ Seq16(q) \in aus[Ts(q)].start <=> Stream[r].frag = "start"
          /\ Seq16(q) \in aus[Ts(q)].end <=> Stream[r].frag = "end"
    BY <1>2 DEF In, UnitsOK, UnitOK
  <2>2. r = q
    BY <2>1, NumbersDiffer
  <2> QED
    BY <2>1, <2>2, <1>2 DEF In, UnitsOK
<1> QED
  BY <1>1, <1>2

\* access_units_ and fragments_ with the fragment p (h26x.cc:728-773).
Units(p) == Updated(Ts(p), WithFragment(p))
Frags(p) == [fragments_ EXCEPT ![Seq16(p)] = p]

LEMMA NewUnit ==
  ASSUME trial \in Trials, now \in 0 .. MaxTime, UnitsOK(access_units_),
         NEW p \in Packet, Fragmented(p), ~Known(p)
  PROVE  /\ UnitsOK(Units(p)) /\ UnitOK(WithFragment(p), Ts(p))
         /\ Ts(p) \in DOMAIN Units(p) /\ Units(p)[Ts(p)] = WithFragment(p)
         /\ DOMAIN Units(p) = DOMAIN access_units_ \cup {Ts(p)}
         /\ \A t \in DOMAIN access_units_ : t # Ts(p) => Units(p)[t] = access_units_[t]
         /\ ~In(access_units_, p) /\ ~Waits(access_units_, p)
         /\ \A q \in Packet : Waits(Units(p), q) <=> Waits(access_units_, q) \/ q = p
         /\ \A q \in Packet : In(Units(p), q) <=> In(access_units_, q) \/ q = p
<1> DEFINE t  == Ts(p)
           s  == Seq16(p)
           au == IF t \in DOMAIN access_units_ THEN access_units_[t]
                 ELSE initialize_new_access_unit
           new == WithFragment(p)
<1>1. t \in Timestamps /\ s \in SeqNum
  BY Settings, Shift
<1>2. UnitOK(au, t)
  BY DEF UnitsOK, UnitOK, initialize_new_access_unit, AccessUnit
<1>3. s \notin au.received_packet_seqs
  BY DEF Known, initialize_new_access_unit
<1>4. /\ new.sframe_time = au.sframe_time
      /\ new.received_packet_seqs = au.received_packet_seqs \cup {s}
      /\ new.incomplete_packet_seqs = au.incomplete_packet_seqs \cup {s}
      /\ new.start = au.start \cup (IF Stream[p].frag = "start" THEN {s} ELSE {})
      /\ new.end = au.end \cup (IF Stream[p].frag = "end" THEN {s} ELSE {})
      /\ new = [sframe_time |-> new.sframe_time, received_packet_seqs |-> new.received_packet_seqs,
                incomplete_packet_seqs |-> new.incomplete_packet_seqs,
                start |-> new.start, end |-> new.end]
  BY DEF WithFragment
<1>5. UnitOK(new, t)
  <2>1. new \in AccessUnit
    BY <1>1, <1>2, <1>4 DEF UnitOK, AccessUnit
  <2>2. /\ new.incomplete_packet_seqs \cup new.start \cup new.end \subseteq new.received_packet_seqs
        /\ s \in new.start <=> Stream[p].frag = "start"
        /\ s \in new.end <=> Stream[p].frag = "end"
        /\ \A r \in au.received_packet_seqs :
             (r \in new.start <=> r \in au.start) /\ (r \in new.end <=> r \in au.end)
    BY <1>2, <1>3, <1>4 DEF UnitOK
  <2>3. ASSUME NEW r \in new.received_packet_seqs
        PROVE  \E q \in Packet :
                 /\ r = Seq16(q) /\ Ts(q) = t /\ Fragmented(q)
                 /\ r \in new.start <=> Stream[q].frag = "start"
                 /\ r \in new.end <=> Stream[q].frag = "end"
    <3>1. CASE r \in au.received_packet_seqs
      <4> HIDE DEF new, au
      <4> QED
        BY <1>2, <2>2, <3>1 DEF UnitOK
    <3>2. CASE r = s
      <4> HIDE DEF new, au
      <4> QED
        BY <2>2, <3>2
    <3> QED
      BY <1>4, <3>1, <3>2
  <2> QED
    BY <2>1, <2>2, <2>3 DEF UnitOK
<1>6. /\ Ts(p) \in DOMAIN Units(p) /\ Units(p)[Ts(p)] = new
      /\ DOMAIN Units(p) = DOMAIN access_units_ \cup {Ts(p)}
      /\ \A u \in DOMAIN access_units_ : u # Ts(p) => Units(p)[u] = access_units_[u]
  BY DEF Units, Updated
<1>7. UnitsOK(Units(p))
  BY <1>1, <1>5, <1>6 DEF UnitsOK
<1>8. ~In(access_units_, p) /\ ~Waits(access_units_, p)
  BY <1>3, WaitingIsFragment DEF In
<1>9. ASSUME NEW q \in Packet
      PROVE  /\ Waits(Units(p), q) <=> Waits(access_units_, q) \/ q = p
             /\ In(Units(p), q) <=> In(access_units_, q) \/ q = p
  <2>1. Seq16(q) = s <=> q = p
    BY NumbersDiffer
  <2>2. CASE Ts(q) = t
    <3>1. /\ Waits(access_units_, q) <=> Seq16(q) \in au.incomplete_packet_seqs
          /\ In(access_units_, q) <=> Seq16(q) \in au.received_packet_seqs
      BY <2>2 DEF Waits, In, initialize_new_access_unit
    <3>2. /\ Waits(Units(p), q) <=> Seq16(q) \in new.incomplete_packet_seqs
          /\ In(Units(p), q) <=> Seq16(q) \in new.received_packet_seqs
      BY <1>6, <2>2 DEF Waits, In
    <3> QED
      BY <1>4, <2>1, <3>1, <3>2
  <2>3. CASE Ts(q) # t
    BY <1>6, <2>3 DEF Waits, In
  <2> QED
    BY <2>2, <2>3
<1> QED
  BY <1>5, <1>6, <1>7, <1>8, <1>9

LEMMA NewFragment ==
  ASSUME trial \in Trials, now \in 0 .. MaxTime, NEW x, NEW y, x \subseteq y,
         Sound(access_units_, fragments_, x, delivered),
         NEW p \in Packet, Fragmented(p), ~Known(p)
  PROVE  Sound(Units(p), Frags(p), y, delivered)
<1>1. UnitsOK(access_units_)
  BY DEF Sound
<1>2. /\ UnitsOK(Units(p))
      /\ ~In(access_units_, p) /\ ~Waits(access_units_, p)
      /\ \A q \in Packet : Waits(Units(p), q) <=> Waits(access_units_, q) \/ q = p
      /\ \A q \in Packet : In(Units(p), q) <=> In(access_units_, q) \/ q = p
  BY <1>1, NewUnit
<1>3. /\ Seq16(p) \in SeqNum /\ Frags(p)[Seq16(p)] = p
      /\ \A s \in SeqNum : s # Seq16(p) => Frags(p)[s] = fragments_[s]
      /\ \A q \in Packet : q # p => Seq16(q) \in SeqNum /\ Frags(p)[Seq16(q)] = fragments_[Seq16(q)]
  <2>1. fragments_ \in [SeqNum -> Packet \cup {NoFrame}]
    BY DEF Sound, HeldOK
  <2>2. \A q \in Packet : Seq16(q) \in SeqNum /\ (q # p => Seq16(q) # Seq16(p))
    BY Shift, NumbersDiffer
  <2> QED
    BY <2>1, <2>2 DEF Frags
<1>4. HeldOK(Units(p), Frags(p))
  <2>1. Frags(p) \in [SeqNum -> Packet \cup {NoFrame}]
    BY DEF Sound, HeldOK, Frags
  <2> QED
    BY <1>2, <1>3, <2>1 DEF Sound, HeldOK
<1>5. NoLeak(Units(p), Frags(p), y)
  BY <1>2, <1>3 DEF Sound, NoLeak
<1>6. Used(Units(p), y, delivered)
  <2> SUFFICES ASSUME NEW f \in Packet, NEW l \in Packet, Span(f, l), Ts(f) \notin y,
                      NEW q \in f .. l, In(Units(p), q), ~Waits(Units(p), q)
               PROVE  /\ Returned(delivered, Nal(f))
                      /\ \A r \in f .. l : In(Units(p), r) /\ ~Waits(Units(p), r)
    BY DEF Used
  <2>1. \A r \in f .. l : r \in Packet
    BY Between
  <2>2. In(access_units_, q) /\ ~Waits(access_units_, q) /\ Ts(f) \notin x
    BY <1>2, <2>1
  <2>3. /\ Returned(delivered, Nal(f))
        /\ \A r \in f .. l : In(access_units_, r) /\ ~Waits(access_units_, r)
    BY <2>2 DEF Sound, Used
  <2>4. \A r \in f .. l : r # p
    BY <1>2, <2>3
  <2> QED
    BY <1>2, <2>1, <2>3, <2>4
<1> QED
  BY <1>2, <1>4, <1>5, <1>6 DEF Sound

-----------------------------------------------------------------------------
(* The search for a NAL unit to put together (h26x.cc:778-821).            *)

\* The walk starts at the first fragment of a NAL unit.
LEMMA SearchStarts ==
  ASSUME trial \in Trials, NEW t, NEW au, UnitOK(au, t),
         au.incomplete_packet_seqs \cap au.start # {}
  PROVE  \E f, l \in Packet :
           /\ Span(f, l) /\ Ts(f) = t
           /\ Seq16(f) = FirstStart(au) /\ Seq16(f) \in au.incomplete_packet_seqs
           /\ \A g, m \in Packet : /\ Span(g, m) /\ Ts(g) = t
                                   /\ Seq16(g) \in au.incomplete_packet_seqs
                                   => Seq16(f) <= Seq16(g)
<1> DEFINE starts == au.incomplete_packet_seqs \cap au.start
           s == FirstStart(au)
<1>0. /\ au.incomplete_packet_seqs \subseteq au.received_packet_seqs
      /\ \A r \in au.received_packet_seqs : \E q \in Packet :
           /\ r = Seq16(q) /\ Ts(q) = t /\ Fragmented(q)
           /\ r \in au.start <=> Stream[q].frag = "start"
  BY DEF UnitOK
<1>1. s \in starts /\ \A r \in starts : s <= r
  <2>1. starts \in SUBSET Nat
    <3>1. \A q \in Packet : Seq16(q) \in Nat
      BY Shift
    <3> QED
      BY <1>0, <3>1
  <2>2. \E m \in starts : \A r \in starts : m <= r
    <3>1. starts # {}
      OBVIOUS
    <3> HIDE DEF starts
    <3> QED
      BY <2>1, <3>1, Smallest
  <2>3. s = CHOOSE m \in starts : \A r \in starts : m <= r
    BY DEF FirstStart
  <2> HIDE DEF starts, s
  <2> QED
    BY <2>2, <2>3
<1>2. PICK f \in Packet : s = Seq16(f) /\ Ts(f) = t /\ Fragmented(f) /\ Stream[f].frag = "start"
  <2>1. s \in au.received_packet_seqs /\ s \in au.start
    BY <1>0, <1>1
  <2> HIDE DEF s
  <2> QED
    BY <1>0, <2>1
<1>3. PICK g, l \in Packet : Span(g, l) /\ f \in g .. l
  BY <1>2, FragmentSpan
<1>4. f = g
  BY <1>2, <1>3, SpanFacts
<1>5. ASSUME NEW h \in Packet, NEW m \in Packet, Span(h, m), Ts(h) = t,
             Seq16(h) \in au.incomplete_packet_seqs
      PROVE  s <= Seq16(h)
  <2>1. Stream[h].frag = "start"
    BY <1>5, SpanFacts
  <2>2. PICK q \in Packet : /\ Seq16(h) = Seq16(q)
                            /\ Seq16(h) \in au.start <=> Stream[q].frag = "start"
    BY <1>0, <1>5
  <2>3. q = h
    BY <2>2, NumbersDiffer
  <2> HIDE DEF s
  <2> QED
    BY <1>1, <1>5, <2>1, <2>2, <2>3
<1> QED
  <2> HIDE DEF s
  <2>1. Seq16(f) = s /\ s \in au.incomplete_packet_seqs
    BY <1>1, <1>2
  <2> QED
    BY <1>2, <1>3, <1>4, <1>5, <2>1 DEF s

\* What the walk visits.
LEMMA WalkVisits ==
  ASSUME trial \in Trials, NEW t, NEW au, UnitOK(au, t),
         NEW f \in Packet, Seq16(f) \in au.incomplete_packet_seqs
  PROVE  /\ ConsecutiveFrom(Seq16(f), au.incomplete_packet_seqs) =
              {Seq16(q) : q \in Following(f, au.incomplete_packet_seqs)}
         /\ \A q \in Following(f, au.incomplete_packet_seqs) :
              /\ q \in Packet /\ f <= q /\ Ts(q) = t /\ Fragmented(q)
              /\ Seq16(q) \in au.incomplete_packet_seqs
              /\ Seq16(q) \in au.end <=> Stream[q].frag = "end"
              /\ \A r \in f .. q : r \in Following(f, au.incomplete_packet_seqs)
<1> DEFINE seqs == au.incomplete_packet_seqs
<1>1. \A r \in seqs : \E q \in Packet :
        /\ r = Seq16(q) /\ Ts(q) = t /\ Fragmented(q)
        /\ r \in au.end <=> Stream[q].frag = "end"
  BY DEF UnitOK
<1>2. ConsecutiveFrom(Seq16(f), seqs) = {Seq16(q) : q \in Following(f, seqs)}
  <2>1. \A r \in seqs : \E q \in Packet : r = Seq16(q)
    BY <1>1
  <2> HIDE DEF seqs
  <2> QED
    BY <2>1, WalkIsForward DEF seqs
<1>3. ASSUME NEW q \in Following(f, seqs)
      PROVE  /\ q \in Packet /\ f <= q /\ Ts(q) = t /\ Fragmented(q) /\ Seq16(q) \in seqs
             /\ Seq16(q) \in au.end <=> Stream[q].frag = "end"
             /\ \A r \in f .. q : r \in Following(f, seqs)
  <2>1. q \in Packet /\ f <= q /\ f \in Nat /\ q \in Nat
    BY Settings DEF Following
  <2>2. \A r \in f .. q : Seq16(r) \in seqs /\ r \in Packet
    BY <2>1, Between DEF Following
  <2>3. Seq16(q) \in seqs
    BY <2>1, <2>2
  <2>4. PICK o \in Packet : /\ Seq16(q) = Seq16(o) /\ Ts(o) = t /\ Fragmented(o)
                            /\ Seq16(q) \in au.end <=> Stream[o].frag = "end"
    BY <1>1, <2>3
  <2>5. o = q
    BY <2>1, <2>4, NumbersDiffer
  <2>6. \A r \in f .. q : r \in Following(f, seqs)
    <3> TAKE r \in f .. q
    <3>1. \A u \in f .. r : u \in f .. q
      BY <2>1
    <3> QED
      BY <2>1, <2>2, <3>1 DEF Following
  <2> QED
    BY <2>1, <2>3, <2>4, <2>5, <2>6
<1> QED
  BY <1>2, <1>3

\* If it meets an end fragment, it meets that of the NAL unit it started in first.
LEMMA WalkEnds ==
  ASSUME trial \in Trials, NEW t, NEW au, UnitOK(au, t),
         NEW f \in Packet, NEW l \in Packet, Span(f, l),
         Seq16(f) \in au.incomplete_packet_seqs,
         NEW run, run = ConsecutiveFrom(Seq16(f), au.incomplete_packet_seqs)
  PROVE  /\ (\A q \in f .. l : Seq16(q) \in au.incomplete_packet_seqs) <=> run \cap au.end # {}
         /\ run \cap au.end # {} =>
              /\ \A q \in f .. l : q \in Following(f, au.incomplete_packet_seqs)
              /\ FirstEnd(Seq16(f), run, au) = Seq16(l)
              /\ Distance(Seq16(f), Seq16(l)) = l - f
              /\ UpTo(Seq16(f), Seq16(l), run) = {Seq16(q) : q \in f .. l}
<1> DEFINE seqs == au.incomplete_packet_seqs
           s == Seq16(f)
<1>0. /\ f \in Nat /\ l \in Nat /\ f < l /\ f \in f .. l /\ l \in f .. l
      /\ \A q \in f .. l : q \in Packet /\ q \in Nat /\ (Stream[q].frag = "end" <=> q = l)
  BY SpanFacts
<1>1. /\ run = {Seq16(q) : q \in Following(f, seqs)}
      /\ \A q \in Following(f, seqs) :
           /\ q \in Packet /\ q \in Nat /\ f <= q /\ Seq16(q) \in seqs
           /\ Seq16(q) \in au.end <=> Stream[q].frag = "end"
           /\ \A r \in f .. q : r \in Following(f, seqs)
  BY WalkVisits, Settings
<1>2. ASSUME \A q \in f .. l : Seq16(q) \in seqs PROVE run \cap au.end # {}
  <2>1. l \in Following(f, seqs)
    BY <1>0, <1>2 DEF Following
  <2>2. Seq16(l) \in run /\ Seq16(l) \in au.end
    BY <1>0, <1>1, <2>1
  <2> QED
    BY <2>2
<1>3. ASSUME NEW e \in run \cap au.end
      PROVE  /\ \A q \in f .. l : q \in Following(f, seqs)
             /\ l - f <= Distance(s, e) /\ Distance(s, e) \in Int
  <2>1. PICK q \in Following(f, seqs) : e = Seq16(q)
    BY <1>1
  <2>2. q \in Packet /\ q \in Nat /\ f <= q /\ Stream[q].frag = "end"
    BY <1>1, <2>1
  <2>3. l <= q
    BY <1>0, <2>2
  <2>4. \A r \in f .. l : r \in f .. q
    BY <1>0, <2>2, <2>3
  <2>5. q - f \in 0 .. SeqMod - 1
    BY <1>0, <2>2, Settings
  <2>6. Distance(s, Seq16(q)) = q - f
    <3>1. q \in Int
      BY <2>2
    <3> QED
      BY <2>5, <3>1, DistanceIs, Zenon
  <2> QED
    BY <1>0, <1>1, <2>1, <2>2, <2>3, <2>4, <2>6
<1>4. ASSUME run \cap au.end # {}
      PROVE  /\ FirstEnd(s, run, au) = Seq16(l)
             /\ Distance(s, Seq16(l)) = l - f
             /\ UpTo(s, Seq16(l), run) = {Seq16(q) : q \in f .. l}
  <2>1. l \in Following(f, seqs) /\ \A q \in f .. l : q \in Following(f, seqs)
    BY <1>0, <1>3, <1>4
  <2>2. \A q \in Following(f, seqs) : Distance(s, Seq16(q)) = q - f
    <3> TAKE q \in Following(f, seqs)
    <3>1. q \in Packet /\ q \in Nat /\ f <= q
      BY <1>1
    <3>2. q - f \in 0 .. SeqMod - 1
      BY <1>0, <3>1, Settings
    <3> QED
      BY <3>1, <3>2, DistanceIs
  <2>3. Distance(s, Seq16(l)) = l - f
    BY <2>1, <2>2
  <2>4. Seq16(l) \in run \cap au.end
    BY <1>0, <1>1, <2>1
  <2>5. \A e \in run \cap au.end : Distance(s, Seq16(l)) <= Distance(s, e)
    BY <1>3, <2>3
  <2>6. ASSUME NEW e \in run \cap au.end,
               \A r \in run \cap au.end : Distance(s, e) <= Distance(s, r)
        PROVE  e = Seq16(l)
    <3>1. PICK q \in Following(f, seqs) : e = Seq16(q)
      BY <1>1
    <3>2. Distance(s, e) = q - f /\ q \in Nat /\ q \in Packet
      BY <1>1, <2>2, <3>1
    <3>3. Distance(s, e) <= l - f /\ l - f <= Distance(s, e)
      BY <1>3, <2>3, <2>4, <2>6
    <3>4. q = l
      BY <1>0, <3>2, <3>3
    <3> QED
      BY <3>1, <3>4
  <2>7. FirstEnd(s, run, au) = Seq16(l)
    <3> DEFINE First(e) == \A r \in run \cap au.end : Distance(s, e) <= Distance(s, r)
    <3>1. First(Seq16(l)) /\ \A e \in run \cap au.end : First(e) => e = Seq16(l)
      BY <2>5, <2>6
    <3>2. FirstEnd(s, run, au) = CHOOSE e \in run \cap au.end : First(e)
      BY DEF FirstEnd
    <3> HIDE DEF First, s
    <3> QED
      BY <2>4, <3>1, <3>2
  <2>8. UpTo(s, Seq16(l), run) = {Seq16(q) : q \in f .. l}
    <3>1. ASSUME NEW q \in f .. l PROVE Seq16(q) \in UpTo(s, Seq16(l), run)
      <4>1. Seq16(q) \in run
        BY <1>1, <2>1
      <4>2. Distance(s, Seq16(q)) = q - f
        BY <2>1, <2>2
      <4>3. q - f <= l - f
        BY <1>0
      <4>4. Distance(s, Seq16(q)) <= Distance(s, Seq16(l))
        BY <2>3, <4>2, <4>3
      <4> QED
        BY <4>1, <4>4 DEF UpTo
    <3>2. ASSUME NEW e \in UpTo(s, Seq16(l), run) PROVE \E q \in f .. l : e = Seq16(q)
      <4>1. e \in run /\ Distance(s, e) <= l - f
        BY <2>3 DEF UpTo
      <4>2. PICK q \in Following(f, seqs) : e = Seq16(q)
        BY <1>1, <4>1
      <4>3. q - f <= l - f /\ q \in Nat /\ f <= q
        BY <1>1, <2>2, <4>1, <4>2
      <4>4. q \in f .. l
        BY <1>0, <4>3
      <4> QED
        BY <4>2, <4>4
    <3> QED
      BY <3>1, <3>2 DEF UpTo
  <2> QED
    BY <2>3, <2>7, <2>8
<1>5. ASSUME run \cap au.end # {} PROVE \A q \in f .. l : q \in Following(f, seqs) /\ Seq16(q) \in seqs
  BY <1>1, <1>3, <1>5
<1> QED
  BY <1>2, <1>4, <1>5

\* What follows the NAL unit is another one.
LEMMA WalkGoesOn ==
  ASSUME trial \in Trials, NEW t, NEW au, UnitOK(au, t),
         NEW f \in Packet, NEW l \in Packet, Span(f, l),
         Seq16(f) \in au.incomplete_packet_seqs,
         NEW run, run = ConsecutiveFrom(Seq16(f), au.incomplete_packet_seqs),
         run \cap au.end # {}
  PROVE  /\ run \cap au.end # {Seq16(l)} => run # {Seq16(q) : q \in f .. l}
         /\ run # {Seq16(q) : q \in f .. l} =>
              \E q \in Packet : /\ l < q /\ Fragmented(q) /\ Ts(q) = t
                                /\ Seq16(q) \in au.incomplete_packet_seqs
<1> DEFINE seqs == au.incomplete_packet_seqs
<1>0. /\ f \in Nat /\ l \in Nat /\ f < l /\ f \in f .. l /\ l \in f .. l
      /\ \A q \in f .. l : q \in Packet /\ q \in Nat /\ (Stream[q].frag = "end" <=> q = l)
  BY SpanFacts
<1>1. /\ run = {Seq16(q) : q \in Following(f, seqs)}
      /\ \A q \in Following(f, seqs) :
           /\ q \in Packet /\ q \in Nat /\ f <= q /\ Seq16(q) \in seqs
           /\ Ts(q) = t /\ Fragmented(q)
           /\ Seq16(q) \in au.end <=> Stream[q].frag = "end"
  BY WalkVisits, Settings
<1>2. \A q \in f .. l : q \in Following(f, seqs)
  BY WalkEnds
<1>3. ASSUME run = {Seq16(q) : q \in f .. l} PROVE run \cap au.end = {Seq16(l)}
  <2>1. \A q \in f .. l : Seq16(q) \in au.end <=> q = l
    BY <1>0, <1>1, <1>2
  <2> QED
    BY <1>0, <1>3, <2>1
<1>4. ASSUME run # {Seq16(q) : q \in f .. l}
      PROVE  \E q \in Packet : l < q /\ Fragmented(q) /\ Ts(q) = t /\ Seq16(q) \in seqs
  <2>1. PICK q \in Following(f, seqs) : q \notin f .. l
    BY <1>1, <1>2, <1>4
  <2>2. l < q
    BY <1>0, <1>1, <2>1
  <2> QED
    BY <1>1, <2>1, <2>2
<1> QED
  BY <1>3, <1>4

\* What is copied: the fragments of the NAL unit in order (h26x.cc:1011-1022).
LEMMA PiecesInOrder ==
  ASSUME trial \in Trials, NEW f \in Packet, NEW l \in Packet, Span(f, l), NEW frags,
         \A q \in f .. l : frags[Seq16(q)] = q
  PROVE  /\ Pieces(Seq16(f), Seq16(l), frags) = [k \in 1 .. (l - f) + 1 |-> (f + k) - 1]
         /\ Pieces(Seq16(f), Seq16(l), frags) \in Seq(Packet)
<1> DEFINE m == (l - f) + 1
<1>0. f \in Nat /\ l \in Nat /\ f < l /\ m \in Nat /\ \A q \in f .. l : q \in Packet
  BY SpanFacts
<1>1. Distance(Seq16(f), Seq16(l)) = l - f
  <2>1. l - f \in 0 .. SeqMod - 1
    BY <1>0, Settings
  <2> QED
    BY <1>0, <2>1, DistanceIs
<1>2. ASSUME NEW k \in 1 .. m PROVE frags[(Seq16(f) + k - 1) % SeqMod] = (f + k) - 1
  <2>1. k - 1 \in Int /\ f + (k - 1) = (f + k) - 1 /\ (f + k) - 1 \in f .. l
    BY <1>0
  <2>2. (Seq16(f) + (k - 1)) % SeqMod = Seq16(f + (k - 1)) /\ Seq16(f) \in Nat
    BY <2>1, Shift
  <2>3. Seq16(f) + k - 1 = Seq16(f) + (k - 1)
    BY <2>1, <2>2
  <2>4. frags[Seq16((f + k) - 1)] = (f + k) - 1
    BY <2>1
  <2> QED
    BY <2>1, <2>2, <2>3, <2>4
<1>3. Pieces(Seq16(f), Seq16(l), frags) = [k \in 1 .. m |-> (f + k) - 1]
  BY <1>1, <1>2 DEF Pieces
<1>4. \A k \in 1 .. m : (f + k) - 1 \in f .. l
  BY <1>0
<1>5. [k \in 1 .. m |-> (f + k) - 1] \in Seq(Packet)
  BY <1>0, <1>4
<1> QED
  BY <1>3, <1>5

-----------------------------------------------------------------------------
(* Dropping access units (h26x.cc:555-592).                                *)

LEMMA NumberWaits ==
  ASSUME NEW aus, UnitsOK(aus), NEW t \in DOMAIN aus, NEW s \in aus[t].incomplete_packet_seqs
  PROVE  \E q \in Packet : s = Seq16(q) /\ Ts(q) = t /\ Waits(aus, q)
<1>1. s \in aus[t].received_packet_seqs
  BY DEF UnitsOK, UnitOK
<1>2. PICK q \in Packet : s = Seq16(q) /\ Ts(q) = t
  BY <1>1 DEF UnitsOK, UnitOK
<1> QED
  BY <1>2 DEF Waits

\* It dereferences fragments that are held, frees those of the access units that
\* go, and keeps the others.
LEMMA DropKeeps ==
  ASSUME trial \in Trials, NEW aus, NEW frags, NEW x, NEW dl, Sound(aus, frags, x, dl),
         NEW tss \in SUBSET DOMAIN aus, Blocked(aus, x \cup tss),
         NEW discard \in BOOLEAN, dropped_ts_ \in SUBSET Timestamps,
         drop_access_unit(tss, aus, frags, discard)
  PROVE  /\ Sound(access_units_', fragments_', x, dl) /\ Blocked(access_units_', x)
         /\ crashed' = FALSE
         /\ discard_until_key_frame_' = (discard \/ tss # {})
         /\ discard_until_key_frame_' \in BOOLEAN
         /\ dropped_ts_' \in SUBSET Timestamps
         /\ \A q \in Packet : Waits(access_units_', q) => Waits(aus, q)
<1> DEFINE held == UNION {aus[t].incomplete_packet_seqs : t \in tss}
<1>1. UnitsOK(aus) /\ HeldOK(aus, frags) /\ NoLeak(aus, frags, x) /\ Used(aus, x, dl)
  BY DEF Sound
<1>2. /\ DOMAIN access_units_' = DOMAIN aus \ tss
      /\ \A t \in DOMAIN aus \ tss : access_units_'[t] = aus[t]
      /\ DOMAIN fragments_' = SeqNum
      /\ \A s \in SeqNum : fragments_'[s] = IF s \in held THEN NoFrame ELSE frags[s]
      /\ fragments_' = [s \in SeqNum |-> IF s \in held THEN NoFrame ELSE frags[s]]
      /\ discard_until_key_frame_' = (discard \/ tss # {})
      /\ dropped_ts_' = Newest(dropped_ts_ \cup tss)
  BY DEF drop_access_unit
<1>3. \A q \in Packet : Seq16(q) \in held <=> Waits(aus, q) /\ Ts(q) \in tss
  <2> TAKE q \in Packet
  <2>1. ASSUME Waits(aus, q), Ts(q) \in tss PROVE Seq16(q) \in held
    BY <2>1 DEF Waits
  <2>2. ASSUME Seq16(q) \in held PROVE Waits(aus, q) /\ Ts(q) \in tss
    <3>1. PICK t \in tss : Seq16(q) \in aus[t].incomplete_packet_seqs
      BY <2>2
    <3>2. PICK r \in Packet : Seq16(q) = Seq16(r) /\ Ts(r) = t /\ Waits(aus, r)
      BY <1>1, <3>1, NumberWaits
    <3>3. r = q
      BY <3>2, NumbersDiffer
    <3> QED
      BY <3>1, <3>2, <3>3
  <2> QED
    BY <2>1, <2>2
<1>4. \A q \in Packet : /\ Waits(access_units_', q) <=> Waits(aus, q) /\ Ts(q) \notin tss
                        /\ In(access_units_', q) <=> In(aus, q) /\ Ts(q) \notin tss
  BY <1>2 DEF Waits, In
<1>5. crashed' = FALSE
  <2>1. \A s \in held : \E q \in Packet : s = Seq16(q) /\ Waits(aus, q)
    BY <1>1, NumberWaits
  <2>2. \A s \in held : frags[s] # NoFrame
    <3> TAKE s \in held
    <3>1. PICK q \in Packet : s = Seq16(q) /\ Waits(aus, q)
      BY <2>1
    <3> QED
      BY <1>1, <3>1, Settings DEF HeldOK
  <2>3. ASSUME NEW t \in tss, NEW u \in tss, t # u,
               NEW s \in aus[t].incomplete_packet_seqs, s \in aus[u].incomplete_packet_seqs
        PROVE  FALSE
    <3>1. PICK q \in Packet : s = Seq16(q) /\ Ts(q) = t
      BY <1>1, NumberWaits
    <3>2. PICK r \in Packet : s = Seq16(r) /\ Ts(r) = u
      BY <1>1, <2>3, NumberWaits
    <3> QED
      BY <2>3, <3>1, <3>2, NumbersDiffer
  <2> QED
    BY <2>2, <2>3 DEF drop_access_unit
<1>6. UnitsOK(access_units_')
  BY <1>1, <1>2 DEF UnitsOK
<1>7. HeldOK(access_units_', fragments_')
  <2>1. fragments_' \in [SeqNum -> Packet \cup {NoFrame}]
    <3> HIDE DEF held
    <3> QED
      BY <1>1, <1>2 DEF HeldOK
  <2>2. \A s \in SeqNum : fragments_'[s] # NoFrame => Seq16(fragments_'[s]) = s
    <3> HIDE DEF held
    <3> QED
      BY <1>1, <1>2 DEF HeldOK
  <2>3. ASSUME NEW q \in Packet, Waits(access_units_', q) PROVE fragments_'[Seq16(q)] = q
    <3>1. Seq16(q) \notin held /\ Seq16(q) \in SeqNum
      <4>1. \A r \in Packet : Seq16(r) \in SeqNum
        BY Shift
      <4> HIDE DEF held
      <4> QED
        BY <1>3, <1>4, <2>3, <4>1
    <3> HIDE DEF held
    <3> QED
      BY <1>1, <1>2, <1>4, <2>3, <3>1 DEF HeldOK
  <2> QED
    BY <2>1, <2>2, <2>3 DEF HeldOK
<1>8. NoLeak(access_units_', fragments_', x)
  <2> SUFFICES ASSUME NEW q \in Packet, fragments_'[Seq16(q)] = q, Ts(q) \notin x
               PROVE  Waits(access_units_', q)
    BY DEF NoLeak
  <2>1. Seq16(q) \in SeqNum
    <3>1. \A r \in Packet : Seq16(r) \in SeqNum
      BY Shift
    <3> QED
      BY <3>1
  <2>2. q # NoFrame
    BY Settings
  <2> HIDE DEF held
  <2>3. Seq16(q) \notin held /\ frags[Seq16(q)] = q
    BY <1>2, <2>1, <2>2
  <2> QED
    BY <1>1, <1>3, <1>4, <2>3 DEF NoLeak
<1>9. Used(access_units_', x, dl)
  <2> SUFFICES ASSUME NEW f \in Packet, NEW l \in Packet, Span(f, l), Ts(f) \notin x,
                      NEW q \in f .. l, In(access_units_', q), ~Waits(access_units_', q)
               PROVE  /\ Returned(dl, Nal(f))
                      /\ \A r \in f .. l : In(access_units_', r) /\ ~Waits(access_units_', r)
    BY DEF Used
  <2>1. \A r \in f .. l : r \in Packet /\ Ts(r) = Ts(f)
    BY SpanFacts
  <2>2. In(aus, q) /\ ~Waits(aus, q) /\ Ts(f) \notin tss
    BY <1>4, <2>1
  <2>3. Returned(dl, Nal(f)) /\ \A r \in f .. l : In(aus, r) /\ ~Waits(aus, r)
    BY <1>1, <2>2 DEF Used
  <2> QED
    BY <1>4, <2>1, <2>2, <2>3
<1>10. Blocked(access_units_', x)
  <2> SUFFICES ASSUME NEW f \in Packet, NEW l \in Packet, Span(f, l), Ts(f) \notin x,
                      \A q \in f .. l : Waits(access_units_', q)
               PROVE  \E g, m \in Packet : /\ Span(g, m) /\ g < f /\ Ts(g) = Ts(f)
                                           /\ Waits(access_units_', g) /\ Seq16(g) < Seq16(f)
    BY DEF Blocked
  <2>1. \A q \in f .. l : q \in Packet /\ Waits(aus, q) /\ Ts(f) \notin tss
    <3>1. \A r \in f .. l : r \in Packet /\ Ts(r) = Ts(f)
      BY SpanFacts
    <3> QED
      BY <1>4, <3>1
  <2>2. f \in f .. l
    BY SpanFacts
  <2>3. PICK g, m \in Packet : /\ Span(g, m) /\ g < f /\ Ts(g) = Ts(f)
                               /\ Waits(aus, g) /\ Seq16(g) < Seq16(f)
    BY <2>1, <2>2 DEF Blocked
  <2>4. Waits(access_units_', g)
    BY <1>4, <2>1, <2>2, <2>3
  <2> QED
    BY <2>3, <2>4
<1>11. dropped_ts_' \in SUBSET Timestamps
  BY <1>1, <1>2 DEF Newest, UnitsOK
<1> QED
  BY <1>2, <1>4, <1>5, <1>6, <1>7, <1>8, <1>9, <1>10, <1>11 DEF Sound

-----------------------------------------------------------------------------
(* A fragment comes (h26x.cc:715-864).                                     *)

SoundInv ==
  /\ trial \in Trials /\ now \in 0 .. MaxTime
  /\ Sound(access_units_, fragments_, interleaved, delivered)
  /\ Blocked(access_units_, interleaved)

\* interleaved once p is handled.
Mixed(p) == interleaved \cup (IF Overtaken(p) THEN {Ts(p)} ELSE {})

\* The handler has stored p, and a search from the first start fragment, that of
\* the NAL unit of f to l, visits run.
Searched(p, f, l, run) ==
  LET au == WithFragment(p)
  IN /\ p \in Packet /\ Fragmented(p) /\ ~Known(p)
     /\ f \in Packet /\ l \in Packet /\ Span(f, l) /\ Ts(f) = Ts(p)
     /\ Seq16(f) = FirstStart(au) /\ Seq16(f) \in au.incomplete_packet_seqs
     /\ \A g, m \in Packet : /\ Span(g, m) /\ Ts(g) = Ts(p)
                             /\ Seq16(g) \in au.incomplete_packet_seqs
                             => Seq16(f) <= Seq16(g)
     /\ run = ConsecutiveFrom(Seq16(f), au.incomplete_packet_seqs)

LEMMA Searching ==
  ASSUME SoundInv, NEW p \in Packet, Fragmented(p), ~Known(p)
  PROVE  LET au == WithFragment(p)  s == FirstStart(au) IN
         au.incomplete_packet_seqs \cap au.start # {} =>
           \E f, l \in Packet :
             s = Seq16(f) /\ Searched(p, f, l, ConsecutiveFrom(s, au.incomplete_packet_seqs))
<1>1. trial \in Trials /\ UnitOK(WithFragment(p), Ts(p))
  BY NewUnit DEF SoundInv, Sound
<1>2. SUFFICES ASSUME WithFragment(p).incomplete_packet_seqs \cap WithFragment(p).start # {}
               PROVE  \E f, l \in Packet :
                        /\ FirstStart(WithFragment(p)) = Seq16(f)
                        /\ Searched(p, f, l, ConsecutiveFrom(FirstStart(WithFragment(p)),
                                              WithFragment(p).incomplete_packet_seqs))
  OBVIOUS
<1>3. PICK f, l \in Packet :
        /\ Span(f, l) /\ Ts(f) = Ts(p)
        /\ Seq16(f) = FirstStart(WithFragment(p))
        /\ Seq16(f) \in WithFragment(p).incomplete_packet_seqs
        /\ \A g, m \in Packet : /\ Span(g, m) /\ Ts(g) = Ts(p)
                                /\ Seq16(g) \in WithFragment(p).incomplete_packet_seqs
                                => Seq16(f) <= Seq16(g)
  BY <1>1, <1>2, SearchStarts
<1> QED
  BY <1>3 DEF Searched

\* What waits in the access unit of p is in its incomplete_packet_seqs.
LEMMA WaitsHere ==
  ASSUME SoundInv, NEW p \in Packet, Fragmented(p), ~Known(p), NEW q \in Packet, Ts(q) = Ts(p)
  PROVE  /\ Seq16(q) \in WithFragment(p).incomplete_packet_seqs <=> Waits(Units(p), q)
         /\ Waits(Units(p), q) <=> Waits(access_units_, q) \/ q = p
         /\ Waits(access_units_, q) => Known(q)
<1>1. trial \in Trials /\ now \in 0 .. MaxTime /\ UnitsOK(access_units_)
  BY DEF SoundInv, Sound
<1>2. /\ Ts(p) \in DOMAIN Units(p) /\ Units(p)[Ts(p)] = WithFragment(p)
      /\ Waits(Units(p), q) <=> Waits(access_units_, q) \/ q = p
  BY <1>1, NewUnit
<1>3. Waits(access_units_, q) => Known(q)
  BY <1>1, WaitingIsFragment DEF Known, In
<1> QED
  BY <1>2, <1>3 DEF Waits

\* Where NAL units do not interleave, a complete one is that of p, and the walk
\* visits it and no other.
LEMMA FoundInOrder ==
  ASSUME SoundInv, NEW p \in Packet, NEW f, NEW l, NEW run, Searched(p, f, l, run),
         run \cap WithFragment(p).end # {}, Ts(p) \notin Mixed(p)
  PROVE  p \in f .. l /\ run = {Seq16(q) : q \in f .. l}
<1> DEFINE au == WithFragment(p)
<1>1. /\ trial \in Trials /\ UnitsOK(access_units_) /\ UnitOK(au, Ts(p))
      /\ Fragmented(p) /\ ~Known(p)
  BY NewUnit DEF SoundInv, Sound, Searched
<1>2. f \in Packet /\ l \in Packet /\ Span(f, l) /\ Ts(f) = Ts(p) /\ Ts(p) \notin interleaved
      /\ ~Overtaken(p)
  BY DEF Searched, Mixed
<1>3. \A q \in f .. l : /\ q \in Packet /\ q \in Nat /\ Ts(q) = Ts(p)
                        /\ Seq16(q) \in au.incomplete_packet_seqs
  <2>1. \A q \in f .. l : Seq16(q) \in au.incomplete_packet_seqs
    BY <1>1, WalkEnds DEF Searched
  <2> QED
    BY <1>1, <1>2, <2>1, SpanFacts
<1>4. p \in f .. l
  <2> SUFFICES ASSUME p \notin f .. l PROVE FALSE
    OBVIOUS
  <2>1. \A q \in f .. l : Waits(access_units_, q)
    BY <1>1, <1>3, WaitsHere
  <2>2. PICK g, m \in Packet : /\ Span(g, m) /\ g < f /\ Ts(g) = Ts(f)
                               /\ Waits(access_units_, g) /\ Seq16(g) < Seq16(f)
    BY <1>2, <2>1 DEF SoundInv, Blocked
  <2>3. Seq16(g) \in au.incomplete_packet_seqs
    BY <1>1, <1>2, <2>2, WaitsHere
  <2>4. Seq16(f) <= Seq16(g)
    BY <1>2, <2>2, <2>3 DEF Searched
  <2>5. \A q \in Packet : Seq16(q) \in Nat
    BY <1>1, Shift
  <2> QED
    BY <1>2, <2>2, <2>4, <2>5
<1>5. run = {Seq16(q) : q \in f .. l}
  <2> SUFFICES ASSUME run # {Seq16(q) : q \in f .. l} PROVE FALSE
    OBVIOUS
  <2>1. PICK q \in Packet : /\ l < q /\ Fragmented(q) /\ Ts(q) = Ts(p)
                            /\ Seq16(q) \in au.incomplete_packet_seqs
    BY <1>1, WalkGoesOn DEF Searched
  <2>2. q # p
    BY <1>1, <1>2, <1>4, <2>1, Settings
  <2>3. Known(q)
    BY <1>1, <2>1, <2>2, WaitsHere
  <2>4. Overtaken(p)
    BY <1>1, <1>2, <1>4, <2>1, <2>3, OvertakenIfLater
  <2> QED
    BY <1>2, <2>4
<1> QED
  BY <1>4, <1>5

\* If nothing is put together, a NAL unit that is complete now is behind another.
LEMMA StillBlocked ==
  ASSUME SoundInv, NEW p \in Packet, Fragmented(p), ~Known(p),
         NEW au, au = WithFragment(p),
         au.incomplete_packet_seqs \cap au.start # {} =>
           ConsecutiveFrom(FirstStart(au), au.incomplete_packet_seqs) \cap au.end = {}
  PROVE  Blocked(Units(p), Mixed(p))
<1>1. trial \in Trials /\ now \in 0 .. MaxTime /\ UnitsOK(access_units_) /\ UnitOK(au, Ts(p))
      /\ UnitsOK(Units(p)) /\ Units(p)[Ts(p)] = au
  BY NewUnit DEF SoundInv, Sound
<1>2. \A q \in Packet : Waits(Units(p), q) <=> Waits(access_units_, q) \/ q = p
  BY <1>1, NewUnit
<1> SUFFICES ASSUME NEW f \in Packet, NEW l \in Packet, Span(f, l), Ts(f) \notin Mixed(p),
                    \A q \in f .. l : Waits(Units(p), q)
             PROVE  \E g, m \in Packet : /\ Span(g, m) /\ g < f /\ Ts(g) = Ts(f)
                                         /\ Waits(Units(p), g) /\ Seq16(g) < Seq16(f)
  BY DEF Blocked
<1>3. Ts(f) \notin interleaved
  BY DEF Mixed
<1>4. f \in f .. l /\ f \in Nat /\ l \in Nat /\ \A q \in f .. l : q \in Packet /\ Ts(q) = Ts(f)
  BY <1>1, SpanFacts
<1>5. CASE p \notin f .. l
  <2>1. \A q \in f .. l : Waits(access_units_, q)
    BY <1>2, <1>4, <1>5
  <2>2. PICK g, m \in Packet : /\ Span(g, m) /\ g < f /\ Ts(g) = Ts(f)
                               /\ Waits(access_units_, g) /\ Seq16(g) < Seq16(f)
    BY <1>3, <2>1 DEF SoundInv, Blocked
  <2> QED
    BY <1>2, <2>2
<1>6. CASE p \in f .. l
  <2>1. Ts(f) = Ts(p) /\ \A q \in f .. l : Seq16(q) \in au.incomplete_packet_seqs
    BY <1>1, <1>4, <1>6, WaitsHere
  <2>2. Seq16(f) \in au.start
    <3>1. Stream[f].frag = "start"
      BY <1>1, <1>4, SpanFacts
    <3> QED
      BY <1>1, <1>4, <2>1, <3>1, WaitingIsFragment
  <2>3. PICK g, m \in Packet : Searched(p, g, m, ConsecutiveFrom(FirstStart(au), au.incomplete_packet_seqs))
    BY <1>4, <2>1, <2>2, Searching
  <2>4. /\ Span(g, m) /\ Ts(g) = Ts(p) /\ Seq16(g) = FirstStart(au)
        /\ Seq16(g) \in au.incomplete_packet_seqs /\ Seq16(g) <= Seq16(f)
    BY <1>4, <2>1, <2>3 DEF Searched
  <2>5. f # g
    <3> SUFFICES ASSUME f = g PROVE FALSE
      OBVIOUS
    <3>1. ConsecutiveFrom(Seq16(f), au.incomplete_packet_seqs) \cap au.end # {}
      BY <1>1, <1>4, <2>1, WalkEnds
    <3> QED
      BY <1>4, <2>1, <2>2, <2>4, <3>1
  <2>6. Seq16(g) < Seq16(f)
    <3>1. Seq16(g) # Seq16(f)
      BY <1>1, <2>5, NumbersDiffer
    <3>2. \A q \in Packet : Seq16(q) \in Nat
      BY <1>1, Shift
    <3>3. Seq16(g) \in Nat /\ Seq16(f) \in Nat
      BY <3>2
    <3> QED
      BY <2>4, <3>1, <3>3
  <2>7. Waits(Units(p), g)
    BY <2>4, WaitsHere
  <2>8. g < f
    <3> SUFFICES ASSUME ~(g < f) PROVE FALSE
      OBVIOUS
    <3>0. g \in Nat /\ m \in Nat /\ g < m /\ g \in g .. m
      BY <1>1, <2>4, SpanFacts
    <3>1. l < g
      <4>1. l < g \/ m < f
        BY <1>1, <2>4, <2>5, SpansApart
      <4> QED
        BY <1>4, <3>0, <4>1
    <3>2. g # p
      BY <1>4, <1>6, <3>0, <3>1
    <3>3. Known(g) /\ Fragmented(g)
      <4>1. Known(g)
        BY <2>4, <2>7, <3>2, WaitsHere
      <4>2. Fragmented(g)
        BY <1>1, <2>7, WaitingIsFragment
      <4> QED
        BY <4>1, <4>2
    <3>4. Overtaken(p)
      BY <1>1, <1>6, <2>1, <2>4, <3>1, <3>3, OvertakenIfLater
    <3> QED
      BY <2>1, <3>4 DEF Mixed
  <2> QED
    BY <2>1, <2>4, <2>6, <2>7, <2>8
<1> QED
  BY <1>5, <1>6

\* The access units and the fragments when f to l are put together: what the walk
\* visited is no longer incomplete (h26x.cc:834-861).
UnitsLeft(p, run) ==
  Updated(Ts(p), [WithFragment(p) EXCEPT !.incomplete_packet_seqs = @ \ run])

FragsLeft(p, used) == [t \in SeqNum |-> IF t \in used THEN NoFrame ELSE Frags(p)[t]]

LEMMA LeftOver ==
  ASSUME SoundInv, NEW p \in Packet, Fragmented(p), ~Known(p), NEW run
  PROVE  /\ UnitsOK(UnitsLeft(p, run))
         /\ DOMAIN UnitsLeft(p, run) = DOMAIN Units(p)
         /\ \A q \in Packet : /\ In(UnitsLeft(p, run), q) <=> In(Units(p), q)
                              /\ Waits(UnitsLeft(p, run), q) <=>
                                   Waits(Units(p), q) /\ ~(Ts(q) = Ts(p) /\ Seq16(q) \in run)
<1> DEFINE au   == WithFragment(p)
           left == [au EXCEPT !.incomplete_packet_seqs = @ \ run]
           aus  == UnitsLeft(p, run)
<1>1. /\ UnitsOK(Units(p)) /\ UnitOK(au, Ts(p)) /\ Ts(p) \in Timestamps
      /\ Ts(p) \in DOMAIN Units(p) /\ Units(p)[Ts(p)] = au
  BY NewUnit, Settings DEF SoundInv, Sound
<1>2. /\ left.sframe_time = au.sframe_time
      /\ left.received_packet_seqs = au.received_packet_seqs
      /\ left.incomplete_packet_seqs = au.incomplete_packet_seqs \ run
      /\ left.start = au.start /\ left.end = au.end
      /\ left \in AccessUnit
  BY <1>1 DEF UnitOK, AccessUnit
<1>3. UnitOK(left, Ts(p))
  <2> HIDE DEF left, au
  <2> QED
    BY <1>1, <1>2 DEF UnitOK
<1>4. /\ DOMAIN aus = DOMAIN Units(p) /\ aus[Ts(p)] = left
      /\ \A t \in DOMAIN Units(p) : t # Ts(p) => aus[t] = Units(p)[t]
  BY DEF UnitsLeft, Units, Updated
<1> HIDE DEF left, au, aus
<1>5. UnitsOK(aus)
  BY <1>1, <1>3, <1>4 DEF UnitsOK
<1>6. ASSUME NEW q \in Packet
      PROVE  /\ In(aus, q) <=> In(Units(p), q)
             /\ Waits(aus, q) <=> Waits(Units(p), q) /\ ~(Ts(q) = Ts(p) /\ Seq16(q) \in run)
  <2>1. CASE Ts(q) = Ts(p)
    BY <1>1, <1>2, <1>4, <2>1 DEF In, Waits
  <2>2. CASE Ts(q) # Ts(p)
    BY <1>4, <2>2 DEF In, Waits
  <2> QED
    BY <2>1, <2>2
<1> QED
  BY <1>4, <1>5, <1>6 DEF aus

LEMMA PutTogether ==
  ASSUME SoundInv, NEW p \in Packet, NEW f, NEW l, NEW run, Searched(p, f, l, run),
         run \cap WithFragment(p).end # {},
         NEW used, used = {Seq16(q) : q \in f .. l},
         NEW dl, \A n : Returned(dl, n) <=> Returned(delivered, n) \/ n = Nal(p)
  PROVE  /\ Sound(UnitsLeft(p, run), FragsLeft(p, used), Mixed(p), dl)
         /\ Blocked(UnitsLeft(p, run), Mixed(p))
<1> DEFINE aus == UnitsLeft(p, run)
           frags == FragsLeft(p, used)
           t == Ts(p)
           x == Mixed(p)
<1>1. /\ trial \in Trials /\ now \in 0 .. MaxTime /\ UnitsOK(access_units_)
      /\ UnitOK(WithFragment(p), Ts(p))
      /\ Fragmented(p) /\ ~Known(p)
      /\ f \in Packet /\ l \in Packet /\ Span(f, l) /\ Ts(f) = t
  BY NewUnit DEF SoundInv, Sound, Searched
<1>2. Sound(Units(p), Frags(p), x, delivered)
  BY <1>1, NewFragment DEF SoundInv, Mixed
<1>3. /\ UnitsOK(aus)
      /\ \A q \in Packet : /\ In(aus, q) <=> In(Units(p), q)
                           /\ Waits(aus, q) <=> Waits(Units(p), q) /\ ~(Ts(q) = t /\ Seq16(q) \in run)
      /\ \A q \in Packet : Waits(Units(p), q) <=> Waits(access_units_, q) \/ q = p
  BY <1>1, LeftOver, NewUnit
<1>4. \A q \in f .. l : /\ q \in Packet /\ Ts(q) = t /\ Nal(q) = Nal(f) /\ q \in Nat
                        /\ Seq16(q) \in run /\ Waits(Units(p), q)
  <2>1. \A q \in f .. l : q \in Packet /\ Ts(q) = t /\ Nal(q) = Nal(f) /\ q \in Nat
    BY <1>1, SpanFacts
  <2>2. /\ run = {Seq16(q) : q \in Following(f, WithFragment(p).incomplete_packet_seqs)}
        /\ \A q \in f .. l : q \in Following(f, WithFragment(p).incomplete_packet_seqs)
    BY <1>1, WalkVisits, WalkEnds DEF Searched
  <2>3. \A q \in f .. l : Seq16(q) \in WithFragment(p).incomplete_packet_seqs
    BY <1>1, <2>2, WalkVisits DEF Searched
  <2> QED
    BY <1>1, <2>1, <2>2, <2>3, WaitsHere
<1>5. t \notin x => p \in f .. l /\ run = used
  BY FoundInOrder
<1>6. \A q \in Packet : Seq16(q) \in used <=> q \in f .. l
  BY <1>1, <1>4, NumbersDiffer
<1>7. \A q \in Packet : Seq16(q) \in SeqNum
  BY <1>1, Shift
<1>8. HeldOK(aus, frags)
  <2>1. HeldOK(Units(p), Frags(p))
    BY <1>2 DEF Sound
  <2>2. frags \in [SeqNum -> Packet \cup {NoFrame}]
    BY <2>1 DEF HeldOK, FragsLeft
  <2>3. \A s \in SeqNum : frags[s] # NoFrame => Seq16(frags[s]) = s
    BY <2>1 DEF HeldOK, FragsLeft
  <2>4. ASSUME NEW q \in Packet, Waits(aus, q) PROVE frags[Seq16(q)] = q
    <3>1. q \notin f .. l /\ Waits(Units(p), q)
      BY <1>3, <1>4, <2>4
    <3> QED
      BY <1>6, <1>7, <2>1, <3>1 DEF HeldOK, FragsLeft
  <2> HIDE DEF aus, frags
  <2> QED
    BY <2>2, <2>3, <2>4 DEF HeldOK
<1>9. NoLeak(aus, frags, x)
  <2> SUFFICES ASSUME NEW q \in Packet, frags[Seq16(q)] = q, Ts(q) \notin x
               PROVE  Waits(aus, q)
    BY DEF NoLeak
  <2>1. q # NoFrame
    BY <1>1, Settings
  <2>2. Seq16(q) \notin used /\ Frags(p)[Seq16(q)] = q
    BY <1>7, <2>1 DEF FragsLeft
  <2>3. Waits(Units(p), q)
    BY <1>2, <2>2 DEF Sound, NoLeak
  <2>4. ~(Ts(q) = t /\ Seq16(q) \in run)
    BY <1>5, <2>2
  <2> QED
    BY <1>3, <2>3, <2>4
<1>10. Used(aus, x, dl)
  <2> SUFFICES ASSUME NEW h \in Packet, NEW m \in Packet, Span(h, m), Ts(h) \notin x,
                      NEW q \in h .. m, In(aus, q), ~Waits(aus, q)
               PROVE  /\ Returned(dl, Nal(h))
                      /\ \A r \in h .. m : In(aus, r) /\ ~Waits(aus, r)
    BY DEF Used
  <2>1. \A r \in h .. m : r \in Packet /\ Ts(r) = Ts(h)
    BY <1>1, SpanFacts
  <2>2. CASE q \in f .. l
    <3>1. h = f /\ m = l
      BY <1>1, <2>2, SpansApart
    <3>2. Nal(p) = Nal(f)
      BY <1>1, <1>4, <1>5, <3>1
    <3>3. \A r \in h .. m : Waits(Units(p), r) /\ Seq16(r) \in run /\ r \in Packet /\ Ts(r) = t
      BY <1>4, <3>1
    <3>4. \A r \in h .. m : In(Units(p), r)
      BY <1>1, <1>2, <3>3, WaitingIsFragment DEF Sound
    <3> QED
      BY <1>3, <3>1, <3>2, <3>3, <3>4
  <2>3. CASE q \notin f .. l
    <3>1. ~Waits(Units(p), q) /\ In(Units(p), q)
      <4>1. ~(Ts(q) = t /\ Seq16(q) \in run)
        BY <1>5, <1>6, <2>1, <2>3
      <4> QED
        BY <1>3, <2>1, <4>1
    <3>2. /\ Returned(delivered, Nal(h))
          /\ \A r \in h .. m : In(Units(p), r) /\ ~Waits(Units(p), r)
      BY <1>2, <3>1 DEF Sound, Used
    <3> QED
      BY <1>3, <2>1, <3>2
  <2> QED
    BY <2>2, <2>3
<1>11. Blocked(aus, x)
  <2> SUFFICES ASSUME NEW h \in Packet, NEW m \in Packet, Span(h, m), Ts(h) \notin x,
                      \A q \in h .. m : Waits(aus, q)
               PROVE  \E g, n \in Packet : /\ Span(g, n) /\ g < h /\ Ts(g) = Ts(h)
                                           /\ Waits(aus, g) /\ Seq16(g) < Seq16(h)
    BY DEF Blocked
  <2>1. \A r \in h .. m : r \in Packet /\ Ts(r) = Ts(h) /\ Fragmented(r)
    BY <1>1, SpanFacts
  <2>2. p \notin h .. m
    <3> SUFFICES ASSUME p \in h .. m PROVE FALSE
      OBVIOUS
    <3>1. t \notin x
      BY <2>1
    <3>2. Seq16(p) \in run
      BY <1>4, <1>5, <3>1
    <3> QED
      BY <1>3, <2>1, <3>2
  <2>3. Ts(h) \notin interleaved /\ \A q \in h .. m : Waits(access_units_, q)
    BY <1>3, <2>1, <2>2 DEF Mixed
  <2>4. PICK g, n \in Packet : /\ Span(g, n) /\ g < h /\ Ts(g) = Ts(h)
                               /\ Waits(access_units_, g) /\ Seq16(g) < Seq16(h)
    BY <2>3 DEF SoundInv, Blocked
  <2>5. Waits(aus, g)
    <3> SUFFICES ASSUME ~Waits(aus, g) PROVE FALSE
      OBVIOUS
    <3>1. Ts(g) = t /\ Seq16(g) \in run
      BY <1>3, <2>4
    <3>2. t \notin x
      BY <2>4, <3>1
    <3>3. p \in f .. l /\ g \in f .. l
      BY <1>5, <1>6, <3>1, <3>2
    <3>4. f = g /\ l = n
      <4>1. g \in g .. n
        BY <1>1, <2>4, SpanFacts
      <4> QED
        BY <1>1, <2>4, <3>3, <4>1, SpansApart
    <3>5. l < h
      <4>1. f # h /\ f < h /\ h \in Nat /\ f \in Nat /\ l \in Nat /\ h < m
        BY <1>1, <2>4, <3>4, SpanFacts
      <4>2. l < h \/ m < f
        BY <1>1, <4>1, SpansApart
      <4>3. m \in Nat
        BY <1>1, SpanFacts
      <4> QED
        BY <4>1, <4>2, <4>3
    <3>6. Known(h) /\ Fragmented(h) /\ Ts(h) = Ts(f)
      <4>1. h \in h .. m
        BY <1>1, SpanFacts
      <4>2. Waits(access_units_, h) /\ Ts(h) = Ts(p) /\ Fragmented(h)
        BY <2>1, <2>3, <2>4, <3>1, <4>1
      <4> QED
        BY <1>1, <4>2, WaitsHere
    <3>7. Overtaken(p)
      BY <1>1, <3>3, <3>5, <3>6, OvertakenIfLater
    <3> QED
      BY <3>2, <3>7 DEF Mixed
  <2> QED
    BY <2>4, <2>5
<1> QED
  BY <1>3, <1>8, <1>9, <1>10, <1>11 DEF Sound

-----------------------------------------------------------------------------
(* The inductive invariant.                                                *)

Delivery == [nal : NalUnits, pieces : Seq(Packet), at : 0 .. MaxTime]

Entry == [key : Timestamps \X SeqNum, arrival : 0 .. MaxTime]

TypeInv ==
  /\ received \in SUBSET Packet /\ lost \in SUBSET (Packet \ received) /\ duplicates \in Nat
  /\ seen_order_ \subseteq Entry
  /\ dropped_ts_ \in SUBSET Timestamps
  /\ discard_until_key_frame_ \in BOOLEAN
  /\ last_garbage_collection_ \in 0 .. MaxTime
  /\ crashed \in BOOLEAN
  /\ delivered \in Seq(Delivery)
  /\ referenceLost \in BOOLEAN
  /\ interleaved \in SUBSET Timestamps

\* d is a NAL unit as it was sent.
WholeUnit(d, x) ==
  /\ \A k, l \in DOMAIN d.pieces : k < l => d.pieces[k] < d.pieces[l]
  /\ \E n \in NalUnits : /\ {d.pieces[k] : k \in DOMAIN d.pieces} = PacketsOf(n)
                         /\ n = d.nal \/ Ts(d.pieces[1]) \in x

\* Of a NAL unit returned lately a packet is remembered, which does not wait.
Spent ==
  \A i \in DOMAIN delivered : now - delivered[i].at <= KeepTrack =>
    \E q \in PacketsOf(delivered[i].nal) :
      /\ [key |-> Key(q), arrival |-> delivered[i].at] \in seen_order_
      /\ ~Waits(access_units_, q) \/ Ts(q) \in interleaved

DeliveryInv ==
  /\ \A i \in DOMAIN delivered : WholeUnit(delivered[i], interleaved)
  /\ DeliveredOnce
  /\ Spent

\* While references are missing, inter frames are discarded (h26x.cc:823).
ReferenceInv == Enforcement /\ referenceLost => discard_until_key_frame_

H26xInv == SoundInv /\ TypeInv /\ DeliveryInv /\ ReferenceInv /\ CrashOnlyInterleaved

-----------------------------------------------------------------------------
(* Lemmas about one step.                                                  *)

LEMMA SameTrial ==
  ASSUME trial' = trial
  PROVE  /\ Packet' = Packet /\ Stream' = Stream /\ Timestamps' = Timestamps
         /\ SeqNum' = SeqNum /\ NalUnits' = NalUnits /\ Delivery' = Delivery /\ Entry' = Entry
         /\ MaxTime' = MaxTime /\ KeepTrack' = KeepTrack /\ Enforcement' = Enforcement
         /\ MaxDelay' = MaxDelay
         /\ \A p : Ts(p)' = Ts(p) /\ Seq16(p)' = Seq16(p) /\ Key(p)' = Key(p)
         /\ \A n : PacketsOf(n)' = PacketsOf(n)
         /\ \A d, x : WholeUnit(d, x)' <=> WholeUnit(d, x)
BY DEF Packet, Stream, Timestamps, SeqNum, NalUnits, Delivery, Entry, MaxTime, KeepTrack,
       Enforcement, MaxDelay, Ts, Seq16, FirstSeq, Key, PacketsOf, Carried, WholeUnit

LEMMA SameSound ==
  ASSUME trial' = trial, Sound(access_units_', fragments_', interleaved', delivered'),
         Blocked(access_units_', interleaved'), now' \in 0 .. MaxTime, trial \in Trials
  PROVE  SoundInv'
<1>1. /\ Packet' = Packet /\ Stream' = Stream /\ Timestamps' = Timestamps
      /\ SeqNum' = SeqNum /\ MaxTime' = MaxTime
      /\ \A p : Ts(p)' = Ts(p) /\ Seq16(p)' = Seq16(p)
  BY SameTrial
<1>2. /\ \A p : Fragmented(p)' <=> Fragmented(p)
      /\ \A p : Nal(p)' = Nal(p)
      /\ \A f, l : Span(f, l)' <=> Span(f, l)
      /\ AccessUnit' = AccessUnit
  BY <1>1 DEF Fragmented, Nal, Span, InFragments, AccessUnit
<1>3. /\ \A q : In(access_units_, q)' <=> In(access_units_', q)
      /\ \A q : Waits(access_units_, q)' <=> Waits(access_units_', q)
      /\ \A n : Returned(delivered, n)' <=> Returned(delivered', n)
      /\ \A t : UnitOK(access_units_[t], t)' <=> UnitOK(access_units_'[t], t)
  BY <1>1, <1>2 DEF In, Waits, Returned, UnitOK
<1>4. UnitsOK(access_units_)'
  BY <1>1, <1>3 DEF Sound, UnitsOK
<1>5. HeldOK(access_units_, fragments_)'
  BY <1>1, <1>3 DEF Sound, HeldOK
<1>6. NoLeak(access_units_, fragments_, interleaved)'
  BY <1>1, <1>3 DEF Sound, NoLeak
<1>7. Used(access_units_, interleaved, delivered)'
  BY <1>1, <1>2, <1>3 DEF Sound, Used
<1>8. Blocked(access_units_, interleaved)'
  BY <1>1, <1>2, <1>3 DEF Blocked
<1> QED
  BY <1>1, <1>4, <1>5, <1>6, <1>7, <1>8 DEF SoundInv, Sound

\* More is excused, and what was returned stays returned.
LEMMA Weaker ==
  ASSUME NEW aus, NEW frags, NEW x, NEW y, x \subseteq y, NEW dl, NEW dm,
         \A n : Returned(dl, n) => Returned(dm, n)
  PROVE  /\ Sound(aus, frags, x, dl) => Sound(aus, frags, y, dm)
         /\ Blocked(aus, x) => Blocked(aus, y)
<1>1. NoLeak(aus, frags, x) => NoLeak(aus, frags, y)
  BY DEF NoLeak
<1>2. Used(aus, x, dl) => Used(aus, y, dm)
  BY DEF Used
<1>3. Blocked(aus, x) => Blocked(aus, y)
  BY DEF Blocked
<1> QED
  BY <1>1, <1>2, <1>3 DEF Sound

LEMMA SoundQuiet ==
  ASSUME SoundInv, trial' = trial, now' \in 0 .. MaxTime, UNCHANGED <<access_units_, fragments_>>,
         interleaved \subseteq interleaved', \A n : Returned(delivered, n) => Returned(delivered', n)
  PROVE  SoundInv'
<1>1. /\ Sound(access_units_, fragments_, interleaved', delivered')
      /\ Blocked(access_units_, interleaved')
  BY Weaker DEF SoundInv
<1>2. access_units_' = access_units_ /\ fragments_' = fragments_
  OBVIOUS
<1>3. /\ Sound(access_units_', fragments_', interleaved', delivered')
      /\ Blocked(access_units_', interleaved')
  BY <1>1, <1>2
<1> QED
  BY <1>3, SameSound DEF SoundInv

LEMMA Handling ==
  ASSUME H26xInv, NEW p \in Packet, Handles(p)
  PROVE  /\ trial \in Trials /\ trial' = trial /\ now' = now /\ now \in 0 .. MaxTime
         /\ crashed = FALSE
         /\ received' \in SUBSET Packet /\ lost' \in SUBSET (Packet \ received')
         /\ duplicates' \in Nat
         /\ seen_order_' \subseteq Entry
         /\ \A e \in seen_order_ : now - e.arrival <= KeepTrack => e \in seen_order_'
         /\ ~is_duplicate_frame(p) =>
              /\ [key |-> Key(p), arrival |-> now] \in seen_order_'
              /\ \A e \in seen_order_ : e.key = Key(p) => ~(now - e.arrival <= KeepTrack)
<1>1. /\ trial \in Trials /\ trial' = trial /\ now' = now /\ now \in 0 .. MaxTime
      /\ crashed = FALSE /\ p \notin lost /\ lost' = lost
      /\ received \in SUBSET Packet /\ lost \in SUBSET (Packet \ received) /\ duplicates \in Nat
      /\ seen_order_ \subseteq Entry
      /\ \/ received' = received \cup {p} /\ duplicates' = duplicates
         \/ received' = received /\ duplicates' = duplicates + 1
      /\ seen_order_' = Remembered \cup (IF is_duplicate_frame(p) THEN {}
                                         ELSE {[key |-> Key(p), arrival |-> now]})
  BY DEF H26xInv, SoundInv, TypeInv, Handles, Arrive, Track, CrashOnlyInterleaved
<1>2. [key |-> Key(p), arrival |-> now] \in Entry
  BY <1>1, Settings, Shift DEF Entry, Key
<1>3. \A e \in seen_order_ : now - e.arrival <= KeepTrack <=> e \in Remembered
  BY DEF Remembered
<1>4. Remembered \subseteq seen_order_
  BY DEF Remembered
<1> QED
  BY <1>1, <1>2, <1>3, <1>4 DEF is_duplicate_frame

\* Nothing is returned, and no packet waits that did not before but p.
LEMMA DeliveryQuiet ==
  ASSUME H26xInv, NEW p \in Packet, Handles(p), UNCHANGED delivered,
         interleaved \subseteq interleaved',
         \A q \in Packet : Waits(access_units_', q) =>
           Waits(access_units_, q) \/ (q = p /\ ~is_duplicate_frame(p))
  PROVE  DeliveryInv'
<1>1. /\ trial' = trial /\ now' = now /\ delivered' = delivered
      /\ \A e \in seen_order_ : now - e.arrival <= KeepTrack => e \in seen_order_'
      /\ ~is_duplicate_frame(p) =>
           \A e \in seen_order_ : e.key = Key(p) => ~(now - e.arrival <= KeepTrack)
  BY Handling
<1>2. /\ KeepTrack' = KeepTrack
      /\ \A q : Ts(q)' = Ts(q) /\ Key(q)' = Key(q)
      /\ \A n : PacketsOf(n)' = PacketsOf(n)
      /\ \A d, x : WholeUnit(d, x)' <=> WholeUnit(d, x)
  BY <1>1, SameTrial
<1>3. ASSUME NEW i \in DOMAIN delivered PROVE WholeUnit(delivered[i], interleaved')
  BY DEF H26xInv, DeliveryInv, WholeUnit
<1>4. (\A i \in DOMAIN delivered : WholeUnit(delivered[i], interleaved))'
  BY <1>1, <1>2, <1>3
<1>5. DeliveredOnce'
  BY <1>1, <1>2 DEF H26xInv, DeliveryInv, DeliveredOnce
<1>6. ASSUME NEW i \in DOMAIN delivered, now - delivered[i].at <= KeepTrack
      PROVE  \E q \in PacketsOf(delivered[i].nal) :
               /\ [key |-> Key(q), arrival |-> delivered[i].at] \in seen_order_'
               /\ ~Waits(access_units_', q) \/ Ts(q) \in interleaved'
  <2>1. PICK q \in PacketsOf(delivered[i].nal) :
          /\ [key |-> Key(q), arrival |-> delivered[i].at] \in seen_order_
          /\ ~Waits(access_units_, q) \/ Ts(q) \in interleaved
    BY <1>6 DEF H26xInv, DeliveryInv, Spent
  <2>2. [key |-> Key(q), arrival |-> delivered[i].at] \in seen_order_'
    BY <1>1, <1>6, <2>1
  <2>3. q = p => is_duplicate_frame(p)
    BY <1>1, <1>6, <2>1
  <2>4. q \in Packet
    BY DEF PacketsOf
  <2> QED
    BY <2>1, <2>2, <2>3, <2>4
<1>7. Spent'
  <2>1. \A q : Waits(access_units_, q)' <=> Waits(access_units_', q)
    BY <1>1, <1>2, SameTrial DEF Waits
  <2> QED
    BY <1>1, <1>2, <1>6, <2>1 DEF Spent
<1> QED
  BY <1>4, <1>5, <1>7 DEF DeliveryInv

\* What a step may return with packet p: NAL units of which p is a packet, and the
\* others have waited for it.
LEMMA DeliveryNext ==
  ASSUME H26xInv, NEW p \in Packet, Handles(p), ~is_duplicate_frame(p),
         NEW extra \in Seq(Delivery), delivered' = delivered \o extra,
         interleaved \subseteq interleaved',
         \A q \in Packet : Waits(access_units_', q) => Waits(access_units_, q) \/ q = p,
         Waits(access_units_', p) => Ts(p) \in interleaved',
         \A j \in DOMAIN extra :
           /\ extra[j].at = now /\ WholeUnit(extra[j], interleaved')
           /\ p \in PacketsOf(extra[j].nal)
           /\ Ts(extra[j].pieces[1]) \notin interleaved' =>
                \A q \in PacketsOf(extra[j].nal) :
                  q = p \/ (Waits(access_units_, q) /\ Ts(q) \notin interleaved),
         \A i, j \in DOMAIN extra : i < j => extra[i].nal # extra[j].nal
  PROVE  DeliveryInv' /\ delivered' \in Seq(Delivery)
<1>1. /\ trial' = trial /\ now' = now
      /\ \A e \in seen_order_ : now - e.arrival <= KeepTrack => e \in seen_order_'
      /\ [key |-> Key(p), arrival |-> now] \in seen_order_'
      /\ \A e \in seen_order_ : e.key = Key(p) => ~(now - e.arrival <= KeepTrack)
      /\ now \in Nat /\ trial \in Trials /\ delivered \in Seq(Delivery)
  <2>1. delivered \in Seq(Delivery)
    BY DEF H26xInv, TypeInv
  <2>2. now \in 0 .. MaxTime /\ trial \in Trials
    BY Handling
  <2>3. now \in Nat
    BY <2>2
  <2> QED
    BY <2>1, <2>2, <2>3, Handling
<1>2. /\ KeepTrack' = KeepTrack
      /\ \A q : Ts(q)' = Ts(q) /\ Key(q)' = Key(q)
      /\ \A n : PacketsOf(n)' = PacketsOf(n)
      /\ \A d, x : WholeUnit(d, x)' <=> WholeUnit(d, x)
      /\ \A q : Waits(access_units_, q)' <=> Waits(access_units_', q)
  BY <1>1, SameTrial DEF Waits
<1>3. delivered' \in Seq(Delivery)
  BY <1>1
<1>4. \A i \in DOMAIN delivered' :
        \/ i \in DOMAIN delivered /\ delivered'[i] = delivered[i]
        \/ \E j \in DOMAIN extra : i = Len(delivered) + j /\ delivered'[i] = extra[j]
  <2> TAKE i \in DOMAIN delivered'
  <2>1. i \in 1 .. Len(delivered) + Len(extra) /\ Len(delivered) \in Nat /\ Len(extra) \in Nat
    BY <1>1
  <2>2. CASE i \in 1 .. Len(delivered)
    BY <1>1, <2>2
  <2>3. CASE i \notin 1 .. Len(delivered)
    <3>1. i - Len(delivered) \in 1 .. Len(extra) /\ i = Len(delivered) + (i - Len(delivered))
      BY <2>1, <2>3
    <3>2. delivered'[i] = extra[i - Len(delivered)]
      BY <1>1, <2>1, <2>3
    <3>3. i - Len(delivered) \in DOMAIN extra
      BY <3>1
    <3> QED
      BY <3>1, <3>2, <3>3
  <2> QED
    BY <2>2, <2>3
<1>5. ASSUME NEW i \in DOMAIN delivered' PROVE WholeUnit(delivered'[i], interleaved')
  <2>1. CASE i \in DOMAIN delivered /\ delivered'[i] = delivered[i]
    <3>1. WholeUnit(delivered[i], interleaved)
      BY <2>1 DEF H26xInv, DeliveryInv
    <3>2. WholeUnit(delivered[i], interleaved')
      BY <3>1 DEF WholeUnit
    <3> QED
      BY <2>1, <3>2
  <2> QED
    BY <1>4, <2>1
<1>6. ASSUME NEW i \in DOMAIN delivered', NEW j \in DOMAIN delivered', i < j,
             delivered'[i].nal = delivered'[j].nal,
             Ts(delivered'[j].pieces[1]) \notin interleaved'
      PROVE  delivered'[j].at - delivered'[i].at > KeepTrack
  <2>0. \A k \in DOMAIN delivered : k \in Nat /\ k <= Len(delivered)
    BY <1>1
  <2>1. CASE j \in DOMAIN delivered /\ delivered'[j] = delivered[j]
    <3>1. i \in DOMAIN delivered /\ delivered'[i] = delivered[i]
      <4>1. \A k \in DOMAIN extra : k \in Nat /\ k >= 1 /\ Len(delivered) \in Nat
        BY <1>1
      <4> QED
        BY <1>4, <1>6, <2>0, <2>1, <4>1
    <3>2. Ts(delivered[j].pieces[1]) \notin interleaved
      BY <1>6, <2>1
    <3> QED
      BY <1>6, <2>1, <3>1, <3>2 DEF H26xInv, DeliveryInv, DeliveredOnce
  <2>2. ASSUME NEW k \in DOMAIN extra, j = Len(delivered) + k, delivered'[j] = extra[k]
        PROVE  delivered'[j].at - delivered'[i].at > KeepTrack
    <3>1. i \in DOMAIN delivered /\ delivered'[i] = delivered[i]
      <4> SUFFICES ASSUME NEW h \in DOMAIN extra, i = Len(delivered) + h, delivered'[i] = extra[h]
                   PROVE  FALSE
        BY <1>4
      <4>1. h < k
        <5>1. h \in Nat /\ k \in Nat /\ Len(delivered) \in Nat
          BY <1>1
        <5> QED
          BY <1>6, <2>2, <5>1
      <4> QED
        BY <1>6, <2>2, <4>1
    <3>2. delivered[i].at \in Nat /\ KeepTrack \in Nat
      <4>1. delivered[i] \in Delivery
        BY <1>1, <3>1
      <4> QED
        <5>1. KeepTrack \in Nat
          BY <1>1, Settings
        <5>2. delivered[i].at \in 0 .. MaxTime
          BY <4>1 DEF Delivery
        <5> QED
          BY <5>1, <5>2
    <3>3. ~(now - delivered[i].at <= KeepTrack)
      <4> SUFFICES ASSUME now - delivered[i].at <= KeepTrack PROVE FALSE
        OBVIOUS
      <4>1. PICK q \in PacketsOf(delivered[i].nal) :
              /\ [key |-> Key(q), arrival |-> delivered[i].at] \in seen_order_
              /\ ~Waits(access_units_, q) \/ Ts(q) \in interleaved
        BY <3>1 DEF H26xInv, DeliveryInv, Spent
      <4>2. q = p \/ (Waits(access_units_, q) /\ Ts(q) \notin interleaved)
        BY <1>6, <2>2, <3>1
      <4>3. q # p
        BY <1>1, <4>1
      <4> QED
        BY <4>1, <4>2, <4>3
    <3>4. delivered'[j].at = now
      BY <2>2
    <3> QED
      BY <1>1, <3>1, <3>2, <3>3, <3>4
  <2> QED
    BY <1>4, <2>1, <2>2
<1>7. ASSUME NEW i \in DOMAIN delivered', now - delivered'[i].at <= KeepTrack
      PROVE  \E q \in PacketsOf(delivered'[i].nal) :
               /\ [key |-> Key(q), arrival |-> delivered'[i].at] \in seen_order_'
               /\ ~Waits(access_units_', q) \/ Ts(q) \in interleaved'
  <2>1. CASE i \in DOMAIN delivered /\ delivered'[i] = delivered[i]
    <3>1. PICK q \in PacketsOf(delivered[i].nal) :
            /\ [key |-> Key(q), arrival |-> delivered[i].at] \in seen_order_
            /\ ~Waits(access_units_, q) \/ Ts(q) \in interleaved
      BY <1>7, <2>1 DEF H26xInv, DeliveryInv, Spent
    <3>2. [key |-> Key(q), arrival |-> delivered[i].at] \in seen_order_'
      BY <1>1, <1>7, <2>1, <3>1
    <3>3. q # p
      BY <1>1, <1>7, <2>1, <3>1
    <3>4. q \in Packet
      BY DEF PacketsOf
    <3> QED
      BY <2>1, <3>1, <3>2, <3>3, <3>4
  <2>2. ASSUME NEW k \in DOMAIN extra, delivered'[i] = extra[k]
        PROVE  \E q \in PacketsOf(delivered'[i].nal) :
                 /\ [key |-> Key(q), arrival |-> delivered'[i].at] \in seen_order_'
                 /\ ~Waits(access_units_', q) \/ Ts(q) \in interleaved'
    BY <1>1, <2>2
  <2> QED
    BY <1>4, <2>1, <2>2
<1>8. DeliveredOnce'
  BY <1>2, <1>6 DEF DeliveredOnce
<1>9. Spent'
  BY <1>1, <1>2, <1>7 DEF Spent
<1> QED
  BY <1>2, <1>3, <1>5, <1>8, <1>9 DEF DeliveryInv

\* The parts of the invariant after a step of the handler.
LEMMA Assemble ==
  ASSUME H26xInv, NEW p \in Packet, Handles(p), SoundInv', DeliveryInv',
         dropped_ts_' \in SUBSET Timestamps, discard_until_key_frame_' \in BOOLEAN,
         last_garbage_collection_' \in 0 .. MaxTime, crashed' \in BOOLEAN,
         delivered' \in Seq(Delivery), referenceLost' \in BOOLEAN,
         interleaved' \in SUBSET Timestamps,
         Enforcement /\ referenceLost' => discard_until_key_frame_',
         crashed' => interleaved' # {}
  PROVE  H26xInv'
<1>1. /\ trial' = trial
      /\ received' \in SUBSET Packet /\ lost' \in SUBSET (Packet \ received')
      /\ duplicates' \in Nat /\ seen_order_' \subseteq Entry
  BY Handling
<1>2. /\ Packet' = Packet /\ Timestamps' = Timestamps /\ Delivery' = Delivery /\ Entry' = Entry
      /\ MaxTime' = MaxTime /\ Enforcement' = Enforcement
  BY <1>1, SameTrial
<1>3. TypeInv'
  BY <1>1, <1>2 DEF TypeInv
<1>4. ReferenceInv'
  BY <1>2 DEF ReferenceInv
<1> QED
  BY <1>3, <1>4 DEF H26xInv, CrashOnlyInterleaved

LEMMA Types ==
  ASSUME H26xInv
  PROVE  /\ trial \in Trials /\ now \in 0 .. MaxTime
         /\ UnitsOK(access_units_) /\ Sound(access_units_, fragments_, interleaved, delivered)
         /\ dropped_ts_ \in SUBSET Timestamps /\ discard_until_key_frame_ \in BOOLEAN
         /\ last_garbage_collection_ \in 0 .. MaxTime /\ crashed \in BOOLEAN
         /\ delivered \in Seq(Delivery) /\ referenceLost \in BOOLEAN
         /\ interleaved \in SUBSET Timestamps
         /\ Enforcement /\ referenceLost => discard_until_key_frame_
         /\ crashed => interleaved # {}
BY DEF H26xInv, SoundInv, Sound, TypeInv, ReferenceInv, CrashOnlyInterleaved

\* A step that touches neither access units nor fragments.
LEMMA QuietKept ==
  ASSUME H26xInv, NEW p \in Packet, Handles(p), UNCHANGED <<stateVars, delivered, referenceLost>>,
         interleaved' \in SUBSET Timestamps, interleaved \subseteq interleaved',
         crashed' \in BOOLEAN, crashed' => interleaved' # {}
  PROVE  H26xInv'
<1>1. /\ UNCHANGED <<access_units_, fragments_, delivered>>
      /\ dropped_ts_' = dropped_ts_ /\ discard_until_key_frame_' = discard_until_key_frame_
      /\ last_garbage_collection_' = last_garbage_collection_ /\ referenceLost' = referenceLost
  BY DEF stateVars
<1>2. trial' = trial /\ now' \in 0 .. MaxTime
  BY Handling
<1>3. SoundInv'
  <2>1. \A n : Returned(delivered, n) => Returned(delivered', n)
    BY <1>1 DEF Returned
  <2> QED
    BY <1>1, <1>2, <2>1, SoundQuiet DEF H26xInv
<1>4. DeliveryInv'
  <2>1. \A q \in Packet : Waits(access_units_', q) => Waits(access_units_, q)
    BY <1>1 DEF Waits
  <2> QED
    BY <1>1, <2>1, DeliveryQuiet
<1>5. delivered' \in Seq(Delivery)
  BY <1>1, Types
<1> QED
  BY <1>1, <1>3, <1>4, <1>5, Types, Assemble

LEMMA DiscardKept ==
  ASSUME H26xInv, NEW p \in Packet, DiscardDuplicate(p) \/ DiscardOld(p) \/ DiscardKnown(p)
  PROVE  H26xInv'
<1>1. Handles(p) /\ UNCHANGED <<stateVars, delivered, referenceLost>> /\ UNCHANGED <<interleaved, crashed>>
  BY DEF DiscardDuplicate, DiscardOld, DiscardKnown, historyVars
<1>2. interleaved' = interleaved /\ crashed' = crashed
  BY <1>1
<1> QED
  BY <1>1, <1>2, Types, QuietKept

LEMMA WholeKept == ASSUME H26xInv, NEW p \in Packet, ReturnWhole(p) PROVE H26xInv'
<1> DEFINE nals  == Stream[p].nals
           extra == [i \in DOMAIN nals |-> Unit(nals[i], <<p>>)]
<1>1. /\ Handles(p) /\ ~is_duplicate_frame(p) /\ ~Fragmented(p)
      /\ delivered' = delivered \o extra
      /\ UNCHANGED <<access_units_, fragments_>> /\ interleaved' = interleaved
      /\ dropped_ts_' = dropped_ts_ /\ discard_until_key_frame_' = discard_until_key_frame_
      /\ last_garbage_collection_' = last_garbage_collection_ /\ referenceLost' = referenceLost
      /\ crashed' = crashed
  BY DEF ReturnWhole, handle_aggregation_packet, Fresh, stateVars
<1>2. trial' = trial /\ trial \in Trials /\ now' = now /\ now \in 0 .. MaxTime
  BY <1>1, Handling
<1>3. /\ Len(nals) \in Nat /\ DOMAIN nals = 1 .. Len(nals)
      /\ \A i \in DOMAIN nals : nals[i] \in Carried(p) /\ nals[i] \in NalUnits
  BY <1>2, Carries DEF Carried
<1>4. Whole(Stream, p)
  <2>1. \A q \in 1 .. Len(trial.stream) :
          \/ Whole(trial.stream, q)
          \/ \E f, l \in 1 .. Len(trial.stream) : q \in f .. l /\ InFragments(trial.stream, f, l)
    BY <1>2, StreamAssumption
  <2>2. ASSUME NEW f \in Packet, NEW l \in Packet, p \in f .. l, InFragments(Stream, f, l)
        PROVE  FALSE
    <3>1. Span(f, l)
      BY <2>2 DEF Span
    <3> QED
      BY <1>1, <1>2, <2>2, <3>1, SpanFacts
  <2> QED
    BY <2>1, <2>2 DEF Packet, Stream
<1>5. \A i \in DOMAIN nals : PacketsOf(nals[i]) = {p}
  <2> TAKE i \in DOMAIN nals
  <2>1. ASSUME NEW q \in Packet, nals[i] \in Carried(q) PROVE q = p
    <3>1. PICK j \in DOMAIN Stream[q].nals : Stream[q].nals[j] = Stream[p].nals[i]
      BY <2>1 DEF Carried
    <3> QED
      BY <1>4, <3>1 DEF Whole, Packet
  <2> QED
    BY <1>3, <2>1 DEF PacketsOf
<1>6. \A i, j \in DOMAIN nals : i < j => nals[i] # nals[j]
  <2> SUFFICES ASSUME NEW i \in DOMAIN nals, NEW j \in DOMAIN nals, i < j, nals[i] = nals[j]
               PROVE  FALSE
    OBVIOUS
  <2>1. i = j
    BY <1>4 DEF Whole, Packet
  <2> QED
    BY <1>3, <2>1
<1>7. /\ DOMAIN extra = DOMAIN nals
      /\ \A i \in DOMAIN nals : /\ extra[i].nal = nals[i] /\ extra[i].at = now
                                /\ extra[i].pieces = <<p>> /\ extra[i] \in Delivery
  BY <1>2, <1>3 DEF Unit, Delivery
<1>8. extra \in Seq(Delivery)
  <2>1. extra \in [1 .. Len(nals) -> Delivery]
    BY <1>3, <1>7
  <2> HIDE DEF extra
  <2> QED
    BY <1>3, <2>1
<1>9. ~Waits(access_units_, p)
  BY <1>1, Types, WaitingIsFragment
<1>10. \A q \in Packet : Waits(access_units_', q) <=> Waits(access_units_, q)
  BY <1>1 DEF Waits
<1>11. \A j \in DOMAIN extra : WholeUnit(extra[j], interleaved') /\ PacketsOf(extra[j].nal) = {p}
  <2> TAKE j \in DOMAIN extra
  <2>1. extra[j].nal = nals[j] /\ extra[j].pieces = <<p>> /\ nals[j] \in NalUnits
        /\ PacketsOf(nals[j]) = {p}
    BY <1>3, <1>5, <1>7
  <2>2. DOMAIN <<p>> = {1} /\ <<p>>[1] = p
    OBVIOUS
  <2> HIDE DEF extra, nals
  <2> QED
    BY <2>1, <2>2 DEF WholeUnit
<1>12. DeliveryInv' /\ delivered' \in Seq(Delivery)
  <2>1. \A j \in DOMAIN extra : extra[j].at = now
    BY <1>7
  <2>2. \A i, j \in DOMAIN extra : i < j => extra[i].nal # extra[j].nal
    BY <1>6, <1>7
  <2> HIDE DEF extra, nals
  <2>3. /\ \A q \in Packet : Waits(access_units_', q) => Waits(access_units_, q) \/ q = p
        /\ Waits(access_units_', p) => Ts(p) \in interleaved'
        /\ interleaved \subseteq interleaved'
    BY <1>1, <1>9, <1>10
  <2>4. \A j \in DOMAIN extra :
          /\ extra[j].at = now /\ WholeUnit(extra[j], interleaved')
          /\ p \in PacketsOf(extra[j].nal)
          /\ Ts(extra[j].pieces[1]) \notin interleaved' =>
               \A q \in PacketsOf(extra[j].nal) :
                 q = p \/ (Waits(access_units_, q) /\ Ts(q) \notin interleaved)
    BY <1>11, <2>1
  <2> QED
    BY <1>1, <1>8, <2>2, <2>3, <2>4, DeliveryNext
<1>13. SoundInv'
  <2>1. \A n : Returned(delivered, n) => Returned(delivered', n)
    <3>1. \A i \in DOMAIN delivered : i \in DOMAIN delivered' /\ delivered'[i] = delivered[i]
      <4>1. delivered \in Seq(Delivery)
        BY Types
      <4> HIDE DEF extra
      <4> QED
        BY <1>1, <1>8, <4>1
    <3> QED
      BY <3>1 DEF Returned
  <2> QED
    BY <1>1, <1>2, <2>1, SoundQuiet DEF H26xInv
<1> HIDE DEF extra, nals
<1> QED
  BY <1>1, <1>12, <1>13, Types, Assemble

-----------------------------------------------------------------------------
(* A fragment is stored.                                                   *)

\* Garbage collection, with what the handler holds at that point (h26x.cc:866-896).
LEMMA CollectKeeps ==
  ASSUME trial \in Trials, now \in 0 .. MaxTime, NEW aus, NEW frags, NEW x, NEW dl,
         Sound(aus, frags, x, dl), Blocked(aus, x), NEW discard \in BOOLEAN, NEW lacking \in BOOLEAN,
         Enforcement /\ lacking => discard,
         dropped_ts_ \in SUBSET Timestamps, last_garbage_collection_ \in 0 .. MaxTime,
         garbage_collect_lost_frames(aus, frags, discard, lacking)
  PROVE  /\ Sound(access_units_', fragments_', x, dl) /\ Blocked(access_units_', x)
         /\ crashed' = FALSE
         /\ discard_until_key_frame_' \in BOOLEAN /\ referenceLost' \in BOOLEAN
         /\ Enforcement /\ referenceLost' => discard_until_key_frame_'
         /\ dropped_ts_' \in SUBSET Timestamps /\ last_garbage_collection_' \in 0 .. MaxTime
         /\ \A q \in Packet : Waits(access_units_', q) => Waits(aus, q)
<1> DEFINE due == now - last_garbage_collection_ >= GcInterval
           old == {t \in DOMAIN aus : due /\ now - aus[t].sframe_time > MaxDelay}
<1>1. /\ drop_access_unit(old, aus, frags, discard)
      /\ last_garbage_collection_' = IF due THEN now ELSE last_garbage_collection_
      /\ referenceLost' = (lacking \/ \E t \in old : aus[t].incomplete_packet_seqs # {})
  BY DEF garbage_collect_lost_frames
<1>2. old \in SUBSET DOMAIN aus
  OBVIOUS
<1> HIDE DEF old, due
<1>3. Blocked(aus, x \cup old)
  BY DEF Blocked
<1>4. /\ Sound(access_units_', fragments_', x, dl) /\ Blocked(access_units_', x)
      /\ crashed' = FALSE
      /\ discard_until_key_frame_' = (discard \/ old # {})
      /\ discard_until_key_frame_' \in BOOLEAN
      /\ dropped_ts_' \in SUBSET Timestamps
      /\ \A q \in Packet : Waits(access_units_', q) => Waits(aus, q)
  BY <1>1, <1>2, <1>3, DropKeeps
<1>5. referenceLost' => lacking \/ old # {}
  BY <1>1
<1>6. referenceLost' \in BOOLEAN /\ last_garbage_collection_' \in 0 .. MaxTime
  BY <1>1
<1> QED
  BY <1>4, <1>5, <1>6

\* What holds of every step that stores p.
LEMMA Storing ==
  ASSUME H26xInv, NEW p \in Packet, StoreFragment(p)
  PROVE  /\ Handles(p) /\ Fragmented(p) /\ ~Known(p) /\ ~is_duplicate_frame(p)
         /\ interleaved' = Mixed(p) /\ interleaved' \in SUBSET Timestamps
         /\ interleaved \subseteq interleaved'
         /\ Sound(Units(p), Frags(p), Mixed(p), delivered)
         /\ \A q \in Packet : Waits(Units(p), q) <=> Waits(access_units_, q) \/ q = p
<1>1. /\ Handles(p) /\ Fragmented(p) /\ ~Known(p) /\ ~is_duplicate_frame(p)
      /\ interleaved' = Mixed(p)
  BY DEF StoreFragment, Fresh, Mixed
<1>2. /\ trial \in Trials /\ now \in 0 .. MaxTime /\ UnitsOK(access_units_)
      /\ Sound(access_units_, fragments_, interleaved, delivered)
      /\ interleaved \in SUBSET Timestamps /\ Ts(p) \in Timestamps
  BY Types, Settings
<1>3. interleaved \subseteq Mixed(p) /\ Mixed(p) \in SUBSET Timestamps
  BY <1>2 DEF Mixed
<1> QED
  BY <1>1, <1>2, <1>3, NewFragment, NewUnit

\* The step ends like this, without a NAL unit.
LEMMA StoredKept ==
  ASSUME H26xInv, NEW p \in Packet, StoreFragment(p), UNCHANGED delivered,
         Sound(access_units_', fragments_', Mixed(p), delivered),
         Blocked(access_units_', Mixed(p)),
         \A q \in Packet : Waits(access_units_', q) => Waits(Units(p), q),
         dropped_ts_' \in SUBSET Timestamps, discard_until_key_frame_' \in BOOLEAN,
         last_garbage_collection_' \in 0 .. MaxTime, crashed' = FALSE,
         referenceLost' \in BOOLEAN, Enforcement /\ referenceLost' => discard_until_key_frame_'
  PROVE  H26xInv'
<1>1. /\ Handles(p) /\ ~is_duplicate_frame(p)
      /\ interleaved' = Mixed(p) /\ interleaved' \in SUBSET Timestamps
      /\ interleaved \subseteq interleaved'
      /\ \A q \in Packet : Waits(access_units_', q) => Waits(access_units_, q) \/ q = p
  BY Storing
<1>2. trial' = trial /\ trial \in Trials /\ now' \in 0 .. MaxTime
  BY <1>1, Handling
<1>3. SoundInv'
  <2>1. /\ Sound(access_units_', fragments_', interleaved', delivered')
        /\ Blocked(access_units_', interleaved')
    BY <1>1
  <2> QED
    BY <1>2, <2>1, SameSound
<1>4. DeliveryInv'
  BY <1>1, DeliveryQuiet
<1>5. delivered' \in Seq(Delivery)
  BY Types
<1> QED
  BY <1>1, <1>3, <1>4, <1>5, Assemble

LEMMA KeptUntilStart ==
  ASSUME H26xInv, NEW p \in Packet, StoreFragment(p), KeepUntilStart(p),
         WithFragment(p).incomplete_packet_seqs \cap WithFragment(p).start = {}
  PROVE  H26xInv'
<1>1. /\ access_units_' = Units(p) /\ fragments_' = Frags(p)
      /\ dropped_ts_' = dropped_ts_ /\ discard_until_key_frame_' = discard_until_key_frame_
      /\ last_garbage_collection_' = last_garbage_collection_ /\ crashed' = crashed
      /\ delivered' = delivered /\ referenceLost' = referenceLost
  BY DEF KeepUntilStart, Units, Frags
<1>2. Blocked(Units(p), Mixed(p))
  BY Storing, StillBlocked DEF H26xInv
<1>3. crashed = FALSE
  BY Storing, Handling
<1>4. /\ Sound(access_units_', fragments_', Mixed(p), delivered)
      /\ Blocked(access_units_', Mixed(p))
      /\ \A q \in Packet : Waits(access_units_', q) => Waits(Units(p), q)
  BY <1>1, <1>2, Storing
<1> QED
  BY <1>1, <1>3, <1>4, Types, StoredKept

LEMMA KeptUntilEnd ==
  ASSUME H26xInv, NEW p \in Packet, StoreFragment(p), KeepUntilEnd(p),
         NEW au, au = WithFragment(p),
         ConsecutiveFrom(FirstStart(au), au.incomplete_packet_seqs) \cap au.end = {}
  PROVE  H26xInv'
<1>1. /\ garbage_collect_lost_frames(Units(p), Frags(p), discard_until_key_frame_, referenceLost)
      /\ UNCHANGED delivered
  BY DEF KeepUntilEnd, Units, Frags
<1>2. Blocked(Units(p), Mixed(p))
  BY Storing, StillBlocked DEF H26xInv
<1>3. Sound(Units(p), Frags(p), Mixed(p), delivered)
  BY Storing
<1>4. /\ Sound(access_units_', fragments_', Mixed(p), delivered) /\ Blocked(access_units_', Mixed(p))
      /\ crashed' = FALSE
      /\ discard_until_key_frame_' \in BOOLEAN /\ referenceLost' \in BOOLEAN
      /\ Enforcement /\ referenceLost' => discard_until_key_frame_'
      /\ dropped_ts_' \in SUBSET Timestamps /\ last_garbage_collection_' \in 0 .. MaxTime
      /\ \A q \in Packet : Waits(access_units_', q) => Waits(Units(p), q)
  BY <1>1, <1>2, <1>3, Types, CollectKeeps
<1> QED
  BY <1>1, <1>4, StoredKept

LEMMA InterDropped ==
  ASSUME H26xInv, NEW p \in Packet, StoreFragment(p), DropInter(p)
  PROVE  H26xInv'
<1>1. /\ drop_access_unit({Ts(p)}, Units(p), Frags(p), discard_until_key_frame_)
      /\ referenceLost' = TRUE /\ UNCHANGED delivered
      /\ last_garbage_collection_' = last_garbage_collection_
  BY DEF DropInter, Units, Frags
<1>2. /\ Fragmented(p) /\ ~Known(p) /\ trial \in Trials /\ now \in 0 .. MaxTime
      /\ UnitsOK(access_units_)
      /\ Sound(Units(p), Frags(p), Mixed(p), delivered)
      /\ \A q \in Packet : Waits(Units(p), q) <=> Waits(access_units_, q) \/ q = p
  BY Storing, Types
<1>3. {Ts(p)} \in SUBSET DOMAIN Units(p)
  BY <1>2, NewUnit
<1>4. Blocked(Units(p), Mixed(p) \cup {Ts(p)})
  <2> SUFFICES ASSUME NEW f \in Packet, NEW l \in Packet, Span(f, l),
                      Ts(f) \notin Mixed(p) \cup {Ts(p)}, \A q \in f .. l : Waits(Units(p), q)
               PROVE  \E g, m \in Packet : /\ Span(g, m) /\ g < f /\ Ts(g) = Ts(f)
                                           /\ Waits(Units(p), g) /\ Seq16(g) < Seq16(f)
    BY DEF Blocked
  <2>1. \A q \in f .. l : q \in Packet /\ Ts(q) = Ts(f)
    BY <1>2, SpanFacts
  <2>2. Ts(f) \notin interleaved /\ \A q \in f .. l : Waits(access_units_, q)
    BY <1>2, <2>1 DEF Mixed
  <2>3. PICK g, m \in Packet : /\ Span(g, m) /\ g < f /\ Ts(g) = Ts(f)
                               /\ Waits(access_units_, g) /\ Seq16(g) < Seq16(f)
    BY <2>2 DEF H26xInv, SoundInv, Blocked
  <2> QED
    BY <1>2, <2>3
<1>5. /\ Sound(access_units_', fragments_', Mixed(p), delivered) /\ Blocked(access_units_', Mixed(p))
      /\ crashed' = FALSE
      /\ discard_until_key_frame_' = (discard_until_key_frame_ \/ {Ts(p)} # {})
      /\ discard_until_key_frame_' \in BOOLEAN
      /\ dropped_ts_' \in SUBSET Timestamps
      /\ \A q \in Packet : Waits(access_units_', q) => Waits(Units(p), q)
  BY <1>1, <1>2, <1>3, <1>4, Types, DropKeeps
<1>6. discard_until_key_frame_' = TRUE
  BY <1>5
<1> QED
  BY <1>1, <1>5, <1>6, Types, StoredKept

\* What is put together is a NAL unit, of which every fragment is held.
LEMMA Found ==
  ASSUME H26xInv, NEW p \in Packet, StoreFragment(p), NEW f, NEW l, NEW run,
         Searched(p, f, l, run), run \cap WithFragment(p).end # {}
  PROVE  /\ FirstEnd(Seq16(f), run, WithFragment(p)) = Seq16(l)
         /\ UpTo(Seq16(f), Seq16(l), run) = {Seq16(q) : q \in f .. l}
         /\ f \in Packet /\ l \in Packet /\ Span(f, l) /\ Ts(f) = Ts(p)
         /\ \A q \in f .. l : Frags(p)[Seq16(q)] = q /\ Waits(Units(p), q)
         /\ Ts(p) \notin Mixed(p) => p \in f .. l /\ run = {Seq16(q) : q \in f .. l}
<1>1. /\ trial \in Trials /\ UnitOK(WithFragment(p), Ts(p)) /\ SoundInv
      /\ Fragmented(p) /\ ~Known(p)
      /\ f \in Packet /\ l \in Packet /\ Span(f, l) /\ Ts(f) = Ts(p)
  BY Storing, NewUnit, Types DEF Searched, H26xInv
<1>2. /\ \A q \in f .. l : q \in Following(f, WithFragment(p).incomplete_packet_seqs)
      /\ FirstEnd(Seq16(f), run, WithFragment(p)) = Seq16(l)
      /\ UpTo(Seq16(f), Seq16(l), run) = {Seq16(q) : q \in f .. l}
  BY <1>1, WalkEnds DEF Searched
<1>3. ASSUME NEW q \in f .. l PROVE Frags(p)[Seq16(q)] = q /\ Waits(Units(p), q)
  <2>1. q \in Packet /\ Ts(q) = Ts(p)
    BY <1>1, SpanFacts
  <2>2. Seq16(q) \in WithFragment(p).incomplete_packet_seqs
    BY <1>1, <1>2, WalkVisits DEF Searched
  <2>3. Waits(Units(p), q)
    BY <1>1, <2>1, <2>2, WaitsHere
  <2>4. Sound(Units(p), Frags(p), Mixed(p), delivered)
    BY Storing
  <2> QED
    BY <2>1, <2>3, <2>4 DEF Sound, HeldOK
<1>4. Ts(p) \notin Mixed(p) => p \in f .. l /\ run = {Seq16(q) : q \in f .. l}
  BY <1>1, FoundInOrder
<1> QED
  BY <1>1, <1>2, <1>3, <1>4

\* A second end fragment on the walk is of another NAL unit (h26x.cc:818).
LEMMA CrashKept ==
  ASSUME H26xInv, NEW p \in Packet, StoreFragment(p), Crash, NEW f, NEW l, NEW run,
         Searched(p, f, l, run), run \cap WithFragment(p).end # {},
         run \cap WithFragment(p).end # {Seq16(l)}
  PROVE  H26xInv'
<1>1. /\ Handles(p) /\ interleaved' = Mixed(p) /\ interleaved' \in SUBSET Timestamps
      /\ interleaved \subseteq interleaved'
  BY Storing
<1>2. Ts(p) \in Mixed(p)
  <2>1. trial \in Trials /\ UnitOK(WithFragment(p), Ts(p)) /\ f \in Packet /\ l \in Packet /\ Span(f, l)
    BY Storing, NewUnit, Types DEF Searched
  <2>2. run # {Seq16(q) : q \in f .. l}
    BY <2>1, WalkGoesOn DEF Searched
  <2> QED
    BY <2>2, Found
<1>3. UNCHANGED <<stateVars, delivered, referenceLost>> /\ crashed' = TRUE
  BY DEF Crash
<1>4. crashed' \in BOOLEAN /\ (crashed' => interleaved' # {})
  BY <1>1, <1>2, <1>3
<1> QED
  BY <1>1, <1>3, <1>4, QuietKept

LEMMA ReconstructKept ==
  ASSUME H26xInv, NEW p \in Packet, StoreFragment(p), NEW f, NEW l, NEW run,
         Searched(p, f, l, run), run \cap WithFragment(p).end # {},
         Reconstruct(p, Seq16(f), Seq16(l), run)
  PROVE  H26xInv'
<1> DEFINE used   == {Seq16(q) : q \in f .. l}
           pieces == Pieces(Seq16(f), Seq16(l), Frags(p))
           unit   == Unit(Nal(p), pieces)
           extra  == <<unit>>
           key    == Stream[p].type = "intra"
           x      == Mixed(p)
<1>1. /\ Handles(p) /\ Fragmented(p) /\ ~Known(p) /\ ~is_duplicate_frame(p)
      /\ interleaved' = x /\ x \in SUBSET Timestamps /\ interleaved \subseteq x
      /\ \A q \in Packet : Waits(Units(p), q) <=> Waits(access_units_, q) \/ q = p
  BY Storing
<1>2. /\ trial' = trial /\ trial \in Trials /\ now' = now /\ now \in 0 .. MaxTime
  BY <1>1, Handling
<1>3. /\ UpTo(Seq16(f), Seq16(l), run) = used
      /\ f \in Packet /\ l \in Packet /\ Span(f, l) /\ Ts(f) = Ts(p)
      /\ \A q \in f .. l : Frags(p)[Seq16(q)] = q /\ Waits(Units(p), q)
      /\ Ts(p) \notin x => p \in f .. l /\ run = used
  BY Found
<1>4. /\ f \in Nat /\ l \in Nat /\ f < l /\ f \in f .. l
      /\ \A q \in f .. l : q \in Packet /\ Ts(q) = Ts(f) /\ Nal(q) = Nal(f)
      /\ Nal(f) \in NalUnits /\ PacketsOf(Nal(f)) = f .. l
  BY <1>2, <1>3, SpanFacts
<1>5. /\ delivered' = delivered \o extra
      /\ garbage_collect_lost_frames(UnitsLeft(p, run), FragsLeft(p, used),
           discard_until_key_frame_ /\ ~(Enforcement /\ key), referenceLost /\ ~key)
  <2>1. /\ delivered' = Append(delivered, unit)
        /\ garbage_collect_lost_frames(UnitsLeft(p, run), FragsLeft(p, UpTo(Seq16(f), Seq16(l), run)),
             discard_until_key_frame_ /\ ~(Enforcement /\ key), referenceLost /\ ~key)
    BY DEF Reconstruct, UnitsLeft, FragsLeft, Frags, Nal
  <2>2. Append(delivered, unit) = delivered \o extra
    BY Types
  <2> HIDE DEF used, unit, extra
  <2> QED
    BY <1>3, <2>1, <2>2
<1>6. /\ pieces = [k \in 1 .. (l - f) + 1 |-> (f + k) - 1] /\ pieces \in Seq(Packet)
  <2>1. \A q \in f .. l : Frags(p)[Seq16(q)] = q
    BY <1>3
  <2> QED
    BY <1>2, <1>3, <2>1, PiecesInOrder
<1> HIDE DEF pieces
<1>7. Nal(p) \in NalUnits /\ p \in PacketsOf(Nal(p))
  <2>1. Nal(p) \in Carried(p) /\ Carried(p) \subseteq NalUnits
    BY <1>2, Carries DEF Nal
  <2> QED
    BY <2>1 DEF PacketsOf
<1>8. unit.nal = Nal(p) /\ unit.pieces = pieces /\ unit.at = now /\ unit \in Delivery
  BY <1>2, <1>6, <1>7 DEF Unit, Delivery
<1>9. pieces[1] = f /\ 1 \in DOMAIN pieces
  <2>1. 1 \in 1 .. (l - f) + 1 /\ (f + 1) - 1 = f
    BY <1>4
  <2> QED
    BY <1>6, <2>1
<1>10. WholeUnit(unit, x)
  <2>1. \A j, k \in DOMAIN pieces : j < k => pieces[j] < pieces[k]
    BY <1>4, <1>6
  <2>2. {pieces[k] : k \in DOMAIN pieces} = PacketsOf(Nal(f))
    <3>1. \A k \in 1 .. (l - f) + 1 : (f + k) - 1 \in f .. l
      BY <1>4
    <3>2. \A q \in f .. l : (q - f) + 1 \in 1 .. (l - f) + 1 /\ (f + ((q - f) + 1)) - 1 = q
      BY <1>4
    <3>3. \A q \in f .. l : (q - f) + 1 \in DOMAIN pieces /\ pieces[(q - f) + 1] = q
      BY <1>6, <3>2
    <3>4. \A k \in DOMAIN pieces : pieces[k] \in f .. l
      BY <1>6, <3>1
    <3> QED
      BY <1>4, <3>3, <3>4
  <2>3. Nal(f) = Nal(p) \/ Ts(pieces[1]) \in x
    BY <1>3, <1>4, <1>9
  <2> HIDE DEF unit, x
  <2> QED
    BY <1>4, <1>8, <2>1, <2>2, <2>3 DEF WholeUnit
<1> DEFINE aus == UnitsLeft(p, run)
<1>11. \A n : Returned(delivered', n) <=> Returned(delivered, n) \/ n = Nal(p)
  <2> HIDE DEF unit
  <2>1. delivered \in Seq(Delivery)
    BY Types
  <2>2. /\ DOMAIN delivered' = 1 .. Len(delivered) + 1 /\ Len(delivered) \in Nat
        /\ DOMAIN delivered = 1 .. Len(delivered)
        /\ \A i \in DOMAIN delivered : delivered'[i] = delivered[i]
        /\ delivered'[Len(delivered) + 1] = unit
    BY <1>5, <2>1
  <2>3. \A i \in DOMAIN delivered' : i \in DOMAIN delivered \/ i = Len(delivered) + 1
    BY <2>2
  <2>4. \A i \in DOMAIN delivered : i \in DOMAIN delivered'
    BY <2>2
  <2>5. Len(delivered) + 1 \in DOMAIN delivered'
    BY <2>2
  <2> QED
    BY <1>8, <2>2, <2>3, <2>4, <2>5, Zenon DEF Returned
<1>12. Sound(aus, FragsLeft(p, used), x, delivered') /\ Blocked(aus, x)
  <2> HIDE DEF used
  <2> QED
    BY <1>11, PutTogether DEF H26xInv, used
<1>13. \A q \in Packet : /\ Waits(aus, q) <=> Waits(Units(p), q) /\ ~(Ts(q) = Ts(p) /\ Seq16(q) \in run)
  BY <1>1, LeftOver DEF H26xInv
<1> HIDE DEF aus, used
<1>14. /\ Sound(access_units_', fragments_', x, delivered') /\ Blocked(access_units_', x)
       /\ crashed' = FALSE
       /\ discard_until_key_frame_' \in BOOLEAN /\ referenceLost' \in BOOLEAN
       /\ Enforcement /\ referenceLost' => discard_until_key_frame_'
       /\ dropped_ts_' \in SUBSET Timestamps /\ last_garbage_collection_' \in 0 .. MaxTime
       /\ \A q \in Packet : Waits(access_units_', q) => Waits(aus, q)
  <2> DEFINE discard == discard_until_key_frame_ /\ ~(Enforcement /\ key)
             lacking == referenceLost /\ ~key
  <2>1. /\ discard \in BOOLEAN /\ lacking \in BOOLEAN /\ (Enforcement /\ lacking => discard)
    BY Types
  <2>2. garbage_collect_lost_frames(aus, FragsLeft(p, used), discard, lacking)
    BY <1>5 DEF aus
  <2> HIDE DEF discard, lacking
  <2>3. dropped_ts_ \in SUBSET Timestamps /\ last_garbage_collection_ \in 0 .. MaxTime
    BY Types
  <2> QED
    BY <1>2, <1>12, <2>1, <2>2, <2>3, CollectKeeps
<1>15. SoundInv'
  <2>1. /\ Sound(access_units_', fragments_', interleaved', delivered')
        /\ Blocked(access_units_', interleaved')
    BY <1>1, <1>14
  <2> QED
    BY <1>2, <2>1, SameSound
<1>16. DeliveryInv' /\ delivered' \in Seq(Delivery)
  <2>1. /\ \A q \in Packet : Waits(access_units_', q) => Waits(access_units_, q) \/ q = p
        /\ Waits(access_units_', p) => Ts(p) \in interleaved'
    <3>1. Ts(p) \notin x => Seq16(p) \in run
      BY <1>3 DEF used
    <3> QED
      BY <1>1, <1>13, <1>14, <3>1
  <2> HIDE DEF unit, x
  <2>2. extra \in Seq(Delivery) /\ DOMAIN extra = {1} /\ extra[1] = unit
    BY <1>8
  <2> HIDE DEF extra
  <2>3. Ts(f) \notin x => \A q \in PacketsOf(Nal(p)) :
          q = p \/ (Waits(access_units_, q) /\ Ts(q) \notin interleaved)
    <3> SUFFICES ASSUME Ts(f) \notin x, NEW q \in PacketsOf(Nal(p)), q # p
                 PROVE  Waits(access_units_, q) /\ Ts(q) \notin interleaved
      OBVIOUS
    <3>1. q \in f .. l
      BY <1>3, <1>4
    <3> QED
      BY <1>1, <1>3, <1>4, <3>1
  <2>4. \A j \in DOMAIN extra :
          /\ extra[j].at = now /\ WholeUnit(extra[j], interleaved')
          /\ p \in PacketsOf(extra[j].nal)
          /\ Ts(extra[j].pieces[1]) \notin interleaved' =>
               \A q \in PacketsOf(extra[j].nal) :
                 q = p \/ (Waits(access_units_, q) /\ Ts(q) \notin interleaved)
    BY <1>1, <1>7, <1>8, <1>9, <1>10, <2>2, <2>3
  <2>5. \A i, j \in DOMAIN extra : i < j => extra[i].nal # extra[j].nal
    BY <2>2
  <2>6. interleaved \subseteq interleaved'
    BY <1>1
  <2> QED
    BY <1>1, <1>5, <2>1, <2>2, <2>4, <2>5, <2>6, DeliveryNext
<1>17. interleaved' \in SUBSET Timestamps
  BY <1>1
<1> QED
  BY <1>1, <1>14, <1>15, <1>16, <1>17, Assemble

LEMMA StoreKept == ASSUME H26xInv, NEW p \in Packet, StoreFragment(p) PROVE H26xInv'
<1> DEFINE au  == WithFragment(p)
           s   == FirstStart(au)
           run == ConsecutiveFrom(s, au.incomplete_packet_seqs)
           e   == FirstEnd(s, run, au)
           starts == au.incomplete_packet_seqs \cap au.start
           Holds(seqs) == \A t \in seqs : Frags(p)[t] # NoFrame
           drop == Enforcement /\ discard_until_key_frame_ /\ Stream[p].type = "inter"
<1>1. \/ starts = {} /\ KeepUntilStart(p)
      \/ starts # {} /\ run \cap au.end = {} /\ KeepUntilEnd(p)
      \/ /\ starts # {} /\ run \cap au.end # {}
         /\ \/ ~Holds(UpTo(s, e, run)) /\ Crash
            \/ Holds(UpTo(s, e, run)) /\ drop /\ DropInter(p)
            \/ Holds(UpTo(s, e, run)) /\ ~drop /\ run \cap au.end # {e} /\ Crash
            \/ Holds(UpTo(s, e, run)) /\ ~drop /\ run \cap au.end = {e} /\ Reconstruct(p, s, e, run)
  BY DEF StoreFragment, Frags
<1>2. CASE starts = {} /\ KeepUntilStart(p)
  BY <1>2, KeptUntilStart
<1>3. CASE starts # {} /\ run \cap au.end = {} /\ KeepUntilEnd(p)
  BY <1>3, KeptUntilEnd
<1>4. CASE /\ starts # {} /\ run \cap au.end # {}
           /\ \/ ~Holds(UpTo(s, e, run)) /\ Crash
              \/ Holds(UpTo(s, e, run)) /\ drop /\ DropInter(p)
              \/ Holds(UpTo(s, e, run)) /\ ~drop /\ run \cap au.end # {e} /\ Crash
              \/ Holds(UpTo(s, e, run)) /\ ~drop /\ run \cap au.end = {e} /\ Reconstruct(p, s, e, run)
  <2>1. SoundInv /\ Fragmented(p) /\ ~Known(p) /\ trial \in Trials
    BY Storing, Types DEF H26xInv
  <2>2. PICK f, l \in Packet : s = Seq16(f) /\ Searched(p, f, l, run)
    BY <1>4, <2>1, Searching
  <2>3. /\ e = Seq16(l) /\ UpTo(s, e, run) = {Seq16(q) : q \in f .. l}
        /\ \A q \in f .. l : Frags(p)[Seq16(q)] = q
        /\ Span(f, l)
    BY <1>4, <2>2, Found
  <2>4. Holds(UpTo(s, e, run))
    <3>1. \A q \in f .. l : q # NoFrame
      BY <2>1, <2>3, SpanFacts, Settings
    <3> HIDE DEF e, s, run
    <3> QED
      BY <2>3, <3>1
  <2> HIDE DEF au, s, run, e, Holds, drop, starts
  <2>5. CASE DropInter(p)
    BY <2>5, InterDropped
  <2>6. CASE run \cap au.end # {e} /\ Crash
    BY <1>4, <2>2, <2>3, <2>6, CrashKept DEF au
  <2>7. CASE Reconstruct(p, s, e, run)
    BY <1>4, <2>2, <2>3, <2>7, ReconstructKept DEF au
  <2> QED
    BY <1>4, <2>4, <2>5, <2>6, <2>7
<1> QED
  BY <1>1, <1>2, <1>3, <1>4

-----------------------------------------------------------------------------
(* The theorems.                                                           *)

LEMMA H26xInit == Init => H26xInv
<1> SUFFICES ASSUME Init PROVE H26xInv
  OBVIOUS
<1>1. /\ trial \in Trials /\ received = {} /\ lost = {} /\ duplicates = 0 /\ now = 0
      /\ seen_order_ = {} /\ access_units_ = <<>> /\ dropped_ts_ = {}
      /\ fragments_ = [s \in SeqNum |-> NoFrame]
      /\ discard_until_key_frame_ = TRUE /\ last_garbage_collection_ = 0
      /\ crashed = FALSE /\ delivered = <<>> /\ referenceLost = TRUE /\ interleaved = {}
  BY DEF Init, NetworkInit
<1>2. DOMAIN access_units_ = {} /\ DOMAIN delivered = {} /\ delivered \in Seq(Delivery)
  BY <1>1
<1>3. 0 \in 0 .. MaxTime
  BY <1>1, Settings
<1>4. Sound(access_units_, fragments_, interleaved, delivered)
  <2>1. UnitsOK(access_units_)
    BY <1>2 DEF UnitsOK
  <2>2. \A q \in Packet : /\ ~Waits(access_units_, q) /\ ~In(access_units_, q)
                          /\ fragments_[Seq16(q)] # q
    <3>1. \A q \in Packet : Seq16(q) \in SeqNum /\ q # NoFrame
      BY <1>1, Settings, Shift
    <3> QED
      BY <1>1, <1>2, <3>1 DEF Waits, In
  <2>3. HeldOK(access_units_, fragments_)
    BY <1>1, <2>2 DEF HeldOK
  <2>4. NoLeak(access_units_, fragments_, interleaved)
    BY <2>2 DEF NoLeak
  <2>5. Used(access_units_, interleaved, delivered)
    <3>1. \A f, l \in Packet : \A q \in f .. l : q \in Packet
      BY <1>1, Between
    <3> QED
      BY <2>2, <3>1 DEF Used
  <2> QED
    BY <2>1, <2>3, <2>4, <2>5 DEF Sound
<1>5. Blocked(access_units_, interleaved)
  <2>1. \A f, l \in Packet : Span(f, l) => f \in f .. l
    BY <1>1, SpanFacts
  <2>2. \A q : ~Waits(access_units_, q)
    BY <1>2 DEF Waits
  <2> QED
    BY <2>1, <2>2 DEF Blocked
<1>6. SoundInv
  BY <1>1, <1>3, <1>4, <1>5 DEF SoundInv
<1>7. TypeInv
  BY <1>1, <1>2, <1>3 DEF TypeInv
<1>8. DeliveryInv
  BY <1>2 DEF DeliveryInv, DeliveredOnce, Spent
<1> QED
  BY <1>1, <1>6, <1>7, <1>8 DEF H26xInv, ReferenceInv, CrashOnlyInterleaved

\* Time passes, packets are lost, or nothing happens.
LEMMA H26xStutter ==
  ASSUME H26xInv, UNCHANGED <<trial, received, seen_order_, stateVars, crashed, historyVars>>,
         now' \in 0 .. MaxTime, now <= now',
         lost' \in SUBSET (Packet \ received), duplicates' \in Nat
  PROVE  H26xInv'
<1>1. /\ trial' = trial /\ received' = received /\ seen_order_' = seen_order_
      /\ access_units_' = access_units_ /\ fragments_' = fragments_
      /\ dropped_ts_' = dropped_ts_ /\ discard_until_key_frame_' = discard_until_key_frame_
      /\ last_garbage_collection_' = last_garbage_collection_ /\ crashed' = crashed
      /\ delivered' = delivered /\ referenceLost' = referenceLost /\ interleaved' = interleaved
  BY DEF stateVars, historyVars
<1>2. /\ Packet' = Packet /\ Timestamps' = Timestamps /\ Delivery' = Delivery /\ Entry' = Entry
      /\ MaxTime' = MaxTime /\ Enforcement' = Enforcement /\ KeepTrack' = KeepTrack
      /\ \A q : Ts(q)' = Ts(q) /\ Key(q)' = Key(q) /\ Seq16(q)' = Seq16(q)
      /\ \A n : PacketsOf(n)' = PacketsOf(n)
      /\ \A d, x : WholeUnit(d, x)' <=> WholeUnit(d, x)
  BY <1>1, SameTrial
<1>3. SoundInv'
  <2>1. \A n : Returned(delivered, n) => Returned(delivered', n)
    BY <1>1
  <2> QED
    BY <1>1, <2>1, SoundQuiet DEF H26xInv
<1>4. TypeInv'
  <2>1. TypeInv
    BY DEF H26xInv
  <2> QED
    BY <1>1, <1>2, <2>1 DEF TypeInv
<1>5. DeliveryInv'
  <2>1. DeliveryInv /\ now \in Int /\ now' \in Int
    BY Types DEF H26xInv
  <2>2. (\A i \in DOMAIN delivered : WholeUnit(delivered[i], interleaved))'
    BY <1>1, <1>2, <2>1 DEF DeliveryInv
  <2>3. DeliveredOnce'
    BY <1>1, <1>2, <2>1 DEF DeliveryInv, DeliveredOnce
  <2>4. Spent'
    <3>1. \A q : Waits(access_units_, q)' <=> Waits(access_units_, q)
      BY <1>1, <1>2 DEF Waits
    <3>2. ASSUME NEW i \in DOMAIN delivered, now' - delivered[i].at <= KeepTrack
          PROVE  now - delivered[i].at <= KeepTrack
      <4>1. delivered[i].at \in Int /\ KeepTrack \in Int
        <5>1. delivered[i] \in Delivery
          BY Types
        <5>2. delivered[i].at \in 0 .. MaxTime
          BY <5>1 DEF Delivery
        <5> QED
          BY <5>2, Types, Settings
      <4> QED
        BY <2>1, <3>2, <4>1
    <3>3. Spent
      BY <2>1 DEF DeliveryInv
    <3> QED
      BY <1>1, <1>2, <3>1, <3>2, <3>3 DEF Spent
  <2> QED
    BY <2>2, <2>3, <2>4 DEF DeliveryInv
<1> QED
  BY <1>1, <1>2, <1>3, <1>4, <1>5 DEF H26xInv, ReferenceInv, CrashOnlyInterleaved

LEMMA H26xNext == H26xInv /\ [Next]_vars => H26xInv'
<1> SUFFICES ASSUME H26xInv, [Next]_vars PROVE H26xInv'
  OBVIOUS
<1>1. now \in 0 .. MaxTime /\ MaxTime \in Nat
  BY Types, Settings
<1>2. lost \in SUBSET (Packet \ received) /\ duplicates \in Nat
  BY DEF H26xInv, TypeInv
<1>3. CASE UNCHANGED vars
  <2>1. /\ UNCHANGED <<trial, received, seen_order_, stateVars, crashed, historyVars>>
        /\ now' = now /\ lost' = lost /\ duplicates' = duplicates
    BY <1>3 DEF vars, stateVars, historyVars
  <2>2. now' \in 0 .. MaxTime /\ now <= now'
    BY <1>1, <2>1
  <2>3. lost' \in SUBSET (Packet \ received) /\ duplicates' \in Nat
    BY <1>2, <2>1
  <2> QED
    BY <2>1, <2>2, <2>3, H26xStutter
<1>4. CASE Environment
  <2>1. UNCHANGED <<trial, received, seen_order_, stateVars, crashed, historyVars>>
    BY <1>4 DEF Environment, Tick, Lose
  <2>2. now' \in 0 .. MaxTime /\ now <= now'
    BY <1>1, <1>4 DEF Environment, Tick, Lose
  <2>3. lost' \in SUBSET (Packet \ received) /\ duplicates' \in Nat
    BY <1>2, <1>4 DEF Environment, Tick, Lose
  <2> QED
    BY <2>1, <2>2, <2>3, H26xStutter
<1>5. ASSUME NEW p \in Packet, packet_handler(p) PROVE H26xInv'
  BY <1>5, DiscardKept, WholeKept, StoreKept DEF packet_handler
<1> QED
  BY <1>3, <1>4, <1>5 DEF Next

LEMMA H26xInvariant == Spec => []H26xInv
BY H26xInit, H26xNext, PTL DEF Spec

\* The numbers, the sets of access_unit_info and the fragments held are what their
\* declarations say (h26x.hh:53-66).
THEOREM HandlerTypes == Spec => []TypeOK
<1>1. H26xInv => TypeOK
  <2> SUFFICES ASSUME H26xInv PROVE TypeOK
    OBVIOUS
  <2>1. NetworkTypeOK
    BY Types DEF H26xInv, TypeInv, NetworkTypeOK
  <2>2. /\ DOMAIN access_units_ \subseteq Timestamps
        /\ \A t \in DOMAIN access_units_ : access_units_[t] \in AccessUnit
    BY Types DEF UnitsOK, UnitOK
  <2>3. fragments_ \in [SeqNum -> Packet \cup {NoFrame}]
    BY Types DEF Sound, HeldOK
  <2> QED
    BY <2>1, <2>2, <2>3 DEF H26xInv, TypeInv, TypeOK, Delivery, Entry
<1> QED
  BY <1>1, H26xInvariant, PTL

\* The range found is one NAL unit whatever the order and the losses, and its header
\* is right where NAL units do not interleave (h26x.cc:800-850).
THEOREM NalUnitsAreWhole == Spec => []WholeNalUnits
<1>1. H26xInv => WholeNalUnits
  BY DEF H26xInv, DeliveryInv, WholeUnit, WholeNalUnits
<1> QED
  BY <1>1, H26xInvariant, PTL

\* While is_duplicate_frame() remembers a packet of it, a NAL unit does not come
\* again (h26x.cc:639-657).
THEOREM NalUnitsComeOnce == Spec => []DeliveredOnce
<1>1. H26xInv => DeliveredOnce
  BY DEF H26xInv, DeliveryInv
<1> QED
  BY <1>1, H26xInvariant, PTL

\* What is complete, with all before it in its access unit, has been returned: it can
\* wait only behind a NAL unit that is incomplete (h26x.cc:778-850).
THEOREM CompleteIsReturned == Spec => []CompleteIsDelivered
<1>1. H26xInv => CompleteIsDelivered
  <2> SUFFICES ASSUME H26xInv, NEW t \in DOMAIN access_units_ \ interleaved, NEW n \in NalUnits,
                      FragmentsUpTo(n, t) # {},
                      \A p \in FragmentsUpTo(n, t) :
                        Seq16(p) \in access_units_[t].received_packet_seqs
               PROVE  IsDelivered(n)
    BY DEF CompleteIsDelivered
  <2>1. trial \in Trials /\ UnitsOK(access_units_) /\ Blocked(access_units_, interleaved)
        /\ Used(access_units_, interleaved, delivered)
    BY Types DEF Sound, H26xInv, SoundInv
  <2>2. PICK q \in PacketsOf(n) : Ts(q) = t /\ Fragmented(q)
    BY DEF FragmentsUpTo
  <2>3. q \in Packet /\ n \in Carried(q)
    BY DEF PacketsOf
  <2>4. PICK f, l \in Packet : Span(f, l) /\ q \in f .. l
    BY <2>1, <2>2, <2>3, FragmentSpan
  <2>5. /\ n = Nal(f) /\ Ts(f) = t /\ PacketsOf(n) = f .. l /\ l \in f .. l
        /\ f \in Nat /\ l \in Nat /\ f < l
    BY <2>1, <2>2, <2>3, <2>4, SpanFacts
  \* Every fragment up to l has come.
  <2>6. ASSUME NEW g \in Packet, NEW m \in Packet, Span(g, m), Ts(g) = t, m <= l
        PROVE  \A r \in g .. m : r \in Packet /\ In(access_units_, r)
    <3> TAKE r \in g .. m
    <3>1. r \in Packet /\ Ts(r) = t /\ Fragmented(r) /\ r <= l
      <4>1. r \in Packet /\ Ts(r) = t /\ Fragmented(r) /\ r \in Nat /\ m \in Nat
        BY <2>1, <2>6, SpanFacts
      <4>2. r <= m
        OBVIOUS
      <4> QED
        BY <2>5, <2>6, <4>1, <4>2
    <3>2. Ts(l) = t /\ Fragmented(l)
      BY <2>1, <2>4, <2>5, SpanFacts
    <3>3. r \in FragmentsUpTo(n, t)
      BY <2>5, <3>1, <3>2 DEF FragmentsUpTo
    <3> QED
      BY <3>1, <3>3 DEF In
  <2> DEFINE Stuck(g) == \E m \in Packet : /\ Span(g, m) /\ Ts(g) = t /\ m <= l
                                           /\ \A r \in g .. m : Waits(access_units_, r)
             S == {g \in Packet : Stuck(g)}
  <2>7. CASE S = {}
    <3>1. PICK r \in f .. l : ~Waits(access_units_, r)
      BY <2>4, <2>5, <2>7
    <3>2. In(access_units_, r)
      BY <2>4, <2>5, <2>6
    <3>3. Returned(delivered, Nal(f))
      BY <2>1, <2>4, <2>5, <3>1, <3>2 DEF Used
    <3> QED
      BY <2>5, <3>3 DEF Returned, IsDelivered
  <2>8. CASE S # {}
    <3>1. PICK g \in S : \A h \in S : g <= h
      <4>1. S \in SUBSET Nat
        BY <2>1, Settings
      <4> HIDE DEF S
      <4> QED
        BY <2>8, <4>1, Smallest
    <3>2. PICK m \in Packet : /\ Span(g, m) /\ Ts(g) = t /\ m <= l
                              /\ \A r \in g .. m : Waits(access_units_, r)
      BY <3>1
    <3>3. PICK h, o \in Packet : /\ Span(h, o) /\ h < g /\ Ts(h) = t /\ Waits(access_units_, h)
      BY <2>1, <3>1, <3>2 DEF Blocked
    <3>4. o <= l
      <4>1. /\ h \in Nat /\ o \in Nat /\ h < o /\ g \in Nat /\ m \in Nat /\ g < m
        BY <2>1, <3>2, <3>3, SpanFacts
      <4>2. h # g
        BY <3>3, <4>1
      <4>3. o < g \/ m < h
        BY <2>1, <3>2, <3>3, <4>2, SpansApart
      <4> QED
        BY <2>5, <3>2, <3>3, <4>1, <4>3
    <3>5. \A r \in h .. o : In(access_units_, r)
      BY <2>6, <3>3, <3>4
    <3>6. \A r \in h .. o : Waits(access_units_, r)
      <4> SUFFICES ASSUME NEW r \in h .. o, ~Waits(access_units_, r) PROVE FALSE
        OBVIOUS
      <4>1. \A u \in h .. o : ~Waits(access_units_, u)
        BY <2>1, <3>3, <3>5 DEF Used
      <4>2. h \in h .. o
        BY <2>1, <3>3, SpanFacts
      <4> QED
        BY <3>3, <4>1, <4>2
    <3>7. h \in S
      BY <3>3, <3>4, <3>6
    <3> HIDE DEF S
    <3>8. h \in Nat /\ g \in Nat
      <4>1. S \in SUBSET Packet
        BY DEF S
      <4> QED
        BY <2>1, <3>3, <4>1, Settings
    <3> QED
      BY <3>1, <3>3, <3>7, <3>8
  <2> QED
    BY <2>7, <2>8
<1> QED
  BY <1>1, H26xInvariant, PTL

\* Every fragment held will be released, and what drop_access_unit() dereferences
\* is held (h26x.cc:563-572).
THEOREM HoldsWhatItReleases == Spec => []HeldIsIncomplete
<1>1. H26xInv => HeldIsIncomplete
  <2> SUFFICES ASSUME H26xInv PROVE HeldIsIncomplete
    OBVIOUS
  <2>1. trial \in Trials /\ UnitsOK(access_units_) /\ HeldOK(access_units_, fragments_)
        /\ NoLeak(access_units_, fragments_, interleaved)
    BY Types DEF Sound
  <2>2. ASSUME NEW s \in SeqNum, fragments_[s] # NoFrame, Ts(fragments_[s]) \notin interleaved
        PROVE  \E t \in DOMAIN access_units_ : s \in access_units_[t].incomplete_packet_seqs
    <3>1. fragments_[s] \in Packet /\ Seq16(fragments_[s]) = s
      BY <2>1, <2>2 DEF HeldOK
    <3>2. Waits(access_units_, fragments_[s])
      BY <2>1, <2>2, <3>1 DEF NoLeak
    <3> QED
      BY <3>1, <3>2 DEF Waits
  <2>3. ASSUME NEW t \in DOMAIN access_units_, NEW s \in access_units_[t].incomplete_packet_seqs
        PROVE  fragments_[s] # NoFrame /\ Ts(fragments_[s]) = t
    <3>1. PICK q \in Packet : s = Seq16(q) /\ Ts(q) = t /\ Waits(access_units_, q)
      BY <2>1, NumberWaits
    <3>2. fragments_[s] = q /\ q # NoFrame
      BY <2>1, <3>1, Settings DEF HeldOK
    <3> QED
      BY <3>1, <3>2
  <2> QED
    BY <2>2, <2>3 DEF HeldIsIncomplete
<1> QED
  BY <1>1, H26xInvariant, PTL

\* The loop reads fragments it has freed only where a fragment of a later NAL unit
\* has overtaken one of an earlier (h26x.cc:818).
THEOREM CrashesInterleave == Spec => []CrashOnlyInterleaved
<1>1. H26xInv => CrashOnlyInterleaved
  BY DEF H26xInv
<1> QED
  BY <1>1, H26xInvariant, PTL

\* While fragments that an inter frame may refer to are missing it is dropped, with
\* its access unit (h26x.cc:823-833).
THEOREM InterWaitsForIntra == Spec => InterNeedsReferences
<1> DEFINE Discards(p) ==
             /\ Enforcement
             /\ referenceLost
             /\ Stream[p].type = "inter"
             /\ p \notin received
             /\ Fragmented(p)
             /\ p \in received'
             => UNCHANGED delivered
<1>1. H26xInv /\ [Next]_vars => [\A p \in Packet : Discards(p)]_vars
  <2> SUFFICES ASSUME H26xInv, Next, NEW p \in Packet, Enforcement, referenceLost,
                      Stream[p].type = "inter", p \notin received, Fragmented(p), p \in received'
               PROVE  UNCHANGED delivered
    OBVIOUS
  <2>1. discard_until_key_frame_ = TRUE
    BY Types
  <2>2. CASE Environment
    BY <2>2 DEF Environment, historyVars
  <2>3. ASSUME NEW r \in Packet, packet_handler(r) PROVE UNCHANGED delivered
    <3>1. r = p
      <4>1. Handles(r)
        BY <2>3 DEF packet_handler, DiscardDuplicate, DiscardOld, ReturnWhole, DiscardKnown, StoreFragment
      <4> QED
        BY <4>1 DEF Handles, Arrive
    <3>2. CASE DiscardDuplicate(p) \/ DiscardOld(p) \/ DiscardKnown(p)
      BY <3>2 DEF DiscardDuplicate, DiscardOld, DiscardKnown, historyVars
    <3>3. ~ReturnWhole(p)
      BY DEF ReturnWhole
    <3>4. CASE StoreFragment(p)
      <4>1. \/ KeepUntilStart(p) \/ KeepUntilEnd(p) \/ Crash \/ DropInter(p)
        BY <2>1, <3>4 DEF StoreFragment
      <4> QED
        BY <4>1 DEF KeepUntilStart, KeepUntilEnd, Crash, DropInter
    <3> QED
      BY <2>3, <3>1, <3>2, <3>3, <3>4 DEF packet_handler
  <2> QED
    BY <2>2, <2>3 DEF Next
<1>2. Spec => [][\A p \in Packet : Discards(p)]_vars
  <2> HIDE DEF Discards
  <2> QED
    BY <1>1, H26xInvariant, PTL DEF Spec
<1> QED
  BY <1>2 DEF InterNeedsReferences

====
