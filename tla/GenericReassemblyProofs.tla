----------------------- MODULE GenericReassemblyProofs -----------------------
(***************************************************************************)
(* The reassembly of generic frames, for every stream, every range of the  *)
(* sequence number and every order, loss and repetition of the packets.    *)
(***************************************************************************)
EXTENDS GenericReassembly, FiniteSetTheorems, WellFoundedInduction, TLAPS

(* Least and greatest elements.                                            *)

LEMMA Least ==
    ASSUME NEW S \in SUBSET Nat, S # {}
    PROVE  \E m \in S : \A x \in S : m <= x
  <1> DEFINE R == OpToRel(<, Nat)
  <1>1. \E m \in S : \A x \in S : <<x, m>> \notin R
    <2>1. IsWellFoundedOn(R, Nat)
      BY NatLessThanWellFounded
    <2> HIDE DEF R
    <2> QED  BY <2>1, WFMin
  <1>2. \A x, m \in Nat : <<x, m>> \in R <=> x < m
    BY DEF OpToRel
  <1> HIDE DEF R
  <1>3. PICK m \in S : \A x \in S : <<x, m>> \notin R
    BY <1>1
  <1>4. ASSUME NEW x \in S PROVE m <= x
    <2>1. x \in Nat /\ m \in Nat /\ <<x, m>> \notin R
      BY <1>3
    <2>2. ~(x < m)
      BY <1>2, <2>1
    <2> QED  BY <2>1, <2>2
  <1> QED  BY <1>4

LEMMA Greatest ==
    ASSUME NEW n \in Nat, NEW S \in SUBSET (0 .. n), S # {}
    PROVE  \E m \in S : \A x \in S : x <= m
  <1> DEFINE T == {i \in Nat : n - i \in S}
  <1>1. T \in SUBSET Nat /\ T # {}
    <2>1. PICK x \in S : TRUE
      OBVIOUS
    <2>2. n - x \in Nat /\ n - (n - x) = x
      OBVIOUS
    <2> QED  BY <2>1, <2>2
  <1>2. PICK i \in T : \A j \in T : i <= j
    <2> HIDE DEF T
    <2> QED  BY <1>1, Least
  <1>3. ASSUME NEW x \in S PROVE x <= n - i
    <2>1. n - x \in Nat /\ n - (n - x) = x
      OBVIOUS
    <2>2. n - x \in T
      BY <2>1
    <2> QED  BY <1>2, <2>2
  <1> QED  BY <1>2, <1>3

-----------------------------------------------------------------------------
(* The order of the map (media.cc:163).                                    *)

LEMMA Numbers == \A n \in Nat : IsFiniteSet(0 .. n)
  BY FS_Interval

\* A key with n - 1 keys before it, for every n up to how many there are.
LEMMA NthExists ==
    ASSUME NEW b \in Nat, NEW S \in SUBSET (0 .. b), NEW n \in 1 .. Cardinality(S)
    PROVE  \E k \in S : Cardinality({j \in S : j < k}) = n - 1
  <1> DEFINE Before(k) == {j \in S : j < k}
             T == {k \in S : Cardinality(Before(k)) >= n - 1}
  <1>1. IsFiniteSet(S) /\ Cardinality(S) \in Nat
    BY Numbers, FS_Subset, FS_CardinalityType
  <1>2. \A k : IsFiniteSet(Before(k)) /\ Cardinality(Before(k)) \in Nat
    <2> TAKE k
    <2>1. Before(k) \in SUBSET S
      OBVIOUS
    <2> QED  BY <1>1, <2>1, FS_Subset, FS_CardinalityType
  <1>3. ASSUME NEW k \in S, NEW U \in SUBSET S,
               k \in U, \A x \in U : x <= k, \A x \in S : x < k => x \in U
        PROVE  Cardinality(Before(k)) = Cardinality(U) - 1
    <2>1. Before(k) = U \ {k}
      <3>1. ASSUME NEW x PROVE x \in Before(k) <=> x \in U \ {k}
        <4>1. x \in S => x \in 0 .. b
          OBVIOUS
        <4>2. k \in 0 .. b
          OBVIOUS
        <4>3. x \in U => x \in S /\ x <= k
          BY <1>3
        <4>4. x \in S /\ x < k => x \in U
          BY <1>3
        <4>5. x \in S => (x < k <=> x <= k /\ x # k)
          BY <4>1, <4>2
        <4>6. x \in S /\ x < k <=> x \in U /\ x # k
          BY <4>3, <4>4, <4>5, Zenon
        <4> QED  BY <4>6, Zenon
      <3> QED  BY <3>1
    <2>2. IsFiniteSet(U)
      BY <1>1, FS_Subset
    <2> QED  BY <1>3, <2>1, <2>2, FS_RemoveElement
  <1>4. T # {}
    <2>1. S # {}
      BY FS_EmptySet
    <2>2. PICK m \in S : \A x \in S : x <= m
      BY <2>1, Greatest
    <2>3. Cardinality(Before(m)) = Cardinality(S) - 1
      BY <1>3, <2>2
    <2> QED  BY <1>1, <2>3
  <1>5. PICK k \in T : \A x \in T : k <= x
    <2>1. T \in SUBSET S /\ S \in SUBSET Nat
      OBVIOUS
    <2> HIDE DEF T
    <2> QED  BY <1>4, <2>1, Least
  <1>6. SUFFICES ASSUME Cardinality(Before(k)) # n - 1 PROVE FALSE
    OBVIOUS
  <1>7. Before(k) # {}
    BY <1>2, <1>5, <1>6, FS_EmptySet
  <1>8. PICK m \in Before(k) : \A x \in Before(k) : x <= m
    <2>1. Before(k) \in SUBSET (0 .. b)
      OBVIOUS
    <2> HIDE DEF Before
    <2> QED  BY <1>7, <2>1, Greatest
  <1>9. Cardinality(Before(m)) = Cardinality(Before(k)) - 1
    <2>1. \A x \in S : x < m => x \in Before(k)
      BY <1>5, <1>8
    <2>2. m \in S /\ Before(k) \in SUBSET S
      BY <1>8
    <2> HIDE DEF Before
    <2> QED  BY <1>3, <1>8, <2>1, <2>2
  <1>10. m \in T /\ m < k
    BY <1>2, <1>5, <1>6, <1>8, <1>9
  <1> QED  BY <1>5, <1>10

\* What is delivered was held (media.cc:163-171).
LEMMA PiecesAreFragments ==
    ASSUME NEW b \in Nat, NEW fragments, DOMAIN fragments \in SUBSET (0 .. b)
    PROVE  \A n \in DOMAIN Pieces(fragments) :
             \E k \in DOMAIN fragments : Pieces(fragments)[n] = fragments[k]
  <1> TAKE n \in DOMAIN Pieces(fragments)
  <1>1. n \in 1 .. Cardinality(DOMAIN fragments) /\ Pieces(fragments)[n] = Nth(n, fragments)
    BY DEF Pieces
  <1>2. \E k \in DOMAIN fragments : Cardinality({j \in DOMAIN fragments : j < k}) = n - 1
    BY <1>1, NthExists
  <1> QED  BY <1>1, <1>2 DEF Nth

\* The fragments of m packets from f, with keys from s, and no gap.
Gapless(fragments, s, f, m) ==
  /\ DOMAIN fragments = s .. s + m - 1
  /\ \A k \in s .. s + m - 1 : fragments[k] = f + (k - s)

\* Such fragments are delivered in the order they were sent.
LEMMA PiecesInOrder ==
    ASSUME NEW s \in Nat, NEW f \in Nat, NEW m \in Nat, NEW fragments,
           Gapless(fragments, s, f, m)
    PROVE  Pieces(fragments) = [n \in 1 .. m |-> f + (n - 1)]
  <1>1. DOMAIN fragments = s .. s + m - 1 /\ \A k \in s .. s + m - 1 : fragments[k] = f + (k - s)
    BY DEF Gapless
  <1>2. Cardinality(s .. s + m - 1) = m
    BY FS_Interval
  <1>3. ASSUME NEW n \in 1 .. m PROVE Nth(n, fragments) = f + (n - 1)
    <2>1. \A k \in s .. s + m - 1 : {j \in s .. s + m - 1 : j < k} = s .. k - 1
      OBVIOUS
    <2>2. \A k \in s .. s + m - 1 : Cardinality(s .. k - 1) = k - s
      <3>1. TAKE k \in s .. s + m - 1
      <3>2. k - 1 \in Int /\ s \in Int /\ s <= k
        OBVIOUS
      <3>3. Cardinality(s .. k - 1) = IF s > k - 1 THEN 0 ELSE (k - 1) - s + 1
        BY <3>2, FS_Interval
      <3> QED  BY <3>2, <3>3
    <2>3. s + n - 1 \in s .. s + m - 1
      OBVIOUS
    <2>4. ASSUME NEW k \in s .. s + m - 1
          PROVE  Cardinality({j \in s .. s + m - 1 : j < k}) = n - 1 <=> k = s + n - 1
      <3>1. Cardinality({j \in s .. s + m - 1 : j < k}) = k - s
        BY <2>1, <2>2
      <3> QED  BY <3>1
    <2>5. (CHOOSE k \in s .. s + m - 1 : Cardinality({j \in s .. s + m - 1 : j < k}) = n - 1) = s + n - 1
      BY <2>3, <2>4
    <2>6. fragments[s + n - 1] = f + (n - 1)
      BY <1>1, <2>3
    <2>7. Nth(n, fragments) = fragments[s + n - 1]
      BY <1>1, <2>5, Zenon DEF Nth
    <2> QED  BY <2>6, <2>7
  <1> QED  BY <1>1, <1>2, <1>3 DEF Pieces

-----------------------------------------------------------------------------
(* Sequence numbers (media.cc:130, 148).                                   *)

LEMMA Division ==
    ASSUME NEW n \in Nat, NEW b \in Nat \ {0}
    PROVE  /\ n \div b \in Nat /\ n % b \in 0 .. b - 1
           /\ (n \div b) * b + (n % b) = n
  BY SMTT(60)

LEMMA RemainderUnique ==
    ASSUME NEW b \in Nat \ {0}, NEW q \in Nat, NEW r \in 0 .. b - 1
    PROVE  ((q * b) + r) % b = r
  BY SMTT(60)

LEMMA Wraps ==
    ASSUME NEW n \in Nat, NEW b \in Nat \ {0}, NEW d \in 0 .. b - 1
    PROVE  (n + d) % b = IF (n % b) + d < b THEN (n % b) + d ELSE (n % b) + d - b
  <1> DEFINE q == n \div b
             r == n % b
  <1>1. q \in Nat /\ r \in 0 .. b - 1 /\ (q * b) + r = n
    BY Division
  <1> HIDE DEF q, r
  <1>2. CASE r + d < b
    <2>1. n + d = (q * b) + (r + d) /\ r + d \in 0 .. b - 1
      BY <1>1, <1>2, SMT
    <2> QED  BY <1>1, <1>2, <2>1, RemainderUnique DEF r
  <1>3. CASE ~(r + d < b)
    <2>1. n + d = ((q + 1) * b) + (r + d - b) /\ r + d - b \in 0 .. b - 1 /\ q + 1 \in Nat
      BY <1>1, <1>3, SMT
    <2>2. (((q + 1) * b) + (r + d - b)) % b = r + d - b
      BY <2>1, RemainderUnique
    <2> QED  BY <1>3, <2>1, <2>2, Zenon DEF r
  <1> QED  BY <1>2, <1>3

LEMMA NumberOf ==
    ASSUME trial \in Trials, NEW f \in Packet, NEW p \in Packet, f <= p, p - f < SeqMod
    PROVE  /\ Seq16(f) \in SeqNum /\ Seq16(p) \in SeqNum
           /\ Seq16(p) = IF Seq16(f) + (p - f) < SeqMod
                         THEN Seq16(f) + (p - f) ELSE Seq16(f) + (p - f) - SeqMod
  <1>1. /\ SeqMod \in Nat \ {0} /\ FirstSeq \in Nat /\ f \in Nat \ {0} /\ p \in Nat \ {0}
    BY SeqModAssumption, TrialsAssumption DEF FirstSeq, Packet, Stream
  <1> DEFINE n == FirstSeq + f - 1
  <1>2. n \in Nat /\ p - f \in 0 .. SeqMod - 1 /\ FirstSeq + p - 1 = n + (p - f) /\ FirstSeq + p - 1 \in Nat
    BY <1>1
  <1>3. Seq16(f) = n % SeqMod /\ Seq16(p) = (n + (p - f)) % SeqMod
    BY <1>2 DEF Seq16
  <1> HIDE DEF n
  <1>4. n % SeqMod \in SeqNum /\ (n + (p - f)) % SeqMod \in SeqNum
    <2>1. n + (p - f) \in Nat
      BY <1>2
    <2> QED  BY <1>1, <1>2, <2>1, Division DEF SeqNum
  <1>5. (n + (p - f)) % SeqMod =
          IF (n % SeqMod) + (p - f) < SeqMod
          THEN (n % SeqMod) + (p - f) ELSE (n % SeqMod) + (p - f) - SeqMod
    BY <1>1, <1>2, Wraps
  <1> QED  BY <1>3, <1>4, <1>5

\* A packet's key says how many packets after the first it was sent (media.cc:130-133).
LEMMA KeyOf ==
    ASSUME trial \in Trials, NEW f \in Packet, NEW p \in Packet, f <= p, p - f < SeqMod,
           NEW info, info.s_seq = Seq16(f)
    PROVE  Key(p, info) = Seq16(f) + (p - f)
  <1>1. f \in Nat /\ p \in Nat /\ SeqMod \in Nat \ {0}
    BY SeqModAssumption, TrialsAssumption DEF Packet, Stream
  <1> QED  BY <1>1, NumberOf DEF Key, SeqNum

\* The first and the last number say how many there are (media.cc:148-155).
LEMMA CountOf ==
    ASSUME trial \in Trials, NEW f \in Packet, NEW l \in Packet, f <= l, l - f < SeqMod,
           NEW info, info.s_seq = Seq16(f), info.e_seq = Seq16(l)
    PROVE  recv(info) = l - f + 1
  <1>1. f \in Nat /\ l \in Nat /\ SeqMod \in Nat \ {0}
    BY SeqModAssumption, TrialsAssumption DEF Packet, Stream
  <1> QED  BY <1>1, NumberOf DEF recv, SeqNum

-----------------------------------------------------------------------------
(* The packets of a frame (push_media_frame).                              *)

\* The frame t is the packets from f to l.
Whole(t, f, l) ==
  /\ f <= l /\ l - f < SeqMod
  /\ Sent(t) = f .. l
  /\ \A p \in f .. l : Stream[p].marker <=> p = l

LEMMA SentTogether ==
    ASSUME trial \in Trials, NEW t \in Timestamps
    PROVE  \E f, l \in Packet : Whole(t, f, l)
  <1>1. Len(Stream) \in Nat /\ SeqMod \in Nat
    BY TrialsAssumption, SeqModAssumption DEF Stream
  <1>2. Sent(t) \in SUBSET Packet /\ Sent(t) # {}
    BY DEF Sent, Timestamps
  <1>3. PICK f \in Sent(t) : \A p \in Sent(t) : f <= p
    <2>1. Sent(t) \in SUBSET Nat
      BY <1>1, <1>2 DEF Packet
    <2> QED  BY <1>2, <2>1, Least
  <1>4. PICK l \in Sent(t) : \A p \in Sent(t) : p <= l
    <2>1. Sent(t) \in SUBSET (0 .. Len(Stream))
      BY <1>1, <1>2 DEF Packet
    <2> QED  BY <1>1, <1>2, <2>1, Greatest
  <1>5. /\ f \in Packet /\ l \in Packet /\ Ts(f) = t /\ Ts(l) = t /\ f <= l
    BY <1>3, <1>4 DEF Sent
  <1>6. l - f < SeqMod /\ \A r \in f .. l : Ts(r) = t
    BY <1>5, FramesAssumption DEF Packet, Stream, Ts
  <1>7. Sent(t) = f .. l
    <2>1. \A p \in f .. l : p \in Packet
      BY <1>1, <1>5 DEF Packet
    <2>2. \A p \in Sent(t) : p \in f .. l
      BY <1>1, <1>2, <1>3, <1>4, <1>5 DEF Packet
    <2>3. \A p \in f .. l : p \in Sent(t)
      BY <1>6, <2>1 DEF Sent
    <2> QED  BY <2>2, <2>3
  <1>8. ASSUME NEW p \in f .. l PROVE Stream[p].marker <=> p = l
    <2>1. p \in Packet /\ Ts(p) = t
      BY <1>7 DEF Sent
    <2>2. Stream[p].marker <=> \A r \in Packet : Ts(r) = t => r <= p
      BY <2>1, FramesAssumption DEF Packet, Stream, Ts
    <2>3. (\A r \in Packet : Ts(r) = t => r <= p) <=> \A r \in Sent(t) : r <= p
      BY DEF Sent
    <2>4. (\A r \in Sent(t) : r <= p) <=> p = l
      <3>1. p \in Int /\ l \in Int
        BY <1>1, <1>5 DEF Packet
      <3> QED  BY <1>4, <1>7, <3>1
    <2> QED  BY <2>2, <2>3, <2>4
  <1> QED  BY <1>5, <1>6, <1>7, <1>8 DEF Whole

-----------------------------------------------------------------------------
(* The inductive invariant.                                                *)

Held(t) == {frames[t].fragments[k] : k \in DOMAIN frames[t].fragments}

Delivery == [ts : Timestamps, pieces : Seq(Packet)]

\* What the frames and the deliveries are made of.
TypeInv ==
  /\ trial \in Trials /\ received \in SUBSET Packet /\ duplicates \in Nat
  /\ DOMAIN frames \subseteq Timestamps
  /\ \A t \in DOMAIN frames :
       /\ DOMAIN frames[t].fragments \in SUBSET (0 .. 2 * SeqMod)
       /\ Held(t) \subseteq Sent(t) \cap received
  /\ delivered \in Seq(Delivery)
  /\ \A i \in DOMAIN delivered : PiecesOf(i) \subseteq received

\* The frame of the packets from f to l when its packets came once each and
\* the first one first: the entry counts those that came.
Assembled(t, f, l) ==
  LET came == Sent(t) \cap received
  IN /\ came # {} => f \in came
     /\ t \in DOMAIN frames <=> came # {} /\ came # Sent(t)
     /\ t \in DOMAIN frames =>
          /\ frames[t].npkts = Cardinality(came)
          /\ frames[t].s_seq = Seq16(f)
          /\ frames[t].e_seq = IF l \in came THEN Seq16(l) ELSE INVALID_SEQ
          /\ frames[t].fragments =
               [k \in {Seq16(f) + (p - f) : p \in came} |-> f + (k - Seq16(f))]
     /\ came = Sent(t) => \E i \in DOMAIN delivered : delivered[i].ts = t
     /\ \A i \in DOMAIN delivered :
          delivered[i].ts = t => delivered[i].pieces = [n \in 1 .. l - f + 1 |-> f + (n - 1)]

AssemblyInv ==
  \A t \in Timestamps \ disturbed : \A f, l \in Packet : Whole(t, f, l) => Assembled(t, f, l)

\* A packet that came once is in one place.
ApartInv ==
  duplicates = 0 =>
    /\ \A i, j \in DOMAIN delivered : i # j => PiecesOf(i) \cap PiecesOf(j) = {}
    /\ \A i \in DOMAIN delivered, t \in DOMAIN frames : PiecesOf(i) \cap Held(t) = {}

GenericInv == TypeInv /\ AssemblyInv /\ ApartInv

-----------------------------------------------------------------------------
(* Lemmas about one step.                                                  *)

LEMMA SameTrial ==
    ASSUME trial' = trial
    PROVE  /\ Packet' = Packet /\ Timestamps' = Timestamps /\ Stream' = Stream
           /\ Delivery' = Delivery
           /\ \A t : Sent(t)' = Sent(t)
           /\ \A p : Seq16(p)' = Seq16(p) /\ Ts(p)' = Ts(p)
           /\ \A t, f, l : Whole(t, f, l)' <=> Whole(t, f, l)
  BY DEF Packet, Timestamps, Stream, Delivery, Sent, Seq16, FirstSeq, Ts, Whole

LEMMA Handling ==
    ASSUME TypeInv, NEW p \in Packet, Handles(p)
    PROVE  /\ trial' = trial /\ received' = received \cup {p} /\ received' \in SUBSET Packet
           /\ duplicates' \in Nat
           /\ duplicates' = 0 => duplicates = 0 /\ p \notin received
           /\ \A t : t \notin disturbed' => t \notin disturbed
           /\ Ts(p) \notin disturbed' =>
                /\ p \notin received
                /\ \A q \in Sent(Ts(p)) : q < p => Sent(Ts(p)) \cap received # {}
           /\ Ts(p) \in Timestamps /\ p \in Sent(Ts(p))
  <1>1. trial' = trial /\ received' = received \cup {p} /\ duplicates' \in Nat
    BY DEF TypeInv, Handles, Arrive
  <1>2. duplicates' = 0 => duplicates = 0 /\ p \notin received
    BY DEF TypeInv, Handles, Arrive
  <1>3. Ts(p) \in Timestamps /\ p \in Sent(Ts(p))
    BY DEF Timestamps, Sent
  <1>4. /\ \A t : t \notin disturbed' => t \notin disturbed
        /\ Ts(p) \notin disturbed' =>
                /\ p \notin received
                /\ \A q \in Sent(Ts(p)) : q < p => Sent(Ts(p)) \cap received # {}
    BY DEF Handles
  <1> QED  BY <1>1, <1>2, <1>3, <1>4 DEF TypeInv

\* What an entry holds with one packet more (media.cc:130-133).
LEMMA FragmentAdded ==
    ASSUME trial \in Trials, NEW p \in Packet, NEW info,
           DOMAIN info.fragments \in SUBSET (0 .. 2 * SeqMod)
    PROVE  LET new == WithFragment(p, info).fragments
           IN  /\ DOMAIN new = DOMAIN info.fragments \cup {Key(p, info)}
               /\ DOMAIN new \in SUBSET (0 .. 2 * SeqMod)
               /\ new[Key(p, info)] = p
               /\ \A k \in DOMAIN new : k # Key(p, info) => new[k] = info.fragments[k]
  <1>1. SeqMod \in Nat \ {0} /\ p \in Int /\ Seq16(p) \in SeqNum
    <2>1. p - p = 0 /\ p <= p /\ SeqMod \in Nat \ {0} /\ p \in Int
      BY SeqModAssumption DEF Packet
    <2> QED  BY <2>1, NumberOf
  <1>2. Key(p, info) \in 0 .. 2 * SeqMod
    BY <1>1 DEF Key, SeqNum
  <1> QED  BY <1>2 DEF WithFragment

\* A delivery of what was held.
LEMMA PiecesHeld ==
    ASSUME trial \in Trials, NEW fragments, DOMAIN fragments \in SUBSET (0 .. 2 * SeqMod),
           NEW S \in SUBSET Packet, \A k \in DOMAIN fragments : fragments[k] \in S
    PROVE  /\ Pieces(fragments) \in Seq(Packet)
           /\ \A n \in DOMAIN Pieces(fragments) : Pieces(fragments)[n] \in S
  <1>1. 2 * SeqMod \in Nat
    BY SeqModAssumption
  <1>2. \A n \in DOMAIN Pieces(fragments) : Pieces(fragments)[n] \in S
    BY <1>1, PiecesAreFragments
  <1>3. Cardinality(DOMAIN fragments) \in Nat
    BY <1>1, Numbers, FS_Subset, FS_CardinalityType
  <1> DEFINE c == Cardinality(DOMAIN fragments)
  <1>4. Pieces(fragments) = [n \in 1 .. c |-> Nth(n, fragments)]
    BY DEF Pieces
  <1> HIDE DEF c
  <1>5. \A n \in 1 .. c : Nth(n, fragments) \in Packet
    BY <1>2, <1>4
  <1> QED  BY <1>2, <1>3, <1>4, <1>5 DEF c

LEMMA Appended ==
    ASSUME NEW S, NEW s \in Seq(S), NEW e \in S
    PROVE  /\ Append(s, e) \in Seq(S) /\ Len(s) \in Nat
           /\ DOMAIN Append(s, e) = DOMAIN s \cup {Len(s) + 1} /\ Len(s) + 1 \notin DOMAIN s
           /\ \A i \in DOMAIN s : Append(s, e)[i] = s[i]
           /\ Append(s, e)[Len(s) + 1] = e
  OBVIOUS

-----------------------------------------------------------------------------
(* Types and places.                                                       *)

PlacesInv == TypeInv /\ ApartInv

\* Nothing is delivered.
LEMMA PlacesQuiet ==
    ASSUME PlacesInv, NEW p \in Packet, Handles(p), UNCHANGED delivered,
           DOMAIN frames' \subseteq DOMAIN frames \cup {Ts(p)},
           \A t \in DOMAIN frames' :
             /\ DOMAIN frames'[t].fragments \in SUBSET (0 .. 2 * SeqMod)
             /\ \A k \in DOMAIN frames'[t].fragments :
                  \/ t \in DOMAIN frames /\ frames'[t].fragments[k] \in Held(t)
                  \/ t = Ts(p) /\ frames'[t].fragments[k] = p
    PROVE  PlacesInv'
  <1>1. /\ trial' = trial /\ received' = received \cup {p} /\ received' \in SUBSET Packet
        /\ duplicates' \in Nat
        /\ duplicates' = 0 => duplicates = 0 /\ p \notin received
        /\ Ts(p) \in Timestamps /\ p \in Sent(Ts(p))
    BY Handling DEF PlacesInv
  <1>2. /\ Packet' = Packet /\ Timestamps' = Timestamps /\ Delivery' = Delivery
        /\ \A t : Sent(t)' = Sent(t)
    BY <1>1, SameTrial
  <1>3. \A i : PiecesOf(i)' = PiecesOf(i)
    BY DEF PiecesOf
  <1>4. \A t \in DOMAIN frames' : \A x \in Held(t)' :
          \/ t \in DOMAIN frames /\ x \in Held(t)
          \/ t = Ts(p) /\ x = p
    BY DEF Held
  <1>5. TypeInv'
    <2>1. \A t \in DOMAIN frames : Held(t) \subseteq Sent(t) \cap received
      BY DEF PlacesInv, TypeInv
    <2>2. \A t \in DOMAIN frames' : Held(t)' \subseteq Sent(t)' \cap received'
      BY <1>1, <1>2, <1>4, <2>1
    <2>3. trial \in Trials /\ DOMAIN frames \subseteq Timestamps /\ delivered \in Seq(Delivery)
          /\ \A i \in DOMAIN delivered : PiecesOf(i) \subseteq received
      BY DEF PlacesInv, TypeInv
    <2>4. /\ (trial \in Trials)' /\ (received \in SUBSET Packet)' /\ (duplicates \in Nat)'
          /\ (DOMAIN frames \subseteq Timestamps)' /\ (delivered \in Seq(Delivery))'
      BY <1>1, <1>2, <2>3
    <2>5. (\A i \in DOMAIN delivered : PiecesOf(i) \subseteq received)'
      BY <1>1, <1>3, <2>3
    <2> QED  BY <2>2, <2>4, <2>5 DEF TypeInv
  <1>6. ASSUME duplicates' = 0, NEW i \in DOMAIN delivered, NEW t \in DOMAIN frames'
        PROVE  PiecesOf(i) \cap Held(t)' = {}
    <2>1. PiecesOf(i) \subseteq received /\ p \notin received
      BY <1>1, <1>6 DEF PlacesInv, TypeInv
    <2>2. t \in DOMAIN frames => PiecesOf(i) \cap Held(t) = {}
      BY <1>1, <1>6 DEF PlacesInv, ApartInv
    <2> QED  BY <1>4, <2>1, <2>2
  <1>7. ApartInv'
    BY <1>1, <1>3, <1>6 DEF PlacesInv, ApartInv
  <1> QED  BY <1>5, <1>7 DEF PlacesInv

\* The packet is delivered, with what is held of its frame.
LEMMA PlacesDelivered ==
    ASSUME PlacesInv, NEW p \in Packet, Handles(p), NEW pieces \in Seq(Packet),
           Deliver(p, pieces),
           \A n \in DOMAIN pieces :
             pieces[n] = p \/ (Ts(p) \in DOMAIN frames /\ pieces[n] \in Held(Ts(p))),
           DOMAIN frames' = DOMAIN frames \ {Ts(p)},
           \A t \in DOMAIN frames' : frames'[t] = frames[t]
    PROVE  PlacesInv'
  <1>1. /\ trial' = trial /\ received' = received \cup {p} /\ received' \in SUBSET Packet
        /\ duplicates' \in Nat
        /\ duplicates' = 0 => duplicates = 0 /\ p \notin received
        /\ Ts(p) \in Timestamps /\ p \in Sent(Ts(p))
    BY Handling DEF PlacesInv
  <1>2. /\ Packet' = Packet /\ Timestamps' = Timestamps /\ Delivery' = Delivery
        /\ \A t : Sent(t)' = Sent(t)
    BY <1>1, SameTrial
  <1> DEFINE e == [ts |-> Ts(p), pieces |-> pieces]
  <1>3. e \in Delivery /\ delivered \in Seq(Delivery) /\ delivered' = Append(delivered, e)
    BY <1>1 DEF Delivery, Deliver, PlacesInv, TypeInv
  <1>4. e.ts = Ts(p) /\ e.pieces = pieces
    OBVIOUS
  <1> HIDE DEF e
  <1> PICK last \in Nat : last = Len(delivered) + 1
    BY <1>3, Appended
  <1>5. /\ delivered' \in Seq(Delivery)
        /\ DOMAIN delivered' = DOMAIN delivered \cup {last} /\ last \notin DOMAIN delivered
        /\ \A i \in DOMAIN delivered : delivered'[i] = delivered[i]
        /\ delivered'[last] = e
    BY <1>3, Appended
  <1>6. \A i \in DOMAIN delivered : PiecesOf(i)' = PiecesOf(i)
    BY <1>5 DEF PiecesOf
  <1>7. \A x \in PiecesOf(last)' : x = p \/ (Ts(p) \in DOMAIN frames /\ x \in Held(Ts(p)))
    BY <1>4, <1>5 DEF PiecesOf
  <1>8. \A t \in DOMAIN frames' : t \in DOMAIN frames /\ t # Ts(p) /\ Held(t)' = Held(t)
    BY DEF Held
  <1>9. \A t \in DOMAIN frames : Held(t) \subseteq Sent(t) \cap received
    BY DEF PlacesInv, TypeInv
  <1>10. \A i \in DOMAIN delivered : PiecesOf(i) \subseteq received
    BY DEF PlacesInv, TypeInv
  <1>11. PiecesOf(last)' \subseteq Sent(Ts(p)) \cap received'
    BY <1>1, <1>7, <1>9
  <1>12. TypeInv'
    <2>1. \A t \in DOMAIN frames' : Held(t)' \subseteq Sent(t)' \cap received'
      BY <1>1, <1>2, <1>8, <1>9
    <2>2. trial \in Trials /\ DOMAIN frames \subseteq Timestamps
          /\ \A t \in DOMAIN frames : DOMAIN frames[t].fragments \in SUBSET (0 .. 2 * SeqMod)
      BY DEF PlacesInv, TypeInv
    <2>3. \A t \in DOMAIN frames' : DOMAIN frames'[t].fragments \in SUBSET (0 .. 2 * SeqMod)
      BY <1>8, <2>2
    <2>4. /\ (trial \in Trials)' /\ (received \in SUBSET Packet)' /\ (duplicates \in Nat)'
          /\ (DOMAIN frames \subseteq Timestamps)' /\ (delivered \in Seq(Delivery))'
      BY <1>1, <1>2, <1>5, <1>8, <2>2
    <2>5. (\A i \in DOMAIN delivered : PiecesOf(i) \subseteq received)'
      <3>1. ASSUME NEW i \in DOMAIN delivered' PROVE PiecesOf(i)' \subseteq received'
        <4>1. CASE i = last
          BY <1>11, <4>1
        <4>2. CASE i \in DOMAIN delivered
          BY <1>1, <1>6, <1>10, <4>2
        <4> QED  BY <1>5, <4>1, <4>2
      <3> QED  BY <3>1
    <2> QED  BY <2>1, <2>3, <2>4, <2>5 DEF TypeInv
  <1>13. ASSUME duplicates' = 0 PROVE \A i \in DOMAIN delivered : PiecesOf(i) \cap PiecesOf(last)' = {}
    <2>1. TAKE i \in DOMAIN delivered
    <2>2. Ts(p) \in DOMAIN frames => PiecesOf(i) \cap Held(Ts(p)) = {}
      BY <1>1, <1>13 DEF PlacesInv, ApartInv
    <2>3. p \notin PiecesOf(i)
      BY <1>1, <1>10, <1>13
    <2> QED  BY <1>7, <2>2, <2>3
  <1>14. ASSUME duplicates' = 0
         PROVE  \A i, j \in DOMAIN delivered' : i # j => PiecesOf(i)' \cap PiecesOf(j)' = {}
    <2>1. \A i, j \in DOMAIN delivered : i # j => PiecesOf(i) \cap PiecesOf(j) = {}
      BY <1>1, <1>14 DEF PlacesInv, ApartInv
    <2>2. TAKE i, j \in DOMAIN delivered'
    <2>3. CASE i \in DOMAIN delivered /\ j \in DOMAIN delivered
      BY <1>6, <2>1, <2>3
    <2>4. CASE i \in DOMAIN delivered /\ j = last
      BY <1>6, <1>13, <1>14, <2>4
    <2>5. CASE i = last /\ j \in DOMAIN delivered
      BY <1>6, <1>13, <1>14, <2>5
    <2> QED  BY <1>5, <2>3, <2>4, <2>5
  <1>15. ASSUME duplicates' = 0
         PROVE  \A i \in DOMAIN delivered', t \in DOMAIN frames' : PiecesOf(i)' \cap Held(t)' = {}
    <2>1. TAKE i \in DOMAIN delivered', t \in DOMAIN frames'
    <2>2. CASE i \in DOMAIN delivered
      BY <1>1, <1>6, <1>8, <1>15, <2>2 DEF PlacesInv, ApartInv
    <2>3. CASE i = last
      <3>1. Sent(t) \cap Sent(Ts(p)) = {}
        BY <1>8 DEF Sent
      <3>2. Held(t)' \subseteq Sent(t)
        BY <1>8, <1>9
      <3> QED  BY <1>11, <2>3, <3>1, <3>2
    <2> QED  BY <1>5, <2>2, <2>3
  <1>16. ApartInv'
    BY <1>14, <1>15 DEF ApartInv
  <1> QED  BY <1>12, <1>16 DEF PlacesInv

-----------------------------------------------------------------------------
(* Frames whose packets come once, the first one first.                    *)

\* The frames of other timestamps.
LEMMA OtherFrames ==
    ASSUME GenericInv, NEW p \in Packet, Handles(p),
           NEW t, t # Ts(p), NEW f, NEW l, Assembled(t, f, l),
           t \in DOMAIN frames' <=> t \in DOMAIN frames,
           t \in DOMAIN frames => frames'[t] = frames[t],
           UNCHANGED delivered \/ \E pieces \in Seq(Packet) : Deliver(p, pieces)
    PROVE  Assembled(t, f, l)'
  <1>1. /\ trial' = trial /\ received' = received \cup {p} /\ Ts(p) \in Timestamps
    BY Handling DEF GenericInv
  <1>2. Sent(t)' = Sent(t) /\ Sent(t)' \cap received' = Sent(t) \cap received
    <2>1. p \notin Sent(t)
      BY DEF Sent
    <2>2. Sent(t)' = Sent(t)
      BY <1>1, SameTrial
    <2> QED  BY <1>1, <2>1, <2>2
  <1>3. \A q : Seq16(q)' = Seq16(q)
    BY <1>1, SameTrial
  <1>4. /\ \A i \in DOMAIN delivered : i \in DOMAIN delivered' /\ delivered'[i] = delivered[i]
        /\ \A i \in DOMAIN delivered' \ DOMAIN delivered : delivered'[i].ts = Ts(p)
    <2>1. CASE UNCHANGED delivered
      BY <2>1
    <2>2. ASSUME NEW pieces \in Seq(Packet), Deliver(p, pieces) PROVE <1>4
      <3> DEFINE e == [ts |-> Ts(p), pieces |-> pieces]
      <3>1. e \in Delivery /\ delivered \in Seq(Delivery) /\ delivered' = Append(delivered, e)
        BY <1>1, <2>2 DEF Delivery, Deliver, GenericInv, TypeInv
      <3>2. e.ts = Ts(p)
        OBVIOUS
      <3> HIDE DEF e
      <3> QED  BY <3>1, <3>2, Appended
    <2> QED  BY <2>1, <2>2
  <1>5. ASSUME \E i \in DOMAIN delivered : delivered[i].ts = t
        PROVE  \E i \in DOMAIN delivered' : delivered'[i].ts = t
    BY <1>4, <1>5
  <1>6. \A i \in DOMAIN delivered' : delivered'[i].ts = t =>
          i \in DOMAIN delivered /\ delivered'[i] = delivered[i]
    BY <1>4
  <1> DEFINE came == Sent(t) \cap received
  <1>7. came' = came
    BY <1>2
  <1>8. /\ came' # {} => f \in came'
        /\ t \in DOMAIN frames' <=> came' # {} /\ came' # Sent(t)'
    BY <1>2, <1>7 DEF Assembled
  <1>9. ASSUME t \in DOMAIN frames'
        PROVE  /\ frames'[t].npkts = Cardinality(came')
               /\ frames'[t].s_seq = Seq16(f)'
               /\ frames'[t].e_seq = IF l \in came' THEN Seq16(l)' ELSE INVALID_SEQ
               /\ frames'[t].fragments =
                    [k \in {Seq16(f)' + (q - f) : q \in came'} |-> f + (k - Seq16(f)')]
    <2>1. frames'[t] = frames[t] /\ Seq16(f)' = Seq16(f) /\ Seq16(l)' = Seq16(l)
      BY <1>3, <1>9
    <2>2. /\ frames[t].npkts = Cardinality(came)
          /\ frames[t].s_seq = Seq16(f)
          /\ frames[t].e_seq = IF l \in came THEN Seq16(l) ELSE INVALID_SEQ
          /\ frames[t].fragments =
               [k \in {Seq16(f) + (q - f) : q \in came} |-> f + (k - Seq16(f))]
      BY <1>9 DEF Assembled
    <2> HIDE DEF came
    <2> QED  BY <1>7, <2>1, <2>2
  <1>10. came' = Sent(t)' => \E i \in DOMAIN delivered' : delivered'[i].ts = t
    BY <1>2, <1>5, <1>7 DEF Assembled
  <1>11. \A i \in DOMAIN delivered' : delivered'[i].ts = t =>
           delivered'[i].pieces = [n \in 1 .. l - f + 1 |-> f + (n - 1)]
    <2>1. \A i \in DOMAIN delivered : delivered[i].ts = t =>
            delivered[i].pieces = [n \in 1 .. l - f + 1 |-> f + (n - 1)]
      BY DEF Assembled
    <2> QED  BY <1>6, <2>1
  <1>12. INVALID_SEQ' = INVALID_SEQ
    BY DEF INVALID_SEQ
  <1> QED  BY <1>8, <1>9, <1>10, <1>11, <1>12, Zenon DEF Assembled

\* The entry of a frame with one packet more that is not the first to come.
LEMMA EntryGrows ==
    ASSUME GenericInv, NEW p \in Packet, p \notin received, NEW f \in Packet, NEW l \in Packet,
           Whole(Ts(p), f, l), Assembled(Ts(p), f, l), Ts(p) \in DOMAIN frames
    PROVE  LET info == WithFragment(p, frames[Ts(p)])
               came == (Sent(Ts(p)) \cap received) \cup {p}
           IN  /\ info.npkts = Cardinality(came)
               /\ info.s_seq = Seq16(f)
               /\ info.e_seq = IF l \in came THEN Seq16(l) ELSE INVALID_SEQ
               /\ info.fragments =
                    [k \in {Seq16(f) + (q - f) : q \in came} |-> f + (k - Seq16(f))]
               /\ Complete(info) <=> came = Sent(Ts(p))
  <1> DEFINE t == Ts(p)
             old  == frames[t]
             info == WithFragment(p, old)
             was  == Sent(t) \cap received
             came == was \cup {p}
  <1>1. /\ trial \in Trials /\ SeqMod \in Nat \ {0} /\ f \in Nat /\ l \in Nat /\ p \in Nat
        /\ DOMAIN old.fragments \in SUBSET (0 .. 2 * SeqMod)
    BY SeqModAssumption DEF GenericInv, TypeInv, Packet
  <1>2. /\ p \in f .. l /\ l - f < SeqMod /\ f <= l /\ Sent(t) = f .. l
        /\ Stream[p].marker <=> p = l
    <2>1. p \in Sent(t)
      BY DEF Sent
    <2> QED  BY <2>1 DEF Whole
  <1>3. f \in was /\ p # f /\ was \subseteq f .. l /\ p \notin was
    <2>1. was # {}
      BY DEF Assembled
    <2>2. f \in was
      BY <2>1 DEF Assembled
    <2> QED  BY <1>2, <2>2
  <1>4. /\ old.npkts = Cardinality(was) /\ old.s_seq = Seq16(f)
        /\ old.e_seq = IF l \in was THEN Seq16(l) ELSE INVALID_SEQ
        /\ old.fragments = [k \in {Seq16(f) + (q - f) : q \in was} |-> f + (k - Seq16(f))]
    BY DEF Assembled
  <1> DEFINE s == Seq16(f)
  <1>5. s \in SeqNum /\ \A q \in f .. l : Seq16(q) \in SeqNum
    <2>1. ASSUME NEW q \in f .. l PROVE Seq16(q) \in SeqNum
      <3>1. q \in Packet /\ f <= q /\ q - f < SeqMod
        BY <1>1, <1>2 DEF Packet
      <3> QED  BY <1>1, <3>1, NumberOf
    <2> QED  BY <1>2, <2>1
  <1>6. Key(p, old) = s + (p - f)
    BY <1>1, <1>2, <1>4, KeyOf
  <1>7. info.npkts = Cardinality(came)
    <2>1. IsFiniteSet(was) /\ Cardinality(was) \in Nat
      <3>1. IsFiniteSet(f .. l)
        BY <1>1, FS_Interval
      <3> QED  BY <1>3, <3>1, FS_Subset, FS_CardinalityType
    <2>2. Cardinality(came) = Cardinality(was) + 1
      BY <1>3, <2>1, FS_AddElement
    <2>3. info.npkts = old.npkts + 1
      BY DEF WithFragment
    <2> QED  BY <1>4, <2>2, <2>3
  <1>8. info.s_seq = s
    <2>1. info.s_seq = IF ~Stream[p].marker /\ Seq16(p) = old.s_seq - 1
                       THEN Seq16(p) ELSE old.s_seq
      BY DEF WithFragment
    <2>2. CASE p = l
      BY <1>2, <1>4, <2>1, <2>2
    <2>3. CASE p # l
      <3>1. Seq16(p) = IF s + (p - f) < SeqMod THEN s + (p - f) ELSE s + (p - f) - SeqMod
        BY <1>1, <1>2, NumberOf
      <3>2. p - f < SeqMod - 1 /\ p - f > 0
        BY <1>1, <1>2, <1>3, <2>3
      <3>3. Seq16(p) # s - 1
        <4> HIDE DEF s
        <4> QED  BY <1>1, <1>5, <3>1, <3>2 DEF SeqNum
      <3> QED  BY <1>4, <2>1, <3>3
    <2> QED  BY <2>2, <2>3
  <1>9. info.e_seq = IF l \in came THEN Seq16(l) ELSE INVALID_SEQ
    <2>1. info.e_seq = IF Stream[p].marker THEN Seq16(p) ELSE old.e_seq
      BY DEF WithFragment
    <2>2. CASE p = l
      BY <1>2, <2>1, <2>2
    <2>3. CASE p # l
      BY <1>2, <1>4, <2>1, <2>3
    <2> QED  BY <2>2, <2>3
  <1>10. info.fragments = [k \in {s + (q - f) : q \in came} |-> f + (k - s)]
    <2> DEFINE wasKeys  == {s + (q - f) : q \in was}
               cameKeys == {s + (q - f) : q \in came}
    <2>1. cameKeys = wasKeys \cup {s + (p - f)}
      OBVIOUS
    <2>2. info.fragments = [j \in DOMAIN old.fragments \cup {s + (p - f)} |->
                             IF j = s + (p - f) THEN p ELSE old.fragments[j]]
      <3> HIDE DEF s
      <3> QED  BY <1>6 DEF WithFragment
    <2>3. DOMAIN old.fragments = wasKeys /\ \A j \in wasKeys : old.fragments[j] = f + (j - s)
      BY <1>4
    <2>4. f + ((s + (p - f)) - s) = p
      BY <1>1, <1>5 DEF SeqNum
    <2> HIDE DEF wasKeys, cameKeys, s
    <2>5. \A j \in cameKeys : (IF j = s + (p - f) THEN p ELSE old.fragments[j]) = f + (j - s)
      BY <2>1, <2>3, <2>4
    <2>6. info.fragments = [j \in cameKeys |-> f + (j - s)]
      BY <2>1, <2>2, <2>3, <2>5
    <2> QED  BY <2>6 DEF cameKeys
  <1>11. Complete(info) <=> came = Sent(t)
    <2>1. INVALID_SEQ \notin SeqNum
      BY <1>1 DEF INVALID_SEQ, SeqNum
    <2>2. CASE l \notin came
      BY <1>2, <1>9, <2>2 DEF Complete
    <2>3. CASE l \in came
      <3>1. info.e_seq = Seq16(l) /\ info.e_seq # INVALID_SEQ
        BY <1>2, <1>5, <1>9, <2>1, <2>3
      <3>2. recv(info) = l - f + 1
        BY <1>1, <1>2, <1>8, <3>1, CountOf
      <3>3. came \subseteq f .. l /\ IsFiniteSet(f .. l) /\ Cardinality(f .. l) = l - f + 1
        <4>1. IsFiniteSet(f .. l) /\ Cardinality(f .. l) = l - f + 1
          BY <1>1, <1>2, FS_Interval
        <4> QED  BY <1>2, <1>3, <4>1
      <3>4. Cardinality(came) = l - f + 1 <=> came = f .. l
        BY <3>3, FS_Subset
      <3> QED  BY <1>2, <1>7, <3>1, <3>2, <3>4 DEF Complete
    <2> QED  BY <2>2, <2>3
  <1> HIDE DEF info, came, s
  <1>12. info.s_seq = Seq16(f)
    BY <1>8 DEF s
  <1>13. info.fragments = [k \in {Seq16(f) + (q - f) : q \in came} |-> f + (k - Seq16(f))]
    BY <1>10 DEF s
  <1> QED  BY <1>7, <1>12, <1>9, <1>13, <1>11 DEF info, came, was, old, t

\* What packet_handler() finds of a frame whose packets come once each.
LEMMA Coming ==
    ASSUME GenericInv, NEW p \in Packet, Handles(p), Ts(p) \notin disturbed',
           NEW f \in Packet, NEW l \in Packet, Whole(Ts(p), f, l)
    PROVE  /\ p \notin received /\ Assembled(Ts(p), f, l)
           /\ Sent(Ts(p)) = f .. l /\ p \in f .. l /\ f \in Nat /\ l \in Nat /\ f <= l
           /\ Stream[p].marker <=> p = l
           /\ (Sent(Ts(p)) \cap received)' = (Sent(Ts(p)) \cap received) \cup {p}
           /\ Sent(Ts(p))' = Sent(Ts(p))
           /\ \A q : Seq16(q)' = Seq16(q)
           /\ Ts(p) \notin DOMAIN frames => Sent(Ts(p)) \cap received = {} /\ p = f
  <1>1. /\ trial' = trial /\ received' = received \cup {p}
        /\ Ts(p) \notin disturbed /\ p \notin received
        /\ \A q \in Sent(Ts(p)) : q < p => Sent(Ts(p)) \cap received # {}
        /\ Ts(p) \in Timestamps /\ p \in Sent(Ts(p))
    BY Handling DEF GenericInv
  <1>2. Assembled(Ts(p), f, l)
    BY <1>1 DEF GenericInv, AssemblyInv
  <1>3. Sent(Ts(p))' = Sent(Ts(p)) /\ \A q : Seq16(q)' = Seq16(q)
    BY <1>1, SameTrial
  <1>4. (Sent(Ts(p)) \cap received)' = (Sent(Ts(p)) \cap received) \cup {p}
    <2>1. (Sent(Ts(p)) \cap received)' = Sent(Ts(p)) \cap received'
      BY <1>3
    <2> QED  BY <1>1, <2>1
  <1>5. /\ Sent(Ts(p)) = f .. l /\ p \in f .. l /\ f \in Nat /\ l \in Nat /\ f <= l
        /\ Stream[p].marker <=> p = l
    BY <1>1 DEF Whole, Packet
  <1>6. ASSUME Ts(p) \notin DOMAIN frames PROVE Sent(Ts(p)) \cap received = {} /\ p = f
    <2>1. Sent(Ts(p)) \cap received = {} \/ Sent(Ts(p)) \cap received = Sent(Ts(p))
      BY <1>2, <1>6 DEF Assembled
    <2>2. Sent(Ts(p)) \cap received = {}
      BY <1>1, <2>1
    <2>3. f \in Sent(Ts(p)) /\ ~(f < p)
      BY <1>1, <1>5, <2>2
    <2> QED  BY <1>5, <2>2, <2>3
  <1> QED  BY <1>1, <1>2, <1>3, <1>4, <1>5, <1>6

\* The delivery of a whole frame.
LEMMA DeliveredWhole ==
    ASSUME GenericInv, NEW p \in Packet, Handles(p), Ts(p) \notin disturbed',
           NEW f \in Packet, NEW l \in Packet, Whole(Ts(p), f, l),
           NEW pieces \in Seq(Packet), pieces = [n \in 1 .. l - f + 1 |-> f + (n - 1)],
           Deliver(p, pieces), Ts(p) \notin DOMAIN frames',
           (Sent(Ts(p)) \cap received) \cup {p} = Sent(Ts(p))
    PROVE  Assembled(Ts(p), f, l)'
  <1> DEFINE t == Ts(p)
  <1>1. /\ Assembled(t, f, l) /\ Sent(t) = f .. l /\ f \in f .. l
        /\ (Sent(t) \cap received)' = Sent(t)' /\ Sent(t)' = Sent(t) /\ Sent(t) # {}
    BY Coming
  <1> DEFINE e == [ts |-> t, pieces |-> pieces]
  <1>2. e.ts = t /\ e.pieces = pieces /\ e \in Delivery
        /\ delivered \in Seq(Delivery) /\ delivered' = Append(delivered, e)
    BY Handling DEF GenericInv, Delivery, Deliver, TypeInv
  <1> HIDE DEF e
  <1>3. /\ Len(delivered) + 1 \in DOMAIN delivered' /\ delivered'[Len(delivered) + 1] = e
        /\ \A i \in DOMAIN delivered' : i # Len(delivered) + 1 =>
             i \in DOMAIN delivered /\ delivered'[i] = delivered[i]
    BY <1>2, Appended
  <1>4. \E i \in DOMAIN delivered' : delivered'[i].ts = t
    BY <1>2, <1>3
  <1>5. \A i \in DOMAIN delivered' : delivered'[i].ts = t =>
          delivered'[i].pieces = [n \in 1 .. l - f + 1 |-> f + (n - 1)]
    <2>1. \A i \in DOMAIN delivered : delivered[i].ts = t =>
            delivered[i].pieces = [n \in 1 .. l - f + 1 |-> f + (n - 1)]
      BY <1>1 DEF Assembled
    <2> QED  BY <1>2, <1>3, <2>1
  <1>6. t' = t
    <2>1. trial' = trial
      BY Handling DEF GenericInv
    <2> QED  BY <2>1, SameTrial
  <1> HIDE DEF t
  <1>7. (\E i \in DOMAIN delivered : delivered[i].ts = t)'
    BY <1>4, <1>6
  <1>8. (\A i \in DOMAIN delivered : delivered[i].ts = t =>
          delivered[i].pieces = [n \in 1 .. l - f + 1 |-> f + (n - 1)])'
    BY <1>5, <1>6
  <1>9. (/\ Sent(t) \cap received # {} => f \in Sent(t) \cap received
         /\ ~(Sent(t) \cap received # {} /\ Sent(t) \cap received # Sent(t)))'
    BY <1>1
  <1>10. (t \notin DOMAIN frames)'
    BY <1>6 DEF t
  <1> QED  BY <1>7, <1>8, <1>9, <1>10 DEF Assembled, t

LEMMA WholeFramesKept ==
    ASSUME GenericInv, NEW p \in Packet, Handles(p), PlacesInv',
           \A f, l \in Packet :
             Whole(Ts(p), f, l) /\ Ts(p) \notin disturbed' => Assembled(Ts(p), f, l)',
           \A t, f, l : t # Ts(p) /\ Assembled(t, f, l) => Assembled(t, f, l)'
    PROVE  GenericInv'
  <1>1. /\ trial' = trial /\ \A t : t \notin disturbed' => t \notin disturbed
    BY Handling DEF GenericInv
  <1>2. /\ Packet' = Packet /\ Timestamps' = Timestamps
        /\ \A t, f, l : Whole(t, f, l)' <=> Whole(t, f, l)
    BY <1>1, SameTrial
  <1>3. ASSUME NEW t \in Timestamps, t \notin disturbed', NEW f \in Packet, NEW l \in Packet,
               Whole(t, f, l)
        PROVE  Assembled(t, f, l)'
    <2>1. CASE t = Ts(p)
      <3>1. Ts(p)' = Ts(p)
        BY <1>1, SameTrial
      <3>2. Assembled(Ts(p), f, l)'
        BY <1>3, <2>1
      <3> QED  BY <2>1, <3>1, <3>2, Zenon DEF Assembled
    <2>2. CASE t # Ts(p)
      <3>1. Assembled(t, f, l)
        BY <1>1, <1>3 DEF GenericInv, AssemblyInv
      <3> QED  BY <2>2, <3>1
    <2> QED  BY <2>1, <2>2
  <1>4. AssemblyInv'
    BY <1>2, <1>3 DEF AssemblyInv
  <1> QED  BY <1>4 DEF GenericInv, PlacesInv

-----------------------------------------------------------------------------
(* One lemma per way through packet_handler().                             *)

LEMMA SingleReturned == ASSUME GenericInv, NEW p \in Packet, ReturnSingle(p) PROVE GenericInv'
  <1>1. Handles(p) /\ Ts(p) \notin DOMAIN frames /\ Stream[p].marker
        /\ Deliver(p, <<p>>) /\ frames' = frames
    BY DEF ReturnSingle
  <1>2. <<p>> \in Seq(Packet) /\ \A n \in DOMAIN <<p>> : <<p>>[n] = p
    OBVIOUS
  <1>3. PlacesInv'
    BY <1>1, <1>2, PlacesDelivered DEF GenericInv, PlacesInv
  <1>4. ASSUME NEW f \in Packet, NEW l \in Packet, Whole(Ts(p), f, l), Ts(p) \notin disturbed'
        PROVE  Assembled(Ts(p), f, l)'
    <2>1. p = f /\ p = l /\ f \in Nat /\ Sent(Ts(p)) = f .. l /\ Sent(Ts(p)) \cap received = {}
      BY <1>1, <1>4, Coming
    <2>2. <<p>> = [n \in 1 .. l - f + 1 |-> f + (n - 1)]
      BY <2>1
    <2>3. (Sent(Ts(p)) \cap received) \cup {p} = Sent(Ts(p))
      <3>1. f .. l = {p}
        BY <2>1
      <3> QED  BY <2>1, <3>1
    <2> QED  BY <1>1, <1>2, <1>4, <2>2, <2>3, DeliveredWhole
  <1>5. ASSUME NEW t, t # Ts(p), NEW f, NEW l, Assembled(t, f, l) PROVE Assembled(t, f, l)'
    BY <1>1, <1>2, <1>5, OtherFrames
  <1> QED  BY <1>1, <1>3, <1>4, <1>5, WholeFramesKept

LEMMA FirstStored == ASSUME GenericInv, NEW p \in Packet, FirstFragment(p) PROVE GenericInv'
  <1>1. /\ Handles(p) /\ Ts(p) \notin DOMAIN frames /\ ~Stream[p].marker /\ UNCHANGED delivered
        /\ DOMAIN frames' = DOMAIN frames \cup {Ts(p)}
        /\ frames'[Ts(p)] = NewFrame(p)
        /\ \A t \in DOMAIN frames : frames'[t] = frames[t]
    BY DEF FirstFragment
  <1>2. /\ trial \in Trials /\ SeqMod \in Nat /\ Seq16(p) \in 0 .. SeqMod - 1
    <2>1. p \in Int /\ p <= p /\ p - p < SeqMod /\ SeqMod \in Nat
      BY SeqModAssumption DEF Packet
    <2> QED  BY <2>1, NumberOf DEF GenericInv, TypeInv, SeqNum
  <1>3. PlacesInv'
    <2>1. \A t \in DOMAIN frames' :
             /\ DOMAIN frames'[t].fragments \in SUBSET (0 .. 2 * SeqMod)
             /\ \A k \in DOMAIN frames'[t].fragments :
                  \/ t \in DOMAIN frames /\ frames'[t].fragments[k] \in Held(t)
                  \/ t = Ts(p) /\ frames'[t].fragments[k] = p
      <3>1. TAKE t \in DOMAIN frames'
      <3>2. CASE t = Ts(p)
        <4>1. NewFrame(p).fragments = [k \in {Seq16(p)} |-> p]
          BY DEF NewFrame
        <4> QED  BY <1>1, <1>2, <3>2, <4>1
      <3>3. CASE t \in DOMAIN frames
        <4>1. frames'[t] = frames[t] /\ DOMAIN frames[t].fragments \in SUBSET (0 .. 2 * SeqMod)
          BY <1>1, <3>3 DEF GenericInv, TypeInv
        <4> QED  BY <3>3, <4>1 DEF Held
      <3> QED  BY <1>1, <3>2, <3>3
    <2> QED  BY <1>1, <2>1, PlacesQuiet DEF GenericInv, PlacesInv
  <1>4. ASSUME NEW f \in Packet, NEW l \in Packet, Whole(Ts(p), f, l), Ts(p) \notin disturbed'
        PROVE  Assembled(Ts(p), f, l)'
    <2> DEFINE came == (Sent(Ts(p)) \cap received)'
               s == Seq16(f)
    <2>1. /\ p = f /\ p # l /\ f \in Nat /\ l \in Nat /\ came = {f}
          /\ Sent(Ts(p))' = f .. l /\ l \in f .. l /\ Seq16(f)' = s /\ s \in Int
      BY <1>1, <1>2, <1>4, Coming
    <2>2. frames'[Ts(p)] = [npkts |-> 1, s_seq |-> s, e_seq |-> INVALID_SEQ,
                            fragments |-> [k \in {s} |-> f]]
      BY <1>1, <2>1 DEF NewFrame
    <2>3. {s + (q - f) : q \in {f}} = {s}
      BY <2>1
    <2>4. Cardinality({f}) = 1
      BY FS_Singleton
    <2>5. [k \in {s} |-> f] = [k \in {s + (q - f) : q \in {f}} |-> f + (k - s)]
      BY <2>1, <2>3
    <2>6. trial' = trial /\ Ts(p)' = Ts(p)
      <3>1. trial' = trial
        BY <1>1, Handling DEF GenericInv
      <3> QED  BY <3>1, SameTrial
    <2>7. Ts(p) \in DOMAIN frames' /\ came # {} /\ f \in came /\ came # Sent(Ts(p))'
      BY <1>1, <2>1
    <2>8. \A i \in DOMAIN delivered' : delivered'[i].ts = Ts(p) =>
            delivered'[i].pieces = [n \in 1 .. l - f + 1 |-> f + (n - 1)]
      <3>1. Assembled(Ts(p), f, l) /\ delivered' = delivered
        BY <1>1, <1>4, Coming
      <3> QED  BY <3>1 DEF Assembled
    <2>9. l \notin came /\ INVALID_SEQ' = INVALID_SEQ
      BY <2>1 DEF INVALID_SEQ
    <2> DEFINE entry == frames'[Ts(p)]
    <2>10. /\ entry.npkts = Cardinality(came) /\ entry.s_seq = Seq16(f)'
           /\ entry.e_seq = IF l \in came THEN Seq16(l)' ELSE INVALID_SEQ'
           /\ entry.fragments =
                [k \in {Seq16(f)' + (q - f) : q \in came} |-> f + (k - Seq16(f)')]
      <3>1. /\ entry.npkts = 1 /\ entry.s_seq = s /\ entry.e_seq = INVALID_SEQ
            /\ entry.fragments = [k \in {s} |-> f]
        BY <2>2
      <3> HIDE DEF came, entry, s
      <3> QED  BY <2>1, <2>4, <2>5, <2>9, <3>1
    <2> QED  BY <2>6, <2>7, <2>8, <2>10, Zenon DEF Assembled
  <1>5. ASSUME NEW t, t # Ts(p), NEW f, NEW l, Assembled(t, f, l) PROVE Assembled(t, f, l)'
    BY <1>1, <1>5, OtherFrames
  <1> QED  BY <1>1, <1>3, <1>4, <1>5, WholeFramesKept

\* The entry of the frame of p after p.
LEMMA EntryKept ==
    ASSUME GenericInv, NEW p \in Packet, Ts(p) \in DOMAIN frames
    PROVE  LET new == WithFragment(p, frames[Ts(p)]).fragments
           IN  /\ DOMAIN new \in SUBSET (0 .. 2 * SeqMod)
               /\ \A k \in DOMAIN new : new[k] \in Held(Ts(p)) \/ new[k] = p
  <1> DEFINE info == frames[Ts(p)]
             new  == WithFragment(p, info).fragments
  <1>1. trial \in Trials /\ DOMAIN info.fragments \in SUBSET (0 .. 2 * SeqMod)
    BY DEF GenericInv, TypeInv
  <1>2. \A k \in DOMAIN info.fragments : info.fragments[k] \in Held(Ts(p))
    BY DEF Held
  <1> HIDE DEF info
  <1> QED  BY <1>1, <1>2, FragmentAdded DEF info

LEMMA FragmentStored == ASSUME GenericInv, NEW p \in Packet, StoreFragment(p) PROVE GenericInv'
  <1> DEFINE info == WithFragment(p, frames[Ts(p)])
  <1>1. /\ Handles(p) /\ Ts(p) \in DOMAIN frames /\ ~Complete(info) /\ UNCHANGED delivered
        /\ DOMAIN frames' = DOMAIN frames
        /\ frames'[Ts(p)] = info
        /\ \A t \in DOMAIN frames : t # Ts(p) => frames'[t] = frames[t]
    BY DEF StoreFragment
  <1>2. /\ DOMAIN info.fragments \in SUBSET (0 .. 2 * SeqMod)
        /\ \A k \in DOMAIN info.fragments :
             info.fragments[k] \in Held(Ts(p)) \/ info.fragments[k] = p
    BY <1>1, EntryKept
  <1>3. PlacesInv'
    <2>1. \A t \in DOMAIN frames' :
             /\ DOMAIN frames'[t].fragments \in SUBSET (0 .. 2 * SeqMod)
             /\ \A k \in DOMAIN frames'[t].fragments :
                  \/ t \in DOMAIN frames /\ frames'[t].fragments[k] \in Held(t)
                  \/ t = Ts(p) /\ frames'[t].fragments[k] = p
      <3>1. TAKE t \in DOMAIN frames'
      <3>2. CASE t = Ts(p)
        <4> HIDE DEF info
        <4> QED  BY <1>1, <1>2, <3>2
      <3>3. CASE t # Ts(p)
        <4>1. frames'[t] = frames[t] /\ DOMAIN frames[t].fragments \in SUBSET (0 .. 2 * SeqMod)
          BY <1>1, <3>3 DEF GenericInv, TypeInv
        <4> QED  BY <1>1, <4>1 DEF Held
      <3> QED  BY <3>2, <3>3
    <2> QED  BY <1>1, <2>1, PlacesQuiet DEF GenericInv, PlacesInv
  <1>4. ASSUME NEW f \in Packet, NEW l \in Packet, Whole(Ts(p), f, l), Ts(p) \notin disturbed'
        PROVE  Assembled(Ts(p), f, l)'
    <2> DEFINE was  == Sent(Ts(p)) \cap received
               came == was \cup {p}
    <2>1. /\ p \notin received /\ Assembled(Ts(p), f, l)
          /\ (Sent(Ts(p)) \cap received)' = came /\ Sent(Ts(p))' = Sent(Ts(p))
          /\ \A q : Seq16(q)' = Seq16(q)
      BY <1>1, <1>4, Coming
    <2>2. /\ info.npkts = Cardinality(came)
          /\ info.s_seq = Seq16(f)
          /\ info.e_seq = IF l \in came THEN Seq16(l) ELSE INVALID_SEQ
          /\ info.fragments = [k \in {Seq16(f) + (q - f) : q \in came} |-> f + (k - Seq16(f))]
          /\ Complete(info) <=> came = Sent(Ts(p))
      BY <1>1, <1>4, <2>1, EntryGrows
    <2>3. f \in came /\ came # {} /\ came # Sent(Ts(p))
      <3>1. was # {} /\ (was # {} => f \in was)
        BY <1>1, <2>1 DEF Assembled
      <3> QED  BY <1>1, <2>2, <3>1
    <2>4. trial' = trial /\ Ts(p)' = Ts(p) /\ INVALID_SEQ' = INVALID_SEQ
      <3>1. trial' = trial
        BY <1>1, Handling DEF GenericInv
      <3> QED  BY <3>1, SameTrial DEF INVALID_SEQ
    <2>5. \A i \in DOMAIN delivered' : delivered'[i].ts = Ts(p) =>
            delivered'[i].pieces = [n \in 1 .. l - f + 1 |-> f + (n - 1)]
      BY <1>1, <2>1 DEF Assembled
    <2> DEFINE entry == frames'[Ts(p)]
               now2  == (Sent(Ts(p)) \cap received)'
    <2>6. /\ entry.npkts = Cardinality(now2) /\ entry.s_seq = Seq16(f)'
          /\ entry.e_seq = IF l \in now2 THEN Seq16(l)' ELSE INVALID_SEQ'
          /\ entry.fragments =
               [k \in {Seq16(f)' + (q - f) : q \in now2} |-> f + (k - Seq16(f)')]
      <3>1. entry = info /\ now2 = came /\ Seq16(f)' = Seq16(f) /\ Seq16(l)' = Seq16(l)
        BY <1>1, <2>1
      <3> HIDE DEF now2, entry, came, info
      <3> QED  BY <2>2, <2>4, <3>1
    <2>7. Ts(p) \in DOMAIN frames' /\ f \in now2 /\ now2 # {} /\ now2 # Sent(Ts(p))'
      BY <1>1, <2>1, <2>3
    <2> QED  BY <2>4, <2>5, <2>6, <2>7, Zenon DEF Assembled
  <1>5. ASSUME NEW t, t # Ts(p), NEW f, NEW l, Assembled(t, f, l) PROVE Assembled(t, f, l)'
    <2>1. t \in DOMAIN frames => frames'[t] = frames[t]
      BY <1>1, <1>5
    <2> QED  BY <1>1, <1>5, <2>1, OtherFrames
  <1> QED  BY <1>1, <1>3, <1>4, <1>5, WholeFramesKept

LEMMA FrameCompleted == ASSUME GenericInv, NEW p \in Packet, CompleteFrame(p) PROVE GenericInv'
  <1> DEFINE info   == WithFragment(p, frames[Ts(p)])
             pieces == Pieces(info.fragments)
  <1>1. /\ Handles(p) /\ Ts(p) \in DOMAIN frames /\ Complete(info) /\ Deliver(p, pieces)
        /\ DOMAIN frames' = DOMAIN frames \ {Ts(p)}
        /\ \A t \in DOMAIN frames' : frames'[t] = frames[t]
    BY DEF CompleteFrame
  <1>2. /\ DOMAIN info.fragments \in SUBSET (0 .. 2 * SeqMod)
        /\ \A k \in DOMAIN info.fragments :
             info.fragments[k] \in Held(Ts(p)) \/ info.fragments[k] = p
    BY <1>1, EntryKept
  <1>3. pieces \in Seq(Packet) /\ \A n \in DOMAIN pieces : pieces[n] = p \/ pieces[n] \in Held(Ts(p))
    <2> DEFINE S == Held(Ts(p)) \cup {p}
    <2>1. trial \in Trials /\ S \in SUBSET Packet
      BY <1>1 DEF GenericInv, TypeInv, Sent
    <2>2. \A k \in DOMAIN info.fragments : info.fragments[k] \in S
      BY <1>2
    <2>3. pieces \in Seq(Packet) /\ \A n \in DOMAIN pieces : pieces[n] \in S
      <3> HIDE DEF S, info
      <3> QED  BY <1>2, <2>1, <2>2, PiecesHeld
    <2> QED  BY <2>3
  <1> HIDE DEF pieces
  <1>4. PlacesInv'
    BY <1>1, <1>3, PlacesDelivered DEF GenericInv, PlacesInv
  <1>5. ASSUME NEW f \in Packet, NEW l \in Packet, Whole(Ts(p), f, l), Ts(p) \notin disturbed'
        PROVE  Assembled(Ts(p), f, l)'
    <2> DEFINE came == (Sent(Ts(p)) \cap received) \cup {p}
               s    == Seq16(f)
    <2>1. /\ p \notin received /\ Assembled(Ts(p), f, l)
          /\ Sent(Ts(p)) = f .. l /\ f \in Nat /\ l \in Nat /\ f <= l
      BY <1>1, <1>5, Coming
    <2>2. /\ info.fragments = [k \in {s + (q - f) : q \in came} |-> f + (k - s)]
          /\ came = Sent(Ts(p))
      BY <1>1, <1>5, <2>1, EntryGrows
    <2>3. s \in Nat
      <3>1. f <= f /\ f - f < SeqMod /\ SeqMod \in Nat
        BY <2>1, SeqModAssumption
      <3> QED  BY <3>1, NumberOf DEF GenericInv, TypeInv, SeqNum
    <2> DEFINE m == l - f + 1
    <2>4. m \in Nat
      BY <2>1
    <2>5. {s + (q - f) : q \in f .. l} = s .. s + m - 1
      <3> HIDE DEF s
      <3>1. \A q \in f .. l : s + (q - f) \in s .. s + m - 1
        BY <2>1, <2>3
      <3>2. \A k \in s .. s + m - 1 : f + (k - s) \in f .. l /\ s + ((f + (k - s)) - f) = k
        BY <2>1, <2>3
      <3> QED  BY <3>1, <3>2
    <2>6. info.fragments = [k \in s .. s + m - 1 |-> f + (k - s)]
      BY <2>1, <2>2, <2>5
    <2> HIDE DEF s, m
    <2>7. pieces = [n \in 1 .. m |-> f + (n - 1)]
      <3> DEFINE held == info.fragments
      <3>1. held = [k \in s .. s + m - 1 |-> f + (k - s)] /\ f \in Nat
        BY <2>1, <2>6
      <3>2. pieces = Pieces(held)
        BY DEF pieces
      <3> HIDE DEF held
      <3>3. Gapless(held, s, f, m)
        BY <3>1 DEF Gapless
      <3>4. Pieces(held) = [n \in 1 .. m |-> f + (n - 1)]
        BY <2>3, <2>4, <3>1, <3>3, PiecesInOrder
      <3> QED  BY <3>2, <3>4
    <2>8. Ts(p) \notin DOMAIN frames'
      BY <1>1
    <2> HIDE DEF info
    <2> QED  BY <1>1, <1>3, <1>5, <2>2, <2>7, <2>8, DeliveredWhole DEF m
  <1>6. ASSUME NEW t, t # Ts(p), NEW f, NEW l, Assembled(t, f, l) PROVE Assembled(t, f, l)'
    <2>1. /\ t \in DOMAIN frames' <=> t \in DOMAIN frames
          /\ t \in DOMAIN frames => frames'[t] = frames[t]
      BY <1>1, <1>6
    <2> HIDE DEF info
    <2> QED  BY <1>1, <1>3, <1>6, <2>1, OtherFrames
  <1> HIDE DEF info
  <1> QED  BY <1>1, <1>4, <1>5, <1>6, WholeFramesKept

-----------------------------------------------------------------------------
(* The theorem.                                                            *)

LEMMA GenericInit == Init => GenericInv
  <1> SUFFICES ASSUME Init PROVE GenericInv
    OBVIOUS
  <1>1. /\ trial \in Trials /\ received = {} /\ duplicates = 0 /\ frames = <<>>
        /\ delivered = <<>> /\ disturbed = {}
    BY DEF Init, NetworkInit
  <1>2. DOMAIN frames = {} /\ DOMAIN delivered = {} /\ delivered \in Seq(Delivery)
    BY <1>1
  <1>3. TypeInv
    BY <1>1, <1>2 DEF TypeInv
  <1>4. ApartInv
    BY <1>2 DEF ApartInv
  <1>5. ASSUME NEW t \in Timestamps, NEW f \in Packet, NEW l \in Packet, Whole(t, f, l)
        PROVE  Assembled(t, f, l)
    <2>1. Sent(t) # {} /\ Sent(t) \cap received = {}
      BY <1>1 DEF Timestamps, Sent
    <2> QED  BY <1>2, <2>1 DEF Assembled
  <1> QED  BY <1>3, <1>4, <1>5 DEF GenericInv, AssemblyInv

LEMMA GenericStutter ==
    ASSUME GenericInv, UNCHANGED <<trial, received, duplicates, frames, delivered, disturbed>>
    PROVE  GenericInv'
  <1>1. /\ Packet' = Packet /\ Timestamps' = Timestamps /\ Delivery' = Delivery
        /\ \A t : Sent(t)' = Sent(t)
        /\ \A p : Seq16(p)' = Seq16(p)
        /\ \A t, f, l : Whole(t, f, l)' <=> Whole(t, f, l)
    BY SameTrial
  <1>2. (\A i : PiecesOf(i)' = PiecesOf(i)) /\ (\A t : Held(t)' = Held(t))
    BY DEF PiecesOf, Held
  <1>3. TypeInv'
    BY <1>1, <1>2 DEF GenericInv, TypeInv
  <1>4. ApartInv'
    BY <1>2 DEF GenericInv, ApartInv
  <1>5. \A t, f, l : Assembled(t, f, l)' <=> Assembled(t, f, l)
    <2>1. INVALID_SEQ' = INVALID_SEQ /\ \A t : (Sent(t) \cap received)' = Sent(t) \cap received
      BY <1>1 DEF INVALID_SEQ
    <2> QED  BY <1>1, <2>1 DEF Assembled
  <1> QED  BY <1>1, <1>3, <1>4, <1>5 DEF GenericInv, AssemblyInv

LEMMA GenericNext == GenericInv /\ [Next]_vars => GenericInv'
  <1> SUFFICES ASSUME GenericInv, [Next]_vars PROVE GenericInv'
    OBVIOUS
  <1>1. CASE UNCHANGED vars
    BY <1>1, GenericStutter DEF vars
  <1>2. CASE LosePacket
    BY <1>2, GenericStutter DEF LosePacket, Lose
  <1>3. ASSUME NEW p \in Packet, packet_handler(p) PROVE GenericInv'
    BY <1>3, SingleReturned, FirstStored, FragmentStored, FrameCompleted DEF packet_handler
  <1> QED  BY <1>1, <1>2, <1>3 DEF Next

LEMMA GenericInvariant == Spec => []GenericInv
  BY GenericInit, GenericNext, PTL DEF Spec

\* A frame whose first packet comes first is delivered as it was sent, and no
\* packet is in two frames unless one came twice (media.cc:126-177).
THEOREM ReassembledWhole == Spec => []WholeFrames
  <1>1. GenericInv => WholeFrames
    <2> SUFFICES ASSUME GenericInv PROVE WholeFrames
      OBVIOUS
    <2>1. ASSUME NEW i \in DOMAIN delivered, delivered[i].ts \notin disturbed
          PROVE  PiecesOf(i) = Sent(delivered[i].ts) /\ InOrder(delivered[i].pieces)
      <3> DEFINE t == delivered[i].ts
                 pieces == delivered[i].pieces
      <3>1. trial \in Trials /\ t \in Timestamps
        <4>1. delivered \in Seq(Delivery) /\ trial \in Trials
          BY DEF GenericInv, TypeInv
        <4>2. delivered[i] \in Delivery
          BY <4>1
        <4> QED  BY <4>1, <4>2 DEF Delivery
      <3>2. PICK f, l \in Packet : Whole(t, f, l)
        BY <3>1, SentTogether
      <3>3. Assembled(t, f, l)
        BY <2>1, <3>1, <3>2 DEF GenericInv, AssemblyInv
      <3>4. pieces = [n \in 1 .. l - f + 1 |-> f + (n - 1)]
        BY <3>3 DEF Assembled
      <3>5. f \in Nat /\ l \in Nat /\ f <= l /\ Sent(t) = f .. l
        BY <3>2 DEF Whole, Packet
      <3> HIDE DEF t, pieces
      <3>6. {pieces[k] : k \in DOMAIN pieces} = f .. l
        <4>1. \A k \in 1 .. l - f + 1 : f + (k - 1) \in f .. l
          BY <3>5
        <4>2. \A p \in f .. l : p - f + 1 \in 1 .. l - f + 1 /\ f + ((p - f + 1) - 1) = p
          BY <3>5
        <4>3. \A p \in f .. l : p - f + 1 \in DOMAIN pieces /\ pieces[p - f + 1] = p
          BY <3>4, <4>2
        <4>4. \A k \in DOMAIN pieces : pieces[k] \in f .. l
          BY <3>4, <4>1
        <4> QED  BY <4>3, <4>4
      <3>7. InOrder(pieces)
        BY <3>4, <3>5 DEF InOrder
      <3> QED  BY <3>5, <3>6, <3>7 DEF PiecesOf, t, pieces
    <2>2. duplicates = 0 =>
            \A i, j \in DOMAIN delivered : i # j => PiecesOf(i) \cap PiecesOf(j) = {}
      BY DEF GenericInv, ApartInv
    <2> QED  BY <2>1, <2>2 DEF WholeFrames
  <1> QED  BY <1>1, GenericInvariant, PTL

\* Such a frame is delivered with the last of its packets, whichever it is (media.cc:157).
THEOREM ReassembledAtOnce == Spec => []CompleteIsDelivered
  <1>1. GenericInv => CompleteIsDelivered
    <2> SUFFICES ASSUME GenericInv, NEW t \in Timestamps \ disturbed, Sent(t) \subseteq received
                 PROVE  \E i \in DOMAIN delivered : delivered[i].ts = t
      BY DEF CompleteIsDelivered
    <2>1. PICK f, l \in Packet : Whole(t, f, l)
      BY SentTogether DEF GenericInv, TypeInv
    <2>2. Assembled(t, f, l)
      BY <2>1 DEF GenericInv, AssemblyInv
    <2>3. Sent(t) \cap received = Sent(t)
      OBVIOUS
    <2> QED  BY <2>2, <2>3 DEF Assembled
  <1> QED  BY <1>1, GenericInvariant, PTL

\* What is held of such a frame is what came of it, until it is delivered:
\* nothing is held for ever (media.cc:173).
THEOREM HoldsWhatItMust == Spec => []HeldIsIncomplete
  <1>1. GenericInv => HeldIsIncomplete
    <2> SUFFICES ASSUME GenericInv, NEW t \in Timestamps \ disturbed
                 PROVE  LET held == IF t \in DOMAIN frames
                                    THEN {frames[t].fragments[k] : k \in DOMAIN frames[t].fragments}
                                    ELSE {}
                            complete == Sent(t) \subseteq received
                        IN held = IF complete THEN {} ELSE Sent(t) \cap received
      BY DEF HeldIsIncomplete
    <2>1. PICK f, l \in Packet : Whole(t, f, l)
      BY SentTogether DEF GenericInv, TypeInv
    <2>2. Assembled(t, f, l)
      BY <2>1 DEF GenericInv, AssemblyInv
    <2> DEFINE came == Sent(t) \cap received
    <2>3. CASE t \notin DOMAIN frames
      <3>1. came = {} \/ came = Sent(t)
        BY <2>2, <2>3 DEF Assembled
      <3> QED  BY <2>3, <3>1
    <2>4. CASE t \in DOMAIN frames
      <3> DEFINE s == Seq16(f)
                 keys == {s + (p - f) : p \in came}
      <3>1. /\ frames[t].fragments = [k \in keys |-> f + (k - s)]
            /\ came # Sent(t)
        BY <2>2, <2>4 DEF Assembled
      <3>2. f \in Nat /\ s \in Nat /\ came \subseteq f .. l
        <4>1. /\ trial \in Trials /\ SeqMod \in Nat \ {0}
              /\ f <= f /\ f - f < SeqMod /\ f \in Nat
          BY SeqModAssumption DEF GenericInv, TypeInv, Packet
        <4> QED  BY <2>1, <4>1, NumberOf DEF SeqNum, Whole
      <3>3. \A p \in came : s + (p - f) \in keys /\ f + ((s + (p - f)) - s) = p
        <4> HIDE DEF s
        <4> QED  BY <3>2
      <3>4. \A k \in keys : f + (k - s) \in came
        <4>1. ASSUME NEW p \in came PROVE f + ((s + (p - f)) - s) = p
          BY <3>3
        <4> HIDE DEF s, came
        <4> QED  BY <4>1
      <3>5. {frames[t].fragments[k] : k \in DOMAIN frames[t].fragments} = came
        <4> HIDE DEF keys, s, came
        <4>1. DOMAIN frames[t].fragments = keys
          BY <3>1
        <4>2. \A k \in keys : frames[t].fragments[k] = f + (k - s)
          BY <3>1
        <4> QED  BY <3>3, <3>4, <4>1, <4>2
      <3> QED  BY <2>4, <3>1, <3>5
    <2> QED  BY <2>3, <2>4
  <1> QED  BY <1>1, GenericInvariant, PTL
=============================================================================
