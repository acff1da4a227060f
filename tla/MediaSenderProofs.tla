-------------------------- MODULE MediaSenderProofs --------------------------
(***************************************************************************)
(* What leaves the sender, for every frame of octets, every payload size   *)
(* and every modulus of the sequence numbers: packets that fit, with one   *)
(* timestamp, encrypted with the index of their number, from which a       *)
(* receiver makes the NAL units of the frame.                              *)
(***************************************************************************)
EXTENDS MediaSender, FiniteSetTheorems, SequenceTheorems, WellFoundedInduction, TLAPS

(* Counting and recursion over the natural numbers up to a bound.          *)

\* A set of naturals with a member has a least one.
LEMMA Smallest ==
  ASSUME NEW S \in SUBSET Nat, S # {}
  PROVE  \E m \in S : \A x \in S : m <= x
<1> DEFINE R == OpToRel(<, Nat)
<1>1. IsWellFoundedOn(R, Nat)
  BY NatLessThanWellFounded
<1>2. \A x, m \in Nat : <<x, m>> \in R <=> x < m
  BY DEF OpToRel
<1> HIDE DEF R
<1>3. PICK m \in S : \A x \in S : <<x, m>> \notin R
  BY <1>1, WFMin
<1>4. ASSUME NEW x \in S PROVE m <= x
  <2>1. x \in Nat /\ m \in Nat /\ ~(x < m)
    BY <1>2, <1>3
  <2> QED
    BY <2>1
<1> QED
  BY <1>4

\* What holds of 0, and of a number if it holds of the one before, holds of all: T is the
\* set of numbers it holds of.
LEMMA Induction ==
  ASSUME NEW N \in Nat, NEW T, 0 \in T, \A n \in 1 .. N : n - 1 \in T => n \in T
  PROVE  \A n \in 0 .. N : n \in T
<1> DEFINE S == {n \in 0 .. N : n \notin T}
<1> SUFFICES ASSUME S # {} PROVE FALSE
  OBVIOUS
<1>1. S \in SUBSET Nat
  OBVIOUS
<1> HIDE DEF S
<1>2. PICK m \in S : \A x \in S : m <= x
  BY <1>1, Smallest
<1>3. m \in 0 .. N /\ m \notin T
  BY <1>2 DEF S
<1>4. m # 0
  BY <1>3
<1>5. m \in 1 .. N /\ m - 1 \in 0 .. N /\ ~(m <= m - 1)
  BY <1>3, <1>4
<1>6. m - 1 \in T
  BY <1>2, <1>5 DEF S
<1> QED
  BY <1>3, <1>5, <1>6

\* The function f starts with base and follows turn up to N.
Follows(f, N, V, base, turn) ==
    /\ f \in [0 .. N -> V] /\ f[0] = base
    /\ \A n \in 1 .. N : f[n] = turn[<<n, f[n - 1]>>]

\* A function on 0 .. N with a first value and a step exists,
LEMMA Recursion ==
  ASSUME NEW N \in Nat, NEW V, NEW base \in V, NEW turn \in [(1 .. N) \X V -> V]
  PROVE  \E f : Follows(f, N, V, base, turn)
<1> DEFINE Is(f, k) == /\ f \in [0 .. k -> V] /\ f[0] = base
                       /\ \A n \in 1 .. k : f[n] = turn[<<n, f[n - 1]>>]
           T == {k \in 0 .. N : \E f : Is(f, k)}
<1>1. 0 \in T
  <2> DEFINE g == [n \in 0 .. 0 |-> base]
  <2>1. Is(g, 0)
    OBVIOUS
  <2> HIDE DEF g
  <2> QED
    BY <2>1
<1>2. ASSUME NEW k \in 1 .. N, k - 1 \in T PROVE k \in T
  <2>1. PICK f : Is(f, k - 1)
    BY <1>2
  <2> DEFINE g == [n \in 0 .. k |-> IF n = k THEN turn[<<k, f[k - 1]>>] ELSE f[n]]
  <2>2. /\ k \in Nat /\ k - 1 \in Nat /\ k - 1 \in 0 .. k - 1 /\ 0 \in 0 .. k /\ k # 0
        /\ \A n \in 0 .. k : n # k => n \in 0 .. k - 1
        /\ \A n \in 1 .. k : n - 1 \in 0 .. k /\ n - 1 # k /\ n \in 0 .. k
                             /\ (n # k => n \in 1 .. k - 1)
    OBVIOUS
  <2>3. f \in [0 .. k - 1 -> V] /\ f[0] = base /\ \A n \in 1 .. k - 1 : f[n] = turn[<<n, f[n - 1]>>]
    BY <2>1
  <2>4. turn[<<k, f[k - 1]>>] \in V
    BY <2>2, <2>3
  <2>5. g \in [0 .. k -> V] /\ g[0] = base
    BY <2>2, <2>3, <2>4
  <2>6. ASSUME NEW n \in 1 .. k PROVE g[n] = turn[<<n, g[n - 1]>>]
    <3>1. g[n - 1] = f[n - 1]
      BY <2>2
    <3>2. CASE n = k
      BY <2>2, <3>1, <3>2
    <3>3. CASE n # k
      BY <2>2, <2>3, <3>1, <3>3
    <3> QED
      BY <3>2, <3>3
  <2> HIDE DEF g
  <2>7. Is(g, k)
    BY <2>5, <2>6
  <2> QED
    BY <2>7
<1> HIDE DEF T
<1>3. \A k \in 0 .. N : k \in T
  BY <1>1, <1>2, Induction
<1>4. N \in T
  BY <1>3
<1> QED
  BY <1>4 DEF T, Follows

\* Two functions that follow the same recursion are the same.
SameSteps(f, g, N) == f[0] = g[0] /\ \A n \in 1 .. N : f[n - 1] = g[n - 1] => f[n] = g[n]
Agree(f, g, N) == \A n \in 0 .. N : f[n] = g[n]

\* and there is only one, so that a recursive definition is any function that satisfies it.
LEMMA OneSolution ==
  ASSUME NEW N \in Nat, NEW f, NEW g, SameSteps(f, g, N)
  PROVE  Agree(f, g, N)
<1> DEFINE T == {n \in 0 .. N : f[n] = g[n]}
<1>1. 0 \in T
  BY DEF SameSteps
<1>2. ASSUME NEW n \in 1 .. N, n - 1 \in T PROVE n \in T
  <2>1. n \in 0 .. N /\ f[n - 1] = g[n - 1]
    BY <1>2
  <2> QED
    BY <2>1 DEF SameSteps
<1> HIDE DEF T
<1>3. \A n \in 0 .. N : n \in T
  BY <1>1, <1>2, Induction
<1> QED
  BY <1>3 DEF T, Agree

\* A function on 1 .. n is a sequence.
LEMMA FunctionIsSeq ==
  ASSUME NEW S, NEW n \in Nat, NEW f \in [1 .. n -> S]
  PROVE  f \in Seq(S) /\ Len(f) = n /\ DOMAIN f = 1 .. n
OBVIOUS

Parts == [from : Int, to : Int]

\* The size of parts is a sum over them.
LEMMA SizeIs ==
  ASSUME NEW parts \in Seq(Parts)
  PROVE  \E sum \in [0 .. Len(parts) -> Int] :
            /\ sum[0] = 0 /\ Size(parts) = sum[Len(parts)]
            /\ \A n \in 1 .. Len(parts) : sum[n] = sum[n - 1] + parts[n].to - parts[n].from
<1> DEFINE N == Len(parts)
           Sum(g) == [n \in 0 .. N |->
                         IF n = 0 THEN 0 ELSE g[n - 1] + parts[n].to - parts[n].from]
           turn == [x \in (1 .. N) \X Int |-> x[2] + parts[x[1]].to - parts[x[1]].from]
<1>1. N \in Nat
  BY LenProperties
<1>2. \A n \in 1 .. N : parts[n].to \in Int /\ parts[n].from \in Int
  <2> SUFFICES ASSUME NEW n \in 1 .. N PROVE parts[n].to \in Int /\ parts[n].from \in Int
    OBVIOUS
  <2>1. parts[n] \in Parts
    BY ElementOfSeq
  <2> QED
    BY <2>1 DEF Parts
<1>3. turn \in [(1 .. N) \X Int -> Int]
  <2> SUFFICES ASSUME NEW x \in (1 .. N) \X Int
               PROVE  x[2] + parts[x[1]].to - parts[x[1]].from \in Int
    OBVIOUS
  <2>1. x[1] \in 1 .. N /\ x[2] \in Int
    OBVIOUS
  <2> HIDE DEF N
  <2> QED
    BY <1>2, <2>1
<1>4. \A n \in 1 .. N, v \in Int : turn[<<n, v>>] = v + parts[n].to - parts[n].from
  OBVIOUS
<1> HIDE DEF N, turn
<1>5. PICK f : Follows(f, N, Int, 0, turn)
  <2>1. 0 \in Int
    OBVIOUS
  <2> QED
    BY ONLY <1>1, <1>3, <2>1, Recursion
<1>6. f \in [0 .. N -> Int] /\ f[0] = 0 /\ \A n \in 1 .. N : f[n] = turn[<<n, f[n - 1]>>]
  BY <1>5 DEF Follows
<1>7. ASSUME NEW n \in 1 .. N PROVE f[n] = f[n - 1] + parts[n].to - parts[n].from
  <2>1. n - 1 \in 0 .. N
    BY <1>1
  <2>2. f[n - 1] \in Int
    BY <1>6, <2>1
  <2> QED
    BY <1>4, <1>6, <2>2
<1>8. f = Sum(f)
  <2>1. \A n \in 0 .. N : f[n] = Sum(f)[n]
    <3> SUFFICES ASSUME NEW n \in 0 .. N PROVE f[n] = Sum(f)[n]
      OBVIOUS
    <3>1. CASE n = 0
      BY <1>6, <3>1
    <3>2. CASE n # 0
      BY <1>1, <1>7, <3>2
    <3> QED
      BY <3>1, <3>2
  <2> QED
    BY <1>6, <2>1
<1> DEFINE g == CHOOSE g : g = Sum(g)
<1>9. g = Sum(g)
  BY <1>8
<1>10. Size(parts) = g[N]
  BY DEF Size, N
<1> HIDE DEF g
<1>11. g = [n \in 0 .. N |-> g[n]] /\ g[0] = 0
  BY <1>9, <1>1
<1>12. ASSUME NEW n \in 1 .. N PROVE g[n] = g[n - 1] + parts[n].to - parts[n].from
  <2>1. n \in 0 .. N /\ n # 0
    BY <1>1
  <2>2. g[n] = Sum(g)[n]
    BY <1>9
  <2> QED
    BY <2>1, <2>2
<1>13. \A n \in 1 .. N : f[n - 1] = g[n - 1] => f[n] = g[n]
  BY <1>7, <1>12
<1>14. f = g
  <2>1. f[0] = g[0]
    BY <1>6, <1>11
  <2>2. SameSteps(f, g, N)
    BY <1>13, <2>1 DEF SameSteps
  <2>3. Agree(f, g, N)
    BY ONLY <1>1, <2>2, OneSolution
  <2> QED
    BY <1>11, <1>6, <2>3 DEF Agree
<1> QED
  BY <1>6, <1>7, <1>10, <1>14 DEF N

-----------------------------------------------------------------------------
(* The search for start codes.                                             *)

Four == {w \in Seq(Int) : Len(w) = 4}
MaybeCode == {NotFound} \cup [pos : Nat, prefix : Int]
Searches == [pos : Nat, prev : Four, zeros : BOOLEAN, found : MaybeCode]

\* What two words show of a start code: octets and length.
LEMMA CodeIsPair ==
  ASSUME NEW prev, NEW cur, NEW c \in StartCode(prev, cur)
  PROVE  c[1] \in Nat /\ c[2] \in Int
<1>1. c \in LastOctet(prev, cur) => c[1] \in Nat /\ c[2] \in Int
  BY DEF LastOctet
<1>2. c \in determine_start_prefix_precense(prev, cur) => c[1] \in Nat /\ c[2] \in Int
  BY DEF determine_start_prefix_precense
<1>3. c \in Split(prev, cur) => c[1] \in Nat /\ c[2] \in Int
  BY DEF Split
<1> QED
  BY <1>1, <1>2, <1>3 DEF StartCode

\* Skipping octets without a zero leads to a position.
LEMMA PrefetchIsNat ==
  ASSUME NEW d \in Seq(Int), NEW pos \in Nat
  PROVE  Prefetch(d, pos) \in Nat
<1> DEFINE S == {k \in 0 .. Len(d) : pos + 8 * k + 8 > Len(d)
                                     \/ HasZero(SubSeq(d, pos + 8 * k + 1, pos + 8 * k + 8))}
<1>1. Len(d) \in Nat
  BY LenProperties
<1>2. S \in SUBSET Nat
  BY <1>1
<1>3. Len(d) \in S
  BY <1>1
<1>4. Prefetch(d, pos) = pos + 8 * Min(S)
  BY DEF Prefetch
<1> HIDE DEF S
<1>5. \E m \in S : \A x \in S : m <= x
  BY <1>2, <1>3, Smallest
<1>6. Min(S) \in S
  BY <1>5 DEF Min
<1>7. Min(S) \in Nat
  BY <1>2, <1>6
<1> QED
  BY <1>4, <1>7

\* Of two words, the last four octets that were read.
LEMMA ShiftIsWord ==
  ASSUME NEW prev \in Four, NEW cur \in Four, NEW range \in {1, 4}
  PROVE  Shift(prev, cur, range) \in Four
<1>1. prev \in Seq(Int) /\ cur \in Seq(Int) /\ Len(prev) = 4 /\ Len(cur) = 4
  BY DEF Four
<1>2. prev \o cur \in Seq(Int) /\ Len(prev \o cur) = 8
  <2>1. prev \o cur \in Seq(Int) /\ Len(prev \o cur) = Len(prev) + Len(cur)
    BY <1>1, ConcatProperties
  <2> QED
    BY <1>1, <2>1
<1> DEFINE w == prev \o cur
<1> HIDE DEF w
<1>3. \A i \in range + 1 .. range + 4 : w[i] \in Int
  <2> SUFFICES ASSUME NEW i \in range + 1 .. range + 4 PROVE w[i] \in Int
    OBVIOUS
  <2>1. i \in 1 .. Len(w)
    BY <1>2 DEF w
  <2> QED
    BY <1>2, <2>1, ElementOfSeq DEF w
<1>4. range + 1 \in Int /\ range + 4 \in Int
  OBVIOUS
<1>5. SubSeq(w, range + 1, range + 4) \in Seq(Int) /\ Len(SubSeq(w, range + 1, range + 4)) = 4
  BY <1>3, <1>4, SubSeqProperties
<1> QED
  BY <1>5 DEF w, Shift, Four

\* A turn of the search leaves a state of it,
LEMMA TurnIsSearch ==
  ASSUME NEW d \in Seq(Int), NEW s \in Searches, NEW range \in {1, 4}
  PROVE  Turn(d, s, range) \in Searches
<1> DEFINE pos == IF s.zeros THEN s.pos ELSE Prefetch(d, s.pos)
           cur == Word(d, pos)
           last4 == Shift(s.prev, cur, range)
           code == CHOOSE c \in StartCode(s.prev, cur) : TRUE
<1>1. s.pos \in Nat /\ s.prev \in Four /\ s.zeros \in BOOLEAN /\ s.found \in MaybeCode
  BY DEF Searches
<1>2. pos \in Nat
  BY <1>1, PrefetchIsNat
<1> HIDE DEF pos
<1>3. CASE s.found # NotFound \/ pos + 4 > Len(d)
  BY <1>3 DEF Turn, pos
<1>4. CASE ~(s.found # NotFound \/ pos + 4 > Len(d))
  <2>1. Len(d) \in Nat /\ pos + 4 <= Len(d)
    BY <1>2, <1>4, LenProperties
  <2>2. cur \in Four
    <3>1. \A i \in pos + 1 .. pos + 4 : d[i] \in Int
      BY <1>2, <2>1, ElementOfSeq
    <3>2. pos + 1 \in Int /\ pos + 4 \in Int
      BY <1>2
    <3>3. SubSeq(d, pos + 1, pos + 4) \in Seq(Int) /\ Len(SubSeq(d, pos + 1, pos + 4)) = 4
      BY <1>2, <3>1, <3>2, SubSeqProperties
    <3> QED
      BY <3>3 DEF Word, Four
  <2>3. last4 \in Four
    BY <1>1, <2>2, ShiftIsWord
  <2>4. CASE (HasZero(s.prev) \/ HasZero(cur)) /\ StartCode(s.prev, cur) # {}
    <3>1. Turn(d, s, range) = [s EXCEPT !.found = Found(pos + code[1], code[2])]
      BY <1>4, <2>4 DEF Turn, pos
    <3>2. code[1] \in Nat /\ code[2] \in Int
      <4>1. code \in StartCode(s.prev, cur)
        BY <2>4
      <4> HIDE DEF code
      <4> QED
        BY <4>1, CodeIsPair
    <3> HIDE DEF code
    <3>3. pos + code[1] \in Nat
      BY <1>2, <3>2
    <3>4. Found(pos + code[1], code[2]) \in MaybeCode
      BY <3>2, <3>3 DEF Found, MaybeCode
    <3> QED
      BY <3>1, <3>4 DEF Searches
  <2>5. CASE ~((HasZero(s.prev) \/ HasZero(cur)) /\ StartCode(s.prev, cur) # {})
    <3>1. Turn(d, s, range) = [s EXCEPT !.pos = pos + range, !.prev = last4,
                                        !.zeros = HasZero(last4) \/ HasZero(cur)]
      BY <1>4, <2>5 DEF Turn, pos
    <3>2. pos + range \in Nat /\ (HasZero(last4) \/ HasZero(cur)) \in BOOLEAN
      BY <1>2
    <3> HIDE DEF cur, last4
    <3> QED
      BY <2>3, <3>1, <3>2 DEF Searches
  <2> QED
    BY <2>4, <2>5
<1> QED
  BY <1>3, <1>4

\* so that the search ends with a start code or without one,
LEMMA FindIsCode ==
  ASSUME NEW d \in Seq(Int), NEW offset \in Nat, NEW range \in {1, 4}
  PROVE  find_h26x_start_code(d, offset, range) \in MaybeCode
<1> DEFINE start == [pos |-> offset, prev |-> NoWord, zeros |-> FALSE, found |-> NotFound]
           N == Len(d) \div range
           After(g) == [n \in 0 .. N |-> IF n = 0 THEN start ELSE Turn(d, g[n - 1], range)]
           turn == [x \in (1 .. N) \X Searches |-> Turn(d, x[2], range)]
<1>1. N \in Nat
  <2>1. Len(d) \in Nat /\ range \in Nat \ {0}
    BY LenProperties
  <2> QED
    BY <2>1
<1>2. start \in Searches
  <2>1. NoWord \in Four
    BY DEF NoWord, Four
  <2>2. NotFound \in MaybeCode
    BY DEF MaybeCode
  <2> QED
    BY <2>1, <2>2 DEF Searches
<1>3. turn \in [(1 .. N) \X Searches -> Searches]
  <2> SUFFICES ASSUME NEW x \in (1 .. N) \X Searches PROVE Turn(d, x[2], range) \in Searches
    OBVIOUS
  <2>1. x[2] \in Searches
    OBVIOUS
  <2> QED
    BY <2>1, TurnIsSearch
<1>4. \A n \in 1 .. N, v \in Searches : turn[<<n, v>>] = Turn(d, v, range)
  OBVIOUS
<1> DEFINE g == CHOOSE g : g = After(g)
<1>5. find_h26x_start_code(d, offset, range) = g[N].found
  BY DEF find_h26x_start_code
<1> HIDE DEF N, turn, start
<1>6. PICK f : Follows(f, N, Searches, start, turn)
  BY ONLY <1>1, <1>2, <1>3, Recursion
<1>7. f \in [0 .. N -> Searches] /\ f[0] = start /\ \A n \in 1 .. N : f[n] = turn[<<n, f[n - 1]>>]
  BY <1>6 DEF Follows
<1>8. ASSUME NEW n \in 1 .. N PROVE f[n] = Turn(d, f[n - 1], range)
  <2>1. n - 1 \in 0 .. N
    BY <1>1
  <2>2. f[n - 1] \in Searches
    BY <1>7, <2>1
  <2> QED
    BY <1>4, <1>7, <2>2
<1>9. f = After(f)
  <2>1. \A n \in 0 .. N : f[n] = After(f)[n]
    <3> SUFFICES ASSUME NEW n \in 0 .. N PROVE f[n] = After(f)[n]
      OBVIOUS
    <3>1. CASE n = 0
      BY <1>7, <3>1
    <3>2. CASE n # 0
      BY <1>1, <1>8, <3>2
    <3> QED
      BY <3>1, <3>2
  <2> QED
    BY <1>7, <2>1
<1>10. g = After(g)
  BY <1>9
<1> HIDE DEF g
<1>11. f[0] = g[0]
  BY <1>1, <1>7, <1>10
<1>12. ASSUME NEW n \in 1 .. N, f[n - 1] = g[n - 1] PROVE f[n] = g[n]
  <2>1. n \in 0 .. N /\ n # 0
    BY <1>1
  <2>2. g[n] = After(g)[n]
    BY <1>10
  <2> QED
    BY <1>8, <1>12, <2>1, <2>2
<1>13. \A n \in 0 .. N : f[n] = g[n]
  <2>1. SameSteps(f, g, N)
    BY <1>11, <1>12 DEF SameSteps
  <2>2. Agree(f, g, N)
    BY ONLY <1>1, <2>1, OneSolution
  <2> QED
    BY <2>2 DEF Agree
<1>14. f[N] \in Searches /\ g[N] = f[N]
  BY <1>1, <1>7, <1>13
<1> QED
  BY <1>5, <1>14 DEF Searches

\* and the search of a frame with the start codes it found.
LEMMA CodesAreInts ==
  ASSUME NEW d \in Seq(Int), NEW range \in {1, 4}
  PROVE  AllCodes(d, range) \in Seq([pos : Int, prefix : Int])
<1> DEFINE first == find_h26x_start_code(d, 0, range)
           N == Len(d) \div 3
           More(found) == IF Last(found) = NotFound THEN found
                          ELSE Append(found, find_h26x_start_code(d, Last(found).pos, range))
           After(g) == [n \in 0 .. N |-> IF n = 0 THEN <<first>> ELSE More(g[n - 1])]
           V == {c \in Seq(MaybeCode) : c # <<>>}
           turn == [x \in (1 .. N) \X V |-> More(x[2])]
<1>1. N \in Nat
  <2>1. Len(d) \in Nat
    BY LenProperties
  <2> QED
    BY <2>1
<1>2. <<first>> \in V
  <2>1. first \in MaybeCode
    BY FindIsCode
  <2> HIDE DEF first
  <2> QED
    BY <2>1
<1>3. ASSUME NEW c \in V PROVE More(c) \in V
  <2>1. c \in Seq(MaybeCode) /\ Len(c) \in Nat /\ Len(c) # 0
    BY LenProperties, EmptySeq
  <2>2. Last(c) \in MaybeCode
    <3>1. Len(c) \in 1 .. Len(c)
      BY <2>1
    <3> QED
      BY <2>1, <3>1, ElementOfSeq DEF Last
  <2>3. CASE Last(c) = NotFound
    BY <2>3
  <2>4. CASE Last(c) # NotFound
    <3>1. Last(c).pos \in Nat
      BY <2>2, <2>4 DEF MaybeCode
    <3> DEFINE e == find_h26x_start_code(d, Last(c).pos, range)
    <3>2. e \in MaybeCode
      BY <3>1, FindIsCode
    <3>3. More(c) = Append(c, e)
      BY <2>4
    <3> HIDE DEF e, More
    <3>4. Append(c, e) \in Seq(MaybeCode) /\ Append(c, e) # <<>>
      BY <2>1, <3>2, AppendProperties
    <3> QED
      BY <3>3, <3>4
  <2> QED
    BY <2>3, <2>4
<1> HIDE DEF More
<1>4. turn \in [(1 .. N) \X V -> V]
  <2> SUFFICES ASSUME NEW x \in (1 .. N) \X V PROVE More(x[2]) \in V
    OBVIOUS
  <2>1. x[2] \in V
    OBVIOUS
  <2> HIDE DEF V
  <2> QED
    BY <1>3, <2>1
<1>5. \A n \in 1 .. N, v \in V : turn[<<n, v>>] = More(v)
  OBVIOUS
<1> DEFINE g == CHOOSE g : g = After(g)
<1>6. AllCodes(d, range) = Front(g[N])
  BY DEF AllCodes, More
<1> HIDE DEF N, turn, first, V
<1>7. PICK f : Follows(f, N, V, <<first>>, turn)
  BY ONLY <1>1, <1>2, <1>4, Recursion
<1>8. f \in [0 .. N -> V] /\ f[0] = <<first>> /\ \A n \in 1 .. N : f[n] = turn[<<n, f[n - 1]>>]
  BY <1>7 DEF Follows
<1>9. ASSUME NEW n \in 1 .. N PROVE f[n] = More(f[n - 1])
  <2>1. n - 1 \in 0 .. N
    BY <1>1
  <2>2. f[n - 1] \in V
    BY <1>8, <2>1
  <2> QED
    BY <1>5, <1>8, <2>2
<1>10. f = After(f)
  <2>1. \A n \in 0 .. N : f[n] = After(f)[n]
    <3> SUFFICES ASSUME NEW n \in 0 .. N PROVE f[n] = After(f)[n]
      OBVIOUS
    <3>1. CASE n = 0
      BY <1>8, <3>1
    <3>2. CASE n # 0
      BY <1>1, <1>9, <3>2
    <3> QED
      BY <3>1, <3>2
  <2> QED
    BY <1>8, <2>1
<1>11. g = After(g)
  BY <1>10
<1> HIDE DEF g
<1>12. f[0] = g[0]
  BY <1>1, <1>8, <1>11
<1>13. ASSUME NEW n \in 1 .. N, f[n - 1] = g[n - 1] PROVE f[n] = g[n]
  <2>1. n \in 0 .. N /\ n # 0
    BY <1>1
  <2>2. g[n] = After(g)[n]
    BY <1>11
  <2> QED
    BY <1>9, <1>13, <2>1, <2>2
<1>14. \A n \in 0 .. N : f[n] = g[n]
  <2>1. SameSteps(f, g, N)
    BY <1>12, <1>13 DEF SameSteps
  <2>2. Agree(f, g, N)
    BY ONLY <1>1, <2>1, OneSolution
  <2> QED
    BY <2>2 DEF Agree
<1>15. f[N] \in V /\ g[N] = f[N]
  BY <1>1, <1>8, <1>14
<1>16. g[N] \in Seq(MaybeCode) /\ Len(g[N]) \in Nat /\ Len(g[N]) # 0
  BY <1>15, LenProperties, EmptySeq DEF V
<1>17. MaybeCode \subseteq [pos : Int, prefix : Int]
  BY DEF MaybeCode, NotFound
<1> DEFINE c == g[N]
<1> HIDE DEF c
<1>18. Front(c) \in Seq([pos : Int, prefix : Int])
  <2>1. c \in Seq(MaybeCode) /\ Len(c) \in Nat /\ Len(c) # 0
    BY <1>16 DEF c
  <2>2. \A i \in 1 .. Len(c) - 1 : c[i] \in [pos : Int, prefix : Int]
    BY <1>17, <2>1, ElementOfSeq
  <2>3. 1 \in Int /\ Len(c) - 1 \in Int
    BY <2>1
  <2>4. SubSeq(c, 1, Len(c) - 1) \in Seq([pos : Int, prefix : Int])
    BY <2>2, <2>3, SubSeqProperties
  <2> QED
    BY <2>4 DEF Front
<1> QED
  BY <1>6, <1>18 DEF c

\* The NAL units of a frame are ranges of positions.
LEMMA UnitsAreParts ==
  ASSUME NEW d \in Seq(Int), NEW range \in {1, 4}
  PROVE  scl(d, range) \in Seq(Parts)
<1> DEFINE found == AllCodes(d, range)
           to(i) == IF i < Len(found) THEN found[i + 1].pos - found[i + 1].prefix ELSE Len(d)
           ranges == [i \in 1 .. Len(found) |-> [from |-> found[i].pos, to |-> to(i)]]
<1>1. found \in Seq([pos : Int, prefix : Int])
  BY CodesAreInts
<1>2. Len(found) \in Nat /\ DOMAIN found = 1 .. Len(found) /\ Len(d) \in Nat
  BY <1>1, LenProperties
<1>3. scl(d, range) = ranges
  BY <1>2 DEF scl, UnitsAt
<1> HIDE DEF found
<1>4. ASSUME NEW i \in 1 .. Len(found)
      PROVE  found[i].pos \in Int /\ found[i].prefix \in Int
  <2>1. found[i] \in [pos : Int, prefix : Int]
    BY <1>1, ElementOfSeq
  <2> QED
    BY <2>1
<1>5. ASSUME NEW i \in 1 .. Len(found) PROVE to(i) \in Int
  <2>1. CASE i < Len(found)
    <3>1. i + 1 \in 1 .. Len(found)
      BY <1>2, <2>1
    <3> QED
      BY <1>4, <2>1, <3>1
  <2>2. CASE ~(i < Len(found))
    BY <1>2, <2>2
  <2> QED
    BY <2>1, <2>2
<1> HIDE DEF to
<1>6. ranges \in [1 .. Len(found) -> Parts]
  BY <1>4, <1>5 DEF Parts
<1> HIDE DEF ranges
<1>7. ranges \in Seq(Parts)
  BY <1>2, <1>6, FunctionIsSeq
<1> QED
  BY <1>3, <1>7

-----------------------------------------------------------------------------
(* The units of an aggregation packet.                                     *)

\* The size of the first parts.
SumsUp(sum, parts) ==
    /\ sum[0] = 0
    /\ \A n \in 1 .. Len(parts) : sum[n] = sum[n - 1] + parts[n].to - parts[n].from

\* The size of the first parts is a partial sum.
LEMMA SizeOfFirst ==
  ASSUME NEW parts \in Seq(Parts), NEW k \in 0 .. Len(parts), NEW sum, SumsUp(sum, parts)
  PROVE  Size(SubSeq(parts, 1, k)) = sum[k]
<1> DEFINE first == SubSeq(parts, 1, k)
<1>1. Len(parts) \in Nat /\ k \in Nat /\ k <= Len(parts)
  BY LenProperties
<1>2. first \in Seq(Parts) /\ Len(first) = k /\ \A n \in 1 .. k : first[n] = parts[n]
  <2>1. \A n \in 1 .. k : parts[n] \in Parts
    BY <1>1, ElementOfSeq
  <2>2. 1 \in Int /\ k \in Int
    BY <1>1
  <2>3. /\ first \in Seq(Parts)
        /\ Len(first) = IF 1 <= k THEN k - 1 + 1 ELSE 0
        /\ \A i \in 1 .. k - 1 + 1 : first[i] = parts[1 + i - 1]
    BY <2>1, <2>2, SubSeqProperties
  <2> QED
    BY <1>1, <2>3
<1> HIDE DEF first
<1>3. PICK f \in [0 .. Len(first) -> Int] :
         /\ f[0] = 0 /\ Size(first) = f[Len(first)]
         /\ \A n \in 1 .. Len(first) : f[n] = f[n - 1] + first[n].to - first[n].from
  BY <1>2, SizeIs
<1>4. SameSteps(f, sum, k)
  <2>1. ASSUME NEW n \in 1 .. k, f[n - 1] = sum[n - 1] PROVE f[n] = sum[n]
    <3>1. n \in 1 .. Len(parts) /\ n \in 1 .. Len(first) /\ first[n] = parts[n]
      BY <1>1, <1>2
    <3> QED
      BY <1>3, <2>1, <3>1 DEF SumsUp
  <2> QED
    BY <1>3, <2>1 DEF SameSteps, SumsUp
<1>5. Agree(f, sum, k)
  BY <1>1, <1>4, OneSolution
<1> QED
  BY <1>1, <1>2, <1>3, <1>5 DEF Agree, first

Taken(us) == [size : Int, chosen : SUBSET (1 .. Len(us))]

\* The greedy choice by the partial sums of the sizes.
LEMMA AggregateIs ==
  ASSUME NEW us \in Seq(Parts), NEW sum \in [0 .. Len(us) -> Int],
         \A n \in 1 .. Len(us) : sum[n] = sum[n - 1] + us[n].to - us[n].from
  PROVE  \E t \in [0 .. Len(us) -> Taken(us)] :
            /\ t[0] = [size |-> 0, chosen |-> {}] /\ Aggregate(us) = t[Len(us)]
            /\ \A n \in 1 .. Len(us) :
                  LET size == t[n - 1].size + (sum[n] - sum[n - 1]) + 2
                  IN  t[n] = IF size <= PayloadSize - NalHeader
                             THEN [size |-> size, chosen |-> t[n - 1].chosen \cup {n}]
                             ELSE t[n - 1]
<1> DEFINE N == Len(us)
           start == [size |-> 0, chosen |-> {}]
           V == Taken(us)
           Grown(v, n) == v.size + us[n].to - us[n].from + 2
           Take(v, n) == IF Grown(v, n) <= PayloadSize - NalHeader
                         THEN [size |-> Grown(v, n), chosen |-> v.chosen \cup {n}]
                         ELSE v
           After(g) == [n \in 0 .. N |-> IF n = 0 THEN start ELSE Take(g[n - 1], n)]
           turn == [x \in (1 .. N) \X V |-> Take(x[2], x[1])]
<1>1. N \in Nat
  BY LenProperties
<1>2. start \in V
  BY DEF Taken
<1>3. ASSUME NEW v \in V, NEW n \in 1 .. N
      PROVE  /\ Take(v, n) \in V
             /\ Grown(v, n) = v.size + (sum[n] - sum[n - 1]) + 2
  <2>1. us[n] \in Parts
    BY ElementOfSeq
  <2>2. us[n].to \in Int /\ us[n].from \in Int
    BY <2>1 DEF Parts
  <2>3. v.size \in Int /\ v.chosen \in SUBSET (1 .. N)
    BY DEF Taken
  <2>4. sum[n] = sum[n - 1] + us[n].to - us[n].from /\ sum[n - 1] \in Int
    <3>1. n - 1 \in 0 .. N
      BY <1>1
    <3> QED
      BY <3>1
  <2>5. Grown(v, n) \in Int
    BY ONLY <2>2, <2>3
  <2>8. v.chosen \cup {n} \in SUBSET (1 .. N)
    BY <2>3
  <2>6. Grown(v, n) = v.size + (sum[n] - sum[n - 1]) + 2
    <3> DEFINE a == v.size  b == us[n].to  c == us[n].from  p == sum[n - 1]  q == sum[n]
    <3>1. a \in Int /\ b \in Int /\ c \in Int /\ p \in Int /\ q = p + b - c
      BY <2>2, <2>3, <2>4
    <3> HIDE DEF a, b, c, p, q
    <3>2. a + b - c + 2 = a + (q - p) + 2
      BY ONLY <3>1
    <3> QED
      BY ONLY <3>2 DEF a, b, c, p, q
  <2> HIDE DEF Grown
  <2>7. Take(v, n) \in V
    BY <2>5, <2>8 DEF Taken
  <2> QED
    BY <2>6, <2>7
<1> HIDE DEF Take
<1>4. turn \in [(1 .. N) \X V -> V]
  <2> SUFFICES ASSUME NEW x \in (1 .. N) \X V PROVE Take(x[2], x[1]) \in V
    OBVIOUS
  <2>1. x[1] \in 1 .. N /\ x[2] \in V
    OBVIOUS
  <2> HIDE DEF V, N
  <2> QED
    BY <1>3, <2>1
<1>5. \A n \in 1 .. N, v \in V : turn[<<n, v>>] = Take(v, n)
  OBVIOUS
<1> DEFINE g == CHOOSE g : g = After(g)
<1>6. Aggregate(us) = g[N]
  BY DEF Aggregate, Take
<1> HIDE DEF N, turn, start, V
<1>7. PICK f : Follows(f, N, V, start, turn)
  BY ONLY <1>1, <1>2, <1>4, Recursion
<1>8. f \in [0 .. N -> V] /\ f[0] = start /\ \A n \in 1 .. N : f[n] = turn[<<n, f[n - 1]>>]
  BY <1>7 DEF Follows
<1>9. ASSUME NEW n \in 1 .. N PROVE f[n] = Take(f[n - 1], n) /\ f[n - 1] \in V
  <2>1. n - 1 \in 0 .. N
    BY <1>1
  <2>2. f[n - 1] \in V
    BY <1>8, <2>1
  <2> QED
    BY <1>5, <1>8, <2>2
<1>10. f = After(f)
  <2>1. \A n \in 0 .. N : f[n] = After(f)[n]
    <3> SUFFICES ASSUME NEW n \in 0 .. N PROVE f[n] = After(f)[n]
      OBVIOUS
    <3>1. CASE n = 0
      BY <1>8, <3>1
    <3>2. CASE n # 0
      BY <1>1, <1>9, <3>2
    <3> QED
      BY <3>1, <3>2
  <2> QED
    BY <1>8, <2>1
<1>11. g = After(g)
  BY <1>10
<1> HIDE DEF g
<1>12. f[0] = g[0]
  BY <1>1, <1>8, <1>11
<1>13. ASSUME NEW n \in 1 .. N, f[n - 1] = g[n - 1] PROVE f[n] = g[n]
  <2>1. n \in 0 .. N /\ n # 0
    BY <1>1
  <2>2. g[n] = After(g)[n]
    BY <1>11
  <2> QED
    BY <1>9, <1>13, <2>1, <2>2
<1>14. \A n \in 0 .. N : f[n] = g[n]
  <2>1. SameSteps(f, g, N)
    BY <1>12, <1>13 DEF SameSteps
  <2>2. Agree(f, g, N)
    BY ONLY <1>1, <2>1, OneSolution
  <2> QED
    BY <2>2 DEF Agree
<1>15. Aggregate(us) = f[N]
  BY <1>1, <1>6, <1>14
<1>16. ASSUME NEW n \in 1 .. N
       PROVE  LET size == f[n - 1].size + (sum[n] - sum[n - 1]) + 2
              IN  f[n] = IF size <= PayloadSize - NalHeader
                         THEN [size |-> size, chosen |-> f[n - 1].chosen \cup {n}]
                         ELSE f[n - 1]
  <2>1. f[n] = Take(f[n - 1], n) /\ f[n - 1] \in V
    BY <1>9
  <2>2. Grown(f[n - 1], n) = f[n - 1].size + (sum[n] - sum[n - 1]) + 2
    BY <1>3, <2>1
  <2> HIDE DEF Grown
  <2> QED
    BY <2>1, <2>2 DEF Take
<1> QED
  BY <1>8, <1>15, <1>16 DEF N, V, start

\* The units at the front of a frame that are bundled fit one packet, with their sizes.
LEMMA ChosenFit ==
  ASSUME NEW us \in Seq(Parts), NEW k \in 1 .. Len(us), 1 .. k \subseteq Aggregate(us).chosen
  PROVE  NalHeader + Size(SubSeq(us, 1, k)) + 2 * k <= PayloadSize
<1> DEFINE N == Len(us)
<1>1. N \in Nat
  BY LenProperties
<1>2. PICK sum \in [0 .. N -> Int] :
         /\ sum[0] = 0
         /\ \A n \in 1 .. N : sum[n] = sum[n - 1] + us[n].to - us[n].from
  BY SizeIs
<1>3. PICK t \in [0 .. N -> Taken(us)] :
         /\ t[0] = [size |-> 0, chosen |-> {}] /\ Aggregate(us) = t[N]
         /\ \A n \in 1 .. N :
               LET size == t[n - 1].size + (sum[n] - sum[n - 1]) + 2
               IN  t[n] = IF size <= PayloadSize - NalHeader
                          THEN [size |-> size, chosen |-> t[n - 1].chosen \cup {n}]
                          ELSE t[n - 1]
  BY <1>2, AggregateIs
<1>4. PayloadSize \in Nat /\ NalHeader \in Nat
  BY SenderAssumption DEF NalHeader
<1> DEFINE Room == PayloadSize - NalHeader
           Exact(n) == 1 .. n \subseteq t[n].chosen => t[n].size = sum[n] + 2 * n
           Fit(n) == \A i \in 1 .. n : 1 .. i \subseteq t[n].chosen => sum[i] + 2 * i <= Room
           T == {n \in 0 .. N : t[n].chosen \subseteq 1 .. n /\ Exact(n) /\ Fit(n)}
<1>5. Size(SubSeq(us, 1, k)) = sum[k]
  <2>1. SumsUp(sum, us)
    BY <1>2 DEF SumsUp
  <2>2. k \in 0 .. Len(us)
    BY <1>1
  <2> QED
    BY <2>1, <2>2, SizeOfFirst
<1>6. Room \in Int /\ NalHeader + Room = PayloadSize
  BY <1>4
<1> HIDE DEF Room, N
<1>7. 0 \in T
  BY <1>1, <1>2, <1>3
<1>8. ASSUME NEW n \in 1 .. N, n - 1 \in T PROVE n \in T
  <2> DEFINE m == n - 1
             size == t[m].size + (sum[n] - sum[m]) + 2
  <2>1. m \in 0 .. N /\ n \in 0 .. N /\ n = m + 1 /\ n \in Nat /\ m \in Nat
    BY <1>1
  <2>2. t[m].chosen \subseteq 1 .. m /\ Exact(m) /\ Fit(m)
    BY <1>8
  <2>3. sum[m] \in Int /\ sum[n] \in Int /\ t[m].size \in Int
    BY <2>1 DEF Taken
  <2>4. t[n] = IF size <= Room THEN [size |-> size, chosen |-> t[m].chosen \cup {n}] ELSE t[m]
    BY <1>3 DEF Room
  <2> HIDE DEF m
  <2>5. CASE size <= Room
    <3>1. t[n].size = size /\ t[n].chosen = t[m].chosen \cup {n}
      BY <2>4, <2>5
    <3>2. t[n].chosen \subseteq 1 .. n
      BY <2>1, <2>2, <3>1
    <3>3. ASSUME 1 .. n \subseteq t[n].chosen PROVE size = sum[n] + 2 * n
      <4>1. 1 .. m \subseteq t[m].chosen
        BY <2>1, <3>1, <3>3
      <4>2. t[m].size = sum[m] + 2 * m
        BY <2>2, <4>1
      <4> QED
        BY <2>1, <2>3, <4>2
    <3>4. Exact(n)
      BY <3>1, <3>3
    <3>5. ASSUME NEW i \in 1 .. n, 1 .. i \subseteq t[n].chosen PROVE sum[i] + 2 * i <= Room
      <4>1. CASE i = n
        BY <2>5, <3>3, <3>5, <4>1
      <4>2. CASE i # n
        <5>1. i \in 1 .. m /\ 1 .. i \subseteq t[m].chosen
          BY <2>1, <3>1, <3>5, <4>2
        <5> QED
          BY <2>2, <5>1
      <4> QED
        BY <4>1, <4>2
    <3> QED
      BY <2>1, <3>2, <3>4, <3>5
  <2>6. CASE ~(size <= Room)
    <3>1. t[n] = t[m]
      BY <2>4, <2>6
    <3>2. ~(1 .. n \subseteq t[n].chosen) /\ t[n].chosen \subseteq 1 .. n
      BY <2>1, <2>2, <3>1
    <3>3. ASSUME NEW i \in 1 .. n, 1 .. i \subseteq t[n].chosen PROVE sum[i] + 2 * i <= Room
      <4>1. i # n
        BY <3>2, <3>3
      <4>2. i \in 1 .. m /\ 1 .. i \subseteq t[m].chosen
        BY <2>1, <3>1, <3>3, <4>1
      <4> QED
        BY <2>2, <4>2
    <3> QED
      BY <2>1, <3>2, <3>3
  <2> QED
    BY <2>5, <2>6
<1> HIDE DEF T
<1>9. \A n \in 0 .. N : n \in T
  BY <1>1, <1>7, <1>8, Induction
<1>10. Fit(N)
  <2>1. N \in T
    BY <1>1, <1>9
  <2> QED
    BY <2>1 DEF T
<1>11. sum[k] + 2 * k <= Room
  BY <1>3, <1>10 DEF N
<1>12. sum[k] \in Int /\ k \in Nat
  BY <1>1, <1>2 DEF N
<1> QED
  BY <1>4, <1>5, <1>6, <1>11, <1>12

\* What is chosen are positions of the units.
LEMMA ChosenAre ==
  ASSUME NEW us \in Seq(Parts)
  PROVE  Aggregate(us).chosen \subseteq 1 .. Len(us)
<1> DEFINE N == Len(us)
<1>1. N \in Nat
  BY LenProperties
<1>2. PICK sum \in [0 .. N -> Int] :
         /\ sum[0] = 0
         /\ \A n \in 1 .. N : sum[n] = sum[n - 1] + us[n].to - us[n].from
  BY SizeIs
<1>3. PICK t \in [0 .. N -> Taken(us)] : Aggregate(us) = t[N]
  BY <1>2, AggregateIs
<1>4. t[N] \in Taken(us)
  BY <1>1, <1>3
<1> QED
  BY <1>3, <1>4 DEF Taken

\* A unit alone is not aggregated.
LEMMA AloneIs ==
  ASSUME NEW p \in Parts, NEW separate
  PROVE  Bundled(<<p>>, separate) = 0
<1> DEFINE us == <<p>>
           chosen == Aggregate(us).chosen
<1>1. us \in Seq(Parts) /\ Len(us) = 1
  OBVIOUS
<1> HIDE DEF us
<1>2. chosen \subseteq 1 .. Len(us)
  BY <1>1, ChosenAre
<1> HIDE DEF chosen
<1>3. chosen = {} \/ chosen = {1}
  <2>1. chosen \subseteq 1 .. 1
    BY <1>1, <1>2
  <2>2. \A x \in 1 .. 1 : x = 1
    OBVIOUS
  <2>3. \A x \in chosen : x = 1
    BY <2>1, <2>2
  <2> QED
    BY <2>3
<1>4. Cardinality(chosen) \in {0, 1}
  BY <1>3, FS_EmptySet, FS_Singleton
<1>5. ~Aggregating(us, separate)
  BY <1>4 DEF Aggregating, chosen
<1> QED
  BY <1>5 DEF Bundled, us

\* The units at the front that are bundled were all chosen.
LEMMA BundledIs ==
  ASSUME NEW us \in Seq(Parts), NEW separate
  PROVE  /\ Bundled(us, separate) \in 0 .. Len(us)
         /\ Bundled(us, separate) = 0
               \/ 1 .. Bundled(us, separate) \subseteq Aggregate(us).chosen
<1> DEFINE N == Len(us)
           chosen == Aggregate(us).chosen
           front == {i \in DOMAIN us : 1 .. i \subseteq chosen}
           Missing == {m \in 1 .. N + 1 : m \notin chosen}
<1>1. N \in Nat /\ DOMAIN us = 1 .. N
  BY LenProperties
<1>2. chosen \subseteq 1 .. N
  BY ChosenAre
<1> HIDE DEF chosen, N
<1>3. Missing \in SUBSET Nat /\ N + 1 \in Missing
  BY <1>1, <1>2
<1> HIDE DEF Missing
<1>4. PICK m \in Missing : \A x \in Missing : m <= x
  BY <1>3, Smallest
<1> DEFINE k == m - 1
<1>5. m \in 1 .. N + 1 /\ m \notin chosen /\ k \in 0 .. N /\ m = k + 1 /\ k \in Nat
  BY <1>1, <1>4 DEF Missing
<1>6. \A i \in 1 .. k : i \in chosen
  BY <1>1, <1>4, <1>5 DEF Missing
<1> HIDE DEF k
<1>7. front = 1 .. k
  <2>1. ASSUME NEW i \in 1 .. k PROVE i \in front
    <3>1. i \in 1 .. N /\ 1 .. i \subseteq 1 .. k
      BY <1>1, <1>5
    <3> QED
      BY <1>1, <1>6, <3>1
  <2>2. ASSUME NEW i \in front PROVE i \in 1 .. k
    <3>1. i \in 1 .. N /\ 1 .. i \subseteq chosen
      BY <1>1
    <3>2. m \notin 1 .. i
      BY <1>5, <3>1
    <3> QED
      BY <1>1, <1>5, <3>1, <3>2
  <2> HIDE DEF front
  <2> QED
    BY <2>1, <2>2
<1>8. Cardinality(front) = k
  <2>1. Cardinality(1 .. k) = IF 1 > k THEN 0 ELSE k - 1 + 1
    BY <1>5, FS_Interval
  <2>2. Cardinality(1 .. k) = k
    BY <1>5, <2>1
  <2> QED
    BY <1>7, <2>2
<1>9. Bundled(us, separate) = IF Aggregating(us, separate) THEN Cardinality(front) ELSE 0
  BY DEF Bundled, chosen
<1> HIDE DEF front
<1>10. 1 .. k \subseteq chosen
  BY <1>6
<1>11. CASE Aggregating(us, separate)
  BY <1>5, <1>8, <1>9, <1>10, <1>11 DEF chosen, N
<1>12. CASE ~Aggregating(us, separate)
  BY <1>1, <1>9, <1>12 DEF N
<1> QED
  BY <1>11, <1>12

-----------------------------------------------------------------------------
(* The pieces of a unit or a frame.                                        *)

\* No piece is longer than it may be.
LEMMA PiecesFit ==
  ASSUME NEW from \in Int, NEW to \in Int, NEW size \in Nat \ {0}
  PROVE  /\ Pieces(from, to, size) \in Seq(Parts)
         /\ \A i \in DOMAIN Pieces(from, to, size) :
               Pieces(from, to, size)[i].to - Pieces(from, to, size)[i].from <= size
<1> DEFINE count == (to - from + size - 1) \div size
           piece(i) == Part(from + (i - 1) * size, Min({from + i * size, to}))
           pieces == [i \in 1 .. count |-> piece(i)]
<1>1. count \in Int
  <2> DEFINE n == to - from + size - 1
  <2>1. n \in Int
    OBVIOUS
  <2> HIDE DEF n
  <2> QED
    BY <2>1
<1>2. Pieces(from, to, size) = pieces
  BY DEF Pieces
<1> HIDE DEF count
<1>3. ASSUME NEW i \in 1 .. count PROVE piece(i) \in Parts /\ piece(i).to - piece(i).from <= size
  <2> DEFINE x == from + (i - 1) * size
             y == from + i * size
             m == Min({y, to})
  <2>1. x \in Int /\ y \in Int /\ y = x + size
    BY <1>1
  <2> HIDE DEF x, y
  <2>2. m \in {y, to} /\ m <= y
    <3>1. \E z \in {y, to} : \A v \in {y, to} : z <= v
      BY <2>1
    <3>2. m \in {y, to} /\ \A v \in {y, to} : m <= v
      BY <3>1 DEF Min
    <3> QED
      BY <3>2
  <2>3. piece(i) = [from |-> x, to |-> m]
    BY DEF Part, x, y
  <2> HIDE DEF m
  <2> QED
    BY <2>1, <2>2, <2>3 DEF Parts
<1> HIDE DEF piece
<1>4. pieces \in Seq(Parts) /\ DOMAIN pieces = 1 .. count
  <2>1. CASE count < 0
    <3>1. 1 .. count = {} /\ 1 .. 0 = {}
      BY <1>1, <2>1
    <3>2. pieces \in [1 .. 0 -> Parts]
      BY <3>1
    <3> HIDE DEF pieces
    <3> QED
      BY <3>1, <3>2, FunctionIsSeq
  <2>2. CASE ~(count < 0)
    <3>1. count \in Nat
      BY <1>1, <2>2
    <3>2. pieces \in [1 .. count -> Parts]
      BY <1>3
    <3> HIDE DEF pieces
    <3> QED
      BY <3>1, <3>2, FunctionIsSeq
  <2> QED
    BY <2>1, <2>2
<1> QED
  BY <1>2, <1>3, <1>4

\* A single part and its size.
LEMMA SizeOfOne ==
  ASSUME NEW p \in Parts
  PROVE  <<p>> \in Seq(Parts) /\ Size(<<p>>) = p.to - p.from /\ Len(<<p>>) = 1
<1>1. <<p>> \in Seq(Parts) /\ Len(<<p>>) = 1 /\ <<p>>[1] = p
  OBVIOUS
<1>2. PICK sum \in [0 .. 1 -> Int] :
         /\ sum[0] = 0 /\ Size(<<p>>) = sum[1]
         /\ \A n \in 1 .. 1 : sum[n] = sum[n - 1] + <<p>>[n].to - <<p>>[n].from
  BY <1>1, SizeIs
<1>3. sum[1] = sum[0] + p.to - p.from
  BY <1>2
<1>4. p.to \in Int /\ p.from \in Int
  BY DEF Parts
<1> QED
  BY <1>1, <1>2, <1>3, <1>4

-----------------------------------------------------------------------------
(* The invariant.                                                          *)

Kinds == {"single", "start", "middle", "end", "fragment"}
AllKinds == Kinds \cup {"bundle"}
Packets == [kind : AllKinds, head : Nat, parts : Seq(Parts), n : Nat, ts : Int, index : Int]

TypeInv ==
    /\ scenario \in Scenarios
    /\ step \in {"idle", "enqueue", "aggregate", "unit", "divide", "flush"}
    /\ frame \in [octets : Seq(0 .. 255), separate : BOOLEAN, whole : BOOLEAN, ts : Int]
    /\ units \in Seq(Parts) /\ bundle \in Seq(Parts)
    /\ active \in [ts : Int, packets : Seq(Packets)] /\ wire \in Seq(Packets)
    /\ next \in Nat /\ roc \in Nat /\ rtp_ts \in Int /\ tick \in Nat
    /\ failed \in [now : BOOLEAN, ever : BOOLEAN]

\* What the payload of a packet takes, in an aggregation packet with the sizes of the units.
Takes(p) == p.head + Size(p.parts) + (IF p.kind = "bundle" THEN 2 * Len(p.parts) ELSE 0)
Fits(p) == Takes(p) <= PayloadSize \/ (scenario.format = "generic" /\ ~scenario.fragment)

\* Packets wait only for the flush, and the units that wait for it fit one packet.
SizeInv ==
    /\ active.packets # <<>> => step = "flush"
    /\ bundle # <<>> => NalHeader + Size(bundle) + 2 * Len(bundle) <= PayloadSize
    /\ \A i \in DOMAIN active.packets : Fits(active.packets[i])
    /\ \A i \in DOMAIN wire : Fits(wire[i])

\* A transaction has the timestamp of the frame.
TimeInv ==
    /\ step \in {"enqueue", "aggregate", "divide", "flush"} => active.ts = rtp_ts
    /\ frame.ts # -1 => rtp_ts = frame.ts
    /\ \A i \in DOMAIN active.packets : active.packets[i].ts = active.ts
    /\ \A i \in DOMAIN wire : wire[i].ts = rtp_ts

\* The rollover counter counts the wraps of all numbers before those that wait.
Counts == scenario.srtp /\ ~(scenario.paced /\ failed.ever)
Waiting == Len(active.packets)
CountInv ==
    /\ Counts => roc = (next - Waiting) \div SeqBound
    /\ Waiting <= next
    /\ \A i \in DOMAIN active.packets : active.packets[i].n = next - Waiting + i - 1
    /\ Counts => \A i \in DOMAIN wire : wire[i].index = wire[i].n

SenderInv == TypeInv /\ SizeInv /\ TimeInv /\ CountInv

-----------------------------------------------------------------------------
(* Numbers and wraps.                                                      *)

\* The rollover count grows by one where the number wraps.
LEMMA OneMore ==
  ASSUME NEW b \in Nat \ {0}, NEW n \in Nat
  PROVE  (n + 1) \div b = (n \div b) + (IF n % b = b - 1 THEN 1 ELSE 0)
<1> DEFINE q == n \div b
           r == n % b
<1>1. n = (q * b) + r /\ r \in 0 .. b - 1 /\ q \in Int
  BY SMTT(60)
<1>2. \A a \in Int, c \in 0 .. b - 1 : ((a * b) + c) \div b = a
  BY SMTT(60)
<1> HIDE DEF q, r
<1>3. CASE r = b - 1
  <2>1. n + 1 = ((q + 1) * b) + 0 /\ q + 1 \in Int /\ 0 \in 0 .. b - 1
    BY <1>1, <1>3, SMTT(30)
  <2>2. (((q + 1) * b) + 0) \div b = q + 1
    BY ONLY <1>2, <2>1
  <2> QED
    BY <1>3, <2>1, <2>2 DEF q, r
<1>4. CASE r # b - 1
  <2>1. n + 1 = (q * b) + (r + 1) /\ r + 1 \in 0 .. b - 1
    BY <1>1, <1>4, SMTT(30)
  <2>2. ((q * b) + (r + 1)) \div b = q
    BY <1>1, <1>2, <2>1
  <2> QED
    BY <1>1, <1>4, <2>1, <2>2 DEF q, r
<1> QED
  BY <1>3, <1>4

\* How many of k numbers from n on are the last before a wrap.
LEMMA WrapsCounted ==
  ASSUME NEW b \in Nat \ {0}, NEW n \in Nat, NEW k \in Nat
  PROVE  /\ IsFiniteSet({j \in 1 .. k : (n + j - 1) % b = b - 1})
         /\ Cardinality({j \in 1 .. k : (n + j - 1) % b = b - 1})
              = ((n + k) \div b) - (n \div b)
<1> DEFINE S(i) == {j \in 1 .. i : (n + j - 1) % b = b - 1}
           T == {i \in 0 .. k : /\ IsFiniteSet(S(i))
                                /\ Cardinality(S(i)) = ((n + i) \div b) - (n \div b)}
<1>1. 0 \in T
  <2>1. S(0) = {}
    OBVIOUS
  <2>2. IsFiniteSet(S(0)) /\ Cardinality(S(0)) = 0
    BY <2>1, FS_EmptySet
  <2> HIDE DEF S
  <2>3. n + 0 = n /\ n \div b \in Int
    OBVIOUS
  <2> QED
    BY <2>2, <2>3
<1>2. ASSUME NEW i \in 1 .. k, i - 1 \in T PROVE i \in T
  <2> DEFINE m == n + i - 1
  <2>1. i \in 0 .. k /\ m \in Nat /\ n + i = m + 1 /\ n + (i - 1) = m /\ i \notin S(i - 1)
    OBVIOUS
  <2>2. IsFiniteSet(S(i - 1)) /\ Cardinality(S(i - 1)) = (m \div b) - (n \div b)
    BY <1>2, <2>1
  <2>3. m \div b \in Int /\ n \div b \in Int
    <3> HIDE DEF m
    <3> QED
      BY <2>1
  <2>4. (n + i) \div b = (m \div b) + (IF m % b = b - 1 THEN 1 ELSE 0)
    <3> HIDE DEF m
    <3> QED
      BY <2>1, OneMore
  <2>5. CASE m % b = b - 1
    <3>1. S(i) = S(i - 1) \cup {i}
      BY <2>1, <2>5
    <3> HIDE DEF S, m
    <3>2. IsFiniteSet(S(i)) /\ Cardinality(S(i)) = Cardinality(S(i - 1)) + 1
      BY <2>1, <2>2, <3>1, FS_AddElement
    <3>3. Cardinality(S(i)) = ((n + i) \div b) - (n \div b)
      BY <2>2, <2>3, <2>4, <2>5, <3>2
    <3> QED
      BY <2>1, <3>2, <3>3
  <2>6. CASE m % b # b - 1
    <3>1. S(i) = S(i - 1)
      <4>1. ASSUME NEW j \in S(i) PROVE j \in S(i - 1)
        <5>1. j \in 1 .. i /\ (n + j - 1) % b = b - 1
          OBVIOUS
        <5>2. j # i
          BY <2>6, <5>1
        <5>3. j \in 1 .. i - 1
          BY <2>1, <5>1, <5>2
        <5> QED
          BY <5>1, <5>3
      <4>2. S(i - 1) \subseteq S(i)
        OBVIOUS
      <4> HIDE DEF S
      <4> QED
        BY <4>1, <4>2
    <3> HIDE DEF S, m
    <3>3. Cardinality(S(i)) = ((n + i) \div b) - (n \div b)
      BY <2>2, <2>3, <2>4, <2>6, <3>1
    <3> QED
      BY <2>1, <2>2, <3>1, <3>3
  <2> QED
    BY <2>5, <2>6
<1> HIDE DEF T
<1>3. \A i \in 0 .. k : i \in T
  BY <1>1, <1>2, Induction
<1>4. k \in T
  BY <1>3
<1> QED
  BY <1>4 DEF T

-----------------------------------------------------------------------------
(* Payloads.                                                               *)

Payload == [kind : AllKinds, head : Nat, parts : Seq(Parts)]

Room(p, head) == head + p.to - p.from <= PayloadSize

IsHeader(h, kind, head, parts) ==
    h.kind = kind /\ h.head = head /\ h.parts = parts /\ kind # "bundle"

\* A payload has the fields that it was made of.
LEMMA HeaderFields ==
  ASSUME NEW kind \in Kinds, NEW head \in Nat, NEW parts \in Seq(Parts)
  PROVE  /\ Header(kind, head, parts) \in Payload
         /\ IsHeader(Header(kind, head, parts), kind, head, parts)
<1>1. kind \in AllKinds
  BY DEF AllKinds
<1>2. kind # "bundle"
  BY DEF Kinds
<1> QED
  BY <1>1, <1>2 DEF Header, Payload, IsHeader

\* A part that leaves room for its headers makes a payload that fits.
LEMMA HeaderIs ==
  ASSUME NEW kind \in Kinds, NEW head \in Nat, NEW p \in Parts, Room(p, head)
  PROVE  Header(kind, head, <<p>>) \in Payload /\ Fits(Header(kind, head, <<p>>))
<1> DEFINE h == Header(kind, head, <<p>>)
<1>1. <<p>> \in Seq(Parts) /\ Size(<<p>>) = p.to - p.from
  BY SizeOfOne
<1>2. h.kind = kind /\ h.head = head /\ h.parts = <<p>> /\ h \in Payload /\ kind # "bundle"
  <2>1. h \in Payload /\ IsHeader(h, kind, head, <<p>>)
    BY <1>1, HeaderFields
  <2> QED
    BY <2>1 DEF IsHeader
<1>3. p.to \in Int /\ p.from \in Int /\ PayloadSize \in Nat
  BY SenderAssumption DEF Parts
<1> HIDE DEF h
<1>4. Takes(h) = head + (p.to - p.from) + 0
  BY <1>1, <1>2 DEF Takes
<1>5. Takes(h) <= PayloadSize
  BY <1>3, <1>4 DEF Room
<1> QED
  BY <1>2, <1>5 DEF Fits, h

AllFit(payloads) == \A i \in DOMAIN payloads : Fits(payloads[i])
Fragments(from, to, head, first, middle, end) ==
    LET pieces == Pieces(from, to, PayloadSize - head)
    IN  [i \in DOMAIN pieces |->
            Header(IF i = 1 THEN first ELSE IF i = Len(pieces) THEN end ELSE middle,
                   head, <<pieces[i]>>)]

\* Fragments of pieces that leave room for the headers fit.
LEMMA FragmentsFit ==
  ASSUME NEW from \in Int, NEW to \in Int, NEW head \in 0 .. 4, NEW first \in Kinds,
         NEW middle \in Kinds, NEW end \in Kinds
  PROVE  /\ Fragments(from, to, head, first, middle, end) \in Seq(Payload)
         /\ AllFit(Fragments(from, to, head, first, middle, end))
<1> DEFINE size == PayloadSize - head
           pieces == Pieces(from, to, size)
           kind(i) == IF i = 1 THEN first ELSE IF i = Len(pieces) THEN end ELSE middle
           fu(i) == Header(kind(i), head, <<pieces[i]>>)
           fus == [i \in DOMAIN pieces |-> fu(i)]
<1>1. size \in Nat \ {0} /\ head \in Nat /\ PayloadSize \in Nat /\ size + head = PayloadSize
  BY SenderAssumption
<1>2. pieces \in Seq(Parts) /\ \A i \in DOMAIN pieces : pieces[i].to - pieces[i].from <= size
  BY <1>1, PiecesFit
<1> HIDE DEF size
<1>3. Len(pieces) \in Nat /\ DOMAIN pieces = 1 .. Len(pieces)
  BY <1>2, LenProperties
<1>4. ASSUME NEW i \in 1 .. Len(pieces) PROVE fu(i) \in Payload /\ Fits(fu(i))
  <2>1. kind(i) \in Kinds
    OBVIOUS
  <2>2. pieces[i] \in Parts /\ pieces[i].to - pieces[i].from <= size
    BY <1>2, <1>3, ElementOfSeq
  <2> DEFINE p == pieces[i]
  <2>3. p.to \in Int /\ p.from \in Int
    BY <2>2 DEF Parts
  <2> HIDE DEF kind, p
  <2>4. p \in Parts /\ p.to - p.from <= size
    BY <2>2 DEF p
  <2>5. Room(p, head)
    BY <1>1, <2>3, <2>4 DEF Room
  <2>6. Header(kind(i), head, <<p>>) \in Payload /\ Fits(Header(kind(i), head, <<p>>))
    BY <1>1, <2>1, <2>4, <2>5, HeaderIs
  <2> QED
    BY <2>6 DEF p
<1> HIDE DEF fu
<1>5. fus \in [1 .. Len(pieces) -> Payload]
  BY <1>3, <1>4
<1>6. \A i \in 1 .. Len(pieces) : Fits(fus[i])
  BY <1>3, <1>4
<1> HIDE DEF fus
<1>7. fus \in Seq(Payload) /\ DOMAIN fus = 1 .. Len(pieces)
  BY <1>3, <1>5, FunctionIsSeq
<1>8. \A i \in DOMAIN fus : Fits(fus[i])
  BY <1>6, <1>7
<1>9. Fragments(from, to, head, first, middle, end) = fus
  BY DEF fus, fu, size, Fragments
<1> QED
  BY <1>7, <1>8, <1>9 DEF AllFit

\* One payload that fits, as a sequence.
LEMMA SinglePayload ==
  ASSUME NEW p \in Payload, Fits(p)
  PROVE  <<p>> \in Seq(Payload) /\ AllFit(<<p>>)
BY DEF AllFit

\* A unit goes into payloads that fit, whole or in fragments,
LEMMA PayloadsFit ==
  ASSUME NEW u \in Parts
  PROVE  Payloads(u) \in Seq(Payload) /\ AllFit(Payloads(u))
<1>1. u.to \in Int /\ u.from \in Int /\ PayloadSize \in Nat /\ NalHeader \in {1, 2}
  BY SenderAssumption DEF Parts, NalHeader
<1>2. CASE u.to - u.from <= PayloadSize
  <2> DEFINE h == Header("single", 0, <<u>>)
  <2>1. Room(u, 0) /\ "single" \in Kinds /\ 0 \in Nat
    BY <1>1, <1>2 DEF Room, Kinds
  <2>2. h \in Payload /\ Fits(h)
    BY <2>1, HeaderIs
  <2>3. Payloads(u) = <<h>>
    BY <1>2 DEF Payloads
  <2> HIDE DEF h
  <2> QED
    BY <2>2, <2>3, SinglePayload
<1>3. CASE ~(u.to - u.from <= PayloadSize)
  <2> DEFINE head == NalHeader + FuHeader
             from == u.from + NalHeader
             fus == Fragments(from, u.to, head, "start", "middle", "end")
  <2>1. head \in 0 .. 4 /\ from \in Int /\ PayloadSize - NalHeader - FuHeader = PayloadSize - head
    BY <1>1 DEF FuHeader
  <2>2. Payloads(u) = fus
    BY <1>3, <2>1 DEF Payloads, divide_frame_to_fus, Fragments
  <2> HIDE DEF head, from
  <2>3. {"start", "middle", "end"} \subseteq Kinds /\ u.to \in Int
    BY <1>1 DEF Kinds
  <2>4. fus \in Seq(Payload) /\ AllFit(fus)
    BY <2>1, <2>3, FragmentsFit
  <2> QED
    BY <2>2, <2>4
<1> QED
  BY <1>2, <1>3

\* and so does a generic frame, if it may be fragmented.
LEMMA GenericPayloadsFit ==
  ASSUME NEW d \in Seq(0 .. 255), scenario.format = "generic", scenario.fragment \in BOOLEAN
  PROVE  GenericPayloads(d) \in Seq(Payload) /\ AllFit(GenericPayloads(d))
<1>1. Len(d) \in Nat /\ PayloadSize \in Nat
  BY LenProperties, SenderAssumption
<1>2. CASE ~scenario.fragment \/ Len(d) <= PayloadSize
  <2> DEFINE p == Part(0, Len(d))
             h == Header("single", 0, <<p>>)
  <2>1. p \in Parts /\ p.to = Len(d) /\ p.from = 0
    BY <1>1 DEF Part, Parts
  <2> HIDE DEF p
  <2>2. h \in Payload
    <3>1. <<p>> \in Seq(Parts) /\ "single" \in Kinds /\ 0 \in Nat
      BY <2>1, SizeOfOne DEF Kinds
    <3> QED
      BY <3>1, HeaderFields
  <2>3. Fits(h)
    <3>1. CASE ~scenario.fragment
      BY <3>1 DEF Fits
    <3>2. CASE Len(d) <= PayloadSize
      <4>1. Room(p, 0) /\ "single" \in Kinds /\ 0 \in Nat
        BY <1>1, <2>1, <3>2 DEF Room, Kinds
      <4> QED
        BY <2>1, <4>1, HeaderIs
    <3> QED
      BY <1>2, <3>1, <3>2
  <2>4. GenericPayloads(d) = <<h>>
    BY <1>2 DEF GenericPayloads, p
  <2> HIDE DEF h
  <2> QED
    BY <2>2, <2>3, <2>4, SinglePayload
<1>3. CASE ~(~scenario.fragment \/ Len(d) <= PayloadSize)
  <2> DEFINE fus == Fragments(0, Len(d), 0, "fragment", "fragment", "fragment")
  <2>1. PayloadSize - 0 = PayloadSize
    BY <1>1
  <2>2. GenericPayloads(d) = fus
    BY <1>3, <2>1 DEF GenericPayloads, Fragments
  <2>3. "fragment" \in Kinds /\ 0 \in Int /\ 0 \in 0 .. 4 /\ Len(d) \in Int
    BY <1>1 DEF Kinds
  <2>4. fus \in Seq(Payload) /\ AllFit(fus)
    BY <2>3, FragmentsFit
  <2> QED
    BY <2>2, <2>4
<1> QED
  BY <1>2, <1>3

-----------------------------------------------------------------------------
(* The packets of a transaction.                                           *)

\* What enqueue_message() makes of payloads in a transaction that has no packets.
LEMMA Enqueued ==
  ASSUME TypeInv, active.packets = <<>>,
         NEW payloads \in Seq(Payload), AllFit(payloads), enqueue_message(payloads)
  PROVE  /\ active' \in [ts : Int, packets : Seq(Packets)] /\ active'.ts = active.ts
         /\ next' \in Nat /\ next' = next + Len(payloads)
         /\ Len(active'.packets) = Len(payloads)
         /\ \A i \in DOMAIN active'.packets :
               /\ Fits(active'.packets[i]) /\ active'.packets[i].ts = active.ts
               /\ active'.packets[i].n = next + i - 1
<1> DEFINE N == Len(payloads)
           packet(i) == update_rtp_header(payloads[i], next + i - 1)
           packets == [i \in 1 .. N |-> packet(i)]
<1>1. N \in Nat /\ DOMAIN payloads = 1 .. N
  BY LenProperties
<1>2. active \in [ts : Int, packets : Seq(Packets)] /\ next \in Nat
  BY DEF TypeInv
<1> HIDE DEF N
<1>3. ASSUME NEW i \in 1 .. N
      PROVE  /\ packet(i) \in Packets /\ Fits(packet(i)) /\ packet(i).ts = active.ts
             /\ packet(i).n = next + i - 1
  <2> DEFINE p == payloads[i]
             n == next + i - 1
             q == packet(i)
  <2>1. p \in Payload
    BY <1>1, ElementOfSeq
  <2>2. Fits(p)
    BY <1>1 DEF AllFit
  <2>3. n \in Nat
    BY <1>1, <1>2
  <2> HIDE DEF p, n
  <2>4. /\ q \in Packets /\ q.n = n /\ q.ts = active.ts
        /\ q.head = p.head /\ q.parts = p.parts /\ q.kind = p.kind
    BY <1>2, <2>1, <2>3 DEF update_rtp_header, Packets, Payload, p, n
  <2> HIDE DEF q
  <2>5. Takes(q) = Takes(p)
    BY <2>4 DEF Takes
  <2>6. Fits(q)
    BY <2>2, <2>5 DEF Fits
  <2> QED
    BY <2>4, <2>6 DEF q, n
<1> HIDE DEF packet
<1>4. packets \in [1 .. N -> Packets]
  BY <1>3
<1>5. packets \in Seq(Packets) /\ Len(packets) = N /\ DOMAIN packets = 1 .. N
  <2> HIDE DEF packets
  <2> QED
    BY <1>1, <1>4, FunctionIsSeq
<1>6. enqueue_finalize(packets)
  BY <1>1 DEF enqueue_message, packet
<1>7. \A i \in 1 .. N : packets[i] = packet(i)
  OBVIOUS
<1> HIDE DEF packets
<1>8. <<>> \o packets = packets
  BY <1>5, ConcatEmptySeq
<1>9. active' = [active EXCEPT !.packets = packets] /\ next' = next + N
  BY <1>5, <1>6, <1>8 DEF enqueue_finalize
<1>10. active'.packets = packets /\ active'.ts = active.ts
       /\ active' \in [ts : Int, packets : Seq(Packets)]
  BY <1>2, <1>5, <1>9
<1>11. next' \in Nat
  BY <1>1, <1>2, <1>9
<1> QED
  BY <1>3, <1>5, <1>7, <1>9, <1>10, <1>11 DEF N

\* Indexing changes nothing else of a packet.
LEMMA IndexedIs ==
  ASSUME NEW ps \in Seq(Packets), NEW r \in Int
  PROVE  /\ Indexed(ps, r) \in Seq(Packets) /\ Len(Indexed(ps, r)) = Len(ps)
         /\ \A i \in 1 .. Len(ps) :
               /\ Takes(Indexed(ps, r)[i]) = Takes(ps[i])
               /\ Indexed(ps, r)[i].n = ps[i].n /\ Indexed(ps, r)[i].ts = ps[i].ts
               /\ Indexed(ps, r)[i].index
                    = (r + Cardinality({j \in 1 .. i - 1 : Wraps(ps[j])})) * SeqBound
                      + (ps[i].n % SeqBound)
<1> DEFINE N == Len(ps)
           wraps(i) == {j \in 1 .. i - 1 : Wraps(ps[j])}
           index(i) == (r + Cardinality(wraps(i))) * SeqBound + (ps[i].n % SeqBound)
           all == [i \in 1 .. N |-> [ps[i] EXCEPT !.index = index(i)]]
<1>1. N \in Nat /\ DOMAIN ps = 1 .. N
  BY LenProperties
<1>2. Indexed(ps, r) = all
  BY <1>1 DEF Indexed
<1> HIDE DEF N
<1>3. ASSUME NEW i \in 1 .. N PROVE index(i) \in Int
  <2>1. IsFiniteSet(wraps(i))
    <3>1. i - 1 \in Int /\ IsFiniteSet(1 .. i - 1)
      <4>1. i - 1 \in Int
        BY <1>1
      <4> QED
        BY <4>1, FS_Interval
    <3> QED
      BY <3>1, FS_Subset
  <2> DEFINE c == Cardinality(wraps(i))
  <2>2. c \in Nat
    BY <2>1, FS_CardinalityType
  <2>3. SeqBound \in Nat \ {0}
    BY SenderAssumption
  <2>4. ps[i].n \in Nat
    <3>1. ps[i] \in Packets
      BY <1>1, ElementOfSeq DEF N
    <3> QED
      BY <3>1 DEF Packets
  <2> DEFINE m == ps[i].n % SeqBound
  <2>5. m \in Int
    BY <2>3, <2>4
  <2> HIDE DEF c, m
  <2>6. (r + c) * SeqBound + m \in Int
    BY <2>2, <2>3, <2>5
  <2> QED
    BY <2>6 DEF c, m
<1> HIDE DEF index
<1>4. ASSUME NEW i \in 1 .. N
      PROVE  /\ all[i] \in Packets /\ Takes(all[i]) = Takes(ps[i])
             /\ all[i].n = ps[i].n /\ all[i].ts = ps[i].ts /\ all[i].index = index(i)
  <2> DEFINE p == ps[i]
             q == all[i]
  <2>1. p \in Packets
    BY <1>1, ElementOfSeq DEF N
  <2>2. q = [p EXCEPT !.index = index(i)]
    OBVIOUS
  <2> HIDE DEF p, q
  <2>3. /\ q \in Packets /\ q.n = p.n /\ q.ts = p.ts /\ q.index = index(i)
        /\ q.head = p.head /\ q.parts = p.parts /\ q.kind = p.kind
    BY <1>3, <2>1, <2>2 DEF Packets
  <2>4. Takes(q) = Takes(p)
    BY <2>3 DEF Takes
  <2> QED
    BY <2>3, <2>4 DEF p, q
<1>5. all \in [1 .. N -> Packets]
  BY <1>4
<1> HIDE DEF all
<1>6. all \in Seq(Packets) /\ Len(all) = N
  BY <1>1, <1>5, FunctionIsSeq
<1> QED
  BY <1>2, <1>4, <1>6 DEF N, index

Numbered(ps, k, n) == \A j \in 1 .. k : ps[j].n = n + j - 1

\* The wraps among the first packets, whose numbers follow each other.
LEMMA WrapsOfFirst ==
  ASSUME NEW ps, NEW k \in Nat, NEW n \in Nat, Numbered(ps, k, n)
  PROVE  Cardinality({j \in 1 .. k : Wraps(ps[j])}) = ((n + k) \div SeqBound) - (n \div SeqBound)
<1>1. {j \in 1 .. k : Wraps(ps[j])} = {j \in 1 .. k : (n + j - 1) % SeqBound = SeqBound - 1}
  BY DEF Wraps, Numbered
<1>2. SeqBound \in Nat \ {0}
  BY SenderAssumption
<1> QED
  BY <1>1, <1>2, WrapsCounted

\* With the right counter every packet gets the index that is its number.
LEMMA IndexIs ==
  ASSUME NEW ps \in Seq(Packets), NEW n \in Nat, Numbered(ps, Len(ps), n),
         NEW i \in 1 .. Len(ps)
  PROVE  Indexed(ps, n \div SeqBound)[i].index = ps[i].n
<1> DEFINE b == SeqBound
           r == n \div b
           c == Cardinality({j \in 1 .. i - 1 : Wraps(ps[j])})
           m == ps[i].n
<1>1. b \in Nat \ {0} /\ Len(ps) \in Nat /\ i \in Nat /\ i - 1 \in Nat
  BY SenderAssumption, LenProperties
<1>2. r \in Int
  <2> HIDE DEF b
  <2> QED
    BY <1>1
<1>3. c = ((n + (i - 1)) \div b) - r
  <2>1. Numbered(ps, i - 1, n)
    BY <1>1 DEF Numbered
  <2> QED
    BY <1>1, <2>1, WrapsOfFirst
<1>4. m = n + (i - 1) /\ m \in Nat
  BY <1>1 DEF Numbered
<1>5. Indexed(ps, r)[i].index = (r + c) * b + (m % b)
  BY <1>2, IndexedIs
<1> HIDE DEF b, r, c, m
<1>6. m \div b \in Int
  BY <1>1, <1>4
<1>7. r + c = m \div b
  BY <1>2, <1>3, <1>4, <1>6
<1>8. m = ((m \div b) * b) + (m % b)
  BY <1>1, <1>4, SMTT(60)
<1>9. Indexed(ps, r)[i].index = m
  BY <1>5, <1>7, <1>8
<1> QED
  BY <1>9 DEF r, m, b

\* What a flush, a failed one included, leaves: packets that fit, with the timestamp of the
\* frame and, if the handlers ran for all of them, the index of their number.
LEMMA Emitted ==
  ASSUME SenderInv, step = "flush", NEW k \in 0 .. Waiting, NEW s \in Nat,
         NEW sent \in [1 .. s -> 1 .. k], Emit(k, sent)
  PROVE  /\ wire' \in Seq(Packets) /\ roc' \in Nat
         /\ active' \in [ts : Int, packets : Seq(Packets)] /\ active'.packets = <<>>
         /\ \A i \in DOMAIN wire' : Fits(wire'[i]) /\ wire'[i].ts = rtp_ts
         /\ Counts /\ k = Waiting =>
               /\ roc' = next \div SeqBound
               /\ \A i \in DOMAIN wire' : wire'[i].index = wire'[i].n
<1> DEFINE all == active.packets
           ps == SubSeq(all, 1, k)
           indexed == Indexed(ps, roc)
           out == [i \in DOMAIN sent |-> indexed[sent[i]]]
           wraps == Cardinality({i \in 1 .. k : Wraps(ps[i])})
           n == next - Waiting
<1>1. /\ all \in Seq(Packets) /\ wire \in Seq(Packets) /\ roc \in Nat /\ next \in Nat
      /\ active \in [ts : Int, packets : Seq(Packets)]
  BY DEF SenderInv, TypeInv
<1>2. Waiting \in Nat /\ DOMAIN all = 1 .. Waiting /\ k \in Nat /\ k <= Waiting
  BY <1>1, LenProperties DEF Waiting
<1>3. n \in Nat
  BY <1>1, <1>2 DEF SenderInv, CountInv
<1>4. ps \in Seq(Packets) /\ Len(ps) = k /\ \A i \in 1 .. k : ps[i] = all[i]
  <2>1. \A i \in 1 .. k : all[i] \in Packets
    BY <1>1, <1>2, ElementOfSeq DEF Waiting
  <2>2. 1 \in Int /\ k \in Int
    BY <1>2
  <2>3. /\ ps \in Seq(Packets)
        /\ Len(ps) = IF 1 <= k THEN k - 1 + 1 ELSE 0
        /\ \A i \in 1 .. k - 1 + 1 : ps[i] = all[1 + i - 1]
    <3> HIDE DEF all
    <3> QED
      BY <2>1, <2>2, SubSeqProperties
  <2>4. Len(ps) = k
    BY <1>2, <2>3
  <2>5. \A i \in 1 .. k : ps[i] = all[i]
    <3> SUFFICES ASSUME NEW i \in 1 .. k PROVE ps[i] = all[i]
      OBVIOUS
    <3>1. i \in 1 .. k - 1 + 1 /\ 1 + i - 1 = i
      BY <1>2
    <3> HIDE DEF ps, all
    <3> QED
      BY <2>3, <3>1
  <2> QED
    BY <2>3, <2>4, <2>5
<1>5. \A i \in 1 .. k : Fits(ps[i]) /\ ps[i].ts = rtp_ts /\ ps[i].n = n + i - 1
  BY <1>2, <1>4 DEF SenderInv, SizeInv, TimeInv, CountInv
<1>6. Emit(k, sent)
  OBVIOUS
<1>7. /\ wire' = wire \o out /\ active' = NoTransaction
      /\ roc' = roc + (IF scenario.srtp THEN wraps ELSE 0)
  BY <1>6 DEF Emit, deinit_transaction
<1> HIDE DEF ps, n
<1>8. /\ indexed \in Seq(Packets) /\ Len(indexed) = k
      /\ \A i \in 1 .. k : Takes(indexed[i]) = Takes(ps[i]) /\ indexed[i].ts = ps[i].ts
                           /\ indexed[i].n = ps[i].n
  <2>1. roc \in Int
    BY <1>1
  <2> QED
    BY <1>4, <2>1, IndexedIs
<1> HIDE DEF indexed
<1>9. \A i \in 1 .. k : Fits(indexed[i]) /\ indexed[i].ts = rtp_ts
  BY <1>5, <1>8 DEF Fits
<1>10. /\ out \in Seq(Packets) /\ Len(out) = s
       /\ \A i \in 1 .. s : sent[i] \in 1 .. k /\ out[i] = indexed[sent[i]]
  <2>1. DOMAIN sent = 1 .. s /\ \A i \in 1 .. s : sent[i] \in 1 .. k
    OBVIOUS
  <2>2. \A i \in 1 .. k : indexed[i] \in Packets
    BY <1>8, ElementOfSeq
  <2>3. out \in [1 .. s -> Packets] /\ \A i \in 1 .. s : out[i] = indexed[sent[i]]
    BY <2>1, <2>2
  <2> HIDE DEF out
  <2> QED
    BY <2>1, <2>3, FunctionIsSeq
<1> HIDE DEF out
<1> DEFINE w == Len(wire)
<1>11. w \in Nat /\ DOMAIN wire = 1 .. w
  BY <1>1, LenProperties
<1>12. /\ wire' \in Seq(Packets) /\ DOMAIN wire' = 1 .. w + s
       /\ \A i \in 1 .. w + s : wire'[i] = IF i <= w THEN wire[i] ELSE out[i - w]
  <2>1. /\ wire \o out \in Seq(Packets) /\ Len(wire \o out) = Len(wire) + Len(out)
        /\ \A i \in 1 .. Len(wire) + Len(out) :
              (wire \o out)[i] = IF i <= Len(wire) THEN wire[i] ELSE out[i - Len(wire)]
    BY <1>1, <1>10, ConcatProperties
  <2>2. DOMAIN (wire \o out) = 1 .. Len(wire) + Len(out)
    BY <2>1, LenProperties
  <2> QED
    BY <1>7, <1>10, <2>1, <2>2
<1> HIDE DEF w
<1>13. ASSUME NEW i \in DOMAIN wire'
       PROVE  \/ i \in DOMAIN wire /\ wire'[i] = wire[i]
              \/ \E j \in 1 .. k : wire'[i] = indexed[j]
  <2>1. i \in 1 .. w + s
    BY <1>12
  <2>2. CASE i <= w
    BY <1>11, <1>12, <2>1, <2>2
  <2>3. CASE ~(i <= w)
    <3>1. i - w \in 1 .. s
      BY <1>11, <2>1, <2>3
    <3> QED
      BY <1>10, <1>12, <2>1, <2>3, <3>1
  <2> QED
    BY <2>2, <2>3
<1>14. \A i \in DOMAIN wire' : Fits(wire'[i]) /\ wire'[i].ts = rtp_ts
  <2> SUFFICES ASSUME NEW i \in DOMAIN wire' PROVE Fits(wire'[i]) /\ wire'[i].ts = rtp_ts
    OBVIOUS
  <2>1. CASE i \in DOMAIN wire /\ wire'[i] = wire[i]
    BY <2>1 DEF SenderInv, SizeInv, TimeInv
  <2>2. CASE \E j \in 1 .. k : wire'[i] = indexed[j]
    BY <1>2, <1>9, <2>2
  <2> QED
    BY <1>13, <2>1, <2>2
<1>15. wraps \in Nat
  <2>1. IsFiniteSet(1 .. k)
    BY <1>2, FS_Interval
  <2>2. IsFiniteSet({i \in 1 .. k : Wraps(ps[i])})
    BY <2>1, FS_Subset
  <2> QED
    BY <2>2, FS_CardinalityType
<1> HIDE DEF wraps
<1>16. roc' \in Nat
  BY <1>1, <1>7, <1>15
<1>17. active' \in [ts : Int, packets : Seq(Packets)] /\ active'.packets = <<>>
  BY <1>7, EmptySeq DEF NoTransaction
<1>18. ASSUME Counts, k = Waiting
       PROVE  /\ roc' = next \div SeqBound
              /\ \A i \in DOMAIN wire' : wire'[i].index = wire'[i].n
  <2>1. roc = n \div SeqBound /\ scenario.srtp
    BY <1>18 DEF SenderInv, CountInv, Counts, n
  <2>2. Numbered(ps, k, n)
    BY <1>5 DEF Numbered
  <2>3. wraps = ((n + k) \div SeqBound) - (n \div SeqBound)
    BY <1>2, <1>3, <2>2, WrapsOfFirst DEF wraps
  <2>4. n + k = next
    BY <1>1, <1>2, <1>18 DEF n
  <2>5. next \div SeqBound \in Int /\ n \div SeqBound \in Int
    <3>1. SeqBound \in Nat \ {0}
      BY SenderAssumption
    <3> QED
      BY <1>1, <1>3, <3>1
  <2>6. roc' = next \div SeqBound
    BY <1>7, <2>1, <2>3, <2>4, <2>5
  <2>7. ASSUME NEW i \in DOMAIN wire' PROVE wire'[i].index = wire'[i].n
    <3>1. CASE i \in DOMAIN wire /\ wire'[i] = wire[i]
      BY <1>18, <3>1 DEF SenderInv, CountInv
    <3>2. CASE \E j \in 1 .. k : wire'[i] = indexed[j]
      <4>1. PICK j \in 1 .. k : wire'[i] = indexed[j]
        BY <3>2
      <4>2. j \in 1 .. Len(ps) /\ j \in 1 .. k
        BY <1>2, <1>4
      <4>3. Indexed(ps, n \div SeqBound)[j].index = ps[j].n
        BY <1>3, <1>4, <2>2, <4>2, IndexIs
      <4>4. indexed[j].index = indexed[j].n
        BY <1>8, <2>1, <4>2, <4>3 DEF indexed
      <4> QED
        BY <4>1, <4>4
    <3> QED
      BY <1>13, <3>1, <3>2
  <2> QED
    BY <2>6, <2>7
<1> QED
  BY <1>12, <1>14, <1>16, <1>17, <1>18

-----------------------------------------------------------------------------
(* The invariant holds at first, and every action keeps it.                *)

Steps == {"idle", "enqueue", "aggregate", "unit", "divide", "flush"}
BundleFits(b) == b # <<>> => NalHeader + Size(b) + 2 * Len(b) <= PayloadSize

\* The parts of a scenario.
LEMMA ScenarioIs ==
  ASSUME scenario \in Scenarios
  PROVE  /\ scenario.fragment \in BOOLEAN /\ scenario.srtp \in BOOLEAN /\ scenario.paced \in BOOLEAN
         /\ scenario.frames \subseteq Seq(0 .. 255) /\ scenario.stamps \subseteq Int
BY ScenariosAssumption

\* No number below the modulus has wrapped.
LEMMA Zero ==
  ASSUME NEW b \in Nat \ {0}, NEW n \in 0 .. b - 1
  PROVE  n \div b = 0
<1>1. n = (0 * b) + n
  OBVIOUS
<1>2. \A a \in Int, c \in 0 .. b - 1 : ((a * b) + c) \div b = a
  BY SMTT(60)
<1> QED
  BY <1>1, <1>2

\* The invariant holds at first,
LEMMA StartsWithInv == Init => SenderInv
<1> SUFFICES ASSUME Init PROVE SenderInv
  OBVIOUS
<1>1. /\ scenario \in Scenarios /\ step = "idle"
      /\ frame = [octets |-> <<>>, separate |-> FALSE, whole |-> FALSE, ts |-> -1]
      /\ units = <<>> /\ bundle = <<>> /\ active = NoTransaction /\ next = First /\ roc = 0
      /\ rtp_ts = 0 /\ tick = 0 /\ wire = <<>> /\ failed = [now |-> FALSE, ever |-> FALSE]
  BY DEF Init
<1>2. First \in Nat /\ SeqBound \in Nat \ {0} /\ First \in 0 .. SeqBound - 1
  BY SenderAssumption
<1>3. active.ts = -1 /\ active.packets = <<>> /\ active \in [ts : Int, packets : Seq(Packets)]
  BY <1>1, EmptySeq DEF NoTransaction
<1>4. TypeInv
  BY <1>1, <1>2, <1>3, EmptySeq DEF TypeInv
<1>5. SizeInv
  BY <1>1, <1>3 DEF SizeInv
<1>6. TimeInv
  BY <1>1, <1>3 DEF TimeInv
<1>7. CountInv
  <2>1. Waiting = 0
    BY <1>3 DEF Waiting
  <2>2. First \div SeqBound = 0
    BY <1>2, Zero
  <2> QED
    BY <1>1, <1>2, <1>3, <2>1, <2>2 DEF CountInv
<1> QED
  BY <1>4, <1>5, <1>6, <1>7 DEF SenderInv

\* A push begins a transaction without packets; what is in units and bundle is the format's.
LEMMA PushKeeps ==
  ASSUME SenderInv, NEW d \in scenario.frames, NEW separate \in BOOLEAN, NEW whole \in BOOLEAN,
         NEW ts \in scenario.stamps, Push(d, separate, whole, ts), step' \in Steps \ {"flush"},
         units' \in Seq(Parts), bundle' \in Seq(Parts), BundleFits(bundle')
  PROVE  SenderInv'
<1> DEFINE t == NewTimestamp(FALSE)
<1>1. Push(d, separate, whole, ts)
  OBVIOUS
<1>2. /\ step = "idle" /\ frame' = [octets |-> d, separate |-> separate, whole |-> whole, ts |-> ts]
      /\ wire' = <<>> /\ failed' = [failed EXCEPT !.now = FALSE]
      /\ active' = [ts |-> t, packets |-> <<>>] /\ rtp_ts' = t
      /\ next' = next /\ roc' = roc /\ scenario' = scenario
      /\ tick' = IF FALSE \/ frame'.ts # -1 THEN tick ELSE tick + 1
  BY <1>1 DEF Push, Ready, init_transaction
<1>3. /\ scenario \in Scenarios /\ next \in Nat /\ roc \in Nat /\ tick \in Nat
      /\ failed \in [now : BOOLEAN, ever : BOOLEAN] /\ active.packets \in Seq(Packets)
  BY DEF SenderInv, TypeInv
<1>4. d \in Seq(0 .. 255) /\ ts \in Int
  BY <1>3, ScenarioIs
<1>5. frame'.ts = ts /\ t \in Int /\ (ts # -1 => t = ts) /\ tick' \in Nat
  <2>1. frame'.ts = ts
    BY <1>2
  <2>2. t = IF ts # -1 THEN ts ELSE tick + 1
    BY <2>1 DEF NewTimestamp
  <2> HIDE DEF t
  <2> QED
    BY <1>2, <1>3, <1>4, <2>1, <2>2
<1> HIDE DEF t
<1>6. /\ active'.packets = <<>> /\ active'.ts = t
      /\ active' \in [ts : Int, packets : Seq(Packets)]
  BY <1>2, <1>5, EmptySeq
<1>7. failed' \in [now : BOOLEAN, ever : BOOLEAN] /\ failed'.ever = failed.ever
  BY <1>2, <1>3
<1>8. frame' \in [octets : Seq(0 .. 255), separate : BOOLEAN, whole : BOOLEAN, ts : Int]
  BY <1>2, <1>4
<1>9. TypeInv'
  BY <1>2, <1>3, <1>5, <1>6, <1>7, <1>8, EmptySeq DEF TypeInv, Steps
<1>10. SizeInv'
  <2>1. BundleFits(bundle')
    OBVIOUS
  <2> QED
    BY <1>2, <1>6, <2>1 DEF SizeInv, BundleFits, NalHeader
<1>11. TimeInv'
  BY <1>2, <1>5, <1>6 DEF TimeInv
<1>12. CountInv'
  <2>1. active.packets = <<>>
    BY <1>2 DEF SenderInv, SizeInv
  <2>2. Waiting = 0 /\ Waiting' = 0
    BY <1>6, <2>1 DEF Waiting
  <2>3. Counts' = Counts
    BY <1>2, <1>7 DEF Counts
  <2> QED
    BY <1>2, <1>3, <1>6, <2>2, <2>3 DEF SenderInv, CountInv
<1> QED
  BY <1>9, <1>10, <1>11, <1>12 DEF SenderInv

\* The actions that enqueue: the transaction has no packets yet.
LEMMA EnqueueKeeps ==
  ASSUME SenderInv, active.packets = <<>>, active.ts = rtp_ts,
         NEW payloads \in Seq(Payload), AllFit(payloads), enqueue_message(payloads),
         step' = "flush", units' \in Seq(Parts), bundle' \in Seq(Parts), BundleFits(bundle'),
         UNCHANGED <<frame, rtp_ts, tick, roc, wire, failed, scenario>>
  PROVE  SenderInv'
<1>1. /\ active' \in [ts : Int, packets : Seq(Packets)] /\ active'.ts = active.ts
      /\ next' \in Nat /\ next' = next + Len(payloads) /\ Len(active'.packets) = Len(payloads)
      /\ \A i \in DOMAIN active'.packets :
            /\ Fits(active'.packets[i]) /\ active'.packets[i].ts = active.ts
            /\ active'.packets[i].n = next + i - 1
  BY Enqueued DEF SenderInv
<1>2. UNCHANGED <<frame, rtp_ts, tick, roc, wire, failed, scenario>>
  OBVIOUS
<1>3. TypeInv'
  BY <1>1, <1>2 DEF SenderInv, TypeInv
<1>4. SizeInv'
  <2>1. BundleFits(bundle')
    OBVIOUS
  <2>2. (\A i \in DOMAIN active.packets : Fits(active.packets[i]))'
    BY <1>1, <1>2 DEF Fits, Takes
  <2>3. (\A i \in DOMAIN wire : Fits(wire[i]))'
    BY <1>2 DEF SenderInv, SizeInv, Fits, Takes
  <2> QED
    BY <1>2, <2>1, <2>2, <2>3 DEF SizeInv, BundleFits, NalHeader
<1>5. TimeInv'
  BY <1>1, <1>2 DEF SenderInv, TimeInv
<1>6. CountInv'
  <2>1. Waiting = 0 /\ Waiting' = Len(payloads)
    BY <1>1 DEF Waiting
  <2>2. Len(payloads) \in Nat /\ next \in Nat
    BY LenProperties DEF SenderInv, TypeInv
  <2>3. next' - Waiting' = next /\ Waiting' <= next'
    BY <1>1, <2>1, <2>2
  <2>4. Counts' = Counts
    BY <1>2 DEF Counts
  <2>5. next - Waiting = next
    BY <2>1, <2>2
  <2>6. Counts' => roc' = (next' - Waiting') \div SeqBound
    BY <1>2, <2>3, <2>4, <2>5 DEF SenderInv, CountInv
  <2>7. \A i \in DOMAIN active'.packets : active'.packets[i].n = next' - Waiting' + i - 1
    BY <1>1, <2>3
  <2>8. Counts' => \A i \in DOMAIN wire' : wire'[i].index = wire'[i].n
    BY <1>2, <2>4 DEF SenderInv, CountInv
  <2> QED
    BY <2>3, <2>6, <2>7, <2>8 DEF CountInv
<1> QED
  BY <1>3, <1>4, <1>5, <1>6 DEF SenderInv

\* The actions that end a transaction in the flush, whether all was sent or not.
LEMMA FlushKeeps ==
  ASSUME SenderInv, step = "flush", NEW k \in 0 .. Waiting, NEW s \in Nat,
         NEW sent \in [1 .. s -> 1 .. k], Emit(k, sent), step' \in {"idle", "unit"}, failed' \in [now : BOOLEAN, ever : BOOLEAN],
         Counts' => Counts /\ k = Waiting
  PROVE  SenderInv'
<1>1. /\ wire' \in Seq(Packets) /\ roc' \in Nat
      /\ active' \in [ts : Int, packets : Seq(Packets)] /\ active'.packets = <<>>
      /\ \A i \in DOMAIN wire' : Fits(wire'[i]) /\ wire'[i].ts = rtp_ts
      /\ Counts /\ k = Waiting =>
            /\ roc' = next \div SeqBound
            /\ \A i \in DOMAIN wire' : wire'[i].index = wire'[i].n
  BY Emitted
<1>2. UNCHANGED <<frame, units, bundle, next, rtp_ts, tick, scenario>>
  BY DEF Emit
<1>3. TypeInv'
  BY <1>1, <1>2 DEF SenderInv, TypeInv
<1>4. SizeInv'
  <2>1. (\A i \in DOMAIN wire : Fits(wire[i]))'
    BY <1>1, <1>2 DEF Fits, Takes
  <2> QED
    BY <1>1, <1>2, <2>1 DEF SenderInv, SizeInv, NalHeader
<1>5. TimeInv'
  BY <1>1, <1>2 DEF SenderInv, TimeInv
<1>6. CountInv'
  <2>1. Waiting' = 0
    BY <1>1 DEF Waiting
  <2>2. next' \in Nat
    BY <1>2 DEF SenderInv, TypeInv
  <2>3. next' - Waiting' = next' /\ Waiting' <= next'
    <3>1. \A w, n \in Nat : w = 0 => n - w = n /\ w <= n
      OBVIOUS
    <3>2. Waiting' \in Nat
      BY <2>1
    <3> QED
      BY <2>1, <2>2, <3>1, <3>2, Zenon
  <2> QED
    BY <1>1, <1>2, <2>3 DEF CountInv
<1> QED
  BY <1>3, <1>4, <1>5, <1>6 DEF SenderInv

\* The actions that leave packets, numbers and timestamps alone.
LEMMA QuietKeeps ==
  ASSUME SenderInv, active.packets = <<>>,
         active' \in [ts : Int, packets : Seq(Packets)], active'.packets = <<>>,
         step' \in Steps \ {"flush"},
         step' \in {"enqueue", "aggregate", "divide"} => active'.ts = rtp_ts,
         units' \in Seq(Parts), bundle' \in Seq(Parts), BundleFits(bundle'),
         UNCHANGED <<frame, next, rtp_ts, tick, roc, wire, failed, scenario>>
  PROVE  SenderInv'
<1>1. UNCHANGED <<frame, next, rtp_ts, tick, roc, wire, failed, scenario>>
  OBVIOUS
<1>2. TypeInv'
  BY <1>1 DEF SenderInv, TypeInv, Steps
<1>3. SizeInv'
  <2>1. (\A i \in DOMAIN wire : Fits(wire[i]))'
    BY <1>1 DEF SenderInv, SizeInv, Fits, Takes
  <2>2. BundleFits(bundle')
    OBVIOUS
  <2> QED
    BY <1>1, <2>1, <2>2 DEF SizeInv, BundleFits, NalHeader
<1>4. TimeInv'
  BY <1>1 DEF SenderInv, TimeInv, Steps
<1>5. CountInv'
  <2>1. Waiting = 0 /\ Waiting' = 0 /\ next \in Nat
    BY DEF Waiting, SenderInv, TypeInv
  <2>2. Counts' = Counts
    BY <1>1 DEF Counts
  <2> QED
    BY <1>1, <2>1, <2>2 DEF SenderInv, CountInv
<1> QED
  BY <1>2, <1>3, <1>4, <1>5 DEF SenderInv

\* An empty bundle fits.
LEMMA EmptyBundle == BundleFits(<<>>) /\ <<>> \in Seq(Parts)
BY EmptySeq DEF BundleFits

\* and every step keeps it: a push of a generic frame,
LEMMA PushGenericKeeps ==
  ASSUME SenderInv, NEW d \in scenario.frames, NEW ts \in scenario.stamps, PushGeneric(d, ts)
  PROVE  SenderInv'
<1>1. Push(d, FALSE, FALSE, ts) /\ step' = "enqueue" /\ units' = <<>> /\ bundle' = <<>>
  BY DEF PushGeneric
<1>2. step' \in Steps \ {"flush"} /\ FALSE \in BOOLEAN /\ BundleFits(bundle')
  BY <1>1, EmptyBundle DEF Steps
<1>3. units' \in Seq(Parts) /\ bundle' \in Seq(Parts)
  BY <1>1, EmptyBundle
<1> QED
  BY <1>1, <1>2, <1>3, PushKeeps

\* (octets are numbers)
LEMMA Octets == ASSUME NEW d \in Seq(0 .. 255) PROVE d \in Seq(Int) /\ Len(d) \in Nat
<1>1. Len(d) \in Nat
  BY LenProperties
<1>2. 0 .. 255 \subseteq Int
  OBVIOUS
<1>3. d \in Seq(Int)
  BY <1>2, SeqMonotonic
<1> QED
  BY <1>1, <1>3

\* a push of a frame of NAL units,
LEMMA PushH26xKeeps ==
  ASSUME SenderInv, NEW d \in scenario.frames, NEW separate \in BOOLEAN, NEW whole \in BOOLEAN,
         NEW ts \in scenario.stamps, PushH26x(d, separate, whole, ts)
  PROVE  SenderInv'
<1> DEFINE us == IF whole \/ scenario.format = "atlas" THEN <<Part(0, Len(d))>>
                 ELSE scl(d, CodeRange)
           k == Bundled(us, separate)
<1>1. d \in Seq(0 .. 255) /\ d \in Seq(Int) /\ Len(d) \in Nat
  <2>1. d \in Seq(0 .. 255)
    BY ScenarioIs DEF SenderInv, TypeInv
  <2> QED
    BY <2>1, Octets
<1>2. us \in Seq(Parts)
  <2>1. CASE whole \/ scenario.format = "atlas"
    <3> DEFINE p == Part(0, Len(d))
    <3>1. p \in Parts
      BY <1>1 DEF Part, Parts
    <3> HIDE DEF p
    <3>2. <<p>> \in Seq(Parts)
      BY <3>1, SizeOfOne
    <3> QED
      BY <2>1, <3>2 DEF p
  <2>2. CASE ~(whole \/ scenario.format = "atlas")
    <3>1. CodeRange \in {1, 4}
      BY DEF CodeRange
    <3> QED
      BY <1>1, <2>2, <3>1, UnitsAreParts
  <2> QED
    BY <2>1, <2>2
<1>3. /\ Push(d, separate, whole, ts)
      /\ IF us = <<>>
         THEN Return("invalid") /\ units' = <<>> /\ bundle' = <<>>
         ELSE /\ step' = IF Aggregating(us, separate) THEN "aggregate" ELSE "unit"
              /\ bundle' = SubSeq(us, 1, k) /\ units' = SubSeq(us, k + 1, Len(us))
  BY DEF PushH26x
<1> HIDE DEF us
<1>4. k \in 0 .. Len(us) /\ (k = 0 \/ 1 .. k \subseteq Aggregate(us).chosen) /\ Len(us) \in Nat
  BY <1>2, BundledIs, LenProperties
<1> HIDE DEF k
<1>5. CASE us = <<>>
  <2>1. step' \in Steps \ {"flush"} /\ BundleFits(bundle')
    BY <1>3, <1>5, EmptyBundle DEF Steps, Return
  <2>2. units' \in Seq(Parts) /\ bundle' \in Seq(Parts)
    BY <1>3, <1>5, EmptyBundle
  <2> QED
    BY <1>3, <2>1, <2>2, PushKeeps
<1>6. CASE us # <<>>
  <2>1. step' \in Steps \ {"flush"}
    BY <1>3, <1>6 DEF Steps
  <2>2. k \in Nat /\ k <= Len(us)
    BY <1>4
  <2>3. bundle' \in Seq(Parts) /\ Len(bundle') = k
    <3>1. \A i \in 1 .. k : us[i] \in Parts
      BY <1>2, <1>4, <2>2, ElementOfSeq
    <3>2. 1 \in Int /\ k \in Int
      BY <2>2
    <3>3. /\ SubSeq(us, 1, k) \in Seq(Parts)
          /\ Len(SubSeq(us, 1, k)) = IF 1 <= k THEN k - 1 + 1 ELSE 0
      BY <3>1, <3>2, SubSeqProperties
    <3> QED
      BY <1>3, <1>6, <2>2, <3>3
  <2>4. units' \in Seq(Parts)
    <3>1. \A i \in k + 1 .. Len(us) : us[i] \in Parts
      BY <1>2, <1>4, <2>2, ElementOfSeq
    <3>2. k + 1 \in Int /\ Len(us) \in Int
      BY <1>4, <2>2
    <3>3. SubSeq(us, k + 1, Len(us)) \in Seq(Parts)
      BY <3>1, <3>2, SubSeqProperties
    <3> QED
      BY <1>3, <1>6, <3>3
  <2>5. BundleFits(bundle')
    <3>1. CASE k = 0
      <4>1. bundle' = <<>>
        BY <2>3, <3>1, EmptySeq
      <4> QED
        BY <4>1, EmptyBundle
    <3>2. CASE k # 0
      <4>1. k \in 1 .. Len(us) /\ 1 .. k \subseteq Aggregate(us).chosen
        BY <1>4, <2>2, <3>2
      <4>2. NalHeader + Size(SubSeq(us, 1, k)) + 2 * k <= PayloadSize
        BY <1>2, <4>1, ChosenFit
      <4> QED
        BY <1>3, <1>6, <2>3, <4>2 DEF BundleFits
    <3> QED
      BY <3>1, <3>2
  <2> QED
    BY <1>3, <2>1, <2>3, <2>4, <2>5, PushKeeps
<1> QED
  BY <1>5, <1>6

\* the packets of a generic frame,
LEMMA EnqueueGenericKeeps == ASSUME SenderInv, EnqueueGeneric, scenario.format = "generic"
  PROVE  SenderInv'
<1> DEFINE payloads == GenericPayloads(frame.octets)
<1>1. /\ step = "enqueue" /\ enqueue_message(payloads) /\ step' = "flush"
      /\ UNCHANGED <<frame, units, bundle, rtp_ts, tick, roc, wire, failed, scenario>>
  BY DEF EnqueueGeneric
<1>2. active.packets = <<>> /\ active.ts = rtp_ts
  BY <1>1 DEF SenderInv, SizeInv, TimeInv
<1>3. payloads \in Seq(Payload) /\ AllFit(payloads)
  <2>1. scenario.fragment \in BOOLEAN /\ frame.octets \in Seq(0 .. 255)
    BY ScenarioIs DEF SenderInv, TypeInv
  <2> QED
    BY <2>1, GenericPayloadsFit
<1> HIDE DEF payloads
<1>4. units' \in Seq(Parts) /\ bundle' \in Seq(Parts) /\ BundleFits(bundle')
  BY <1>1 DEF SenderInv, TypeInv, SizeInv, BundleFits
<1> QED
  BY <1>1, <1>2, <1>3, <1>4, EnqueueKeeps

\* an aggregation packet,
LEMMA AggregateKeeps == ASSUME SenderInv, finalize_aggregation_pkt PROVE SenderInv'
<1> DEFINE h == Header("bundle", NalHeader, bundle)
<1>1. /\ step = "aggregate" /\ bundle' = <<>> /\ step' = "flush"
      /\ IF Len(bundle) > 1 THEN enqueue_message(<<h>>) ELSE UNCHANGED <<active, next>>
      /\ UNCHANGED <<frame, units, rtp_ts, tick, roc, wire, failed, scenario>>
  BY DEF finalize_aggregation_pkt
<1>2. active.packets = <<>> /\ active.ts = rtp_ts
  BY <1>1 DEF SenderInv, SizeInv, TimeInv
<1>3. units' \in Seq(Parts) /\ bundle' \in Seq(Parts) /\ BundleFits(bundle')
  BY <1>1, EmptyBundle DEF SenderInv, TypeInv
<1>4. CASE Len(bundle) > 1
  <2>1. bundle \in Seq(Parts) /\ NalHeader \in Nat /\ "bundle" \in AllKinds
    BY DEF SenderInv, TypeInv, NalHeader, AllKinds
  <2>2. h \in Payload /\ h.kind = "bundle" /\ h.head = NalHeader /\ h.parts = bundle
    BY <2>1 DEF Header, Payload
  <2> HIDE DEF h
  <2>3. bundle # <<>>
    BY <1>4, <2>1, EmptySeq
  <2>4. Takes(h) <= PayloadSize
    BY <2>2, <2>3 DEF Takes, SenderInv, SizeInv
  <2>5. <<h>> \in Seq(Payload) /\ AllFit(<<h>>)
    BY <2>2, <2>4, SinglePayload DEF Fits
  <2>6. UNCHANGED <<frame, rtp_ts, tick, roc, wire, failed, scenario>> /\ enqueue_message(<<h>>)
    BY <1>1, <1>4
  <2> QED
    BY <1>1, <1>2, <1>3, <2>5, <2>6, EnqueueKeeps
<1>5. CASE ~(Len(bundle) > 1)
  <2>1. <<>> \in Seq(Payload) /\ AllFit(<<>>)
    BY EmptySeq DEF AllFit
  <2>2. enqueue_message(<<>>)
    <3>1. active' = active /\ next' = next /\ next \in Nat
          /\ active \in [ts : Int, packets : Seq(Packets)]
      BY <1>1, <1>5 DEF SenderInv, TypeInv
    <3>2. [i \in DOMAIN <<>> |-> update_rtp_header(<<>>[i], next + i - 1)] = <<>>
      OBVIOUS
    <3>3. /\ active = [active EXCEPT !.packets = <<>>]
          /\ <<>> \o <<>> = <<>>
          /\ next = next + Len(<<>>)
      BY <1>2, <3>1
    <3> QED
      BY <1>2, <3>1, <3>2, <3>3 DEF enqueue_message, enqueue_finalize
  <2> QED
    BY <1>1, <1>2, <1>3, <2>1, <2>2, EnqueueKeeps
<1> QED
  BY <1>4, <1>5

\* the transaction of the next unit,
LEMMA NextUnitKeeps == ASSUME SenderInv, NextUnit PROVE SenderInv'
<1> DEFINE t == NewTimestamp(TRUE)
<1>1. /\ step = "unit" /\ step' = "divide" /\ frame' = frame
      /\ active' = [ts |-> t, packets |-> <<>>] /\ rtp_ts' = t
      /\ tick' = IF TRUE \/ frame'.ts # -1 THEN tick ELSE tick + 1
      /\ UNCHANGED <<units, bundle, next, roc, wire, failed, scenario>>
  BY DEF NextUnit, init_transaction
<1>2. t = rtp_ts
  BY <1>1 DEF NewTimestamp, SenderInv, TimeInv
<1> HIDE DEF t
<1>3. active.packets = <<>> /\ rtp_ts \in Int
  BY <1>1 DEF SenderInv, SizeInv, TypeInv
<1>4. /\ active' \in [ts : Int, packets : Seq(Packets)]
      /\ active'.packets = <<>>
      /\ active'.ts = rtp_ts
  BY <1>1, <1>2, <1>3, EmptySeq
<1>5. UNCHANGED <<frame, next, rtp_ts, tick, roc, wire, failed, scenario>>
  BY <1>1, <1>2
<1>6. units' \in Seq(Parts) /\ bundle' \in Seq(Parts) /\ BundleFits(bundle')
  BY <1>1 DEF SenderInv, TypeInv, SizeInv, BundleFits
<1>7. step' \in Steps \ {"flush"}
  BY <1>1 DEF Steps
<1> QED
  BY <1>3, <1>4, <1>5, <1>6, <1>7, QuietKeeps

\* The empty transaction has its type.
LEMMA NoTransactionIs ==
  NoTransaction \in [ts : Int, packets : Seq(Packets)] /\ NoTransaction.packets = <<>>
BY EmptySeq DEF NoTransaction

\* the packets of a unit,
LEMMA DivideKeeps == ASSUME SenderInv, Divide, units # <<>> PROVE SenderInv'
<1> DEFINE u == Head(units)
<1>1. /\ step = "divide"
      /\ IF u.from = u.to
         THEN deinit_transaction /\ Return("invalid") /\ UNCHANGED <<next, units>>
         ELSE /\ enqueue_message(Payloads(u)) /\ units' = Tail(units)
              /\ step' = "flush" /\ UNCHANGED ret
      /\ UNCHANGED <<frame, bundle, rtp_ts, tick, roc, wire, left, failed, scenario>>
  BY DEF Divide
<1>2. units \in Seq(Parts) /\ u \in Parts /\ Tail(units) \in Seq(Parts)
  <2>1. units \in Seq(Parts)
    BY DEF SenderInv, TypeInv
  <2> QED
    BY <2>1, HeadTailProperties
<1> HIDE DEF u
<1>3. active.packets = <<>> /\ active.ts = rtp_ts
  BY <1>1 DEF SenderInv, SizeInv, TimeInv
<1>4. bundle' \in Seq(Parts) /\ BundleFits(bundle')
  BY <1>1 DEF SenderInv, TypeInv, SizeInv, BundleFits
<1>5. CASE u.from = u.to
  <2>1. active' = NoTransaction /\ step' = "idle" /\ units' = units /\ next' = next
    BY <1>1, <1>5 DEF deinit_transaction, Return
  <2>2. active' \in [ts : Int, packets : Seq(Packets)] /\ active'.packets = <<>>
    BY <2>1, NoTransactionIs
  <2>3. step' \in Steps \ {"flush"} /\ units' \in Seq(Parts)
        /\ ~(step' \in {"enqueue", "aggregate", "divide"})
    BY <1>2, <2>1 DEF Steps
  <2>4. UNCHANGED <<frame, next, rtp_ts, tick, roc, wire, failed, scenario>>
    BY <1>1, <2>1
  <2> QED
    BY <1>3, <1>4, <2>2, <2>3, <2>4, QuietKeeps
<1>6. CASE u.from # u.to
  <2>1. Payloads(u) \in Seq(Payload) /\ AllFit(Payloads(u))
    BY <1>2, PayloadsFit
  <2>2. UNCHANGED <<frame, rtp_ts, tick, roc, wire, failed, scenario>>
    BY <1>1
  <2>3. enqueue_message(Payloads(u)) /\ units' \in Seq(Parts) /\ step' = "flush"
    BY <1>1, <1>2, <1>6
  <2> QED
    BY <1>3, <1>4, <2>1, <2>2, <2>3, EnqueueKeeps
<1> QED
  BY <1>5, <1>6

\* Where a push is: only a generic frame is enqueued as a whole, and only a unit is divided.
PlaceInv ==
    /\ step = "enqueue" => scenario.format = "generic"
    /\ step = "divide" => units # <<>>

\* Where push_media_frame() is tells of the units and the format.
LEMMA PlaceKept == ASSUME PlaceInv, [Next]_vars PROVE PlaceInv'
<1>1. CASE UNCHANGED vars
  BY <1>1 DEF vars, push, PlaceInv
<1>2. ASSUME NEW d, NEW ts, PushGeneric(d, ts) PROVE PlaceInv'
  BY <1>2 DEF PushGeneric, Push, PlaceInv
<1>3. ASSUME NEW d, NEW separate, NEW whole, NEW ts, PushH26x(d, separate, whole, ts) PROVE PlaceInv'
  <2>1. step' \in {"aggregate", "unit", "idle"}
    BY <1>3, Zenon DEF PushH26x, Return
  <2> QED
    BY <2>1 DEF PlaceInv
<1>4. CASE EnqueueGeneric \/ finalize_aggregation_pkt
  BY <1>4 DEF EnqueueGeneric, finalize_aggregation_pkt, PlaceInv
<1>5. CASE NextUnit
  BY <1>5 DEF NextUnit, PlaceInv
<1>6. CASE Divide
  <2>1. step' \in {"idle", "flush"}
    BY <1>6, Zenon DEF Divide, Return
  <2> QED
    BY <2>1 DEF PlaceInv
<1>7. CASE Finish
  BY <1>7 DEF Finish, Return, PlaceInv
<1>8. CASE FlushEmpty \/ Flush \/ SendFails \/ SendFallsShort \/ PacedSendFails
  <2>1. step' \in {"idle", "unit"}
    BY <1>8 DEF FlushEmpty, Flush, SendFails, SendFallsShort, PacedSendFails, AfterFlush, Return
  <2> QED
    BY <2>1 DEF PlaceInv
<1> QED
  BY <1>1, <1>2, <1>3, <1>4, <1>5, <1>6, <1>7, <1>8 DEF Next

\* the return of a push,
LEMMA FinishKeeps == ASSUME SenderInv, Finish PROVE SenderInv'
<1>1. /\ step = "unit" /\ step' = "idle"
      /\ UNCHANGED <<frame, units, bundle, active, next, rtp_ts, tick, roc, wire, failed, scenario>>
  BY DEF Finish, Return, queue
<1>2. active.packets = <<>> /\ active \in [ts : Int, packets : Seq(Packets)]
  BY <1>1 DEF SenderInv, SizeInv, TypeInv
<1>3. active' \in [ts : Int, packets : Seq(Packets)] /\ active'.packets = <<>>
  BY <1>1, <1>2
<1>4. units' \in Seq(Parts) /\ bundle' \in Seq(Parts) /\ BundleFits(bundle')
  BY <1>1 DEF SenderInv, TypeInv, SizeInv, BundleFits
<1>5. step' \in Steps \ {"flush"} /\ ~(step' \in {"enqueue", "aggregate", "divide"})
  BY <1>1 DEF Steps
<1>6. UNCHANGED <<frame, next, rtp_ts, tick, roc, wire, failed, scenario>>
  BY <1>1
<1> QED
  BY <1>2, <1>3, <1>4, <1>5, <1>6, QuietKeeps

\* a flush of nothing,
LEMMA FlushEmptyKeeps == ASSUME SenderInv, FlushEmpty PROVE SenderInv'
<1>1. /\ active.packets = <<>> /\ active' = NoTransaction /\ step' \in {"idle", "unit"}
      /\ UNCHANGED <<frame, units, bundle, next, rtp_ts, tick, roc, wire, failed, scenario>>
  BY DEF FlushEmpty, deinit_transaction, AfterFlush, Return
<1>2. active' \in [ts : Int, packets : Seq(Packets)] /\ active'.packets = <<>>
  BY <1>1, NoTransactionIs
<1>3. units' \in Seq(Parts) /\ bundle' \in Seq(Parts) /\ BundleFits(bundle')
  BY <1>1 DEF SenderInv, TypeInv, SizeInv, BundleFits
<1>4. step' \in Steps \ {"flush"} /\ ~(step' \in {"enqueue", "aggregate", "divide"})
  BY <1>1 DEF Steps
<1>5. UNCHANGED <<frame, next, rtp_ts, tick, roc, wire, failed, scenario>>
  BY <1>1
<1> QED
  BY <1>1, <1>2, <1>3, <1>4, <1>5, QuietKeeps

\* and packets that are sent, or not.
LEMMA SendingKeeps ==
  ASSUME SenderInv, Flush \/ SendFails \/ SendFallsShort \/ PacedSendFails
  PROVE  SenderInv'
<1>1. /\ Waiting \in Nat /\ active.packets \in Seq(Packets)
      /\ failed \in [now : BOOLEAN, ever : BOOLEAN]
  <2>1. active.packets \in Seq(Packets) /\ failed \in [now : BOOLEAN, ever : BOOLEAN]
    BY DEF SenderInv, TypeInv
  <2> QED
    BY <2>1, LenProperties DEF Waiting
<1>2. CASE Flush
  <2> DEFINE sent == FirstOnes(Waiting)
  <2>1. step = "flush" /\ Emit(Waiting, sent) /\ step' \in {"idle", "unit"} /\ failed' = failed
    BY <1>2 DEF Flush, AfterFlush, Return, Waiting
  <2>2. Waiting \in 0 .. Waiting /\ sent \in [1 .. Waiting -> 1 .. Waiting]
    BY <1>1 DEF FirstOnes
  <2>3. scenario' = scenario
    BY <2>1 DEF Emit
  <2>4. Counts' => Counts /\ Waiting = Waiting
    BY <2>1, <2>3 DEF Counts
  <2>5. failed' \in [now : BOOLEAN, ever : BOOLEAN]
    BY <1>1, <2>1
  <2> QED
    BY <1>1, <2>1, <2>2, <2>4, <2>5, FlushKeeps
<1>3. CASE SendFails \/ SendFallsShort
  <2>1. PICK sent \in Sendings(Waiting) : Emit(Waiting, sent)
    BY <1>3 DEF SendFails, SendFallsShort, EncryptAll, Waiting
  <2>2. /\ step = "flush" /\ ~scenario.paced /\ step' \in {"idle", "unit"}
        /\ failed' = [now |-> TRUE, ever |-> TRUE]
    BY <1>3 DEF SendFails, SendFallsShort, AfterFlush, Return
  <2>3. PICK s \in 0 .. Waiting : sent \in [1 .. s -> 1 .. Waiting]
    BY <2>1 DEF Sendings
  <2>4. scenario' = scenario
    BY <2>1 DEF Emit
  <2>5. Counts' => Counts /\ Waiting = Waiting
    BY <2>2, <2>4 DEF Counts
  <2>6. failed' \in [now : BOOLEAN, ever : BOOLEAN]
    BY <2>2
  <2>7. Waiting \in 0 .. Waiting /\ s \in Nat
    BY <1>1
  <2> QED
    BY <2>1, <2>2, <2>3, <2>5, <2>6, <2>7, FlushKeeps
<1>4. CASE PacedSendFails
  <2>1. PICK s \in 0 .. Waiting - 1 : Emit(s + 1, FirstOnes(s))
    BY <1>4 DEF PacedSendFails, Waiting
  <2>2. /\ step = "flush" /\ scenario.paced /\ step' \in {"idle", "unit"}
        /\ failed' = [now |-> TRUE, ever |-> TRUE]
    BY <1>4 DEF PacedSendFails, AfterFlush, Return
  <2> DEFINE k == s + 1
             sent == FirstOnes(s)
  <2>3. k \in 0 .. Waiting /\ s \in Nat /\ sent \in [1 .. s -> 1 .. k] /\ Emit(k, sent)
    BY <1>1, <2>1 DEF FirstOnes
  <2> HIDE DEF k, sent
  <2>4. scenario' = scenario
    BY <2>3 DEF Emit
  <2>5. ~Counts'
    BY <2>2, <2>4 DEF Counts
  <2>6. failed' \in [now : BOOLEAN, ever : BOOLEAN]
    BY <2>2
  <2>7. Counts' => Counts /\ k = Waiting
    BY <2>5
  <2> QED
    BY <2>2, <2>3, <2>6, <2>7, FlushKeeps
<1> QED
  BY <1>2, <1>3, <1>4

\* Every step keeps the invariant.
LEMMA NextKeeps == ASSUME SenderInv, PlaceInv, [Next]_vars PROVE SenderInv'
<1>1. CASE UNCHANGED vars
  BY <1>1 DEF vars, push, queue, SenderInv, TypeInv, SizeInv, TimeInv, CountInv, Fits, Takes,
              NalHeader, Counts, Waiting
<1>2. ASSUME NEW d \in scenario.frames, NEW ts \in scenario.stamps, PushGeneric(d, ts)
      PROVE  SenderInv'
  BY <1>2, PushGenericKeeps
<1>3. ASSUME NEW d \in scenario.frames, NEW separate \in BOOLEAN, NEW whole \in BOOLEAN,
             NEW ts \in scenario.stamps, PushH26x(d, separate, whole, ts)
      PROVE  SenderInv'
  BY <1>3, PushH26xKeeps
<1>4. CASE EnqueueGeneric
  <2>1. scenario.format = "generic"
    BY <1>4 DEF EnqueueGeneric, PlaceInv
  <2> QED
    BY <1>4, <2>1, EnqueueGenericKeeps
<1>5. CASE finalize_aggregation_pkt
  BY <1>5, AggregateKeeps
<1>6. CASE NextUnit
  BY <1>6, NextUnitKeeps
<1>7. CASE Divide
  <2>1. units # <<>>
    BY <1>7 DEF Divide, PlaceInv
  <2> QED
    BY <1>7, <2>1, DivideKeeps
<1>8. CASE Finish
  BY <1>8, FinishKeeps
<1>9. CASE FlushEmpty
  BY <1>9, FlushEmptyKeeps
<1>10. CASE Flush \/ SendFails \/ SendFallsShort \/ PacedSendFails
  BY <1>10, SendingKeeps
<1> QED
  BY <1>1, <1>2, <1>3, <1>4, <1>5, <1>6, <1>7, <1>8, <1>9, <1>10 DEF Next

\* The invariant holds always.
LEMMA AlwaysSenderInv == Spec => [](SenderInv /\ PlaceInv)
<1>1. Init => SenderInv /\ PlaceInv
  <2>1. Init => PlaceInv
    BY DEF Init, PlaceInv
  <2> QED
    BY <2>1, StartsWithInv
<1>2. (SenderInv /\ PlaceInv) /\ [Next]_vars => (SenderInv /\ PlaceInv)'
  BY NextKeeps, PlaceKept
<1> QED
  BY <1>1, <1>2, PTL DEF Spec

\* However the units of a frame are bundled or fragmented, a packet fits the payload size
\* with its headers, but for generic frames that must not be fragmented, and all packets of
\* a frame have one timestamp, that of the application if it gave one: for every frame,
\* whatever its octets are (push_media_frame(), divide_frame_to_fus(), scl(), fill_header()).
THEOREM PacketsAreWellFormed == Spec => []WellFormedPackets
<1>1. ASSUME SenderInv PROVE WellFormedPackets
  <2>1. ASSUME NEW i \in DOMAIN wire
        PROVE  /\ Fits(wire[i]) /\ wire[i].ts = wire[1].ts
               /\ frame.ts # -1 => wire[i].ts = frame.ts
    <3>1. wire \in Seq(Packets)
      BY <1>1 DEF SenderInv, TypeInv
    <3>2. 1 \in DOMAIN wire
      BY <3>1, LenProperties
    <3>3. Fits(wire[i]) /\ wire[i].ts = rtp_ts /\ wire[1].ts = rtp_ts
          /\ (frame.ts # -1 => rtp_ts = frame.ts)
      BY <1>1, <3>2 DEF SenderInv, SizeInv, TimeInv
    <3> QED
      BY <3>3
  <2> QED
    BY <2>1 DEF WellFormedPackets, Fits, Takes
<1>2. SenderInv /\ PlaceInv => WellFormedPackets
  BY <1>1
<1> QED
  BY <1>2, AlwaysSenderInv, PTL

\* The rollover counter follows the sequence numbers: however many packets were encrypted
\* and never sent, and wherever in a frame the numbers wrap, the index that a packet is
\* encrypted with is its number, unless paced sending has failed (sendto(), encrypt()).
THEOREM IndexFollowsNumber == Spec => []IndexIsNumber
<1>1. SenderInv /\ PlaceInv => IndexIsNumber
  BY DEF SenderInv, CountInv, Counts, IndexIsNumber
<1> QED
  BY <1>1, AlwaysSenderInv, PTL

-----------------------------------------------------------------------------
(* The search finds the start codes.                                       *)

\* The octets of a start code.
CodeAt(d, c) == c \in 3 .. Len(d) /\ d[c - 2] = 0 /\ d[c - 1] = 0 /\ d[c] = 1

\* A start code is two zeros and a one,
LEMMA CodeOctets ==
  ASSUME NEW d \in Seq(Int), NEW c
  PROVE  c \in Codes(d) <=> CodeAt(d, c)
<1>1. Len(d) \in Nat
  BY LenProperties
<1> SUFFICES ASSUME c \in 3 .. Len(d)
             PROVE  SubSeq(d, c - 2, c) = <<0, 0, 1>> <=> d[c - 2] = 0 /\ d[c - 1] = 0 /\ d[c] = 1
  BY DEF Codes, CodeAt
<1>2. c \in Int /\ c - 2 \in Int /\ \A i \in c - 2 .. c : d[i] \in Int
  <2>1. ASSUME NEW i \in c - 2 .. c PROVE d[i] \in Int
    <3>1. i \in 1 .. Len(d)
      BY <1>1
    <3> QED
      BY <3>1, ElementOfSeq
  <2> QED
    BY <1>1, <2>1
<1> DEFINE w == SubSeq(d, c - 2, c)
<1>3. w \in Seq(Int) /\ Len(w) = 3 /\ w[1] = d[c - 2] /\ w[2] = d[c - 1] /\ w[3] = d[c]
  <2>1. /\ w \in Seq(Int)
        /\ Len(w) = IF c - 2 <= c THEN c - (c - 2) + 1 ELSE 0
        /\ \A i \in 1 .. c - (c - 2) + 1 : w[i] = d[(c - 2) + i - 1]
    BY <1>2, SubSeqProperties
  <2> QED
    BY <1>2, <2>1
<1> HIDE DEF w
<1>4. w = <<w[1], w[2], w[3]>>
  BY <1>3
<1> QED
  BY <1>3, <1>4 DEF w

\* wherever they lie in the two words of a turn.
LEMMA IsCode ==
  ASSUME NEW d \in Seq(Int), NEW p \in Nat, NEW k \in 1 .. 4, p + k \in 3 .. Len(d),
         NEW a, NEW b, a = p + k - 2, b = p + k - 1, d[a] = 0, d[b] = 0, d[p + k] = 1
  PROVE  p + k \in Codes(d)
<1>1. CodeAt(d, p + k)
  BY DEF CodeAt
<1> QED
  BY <1>1, CodeOctets

\* Two start codes are three octets apart.
LEMMA CodesApart ==
  ASSUME NEW d \in Seq(Int), NEW a \in Codes(d), NEW b \in Codes(d), a < b
  PROVE  a + 3 <= b
<1>1. CodeAt(d, a) /\ CodeAt(d, b)
  BY CodeOctets
<1>2. a \in Int /\ b \in Int /\ a # b - 1 /\ a # b - 2
  BY <1>1 DEF CodeAt
<1> QED
  BY <1>2

\* The octets of a word.
LEMMA WordIs ==
  ASSUME NEW d \in Seq(Int), NEW pos \in Nat, pos + 4 <= Len(d)
  PROVE  /\ Word(d, pos) \in Four
         /\ \A j \in 1 .. 4 : Word(d, pos)[j] = d[pos + j]
<1>1. Len(d) \in Nat
  BY LenProperties
<1>2. \A i \in pos + 1 .. pos + 4 : d[i] \in Int
  BY <1>1, ElementOfSeq
<1> DEFINE w == SubSeq(d, pos + 1, pos + 4)
<1>3. /\ w \in Seq(Int)
      /\ Len(w) = IF pos + 1 <= pos + 4 THEN pos + 4 - (pos + 1) + 1 ELSE 0
      /\ \A i \in 1 .. pos + 4 - (pos + 1) + 1 : w[i] = d[(pos + 1) + i - 1]
  BY <1>2, SubSeqProperties
<1> HIDE DEF w
<1>4. Len(w) = 4 /\ \A j \in 1 .. 4 : w[j] = d[pos + j]
  <2>1. pos + 1 <= pos + 4 /\ pos + 4 - (pos + 1) + 1 = 4
    OBVIOUS
  <2>2. \A j \in 1 .. 4 : (pos + 1) + j - 1 = pos + j
    OBVIOUS
  <2>3. Len(w) = 4 /\ \A j \in 1 .. 4 : w[j] = d[(pos + 1) + j - 1]
    BY <1>3, <2>1
  <2> QED
    BY <2>2, <2>3
<1> QED
  BY <1>3, <1>4 DEF w, Word, Four

\* A word with a zero has one in its octets.
LEMMA ZeroIn ==
  ASSUME NEW w \in Four
  PROVE  HasZero(w) <=> w[1] = 0 \/ w[2] = 0 \/ w[3] = 0 \/ w[4] = 0
<1>1. DOMAIN w = 1 .. 4
  BY LenProperties DEF Four
<1> QED
  BY <1>1 DEF HasZero

\* No octet that is skipped is a zero.
LEMMA PrefetchSkips ==
  ASSUME NEW d \in Seq(Int), NEW pos \in 0 .. Len(d)
  PROVE  /\ Prefetch(d, pos) \in pos .. Len(d)
         /\ \A i \in pos + 1 .. Prefetch(d, pos) : d[i] # 0
<1> DEFINE Stop(k) == pos + 8 * k + 8 > Len(d)
                      \/ HasZero(SubSeq(d, pos + 8 * k + 1, pos + 8 * k + 8))
           S == {k \in 0 .. Len(d) : Stop(k)}
<1>1. Len(d) \in Nat /\ pos \in Nat /\ pos <= Len(d)
  BY LenProperties
<1>2. S \in SUBSET Nat
  BY <1>1
<1>3. Len(d) \in S
  BY <1>1
<1>4. Prefetch(d, pos) = pos + 8 * Min(S)
  BY DEF Prefetch
<1>5. \A k \in 0 .. Len(d) : k \notin S => ~Stop(k)
  OBVIOUS
<1> HIDE DEF S
<1>6. \E m \in S : \A x \in S : m <= x
  BY <1>2, <1>3, Smallest
<1> DEFINE m == Min(S)
<1>7. m \in S /\ \A x \in S : m <= x
  BY <1>6 DEF Min
<1> HIDE DEF m
<1>8. m \in 0 .. Len(d)
  <2>1. m \in Nat
    BY <1>2, <1>7
  <2>2. m <= Len(d)
    BY <1>3, <1>7
  <2> QED
    BY <1>1, <2>1, <2>2
<1> HIDE DEF m
<1>9. ASSUME NEW k \in 0 .. m - 1
      PROVE  pos + 8 * k + 8 <= Len(d) /\ \A j \in 1 .. 8 : d[pos + 8 * k + j] # 0
  <2>1. k \in 0 .. Len(d) /\ ~(m <= k) /\ k \in Nat
    BY <1>1, <1>8
  <2>2. ~Stop(k)
    BY <1>5, <1>7, <2>1
  <2>3. pos + 8 * k + 8 <= Len(d)
    BY <1>1, <2>1, <2>2
  <2> DEFINE p == pos + 8 * k
             w == SubSeq(d, p + 1, p + 8)
  <2>4. p \in Nat /\ p + 8 <= Len(d)
    BY <1>1, <2>1, <2>3
  <2>5. ~HasZero(w)
    BY <2>2
  <2> HIDE DEF p
  <2>6. \A i \in p + 1 .. p + 8 : d[i] \in Int
    BY <1>1, <2>4, ElementOfSeq
  <2>7. /\ w \in Seq(Int)
        /\ Len(w) = IF p + 1 <= p + 8 THEN p + 8 - (p + 1) + 1 ELSE 0
        /\ \A i \in 1 .. p + 8 - (p + 1) + 1 : w[i] = d[(p + 1) + i - 1]
    BY <2>4, <2>6, SubSeqProperties
  <2> HIDE DEF w
  <2>8. DOMAIN w = 1 .. 8 /\ \A j \in 1 .. 8 : w[j] = d[p + j]
    <3>1. w \in Seq(Int) /\ Len(w) = 8
      BY <2>4, <2>7
    <3>2. DOMAIN w = 1 .. 8
      BY <3>1, LenProperties
    <3>3. \A j \in 1 .. 8 : (p + 1) + j - 1 = p + j /\ j \in 1 .. p + 8 - (p + 1) + 1
      BY <2>4
    <3> QED
      BY <2>7, <3>2, <3>3
  <2>9. \A j \in 1 .. 8 : d[p + j] # 0
    BY <2>5, <2>8 DEF HasZero
  <2> QED
    BY <2>3, <2>9 DEF p
<1>10. pos + 8 * m \in pos .. Len(d)
  <2>1. CASE m = 0
    BY <1>1, <2>1
  <2>2. CASE m # 0
    <3>1. m - 1 \in 0 .. m - 1
      BY <1>8, <2>2
    <3>2. pos + 8 * (m - 1) + 8 <= Len(d)
      BY <1>9, <3>1
    <3> QED
      BY <1>1, <1>8, <3>2
  <2> QED
    BY <2>1, <2>2
<1>11. ASSUME NEW i \in pos + 1 .. pos + 8 * m PROVE d[i] # 0
  <2> DEFINE k == (i - pos - 1) \div 8
             j == i - pos - 8 * k
  <2>1. k \in 0 .. m - 1 /\ j \in 1 .. 8 /\ i = pos + 8 * k + j
    BY <1>1, <1>8
  <2> HIDE DEF k, j
  <2> QED
    BY <1>9, <2>1
<1> QED
  BY <1>4, <1>10, <1>11 DEF m

\* The word before shows the zeros in front of a position, and none before the offset.
Seen(d, offset, pos, prev) ==
    \A j \in 1 .. 4 : prev[j] = 0 <=> pos - 4 + j > offset /\ d[pos - 4 + j] = 0

\* No start code ends behind from and up to to.
NoneIn(d, from, to) == \A c \in Codes(d) : ~(from < c /\ c <= to)

\* A search may start behind a start code.
MayStart(d, offset) == offset \in 0 .. Len(d) /\ (offset # 0 => d[offset] # 0)

\* With steps of one octet, three are known.
Ahead(range) == IF range = 1 THEN 2 ELSE 0

\* What a search that goes on has seen.
Goes(d, offset, range, s) ==
    /\ s.pos \in offset .. Len(d) /\ s.prev \in Four /\ s.zeros \in BOOLEAN
    /\ Seen(d, offset, s.pos, s.prev)
    /\ ~s.zeros => ~HasZero(s.prev)
    /\ NoneIn(d, offset, s.pos + Ahead(range))

\* What it has found.
PrefixAt(d, offset, c) == IF c - 3 >= offset + 1 /\ d[c - 3] = 0 THEN 4 ELSE 3
FoundNext(d, offset, f) ==
    /\ f.pos \in Codes(d) /\ offset < f.pos /\ NoneIn(d, offset, f.pos - 1)
    /\ f.prefix = PrefixAt(d, offset, f.pos)

At(d, s) == IF s.zeros THEN s.pos ELSE Prefetch(d, s.pos)

\* The octets of a start code that ends behind the offset are behind it.
LEMMA CodeBehind ==
  ASSUME NEW d \in Seq(Int), NEW offset, MayStart(d, offset), NEW c \in Codes(d), offset < c
  PROVE  offset < c - 2 /\ CodeAt(d, c) /\ c \in Nat
<1>1. CodeAt(d, c)
  BY CodeOctets
<1>2. c \in Nat /\ offset \in Nat /\ c >= 3
  BY <1>1, LenProperties DEF CodeAt, MayStart
<1>3. offset # c - 2 /\ offset # c - 1
  BY <1>1, <1>2 DEF CodeAt, MayStart
<1> QED
  BY <1>1, <1>2, <1>3

\* Where the search looks next it has seen as much.
LEMMA SkipGoes ==
  ASSUME NEW d \in Seq(Int), NEW offset, MayStart(d, offset), NEW range \in {1, 4}, NEW s,
         Goes(d, offset, range, s)
  PROVE  /\ At(d, s) \in s.pos .. Len(d)
         /\ Seen(d, offset, At(d, s), s.prev)
         /\ NoneIn(d, offset, At(d, s) + Ahead(range))
<1> DEFINE p == At(d, s)
<1>1. Len(d) \in Nat /\ offset \in Nat /\ s.pos \in Nat /\ offset <= s.pos /\ s.pos <= Len(d)
  BY LenProperties DEF Goes, MayStart
<1>2. CASE s.zeros
  BY <1>1, <1>2 DEF At, Goes
<1>3. CASE ~s.zeros
  <2>1. s.pos \in 0 .. Len(d)
    BY <1>1
  <2>2. p \in s.pos .. Len(d) /\ \A i \in s.pos + 1 .. p : d[i] # 0
    BY <1>3, <2>1, PrefetchSkips DEF At
  <2> HIDE DEF p
  <2>3. s.prev \in Four /\ ~HasZero(s.prev)
    BY <1>3 DEF Goes
  <2>4. \A j \in 1 .. 4 : s.prev[j] # 0
    BY <2>3, ZeroIn
  <2>5. \A i \in s.pos - 3 .. s.pos : ~(i > offset /\ d[i] = 0)
    <3> SUFFICES ASSUME NEW i \in s.pos - 3 .. s.pos PROVE ~(i > offset /\ d[i] = 0)
      OBVIOUS
    <3>1. \E j \in 1 .. 4 : s.pos - 4 + j = i
      <4> DEFINE q == s.pos
      <4>1. q \in Nat /\ i \in q - 3 .. q
        BY <1>1
      <4> HIDE DEF q
      <4>2. i - q + 4 \in 1 .. 4 /\ q - 4 + (i - q + 4) = i
        BY <4>1
      <4>3. \E j \in 1 .. 4 : q - 4 + j = i
        BY <4>2
      <4> QED
        BY <4>3 DEF q
    <3> QED
      BY <2>4, <3>1 DEF Goes, Seen
  <2>6. \A i \in s.pos - 3 .. p : ~(i > offset /\ d[i] = 0)
    <3> SUFFICES ASSUME NEW i \in s.pos - 3 .. p PROVE ~(i > offset /\ d[i] = 0)
      OBVIOUS
    <3>1. i \in s.pos - 3 .. s.pos \/ i \in s.pos + 1 .. p
      BY <1>1, <2>2
    <3> QED
      BY <2>2, <2>5, <3>1
  <2>7. Seen(d, offset, p, s.prev)
    <3>1. \A j \in 1 .. 4 : p - 4 + j \in s.pos - 3 .. p
      BY <1>1, <2>2
    <3> QED
      BY <2>4, <2>6, <3>1 DEF Seen
  <2>8. NoneIn(d, offset, p + Ahead(range))
    <3> SUFFICES ASSUME NEW c \in Codes(d), offset < c, c <= p + Ahead(range) PROVE FALSE
      BY DEF NoneIn
    <3>1. offset < c - 2 /\ CodeAt(d, c) /\ c \in Nat
      BY CodeBehind
    <3>2. ~(c <= s.pos + Ahead(range))
      BY DEF Goes, NoneIn
    <3>3. d[c - 2] = 0 /\ d[c - 1] = 0
      BY <3>1 DEF CodeAt
    <3>4. CASE range = 1
      <4>1. c - 2 \in s.pos - 3 .. p /\ c - 2 > offset
        BY <1>1, <2>2, <3>1, <3>2, <3>4 DEF Ahead
      <4> QED
        BY <2>6, <3>3, <4>1
    <3>5. CASE range = 4
      <4>1. c - 1 \in s.pos - 3 .. p /\ c - 1 > offset
        BY <1>1, <2>2, <3>1, <3>2, <3>5 DEF Ahead
      <4> QED
        BY <2>6, <3>3, <4>1
    <3> QED
      BY <3>4, <3>5
  <2> QED
    BY <2>2, <2>7, <2>8 DEF p
<1> QED
  BY <1>2, <1>3

\* A start code that ends in a word is seen from it and the word before.
LEMMA CodeIsSeen ==
  ASSUME NEW d \in Seq(Int), NEW offset, MayStart(d, offset),
         NEW p \in Nat, p + 4 <= Len(d), NEW prev \in Four, Seen(d, offset, p, prev),
         NEW c \in Codes(d), offset < c, p < c, c <= p + 4
  PROVE  (HasZero(prev) \/ HasZero(Word(d, p))) /\ StartCode(prev, Word(d, p)) # {}
<1> DEFINE cur == Word(d, p)
<1>1. Len(d) \in Nat /\ offset \in Nat
  BY LenProperties DEF MayStart
<1>2. offset < c - 2 /\ CodeAt(d, c) /\ c \in Nat
  BY CodeBehind
<1>3. d[c - 2] = 0 /\ d[c - 1] = 0 /\ d[c] = 1
  BY <1>2 DEF CodeAt
<1>4. /\ cur \in Four /\ cur[1] = d[p + 1] /\ cur[2] = d[p + 2]
      /\ cur[3] = d[p + 3] /\ cur[4] = d[p + 4]
  <2>1. cur \in Four /\ \A j \in 1 .. 4 : cur[j] = d[p + j]
    BY WordIs
  <2> HIDE DEF cur
  <2> QED
    BY <2>1
<1> HIDE DEF cur
<1>5. /\ prev[4] = 0 <=> p > offset /\ d[p] = 0
      /\ prev[3] = 0 <=> p - 1 > offset /\ d[p - 1] = 0
  <2>1. p - 4 + 4 = p /\ p - 4 + 3 = p - 1
    OBVIOUS
  <2> QED
    BY <2>1 DEF Seen
<1>6. c = p + 1 \/ c = p + 2 \/ c = p + 3 \/ c = p + 4
  BY <1>2
<1>7. CASE c = p + 1
  <2>1. prev[3] = 0 /\ prev[4] = 0 /\ cur[1] = 1
    <3>1. c - 2 = p - 1 /\ c - 1 = p /\ p > offset /\ p - 1 > offset
      BY <1>1, <1>2, <1>7
    <3> QED
      BY <1>3, <1>4, <1>5, <1>7, <3>1
  <2>2. HasZero(prev)
    BY <2>1, ZeroIn
  <2>3. LastOctet(prev, cur) # {}
    BY <2>1, <2>2 DEF LastOctet
  <2> QED
    BY <2>2, <2>3 DEF StartCode, cur
<1>8. CASE c = p + 2
  <2>1. prev[4] = 0 /\ cur[1] = 0 /\ cur[2] = 1
    BY <1>2, <1>3, <1>4, <1>5, <1>8
  <2>2. HasZero(prev)
    BY <2>1, ZeroIn
  <2>3. Split(prev, cur) # {}
    BY <2>1 DEF Split
  <2> QED
    BY <2>2, <2>3 DEF StartCode, cur
<1>9. CASE c = p + 3
  <2>1. cur[1] = 0 /\ cur[2] = 0 /\ cur[3] = 1
    BY <1>3, <1>4, <1>9
  <2>2. HasZero(cur) /\ cur # <<0, 0, 0, 1>>
    BY <1>4, <2>1, ZeroIn
  <2>3. determine_start_prefix_precense(prev, cur) # {}
    BY <2>1, <2>2 DEF determine_start_prefix_precense
  <2> QED
    BY <2>2, <2>3 DEF StartCode, cur
<1>10. CASE c = p + 4
  <2>1. cur[2] = 0 /\ cur[3] = 0 /\ cur[4] = 1
    BY <1>3, <1>4, <1>10
  <2>2. HasZero(cur)
    BY <1>4, <2>1, ZeroIn
  <2>3. cur = <<cur[1], 0, 0, 1>> /\ Tail(cur) = <<0, 0, 1>>
    <3>1. cur \in Seq(Int) /\ Len(cur) = 4
      BY <1>4 DEF Four
    <3>2. cur = <<cur[1], cur[2], cur[3], cur[4]>>
      BY <3>1
    <3>3. cur = <<cur[1], 0, 0, 1>>
      BY <2>1, <3>2
    <3>4. Tail(<<cur[1], 0, 0, 1>>) = <<0, 0, 1>>
      OBVIOUS
    <3> QED
      BY <3>3, <3>4
  <2>4. determine_start_prefix_precense(prev, cur) # {}
    <3>1. CASE cur[1] = 0
      <4>1. cur = <<0, 0, 0, 1>>
        BY <2>3, <3>1
      <4> QED
        BY <2>1, <4>1 DEF determine_start_prefix_precense
    <3>2. CASE cur[1] # 0
      BY <2>3, <3>2 DEF determine_start_prefix_precense
    <3> QED
      BY <3>1, <3>2
  <2> QED
    BY <2>2, <2>4 DEF StartCode, cur
<1> QED
  BY <1>6, <1>7, <1>8, <1>9, <1>10

\* What the code makes of two words: where the start code ends, and its length.
LEMMA SeenIsCode ==
  ASSUME NEW d \in Seq(Int), NEW offset, MayStart(d, offset),
         NEW p \in offset .. Len(d), p + 4 <= Len(d), NEW prev \in Four, Seen(d, offset, p, prev),
         NEW c \in StartCode(prev, Word(d, p))
  PROVE  /\ c[1] \in 1 .. 4 /\ p + c[1] \in Codes(d) /\ offset < p + c[1]
         /\ c[2] = PrefixAt(d, offset, p + c[1])
         /\ LastOctet(prev, Word(d, p)) # {} => c[1] = 1
<1> DEFINE cur == Word(d, p)
<1>1. Len(d) \in Nat /\ offset \in Nat /\ p \in Nat /\ offset <= p
  BY LenProperties DEF MayStart
<1>2. /\ cur \in Four /\ cur[1] = d[p + 1] /\ cur[2] = d[p + 2]
      /\ cur[3] = d[p + 3] /\ cur[4] = d[p + 4]
  <2>1. cur \in Four /\ \A j \in 1 .. 4 : cur[j] = d[p + j]
    BY <1>1, WordIs
  <2> HIDE DEF cur
  <2> QED
    BY <2>1
<1>3. c \in StartCode(prev, cur)
  OBVIOUS
<1> HIDE DEF cur
<1>4. /\ prev[4] = 0 <=> p > offset /\ d[p] = 0
      /\ prev[3] = 0 <=> p - 1 > offset /\ d[p - 1] = 0
      /\ prev[2] = 0 <=> p - 2 > offset /\ d[p - 2] = 0
  <2>1. p - 4 + 4 = p /\ p - 4 + 3 = p - 1 /\ p - 4 + 2 = p - 2
    BY <1>1
  <2> QED
    BY <2>1 DEF Seen
<1>5. CASE LastOctet(prev, cur) # {}
  <2>1. c \in LastOctet(prev, cur)
    BY <1>3, <1>5 DEF StartCode
  <2>2. /\ cur[1] = 1 /\ prev[3] = 0 /\ prev[4] = 0
        /\ c = <<1, IF prev[2] = 0 THEN 4 ELSE 3>>
    BY <2>1 DEF LastOctet
  <2>3. c[1] = 1 /\ c[2] = IF prev[2] = 0 THEN 4 ELSE 3
    BY <2>2
  <2>4. offset < p + 1
    BY <1>1
  <2>5. p + 1 \in Codes(d)
    <3>1. d[p - 1] = 0 /\ d[p] = 0 /\ d[p + 1] = 1
      BY <1>2, <1>4, <2>2
    <3>2. p - 1 = p + 1 - 2 /\ p = p + 1 - 1 /\ p + 1 \in 3 .. Len(d) /\ p \in Nat /\ 1 \in 1 .. 4
      BY <1>1, <1>4, <2>2
    <3> QED
      BY <3>1, <3>2, IsCode
  <2>6. PrefixAt(d, offset, p + 1) = IF prev[2] = 0 THEN 4 ELSE 3
    <3>1. p + 1 - 3 = p - 2 /\ (p - 2 >= offset + 1 <=> p - 2 > offset)
      BY <1>1
    <3> QED
      BY <1>4, <3>1 DEF PrefixAt
  <2> QED
    BY <2>3, <2>4, <2>5, <2>6 DEF cur
<1>6. CASE LastOctet(prev, cur) = {}
  <2>1. c \in determine_start_prefix_precense(prev, cur) \/ c \in Split(prev, cur)
    BY <1>3, <1>6 DEF StartCode
  <2>2. CASE c \in Split(prev, cur)
    <3>1. /\ prev[4] = 0 /\ cur[1] = 0 /\ cur[2] = 1
          /\ c = <<2, IF prev[3] = 0 THEN 4 ELSE 3>>
      BY <2>2 DEF Split
    <3>2. c[1] = 2 /\ c[2] = IF prev[3] = 0 THEN 4 ELSE 3
      BY <3>1
    <3>3. offset < p + 2
      BY <1>1
    <3>4. p + 2 \in Codes(d)
      <4>1. d[p] = 0 /\ d[p + 1] = 0 /\ d[p + 2] = 1
        BY <1>2, <1>4, <3>1
      <4>2. p = p + 2 - 2 /\ p + 1 = p + 2 - 1 /\ p + 2 \in 3 .. Len(d) /\ p \in Nat /\ 2 \in 1 .. 4
        BY <1>1, <1>4, <3>1
      <4> QED
        BY <4>1, <4>2, IsCode
    <3>5. PrefixAt(d, offset, p + 2) = IF prev[3] = 0 THEN 4 ELSE 3
      <4>1. p + 2 - 3 = p - 1 /\ (p - 1 >= offset + 1 <=> p - 1 > offset)
        BY <1>1
      <4> QED
        BY <1>4, <4>1 DEF PrefixAt
    <3> QED
      BY <1>6, <3>2, <3>3, <3>4, <3>5 DEF cur
  <2>3. CASE c \in determine_start_prefix_precense(prev, cur)
    <3>1. CASE cur = <<0, 0, 0, 1>>
      <4>1. c = <<4, 4>> /\ cur[1] = 0 /\ cur[2] = 0 /\ cur[3] = 0 /\ cur[4] = 1
        BY <2>3, <3>1 DEF determine_start_prefix_precense
      <4>2. c[1] = 4 /\ c[2] = 4
        BY <4>1
      <4>3. offset < p + 4
        BY <1>1
      <4>4. p + 4 \in Codes(d)
        <5>1. d[p + 2] = 0 /\ d[p + 3] = 0 /\ d[p + 4] = 1
          BY <1>2, <4>1
        <5>2. p + 2 = p + 4 - 2 /\ p + 3 = p + 4 - 1 /\ p + 4 \in 3 .. Len(d) /\ p \in Nat /\ 4 \in 1 .. 4
          BY <1>1
        <5> QED
          BY <5>1, <5>2, IsCode
      <4>5. PrefixAt(d, offset, p + 4) = 4
        <5>1. p + 4 - 3 = p + 1 /\ p + 1 >= offset + 1 /\ d[p + 1] = 0
          BY <1>1, <1>2, <4>1
        <5> QED
          BY <5>1 DEF PrefixAt
      <4> QED
        BY <1>6, <4>2, <4>3, <4>4, <4>5 DEF cur
    <3>2. CASE cur[1] = 0 /\ cur[2] = 0 /\ cur[3] = 1
      <4>1. cur # <<0, 0, 0, 1>>
        BY <3>2
      <4>2. c = <<3, IF prev[4] = 0 THEN 4 ELSE 3>>
        BY <2>3, <3>2, <4>1 DEF determine_start_prefix_precense
      <4>3. c[1] = 3 /\ c[2] = IF prev[4] = 0 THEN 4 ELSE 3
        BY <4>2
      <4>4. offset < p + 3
        BY <1>1
      <4>5. p + 3 \in Codes(d)
        <5>1. d[p + 1] = 0 /\ d[p + 2] = 0 /\ d[p + 3] = 1
          BY <1>2, <3>2
        <5>2. p + 1 = p + 3 - 2 /\ p + 2 = p + 3 - 1 /\ p + 3 \in 3 .. Len(d) /\ p \in Nat /\ 3 \in 1 .. 4
          BY <1>1
        <5> QED
          BY <5>1, <5>2, IsCode
      <4>6. PrefixAt(d, offset, p + 3) = IF prev[4] = 0 THEN 4 ELSE 3
        <5>1. p + 3 - 3 = p /\ (p >= offset + 1 <=> p > offset)
          BY <1>1
        <5> QED
          BY <1>4, <5>1 DEF PrefixAt
      <4> QED
        BY <1>6, <4>3, <4>4, <4>5, <4>6 DEF cur
    <3>3. CASE cur # <<0, 0, 0, 1>> /\ ~(cur[1] = 0 /\ cur[2] = 0 /\ cur[3] = 1)
      <4>1. cur[1] # 0 /\ Tail(cur) = <<0, 0, 1>> /\ c = <<4, 3>>
        BY <2>3, <3>3 DEF determine_start_prefix_precense
      <4>2. c[1] = 4 /\ c[2] = 3
        BY <4>1
      <4>3. cur[2] = 0 /\ cur[3] = 0 /\ cur[4] = 1
        <5>1. cur \in Seq(Int) /\ Len(cur) = 4
          BY <1>2 DEF Four
        <5>2. cur # <<>>
          <6>1. Len(<<>>) = 0 /\ Len(cur) # 0
            BY <5>1
          <6> QED
            BY <6>1, Zenon
        <5> DEFINE w == Tail(cur)
        <5>3. Len(w) = Len(cur) - 1 /\ \A i \in 1 .. Len(w) : w[i] = cur[i + 1]
          BY <5>1, <5>2, HeadTailProperties
        <5>4. w = <<0, 0, 1>>
          BY <4>1
        <5> HIDE DEF w
        <5>5. w[1] = 0 /\ w[2] = 0 /\ w[3] = 1
          BY <5>4
        <5>6. w[1] = cur[2] /\ w[2] = cur[3] /\ w[3] = cur[4]
          <6>1. Len(w) = 3
            BY <5>1, <5>3
          <6>2. \A i \in 1 .. 3 : w[i] = cur[i + 1]
            BY <5>3, <6>1
          <6>3. 1 + 1 = 2 /\ 2 + 1 = 3 /\ 3 + 1 = 4 /\ 1 \in 1 .. 3 /\ 2 \in 1 .. 3 /\ 3 \in 1 .. 3
            OBVIOUS
          <6> QED
            BY <6>2, <6>3, Zenon
        <5> QED
          BY <5>5, <5>6
      <4>4. offset < p + 4
        BY <1>1
      <4>5. p + 4 \in Codes(d)
        <5>1. d[p + 2] = 0 /\ d[p + 3] = 0 /\ d[p + 4] = 1
          BY <1>2, <4>3
        <5>2. p + 2 = p + 4 - 2 /\ p + 3 = p + 4 - 1 /\ p + 4 \in 3 .. Len(d) /\ p \in Nat /\ 4 \in 1 .. 4
          BY <1>1
        <5> QED
          BY <5>1, <5>2, IsCode
      <4>6. PrefixAt(d, offset, p + 4) = 3
        <5>1. p + 4 - 3 = p + 1
          BY <1>1
        <5> QED
          BY <1>2, <4>1, <5>1 DEF PrefixAt
      <4> QED
        BY <1>6, <4>2, <4>4, <4>5, <4>6 DEF cur
    <3> QED
      BY <3>1, <3>2, <3>3
  <2> QED
    BY <2>1, <2>2, <2>3
<1> QED
  BY <1>5, <1>6

\* Two words one after the other.
LEMMA TwoWords ==
  ASSUME NEW prev \in Four, NEW cur \in Four
  PROVE  /\ prev \o cur \in Seq(Int) /\ Len(prev \o cur) = 8
         /\ \A i \in 1 .. 8 : (prev \o cur)[i] = IF i <= 4 THEN prev[i] ELSE cur[i - 4]
<1>1. prev \in Seq(Int) /\ cur \in Seq(Int) /\ Len(prev) = 4 /\ Len(cur) = 4
  BY DEF Four
<1> DEFINE w == prev \o cur
<1>2. /\ w \in Seq(Int) /\ Len(w) = Len(prev) + Len(cur)
      /\ \A i \in 1 .. Len(prev) + Len(cur) :
            w[i] = IF i <= Len(prev) THEN prev[i] ELSE cur[i - Len(prev)]
  BY <1>1, ConcatProperties
<1>3. Len(prev) + Len(cur) = 8
  BY <1>1
<1> HIDE DEF w
<1> SUFFICES w \in Seq(Int) /\ Len(w) = 8
             /\ \A i \in 1 .. 8 : w[i] = IF i <= 4 THEN prev[i] ELSE cur[i - 4]
  BY DEF w
<1> QED
  BY <1>1, <1>2, <1>3

\* A turn that finds a start code finds the next one.
LEMMA TurnFinds ==
  ASSUME NEW d \in Seq(Int), NEW offset, MayStart(d, offset), NEW range \in {1, 4}, NEW s,
         Goes(d, offset, range, s), At(d, s) + 4 <= Len(d),
         NEW c \in StartCode(s.prev, Word(d, At(d, s)))
  PROVE  FoundNext(d, offset, Found(At(d, s) + c[1], c[2]))
<1> DEFINE p == At(d, s)
           prev == s.prev
<1>1. /\ Len(d) \in Nat /\ offset \in Nat /\ p \in offset .. Len(d) /\ p \in Nat
      /\ prev \in Four /\ Seen(d, offset, p, prev) /\ NoneIn(d, offset, p + Ahead(range))
  <2>1. p \in s.pos .. Len(d) /\ Seen(d, offset, p, prev) /\ NoneIn(d, offset, p + Ahead(range))
    BY SkipGoes
  <2>2. s.pos \in offset .. Len(d) /\ prev \in Four
    BY DEF Goes
  <2> HIDE DEF p
  <2>3. Len(d) \in Nat /\ offset \in Nat
    BY LenProperties DEF MayStart
  <2> QED
    BY <2>1, <2>2, <2>3
<1>2. p + 4 <= Len(d) /\ c \in StartCode(prev, Word(d, p))
  OBVIOUS
<1> HIDE DEF p, prev
<1>3. /\ c[1] \in 1 .. 4 /\ p + c[1] \in Codes(d) /\ offset < p + c[1]
      /\ c[2] = PrefixAt(d, offset, p + c[1])
      /\ LastOctet(prev, Word(d, p)) # {} => c[1] = 1
  <2>1. p \in offset .. Len(d) /\ prev \in Four /\ Seen(d, offset, p, prev)
    BY <1>1
  <2> QED
    BY <1>2, <2>1, SeenIsCode
<1>4. NoneIn(d, offset, p + c[1] - 1)
  <2> SUFFICES ASSUME NEW x \in Codes(d), offset < x, x <= p + c[1] - 1 PROVE FALSE
    BY DEF NoneIn
  <2>1. offset < x - 2 /\ CodeAt(d, x) /\ x \in Nat
    BY CodeBehind
  <2>2. ~(x <= p + Ahead(range)) /\ Ahead(range) \in {0, 2}
    BY <1>1 DEF NoneIn, Ahead
  <2>3. x < p + c[1]
    BY <1>1, <1>3, <2>1
  <2>4. x + 3 <= p + c[1]
    BY <1>3, <2>3, CodesApart
  <2>5. x = p + 1 /\ c[1] = 4
    BY <1>1, <1>3, <2>1, <2>2, <2>4
  <2>6. d[p - 1] = 0 /\ d[p] = 0 /\ d[p + 1] = 1 /\ p - 1 > offset
    BY <1>1, <2>1, <2>5 DEF CodeAt
  <2>7. prev[3] = 0 /\ prev[4] = 0 /\ HasZero(prev)
    <3>1. p - 4 + 4 = p /\ p - 4 + 3 = p - 1 /\ p > offset
      BY <1>1, <2>6
    <3>2. prev[3] = 0 /\ prev[4] = 0
      BY <1>1, <2>6, <3>1 DEF Seen
    <3> QED
      BY <1>1, <3>2, ZeroIn
  <2>8. Word(d, p)[1] = 1
    <3>1. \A j \in 1 .. 4 : Word(d, p)[j] = d[p + j]
      BY <1>1, <1>2, WordIs
    <3> QED
      BY <2>6, <3>1
  <2>9. LastOctet(prev, Word(d, p)) # {}
    BY <2>7, <2>8 DEF LastOctet
  <2> QED
    BY <1>3, <2>5, <2>9
<1> DEFINE f == Found(p + c[1], c[2])
<1>5. f.pos = p + c[1] /\ f.prefix = c[2]
  BY DEF Found
<1> HIDE DEF f
<1>6. FoundNext(d, offset, f)
  <2>1. NoneIn(d, offset, f.pos - 1)
    <3> DEFINE q == f.pos
               k == c[1]
    <3>1. q = p + k /\ p \in Nat /\ k \in 1 .. 4
      BY <1>1, <1>3, <1>5
    <3>2. NoneIn(d, offset, p + k - 1)
      BY <1>4
    <3> HIDE DEF q, k
    <3>3. q - 1 = p + k - 1
      BY <3>1
    <3>4. NoneIn(d, offset, q - 1)
      BY <3>2, <3>3
    <3> QED
      BY <3>4 DEF q
  <2>2. f.pos \in Codes(d) /\ offset < f.pos
    BY <1>3, <1>5, Zenon
  <2>3. f.prefix = PrefixAt(d, offset, f.pos)
    BY <1>3, <1>5, Zenon
  <2> QED
    BY <2>1, <2>2, <2>3 DEF FoundNext
<1> QED
  BY <1>6 DEF f, p

\* A turn that finds none goes on.
LEMMA TurnMisses ==
  ASSUME NEW d \in Seq(Int), NEW offset, MayStart(d, offset), NEW range \in {1, 4}, NEW s,
         Goes(d, offset, range, s), At(d, s) + 4 <= Len(d),
         ~((HasZero(s.prev) \/ HasZero(Word(d, At(d, s))))
              /\ StartCode(s.prev, Word(d, At(d, s))) # {}),
         NEW t, t.pos = At(d, s) + range, t.prev = Shift(s.prev, Word(d, At(d, s)), range),
         t.zeros = (HasZero(t.prev) \/ HasZero(Word(d, At(d, s))))
  PROVE  Goes(d, offset, range, t) /\ t.pos >= s.pos + range
<1> DEFINE p == At(d, s)
           prev == s.prev
           cur == Word(d, p)
<1>1. /\ Len(d) \in Nat /\ offset \in Nat /\ p \in s.pos .. Len(d) /\ p \in Nat /\ s.pos \in Nat
      /\ offset <= s.pos /\ prev \in Four /\ Seen(d, offset, p, prev)
      /\ NoneIn(d, offset, p + Ahead(range))
  <2>1. p \in s.pos .. Len(d) /\ Seen(d, offset, p, prev) /\ NoneIn(d, offset, p + Ahead(range))
    BY SkipGoes
  <2>2. s.pos \in offset .. Len(d) /\ prev \in Four
    BY DEF Goes
  <2> HIDE DEF p
  <2>3. Len(d) \in Nat /\ offset \in Nat
    BY LenProperties DEF MayStart
  <2> QED
    BY <2>1, <2>2, <2>3
<1>2. /\ p + 4 <= Len(d) /\ ~((HasZero(prev) \/ HasZero(cur)) /\ StartCode(prev, cur) # {})
      /\ t.pos = p + range /\ t.prev = Shift(prev, cur, range)
      /\ t.zeros = (HasZero(t.prev) \/ HasZero(cur))
  OBVIOUS
<1> HIDE DEF p, prev
<1>3. cur \in Four /\ \A j \in 1 .. 4 : cur[j] = d[p + j]
  BY <1>1, <1>2, WordIs
<1>4. NoneIn(d, offset, p + 4)
  <2> SUFFICES ASSUME NEW x \in Codes(d), offset < x, x <= p + 4 PROVE FALSE
    BY DEF NoneIn
  <2>1. x \in Nat
    BY CodeBehind
  <2>2. ~(x <= p + Ahead(range)) /\ Ahead(range) \in {0, 2}
    BY <1>1 DEF NoneIn, Ahead
  <2>3. p < x
    BY <1>1, <2>1, <2>2
  <2> QED
    BY <1>1, <1>2, <2>3, CodeIsSeen
<1> HIDE DEF cur
<1>5. t.prev \in Four /\ \A j \in 1 .. 4 : t.prev[j] = IF j + range <= 4 THEN prev[j + range]
                                                     ELSE cur[j + range - 4]
  <2>1. t.prev \in Four
    BY <1>1, <1>2, <1>3, ShiftIsWord
  <2> DEFINE w == prev \o cur
  <2>3. /\ w \in Seq(Int) /\ Len(w) = 8
        /\ \A i \in 1 .. 8 : w[i] = IF i <= 4 THEN prev[i] ELSE cur[i - 4]
    BY <1>1, <1>3, TwoWords
  <2> HIDE DEF w
  <2>4. \A j \in 1 .. 4 : SubSeq(w, range + 1, range + 4)[j] = w[range + j]
    <3>1. \A i \in range + 1 .. range + 4 : w[i] \in Int
      <4> SUFFICES ASSUME NEW i \in range + 1 .. range + 4 PROVE w[i] \in Int
        OBVIOUS
      <4>1. i \in 1 .. Len(w)
        BY <2>3
      <4> QED
        BY <2>3, <4>1, ElementOfSeq
    <3>2. range + 1 \in Int /\ range + 4 \in Int
      OBVIOUS
    <3>3. \A i \in 1 .. range + 4 - (range + 1) + 1 :
             SubSeq(w, range + 1, range + 4)[i] = w[(range + 1) + i - 1]
      BY <3>1, <3>2, SubSeqProperties
    <3> QED
      BY <3>3
  <2>5. \A j \in 1 .. 4 : t.prev[j] = w[range + j]
    BY <1>2, <2>4 DEF Shift, w
  <2>6. \A j \in 1 .. 4 : range + j \in 1 .. 8 /\ range + j = j + range
    OBVIOUS
  <2> QED
    BY <2>1, <2>3, <2>5, <2>6
<1>6. Seen(d, offset, t.pos, t.prev)
  <2> SUFFICES ASSUME NEW j \in 1 .. 4
               PROVE  t.prev[j] = 0 <=> t.pos - 4 + j > offset /\ d[t.pos - 4 + j] = 0
    BY DEF Seen
  <2>1. CASE j + range <= 4
    <3>1. j + range \in 1 .. 4 /\ t.pos - 4 + j = p - 4 + (j + range)
      <4>1. t.pos = p + range /\ p \in Nat
        BY <1>1, <1>2
      <4>2. range \in Int /\ j \in Int /\ p \in Int
        BY <4>1
      <4> HIDE DEF p
      <4> SUFFICES ASSUME NEW x \in Int, NEW y \in Int, NEW z \in Int
                   PROVE  x + y - 4 + z = x - 4 + (z + y)
        BY <2>1, <4>1, <4>2
      <4> QED
        OBVIOUS
    <3>2. t.prev[j] = prev[j + range]
      BY <1>5, <2>1
    <3> QED
      BY <1>1, <3>1, <3>2 DEF Seen
  <2>2. CASE ~(j + range <= 4)
    <3>1. j + range - 4 \in 1 .. 4 /\ t.pos - 4 + j = p + (j + range - 4) /\ t.pos - 4 + j > offset
      <4> DEFINE q == t.pos
                 m == s.pos
      <4>1. q = p + range /\ p \in Nat /\ offset \in Nat /\ p \in m .. Len(d) /\ m \in Nat /\ offset <= m
        BY <1>1, <1>2
      <4> HIDE DEF q, m
      <4>2. p >= offset
        BY <4>1
      <4>3. j + range - 4 \in 1 .. 4 /\ q - 4 + j = p + (j + range - 4) /\ q - 4 + j > offset
        BY <2>2, <4>1, <4>2
      <4> QED
        BY <4>3 DEF q
    <3>2. t.prev[j] = d[p + (j + range - 4)]
      BY <1>3, <1>5, <2>2, <3>1
    <3> QED
      BY <3>1, <3>2
  <2> QED
    BY <2>1, <2>2
<1>7. t.pos \in offset .. Len(d) /\ t.pos >= s.pos + range /\ t.pos + Ahead(range) <= p + 4
  <2> DEFINE q == t.pos
             m == s.pos
  <2>1. /\ q = p + range /\ p \in Nat /\ offset \in Nat /\ p \in m .. Len(d) /\ m \in Nat /\ offset <= m
        /\ p + 4 <= Len(d) /\ Len(d) \in Nat
    BY <1>1, <1>2
  <2> HIDE DEF q, m
  <2>2. q \in offset .. Len(d) /\ q >= m + range
    <3>1. range \in 0 .. 4 /\ m <= p
      BY <2>1
    <3>2. q >= m + range
      BY <2>1, <3>1
    <3>3. q <= p + 4 /\ q \in Nat
      BY <2>1, <3>1
    <3>4. offset <= q
      BY <2>1, <3>1
    <3>5. q <= Len(d)
      BY <2>1, <3>3
    <3> QED
      BY <2>1, <3>2, <3>3, <3>4, <3>5
  <2>3. q + Ahead(range) <= p + 4
    BY <2>1 DEF Ahead
  <2> QED
    BY <2>2, <2>3 DEF q, m
<1>8. NoneIn(d, offset, t.pos + Ahead(range))
  <2> SUFFICES ASSUME NEW x \in Codes(d), offset < x, x <= t.pos + Ahead(range) PROVE FALSE
    BY DEF NoneIn
  <2>1. x \in Nat /\ Ahead(range) \in Nat
    BY CodeBehind DEF Ahead
  <2>2. x <= p + 4
    BY <1>1, <1>7, <2>1
  <2> QED
    BY <1>4, <2>2 DEF NoneIn
<1>9. t.zeros \in BOOLEAN /\ (~t.zeros => ~HasZero(t.prev))
  BY <1>2
<1> QED
  BY <1>5, <1>6, <1>7, <1>8, <1>9 DEF Goes

\* Where the search has ended it stays; a turn of it, whether it ends there or not.
Over(d, s) == s.found # NotFound \/ At(d, s) + 4 > Len(d)
Hits(prev, cur) == (HasZero(prev) \/ HasZero(cur)) /\ StartCode(prev, cur) # {}

CodeIn(prev, cur) == CHOOSE c \in StartCode(prev, cur) : TRUE

\* A search that has ended stays as it is;
LEMMA TurnStays ==
  ASSUME NEW d, NEW s, NEW range, Over(d, s)
  PROVE  Turn(d, s, range) = s
BY DEF Turn, At, Over

\* a turn that sees a start code ends it,
LEMMA TurnEnds ==
  ASSUME NEW d, NEW s, NEW range, ~Over(d, s), NEW cur, cur = Word(d, At(d, s)), Hits(s.prev, cur),
         NEW code, code = CodeIn(s.prev, cur)
  PROVE  Turn(d, s, range) = [s EXCEPT !.found = Found(At(d, s) + code[1], code[2])]
BY DEF Turn, At, Over, Hits, CodeIn

\* and another turn goes on.
LEMMA TurnGoes ==
  ASSUME NEW d, NEW s \in Searches, NEW range, ~Over(d, s),
         NEW cur, cur = Word(d, At(d, s)), ~Hits(s.prev, cur),
         NEW last4, last4 = Shift(s.prev, cur, range)
  PROVE  /\ Turn(d, s, range).pos = At(d, s) + range
         /\ Turn(d, s, range).prev = last4
         /\ Turn(d, s, range).zeros = (HasZero(last4) \/ HasZero(cur))
         /\ Turn(d, s, range).found = s.found
<1>1. Turn(d, s, range) = [s EXCEPT !.pos = At(d, s) + range, !.prev = last4,
                                    !.zeros = HasZero(last4) \/ HasZero(cur)]
  BY DEF Turn, At, Over, Hits
<1> QED
  BY <1>1 DEF Searches

\* After n turns the search has ended, or has gone n steps.
Reaches(d, offset, range, n, s) ==
    IF s.found # NotFound THEN FoundNext(d, offset, s.found)
    ELSE /\ Goes(d, offset, range, s)
         /\ At(d, s) + 4 > Len(d) \/ s.pos >= (IF range = 1 THEN n ELSE 4 * n)

\* A turn takes the search one step further, or ends it.
LEMMA TurnReaches ==
  ASSUME NEW d \in Seq(Int), NEW offset, MayStart(d, offset), NEW range \in {1, 4},
         NEW n \in Nat, NEW s \in Searches, Reaches(d, offset, range, n, s)
  PROVE  Reaches(d, offset, range, n + 1, Turn(d, s, range))
<1> DEFINE p == At(d, s)
           cur == Word(d, p)
           code == CodeIn(s.prev, cur)
           t == Turn(d, s, range)
           last4 == Shift(s.prev, cur, range)
<1>1. CASE Over(d, s)
  <2>1. t = s
    BY <1>1, TurnStays
  <2>2. CASE s.found # NotFound
    BY <2>1, <2>2 DEF Reaches
  <2>3. CASE s.found = NotFound
    <3>1. Goes(d, offset, range, s) /\ At(d, s) + 4 > Len(d)
      BY <1>1, <2>3 DEF Reaches, Over
    <3> QED
      BY <2>1, <2>3, <3>1 DEF Reaches
  <2> QED
    BY <2>2, <2>3
<1>2. CASE ~Over(d, s)
  <2>1. Goes(d, offset, range, s) /\ s.found = NotFound /\ s.pos >= (IF range = 1 THEN n ELSE 4 * n)
    BY <1>2 DEF Reaches, Over
  <2>2. p \in s.pos .. Len(d) /\ Len(d) \in Nat /\ s.pos \in Nat
    BY <2>1, SkipGoes, LenProperties DEF Searches
  <2>3. p + 4 <= Len(d)
    BY <1>2, <2>2 DEF Over
  <2>4. CASE Hits(s.prev, cur)
    <3>1. code \in StartCode(s.prev, cur)
      BY <2>4 DEF Hits, CodeIn
    <3>2. t = [s EXCEPT !.found = Found(p + code[1], code[2])]
      BY <1>2, <2>4, TurnEnds
    <3> HIDE DEF code
    <3>3. FoundNext(d, offset, Found(p + code[1], code[2]))
      BY <2>1, <2>3, <3>1, TurnFinds
    <3>4. code[1] \in 1 .. 4
      <4>1. s.prev \in Four /\ Seen(d, offset, p, s.prev)
        BY <2>1, SkipGoes DEF Goes
      <4>2. p \in offset .. Len(d)
        BY <2>1, <2>2 DEF Goes, MayStart
      <4> QED
        BY <2>3, <3>1, <4>1, <4>2, SeenIsCode
    <3>5. Found(p + code[1], code[2]) # NotFound
      <4>1. p + code[1] # -1
        BY <2>2, <3>4
      <4> QED
        BY <4>1 DEF Found, NotFound
    <3>6. t.found = Found(p + code[1], code[2])
      BY <3>2 DEF Searches
    <3>7. Turn(d, s, range).found # NotFound /\ FoundNext(d, offset, Turn(d, s, range).found)
      BY <3>3, <3>5, <3>6
    <3> QED
      BY <3>7 DEF Reaches
  <2>5. CASE ~Hits(s.prev, cur)
    <3>2. /\ t.pos = p + range /\ t.prev = last4 /\ t.zeros = (HasZero(last4) \/ HasZero(cur))
          /\ t.found = s.found
      BY <1>2, <2>5, TurnGoes
    <3> HIDE DEF t
    <3>3. Goes(d, offset, range, t) /\ t.pos >= s.pos + range
      BY <2>1, <2>3, <2>5, <3>2, TurnMisses DEF Hits
    <3>4. t.pos >= (IF range = 1 THEN n + 1 ELSE 4 * (n + 1))
      BY <2>1, <2>2, <3>2, <3>3
    <3>5. /\ Goes(d, offset, range, Turn(d, s, range)) /\ Turn(d, s, range).found = NotFound
          /\ Turn(d, s, range).pos >= (IF range = 1 THEN n + 1 ELSE 4 * (n + 1))
      BY <2>1, <3>2, <3>3, <3>4 DEF t
    <3> QED
      BY <3>5 DEF Reaches
  <2> QED
    BY <2>4, <2>5
<1> QED
  BY <1>1, <1>2

\* The search is its turns, one after the other.
LEMMA FindFollows ==
  ASSUME NEW d \in Seq(Int), NEW offset \in Nat, NEW range \in {1, 4}
  PROVE  \E f \in [0 .. Len(d) \div range -> Searches] :
            /\ f[0] = [pos |-> offset, prev |-> NoWord, zeros |-> FALSE, found |-> NotFound]
            /\ \A n \in 1 .. Len(d) \div range : f[n] = Turn(d, f[n - 1], range)
            /\ find_h26x_start_code(d, offset, range) = f[Len(d) \div range].found
<1> DEFINE start == [pos |-> offset, prev |-> NoWord, zeros |-> FALSE, found |-> NotFound]
           N == Len(d) \div range
           After(g) == [n \in 0 .. N |-> IF n = 0 THEN start ELSE Turn(d, g[n - 1], range)]
           turn == [x \in (1 .. N) \X Searches |-> Turn(d, x[2], range)]
<1>1. N \in Nat
  <2>1. Len(d) \in Nat /\ range \in Nat \ {0}
    BY LenProperties
  <2> QED
    BY <2>1
<1>2. start \in Searches
  <2>1. NoWord \in Four
    BY DEF NoWord, Four
  <2>2. NotFound \in MaybeCode
    BY DEF MaybeCode
  <2> QED
    BY <2>1, <2>2 DEF Searches
<1>3. turn \in [(1 .. N) \X Searches -> Searches]
  <2> SUFFICES ASSUME NEW x \in (1 .. N) \X Searches PROVE Turn(d, x[2], range) \in Searches
    OBVIOUS
  <2>1. x[2] \in Searches
    OBVIOUS
  <2> QED
    BY <2>1, TurnIsSearch
<1>4. \A n \in 1 .. N, v \in Searches : turn[<<n, v>>] = Turn(d, v, range)
  OBVIOUS
<1> DEFINE g == CHOOSE g : g = After(g)
<1>5. find_h26x_start_code(d, offset, range) = g[N].found
  BY DEF find_h26x_start_code
<1> HIDE DEF N, turn, start
<1>6. PICK f : Follows(f, N, Searches, start, turn)
  BY ONLY <1>1, <1>2, <1>3, Recursion
<1>7. f \in [0 .. N -> Searches] /\ f[0] = start /\ \A n \in 1 .. N : f[n] = turn[<<n, f[n - 1]>>]
  BY <1>6 DEF Follows
<1>8. ASSUME NEW n \in 1 .. N PROVE f[n] = Turn(d, f[n - 1], range)
  <2>1. n - 1 \in 0 .. N
    BY <1>1
  <2>2. f[n - 1] \in Searches
    BY <1>7, <2>1
  <2> QED
    BY <1>4, <1>7, <2>2
<1>9. f = After(f)
  <2>1. \A n \in 0 .. N : f[n] = After(f)[n]
    <3> SUFFICES ASSUME NEW n \in 0 .. N PROVE f[n] = After(f)[n]
      OBVIOUS
    <3>1. CASE n = 0
      BY <1>7, <3>1
    <3>2. CASE n # 0
      BY <1>1, <1>8, <3>2
    <3> QED
      BY <3>1, <3>2
  <2> QED
    BY <1>7, <2>1
<1>10. g = After(g)
  BY <1>9
<1> HIDE DEF g
<1>11. f[0] = g[0]
  BY <1>1, <1>7, <1>10
<1>12. ASSUME NEW n \in 1 .. N, f[n - 1] = g[n - 1] PROVE f[n] = g[n]
  <2>1. n \in 0 .. N /\ n # 0
    BY <1>1
  <2>2. g[n] = After(g)[n]
    BY <1>10
  <2> QED
    BY <1>8, <1>12, <2>1, <2>2
<1>13. \A n \in 0 .. N : f[n] = g[n]
  <2>1. SameSteps(f, g, N)
    BY <1>11, <1>12 DEF SameSteps
  <2>2. Agree(f, g, N)
    BY ONLY <1>1, <2>1, OneSolution
  <2> QED
    BY <2>2 DEF Agree
<1>14. f[N] \in Searches /\ g[N] = f[N]
  BY <1>1, <1>7, <1>13
<1> QED
  BY <1>5, <1>7, <1>8, <1>14 DEF N, start

\* What a search says: the next start code, or that there is none but at the end.
Tail3(range) == IF range = 1 THEN 1 ELSE 3
NoneLeft(d, range, from) == \A c \in Codes(d) : from < c => c > Len(d) - Tail3(range)

\* The search finds the next start code, and misses one only at the end of the frame.
LEMMA FindsNext ==
  ASSUME NEW d \in Seq(Int), NEW offset, MayStart(d, offset), NEW range \in {1, 4}
  PROVE  LET found == find_h26x_start_code(d, offset, range)
         IN  IF found # NotFound THEN FoundNext(d, offset, found) ELSE NoneLeft(d, range, offset)
<1> DEFINE start == [pos |-> offset, prev |-> NoWord, zeros |-> FALSE, found |-> NotFound]
           N == Len(d) \div range
<1>1. Len(d) \in Nat /\ offset \in Nat /\ offset <= Len(d)
  BY LenProperties DEF MayStart
<1>2. N \in Nat /\ Len(d) < (IF range = 1 THEN N + 1 ELSE 4 * (N + 1))
  BY <1>1
<1>3. PICK f \in [0 .. N -> Searches] :
        /\ f[0] = start /\ \A n \in 1 .. N : f[n] = Turn(d, f[n - 1], range)
        /\ find_h26x_start_code(d, offset, range) = f[N].found
  BY <1>1, FindFollows
<1>4. Reaches(d, offset, range, 0, start)
  <2>1. NoWord \in Four /\ ~HasZero(NoWord) /\ \A j \in 1 .. 4 : NoWord[j] # 0
    BY DEF NoWord, Four, HasZero
  <2>2. Seen(d, offset, offset, NoWord)
    <3>1. \A j \in 1 .. 4 : ~(offset - 4 + j > offset)
      BY <1>1
    <3> QED
      BY <2>1, <3>1 DEF Seen
  <2>3. NoneIn(d, offset, offset + Ahead(range))
    <3> SUFFICES ASSUME NEW c \in Codes(d), offset < c, c <= offset + Ahead(range) PROVE FALSE
      BY DEF NoneIn
    <3>1. offset < c - 2 /\ c \in Nat
      BY CodeBehind
    <3> QED
      BY <1>1, <3>1 DEF Ahead
  <2>4. Goes(d, offset, range, start)
    BY <1>1, <2>1, <2>2, <2>3 DEF Goes
  <2>5. start.pos >= (IF range = 1 THEN 0 ELSE 4 * 0) /\ ~(start.found # NotFound)
    BY <1>1
  <2> HIDE DEF start
  <2> QED
    BY <2>4, <2>5 DEF Reaches
<1> HIDE DEF N, start
<1> DEFINE T == {n \in 0 .. N : Reaches(d, offset, range, n, f[n])}
<1>5. 0 \in T
  BY <1>2, <1>3, <1>4
<1>6. ASSUME NEW n \in 1 .. N, n - 1 \in T PROVE n \in T
  <2>1. n - 1 \in Nat /\ n - 1 \in 0 .. N /\ n - 1 + 1 = n /\ n \in 0 .. N
    BY <1>2
  <2>2. Reaches(d, offset, range, n - 1, f[n - 1]) /\ f[n - 1] \in Searches
    BY <1>3, <1>6, <2>1
  <2>3. Reaches(d, offset, range, n - 1 + 1, Turn(d, f[n - 1], range))
    BY <2>1, <2>2, TurnReaches
  <2> QED
    BY <1>3, <2>1, <2>3
<1> HIDE DEF T
<1>7. \A n \in 0 .. N : n \in T
  BY <1>2, <1>5, <1>6, Induction
<1> DEFINE s == f[N]
<1>8. Reaches(d, offset, range, N, s) /\ s \in Searches
  <2>1. N \in 0 .. N
    BY <1>2
  <2>2. N \in T
    BY <1>7, <2>1
  <2> QED
    BY <1>3, <2>1, <2>2 DEF T
<1>9. find_h26x_start_code(d, offset, range) = s.found
  BY <1>3
<1> HIDE DEF s
<1>10. CASE s.found # NotFound
  BY <1>8, <1>9, <1>10 DEF Reaches
<1>11. CASE s.found = NotFound
  <2>1. /\ Goes(d, offset, range, s)
        /\ At(d, s) + 4 > Len(d) \/ s.pos >= (IF range = 1 THEN N ELSE 4 * N)
    BY <1>8, <1>11 DEF Reaches
  <2>2. At(d, s) \in s.pos .. Len(d) /\ NoneIn(d, offset, At(d, s) + Ahead(range)) /\ s.pos \in Nat
    BY <2>1, <1>8, SkipGoes DEF Searches
  <2>3. At(d, s) + 4 > Len(d)
    BY <1>1, <1>2, <2>1, <2>2
  <2>4. ASSUME NEW c \in Codes(d), offset < c PROVE c > Len(d) - Tail3(range)
    <3>1. c \in Nat
      BY <2>4, CodeBehind
    <3>2. ~(c <= At(d, s) + Ahead(range))
      BY <2>2, <2>4 DEF NoneIn
    <3> QED
      BY <1>1, <2>2, <2>3, <3>1, <3>2 DEF Ahead, Tail3
  <2> QED
    BY <1>9, <1>11, <2>4 DEF NoneLeft
<1> QED
  BY <1>10, <1>11

-----------------------------------------------------------------------------
(* The search of a frame.                                                  *)

\* Start codes, each the next behind the one before; the last may be that there is none.
Behind(c, i) == IF i = 1 THEN 0 ELSE c[i - 1].pos
Link(d, range, from, i, f, last) ==
    IF f = NotFound THEN last /\ NoneLeft(d, range, from)
    ELSE FoundNext(d, from, f) /\ f.pos >= 3 * i
Chained(d, range, c) ==
    \A i \in 1 .. Len(c) : Link(d, range, Behind(c, i), i, c[i], i = Len(c))

\* What the search finds from behind a start code, or from the start of a frame, is a link.
LEMMA LinkFound ==
  ASSUME NEW d \in Seq(Int), NEW range \in {1, 4}, NEW from, NEW i \in Nat \ {0},
         \/ i = 1 /\ from = 0
         \/ i # 1 /\ from \in Codes(d) /\ from >= 3 * (i - 1)
  PROVE  /\ find_h26x_start_code(d, from, range) \in MaybeCode
         /\ Link(d, range, from, i, find_h26x_start_code(d, from, range), TRUE)
<1> DEFINE e == find_h26x_start_code(d, from, range)
<1>1. MayStart(d, from) /\ from \in Nat
  <2>1. CASE i = 1 /\ from = 0
    BY <2>1, LenProperties DEF MayStart
  <2>2. CASE i # 1 /\ from \in Codes(d) /\ from >= 3 * (i - 1)
    <3>1. CodeAt(d, from)
      BY <2>2, CodeOctets
    <3> QED
      BY <3>1, LenProperties DEF CodeAt, MayStart
  <2> QED
    BY <2>1, <2>2
<1>2. e \in MaybeCode
  BY <1>1, FindIsCode
<1>3. IF e # NotFound THEN FoundNext(d, from, e) ELSE NoneLeft(d, range, from)
  BY <1>1, FindsNext
<1> HIDE DEF e
<1>4. CASE e = NotFound
  BY <1>2, <1>3, <1>4 DEF Link, e
<1>5. CASE e # NotFound
  <2>1. FoundNext(d, from, e)
    BY <1>3, <1>5
  <2> DEFINE p == e.pos
  <2>2. p \in Codes(d) /\ from < p
    BY <2>1 DEF FoundNext
  <2>3. CodeAt(d, p)
    BY <2>2, CodeOctets
  <2> HIDE DEF p
  <2>4. p \in Nat /\ p >= 3
    BY <2>3, LenProperties DEF CodeAt
  <2>5. p >= 3 * i
    <3>1. CASE i = 1
      BY <2>4, <3>1
    <3>2. CASE i # 1
      <4>1. from \in Codes(d) /\ from >= 3 * (i - 1)
        BY <3>2
      <4>2. from + 3 <= p
        BY <2>2, <4>1, CodesApart
      <4> QED
        BY <1>1, <2>4, <4>1, <4>2
    <3> QED
      BY <3>1, <3>2
  <2>6. Link(d, range, from, i, e, TRUE)
    BY <1>5, <2>1, <2>5 DEF Link, p
  <2> QED
    BY <1>2, <2>6 DEF e
<1> QED
  BY <1>4, <1>5

\* A link that has found a start code stays one when others follow.
LEMMA LinkGoesOn ==
  ASSUME NEW d, NEW range, NEW from, NEW i, NEW f, f # NotFound, NEW a, NEW b,
         Link(d, range, from, i, f, a)
  PROVE  Link(d, range, from, i, f, b)
BY DEF Link

\* A chain goes on with what the search finds next.
LEMMA ChainGoesOn ==
  ASSUME NEW d \in Seq(Int), NEW range \in {1, 4}, NEW c \in Seq(MaybeCode), c # <<>>,
         Chained(d, range, c), Last(c) # NotFound, NEW e,
         e = find_h26x_start_code(d, Last(c).pos, range)
  PROVE  /\ e \in MaybeCode /\ Append(c, e) \in Seq(MaybeCode) /\ Append(c, e) # <<>>
         /\ Chained(d, range, Append(c, e)) /\ Len(Append(c, e)) = Len(c) + 1
<1> DEFINE n == Len(c)
           from == Last(c).pos
           a == Append(c, e)
<1>1. n \in Nat /\ n # 0 /\ Last(c) = c[n]
  BY LenProperties, EmptySeq DEF Last
<1>2. \A i \in 1 .. n : c[i] # NotFound
  <2> SUFFICES ASSUME NEW i \in 1 .. n PROVE c[i] # NotFound
    OBVIOUS
  <2>1. Link(d, range, Behind(c, i), i, c[i], i = n)
    BY DEF Chained
  <2>2. CASE i = n
    BY <1>1, <2>2
  <2>3. CASE i # n
    BY <2>1, <2>3 DEF Link
  <2> QED
    BY <2>2, <2>3
<1>3. from \in Codes(d) /\ from >= 3 * n
  <2>1. n \in 1 .. n
    BY <1>1
  <2>2. Link(d, range, Behind(c, n), n, c[n], n = n)
    BY <2>1 DEF Chained
  <2>3. FoundNext(d, Behind(c, n), c[n]) /\ c[n].pos >= 3 * n
    BY <1>2, <2>1, <2>2 DEF Link
  <2> QED
    BY <1>1, <2>3 DEF FoundNext
<1>4. e \in MaybeCode /\ Link(d, range, from, n + 1, e, TRUE)
  <2> DEFINE m == n + 1
  <2> HIDE DEF n, from
  <2>1. m \in Nat \ {0} /\ m # 1 /\ m - 1 = n
    BY <1>1
  <2>2. e = find_h26x_start_code(d, from, range)
    BY DEF from
  <2> HIDE DEF m
  <2>3. from \in Codes(d) /\ from >= 3 * (m - 1)
    BY <1>3, <2>1
  <2>4. e \in MaybeCode /\ Link(d, range, from, m, e, TRUE)
    BY <2>1, <2>2, <2>3, LinkFound
  <2> QED
    BY <2>4 DEF m
<1>5. /\ a \in Seq(MaybeCode) /\ a # <<>> /\ Len(a) = n + 1
      /\ (\A i \in 1 .. n : a[i] = c[i]) /\ a[n + 1] = e
  BY <1>4, AppendProperties
<1> HIDE DEF a, n
<1>6. ASSUME NEW i \in 1 .. n + 1 PROVE Link(d, range, Behind(a, i), i, a[i], i = n + 1)
  <2>1. CASE i = n + 1
    <3>1. n \in 1 .. n /\ i # 1 /\ i - 1 = n
      BY <1>1, <2>1
    <3>2. Behind(a, i) = from
      BY <1>1, <1>5, <3>1 DEF Behind
    <3> QED
      BY <1>4, <1>5, <2>1, <3>2
  <2>2. CASE i # n + 1
    <3>1. i \in 1 .. n
      BY <1>1, <2>2
    <3>2. Behind(a, i) = Behind(c, i)
      <4>1. CASE i = 1
        BY <4>1 DEF Behind
      <4>2. CASE i # 1
        <5>1. i - 1 \in 1 .. n
          BY <1>1, <3>1, <4>2
        <5> QED
          BY <1>5, <4>2, <5>1 DEF Behind
      <4> QED
        BY <4>1, <4>2
    <3>3. Link(d, range, Behind(c, i), i, c[i], i = n)
      BY <3>1 DEF Chained, n
    <3> QED
      BY <1>2, <1>5, <3>1, <3>2, <3>3, LinkGoesOn
  <2> QED
    BY <2>1, <2>2
<1>7. Chained(d, range, a)
  BY <1>5, <1>6 DEF Chained
<1> QED
  BY <1>4, <1>5, <1>7 DEF a, n

\* The search of a frame chains its start codes until there is none left.
LEMMA AllCodesIs ==
  ASSUME NEW d \in Seq(Int), NEW range \in {1, 4}
  PROVE  \E c \in Seq(MaybeCode) : /\ c # <<>> /\ Chained(d, range, c) /\ Last(c) = NotFound
                                   /\ AllCodes(d, range) = Front(c)
<1> DEFINE first == find_h26x_start_code(d, 0, range)
           N == Len(d) \div 3
           More(found) == IF Last(found) = NotFound THEN found
                          ELSE Append(found, find_h26x_start_code(d, Last(found).pos, range))
           After(g) == [n \in 0 .. N |-> IF n = 0 THEN <<first>> ELSE More(g[n - 1])]
           V == {c \in Seq(MaybeCode) : c # <<>> /\ Chained(d, range, c)}
           turn == [x \in (1 .. N) \X V |-> More(x[2])]
<1>1. N \in Nat
  <2>1. Len(d) \in Nat
    BY LenProperties
  <2> QED
    BY <2>1
<1>2. <<first>> \in V
  <2> DEFINE from == 0
             m == 1
  <2>0. m \in Nat \ {0} /\ m = 1 /\ from = 0
    OBVIOUS
  <2> HIDE DEF from, m
  <2>1. first \in MaybeCode /\ Link(d, range, 0, 1, first, TRUE)
    <3>1. find_h26x_start_code(d, from, range) \in MaybeCode
          /\ Link(d, range, from, m, find_h26x_start_code(d, from, range), TRUE)
      BY <2>0, LinkFound
    <3> QED
      BY <2>0, <3>1
  <2> HIDE DEF first
  <2>2. <<first>> \in Seq(MaybeCode) /\ <<first>> # <<>> /\ Len(<<first>>) = 1 /\ <<first>>[1] = first
    BY <2>1
  <2>3. Chained(d, range, <<first>>)
    <3>1. ASSUME NEW i \in 1 .. 1
          PROVE  Link(d, range, Behind(<<first>>, i), i, <<first>>[i], i = 1)
      <4>1. i = 1
        OBVIOUS
      <4>2. Behind(<<first>>, i) = 0
        BY <4>1 DEF Behind
      <4> QED
        BY <2>1, <2>2, <4>1, <4>2
    <3> QED
      BY <2>2, <3>1 DEF Chained
  <2> QED
    BY <2>2, <2>3
<1>3. ASSUME NEW c \in V
      PROVE  More(c) \in V /\ (Last(More(c)) = NotFound \/ Len(More(c)) = Len(c) + 1)
  <2>1. c \in Seq(MaybeCode) /\ c # <<>> /\ Chained(d, range, c)
    OBVIOUS
  <2>2. CASE Last(c) = NotFound
    BY <2>1, <2>2
  <2>3. CASE Last(c) # NotFound
    <3> DEFINE e == find_h26x_start_code(d, Last(c).pos, range)
    <3>1. /\ Append(c, e) \in Seq(MaybeCode) /\ Append(c, e) # <<>>
          /\ Chained(d, range, Append(c, e)) /\ Len(Append(c, e)) = Len(c) + 1
      BY <2>1, <2>3, ChainGoesOn
    <3>2. More(c) = Append(c, e)
      BY <2>3
    <3> HIDE DEF e, More
    <3> QED
      BY <3>1, <3>2
  <2> QED
    BY <2>2, <2>3
<1> HIDE DEF More
<1>4. turn \in [(1 .. N) \X V -> V]
  <2> SUFFICES ASSUME NEW x \in (1 .. N) \X V PROVE More(x[2]) \in V
    OBVIOUS
  <2>1. x[2] \in V
    OBVIOUS
  <2> HIDE DEF V
  <2> QED
    BY <1>3, <2>1
<1>5. \A n \in 1 .. N, v \in V : turn[<<n, v>>] = More(v)
  OBVIOUS
<1> DEFINE g == CHOOSE g : g = After(g)
<1>6. AllCodes(d, range) = Front(g[N])
  BY DEF AllCodes, More
<1> HIDE DEF N, turn, first, V
<1>7. PICK f : Follows(f, N, V, <<first>>, turn)
  BY ONLY <1>1, <1>2, <1>4, Recursion
<1>8. f \in [0 .. N -> V] /\ f[0] = <<first>> /\ \A n \in 1 .. N : f[n] = turn[<<n, f[n - 1]>>]
  BY <1>7 DEF Follows
<1>9. ASSUME NEW n \in 1 .. N PROVE f[n] = More(f[n - 1])
  <2>1. n - 1 \in 0 .. N
    BY <1>1
  <2>2. f[n - 1] \in V
    BY <1>8, <2>1
  <2> QED
    BY <1>5, <1>8, <2>2
<1>10. f = After(f)
  <2>1. \A n \in 0 .. N : f[n] = After(f)[n]
    <3> SUFFICES ASSUME NEW n \in 0 .. N PROVE f[n] = After(f)[n]
      OBVIOUS
    <3>1. CASE n = 0
      BY <1>8, <3>1
    <3>2. CASE n # 0
      BY <1>1, <1>9, <3>2
    <3> QED
      BY <3>1, <3>2
  <2> QED
    BY <1>8, <2>1
<1>11. g = After(g)
  BY <1>10
<1> HIDE DEF g
<1>12. f[0] = g[0]
  BY <1>1, <1>8, <1>11
<1>13. ASSUME NEW n \in 1 .. N, f[n - 1] = g[n - 1] PROVE f[n] = g[n]
  <2>1. n \in 0 .. N /\ n # 0
    BY <1>1
  <2>2. g[n] = After(g)[n]
    BY <1>11
  <2> QED
    BY <1>9, <1>13, <2>1, <2>2
<1>14. \A n \in 0 .. N : f[n] = g[n]
  <2>1. SameSteps(f, g, N)
    BY <1>12, <1>13 DEF SameSteps
  <2>2. Agree(f, g, N)
    BY ONLY <1>1, <2>1, OneSolution
  <2> QED
    BY <2>2 DEF Agree
<1>15. f[N] \in V /\ g[N] = f[N]
  BY <1>1, <1>8, <1>14
<1>16. ASSUME NEW n \in 0 .. N PROVE f[n] \in V
  BY <1>8
<1> DEFINE T == {n \in 0 .. N : Last(f[n]) = NotFound \/ Len(f[n]) = n + 1}
<1>17. 0 \in T
  <2>1. Len(f[0]) = 0 + 1
    BY <1>8
  <2>2. 0 \in 0 .. N
    BY <1>1
  <2> QED
    BY <2>1, <2>2
<1>18. ASSUME NEW n \in 1 .. N, n - 1 \in T PROVE n \in T
  <2>1. n - 1 \in 0 .. N /\ n \in 0 .. N /\ n - 1 + 1 = n
    BY <1>1
  <2>2. f[n - 1] \in V /\ f[n] = More(f[n - 1])
    BY <1>9, <1>16, <2>1
  <2>3. CASE Last(f[n - 1]) = NotFound
    <3>1. More(f[n - 1]) = f[n - 1]
      BY <2>3 DEF More
    <3> QED
      BY <2>1, <2>2, <2>3, <3>1
  <2>4. CASE Last(f[n - 1]) # NotFound
    <3>1. Len(f[n - 1]) = n
      BY <1>18, <2>1, <2>4
    <3>2. Last(f[n]) = NotFound \/ Len(f[n]) = n + 1
      BY <1>3, <2>2, <3>1
    <3> QED
      BY <2>1, <3>2
  <2> QED
    BY <2>3, <2>4
<1> HIDE DEF T
<1>19. \A n \in 0 .. N : n \in T
  BY <1>1, <1>17, <1>18, Induction
<1> DEFINE c == f[N]
<1>20. Last(c) = NotFound \/ Len(c) = N + 1
  <2>1. N \in T
    BY <1>1, <1>19
  <2> QED
    BY <2>1 DEF T
<1>21. c \in Seq(MaybeCode) /\ c # <<>> /\ Chained(d, range, c) /\ AllCodes(d, range) = Front(c)
  BY <1>6, <1>15 DEF V
<1> HIDE DEF c
<1>22. Last(c) = NotFound
  <2> SUFFICES ASSUME Last(c) # NotFound PROVE FALSE
    OBVIOUS
  <2> DEFINE m == N + 1
             p == c[m].pos
  <2>1. m \in 1 .. Len(c) /\ Last(c) = c[m]
    BY <1>1, <1>20 DEF Last
  <2>2. FoundNext(d, Behind(c, m), c[m]) /\ p >= 3 * m
    BY <1>21, <2>1 DEF Chained, Link
  <2>3. p \in 3 .. Len(d) /\ Len(d) \in Nat
    <3>1. p \in Codes(d)
      BY <2>2 DEF FoundNext
    <3> QED
      BY <3>1, LenProperties DEF Codes
  <2> HIDE DEF p
  <2>4. Len(d) < 3 * m
    BY <2>3 DEF N
  <2> QED
    BY <1>1, <2>2, <2>3, <2>4
<1> QED
  BY <1>21, <1>22

-----------------------------------------------------------------------------
(* Numbers in order.                                                       *)

\* A sequence of numbers that grows from each to the next grows throughout.
LEMMA Grows ==
  ASSUME NEW m \in Nat, NEW e \in [1 .. m -> Int], \A i \in 1 .. m - 1 : e[i] < e[i + 1],
         NEW i \in 1 .. m, NEW j \in 1 .. m, i < j
  PROVE  e[i] < e[j]
<1> DEFINE T == {n \in 0 .. m : \A k \in 1 .. m : k < n => e[k] < e[n]}
<1>1. 0 \in T
  OBVIOUS
<1>2. ASSUME NEW n \in 1 .. m, n - 1 \in T PROVE n \in T
  <2>1. n \in 0 .. m
    OBVIOUS
  <2>2. ASSUME NEW k \in 1 .. m, k < n PROVE e[k] < e[n]
    <3>1. n - 1 \in 1 .. m - 1 /\ n - 1 \in 1 .. m /\ n - 1 + 1 = n
      BY <2>2
    <3>2. e[n - 1] < e[n] /\ e[n - 1] \in Int /\ e[n] \in Int /\ e[k] \in Int
      BY <3>1
    <3>3. CASE k = n - 1
      BY <3>2, <3>3
    <3>4. CASE k # n - 1
      <4>1. k < n - 1
        BY <2>2, <3>4
      <4>2. e[k] < e[n - 1]
        BY <1>2, <4>1
      <4> QED
        BY <3>2, <4>2
    <3> QED
      BY <3>3, <3>4
  <2> QED
    BY <2>1, <2>2
<1> HIDE DEF T
<1>3. \A n \in 0 .. m : n \in T
  BY <1>1, <1>2, Induction
<1>4. j \in T
  BY <1>3
<1> QED
  BY <1>4 DEF T

\* Numbers from 1 .. m that grow m times are 1 .. m.
LEMMA GrowsByOne ==
  ASSUME NEW m \in Nat, NEW k \in [1 .. m -> 1 .. m], \A i \in 1 .. m - 1 : k[i] < k[i + 1],
         NEW i \in 1 .. m
  PROVE  k[i] = i
<1> DEFINE L == {n \in 0 .. m : n # 0 => k[n] >= n}
           H == {n \in 0 .. m : n # m => k[m - n] <= m - n}
<1>1. 0 \in L /\ 0 \in H
  OBVIOUS
<1>2. ASSUME NEW n \in 1 .. m, n - 1 \in L PROVE n \in L
  <2>1. CASE n = 1
    BY <2>1
  <2>2. CASE n # 1
    <3>1. n - 1 \in 1 .. m - 1 /\ n - 1 \in 1 .. m /\ n - 1 + 1 = n /\ n - 1 # 0
      BY <2>2
    <3>2. k[n - 1] >= n - 1 /\ k[n - 1] < k[n] /\ k[n - 1] \in Int /\ k[n] \in Int
      BY <1>2, <3>1
    <3> QED
      BY <3>2
  <2> QED
    BY <2>1, <2>2
<1>3. ASSUME NEW n \in 1 .. m, n - 1 \in H PROVE n \in H
  <2>1. CASE n = m
    BY <2>1
  <2>2. CASE n # m
    <3>1. /\ m - n \in 1 .. m - 1 /\ m - n \in 1 .. m /\ m - n + 1 \in 1 .. m
          /\ m - (n - 1) = m - n + 1 /\ n - 1 # m
      BY <2>2
    <3>2. /\ k[m - n + 1] <= m - n + 1 /\ k[m - n] < k[m - n + 1]
          /\ k[m - n] \in Int /\ k[m - n + 1] \in Int
      BY <1>3, <3>1
    <3>3. k[m - n] <= m - n
      BY <3>1, <3>2
    <3> QED
      BY <3>3
  <2> QED
    BY <2>1, <2>2
<1> HIDE DEF L, H
<1>4. (\A n \in 0 .. m : n \in L) /\ (\A n \in 0 .. m : n \in H)
  <2>1. \A n \in 0 .. m : n \in L
    BY <1>1, <1>2, Induction
  <2>2. \A n \in 0 .. m : n \in H
    BY <1>1, <1>3, Induction
  <2> QED
    BY <2>1, <2>2
<1>5. k[i] >= i
  BY <1>4 DEF L
<1>6. k[i] <= i
  <2>1. m - i \in 0 .. m /\ m - i # m /\ m - (m - i) = i
    OBVIOUS
  <2> QED
    BY <1>4, <2>1 DEF H
<1> QED
  BY <1>5, <1>6

\* There is one way to put numbers in order.
LEMMA InOrderIs ==
  ASSUME NEW S \in SUBSET Int, NEW m \in Nat, NEW e \in [1 .. m -> S],
         \A i \in 1 .. m - 1 : e[i] < e[i + 1], \A x \in S : \E i \in 1 .. m : e[i] = x
  PROVE  InOrder(S) = e
<1>1. e \in [1 .. m -> Int]
  OBVIOUS
<1>2. \A i, j \in 1 .. m : i < j => e[i] < e[j]
  BY <1>1, Grows
<1>3. Cardinality(S) = m
  <2>1. \A i, j \in 1 .. m : e[i] = e[j] => i = j
    <3> SUFFICES ASSUME NEW i \in 1 .. m, NEW j \in 1 .. m, e[i] = e[j] PROVE i = j
      OBVIOUS
    <3>1. e[i] \in Int /\ e[j] \in Int
      OBVIOUS
    <3>2. ~(i < j) /\ ~(j < i)
      BY <1>2, <3>1
    <3> QED
      BY <3>2
  <2>2. e \in Bijection(1 .. m, S)
    BY <2>1 DEF Bijection, Injection, Surjection, IsInjective
  <2>3. ExistsBijection(1 .. m, S)
    BY <2>2 DEF ExistsBijection
  <2> QED
    BY <2>3, FS_CountingElements
<1>4. Len(e) = m /\ Ascending(e)
  <2>1. Len(e) = m
    BY FunctionIsSeq
  <2> QED
    BY <2>1 DEF Ascending
<1> DEFINE s == InOrder(S)
<1>5. s \in [1 .. m -> S] /\ Ascending(s)
  BY <1>3, <1>4 DEF InOrder
<1> HIDE DEF s
<1>6. \A i \in 1 .. m - 1 : s[i] < s[i + 1]
  <2>1. Len(s) = m
    BY <1>5, FunctionIsSeq
  <2> QED
    BY <1>5, <2>1 DEF Ascending
<1> DEFINE place(x) == CHOOSE i \in 1 .. m : e[i] = x
           k == [i \in 1 .. m |-> place(s[i])]
<1>7. \A i \in 1 .. m : place(s[i]) \in 1 .. m /\ e[place(s[i])] = s[i]
  BY <1>5
<1> HIDE DEF place
<1>8. k \in [1 .. m -> 1 .. m] /\ \A i \in 1 .. m : e[k[i]] = s[i]
  BY <1>7
<1> HIDE DEF k
<1>9. \A i \in 1 .. m - 1 : k[i] < k[i + 1]
  <2> SUFFICES ASSUME NEW i \in 1 .. m - 1 PROVE k[i] < k[i + 1]
    OBVIOUS
  <2>1. i \in 1 .. m /\ i + 1 \in 1 .. m
    OBVIOUS
  <2>2. e[k[i]] < e[k[i + 1]]
    BY <1>6, <1>8, <2>1
  <2>3. k[i] \in 1 .. m /\ k[i + 1] \in 1 .. m
    BY <1>8, <2>1
  <2>4. e[k[i]] \in Int /\ e[k[i + 1]] \in Int
    BY <1>1, <2>3
  <2>5. ~(k[i + 1] < k[i]) /\ k[i + 1] # k[i]
    BY <1>2, <2>2, <2>3, <2>4
  <2> QED
    BY <2>3, <2>5
<1>10. \A i \in 1 .. m : k[i] = i
  BY <1>8, <1>9, GrowsByOne
<1>11. \A i \in 1 .. m : s[i] = e[i]
  BY <1>8, <1>10
<1> QED
  BY <1>5, <1>11 DEF s

-----------------------------------------------------------------------------
(* The units by their definition.                                          *)

\* A start code that was found.
Code == [pos : Nat, prefix : Int]

\* The start codes found are the first ones of the frame, and none is left but at its end.
Leads(d, e) == \A i \in 1 .. Len(e) : FoundNext(d, Behind(e, i), e[i])

\* All the start codes that are found, one after the other.
LEMMA AllCodesLead ==
  ASSUME NEW d \in Seq(Int), NEW range \in {1, 4}, NEW e, e = AllCodes(d, range)
  PROVE  e \in Seq(Code) /\ Leads(d, e) /\ NoneLeft(d, range, Behind(e, Len(e) + 1))
<1>1. PICK c \in Seq(MaybeCode) : /\ c # <<>> /\ Chained(d, range, c) /\ Last(c) = NotFound
                                  /\ AllCodes(d, range) = Front(c)
  BY AllCodesIs
<1> DEFINE n == Len(c)
           m == n - 1
<1>2. n \in Nat /\ n # 0 /\ m \in Nat /\ m + 1 = n /\ c[n] = NotFound
  BY <1>1, LenProperties, EmptySeq DEF Last
<1>3. \A i \in 1 .. n : Link(d, range, Behind(c, i), i, c[i], i = n)
  BY <1>1 DEF Chained
<1> HIDE DEF n
<1>4. ASSUME NEW i \in 1 .. m PROVE c[i] \in Code /\ FoundNext(d, Behind(c, i), c[i])
  <2>1. i \in 1 .. n /\ i # n
    BY <1>2
  <2>2. c[i] # NotFound /\ FoundNext(d, Behind(c, i), c[i])
    BY <1>3, <2>1 DEF Link
  <2>3. c[i] \in MaybeCode
    BY <2>1, ElementOfSeq DEF n
  <2> QED
    BY <2>2, <2>3 DEF MaybeCode, Code
<1> HIDE DEF m
<1>5. e \in Seq(Code) /\ Len(e) = m /\ \A i \in 1 .. m : e[i] = c[i]
  <2>1. \A i \in 1 .. m : c[i] \in Code
    BY <1>4
  <2>2. 1 \in Int /\ m \in Int /\ e = SubSeq(c, 1, m)
    BY <1>1, <1>2 DEF Front, m, n
  <2>3. /\ SubSeq(c, 1, m) \in Seq(Code)
        /\ Len(SubSeq(c, 1, m)) = IF 1 <= m THEN m - 1 + 1 ELSE 0
        /\ \A i \in 1 .. m - 1 + 1 : SubSeq(c, 1, m)[i] = c[1 + i - 1]
    BY <2>1, <2>2, SubSeqProperties
  <2>4. Len(e) = m
    BY <1>2, <2>2, <2>3
  <2>5. ASSUME NEW i \in 1 .. m PROVE e[i] = c[i]
    <3>1. i \in 1 .. m - 1 + 1 /\ 1 + i - 1 = i
      BY <1>2
    <3> QED
      BY <2>2, <2>3, <3>1
  <2> QED
    BY <2>2, <2>3, <2>4, <2>5
<1>6. ASSUME NEW i \in 1 .. m + 1 PROVE Behind(e, i) = Behind(c, i)
  <2>1. CASE i = 1
    BY <2>1 DEF Behind
  <2>2. CASE i # 1
    <3>1. i - 1 \in 1 .. m
      BY <1>2, <2>2
    <3> QED
      BY <1>5, <2>2, <3>1 DEF Behind
  <2> QED
    BY <2>1, <2>2
<1>7. Leads(d, e)
  <2> SUFFICES ASSUME NEW i \in 1 .. m PROVE FoundNext(d, Behind(e, i), e[i])
    BY <1>5 DEF Leads
  <2>1. i \in 1 .. m + 1
    BY <1>2
  <2> QED
    BY <1>4, <1>5, <1>6, <2>1
<1>8. NoneLeft(d, range, Behind(e, m + 1))
  <2>1. m + 1 \in 1 .. m + 1 /\ n \in 1 .. n
    BY <1>2
  <2>2. NoneLeft(d, range, Behind(c, n))
    BY <1>2, <1>3, <2>1 DEF Link
  <2> QED
    BY <1>2, <1>6, <2>1, <2>2
<1> QED
  BY <1>5, <1>7, <1>8

\* The positions of these start codes grow, and no other lies among them.
LEMMA CodesInOrder ==
  ASSUME NEW d \in Seq(Int), NEW e \in Seq(Code), Leads(d, e)
  PROVE  /\ \A i \in 1 .. Len(e) : e[i].pos \in Codes(d) /\ Behind(e, i) < e[i].pos
                                   /\ Behind(e, i) \in Nat
         /\ \A i \in 1 .. Len(e) - 1 : e[i].pos < e[i + 1].pos
         /\ \A x \in Codes(d) : \/ \E i \in 1 .. Len(e) : e[i].pos = x
                                \/ Behind(e, Len(e) + 1) < x
<1> DEFINE m == Len(e)
<1>1. m \in Nat
  BY LenProperties
<1>2. ASSUME NEW i \in 1 .. m
      PROVE  e[i].pos \in Codes(d) /\ e[i].pos \in Nat /\ NoneIn(d, Behind(e, i), e[i].pos - 1)
             /\ Behind(e, i) < e[i].pos /\ FoundNext(d, Behind(e, i), e[i])
  <2>1. e[i] \in Code
    BY ElementOfSeq
  <2>2. FoundNext(d, Behind(e, i), e[i])
    BY DEF Leads
  <2> QED
    BY <2>1, <2>2 DEF FoundNext, Code
<1> HIDE DEF m
<1>3. ASSUME NEW i \in 1 .. m PROVE Behind(e, i) \in Nat
  <2>1. CASE i = 1
    BY <2>1 DEF Behind
  <2>2. CASE i # 1
    <3>1. i - 1 \in 1 .. m
      BY <1>1, <2>2
    <3> QED
      BY <1>2, <2>2, <3>1 DEF Behind
  <2> QED
    BY <2>1, <2>2
<1>4. ASSUME NEW i \in 1 .. m - 1 PROVE e[i].pos < e[i + 1].pos
  <2>1. i + 1 \in 1 .. m /\ i + 1 # 1 /\ i + 1 - 1 = i
    BY <1>1
  <2>2. Behind(e, i + 1) = e[i].pos
    BY <2>1 DEF Behind
  <2> QED
    BY <1>2, <2>1, <2>2
<1>5. ASSUME NEW x \in Codes(d), ~(Behind(e, m + 1) < x) PROVE \E i \in 1 .. m : e[i].pos = x
  <2>1. x \in Nat /\ 0 < x
    BY LenProperties DEF Codes
  <2> DEFINE S == {i \in 1 .. m : x <= e[i].pos}
  <2>2. m \in S
    <3>1. m # 0
      BY <1>5, <2>1 DEF Behind
    <3>2. m \in 1 .. m /\ m + 1 # 1 /\ m + 1 - 1 = m
      BY <1>1, <3>1
    <3>3. Behind(e, m + 1) = e[m].pos /\ e[m].pos \in Nat
      BY <1>2, <3>2 DEF Behind
    <3> QED
      BY <1>5, <2>1, <3>2, <3>3
  <2>3. S \in SUBSET Nat
    OBVIOUS
  <2>4. PICK i \in S : \A j \in S : i <= j
    <3> HIDE DEF S
    <3> QED
      BY <2>2, <2>3, Smallest
  <2>5. i \in 1 .. m /\ x <= e[i].pos
    BY <2>4
  <2>6. Behind(e, i) < x
    <3>1. CASE i = 1
      BY <2>1, <3>1 DEF Behind
    <3>2. CASE i # 1
      <4>1. i - 1 \in 1 .. m /\ ~(i <= i - 1)
        BY <1>1, <2>5, <3>2
      <4>2. i - 1 \notin S
        BY <2>4, <4>1
      <4>3. ~(x <= e[i - 1].pos) /\ e[i - 1].pos \in Nat
        BY <1>2, <4>1, <4>2
      <4> QED
        BY <2>1, <3>2, <4>3 DEF Behind
    <3> QED
      BY <3>1, <3>2
  <2>7. ~(x <= e[i].pos - 1)
    BY <1>2, <2>5, <2>6 DEF NoneIn
  <2>8. e[i].pos \in Nat
    BY <1>2, <2>5
  <2> HIDE DEF S
  <2>9. e[i].pos = x
    <3> DEFINE q == e[i].pos
    <3>1. q \in Nat /\ x <= q /\ ~(x <= q - 1)
      BY <2>5, <2>7, <2>8
    <3> HIDE DEF q
    <3>2. q = x
      BY <2>1, <3>1
    <3> QED
      BY <3>2 DEF q
  <2> QED
    BY <2>5, <2>9
<1> QED
  BY <1>2, <1>3, <1>4, <1>5 DEF m

\* The definition of the units gives each start code the prefix that the search gives it.
Before(codes, i) == IF i = 1 THEN 0 ELSE codes[i - 1]
Prefixed(d, codes, n) == [i \in 1 .. n |-> Found(codes[i], PrefixAt(d, Before(codes, i), codes[i]))]

\* The units by their definition, from the start codes in order.
LEMMA ReferenceIs ==
  ASSUME NEW d, NEW n \in Nat, NEW codes \in [1 .. n -> Int], InOrder(Codes(d)) = codes
  PROVE  ReferenceUnits(d) = UnitsAt(Prefixed(d, codes, n), d)
<1> DEFINE prefix(i) == LET least == IF i = 1 THEN 1 ELSE codes[i - 1] + 1
                        IN  IF codes[i] - 3 >= least /\ d[codes[i] - 3] = 0 THEN 4 ELSE 3
<1>1. ReferenceUnits(d) = UnitsAt([i \in DOMAIN codes |-> Found(codes[i], prefix(i))], d)
  BY DEF ReferenceUnits
<1>2. DOMAIN codes = 1 .. n
  OBVIOUS
<1>3. ASSUME NEW i \in 1 .. n PROVE prefix(i) = PrefixAt(d, Before(codes, i), codes[i])
  <2>1. CASE i = 1
    <3>1. 0 + 1 = 1
      OBVIOUS
    <3> QED
      BY <2>1, <3>1 DEF PrefixAt, Before
  <2>2. CASE i # 1
    BY <2>2 DEF PrefixAt, Before
  <2> QED
    BY <2>1, <2>2
<1> HIDE DEF prefix
<1>4. [i \in DOMAIN codes |-> Found(codes[i], prefix(i))] = Prefixed(d, codes, n)
  BY <1>2, <1>3 DEF Prefixed
<1> QED
  BY <1>1, <1>4

\* If the start codes found are all there are, the units are those of the definition;
LEMMA AllFound ==
  ASSUME NEW d \in Seq(Int), NEW e \in Seq(Code), Leads(d, e),
         \A x \in Codes(d) : \E i \in 1 .. Len(e) : e[i].pos = x
  PROVE  UnitsAt(e, d) = ReferenceUnits(d)
<1> DEFINE m == Len(e)
           q == [i \in 1 .. m |-> e[i].pos]
<1>1. m \in Nat /\ DOMAIN e = 1 .. m
  BY LenProperties
<1>2. /\ \A i \in 1 .. m : e[i].pos \in Codes(d)
      /\ \A i \in 1 .. m - 1 : e[i].pos < e[i + 1].pos
  BY CodesInOrder
<1>3. \A i \in 1 .. m : e[i] \in Code /\ FoundNext(d, Behind(e, i), e[i])
  BY ElementOfSeq DEF Leads
<1>4. Codes(d) \in SUBSET Int
  BY LenProperties DEF Codes
<1>5. \A x \in Codes(d) : \E i \in 1 .. m : e[i].pos = x
  OBVIOUS
<1> HIDE DEF m
<1>6. q \in [1 .. m -> Codes(d)] /\ \A i \in 1 .. m : q[i] = e[i].pos
  BY <1>2
<1>7. \A i \in 1 .. m - 1 : q[i] < q[i + 1]
  <2> SUFFICES ASSUME NEW i \in 1 .. m - 1 PROVE q[i] < q[i + 1]
    OBVIOUS
  <2>1. i \in 1 .. m /\ i + 1 \in 1 .. m
    BY <1>1
  <2> HIDE DEF q
  <2> QED
    BY <1>2, <1>6, <2>1
<1> HIDE DEF q
<1>8. \A x \in Codes(d) : \E i \in 1 .. m : q[i] = x
  BY <1>5, <1>6
<1>9. InOrder(Codes(d)) = q
  BY <1>1, <1>4, <1>6, <1>7, <1>8, InOrderIs
<1>10. ReferenceUnits(d) = UnitsAt(Prefixed(d, q, m), d)
  <2>1. q \in [1 .. m -> Int]
    BY <1>4, <1>6
  <2> QED
    BY <1>1, <1>9, <2>1, ReferenceIs
<1>11. Prefixed(d, q, m) = e
  <2>1. ASSUME NEW i \in 1 .. m PROVE Found(q[i], PrefixAt(d, Before(q, i), q[i])) = e[i]
    <3>1. Before(q, i) = Behind(e, i)
      <4>1. CASE i = 1
        BY <4>1 DEF Before, Behind
      <4>2. CASE i # 1
        <5>1. i - 1 \in 1 .. m
          BY <1>1, <4>2
        <5> QED
          BY <1>6, <4>2, <5>1 DEF Before, Behind
      <4> QED
        BY <4>1, <4>2
    <3>2. e[i].prefix = PrefixAt(d, Behind(e, i), e[i].pos)
      BY <1>3 DEF FoundNext
    <3>3. e[i] \in Code /\ q[i] = e[i].pos
      BY <1>3, <1>6
    <3>4. e[i] = [pos |-> e[i].pos, prefix |-> e[i].prefix]
      BY <3>3 DEF Code
    <3> QED
      BY <3>1, <3>2, <3>3, <3>4 DEF Found
  <2>2. e = [i \in 1 .. m |-> e[i]]
    BY <1>1
  <2> QED
    BY <2>1, <2>2 DEF Prefixed
<1> QED
  BY <1>10, <1>11

\* if they are all but one, the last two units of the definition are one.
LEMMA OneMissed ==
  ASSUME NEW d \in Seq(Int), NEW e \in Seq(Code), Leads(d, e),
         NEW z \in Codes(d), Behind(e, Len(e) + 1) < z,
         \A x \in Codes(d) : x = z \/ \E i \in 1 .. Len(e) : e[i].pos = x
  PROVE  LET us == ReferenceUnits(d)
         IN  /\ us # <<>> /\ Last(us).to - Last(us).from = Len(d) - z
             /\ UnitsAt(e, d) = Swallowed(us)
<1> DEFINE m == Len(e)
           n == m + 1
           q == [i \in 1 .. n |-> IF i = n THEN z ELSE e[i].pos]
           r == Prefixed(d, q, n)
           us == ReferenceUnits(d)
<1>1. m \in Nat /\ DOMAIN e = 1 .. m /\ n \in Nat /\ n - 1 = m /\ Len(d) \in Nat
  BY LenProperties
<1>2. /\ \A i \in 1 .. m : e[i].pos \in Codes(d)
      /\ \A i \in 1 .. m - 1 : e[i].pos < e[i + 1].pos
  BY CodesInOrder
<1>3. \A i \in 1 .. m : e[i] \in Code /\ FoundNext(d, Behind(e, i), e[i])
  BY ElementOfSeq DEF Leads
<1>4. Codes(d) \in SUBSET Int
  BY LenProperties DEF Codes
<1>5. /\ \A x \in Codes(d) : x = z \/ \E i \in 1 .. m : e[i].pos = x
      /\ Behind(e, n) < z
  OBVIOUS
<1> HIDE DEF m
<1>6. q \in [1 .. n -> Codes(d)] /\ q[n] = z /\ \A i \in 1 .. m : q[i] = e[i].pos
  <2>1. \A i \in 1 .. n : i # n => i \in 1 .. m
    BY <1>1
  <2>2. q \in [1 .. n -> Codes(d)]
    BY <1>2, <2>1
  <2>3. n \in 1 .. n /\ \A i \in 1 .. m : i \in 1 .. n /\ i # n
    BY <1>1
  <2> QED
    BY <2>2, <2>3
<1> HIDE DEF q
<1>7. ASSUME NEW i \in 1 .. n - 1 PROVE q[i] < q[i + 1]
  <2>1. i \in 1 .. m
    BY <1>1
  <2>2. CASE i = m
    <3>1. i + 1 = n /\ n # 1
      BY <1>1, <2>1, <2>2
    <3>2. Behind(e, n) = e[i].pos
      BY <1>1, <2>2, <3>1 DEF Behind
    <3> QED
      BY <1>5, <1>6, <2>1, <3>1, <3>2
  <2>3. CASE i # m
    <3>1. i \in 1 .. m - 1 /\ i + 1 \in 1 .. m
      BY <1>1, <2>1, <2>3
    <3> QED
      BY <1>2, <1>6, <2>1, <3>1
  <2> QED
    BY <2>2, <2>3
<1>8. ASSUME NEW x \in Codes(d) PROVE \E i \in 1 .. n : q[i] = x
  <2>1. n \in 1 .. n /\ \A i \in 1 .. m : i \in 1 .. n
    BY <1>1
  <2> QED
    BY <1>5, <1>6, <2>1
<1>9. InOrder(Codes(d)) = q
  <2> HIDE DEF n
  <2> QED
    BY <1>1, <1>4, <1>6, <1>7, <1>8, InOrderIs
<1>10. us = UnitsAt(r, d)
  <2>1. q \in [1 .. n -> Int]
    BY <1>4, <1>6
  <2> HIDE DEF n
  <2> QED
    BY <1>1, <1>9, <2>1, ReferenceIs
<1>11. r = [i \in 1 .. n |-> r[i]] /\ Len(r) = n /\ DOMAIN r = 1 .. n
  <2>1. r = [i \in 1 .. n |-> r[i]]
    BY DEF Prefixed
  <2> HIDE DEF r, n
  <2> QED
    BY <1>1, <2>1
<1>12. r[n].pos = z
  <2>1. n \in 1 .. n
    BY <1>1
  <2> QED
    BY <1>6, <2>1 DEF Prefixed, Found
<1>13. ASSUME NEW i \in 1 .. m PROVE r[i] = e[i]
  <2>1. i \in 1 .. n
    BY <1>1
  <2>2. Before(q, i) = Behind(e, i)
    <3>1. CASE i = 1
      BY <3>1 DEF Before, Behind
    <3>2. CASE i # 1
      <4>1. i - 1 \in 1 .. m
        BY <1>1, <3>2
      <4> QED
        BY <1>6, <3>2, <4>1 DEF Before, Behind
    <3> QED
      BY <3>1, <3>2
  <2>3. e[i].prefix = PrefixAt(d, Behind(e, i), e[i].pos)
    BY <1>3 DEF FoundNext
  <2>4. e[i] \in Code /\ q[i] = e[i].pos
    BY <1>3, <1>6
  <2>5. e[i] = [pos |-> e[i].pos, prefix |-> e[i].prefix]
    BY <2>4 DEF Code
  <2>6. r[i] = Found(q[i], PrefixAt(d, Before(q, i), q[i]))
    BY <2>1 DEF Prefixed
  <2> QED
    BY <2>2, <2>3, <2>4, <2>5, <2>6 DEF Found
<1> HIDE DEF r, us
<1> DEFINE v == UnitsAt(e, d)
<1>14. /\ v = [i \in 1 .. m |-> v[i]]
       /\ \A i \in 1 .. m : v[i] = Part(e[i].pos,
                                         IF i < m THEN e[i + 1].pos - e[i + 1].prefix ELSE Len(d))
  BY <1>1 DEF UnitsAt, m, Part
<1>15. /\ us = [i \in 1 .. n |-> us[i]]
       /\ \A i \in 1 .. n : us[i] = Part(r[i].pos,
                                          IF i < n THEN r[i + 1].pos - r[i + 1].prefix ELSE Len(d))
  <2> HIDE DEF n
  <2> QED
    BY <1>10, <1>11 DEF UnitsAt, Part
<1> HIDE DEF v
<1>16. Len(us) = n /\ n # 0 /\ us[n] = Part(z, Len(d)) /\ Last(us) = us[n]
  <2>1. n \in 1 .. n /\ ~(n < n) /\ n # 0
    BY <1>1
  <2>2. Len(us) = n
    <3> HIDE DEF n
    <3> QED
      BY <1>1, <1>15
  <2>3. us[n] = Part(z, Len(d))
    BY <1>12, <1>15, <2>1
  <2> QED
    BY <2>1, <2>2, <2>3 DEF Last
<1>17. us # <<>>
  <2>1. Len(<<>>) = 0
    OBVIOUS
  <2> QED
    BY <1>16, <2>1, Zenon
<1>18. Last(us).to - Last(us).from = Len(d) - z
  BY <1>16 DEF Part
<1>19. v = Swallowed(us)
  <2>1. CASE m = 0
    <3>1. Len(us) < 2
      BY <1>16, <2>1
    <3>2. Swallowed(us) = <<>>
      BY <3>1 DEF Swallowed
    <3>3. v = <<>>
      BY <1>14, <2>1
    <3> QED
      BY <3>2, <3>3
  <2>2. CASE m # 0
    <3> DEFINE p == SubSeq(us, 1, n - 2)
               last == Part(us[n - 1].from, Last(us).to)
    <3>1. /\ ~(Len(us) < 2) /\ n - 2 = m - 1 /\ n - 1 = m /\ m - 1 \in Nat
          /\ m \in 1 .. n /\ m \in 1 .. m /\ ~(m < m)
      BY <1>1, <1>16, <2>2
    <3>2. Swallowed(us) = Append(p, last)
      BY <1>16, <3>1 DEF Swallowed
    <3>3. last = v[m]
      <4>1. us[m].from = r[m].pos
        BY <1>15, <3>1 DEF Part
      <4>2. r[m].pos = e[m].pos
        BY <1>13, <3>1
      <4>3. Last(us).to = Len(d)
        BY <1>16 DEF Part
      <4>4. v[m] = Part(e[m].pos, Len(d))
        BY <1>14, <3>1
      <4> QED
        BY <3>1, <4>1, <4>2, <4>3, <4>4
    <3>4. ASSUME NEW i \in 1 .. m - 1 PROVE us[i] = v[i]
      <4>1. i \in 1 .. m /\ i + 1 \in 1 .. m /\ i \in 1 .. n /\ i < m /\ i < n
        BY <1>1
      <4>2. r[i] = e[i] /\ r[i + 1] = e[i + 1]
        BY <1>13, <4>1
      <4> QED
        BY <1>14, <1>15, <4>1, <4>2
    <3> DEFINE U == {us[i] : i \in 1 .. m}
    <3>5. p \in Seq(U) /\ Len(p) = m - 1 /\ \A i \in 1 .. m - 1 : p[i] = us[i]
      <4>1. \A i \in 1 .. m - 1 : us[i] \in U
        BY <1>1
      <4> HIDE DEF U
      <4>2. 1 \in Int /\ m - 1 \in Int
        BY <3>1
      <4>3. p = SubSeq(us, 1, m - 1)
        BY <3>1
      <4>4. /\ SubSeq(us, 1, m - 1) \in Seq(U)
            /\ Len(SubSeq(us, 1, m - 1)) = IF 1 <= m - 1 THEN m - 1 - 1 + 1 ELSE 0
            /\ \A i \in 1 .. m - 1 - 1 + 1 : SubSeq(us, 1, m - 1)[i] = us[1 + i - 1]
        BY <4>1, <4>2, SubSeqProperties
      <4>5. Len(p) = m - 1
        BY <3>1, <4>3, <4>4
      <4>6. ASSUME NEW i \in 1 .. m - 1 PROVE p[i] = us[i]
        <5>1. i \in 1 .. m - 1 - 1 + 1 /\ 1 + i - 1 = i
          BY <3>1
        <5> QED
          BY <4>3, <4>4, <5>1
      <4> QED
        BY <4>3, <4>4, <4>5, <4>6
    <3> HIDE DEF p, last, U
    <3> DEFINE W == U \cup {last}
               a == Append(p, last)
    <3>6. p \in Seq(W) /\ last \in W
      BY <3>5
    <3> HIDE DEF W
    <3>7. /\ a \in Seq(W) /\ Len(a) = m - 1 + 1
          /\ (\A i \in 1 .. m - 1 : a[i] = p[i]) /\ a[m - 1 + 1] = last
      BY <3>5, <3>6, AppendProperties
    <3> HIDE DEF a
    <3>8. m - 1 + 1 = m
      BY <1>1
    <3>9. ASSUME NEW i \in 1 .. m PROVE a[i] = v[i]
      <4>1. CASE i = m
        BY <3>3, <3>7, <3>8, <4>1
      <4>2. CASE i # m
        <5>1. i \in 1 .. m - 1
          BY <1>1, <4>2
        <5> QED
          BY <3>4, <3>5, <3>7, <5>1
      <4> QED
        BY <4>1, <4>2
    <3>10. a = [i \in 1 .. m |-> a[i]]
      BY <3>7, <3>8, LenProperties
    <3>11. a = v
      BY <1>14, <3>9, <3>10
    <3> QED
      BY <3>2, <3>11 DEF a
  <2> QED
    BY <2>1, <2>2
<1> QED
  BY <1>17, <1>18, <1>19 DEF us, v

\* The search cuts a frame into its units by their definition, but for a short last one.
LEMMA UnitsAreReference ==
  ASSUME NEW d \in Seq(Int)
  PROVE  \/ scl(d, CodeRange) = ReferenceUnits(d)
         \/ Short(ReferenceUnits(d)) /\ scl(d, CodeRange) = Swallowed(ReferenceUnits(d))
<1> DEFINE e == AllCodes(d, CodeRange)
           from == Behind(e, Len(e) + 1)
           us == ReferenceUnits(d)
<1>1. CodeRange \in {1, 4}
  BY DEF CodeRange
<1>2. e \in Seq(Code) /\ Leads(d, e) /\ NoneLeft(d, CodeRange, from)
  BY <1>1, AllCodesLead
<1>3. scl(d, CodeRange) = UnitsAt(e, d)
  BY DEF scl
<1> HIDE DEF e, us
<1>4. \A x \in Codes(d) : from < x \/ \E i \in 1 .. Len(e) : e[i].pos = x
  BY <1>2, CodesInOrder
<1>5. CASE \A x \in Codes(d) : ~(from < x)
  <2>1. \A x \in Codes(d) : \E i \in 1 .. Len(e) : e[i].pos = x
    BY <1>4, <1>5
  <2> QED
    BY <1>2, <1>3, <2>1, AllFound
<1>6. ASSUME NEW z \in Codes(d), from < z
      PROVE  Short(us) /\ scl(d, CodeRange) = Swallowed(us)
  <2>1. \A x \in Codes(d) : x \in Nat /\ x <= Len(d) /\ (from < x => x > Len(d) - Tail3(CodeRange))
    <3>1. \A x \in Codes(d) : x \in Nat /\ x <= Len(d)
      BY LenProperties DEF Codes
    <3> QED
      BY <1>2, <3>1 DEF NoneLeft
  <2>2. Len(d) \in Nat
    BY LenProperties
  <2>3. ASSUME NEW x \in Codes(d), from < x PROVE x = z
    <3>1. x > Len(d) - 3 /\ z > Len(d) - 3 /\ x \in Nat /\ z \in Nat /\ x <= Len(d) /\ z <= Len(d)
      BY <1>6, <2>1, <2>2, <2>3 DEF Tail3
    <3>2. x < z => x + 3 <= z
      BY CodesApart, <2>3, <1>6
    <3>3. z < x => z + 3 <= x
      BY CodesApart, <2>3, <1>6
    <3> QED
      BY <2>2, <3>1, <3>2, <3>3
  <2>4. \A x \in Codes(d) : x = z \/ \E i \in 1 .. Len(e) : e[i].pos = x
    BY <1>4, <2>3
  <2>5. us # <<>> /\ Last(us).to - Last(us).from = Len(d) - z /\ UnitsAt(e, d) = Swallowed(us)
    BY <1>2, <1>6, <2>4, OneMissed DEF us
  <2>6. Len(d) - z <= (IF CodeRange = 4 THEN 2 ELSE 0)
    BY <1>1, <1>6, <2>1, <2>2 DEF Tail3
  <2> QED
    BY <1>3, <2>5, <2>6 DEF Short
<1> QED
  BY <1>5, <1>6 DEF us

-----------------------------------------------------------------------------
(* What a receiver makes of packets.                                       *)

SameLoad(p, q) == p.kind = q.kind /\ p.parts = q.parts

\* A receiver looks at nothing else of a packet.
LEMMA SameReceived ==
  ASSUME NEW us, NEW p, NEW q, SameLoad(p, q)
  PROVE  Receive(us, p) = Receive(us, q)
BY DEF SameLoad, Receive

\* It takes one packet after the other.
Takes1(f, ps, n) == f[0] = <<>> /\ \A i \in 1 .. n : f[i] = Receive(f[i - 1], ps[i])

\* Its recursion has a solution, which is what it makes of the packets.
LEMMA ReceivedIs ==
  ASSUME NEW ps, Len(ps) \in Nat
  PROVE  \E f : Takes1(f, ps, Len(ps)) /\ Received(ps) = f[Len(ps)]
<1> DEFINE N == Len(ps)
           After(g) == [n \in 0 .. N |-> IF n = 0 THEN <<>> ELSE Receive(g[n - 1], ps[n])]
           Is(f, k) == /\ f = [n \in 0 .. k |-> f[n]] /\ Takes1(f, ps, k)
           T == {k \in 0 .. N : \E f : Is(f, k)}
<1>1. 0 \in T
  <2> DEFINE h == [n \in 0 .. 0 |-> <<>>]
  <2>1. h = [n \in 0 .. 0 |-> h[n]] /\ h[0] = <<>>
    OBVIOUS
  <2> HIDE DEF h
  <2>2. Is(h, 0)
    BY <2>1 DEF Takes1
  <2>3. 0 \in 0 .. N
    OBVIOUS
  <2> QED
    BY <2>2, <2>3
<1>2. ASSUME NEW k \in 1 .. N, k - 1 \in T PROVE k \in T
  <2>1. PICK f : Is(f, k - 1)
    BY <1>2
  <2> DEFINE last == Receive(f[k - 1], ps[k])
  <2> HIDE DEF last
  <2> DEFINE h == [n \in 0 .. k |-> IF n = k THEN last ELSE f[n]]
  <2>2. /\ k \in Nat /\ 0 \in 0 .. k /\ k # 0
        /\ \A n \in 1 .. k : n - 1 \in 0 .. k /\ n - 1 # k /\ n \in 0 .. k
                             /\ (n # k => n \in 1 .. k - 1)
    OBVIOUS
  <2>3. f[0] = <<>> /\ \A n \in 1 .. k - 1 : f[n] = Receive(f[n - 1], ps[n])
    BY <2>1 DEF Takes1
  <2>4. h[0] = <<>> /\ \A n \in 0 .. k : h[n] = IF n = k THEN last ELSE f[n]
    BY <2>2, <2>3
  <2>5. h = [n \in 0 .. k |-> h[n]]
    OBVIOUS
  <2> HIDE DEF h
  <2>6. ASSUME NEW n \in 1 .. k PROVE h[n] = Receive(h[n - 1], ps[n])
    <3>1. h[n - 1] = f[n - 1]
      BY <2>2, <2>4
    <3>2. CASE n = k
      BY <2>2, <2>4, <3>1, <3>2 DEF last
    <3>3. CASE n # k
      BY <2>2, <2>3, <2>4, <3>1, <3>3
    <3> QED
      BY <3>2, <3>3
  <2>7. Is(h, k)
    BY <2>4, <2>5, <2>6 DEF Takes1
  <2>8. k \in 0 .. N
    OBVIOUS
  <2> QED
    BY <2>7, <2>8
<1> HIDE DEF T
<1>3. \A k \in 0 .. N : k \in T
  BY <1>1, <1>2, Induction
<1>4. PICK f : Is(f, N)
  <2>1. N \in T
    BY <1>3
  <2> QED
    BY <2>1 DEF T
<1>5. f = After(f)
  <2>1. f[0] = <<>> /\ \A n \in 1 .. N : f[n] = Receive(f[n - 1], ps[n])
    BY <1>4 DEF Takes1
  <2>2. \A n \in 0 .. N : f[n] = IF n = 0 THEN <<>> ELSE Receive(f[n - 1], ps[n])
    <3> SUFFICES ASSUME NEW n \in 0 .. N
                 PROVE  f[n] = IF n = 0 THEN <<>> ELSE Receive(f[n - 1], ps[n])
      OBVIOUS
    <3>1. CASE n = 0
      BY <2>1, <3>1
    <3>2. CASE n # 0
      BY <2>1, <3>2
    <3> QED
      BY <3>1, <3>2
  <2>3. f = [n \in 0 .. N |-> f[n]]
    BY <1>4
  <2> QED
    BY <2>2, <2>3
<1> DEFINE g == CHOOSE g : g = After(g)
<1>6. g = After(g)
  BY <1>5
<1>7. Received(ps) = g[N]
  BY DEF Received
<1> HIDE DEF g
<1>8. Takes1(g, ps, N)
  <2>1. g[0] = <<>>
    <3>1. 0 \in 0 .. N
      OBVIOUS
    <3> QED
      BY <1>6, <3>1
  <2>2. ASSUME NEW n \in 1 .. N PROVE g[n] = Receive(g[n - 1], ps[n])
    <3>1. n \in 0 .. N /\ n # 0
      OBVIOUS
    <3>2. g[n] = After(g)[n]
      BY <1>6
    <3> QED
      BY <3>1, <3>2
  <2> QED
    BY <2>1, <2>2 DEF Takes1
<1> QED
  BY <1>7, <1>8

\* What a receiver makes of ps goes on from what it makes of w, its first m packets.
Onto(f, w, ps, m) ==
    /\ f[m] = Received(w) /\ f[Len(ps)] = Received(ps)
    /\ \A n \in m + 1 .. Len(ps) : f[n] = Receive(f[n - 1], ps[n])

\* If the first packets carry the same, the others go on from there.
LEMMA ReceivedOnto ==
  ASSUME NEW w, NEW ps, NEW m, m = Len(w), m \in Nat, Len(ps) \in Nat, m <= Len(ps),
         \A i \in 1 .. m : SameLoad(w[i], ps[i])
  PROVE  \E f : Onto(f, w, ps, m)
<1>1. PICK g : Takes1(g, w, m) /\ Received(w) = g[m]
  BY ReceivedIs
<1>2. PICK f : Takes1(f, ps, Len(ps)) /\ Received(ps) = f[Len(ps)]
  BY ReceivedIs
<1> DEFINE T == {n \in 0 .. m : f[n] = g[n]}
<1>3. 0 \in T
  BY <1>1, <1>2 DEF Takes1
<1>4. ASSUME NEW n \in 1 .. m, n - 1 \in T PROVE n \in T
  <2>1. n \in 1 .. Len(ps) /\ n \in 0 .. m
    OBVIOUS
  <2>2. g[n] = Receive(g[n - 1], w[n]) /\ f[n] = Receive(f[n - 1], ps[n])
    BY <1>1, <1>2, <2>1 DEF Takes1
  <2>3. Receive(g[n - 1], w[n]) = Receive(g[n - 1], ps[n])
    BY SameReceived
  <2> QED
    BY <1>4, <2>1, <2>2, <2>3
<1> HIDE DEF T
<1>5. \A n \in 0 .. m : n \in T
  BY <1>3, <1>4, Induction
<1>6. f[m] = g[m]
  <2>1. m \in T
    BY <1>5
  <2> QED
    BY <2>1 DEF T
<1>7. \A n \in m + 1 .. Len(ps) : f[n] = Receive(f[n - 1], ps[n])
  <2>1. \A n \in m + 1 .. Len(ps) : n \in 1 .. Len(ps)
    OBVIOUS
  <2> QED
    BY <1>2, <2>1 DEF Takes1
<1> QED
  BY <1>1, <1>2, <1>6, <1>7 DEF Onto

\* Packets that carry the same make the same units,
LEMMA ReceivedSame ==
  ASSUME NEW w, NEW ps, Len(w) \in Nat, Len(ps) = Len(w),
         \A i \in 1 .. Len(w) : SameLoad(w[i], ps[i])
  PROVE  Received(ps) = Received(w)
<1> DEFINE m == Len(w)
<1>1. /\ m \in Nat /\ m = Len(w) /\ Len(ps) = m /\ m <= Len(ps)
      /\ \A i \in 1 .. m : SameLoad(w[i], ps[i])
  OBVIOUS
<1> HIDE DEF m
<1>2. PICK f : Onto(f, w, ps, m)
  BY <1>1, ReceivedOnto
<1> QED
  BY <1>1, <1>2 DEF Onto

\* and one packet more makes what it adds to them.
LEMMA ReceivedOne ==
  ASSUME NEW w, NEW ps, NEW n \in Nat, Len(w) + 1 = n, Len(w) \in Nat, Len(ps) = n,
         \A i \in 1 .. Len(w) : SameLoad(w[i], ps[i])
  PROVE  Received(ps) = Receive(Received(w), ps[n])
<1> DEFINE m == Len(w)
<1>1. /\ m \in Nat /\ m = Len(w) /\ Len(ps) = n /\ m <= Len(ps)
      /\ \A i \in 1 .. m : SameLoad(w[i], ps[i])
      /\ n - 1 = m /\ n \in m + 1 .. n
  OBVIOUS
<1> HIDE DEF m
<1>2. PICK f : Onto(f, w, ps, m)
  BY <1>1, ReceivedOnto
<1> QED
  BY <1>1, <1>2 DEF Onto

\* The last of a sequence that was appended to.
LEMMA AppendLast ==
  ASSUME NEW us \in Seq(Parts), NEW u \in Parts
  PROVE  /\ Append(us, u) \in Seq(Parts) /\ Append(us, u) # <<>>
         /\ Last(Append(us, u)) = u /\ Front(Append(us, u)) = us
<1> DEFINE n == Len(us)
           v == Append(us, u)
<1>1. n \in Nat /\ DOMAIN us = 1 .. n /\ us = [i \in 1 .. n |-> us[i]]
  BY LenProperties
<1>2. v \in Seq(Parts) /\ Len(v) = n + 1 /\ v[n + 1] = u /\ \A i \in 1 .. n : v[i] = us[i]
  BY AppendProperties
<1> HIDE DEF v
<1>3. v # <<>>
  <2>1. Len(<<>>) = 0 /\ n + 1 # 0
    BY <1>1
  <2> QED
    BY <1>2, <2>1, Zenon
<1>4. Last(v) = u
  BY <1>2 DEF Last
<1>5. Front(v) = us
  <2>1. Front(v) = SubSeq(v, 1, n)
    BY <1>1, <1>2 DEF Front
  <2> DEFINE f == SubSeq(v, 1, n)
  <2>2. f = [i \in 1 .. n |-> v[i]]
    BY <1>1, <1>2, SubSeqProperties
  <2> QED
    BY <1>1, <1>2, <2>1, <2>2
<1> QED
  BY <1>2, <1>3, <1>4, <1>5 DEF v

More == {"middle", "end", "fragment"}

\* A fragment makes the last unit longer.
LEMMA ReceiveMore ==
  ASSUME NEW us \in Seq(Parts), NEW x \in Int, NEW y \in Int, NEW z \in Int,
         NEW p, p.kind \in More, p.parts = <<Part(y, z)>>
  PROVE  Receive(Append(us, Part(x, y)), p) = Append(us, Part(x, z))
<1> DEFINE v == Append(us, Part(x, y))
<1>1. Part(x, y) \in Parts
  BY DEF Part, Parts
<1>2. v # <<>> /\ Last(v) = Part(x, y) /\ Front(v) = us
  BY <1>1, AppendLast
<1> HIDE DEF v
<1>3. p.parts[1].from = y /\ p.parts[1].to = z /\ Last(v).from = x /\ Last(v).to = y
  BY <1>2 DEF Part
<1>4. p.kind \notin {"single", "bundle"} /\ p.kind # "start"
  BY DEF More
<1>5. Receive(v, p) = Append(Front(v), Part(Last(v).from, p.parts[1].to))
  BY <1>2, <1>3, <1>4 DEF Receive
<1> QED
  BY <1>2, <1>3, <1>5 DEF v

\* Pieces that meet cover what lies between the first and the last.
Meet(pieces, k, to) ==
    /\ pieces \in [1 .. k -> Parts]
    /\ \A i \in 1 .. k - 1 : pieces[i + 1].from = pieces[i].to
    /\ pieces[k].to = to

\* Behind the first m packets, those of w, k carry the pieces.
InPieces(ps, w, m, k, pieces) ==
    /\ m = Len(w) /\ m \in Nat /\ k \in Nat \ {0} /\ Len(ps) = m + k
    /\ \A i \in 1 .. m : SameLoad(w[i], ps[i])
    /\ \A i \in 1 .. k : ps[m + i].parts = <<pieces[i]>>
    /\ \A i \in 2 .. k : ps[m + i].kind \in More

\* The first of them begins a unit at x.
Begins(ps, w, m, pieces, x) ==
    Receive(Received(w), ps[m + 1]) = Append(Received(w), Part(x, pieces[1].to))

\* Packets of pieces that meet make one unit more.
LEMMA ReceivedPieces ==
  ASSUME NEW w, NEW ps, NEW m, NEW k, Received(w) \in Seq(Parts),
         NEW pieces, NEW to \in Int, Meet(pieces, k, to), InPieces(ps, w, m, k, pieces), NEW x \in Int,
         Begins(ps, w, m, pieces, x)
  PROVE  Received(ps) = Append(Received(w), Part(x, to))
<1> DEFINE R == Received(w)
           N == Len(ps)
<1>0. /\ m = Len(w) /\ m \in Nat /\ k \in Nat \ {0}
      /\ \A i \in 1 .. m : SameLoad(w[i], ps[i])
      /\ \A i \in 1 .. k : ps[m + i].parts = <<pieces[i]>>
      /\ \A i \in 2 .. k : ps[m + i].kind \in More
  BY DEF InPieces
<1>1. N \in Nat /\ m <= N /\ N = m + k /\ R \in Seq(Parts) /\ k \in Nat \ {0} /\ m \in Nat
  BY DEF InPieces
<1>2. PICK f : /\ f[m] = R /\ f[N] = Received(ps)
               /\ \A n \in m + 1 .. N : f[n] = Receive(f[n - 1], ps[n])
  <2>1. PICK f : Onto(f, w, ps, m)
    BY <1>1, <1>0, ReceivedOnto
  <2> QED
    BY <2>1 DEF Onto
<1>3. Receive(R, ps[m + 1]) = Append(R, Part(x, pieces[1].to))
  BY DEF Begins
<1> HIDE DEF R, N
<1> DEFINE Is(j) == f[m + (j + 1)] = Append(R, Part(x, pieces[j + 1].to))
           T == {j \in 0 .. k - 1 : Is(j)}
<1>4. 0 \in T
  <2>1. 0 \in 0 .. k - 1 /\ 0 + 1 = 1 /\ m + 1 \in m + 1 .. N /\ (m + 1) - 1 = m
    BY <1>1
  <2>2. f[m + 1] = Receive(R, ps[m + 1])
    BY <1>2, <2>1
  <2> QED
    BY <1>3, <2>1, <2>2
<1>5. ASSUME NEW j \in 1 .. k - 1, j - 1 \in T PROVE j \in T
  <2> DEFINE i == j + 1
             n == m + i
  <2>1. /\ j \in 0 .. k - 1 /\ i \in 2 .. k /\ i \in 1 .. k /\ n \in m + 1 .. N
        /\ (j - 1) + 1 = j /\ n - 1 = m + j /\ j \in 1 .. k /\ j \in 1 .. k - 1
    BY <1>1
  <2>2. f[n] = Receive(f[n - 1], ps[n])
    BY <1>2, <2>1
  <2>3. f[m + j] = Append(R, Part(x, pieces[j].to))
    BY <1>5, <2>1
  <2>4. ps[n].kind \in More /\ ps[n].parts = <<pieces[i]>>
    BY <1>0, <2>1
  <2>5. pieces[i].from = pieces[j].to /\ pieces[i] \in Parts /\ pieces[j] \in Parts
    BY <2>1 DEF Meet
  <2>6. Is(j) <=> f[n] = Append(R, Part(x, pieces[i].to))
    OBVIOUS
  <2> HIDE DEF i, n, Is
  <2> DEFINE y == pieces[j].to
             z == pieces[i].to
             p == ps[n]
  <2>7. y \in Int /\ z \in Int /\ pieces[i] = Part(y, z)
    BY <2>5 DEF Parts, Part
  <2>8. p.kind \in More /\ p.parts = <<Part(y, z)>>
    BY <2>4, <2>7
  <2>9. f[n] = Receive(Append(R, Part(x, y)), p)
    BY <2>1, <2>2, <2>3
  <2> HIDE DEF y, z, p
  <2>10. Receive(Append(R, Part(x, y)), p) = Append(R, Part(x, z))
    BY <1>1, <2>7, <2>8, ReceiveMore
  <2>11. Is(j)
    BY <2>6, <2>9, <2>10 DEF z
  <2> QED
    BY <2>1, <2>11
<1> HIDE DEF T
<1>6. \A j \in 0 .. k - 1 : j \in T
  <2>1. k - 1 \in Nat
    BY <1>1
  <2> DEFINE K == k - 1
  <2>2. K \in Nat /\ 0 \in T /\ \A j \in 1 .. K : j - 1 \in T => j \in T
    BY <1>4, <1>5, <2>1
  <2> HIDE DEF K
  <2>3. \A j \in 0 .. K : j \in T
    BY <2>2, Induction
  <2> QED
    BY <2>3 DEF K
<1>7. k - 1 \in 0 .. k - 1 /\ (k - 1) + 1 = k
  BY <1>1
<1>8. f[m + k] = Append(R, Part(x, pieces[k].to))
  <2>1. k - 1 \in T
    BY <1>6, <1>7
  <2>2. Is(k - 1)
    BY <2>1 DEF T
  <2> QED
    BY <1>7, <2>2
<1> QED
  BY <1>1, <1>2, <1>8 DEF Meet, R

\* The pieces of a range that is not empty begin with it, meet and end with it.
LEMMA PiecesMeet ==
  ASSUME NEW from \in Int, NEW to \in Int, from < to, NEW size \in Nat \ {0}
  PROVE  LET pieces == Pieces(from, to, size)
             count == Len(pieces)
         IN  /\ count \in Nat \ {0} /\ DOMAIN pieces = 1 .. count
             /\ pieces[1].from = from /\ Meet(pieces, count, to)
<1> DEFINE n == to - from
           sum == n + size - 1
           count == sum \div size
           end(i) == Min({from + i * size, to})
           pieces == [i \in 1 .. count |-> Part(from + (i - 1) * size, end(i))]
<1>1. n \in Nat \ {0} /\ sum \in Nat
  OBVIOUS
<1>2. Pieces(from, to, size) = pieces
  BY DEF Pieces
<1>3. /\ count \in Nat \ {0} /\ n <= count * size
      /\ \A i \in Nat : i < count => i * size < n
  <2>1. sum = n + size - 1
    OBVIOUS
  <2> HIDE DEF n, sum
  <2> DEFINE r == sum % size
  <2>2. count \in Int /\ r \in 0 .. size - 1 /\ sum = size * count + r
    BY <1>1
  <2> HIDE DEF count, r
  <2> DEFINE most == count * size
  <2>3. size * count = most /\ most \in Int
    BY <2>2
  <2>4. ~(count <= 0)
    <3> SUFFICES ASSUME count <= 0 PROVE FALSE
      OBVIOUS
    <3>1. most <= 0
      BY <2>2
    <3> HIDE DEF most
    <3> QED
      BY <1>1, <2>1, <2>2, <2>3, <3>1
  <2>5. n <= most
    <3> HIDE DEF most
    <3> QED
      BY <1>1, <2>1, <2>2, <2>3
  <2>6. ASSUME NEW i \in Nat, i < count PROVE i * size < n
    <3> DEFINE x == i * size
    <3>1. x \in Int /\ x + size <= most
      <4>1. (i + 1) * size <= count * size
        <5>1. i + 1 <= count /\ i + 1 \in Nat
          BY <2>2, <2>6
        <5> DEFINE j == i + 1
                   gap == count - j
        <5>2. j \in Nat /\ gap \in Nat /\ count = j + gap
          BY <2>2, <5>1
        <5> HIDE DEF j, gap
        <5>3. j * size \in Int /\ gap * size \in Nat /\ (j + gap) * size = j * size + gap * size
          BY <5>2
        <5>4. j * size <= count * size
          BY <5>2, <5>3
        <5> QED
          BY <5>4 DEF j
      <4>2. (i + 1) * size = x + size /\ x \in Int
        OBVIOUS
      <4> QED
        BY <4>1, <4>2
    <3> HIDE DEF x, most
    <3>2. x < n
      BY <1>1, <2>1, <2>2, <2>3, <3>1
    <3> QED
      BY <3>2 DEF x
  <2> QED
    BY <2>2, <2>4, <2>5, <2>6
<1>4. n = to - from
  OBVIOUS
<1> HIDE DEF n, sum, count
<1>5. ASSUME NEW i \in 1 .. count
      PROVE  /\ i < count => end(i) = from + i * size
             /\ i = count => end(i) = to
             /\ end(i) \in Int
  <2> DEFINE x == i * size
             y == from + x
             m == Min({y, to})
  <2>1. x \in Int /\ i \in Nat
    OBVIOUS
  <2>2. i < count => x < n
    BY <1>3, <2>1
  <2>3. i = count => n <= x
    BY <1>3
  <2> HIDE DEF x
  <2>4. y \in Int /\ (i < count => y < to) /\ (i = count => to <= y)
    BY <1>1, <1>4, <2>1, <2>2, <2>3
  <2> HIDE DEF y
  <2>5. m \in {y, to} /\ m <= y /\ m <= to
    <3>1. \E z \in {y, to} : \A v \in {y, to} : z <= v
      BY <2>4
    <3>2. m \in {y, to} /\ \A v \in {y, to} : m <= v
      BY <3>1 DEF Min
    <3> QED
      BY <3>2
  <2>6. end(i) = m
    BY DEF y, x
  <2> HIDE DEF m, end
  <2>7. (i < count => m = y) /\ (i = count => m = to) /\ m \in Int
    BY <2>4, <2>5
  <2> QED
    BY <2>6, <2>7 DEF y, x
<1> DEFINE start(i) == from + (i - 1) * size
<1>6. ASSUME NEW i \in 1 .. count PROVE start(i) \in Int
  OBVIOUS
<1>7. start(1) = from
  OBVIOUS
<1>8. ASSUME NEW i \in 1 .. count - 1 PROVE start(i + 1) = end(i)
  <2>1. i \in 1 .. count /\ i < count /\ (i + 1) - 1 = i
    BY <1>3
  <2> HIDE DEF end
  <2> QED
    BY <1>5, <2>1
<1>9. \A i \in 1 .. count : pieces[i].from = start(i) /\ pieces[i].to = end(i)
  <2> SUFFICES ASSUME NEW i \in 1 .. count PROVE pieces[i].from = start(i) /\ pieces[i].to = end(i)
    OBVIOUS
  <2>1. pieces[i] = Part(start(i), end(i))
    OBVIOUS
  <2> HIDE DEF pieces, start, end
  <2> QED
    BY <2>1 DEF Part
<1>10. pieces \in [1 .. count -> Parts]
  <2>1. \A i \in 1 .. count : Part(start(i), end(i)) \in Parts
    <3> SUFFICES ASSUME NEW i \in 1 .. count PROVE Part(start(i), end(i)) \in Parts
      OBVIOUS
    <3> HIDE DEF start, end
    <3> QED
      BY <1>5, <1>6 DEF Part, Parts
  <2> QED
    BY <2>1
<1> HIDE DEF pieces, start, end
<1>11. DOMAIN pieces = 1 .. count /\ Len(pieces) = count
  BY <1>3, <1>10, FunctionIsSeq
<1>12. pieces[1].from = from
  <2>1. 1 \in 1 .. count
    BY <1>3
  <2> QED
    BY <1>7, <1>9, <2>1
<1>13. \A i \in 1 .. count - 1 : pieces[i + 1].from = pieces[i].to
  <2> SUFFICES ASSUME NEW i \in 1 .. count - 1 PROVE pieces[i + 1].from = pieces[i].to
    OBVIOUS
  <2>1. i \in 1 .. count /\ i + 1 \in 1 .. count
    BY <1>3
  <2> QED
    BY <1>8, <1>9, <2>1
<1>14. pieces[count].to = to
  <2>1. count \in 1 .. count
    BY <1>3
  <2> QED
    BY <1>5, <1>9, <2>1
<1> QED
  BY <1>2, <1>3, <1>10, <1>11, <1>12, <1>13, <1>14 DEF Meet

-----------------------------------------------------------------------------
(* What the packets carry.                                                 *)

\* A packet carries what its payload does.
LEMMA EnqueuedLoads ==
  ASSUME TypeInv, active.packets = <<>>, NEW payloads \in Seq(Payload), enqueue_message(payloads)
  PROVE  /\ active'.packets \in Seq(Packets) /\ Len(active'.packets) = Len(payloads)
         /\ next' = next + Len(payloads)
         /\ \A i \in 1 .. Len(payloads) : SameLoad(active'.packets[i], payloads[i])
<1> DEFINE N == Len(payloads)
           packet(i) == update_rtp_header(payloads[i], next + i - 1)
           packets == [i \in 1 .. N |-> packet(i)]
<1>1. N \in Nat /\ DOMAIN payloads = 1 .. N
  BY LenProperties
<1>2. active \in [ts : Int, packets : Seq(Packets)] /\ next \in Nat
  BY DEF TypeInv
<1> HIDE DEF N
<1>3. ASSUME NEW i \in 1 .. N PROVE packet(i) \in Packets /\ SameLoad(packet(i), payloads[i])
  <2> DEFINE p == payloads[i]
             n == next + i - 1
  <2>1. p \in Payload
    BY <1>1, ElementOfSeq
  <2>2. n \in Nat
    BY <1>1, <1>2
  <2> HIDE DEF p, n
  <2>3. update_rtp_header(p, n) \in Packets /\ SameLoad(update_rtp_header(p, n), p)
    BY <1>2, <2>1, <2>2 DEF update_rtp_header, Packets, Payload, SameLoad
  <2> QED
    BY <2>3 DEF p, n
<1>4. enqueue_finalize(packets)
  BY <1>1 DEF enqueue_message
<1> HIDE DEF packet
<1>5. packets \in [1 .. N -> Packets] /\ \A i \in 1 .. N : packets[i] = packet(i)
  BY <1>3
<1> HIDE DEF packets
<1>6. packets \in Seq(Packets) /\ Len(packets) = N
  BY <1>1, <1>5, FunctionIsSeq
<1>7. <<>> \o packets = packets
  BY <1>6, ConcatEmptySeq
<1>8. active' = [active EXCEPT !.packets = packets] /\ next' = next + N
  BY <1>4, <1>6, <1>7 DEF enqueue_finalize
<1>9. active'.packets = packets
  BY <1>2, <1>8
<1> QED
  BY <1>3, <1>5, <1>6, <1>8, <1>9 DEF N

\* Indexing changes nothing of what a packet carries.
LEMMA IndexedLoads ==
  ASSUME NEW ps \in Seq(Packets), NEW r, NEW i \in 1 .. Len(ps)
  PROVE  SameLoad(Indexed(ps, r)[i], ps[i]) /\ Indexed(ps, r)[i].n = ps[i].n
<1> DEFINE N == Len(ps)
           index(j) == (r + Cardinality({k \in 1 .. j - 1 : Wraps(ps[k])})) * SeqBound
                       + (ps[j].n % SeqBound)
<1>1. DOMAIN ps = 1 .. N
  BY LenProperties
<1>2. Indexed(ps, r) = [j \in 1 .. N |-> [ps[j] EXCEPT !.index = index(j)]]
  BY <1>1 DEF Indexed
<1>3. ps[i] \in Packets
  BY ElementOfSeq
<1> HIDE DEF index
<1>4. Indexed(ps, r)[i] = [ps[i] EXCEPT !.index = index(i)]
  BY <1>2
<1> DEFINE p == ps[i]
           q == Indexed(ps, r)[i]
<1> HIDE DEF p, q
<1>5. q = [p EXCEPT !.index = index(i)] /\ p \in Packets
  BY <1>3, <1>4 DEF p, q
<1>6. q.kind = p.kind /\ q.parts = p.parts /\ q.n = p.n
  BY <1>5 DEF Packets
<1> QED
  BY <1>6 DEF SameLoad, p, q

\* A flush that does not fail sends what waits, behind what was sent.
LEMMA AllSent ==
  ASSUME SenderInv, step = "flush", Emit(Waiting, FirstOnes(Waiting))
  PROVE  LET m == Len(wire)
         IN  /\ m \in Nat /\ Waiting \in Nat /\ Len(wire') = m + Waiting
             /\ \A i \in 1 .. m : wire'[i] = wire[i]
             /\ \A i \in 1 .. Waiting : /\ SameLoad(wire'[m + i], active.packets[i])
                                        /\ wire'[m + i].n = active.packets[i].n
<1> DEFINE all == active.packets
           k == Waiting
           ps == SubSeq(all, 1, k)
           indexed == Indexed(all, roc)
           sent == [i \in DOMAIN FirstOnes(k) |-> indexed[FirstOnes(k)[i]]]
           m == Len(wire)
<1>1. all \in Seq(Packets) /\ wire \in Seq(Packets) /\ roc \in Int
  BY DEF SenderInv, TypeInv
<1>2. k \in Nat /\ m \in Nat
  BY <1>1, LenProperties DEF Waiting
<1>3. ps = all
  <2>1. k = Len(all)
    BY DEF Waiting
  <2> HIDE DEF all, k
  <2>2. all = [i \in 1 .. k |-> all[i]] /\ \A i \in 1 .. k : all[i] \in Packets
    BY <1>1, <2>1, LenProperties, ElementOfSeq
  <2>3. ps = [i \in 1 .. k |-> all[i]]
    BY <1>1, <1>2, <2>1, <2>2, SubSeqProperties
  <2> QED
    BY <2>2, <2>3
<1>4. Len(all) = k
  BY DEF Waiting
<1>5. wire' = wire \o sent
  <2>1. Emit(k, FirstOnes(k))
    BY DEF Waiting
  <2> HIDE DEF all, k
  <2>2. wire' = wire \o [i \in DOMAIN FirstOnes(k) |-> Indexed(ps, roc)[FirstOnes(k)[i]]]
    BY <2>1 DEF Emit, all
  <2> QED
    BY <1>3, <2>2
<1> HIDE DEF all, k
<1>6. indexed \in Seq(Packets) /\ Len(indexed) = k
  BY <1>1, <1>4, IndexedIs
<1>7. \A i \in 1 .. k : SameLoad(indexed[i], all[i]) /\ indexed[i].n = all[i].n
  BY <1>1, <1>4, IndexedLoads
<1> HIDE DEF indexed
<1>8. sent = indexed
  <2>1. indexed = [i \in 1 .. k |-> indexed[i]]
    BY <1>6, LenProperties
  <2>2. sent = [i \in 1 .. k |-> indexed[i]]
    BY DEF FirstOnes
  <2> QED
    BY <2>1, <2>2
<1> HIDE DEF sent
<1>9. /\ Len(wire') = m + k /\ \A i \in 1 .. m : wire'[i] = wire[i]
      /\ \A i \in 1 .. k : wire'[m + i] = indexed[i]
  <2>1. /\ Len(wire \o indexed) = m + k
        /\ \A i \in 1 .. m + k : (wire \o indexed)[i] = IF i <= m THEN wire[i] ELSE indexed[i - m]
    BY <1>1, <1>6, ConcatProperties
  <2>2. /\ \A i \in 1 .. m : i \in 1 .. m + k /\ i <= m
        /\ \A i \in 1 .. k : m + i \in 1 .. m + k /\ ~(m + i <= m) /\ m + i - m = i
    BY <1>2
  <2> DEFINE both == wire \o indexed
  <2>3. wire' = both
    BY <1>5, <1>8
  <2> HIDE DEF m, both
  <2>4. Len(both) = m + k
    BY <2>1 DEF both
  <2>5. \A i \in 1 .. m : both[i] = wire[i]
    BY <2>1, <2>2 DEF both
  <2>6. ASSUME NEW i \in 1 .. k PROVE both[m + i] = indexed[i]
    <3> DEFINE j == m + i
    <3>1. j \in 1 .. m + k /\ ~(j <= m) /\ j - m = i
      BY <1>2, <2>2
    <3> HIDE DEF j
    <3>2. both[j] = indexed[j - m]
      BY <2>1, <3>1 DEF both
    <3> QED
      BY <3>1, <3>2 DEF j
  <2> QED
    BY <2>3, <2>4, <2>5, <2>6
<1> QED
  BY <1>2, <1>7, <1>9 DEF k, all

-----------------------------------------------------------------------------
(* What has arrived of a frame.                                            *)

\* The NAL units that a frame is cut into, and those that are to arrive.
NalUnits ==
    IF frame.whole \/ scenario.format \in {"generic", "atlas"}
    THEN <<Part(0, Len(frame.octets))>>
    ELSE scl(frame.octets, CodeRange)
Due ==
    IF Bundled(NalUnits, frame.separate) = 1 THEN Tail(NalUnits) ELSE NalUnits

\* What a receiver makes of the packets that were sent and of those that wait.
Through == Received(wire \o active.packets)

\* While a frame is sent, it does not change what is due.
LEMMA SameDue == ASSUME UNCHANGED <<frame, scenario>> PROVE NalUnits' = NalUnits /\ Due' = Due
<1>1. frame' = frame /\ scenario' = scenario
  OBVIOUS
<1>2. CodeRange' = CodeRange
  BY <1>1 DEF CodeRange
<1>3. NalUnits' = NalUnits
  BY <1>1, <1>2 DEF NalUnits
<1>4. NalHeader' = NalHeader
  BY <1>1 DEF NalHeader
<1>5. Bundled(NalUnits, frame.separate)' = Bundled(NalUnits, frame.separate)
  BY <1>1, <1>3, <1>4 DEF Bundled, Aggregating, Aggregate
<1> QED
  BY <1>1, <1>3, <1>5 DEF Due

\* The units of a frame, those that are due included, are ranges, and as the definition has it.
LEMMA NalUnitsAre ==
  ASSUME TypeInv
  PROVE  NalUnits \in Seq(Parts) /\ NalUnits \in Given
<1> DEFINE d == frame.octets
           whole == Part(0, Len(d))
<1>1. d \in Seq(0 .. 255) /\ d \in Seq(Int) /\ Len(d) \in Nat
  <2>1. d \in Seq(0 .. 255)
    BY DEF TypeInv
  <2> HIDE DEF d
  <2> QED
    BY <2>1, Octets
<1>2. CodeRange \in {1, 4}
  BY DEF CodeRange
<1>3. CASE frame.whole \/ scenario.format \in {"generic", "atlas"}
  <2>1. whole \in Parts
    BY <1>1 DEF Part, Parts
  <2>2. NalUnits = <<whole>> /\ Given = {<<whole>>}
    BY <1>3 DEF NalUnits, Given
  <2> HIDE DEF whole
  <2>3. <<whole>> \in Seq(Parts)
    BY <2>1, SizeOfOne
  <2> QED
    BY <2>2, <2>3
<1>4. CASE ~(frame.whole \/ scenario.format \in {"generic", "atlas"})
  <2> DEFINE us == ReferenceUnits(d)
  <2>1. /\ NalUnits = scl(d, CodeRange)
        /\ Given = {us} \cup (IF Short(us) THEN {Swallowed(us)} ELSE {})
    BY <1>4 DEF NalUnits, Given
  <2>2. scl(d, CodeRange) \in Seq(Parts)
    BY <1>1, <1>2, UnitsAreParts
  <2>3. scl(d, CodeRange) = us \/ (Short(us) /\ scl(d, CodeRange) = Swallowed(us))
    BY <1>1, UnitsAreReference
  <2> QED
    BY <2>1, <2>2, <2>3
<1> QED
  BY <1>3, <1>4

\* What is due are ranges as well.
LEMMA DueIs ==
  ASSUME TypeInv
  PROVE  Due \in Seq(Parts)
<1> DEFINE us == NalUnits
           k == Bundled(us, frame.separate)
<1>1. us \in Seq(Parts)
  BY NalUnitsAre
<1>2. Due = us \/ (k = 1 /\ Due = Tail(us))
  BY DEF Due
<1> HIDE DEF us
<1>3. k \in 0 .. Len(us) /\ Len(us) \in Nat
  BY <1>1, BundledIs, LenProperties
<1>4. ASSUME k = 1 PROVE Tail(us) \in Seq(Parts)
  <2>1. Len(us) # 0
    BY <1>3, <1>4
  <2>2. us # <<>>
    <3>1. Len(<<>>) = 0
      OBVIOUS
    <3> QED
      BY <2>1, <3>1, Zenon
  <2> QED
    BY <1>1, <2>2, HeadTailProperties
<1> QED
  BY <1>1, <1>2, <1>4

\* The formats of the steps of push_media_frame().
FormatInv ==
    /\ step # "idle" => scenario.format \in H26x \cup {"generic"}
    /\ scenario.format = "generic" => units = <<>> /\ step \in {"idle", "enqueue", "flush"}

\* Before the first push there is no step to keep to.
LEMMA FormatStarts == Init => FormatInv
BY DEF Init, FormatInv

\* Every step keeps to the format.
LEMMA FormatKept == ASSUME FormatInv, PlaceInv, [Next]_vars PROVE FormatInv'
<1>1. CASE UNCHANGED vars
  BY <1>1 DEF FormatInv, vars, push
<1>2. ASSUME NEW d \in scenario.frames, NEW ts \in scenario.stamps, PushGeneric(d, ts)
      PROVE  FormatInv'
  BY <1>2 DEF FormatInv, PushGeneric, Push
<1>3. ASSUME NEW d \in scenario.frames, NEW separate \in BOOLEAN, NEW whole \in BOOLEAN,
             NEW ts \in scenario.stamps, PushH26x(d, separate, whole, ts)
      PROVE  FormatInv'
  <2>1. scenario' = scenario /\ scenario.format \in H26x /\ scenario.format # "generic"
    BY <1>3 DEF PushH26x, Push, H26x
  <2>2. step' \in {"idle", "unit", "aggregate"}
    BY <1>3 DEF PushH26x, Return
  <2> QED
    BY <2>1, <2>2 DEF FormatInv, H26x
<1>4. CASE EnqueueGeneric
  BY <1>4 DEF FormatInv, EnqueueGeneric
<1>5. CASE finalize_aggregation_pkt
  BY <1>5 DEF FormatInv, finalize_aggregation_pkt
<1>6. CASE NextUnit
  BY <1>6 DEF FormatInv, NextUnit
<1>7. CASE Divide
  BY <1>7 DEF FormatInv, Divide, Return
<1>8. CASE Finish
  BY <1>8 DEF FormatInv, Finish, Return
<1>9. CASE FlushEmpty
  BY <1>9 DEF FormatInv, FlushEmpty, AfterFlush, Return
<1>10. CASE Flush
  BY <1>10 DEF FormatInv, Flush, AfterFlush, Return, Emit
<1>11. CASE SendFails
  BY <1>11 DEF FormatInv, SendFails, AfterFlush, Return, Emit, EncryptAll
<1>12. CASE SendFallsShort
  BY <1>12 DEF FormatInv, SendFallsShort, AfterFlush, Return, Emit, EncryptAll
<1>13. CASE PacedSendFails
  BY <1>13 DEF FormatInv, PacedSendFails, AfterFlush, Return, Emit
<1> QED
  BY <1>1, <1>2, <1>3, <1>4, <1>5, <1>6, <1>7, <1>8, <1>9, <1>10, <1>11, <1>12, <1>13 DEF Next

\* Unless sending fails, the packets of a frame have consecutive numbers, and what a
\* receiver makes of them, with the units that are still to be sent, is what is due.
Numbers == \A i \in 1 .. Len(wire) : wire[i].n = next - Waiting - Len(wire) + i - 1
Deliveries ==
    /\ Numbers
    /\ step = "enqueue" => wire = <<>>
    /\ step = "aggregate" => /\ wire = <<>> /\ bundle \o units = NalUnits
                             /\ Len(bundle) = Bundled(NalUnits, frame.separate)
    /\ step \in {"unit", "divide", "flush"} => Through \in Seq(Parts) /\ Through \o units = Due
    /\ step = "unit" /\ units = <<>> => active = NoTransaction
    /\ step = "idle" /\ ret = "ok" /\ frame.octets # <<>> =>
          Received(wire) = Due /\ active = NoTransaction
DeliveryInv == ~failed.now => Deliveries

\* Of no packets a receiver makes nothing.
LEMMA ReceivedNone == Received(<<>>) = <<>>
<1>1. Len(<<>>) = 0
  OBVIOUS
<1> DEFINE ps == <<>>
<1>2. Len(ps) = 0 /\ 0 \in Nat
  BY <1>1
<1> HIDE DEF ps
<1>3. PICK f : Takes1(f, ps, Len(ps)) /\ Received(ps) = f[Len(ps)]
  BY <1>2, ReceivedIs
<1> QED
  BY <1>2, <1>3 DEF Takes1, ps

-----------------------------------------------------------------------------
(* Payloads and packets.                                                   *)

\* The packets ps are those of w and then some that carry the payloads.
Carry(ps, w, payloads) ==
    LET m == Len(w)
        k == Len(payloads)
    IN  /\ m \in Nat /\ k \in Nat /\ Len(ps) = m + k
        /\ \A i \in 1 .. m : SameLoad(w[i], ps[i])
        /\ \A i \in 1 .. k : SameLoad(ps[m + i], payloads[i])

\* One sequence of packets behind another.
LEMMA ConcatPackets ==
  ASSUME NEW w \in Seq(Packets), NEW q \in Seq(Packets)
  PROVE  /\ w \o <<>> = w /\ <<>> \o w = w
         /\ Len(w) \in Nat /\ Len(q) \in Nat /\ Len(w \o q) = Len(w) + Len(q)
         /\ \A i \in 1 .. Len(w) : (w \o q)[i] = w[i]
         /\ \A i \in 1 .. Len(q) : (w \o q)[Len(w) + i] = q[i]
<1> DEFINE m == Len(w)
           k == Len(q)
           both == w \o q
<1>1. m \in Nat /\ k \in Nat
  BY LenProperties
<1>2. w \o <<>> = w /\ <<>> \o w = w
  BY ConcatEmptySeq
<1>3. /\ Len(both) = m + k
      /\ \A i \in 1 .. m + k : both[i] = IF i <= m THEN w[i] ELSE q[i - m]
  BY ConcatProperties
<1> HIDE DEF both, m, k
<1>4. ASSUME NEW i \in 1 .. m PROVE both[i] = w[i]
  <2>1. i \in 1 .. m + k /\ i <= m
    BY <1>1
  <2> QED
    BY <1>3, <2>1
<1>5. ASSUME NEW i \in 1 .. k PROVE both[m + i] = q[i]
  <2> DEFINE j == m + i
  <2>1. j \in 1 .. m + k /\ ~(j <= m) /\ j - m = i
    BY <1>1
  <2> HIDE DEF j
  <2>2. both[j] = q[j - m]
    BY <1>3, <2>1
  <2> QED
    BY <2>1, <2>2 DEF j
<1> QED
  BY <1>1, <1>2, <1>3, <1>4, <1>5 DEF both, m, k

\* What a receiver makes of packets depends on the packets and the format.
LEMMA SameThrough ==
  ASSUME UNCHANGED scenario, NEW ps
  PROVE  /\ (wire \o active.packets)' = ps => Through' = Received(ps)
         /\ wire' = ps => Received(wire)' = Received(ps)
<1>1. NalHeader' = NalHeader
  BY DEF NalHeader
<1>2. ASSUME (wire \o active.packets)' = ps PROVE Received(wire \o active.packets)' = Received(ps)
  BY <1>1, <1>2 DEF Received, Receive
<1>3. ASSUME wire' = ps PROVE Received(wire)' = Received(ps)
  BY <1>1, <1>3 DEF Received, Receive
<1> QED
  BY <1>2, <1>3 DEF Through

\* Payloads that are enqueued will arrive behind what was sent.
LEMMA WillArrive ==
  ASSUME TypeInv, active.packets = <<>>, NEW payloads \in Seq(Payload), enqueue_message(payloads),
         UNCHANGED <<wire, scenario>>
  PROVE  /\ Through = Received(wire)
         /\ \E ps : Through' = Received(ps) /\ Carry(ps, wire, payloads)
<1> DEFINE q == active'.packets
           ps == wire \o q
<1>1. wire \in Seq(Packets)
  BY DEF TypeInv
<1>2. /\ q \in Seq(Packets) /\ Len(q) = Len(payloads)
      /\ \A i \in 1 .. Len(payloads) : SameLoad(q[i], payloads[i])
  BY EnqueuedLoads
<1>3. Through = Received(wire)
  <2>1. wire \o <<>> = wire
    BY <1>1, ConcatPackets
  <2> QED
    BY <2>1 DEF Through
<1>4. Through' = Received(ps)
  <2>1. (wire \o active.packets)' = wire \o active'.packets
    OBVIOUS
  <2> QED
    BY <2>1, SameThrough
<1> HIDE DEF q
<1>5. /\ Len(wire) \in Nat /\ Len(q) \in Nat /\ Len(ps) = Len(wire) + Len(q)
      /\ \A i \in 1 .. Len(wire) : ps[i] = wire[i]
      /\ \A i \in 1 .. Len(q) : ps[Len(wire) + i] = q[i]
  BY <1>1, <1>2, ConcatPackets
<1> HIDE DEF ps
<1>6. Carry(ps, wire, payloads)
  BY <1>2, <1>5 DEF Carry, SameLoad
<1> QED
  BY <1>3, <1>4, <1>6

\* A payload that is a unit, or a bundle of them, adds them;
LEMMA CarryUnits ==
  ASSUME NEW w, NEW ps, NEW h, Carry(ps, w, <<h>>), h.kind \in {"single", "bundle"}
  PROVE  Received(ps) = Received(w) \o h.parts
<1> DEFINE hs == <<h>>
           m == Len(w)
           n == m + 1
<1>1. Len(hs) = 1 /\ hs[1] = h
  OBVIOUS
<1>2. Carry(ps, w, hs)
  OBVIOUS
<1> HIDE DEF hs
<1>3. /\ m \in Nat /\ Len(ps) = n /\ \A i \in 1 .. m : SameLoad(w[i], ps[i])
      /\ SameLoad(ps[n], h)
  <2>1. 1 \in 1 .. Len(hs)
    BY <1>1
  <2> QED
    BY <1>1, <1>2, <2>1 DEF Carry
<1>4. n \in Nat
  BY <1>3
<1> HIDE DEF n
<1>5. Received(ps) = Receive(Received(w), ps[n])
  BY <1>3, <1>4, ReceivedOne DEF n
<1>6. ps[n].kind \in {"single", "bundle"} /\ ps[n].parts = h.parts
  BY <1>3 DEF SameLoad
<1> QED
  BY <1>5, <1>6 DEF Receive

\* Payloads that carry the pieces of a range, the first of a kind of its own,
Shape(payloads, pieces, from, to, first) ==
    LET k == Len(payloads)
    IN  /\ k # 0 /\ Meet(pieces, k, to) /\ payloads[1].kind = first /\ pieces[1].from = from
        /\ \A i \in 1 .. k : payloads[i].parts = <<pieces[i]>>
        /\ \A i \in 2 .. k : payloads[i].kind \in More

\* by which a receiver knows where the unit begins.
Opens(first, from, x, w) ==
    \/ first = "start" /\ x = from - NalHeader
    \/ first = "fragment" /\ x = from /\ Received(w) = <<>>

\* Fragments of a range add it as one unit.
LEMMA CarryPieces ==
  ASSUME NEW w, NEW ps, NEW payloads, Carry(ps, w, payloads), Received(w) \in Seq(Parts),
         NEW pieces, NEW from, NEW to \in Int, NEW first,
         Shape(payloads, pieces, from, to, first), NEW x \in Int, Opens(first, from, x, w)
  PROVE  Received(ps) = Append(Received(w), Part(x, to))
<1> DEFINE m == Len(w)
           k == Len(payloads)
           R == Received(w)
           n == m + 1
           p == ps[n]
<1>1. /\ m \in Nat /\ k \in Nat \ {0} /\ Len(ps) = m + k
      /\ \A i \in 1 .. m : SameLoad(w[i], ps[i])
      /\ \A i \in 1 .. k : SameLoad(ps[m + i], payloads[i])
  BY DEF Carry, Shape
<1>0. /\ Meet(pieces, k, to) /\ payloads[1].kind = first /\ pieces[1].from = from
      /\ \A i \in 1 .. k : payloads[i].parts = <<pieces[i]>>
      /\ \A i \in 2 .. k : payloads[i].kind \in More
  BY DEF Shape
<1>2. /\ \A i \in 1 .. k : ps[m + i].parts = <<pieces[i]>>
      /\ \A i \in 2 .. k : ps[m + i].kind \in More
  <2>1. \A i \in 2 .. k : i \in 1 .. k
    OBVIOUS
  <2> QED
    BY <1>1, <1>0, <2>1 DEF SameLoad
<1>3. 1 \in 1 .. k
  BY <1>1
<1>4. p.parts = <<pieces[1]>> /\ p.kind = payloads[1].kind /\ pieces[1] \in Parts
  BY <1>1, <1>2, <1>3, <1>0 DEF SameLoad, Meet
<1> HIDE DEF p, n
<1>5. Receive(R, p) = Append(R, Part(x, pieces[1].to))
  <2> DEFINE v == p.parts
  <2>1. v[1] = pieces[1] /\ v = <<pieces[1]>>
    BY <1>4
  <2>2. CASE p.kind = "start" /\ x = pieces[1].from - NalHeader
    <3>1. Receive(R, p) = Append(R, Part(v[1].from - NalHeader, v[1].to))
      BY <2>2 DEF Receive
    <3> QED
      BY <2>1, <2>2, <3>1
  <2>3. CASE p.kind = "fragment" /\ x = pieces[1].from /\ R = <<>>
    <3>1. Receive(R, p) = v
      BY <2>3 DEF Receive
    <3>2. pieces[1] = Part(x, pieces[1].to)
      BY <1>4, <2>3 DEF Part, Parts
    <3>3. Append(<<>>, Part(x, pieces[1].to)) = <<Part(x, pieces[1].to)>>
      OBVIOUS
    <3> QED
      BY <2>1, <2>3, <3>1, <3>2, <3>3
  <2> QED
    BY <1>4, <1>0, <2>2, <2>3 DEF Opens
<1>6. p = ps[m + 1]
  BY DEF p, n
<1>7. Begins(ps, w, m, pieces, x)
  BY <1>5, <1>6 DEF Begins
<1> HIDE DEF m, k
<1>8. Meet(pieces, k, to)
  BY <1>0
<1>9. InPieces(ps, w, m, k, pieces)
  BY <1>1, <1>2 DEF InPieces, m
<1> QED
  BY <1>7, <1>8, <1>9, ReceivedPieces

\* Fragments carry the pieces of their range.
LEMMA FragmentsAre ==
  ASSUME NEW from \in Int, NEW to \in Int, from < to, NEW head \in 0 .. 4, NEW first \in Kinds,
         NEW middle \in More, NEW end \in More
  PROVE  \E pieces : Shape(Fragments(from, to, head, first, middle, end), pieces, from, to, first)
<1> DEFINE size == PayloadSize - head
           pieces == Pieces(from, to, size)
           k == Len(pieces)
           kind(i) == IF i = 1 THEN first ELSE IF i = Len(pieces) THEN end ELSE middle
           fu(i) == Header(kind(i), head, <<pieces[i]>>)
           fus == [i \in DOMAIN pieces |-> fu(i)]
<1>1. size \in Nat \ {0} /\ head \in Nat
  BY SenderAssumption
<1>2. Fragments(from, to, head, first, middle, end) = fus
  BY DEF Fragments
<1> HIDE DEF size
<1>3. k \in Nat \ {0} /\ DOMAIN pieces = 1 .. k /\ pieces[1].from = from /\ Meet(pieces, k, to)
  BY <1>1, PiecesMeet
<1>4. ASSUME NEW i \in 1 .. k
      PROVE  fu(i).parts = <<pieces[i]>> /\ fu(i).kind = kind(i)
  BY DEF Header
<1>5. kind(1) = first /\ \A i \in 2 .. k : kind(i) \in More
  OBVIOUS
<1> HIDE DEF kind, fu, pieces
<1>6. fus = [i \in 1 .. k |-> fu(i)]
  BY <1>3
<1>7. \A i \in 1 .. k : fus[i] = fu(i)
  BY <1>6
<1> HIDE DEF fus
<1>8. Len(fus) = k
  BY <1>3, <1>6
<1>9. Shape(fus, pieces, from, to, first)
  <2>1. 1 \in 1 .. k /\ k # 0 /\ \A i \in 2 .. k : i \in 1 .. k
    BY <1>3
  <2>2. /\ fus[1].kind = first /\ \A i \in 1 .. k : fus[i].parts = <<pieces[i]>>
        /\ \A i \in 2 .. k : fus[i].kind \in More
    BY <1>4, <1>5, <1>7, <2>1
  <2> QED
    BY <1>3, <1>8, <2>1, <2>2 DEF Shape
<1> QED
  BY <1>2, <1>9

\* A unit arrives behind what has arrived, whole or in fragments,
LEMMA UnitArrives ==
  ASSUME NEW u \in Parts, u.from # u.to, NEW w, Received(w) \in Seq(Parts),
         NEW ps, Carry(ps, w, Payloads(u))
  PROVE  Received(ps) = Append(Received(w), u)
<1>1. /\ u.to \in Int /\ u.from \in Int /\ PayloadSize \in Nat /\ PayloadSize > 4
      /\ NalHeader \in {1, 2}
  BY SenderAssumption DEF Parts, NalHeader
<1> DEFINE R == Received(w)
<1>2. CASE u.to - u.from <= PayloadSize
  <2> DEFINE h == Header("single", 0, <<u>>)
  <2>1. Payloads(u) = <<h>> /\ h.kind = "single" /\ h.parts = <<u>>
    BY <1>2 DEF Payloads, Header
  <2> HIDE DEF h
  <2>2. Received(ps) = R \o <<u>>
    BY <2>1, CarryUnits
  <2> HIDE DEF R
  <2>3. R \in Seq(Parts)
    BY DEF R
  <2>4. R \o <<u>> = Append(R, u)
    BY <2>3
  <2> QED
    BY <2>2, <2>4 DEF R
<1>3. CASE ~(u.to - u.from <= PayloadSize)
  <2> DEFINE head == NalHeader + FuHeader
             from == u.from + NalHeader
             to == u.to
             fus == Fragments(from, to, head, "start", "middle", "end")
  <2>1. head \in 0 .. 4 /\ from \in Int /\ PayloadSize - NalHeader - FuHeader = PayloadSize - head
    BY <1>1 DEF FuHeader
  <2>2. Payloads(u) = fus
    BY <1>3, <2>1 DEF Payloads, divide_frame_to_fus, Fragments
  <2>3. from < to /\ to \in Int /\ from - NalHeader = u.from
    BY <1>1, <1>3
  <2> HIDE DEF head, from, to
  <2>4. "start" \in Kinds /\ "middle" \in More /\ "end" \in More
    BY DEF Kinds, More
  <2>5. PICK pieces : Shape(fus, pieces, from, to, "start")
    BY <2>1, <2>3, <2>4, FragmentsAre
  <2> HIDE DEF fus
  <2>6. Carry(ps, w, fus)
    BY <2>2
  <2>8. Received(ps) = Append(R, Part(u.from, to))
    <3> DEFINE x == u.from
    <3>1. x \in Int /\ Opens("start", from, x, w)
      BY <1>1, <2>3 DEF Opens
    <3> HIDE DEF x
    <3>2. Received(ps) = Append(R, Part(x, to))
      BY <2>3, <2>5, <2>6, <3>1, CarryPieces
    <3> QED
      BY <3>2 DEF x
  <2>9. Part(u.from, to) = u
    BY DEF to, Part, Parts
  <2> QED
    BY <2>8, <2>9
<1> QED
  BY <1>2, <1>3

\* and so does a generic frame, before which nothing is sent.
LEMMA FrameArrives ==
  ASSUME NEW d, Len(d) \in Nat, NEW ps, Carry(ps, <<>>, GenericPayloads(d)),
         scenario.fragment \in BOOLEAN
  PROVE  Received(ps) = <<Part(0, Len(d))>>
<1> DEFINE n == Len(d)
           p == Part(0, n)
<1>1. n \in Nat /\ PayloadSize \in Nat /\ PayloadSize > 4
  BY SenderAssumption
<1>2. CASE ~scenario.fragment \/ n <= PayloadSize
  <2> DEFINE h == Header("single", 0, <<p>>)
  <2>1. GenericPayloads(d) = <<h>> /\ h.kind = "single" /\ h.parts = <<p>>
    BY <1>2 DEF GenericPayloads, Header
  <2> HIDE DEF h
  <2>2. Received(ps) = Received(<<>>) \o <<p>>
    BY <2>1, CarryUnits
  <2>3. Received(ps) = <<>> \o <<p>>
    BY <2>2, ReceivedNone
  <2> HIDE DEF p
  <2>4. <<>> \o <<p>> = <<p>>
    OBVIOUS
  <2> QED
    BY <2>3, <2>4 DEF p
<1>3. CASE ~(~scenario.fragment \/ n <= PayloadSize)
  <2> DEFINE fus == Fragments(0, n, 0, "fragment", "fragment", "fragment")
  <2>1. PayloadSize - 0 = PayloadSize
    BY <1>1
  <2>2. GenericPayloads(d) = fus
    BY <1>3, <2>1 DEF GenericPayloads, Fragments
  <2>3. 0 < n /\ 0 \in 0 .. 4 /\ 0 \in Int /\ n \in Int /\ "fragment" \in Kinds /\ "fragment" \in More
    BY <1>1, <1>3 DEF Kinds, More
  <2> HIDE DEF n
  <2>4. PICK pieces : Shape(fus, pieces, 0, n, "fragment")
    BY <2>3, FragmentsAre
  <2> HIDE DEF fus
  <2> DEFINE w == <<>>
  <2>5. Carry(ps, w, fus) /\ Received(w) \in Seq(Parts)
    BY <2>2, ReceivedNone, EmptySeq
  <2>8. Received(w) = <<>>
    BY ReceivedNone
  <2> HIDE DEF w
  <2>9. Opens("fragment", 0, 0, w)
    BY <2>8 DEF Opens
  <2>6. Received(ps) = Append(Received(w), Part(0, n))
    BY <2>3, <2>4, <2>5, <2>9, CarryPieces
  <2>7. Append(<<>>, p) = <<p>>
    OBVIOUS
  <2> QED
    BY <2>6, <2>7, <2>8 DEF n
<1> QED
  BY <1>2, <1>3

-----------------------------------------------------------------------------
(* Units and numbers that follow each other.                               *)

\* A sequence is its head and the rest of it,
LEMMA HeadFirst ==
  ASSUME NEW us \in Seq(Parts), us # <<>>
  PROVE  /\ Head(us) \in Parts /\ Tail(us) \in Seq(Parts)
         /\ <<Head(us)>> \in Seq(Parts) /\ <<Head(us)>> \o Tail(us) = us
<1> DEFINE n == Len(us)
<1>1. n \in Nat \ {0}
  BY EmptySeq
<1>2. Head(us) \in Parts /\ Tail(us) \in Seq(Parts)
  BY HeadTailProperties
<1>3. Head(us) = us[1]
  OBVIOUS
<1>4. 1 \in 1 .. n /\ n \in 1 .. n /\ 1 + 1 = 2
  BY <1>1
<1>5. SubSeq(us, 1, n) = <<us[1]>> \o SubSeq(us, 2, n)
  BY <1>4, SubSeqRecursiveFirst
<1>6. SubSeq(us, 1, n) = us /\ SubSeq(us, 2, n) = Tail(us)
  BY SubSeqFull, TailIsSubSeq
<1>7. <<Head(us)>> \in Seq(Parts)
  BY <1>2, SizeOfOne
<1> QED
  BY <1>2, <1>3, <1>5, <1>6, <1>7

\* so that the head may move to the end of the one before,
LEMMA HeadMoves ==
  ASSUME NEW r \in Seq(Parts), NEW us \in Seq(Parts), us # <<>>
  PROVE  /\ Append(r, Head(us)) \in Seq(Parts)
         /\ Append(r, Head(us)) \o Tail(us) = r \o us
<1> DEFINE u == Head(us)
           t == Tail(us)
<1>1. u \in Parts /\ t \in Seq(Parts) /\ <<u>> \in Seq(Parts) /\ <<u>> \o t = us
  BY HeadFirst
<1> HIDE DEF u, t
<1>2. Append(r, u) = r \o <<u>> /\ Append(r, u) \in Seq(Parts)
  BY <1>1, AppendIsConcat, AppendProperties
<1>3. (r \o <<u>>) \o t = r \o (<<u>> \o t)
  BY <1>1, ConcatAssociative
<1> QED
  BY <1>1, <1>2, <1>3 DEF u, t

\* and behind one that has a single member comes the rest.
LEMMA TailBehindOne ==
  ASSUME NEW b \in Seq(Parts), NEW us \in Seq(Parts), Len(b) = 1
  PROVE  Tail(b \o us) = us
<1> DEFINE both == b \o us
           t == Tail(both)
<1>1. Len(us) \in Nat
  BY LenProperties
<1>2. /\ both \in Seq(Parts) /\ Len(both) = 1 + Len(us)
      /\ \A i \in 1 .. 1 + Len(us) : both[i] = IF i <= 1 THEN b[i] ELSE us[i - 1]
  <2> DEFINE m == Len(b)
  <2>1. /\ both \in Seq(Parts) /\ Len(both) = m + Len(us)
        /\ \A i \in 1 .. m + Len(us) : both[i] = IF i <= m THEN b[i] ELSE us[i - m]
    BY ConcatProperties
  <2>2. m = 1
    OBVIOUS
  <2> HIDE DEF both, m
  <2> QED
    BY <2>1, <2>2
<1> HIDE DEF both
<1>3. both # <<>>
  <2>1. Len(<<>>) = 0 /\ 1 + Len(us) # 0
    BY <1>1
  <2> QED
    BY <1>2, <2>1, Zenon
<1>4. t \in Seq(Parts) /\ Len(t) = Len(both) - 1 /\ \A i \in 1 .. Len(t) : t[i] = both[i + 1]
  BY <1>2, <1>3, HeadTailProperties
<1> HIDE DEF t
<1>5. Len(t) = Len(us)
  BY <1>1, <1>2, <1>4
<1>6. ASSUME NEW i \in 1 .. Len(us) PROVE t[i] = us[i]
  <2> DEFINE j == i + 1
  <2>1. j \in 1 .. 1 + Len(us) /\ ~(j <= 1) /\ j - 1 = i
    BY <1>1
  <2>2. t[i] = both[j]
    BY <1>4, <1>5
  <2> HIDE DEF j
  <2>3. both[j] = us[j - 1]
    BY <1>2, <2>1
  <2> QED
    BY <2>1, <2>2, <2>3
<1> QED
  BY <1>4, <1>5, <1>6, SeqEqual DEF t, both

\* Two parts of a sequence that meet.
LEMMA SplitAt ==
  ASSUME NEW us \in Seq(Parts), NEW k \in 0 .. Len(us)
  PROVE  LET n == Len(us)
         IN  /\ SubSeq(us, 1, k) \o SubSeq(us, k + 1, n) = us
             /\ Len(SubSeq(us, 1, k)) = k
             /\ SubSeq(us, 1, k) \in Seq(Parts) /\ SubSeq(us, k + 1, n) \in Seq(Parts)
<1> DEFINE n == Len(us)
<1>1. n \in Nat
  BY LenProperties
<1>2. 1 \in 1 .. n + 1 /\ k \in 1 - 1 .. n /\ n \in k .. n
  BY <1>1
<1>3. SubSeq(us, 1, k) \o SubSeq(us, k + 1, n) = SubSeq(us, 1, n)
  BY <1>2, ConcatAdjacentSubSeq
<1>4. SubSeq(us, 1, n) = us
  BY SubSeqFull
<1>5. \A i \in 1 .. n : us[i] \in Parts
  BY ElementOfSeq
<1> HIDE DEF n
<1>6. SubSeq(us, 1, k) \in Seq(Parts) /\ Len(SubSeq(us, 1, k)) = k
  <2>1. 1 \in Int /\ k \in Int /\ (\A i \in 1 .. k : us[i] \in Parts)
    BY <1>1, <1>2, <1>5
  <2>2. SubSeq(us, 1, k) \in Seq(Parts) /\ Len(SubSeq(us, 1, k)) = IF 1 <= k THEN k - 1 + 1 ELSE 0
    BY <2>1, SubSeqProperties
  <2> QED
    BY <1>1, <1>2, <2>2
<1>7. SubSeq(us, k + 1, n) \in Seq(Parts)
  <2> DEFINE m == k + 1
  <2>1. m \in Int /\ n \in Int /\ (\A i \in m .. n : us[i] \in Parts)
    BY <1>1, <1>2, <1>5
  <2> HIDE DEF m
  <2>2. SubSeq(us, m, n) \in Seq(Parts)
    BY <2>1, SubSeqProperties
  <2> QED
    BY <2>2 DEF m
<1> QED
  BY <1>3, <1>4, <1>6, <1>7 DEF n

\* What arrives when no packet waits.
LEMMA NoneWaits ==
  ASSUME UNCHANGED scenario, NEW w \in Seq(Packets), wire' = w, active'.packets = <<>>
  PROVE  Through' = Received(w)
<1>1. w \o <<>> = w
  BY ConcatPackets
<1>2. (wire \o active.packets)' = w
  BY <1>1
<1> QED
  BY <1>2, SameThrough

\* Numbers follow those that were sent.
LEMMA EnqueueNumbers ==
  ASSUME TypeInv, active.packets = <<>>, NEW payloads \in Seq(Payload), enqueue_message(payloads),
         wire' = wire, Numbers
  PROVE  Numbers'
<1> DEFINE k == Len(payloads)
           m == Len(wire)
<1>1. Waiting = 0 /\ Waiting' = k /\ next' = next + k
  BY EnqueuedLoads, EmptySeq DEF Waiting
<1>2. k \in Nat /\ m \in Nat /\ next \in Nat
  BY LenProperties DEF TypeInv
<1>3. \A i \in 1 .. m : wire[i].n = next - Waiting - m + i - 1
  BY DEF Numbers
<1>4. Len(wire') = m
  OBVIOUS
<1> HIDE DEF k, m
<1>5. ASSUME NEW i \in 1 .. m PROVE wire'[i].n = next' - Waiting' - m + i - 1
  <2>1. wire'[i].n = next - 0 - m + i - 1
    BY <1>1, <1>3
  <2>2. next - 0 - m + i - 1 = next' - Waiting' - m + i - 1
    BY <1>1, <1>2
  <2> QED
    BY <2>1, <2>2
<1> QED
  BY <1>4, <1>5 DEF Numbers

\* Nothing is sent and nothing waits.
LEMMA QuietNumbers ==
  ASSUME TypeInv, active.packets = <<>>, active'.packets = <<>>, UNCHANGED <<wire, next>>, Numbers
  PROVE  Numbers'
<1>1. Waiting = 0 /\ Waiting' = 0
  BY EmptySeq DEF Waiting
<1> QED
  BY <1>1 DEF Numbers

-----------------------------------------------------------------------------
(* Every action keeps what is due.                                         *)

\* A push of a generic frame keeps it,
LEMMA PushGenericDelivers ==
  ASSUME NEW d, NEW ts, PushGeneric(d, ts)
  PROVE  Deliveries'
<1>1. wire' = <<>> /\ step' = "enqueue"
  BY DEF PushGeneric, Push
<1>2. Numbers'
  <2>1. Len(wire') = 0
    BY <1>1
  <2> QED
    BY <2>1 DEF Numbers
<1> QED
  BY <1>1, <1>2 DEF Deliveries

\* a push of a frame of NAL units,
LEMMA PushH26xDelivers ==
  ASSUME SenderInv, TypeInv', NEW d, NEW separate, NEW whole, NEW ts, PushH26x(d, separate, whole, ts)
  PROVE  Deliveries'
<1> DEFINE us == IF whole \/ scenario.format = "atlas" THEN <<Part(0, Len(d))>>
                 ELSE scl(d, CodeRange)
           k == Bundled(us, separate)
<1>1. /\ Push(d, separate, whole, ts) /\ scenario.format \in H26x
      /\ IF us = <<>>
         THEN Return("invalid") /\ units' = <<>> /\ bundle' = <<>>
         ELSE /\ step' = IF Aggregating(us, separate) THEN "aggregate" ELSE "unit"
              /\ bundle' = SubSeq(us, 1, k) /\ units' = SubSeq(us, k + 1, Len(us))
  BY DEF PushH26x
<1>2. /\ wire' = <<>> /\ active'.packets = <<>> /\ scenario' = scenario
      /\ frame' = [octets |-> d, separate |-> separate, whole |-> whole, ts |-> ts]
  BY <1>1 DEF Push, init_transaction
<1>3. frame'.octets = d /\ frame'.separate = separate /\ frame'.whole = whole
  BY <1>2
<1>4. NalUnits' = us
  <2>1. CodeRange' = CodeRange
    BY <1>2 DEF CodeRange
  <2> QED
    BY <1>1, <1>2, <1>3, <2>1 DEF NalUnits, H26x
<1>5. us \in Seq(Parts)
  <2> DEFINE p == Part(0, Len(d))
  <2>1. d \in Seq(0 .. 255)
    BY <1>3 DEF TypeInv
  <2>2. d \in Seq(Int) /\ Len(d) \in Nat /\ CodeRange \in {1, 4}
    <3>1. CodeRange \in {1, 4}
      BY DEF CodeRange
    <3> QED
      BY <2>1, <3>1, Octets
  <2>3. p \in Parts
    BY <2>2 DEF Part, Parts
  <2> HIDE DEF p
  <2>4. <<p>> \in Seq(Parts)
    BY <2>3, SizeOfOne
  <2>5. scl(d, CodeRange) \in Seq(Parts)
    BY <2>2, UnitsAreParts
  <2> QED
    BY <2>4, <2>5 DEF p
<1> DEFINE b == Bundled(NalUnits, frame.separate)'
<1>6. b = k
  <2>1. NalHeader' = NalHeader
    BY <1>2 DEF NalHeader
  <2> HIDE DEF us
  <2> QED
    BY <1>2, <1>3, <1>4, <2>1 DEF Bundled, Aggregating, Aggregate
<1>7. Due' = IF b = 1 THEN Tail(us) ELSE us
  BY <1>2, <1>4 DEF Due
<1>8. Len(bundle') = b <=> Len(bundle') = Bundled(NalUnits, frame.separate)'
  OBVIOUS
<1> HIDE DEF us, b
<1>9. k \in 0 .. Len(us) /\ Len(us) \in Nat
  BY <1>5, BundledIs, LenProperties
<1>10. ~Aggregating(us, separate) => k = 0
  BY DEF Bundled
<1> HIDE DEF k
<1>11. Numbers'
  <2>1. Len(wire') = 0
    BY <1>2
  <2> QED
    BY <2>1 DEF Numbers
<1>12. Through' = <<>>
  <2> DEFINE w == <<>>
  <2>1. w \in Seq(Packets) /\ wire' = w
    BY <1>2, EmptySeq
  <2> HIDE DEF w
  <2>2. Through' = Received(w)
    BY <1>2, <2>1, NoneWaits
  <2> QED
    BY <2>2, ReceivedNone DEF w
<1>13. CASE us = <<>>
  BY <1>1, <1>11, <1>13 DEF Deliveries, Return
<1>14. CASE us # <<>> /\ Aggregating(us, separate)
  <2>1. step' = "aggregate" /\ bundle' = SubSeq(us, 1, k) /\ units' = SubSeq(us, k + 1, Len(us))
    BY <1>1, <1>14
  <2>2. bundle' \o units' = us /\ Len(bundle') = k
    BY <1>5, <1>9, <2>1, SplitAt
  <2>3. Len(bundle') = Bundled(NalUnits, frame.separate)'
    BY <1>6, <1>8, <2>2
  <2> QED
    BY <1>2, <1>4, <1>11, <2>1, <2>2, <2>3 DEF Deliveries
<1>15. CASE us # <<>> /\ ~Aggregating(us, separate)
  <2>1. step' = "unit" /\ units' = SubSeq(us, k + 1, Len(us)) /\ k = 0
    BY <1>1, <1>10, <1>15
  <2>2. units' = us
    <3>1. k + 1 = 1
      BY <2>1
    <3> QED
      BY <1>5, <2>1, <3>1, SubSeqFull
  <2>3. Due' = us
    BY <1>6, <1>7, <2>1
  <2>4. <<>> \o us = us /\ <<>> \in Seq(Parts)
    BY <1>5, ConcatEmptySeq, EmptySeq
  <2>5. Through' \o units' = Due' /\ Through' \in Seq(Parts) /\ units' # <<>>
    BY <1>12, <1>15, <2>2, <2>3, <2>4
  <2> QED
    BY <1>11, <2>1, <2>5 DEF Deliveries
<1> QED
  BY <1>13, <1>14, <1>15

\* the packets of a generic frame,
LEMMA EnqueueGenericDelivers ==
  ASSUME SenderInv, FormatInv, Deliveries, EnqueueGeneric, scenario.format = "generic"
  PROVE  Deliveries'
<1> DEFINE d == frame.octets
           payloads == GenericPayloads(d)
           p == Part(0, Len(d))
<1>1. /\ step = "enqueue" /\ enqueue_message(payloads) /\ step' = "flush"
      /\ UNCHANGED <<frame, units, wire, scenario>>
  BY DEF EnqueueGeneric
<1>2. d \in Seq(0 .. 255) /\ Len(d) \in Nat /\ scenario.fragment \in BOOLEAN /\ TypeInv
  <2>1. d \in Seq(0 .. 255)
    BY DEF SenderInv, TypeInv
  <2> QED
    BY <2>1, ScenarioIs, LenProperties DEF SenderInv, TypeInv
<1>3. active.packets = <<>> /\ wire = <<>> /\ units = <<>> /\ Numbers
  BY <1>1 DEF SenderInv, SizeInv, FormatInv, Deliveries
<1>4. payloads \in Seq(Payload)
  BY <1>2, GenericPayloadsFit
<1>5. Due' = <<p>>
  <2>1. NalUnits = <<p>> /\ p \in Parts
    BY <1>2 DEF NalUnits, Part, Parts
  <2> HIDE DEF p
  <2>2. Bundled(<<p>>, frame.separate) = 0
    BY <2>1, AloneIs
  <2>3. Due = <<p>>
    BY <2>1, <2>2 DEF Due
  <2> QED
    BY <1>1, <2>3, SameDue
<1> HIDE DEF payloads
<1>6. PICK ps : Through' = Received(ps) /\ Carry(ps, wire, payloads)
  BY <1>1, <1>2, <1>3, <1>4, WillArrive
<1>7. Through' = <<p>>
  <2>1. Carry(ps, <<>>, GenericPayloads(d))
    BY <1>3, <1>6 DEF payloads
  <2> HIDE DEF d
  <2> QED
    BY <1>2, <1>6, <2>1, FrameArrives
<1>8. Numbers'
  BY <1>1, <1>2, <1>3, <1>4, EnqueueNumbers
<1>9. p \in Parts
  BY <1>2 DEF Part, Parts
<1> HIDE DEF p
<1>10. <<p>> \in Seq(Parts) /\ <<p>> \o <<>> = <<p>>
  BY <1>9, SizeOfOne, ConcatEmptySeq
<1>11. Through' \in Seq(Parts) /\ Through' \o units' = Due'
  BY <1>1, <1>3, <1>5, <1>7, <1>10
<1> QED
  BY <1>1, <1>8, <1>11 DEF Deliveries

\* an aggregation packet,
LEMMA AggregateDelivers ==
  ASSUME SenderInv, Deliveries, finalize_aggregation_pkt
  PROVE  Deliveries'
<1> DEFINE h == Header("bundle", NalHeader, bundle)
           n == Len(bundle)
<1>1. /\ step = "aggregate" /\ step' = "flush"
      /\ IF n > 1 THEN enqueue_message(<<h>>) ELSE UNCHANGED <<active, next>>
      /\ UNCHANGED <<frame, units, wire, scenario>>
  BY DEF finalize_aggregation_pkt
<1>2. /\ TypeInv /\ bundle \in Seq(Parts) /\ units \in Seq(Parts) /\ wire \in Seq(Packets)
      /\ active.packets = <<>> /\ n \in Nat
  BY <1>1, LenProperties DEF SenderInv, TypeInv, SizeInv
<1>3. /\ wire = <<>> /\ bundle \o units = NalUnits /\ n = Bundled(NalUnits, frame.separate)
      /\ Numbers
  BY <1>1 DEF Deliveries
<1>4. Due' = IF n = 1 THEN Tail(NalUnits) ELSE NalUnits
  BY <1>1, <1>3, SameDue DEF Due
<1> HIDE DEF n
<1>5. CASE n > 1
  <2>1. NalHeader \in Nat /\ "bundle" \in AllKinds
    BY DEF NalHeader, AllKinds
  <2>2. h \in Payload /\ h.kind = "bundle" /\ h.parts = bundle
    BY <1>2, <2>1 DEF Header, Payload
  <2>3. enqueue_message(<<h>>)
    BY <1>1, <1>5
  <2> HIDE DEF h
  <2>4. <<h>> \in Seq(Payload)
    BY <2>2
  <2>5. PICK ps : Through' = Received(ps) /\ Carry(ps, wire, <<h>>)
    BY <1>1, <1>2, <2>3, <2>4, WillArrive
  <2>6. Received(ps) = Received(wire) \o h.parts
    BY <2>2, <2>5, CarryUnits
  <2>7. Through' = bundle
    <3>1. <<>> \o bundle = bundle
      BY <1>2, ConcatEmptySeq
    <3> QED
      BY <1>3, <2>2, <2>5, <2>6, <3>1, ReceivedNone
  <2>8. Through' \in Seq(Parts) /\ Through' \o units' = Due'
    BY <1>1, <1>2, <1>3, <1>4, <1>5, <2>7
  <2>9. Numbers'
    BY <1>1, <1>2, <1>3, <2>3, <2>4, EnqueueNumbers
  <2> QED
    BY <1>1, <2>8, <2>9 DEF Deliveries
<1>6. CASE ~(n > 1)
  <2>1. UNCHANGED <<active, next, wire>> /\ active'.packets = <<>>
    BY <1>1, <1>2, <1>6
  <2>2. Through' = <<>>
    <3>1. Through' = Received(wire)
      BY <1>1, <1>2, <2>1, NoneWaits
    <3> QED
      BY <1>3, <3>1, ReceivedNone
  <2>3. Due' = units
    <3>1. CASE n = 1
      BY <1>2, <1>3, <1>4, <3>1, TailBehindOne DEF n
    <3>2. CASE n # 1
      <4>1. n = 0
        BY <1>2, <1>6, <3>2
      <4>2. bundle = <<>>
        BY <1>2, <4>1, EmptySeq DEF n
      <4>3. <<>> \o units = units
        BY <1>2, ConcatEmptySeq
      <4> QED
        BY <1>3, <1>4, <3>2, <4>2, <4>3
    <3> QED
      BY <3>1, <3>2
  <2>4. Through' \in Seq(Parts) /\ Through' \o units' = Due'
    <3>1. <<>> \o units = units /\ <<>> \in Seq(Parts)
      BY <1>2, ConcatEmptySeq, EmptySeq
    <3> QED
      BY <1>1, <2>2, <2>3, <3>1
  <2>5. Numbers'
    BY <1>2, <1>3, <2>1, QuietNumbers
  <2> QED
    BY <1>1, <2>4, <2>5 DEF Deliveries
<1> QED
  BY <1>5, <1>6

\* the transaction of the next unit,
LEMMA NextUnitDelivers ==
  ASSUME SenderInv, Deliveries, NextUnit
  PROVE  Deliveries'
<1>1. /\ step = "unit" /\ step' = "divide" /\ active'.packets = <<>>
      /\ UNCHANGED <<frame, units, wire, next, scenario>>
  BY DEF NextUnit, init_transaction
<1>2. TypeInv /\ active.packets = <<>> /\ wire \in Seq(Packets)
  BY <1>1 DEF SenderInv, SizeInv, TypeInv
<1>3. Numbers /\ Through \in Seq(Parts) /\ Through \o units = Due
  BY <1>1 DEF Deliveries
<1>4. Through = Received(wire)
  BY <1>2, ConcatPackets DEF Through
<1>5. Through' = Through
  BY <1>1, <1>2, <1>4, NoneWaits
<1>6. Numbers'
  BY <1>1, <1>2, <1>3, QuietNumbers
<1>7. Due' = Due
  BY <1>1, SameDue
<1> QED
  BY <1>1, <1>3, <1>5, <1>6, <1>7 DEF Deliveries

\* the packets of a unit,
LEMMA DivideDelivers ==
  ASSUME SenderInv, Deliveries, Divide, units # <<>>
  PROVE  Deliveries'
<1> DEFINE u == Head(units)
<1>1. /\ step = "divide" /\ UNCHANGED <<frame, wire, scenario>>
      /\ IF u.from = u.to
         THEN deinit_transaction /\ Return("invalid") /\ UNCHANGED <<next, units>>
         ELSE enqueue_message(Payloads(u)) /\ units' = Tail(units) /\ step' = "flush"
  BY DEF Divide
<1>2. TypeInv /\ active.packets = <<>> /\ wire \in Seq(Packets) /\ units \in Seq(Parts)
  BY <1>1 DEF SenderInv, SizeInv, TypeInv
<1>3. Numbers /\ Through \in Seq(Parts) /\ Through \o units = Due
  BY <1>1 DEF Deliveries
<1>4. CASE u.from = u.to
  <2>1. step' = "idle" /\ ret' = "invalid" /\ active'.packets = <<>> /\ UNCHANGED next
    BY <1>1, <1>4, NoTransactionIs DEF Return, deinit_transaction
  <2>2. Numbers'
    BY <1>1, <1>2, <1>3, <2>1, QuietNumbers
  <2> QED
    BY <2>1, <2>2 DEF Deliveries
<1>5. CASE u.from # u.to
  <2>1. enqueue_message(Payloads(u)) /\ units' = Tail(units) /\ step' = "flush"
    BY <1>1, <1>5
  <2>2. u \in Parts
    BY <1>2, HeadFirst
  <2> HIDE DEF u
  <2>3. Payloads(u) \in Seq(Payload)
    BY <2>2, PayloadsFit
  <2>4. /\ Through = Received(wire)
        /\ \E ps : Through' = Received(ps) /\ Carry(ps, wire, Payloads(u))
    BY <1>1, <1>2, <2>1, <2>3, WillArrive
  <2>5. PICK ps : Through' = Received(ps) /\ Carry(ps, wire, Payloads(u))
    BY <2>4
  <2>6. Received(ps) = Append(Received(wire), u)
    <3>1. Received(wire) \in Seq(Parts)
      BY <1>3, <2>4
    <3> QED
      BY <1>5, <2>2, <2>5, <3>1, UnitArrives
  <2>7. Through' = Append(Through, u)
    BY <2>4, <2>5, <2>6
  <2>8. Append(Through, u) \in Seq(Parts) /\ Append(Through, u) \o Tail(units) = Through \o units
    BY <1>2, <1>3, HeadMoves DEF u
  <2>9. Due' = Due
    BY <1>1, SameDue
  <2>10. Through' \in Seq(Parts) /\ Through' \o units' = Due'
    BY <1>3, <2>1, <2>7, <2>8, <2>9
  <2>11. Numbers'
    BY <1>1, <1>2, <1>3, <2>1, <2>3, EnqueueNumbers
  <2> QED
    BY <2>1, <2>10, <2>11 DEF Deliveries
<1> QED
  BY <1>4, <1>5

\* the return of a push,
LEMMA FinishDelivers ==
  ASSUME SenderInv, Deliveries, Finish
  PROVE  Deliveries'
<1>1. /\ step = "unit" /\ units = <<>> /\ step' = "idle"
      /\ UNCHANGED <<frame, units, wire, active, next, scenario>>
  BY DEF Finish, Return, queue
<1>2. TypeInv /\ active.packets = <<>> /\ wire \in Seq(Packets)
  BY <1>1 DEF SenderInv, SizeInv, TypeInv
<1>3. Numbers /\ Through \in Seq(Parts) /\ Through \o units = Due /\ active = NoTransaction
  BY <1>1 DEF Deliveries
<1>4. Through = Due
  BY <1>1, <1>3, ConcatEmptySeq
<1>5. Through = Received(wire)
  BY <1>2, ConcatPackets DEF Through
<1>6. Received(wire)' = Received(wire)
  BY <1>1, SameThrough
<1>7. Due' = Due
  BY <1>1, SameDue
<1>8. Numbers'
  BY <1>1, <1>2, <1>3, QuietNumbers
<1>9. Received(wire)' = Due' /\ active' = NoTransaction
  BY <1>1, <1>3, <1>4, <1>5, <1>6, <1>7
<1> QED
  BY <1>1, <1>8, <1>9 DEF Deliveries

\* a flush of nothing,
LEMMA FlushEmptyDelivers ==
  ASSUME SenderInv, Deliveries, FlushEmpty
  PROVE  Deliveries'
<1>1. /\ step = "flush" /\ active.packets = <<>> /\ active' = NoTransaction
      /\ UNCHANGED <<frame, units, wire, next, scenario>>
      /\ step' = "unit" \/ (step' = "idle" /\ ret' = "invalid")
  BY DEF FlushEmpty, AfterFlush, Return, deinit_transaction
<1>2. TypeInv /\ wire \in Seq(Packets) /\ active'.packets = <<>>
  BY <1>1, NoTransactionIs DEF SenderInv, TypeInv
<1>3. Numbers /\ Through \in Seq(Parts) /\ Through \o units = Due
  BY <1>1 DEF Deliveries
<1>4. Through = Received(wire)
  BY <1>1, <1>2, ConcatPackets DEF Through
<1>5. Through' = Through
  BY <1>1, <1>2, <1>4, NoneWaits
<1>6. Numbers'
  BY <1>1, <1>2, <1>3, QuietNumbers
<1>7. Due' = Due
  BY <1>1, SameDue
<1> QED
  BY <1>1, <1>3, <1>5, <1>6, <1>7 DEF Deliveries

\* and packets that are sent.
LEMMA FlushDelivers ==
  ASSUME SenderInv, TypeInv', FormatInv, Deliveries, Flush
  PROVE  Deliveries'
<1> DEFINE m == Len(wire)
           k == Waiting
           both == wire \o active.packets
<1>1. /\ step = "flush" /\ Emit(Waiting, FirstOnes(Waiting)) /\ active' = NoTransaction
      /\ UNCHANGED <<frame, units, next, scenario>>
      /\ step' = "unit" \/ (step' = "idle" /\ scenario.format = "generic")
  BY DEF Flush, AfterFlush, Return, Emit, deinit_transaction, Waiting
<1>2. /\ TypeInv /\ wire \in Seq(Packets) /\ active.packets \in Seq(Packets) /\ next \in Nat
      /\ wire' \in Seq(Packets) /\ active'.packets = <<>> /\ units \in Seq(Parts)
  BY <1>1, NoTransactionIs DEF SenderInv, TypeInv
<1>3. Numbers /\ Through \in Seq(Parts) /\ Through \o units = Due
  BY <1>1 DEF Deliveries
<1>4. PICK w : w = wire'
  OBVIOUS
<1>5. /\ m \in Nat /\ k \in Nat /\ Len(w) = m + k
      /\ \A i \in 1 .. m : w[i] = wire[i]
      /\ \A i \in 1 .. k : SameLoad(w[m + i], active.packets[i]) /\ w[m + i].n = active.packets[i].n
  BY <1>1, <1>4, AllSent
<1>6. /\ Len(both) = m + k /\ Len(active.packets) = k
      /\ \A i \in 1 .. m : both[i] = wire[i]
      /\ \A i \in 1 .. k : both[m + i] = active.packets[i]
  BY <1>2, ConcatPackets DEF Waiting
<1>7. Through = Received(both)
  BY DEF Through
<1> HIDE DEF both, m, k
<1>8. ASSUME NEW i \in 1 .. m + k PROVE SameLoad(both[i], w[i])
  <2>1. CASE i \in 1 .. m
    BY <1>5, <1>6, <2>1 DEF SameLoad
  <2>2. CASE ~(i \in 1 .. m)
    <3> DEFINE j == i - m
    <3>1. j \in 1 .. k /\ m + j = i
      BY <1>5, <2>2
    <3> HIDE DEF j
    <3>2. SameLoad(w[m + j], active.packets[j]) /\ both[m + j] = active.packets[j]
      BY <1>5, <1>6, <3>1
    <3> QED
      BY <3>1, <3>2 DEF SameLoad
  <2> QED
    BY <2>1, <2>2
<1>9. Received(w) = Received(both)
  <2>1. Len(both) \in Nat /\ Len(w) = Len(both) /\ \A i \in 1 .. Len(both) : SameLoad(both[i], w[i])
    BY <1>5, <1>6, <1>8
  <2> QED
    BY <2>1, ReceivedSame
<1>10. Through' = Through /\ Received(wire)' = Through
  <2>1. w \in Seq(Packets)
    BY <1>2, <1>4
  <2>2. Through' = Received(w)
    BY <1>1, <1>2, <1>4, <2>1, NoneWaits
  <2>3. Received(wire)' = Received(w)
    BY <1>1, <1>4, SameThrough
  <2> QED
    BY <1>7, <1>9, <2>2, <2>3
<1>11. Numbers'
  <2>1. Waiting' = 0 /\ Len(wire') = m + k
    BY <1>2, <1>4, <1>5, EmptySeq DEF Waiting
  <2>2. ASSUME NEW i \in 1 .. m + k PROVE w[i].n = next - 0 - (m + k) + i - 1
    <3>1. CASE i \in 1 .. m
      <4>1. wire[i].n = next - k - m + i - 1
        BY <1>3, <3>1 DEF Numbers, m, k
      <4>2. w[i].n = next - k - m + i - 1
        BY <1>5, <3>1, <4>1
      <4> DEFINE a == w[i].n
      <4> HIDE DEF a
      <4>3. a = next - k - m + i - 1
        BY <4>2 DEF a
      <4>4. a = next - 0 - (m + k) + i - 1
        BY <1>2, <1>5, <4>3
      <4> QED
        BY <4>4 DEF a
    <3>2. CASE ~(i \in 1 .. m)
      <4> DEFINE j == i - m
      <4>1. j \in 1 .. k /\ m + j = i
        BY <1>5, <3>2
      <4>2. active.packets[j].n = next - k + j - 1
        <5>1. DOMAIN active.packets = 1 .. k
          BY <1>2, <1>6, LenProperties
        <5> HIDE DEF j
        <5> QED
          BY <4>1, <5>1 DEF SenderInv, CountInv, k
      <4> HIDE DEF j
      <4>3. w[i].n = next - k + j - 1
        BY <1>5, <4>1, <4>2
      <4> DEFINE a == w[i].n
      <4> HIDE DEF a
      <4>4. a = next - k + j - 1
        BY <4>3 DEF a
      <4>5. a = next - 0 - (m + k) + i - 1
        BY <1>2, <1>5, <4>1, <4>4
      <4> QED
        BY <4>5 DEF a
    <3> QED
      BY <3>1, <3>2
  <2>3. next' = next
    BY <1>1
  <2> QED
    BY <1>4, <2>1, <2>2, <2>3 DEF Numbers
<1>12. Due' = Due
  BY <1>1, SameDue
<1>13. CASE step' = "unit"
  <2>1. Through' \in Seq(Parts) /\ Through' \o units' = Due'
    BY <1>1, <1>3, <1>10, <1>12
  <2> QED
    BY <1>1, <1>11, <1>13, <2>1 DEF Deliveries
<1>14. CASE step' = "idle" /\ scenario.format = "generic"
  <2>1. units = <<>>
    BY <1>14 DEF FormatInv
  <2>2. Through = Due
    BY <1>3, <2>1, ConcatEmptySeq
  <2>3. Received(wire)' = Due' /\ active' = NoTransaction
    BY <1>1, <1>10, <1>12, <2>2
  <2> QED
    BY <1>11, <1>14, <2>3 DEF Deliveries
<1> QED
  BY <1>1, <1>13, <1>14

\* Every step keeps what is due: a failure takes it away until the next push.
LEMMA DeliveryKept ==
  ASSUME SenderInv, SenderInv', PlaceInv, FormatInv, DeliveryInv, [Next]_vars
  PROVE  DeliveryInv'
<1> SUFFICES ASSUME ~failed'.now PROVE Deliveries'
  BY DEF DeliveryInv
<1>1. TypeInv'
  BY DEF SenderInv
<1>2. failed.now = failed'.now => Deliveries
  BY DEF DeliveryInv
<1>3. CASE UNCHANGED vars
  <2>1. UNCHANGED <<frame, scenario, failed, step, ret, wire, active, next, units, bundle>>
    BY <1>3 DEF vars, push, queue
  <2>2. Deliveries /\ TypeInv
    BY <1>2, <2>1 DEF SenderInv
  <2>3. NalUnits' = NalUnits /\ Due' = Due
    BY <2>1, SameDue
  <2>4. Through' = Through /\ Received(wire)' = Received(wire)
    <3>1. (wire \o active.packets)' = wire \o active.packets
      BY <2>1
    <3>2. Through' = Received(wire \o active.packets)
      BY <2>1, <3>1, SameThrough
    <3> QED
      BY <2>1, <3>2, SameThrough DEF Through
  <2>5. Bundled(NalUnits, frame.separate)' = Bundled(NalUnits, frame.separate)
    <3>1. NalHeader' = NalHeader
      BY <2>1 DEF NalHeader
    <3> QED
      BY <2>1, <2>3, <3>1 DEF Bundled, Aggregating, Aggregate
  <2>6. Numbers'
    BY <2>1, <2>2 DEF Deliveries, Numbers, Waiting
  <2> QED
    BY <2>1, <2>2, <2>3, <2>4, <2>5, <2>6 DEF Deliveries
<1>4. ASSUME NEW d \in scenario.frames, NEW ts \in scenario.stamps, PushGeneric(d, ts)
      PROVE  Deliveries'
  BY <1>4, PushGenericDelivers
<1>5. ASSUME NEW d \in scenario.frames, NEW separate \in BOOLEAN, NEW whole \in BOOLEAN,
             NEW ts \in scenario.stamps, PushH26x(d, separate, whole, ts)
      PROVE  Deliveries'
  BY <1>1, <1>5, PushH26xDelivers
<1>6. CASE EnqueueGeneric
  <2>1. Deliveries /\ scenario.format = "generic"
    BY <1>2, <1>6 DEF EnqueueGeneric, PlaceInv
  <2> QED
    BY <1>6, <2>1, EnqueueGenericDelivers
<1>7. CASE finalize_aggregation_pkt
  <2>1. Deliveries
    BY <1>2, <1>7 DEF finalize_aggregation_pkt
  <2> QED
    BY <1>7, <2>1, AggregateDelivers
<1>8. CASE NextUnit
  <2>1. Deliveries
    BY <1>2, <1>8 DEF NextUnit
  <2> QED
    BY <1>8, <2>1, NextUnitDelivers
<1>9. CASE Divide
  <2>1. Deliveries /\ units # <<>>
    BY <1>2, <1>9 DEF Divide, PlaceInv
  <2> QED
    BY <1>9, <2>1, DivideDelivers
<1>10. CASE Finish
  <2>1. Deliveries
    BY <1>2, <1>10 DEF Finish
  <2> QED
    BY <1>10, <2>1, FinishDelivers
<1>11. CASE FlushEmpty
  <2>1. Deliveries
    BY <1>2, <1>11 DEF FlushEmpty
  <2> QED
    BY <1>11, <2>1, FlushEmptyDelivers
<1>12. CASE Flush
  <2>1. Deliveries
    BY <1>2, <1>12 DEF Flush
  <2> QED
    BY <1>1, <1>12, <2>1, FlushDelivers
<1>13. CASE SendFails \/ SendFallsShort \/ PacedSendFails
  <2>1. failed' = [now |-> TRUE, ever |-> TRUE]
    BY <1>13 DEF SendFails, SendFallsShort, PacedSendFails
  <2> QED
    BY <2>1
<1> QED
  BY <1>3, <1>4, <1>5, <1>6, <1>7, <1>8, <1>9, <1>10, <1>11, <1>12, <1>13 DEF Next

\* Before the first push nothing is due.
LEMMA DeliveryStarts == Init => DeliveryInv
<1> SUFFICES ASSUME Init PROVE Deliveries
  BY DEF DeliveryInv
<1>1. wire = <<>> /\ step = "idle" /\ frame.octets = <<>>
  BY DEF Init
<1>2. Numbers
  <2>1. Len(wire) = 0
    BY <1>1
  <2> QED
    BY <2>1 DEF Numbers
<1> QED
  BY <1>1, <1>2 DEF Deliveries

\* When a push has returned, what is due has arrived.
LEMMA DueHasArrived ==
  ASSUME SenderInv, DeliveryInv
  PROVE  SentAsGiven
<1> SUFFICES ASSUME ReportedSent, ~failed.now
             PROVE  /\ InSequence /\ active = NoTransaction
                    /\ \E us \in Given :
                          ReceivedUnits = IF Bundled(us, frame.separate) = 1
                                          THEN Tail(us) ELSE us
  BY DEF SentAsGiven
<1>1. Numbers /\ Received(wire) = Due /\ active = NoTransaction
  BY DEF ReportedSent, DeliveryInv, Deliveries
<1>2. TypeInv
  BY DEF SenderInv
<1>3. InSequence
  <2> DEFINE m == Len(wire)
             base == next - Waiting - m
  <2>1. m \in Nat /\ base \in Int
    BY <1>2, LenProperties DEF TypeInv, Waiting
  <2>2. \A i \in 1 .. m : wire[i].n = base + i - 1
    BY <1>1 DEF Numbers
  <2> SUFFICES ASSUME NEW i \in 1 .. m - 1 PROVE wire[i + 1].n = wire[i].n + 1
    BY DEF InSequence
  <2> DEFINE j == i + 1
  <2> HIDE DEF m, base
  <2>3. i \in 1 .. m /\ j \in 1 .. m /\ i \in Int
    BY <2>1
  <2>4. base + j - 1 = base + i - 1 + 1
    BY <2>1, <2>3
  <2> HIDE DEF j
  <2>5. wire[i].n = base + i - 1 /\ wire[j].n = base + j - 1
    BY <2>2, <2>3
  <2>6. wire[j].n = wire[i].n + 1
    BY <2>1, <2>3, <2>4, <2>5
  <2> QED
    BY <2>6 DEF j
<1>4. NalUnits \in Given
  BY <1>2, NalUnitsAre
<1>5. ReceivedUnits = IF Bundled(NalUnits, frame.separate) = 1
                      THEN Tail(NalUnits) ELSE NalUnits
  BY <1>1 DEF ReceivedUnits, Due
<1> QED
  BY <1>1, <1>3, <1>4, <1>5

\* What push_frame() reports as sent, no flush having failed, has been sent, whatever the octets of the frame are:
\* wherever its start codes lie in the words of the search, and however its units are
\* bundled and fragmented, a receiver makes of the packets on the wire the units of the
\* frame, but for a bundle of one, and the next frame finds no packet left of this one
\* (push_media_frame(), scl(), find_h26x_start_code(), fu_division(), flush_queue()).
THEOREM FramesArriveAsGiven == Spec => []SentAsGiven
<1> DEFINE Inv == SenderInv /\ PlaceInv /\ FormatInv /\ DeliveryInv
<1>1. Init => Inv
  <2>1. Init => PlaceInv
    BY DEF Init, PlaceInv
  <2> QED
    BY <2>1, StartsWithInv, FormatStarts, DeliveryStarts
<1>2. Inv /\ [Next]_vars => Inv'
  BY PlaceKept, NextKeeps, FormatKept, DeliveryKept
<1>3. Inv => SentAsGiven
  BY DueHasArrived
<1> QED
  BY <1>1, <1>2, <1>3, PTL DEF Spec
=============================================================================
