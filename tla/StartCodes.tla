----------------------------- MODULE StartCodes -----------------------------
(***************************************************************************)
(* How h26x::find_h26x_start_code() and scl() cut a frame into NAL units.  *)
(* A frame is a sequence of octets; positions count from 0 as in the code. *)
(* The search compares words of four octets, in steps of range octets, and *)
(* skips eight octets without a zero at a time.                            *)
(***************************************************************************)
EXTENDS Integers, Sequences, FiniteSets, SequencesExt, FiniteSetsExt

Octet(d, i) == d[i + 1]
Word(d, i)  == SubSeq(d, i + 1, i + 4)
HasZero(w)  == \E i \in DOMAIN w : w[i] = 0

NotFound == [pos |-> -1, prefix |-> 0]
Found(pos, prefix) == [pos |-> pos, prefix |-> prefix]

\* prev_value32 is UINT32_MAX at first.
NoWord == <<255, 255, 255, 255>>

\* What the word before and this one show of a start code: how many octets it takes of
\* this one and its length, {} if there is none.
LastOctet(prev, cur) ==         \* XX000000 or XXXX0000, then 01
    IF HasZero(prev) /\ cur[1] = 1 /\ prev[3] = 0 /\ prev[4] = 0
    THEN {<<1, IF prev[2] = 0 THEN 4 ELSE 3>>} ELSE {}

determine_start_prefix_precense(prev, cur) ==
    CASE cur = <<0, 0, 0, 1>>                             -> {<<4, 4>>}
      [] cur[1] = 0 /\ cur[2] = 0 /\ cur[3] = 1           -> {<<3, IF prev[4] = 0 THEN 4 ELSE 3>>}
      [] cur[1] # 0 /\ Tail(cur) = <<0, 0, 1>>            -> {<<4, 3>>}
      [] OTHER                                            -> {}

Split(prev, cur) ==             \* XXXX0000 or XXXXXX00, then 0001
    IF prev[4] = 0 /\ cur[1] = 0 /\ cur[2] = 1
    THEN {<<2, IF prev[3] = 0 THEN 4 ELSE 3>>} ELSE {}

\* Mutant: the code that lies in two words is not looked for.
Unsplit(prev, cur) ==
    IF LastOctet(prev, cur) # {} THEN LastOctet(prev, cur)
    ELSE determine_start_prefix_precense(prev, cur)

StartCode(prev, cur) ==
    IF LastOctet(prev, cur) # {} THEN LastOctet(prev, cur)
    ELSE determine_start_prefix_precense(prev, cur) \cup Split(prev, cur)

\* Octets without a zero are skipped by eights.
Prefetch(d, pos) ==
    LET at(k) == pos + 8 * k
    IN  at(Min({k \in 0 .. Len(d) :
                    at(k) + 8 > Len(d) \/ HasZero(SubSeq(d, at(k) + 1, at(k) + 8))}))

\* The words before the one searched next: with steps of one octet they overlap.
Shift(prev, cur, range) == SubSeq(prev \o cur, range + 1, range + 4)

\* A turn of the loop, and what it hands on: the search ends at a start code, or where
\* less than a word is left.
Turn(d, s, range) ==
    LET pos  == IF s.zeros THEN s.pos ELSE Prefetch(d, s.pos)
        cur  == Word(d, pos)
        next == Shift(s.prev, cur, range)
    IN  IF s.found # NotFound \/ pos + 4 > Len(d) THEN s
        ELSE IF (HasZero(s.prev) \/ HasZero(cur)) /\ StartCode(s.prev, cur) # {}
        THEN LET code == CHOOSE c \in StartCode(s.prev, cur) : TRUE
             IN  [s EXCEPT !.found = Found(pos + code[1], code[2])]
        ELSE [s EXCEPT !.pos = pos + range, !.prev = next,
                       !.zeros = HasZero(next) \/ HasZero(cur)]

find_h26x_start_code(d, offset, range) ==
    LET start == [pos |-> offset, prev |-> NoWord, zeros |-> FALSE, found |-> NotFound]
        turns == Len(d) \div range
        after[n \in 0 .. turns] == IF n = 0 THEN start ELSE Turn(d, after[n - 1], range)
    IN  after[turns].found

\* The start codes of a frame, each searched from behind the one before.
AllCodes(d, range) ==
    LET more(found) ==
            IF Last(found) = NotFound THEN found
            ELSE Append(found, find_h26x_start_code(d, Last(found).pos, range))
        most == Len(d) \div 3
        after[n \in 0 .. most] ==
            IF n = 0 THEN <<find_h26x_start_code(d, 0, range)>> ELSE more(after[n - 1])
    IN  Front(after[most])

\* A NAL unit ends where the start code of the next one begins.
UnitsAt(found, d) ==
    [i \in DOMAIN found |->
        [from |-> found[i].pos,
         to   |-> IF i < Len(found) THEN found[i + 1].pos - found[i + 1].prefix ELSE Len(d)]]

\* The NAL units of a frame by the search, as ranges of positions.
scl(d, range) == UnitsAt(AllCodes(d, range), d)

\* The members of a finite set of numbers in ascending order.
Ascending(s) == \A i \in 1 .. Len(s) - 1 : s[i] < s[i + 1]
InOrder(S) == CHOOSE s \in [1 .. Cardinality(S) -> S] : Ascending(s)

\* The NAL units of a frame by their definition: every 000001 begins one, and a zero
\* before it belongs to the start code, if it is not before the last unit.
Codes(d) == {i \in 3 .. Len(d) : SubSeq(d, i - 2, i) = <<0, 0, 1>>}
ReferenceUnits(d) ==
    LET codes == InOrder(Codes(d))
        prefix(i) == LET least == IF i = 1 THEN 1 ELSE codes[i - 1] + 1
                     IN  IF codes[i] - 3 >= least /\ d[codes[i] - 3] = 0 THEN 4 ELSE 3
    IN  UnitsAt([i \in DOMAIN codes |-> Found(codes[i], prefix(i))], d)
=============================================================================
