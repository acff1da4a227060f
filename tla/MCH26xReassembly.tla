--------------------------- MODULE MCH26xReassembly ---------------------------
(* Streams of a few packets for H26xReassembly. *)
EXTENDS H26xReassembly

\* NAL unit n in k fragments.
Fragments(ts, n, k, type) ==
  [i \in 1 .. k |->
     [ts |-> ts, nals |-> <<n>>, type |-> type,
      frag |-> IF i = 1 THEN "start" ELSE IF i = k THEN "end" ELSE "middle"]]

Aggregate(ts, nals) ==
  <<[ts |-> ts, nals |-> nals, type |-> "other", frag |-> "aggr"]>>

Single(ts, n) ==
  <<[ts |-> ts, nals |-> <<n>>, type |-> "other", frag |-> "single"]>>

\* Parameter sets and an intra picture, an inter picture: one fragmented NAL
\* unit in each access unit.
OneSlice ==
  Aggregate(1, <<1, 2>>) \o Fragments(1, 3, 3, "intra")
    \o Fragments(2, 4, 2, "inter")

\* Pictures of two slices, each a fragmented NAL unit.
TwoSlices ==
  Fragments(1, 1, 2, "intra") \o Fragments(1, 2, 2, "intra")
    \o Single(1, 3) \o Fragments(2, 4, 2, "inter")

\* Two pictures of several slices, with a NAL unit that is not fragmented between
\* two of them.
ThreeSlices ==
  Fragments(1, 1, 2, "intra") \o Single(1, 2) \o Fragments(1, 3, 2, "intra")
    \o Fragments(1, 4, 2, "intra")

\* The packets of the first are reordered, the clock of the second runs and
\* dependencies are enforced; in the third NAL units interleave.  All wrap the
\* sequence number.
Usual ==
  {[stream |-> OneSlice, firstSeq |-> 6, window |-> 3, maxTime |-> 2,
    enforcement |-> FALSE, maxDelay |-> 0, keepTrack |-> 1],
   [stream |-> TwoSlices, firstSeq |-> 7, window |-> 0, maxTime |-> 3,
    enforcement |-> TRUE, maxDelay |-> 1, keepTrack |-> 2],
   [stream |-> ThreeSlices, firstSeq |-> 5, window |-> 4, maxTime |-> 1,
    enforcement |-> FALSE, maxDelay |-> 0, keepTrack |-> 0]}

\* Packets of two NAL units of an access unit overtake each other.
Overtaking ==
  {[stream |-> TwoSlices, firstSeq |-> 0, window |-> 2, maxTime |-> 0,
    enforcement |-> FALSE, maxDelay |-> 1, keepTrack |-> 2]}
=============================================================================
