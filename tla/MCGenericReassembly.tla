------------------------- MODULE MCGenericReassembly -------------------------
(* Streams of a few packets for GenericReassembly. *)
EXTENDS GenericReassembly

\* A frame of k packets.
Frame(ts, k) == [i \in 1 .. k |-> [ts |-> ts, marker |-> i = k]]

\* A frame that fits in one packet between two that do not.
Frames == Frame(1, 3) \o Frame(2, 1) \o Frame(3, 4)

\* Reordered, and the sequence number wraps inside a frame.
Wrapping == {[stream |-> Frames, firstSeq |-> 7, window |-> 3, maxTime |-> 0]}
=============================================================================
