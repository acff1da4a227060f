---------------------------- MODULE MCMediaSender ----------------------------
(* Small instances of MediaSender: the formats, and the frames pushed.     *)
EXTENDS MediaSender

Code3 == <<0, 0, 1>>
Code4 == <<0, 0, 0, 1>>
Octets(n) == [i \in 1 .. n |-> 2]

\* One frame of every kind: start codes of both lengths in every alignment, zeros and
\* ones that are no start code, units of all sizes, the empty one included.
Tokens == {Code3, Code4, <<2>>, <<2, 0>>, <<0, 2>>, <<1>>, Octets(3), Octets(11)}
Cut == {f \in {a \o b \o c \o d : a \in {Code3, Code4, <<2>>}, b, c, d \in Tokens} : Len(f) <= 32}

\* A few frames: small units and large ones in several orders.
Unit(n) == Code3 \o Octets(n)
Few == {Unit(2) \o Unit(2), Unit(2) \o Unit(20) \o Unit(2), Unit(2) \o Unit(2) \o Unit(12),
        Unit(11)}
Plain == {Octets(3), Octets(10), Octets(21)}

Stream(format, frames, pushes) ==
    [format |-> format, fragment |-> TRUE, srtp |-> TRUE, paced |-> FALSE, clustered |-> FALSE,
     frames |-> frames, pushes |-> pushes,
     stamps |-> IF frames = Cut THEN {-1} ELSE {-1, 7}]

MCScenarios ==
    {Stream("h264", Cut, 1), Stream("h265", Cut, 1), Stream("h265", Few, 3),
     Stream("atlas", Plain, 2), Stream("generic", Plain, 3),
     [Stream("h264", Few, 2) EXCEPT !.paced = TRUE],
     [Stream("h265", Few, 2) EXCEPT !.clustered = TRUE],
     [Stream("generic", Plain, 2) EXCEPT !.clustered = TRUE],
     [Stream("generic", Plain, 2) EXCEPT !.fragment = FALSE, !.srtp = FALSE]}

\* An H.264 stream as most applications send it.
Simple == {Stream("h264", Few, 1)}
=============================================================================
