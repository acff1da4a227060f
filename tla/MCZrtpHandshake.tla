--------------------------- MODULE MCZrtpHandshake ---------------------------
(* The situations considered for ZrtpHandshake. *)
EXTENDS ZrtpHandshake

\* One negotiation that nobody gives up, and two of endpoints that do give up, the
\* second in multistream mode or another Diffie-Hellman negotiation.
Usual == {[modes |-> <<"dh">>, patient |-> TRUE],
          [modes |-> <<"dh", "msm">>, patient |-> FALSE],
          [modes |-> <<"dh", "dh">>, patient |-> FALSE]}

=============================================================================
