--------------------------- MODULE MCReceptionFlow ---------------------------
(* ReceptionFlow for TLC; the cfg files give the threads and the bounds.    *)
EXTENDS ReceptionFlow
=============================================================================
