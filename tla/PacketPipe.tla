----------------------------- MODULE PacketPipe -----------------------------
(***************************************************************************)
(* What a reception flow promises to the streams that use a socket: the    *)
(* packets taken from the socket reach the packet handlers one by one, in  *)
(* the order of their arrival, none skipped and none repeated.  The        *)
(* promise ends when the ring buffer has been overrun: the code never      *)
(* compares the write position with the read position, so from then on     *)
(* the abstract pipe may do anything.                                      *)
(*                                                                         *)
(* Packets are numbered 1, 2, 3, ... in the order the socket delivers them.*)
(***************************************************************************)
EXTENDS Naturals, Sequences

VARIABLES
  taken,     \* how many packets were taken from the socket
  handled,   \* the packets given to the packet handlers, in order
  overrun    \* TRUE once a packet was received over an unprocessed one

pipeVars == <<taken, handled, overrun>>

Init ==
  /\ taken = 0
  /\ handled = <<>>
  /\ overrun = FALSE

\* A packet enters the pipe.
Put ==
  /\ ~overrun /\ ~overrun'
  /\ taken' = taken + 1
  /\ UNCHANGED handled

\* The oldest packet of the pipe is handled.
Deliver ==
  /\ ~overrun /\ ~overrun'
  /\ Len(handled) < taken
  /\ handled' = Append(handled, Len(handled) + 1)
  /\ UNCHANGED taken

\* The pipe breaks, or is broken: no promise is left.
Overrun == overrun'

Next == Put \/ Deliver \/ Overrun

Spec == Init /\ [][Next]_pipeVars
=============================================================================
