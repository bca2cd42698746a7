------------------------------- MODULE RxFifo -------------------------------
(***************************************************************************)
(* What a receiver promises the network code: the frames the device stored *)
(* are handed over in that order, each once, and are dropped only when the *)
(* receiver is set up anew.  Frames are numbered as they are stored.       *)
(***************************************************************************)
EXTENDS Naturals, Sequences

CONSTANT Capacity

VARIABLES
  arrived,   \* the number of the last frame stored
  waiting    \* frames stored and not handed over

fifoVars == <<arrived, waiting>>

Init == arrived = 0 /\ waiting = <<>>

Store == /\ Len(waiting) < Capacity
         /\ arrived' = arrived + 1
         /\ waiting' = Append(waiting, arrived')

HandOver == /\ waiting # <<>>
            /\ waiting' = Tail(waiting)
            /\ UNCHANGED arrived

Discard == /\ waiting' = <<>>
           /\ UNCHANGED arrived

Next == Store \/ HandOver \/ Discard

Spec == Init /\ [][Next]_fifoVars
=============================================================================
