---------------------------- MODULE FileTransfer ----------------------------
(***************************************************************************)
(* What the TFTP command promises its caller: blocks of the file appear in *)
(* RAM, each in its place and in any order, until the transfer is either   *)
(* reported complete, with the file's size, or given up.  It is reported   *)
(* complete only when the whole file is there, and nothing touches the     *)
(* image once an end has been reported.                                    *)
(***************************************************************************)
EXTENDS Naturals

CONSTANTS
  Blocks,    \* number of blocks of the file
  Size       \* its size

VARIABLES
  image,     \* the block held by each place, 0 for none
  outcome,   \* "running", "complete" or "given up"
  size       \* the size reported, 0 until one is

vars == <<image, outcome, size>>

Init == /\ image = [s \in 1..Blocks |-> 0]
        /\ outcome = "running"
        /\ size = 0

Receive == /\ outcome = "running"
           /\ \E s \in 1..Blocks : image' = [image EXCEPT ![s] = s]
           /\ UNCHANGED <<outcome, size>>

Complete == /\ outcome = "running"
            /\ \A s \in 1..Blocks : image[s] = s
            /\ outcome' = "complete"
            /\ size' = Size
            /\ UNCHANGED image

GiveUp == /\ outcome = "running"
          /\ outcome' = "given up"
          /\ UNCHANGED <<image, size>>

Next == Receive \/ Complete \/ GiveUp

Spec == Init /\ [][Next]_vars
=============================================================================
