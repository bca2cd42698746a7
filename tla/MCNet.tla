------------------------------- MODULE MCNet --------------------------------
(* Instances of Net for TLC, with a clock of two ticks to the second. *)
EXTENDS Net

(* The board: ten seconds overflow a word, leaving less than two. *)
Board(h) == [word |-> 17, tries |-> 5, netretry |-> "yes", recovery |-> FALSE,
             home |-> h, noaddr |-> {}, ip |-> TRUE]

(* The server behind eth1, the device tried first, or behind eth0; every   *)
(* value of netretry; devices without an address; recovery; no IP address; *)
(* a clock that does not overflow; a retry count that ARP can exceed.      *)
AllConfigs ==
  {Board(0),
   [Board(1) EXCEPT !.word = 32],
   [Board(1) EXCEPT !.word = 32, !.tries = 2, !.netretry = "no"],
   [Board(0) EXCEPT !.noaddr = {1}, !.netretry = "once"],
   [Board(1) EXCEPT !.recovery = TRUE],
   [Board(1) EXCEPT !.recovery = TRUE, !.ip = FALSE]}
=============================================================================
