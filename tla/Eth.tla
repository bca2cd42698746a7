-------------------------------- MODULE Eth ---------------------------------
(***************************************************************************)
(* The Ethernet layer (net/eth.c): the ring of registered devices, the one *)
(* in use, and the rotation NetStartAgain asks for when an operation gets  *)
(* no answer.  eth_init also rotates, on its own, past every device whose  *)
(* init fails, and both leave their mark in NetRestartWrap.                *)
(*                                                                         *)
(* The driver's init (ath_gmac_clean_rx) succeeds when the link is up.     *)
(***************************************************************************)
EXTENDS Integers

CONSTANT NMACS   \* CFG_ATH_GMAC_NMACS: devices eth0, eth1, ... registered

ASSUME MacsAssumption == NMACS \in Nat \ {0}

VARIABLES
  eth_current,     \* the device in use
  first_failed,    \* static in eth_try_another, keeps its value for ever
  NetRestartWrap,  \* "Tried all network devices"
  state,           \* ETH_STATE_xxx of every device
  link             \* is the cable plugged in, for every device

ethVars == <<eth_current, first_failed, NetRestartWrap, state>>

Devices == 0..(NMACS - 1)
NoDevice == NMACS   \* first_failed is NULL

(* eth_register links every device to the first and the one before to it, *)
(* so that the device j steps after d is this one.                        *)
Next_(d, j) == (d + j) % NMACS

(* eth_register makes the first device the current one. *)
EthInit ==
  /\ eth_current = 0
  /\ first_failed = NoDevice
  /\ NetRestartWrap = FALSE
  /\ state = [d \in Devices |-> "INIT"]
  /\ link \in [Devices -> BOOLEAN]

(* How many devices from c on eth_init finds without a link: all of them,  *)
(* in which case it is back at c.                                          *)
FailedInits(c) ==
  CHOOSE n \in 0..NMACS :
    /\ n < NMACS => link[Next_(c, n)]
    /\ \A j \in 0..(n - 1) : ~link[Next_(c, j)]

InitSucceeds(c) == FailedInits(c) < NMACS

Halted == [state EXCEPT ![eth_current] = "PASSIVE"]

eth_halt == /\ state' = Halted
            /\ UNCHANGED <<eth_current, first_failed, NetRestartWrap>>

(* Mutant: the device is not halted before another one is brought up. *)
eth_initNoHalt(c) ==
  LET d == Next_(c, FailedInits(c))
  IN  /\ eth_current' = d
      /\ state' = IF InitSucceeds(c) THEN [state EXCEPT ![d] = "ACTIVE"]
                                     ELSE state

(* eth_halt, then eth_init with c the current device: it takes the first   *)
(* device from c on that comes up, or ends at c with none.                 *)
eth_init(c) ==
  LET d == Next_(c, FailedInits(c))
  IN  /\ eth_current' = d
      /\ state' = IF InitSucceeds(c) THEN [Halted EXCEPT ![d] = "ACTIVE"]
                                     ELSE Halted

(* Does one of n calls of eth_try_another, the first of them made with     *)
(* current device d, reach ff?                                             *)
Reaches(d, n, ff) == \E j \in 1..n : Next_(d, j) = ff

(* The head of NetLoop: eth_halt, setenv ethact to eth1, eth_set_current   *)
(* (which stays where it is when there is no such device), eth_init.       *)
OpenAt == IF NMACS > 1 THEN 1 ELSE eth_current

EthOpen ==
  /\ eth_init(OpenAt)
  /\ NetRestartWrap' =
       (NetRestartWrap \/ Reaches(OpenAt, FailedInits(OpenAt), first_failed))
  /\ UNCHANGED first_failed

(* Mutant: eth_current is not moved on. *)
SameDevice == eth_current

Another == Next_(eth_current, 1)

FirstFailed(first_restart) ==
  IF first_restart THEN eth_current ELSE first_failed

(* NetRestartWrap as NetStartAgain finds it after eth_try_another and      *)
(* eth_init ...                                                            *)
WrapSeen(first_restart) ==
  \/ NetRestartWrap
  \/ Reaches(eth_current, 1 + FailedInits(Another),
             FirstFailed(first_restart))

(* ... and what the three calls eth_halt, eth_try_another, eth_init leave, *)
(* NetRestartWrap being cleared by NetStartAgain when it was set.          *)
EthAnother(first_restart) ==
  /\ first_failed' = FirstFailed(first_restart)
  /\ eth_init(Another)
  /\ NetRestartWrap' = FALSE
=============================================================================
