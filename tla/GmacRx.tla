------------------------------- MODULE GmacRx -------------------------------
(***************************************************************************)
(* The receive ring of one Ethernet device                                 *)
(* (board/atheros/common/qca-eth-953x.c): the driver's init, halt and      *)
(* recv, interleaved with the DMA engine at every access the two share.    *)
(*                                                                         *)
(* recv hands a frame over by calling NetReceive, and a handler called     *)
(* from there (TftpHandler on an error packet) may call NetStartAgain and  *)
(* through it halt the device and set it up again, all inside recv.        *)
(***************************************************************************)
EXTENDS Integers, Sequences

CONSTANTS
  NO_OF_RX_FIFOS,   \* descriptors in the ring
  MaxFrames,        \* bound: frames the device ever stores
  Worlds            \* sets of faults to consider

(* What may happen: init finds the link down, a handler calls              *)
(* NetStartAgain, or the device's packet count outlives a halt (the code   *)
(* does not say whether it does).                                          *)
Faults == {"link", "reentrant", "count"}

ASSUME RingAssumption ==
  /\ NO_OF_RX_FIFOS \in Nat \ {0}
  /\ MaxFrames \in Nat
  /\ Worlds \subseteq SUBSET Faults

VARIABLES
  is_empty,   \* per descriptor: owned by the DMA engine
  frame,      \* per buffer: the frame last stored there, 0 before
  addr,       \* per descriptor: does pkt_start_addr point to its buffer
  next_rx,    \* mac->next_rx
  f, count,   \* locals of recv; f is the index of the descriptor
  given,      \* local i of ath_gmac_clean_rx: descriptors given so far
  pc,         \* where the processor is
  nested,     \* in a handler that has halted the device
  current,    \* is the device eth_current, the one NetLoop polls
  rxe, dmaed, dma,   \* RX_CTRL, packet count (0x194) and DMA position
  mac_en,     \* ATH_MAC_CFG1_RX_EN
  faults,     \* the faults that may happen
  arrived,    \* number of the last frame stored
  taken,      \* number of the last frame handed over or dropped
  before      \* value of arrived when init was last called

ringVars == <<is_empty, frame, addr, next_rx>>
procVars == <<f, count, given, pc, nested, current>>
devVars == <<rxe, dmaed, dma, mac_en>>
ghostVars == <<faults, arrived, taken, before>>
vars == <<ringVars, procVars, devVars, ghostVars>>

Ring == 0..(NO_OF_RX_FIFOS - 1)

(* if (++mac->next_rx >= NO_OF_RX_FIFOS) mac->next_rx = 0 *)
Succ(i) == IF i + 1 >= NO_OF_RX_FIFOS THEN 0 ELSE i + 1

(* ath_gmac_setup_fifos leaves the descriptors as the cleared memory that  *)
(* malloc returns: not owned by the DMA engine, with no buffer.            *)
Init ==
  /\ is_empty = [i \in Ring |-> FALSE]
  /\ frame = [i \in Ring |-> 0]
  /\ addr = [i \in Ring |-> FALSE]
  /\ next_rx = 0
  /\ f = 0 /\ count = 0 /\ given = 0
  /\ pc = "idle" /\ nested = FALSE /\ current = FALSE
  /\ rxe = FALSE /\ dmaed = 0 /\ dma = 0 /\ mac_en = FALSE
  /\ faults \in Worlds
  /\ arrived = 0 /\ taken = 0 /\ before = 0
-----------------------------------------------------------------------------
(* The device.  A frame goes to the descriptor at hand if that is owned by *)
(* the DMA engine, and is counted; otherwise it is lost and the receiver   *)
(* switches itself off.                                                    *)
Receiving == rxe /\ mac_en

DmaReceive ==
  /\ Receiving
  /\ is_empty[dma]
  /\ arrived < MaxFrames
  /\ arrived' = arrived + 1
  /\ is_empty' = [is_empty EXCEPT ![dma] = FALSE]
  /\ frame' = [frame EXCEPT ![dma] = arrived + 1]
  /\ dmaed' = dmaed + 1
  /\ dma' = Succ(dma)
  /\ UNCHANGED <<addr, next_rx, procVars, rxe, mac_en, faults, taken, before>>

DmaOverflow ==
  /\ Receiving
  /\ ~is_empty[dma]
  /\ rxe' = FALSE
  /\ UNCHANGED <<ringVars, procVars, dmaed, dma, mac_en, ghostVars>>
-----------------------------------------------------------------------------
(* Mutant: the MAC is switched off and the DMA engine is not. *)
HaltMacOnly ==
  /\ mac_en' = FALSE
  /\ dmaed' = IF "count" \in faults THEN dmaed ELSE 0
  /\ current' = FALSE
  /\ UNCHANGED <<ringVars, f, count, given, dma, rxe, ghostVars>>

(* ath_gmac_halt *)
Halt ==
  /\ mac_en' = FALSE
  /\ rxe' = FALSE
  /\ dmaed' = IF "count" \in faults THEN dmaed ELSE 0
  /\ current' = FALSE
  /\ UNCHANGED <<ringVars, f, count, given, dma, ghostVars>>

ath_gmac_halt ==
  /\ pc = "idle" /\ current
  /\ Halt
  /\ UNCHANGED <<pc, nested>>

(* The same from a handler, inside recv.  NetReceive calls none for what   *)
(* a descriptor holds that never held a frame: it is too short.            *)
HandlerHalt ==
  /\ "reentrant" \in faults
  /\ pc = "handler" /\ current /\ ~nested
  /\ frame[f] # 0
  /\ Halt
  /\ nested' = TRUE
  /\ UNCHANGED pc

(* ath_gmac_clean_rx, called by eth_init for a device that is no longer,   *)
(* or not yet, the current one.                                            *)
CleanCalled ==
  /\ ~current
  /\ pc = IF nested THEN "handler" ELSE "idle"
  /\ before' = arrived
  /\ UNCHANGED faults

(* With no link it changes nothing, and when no other device comes up it   *)
(* is this one that is polled.                                             *)
CleanNoLink ==
  /\ "link" \in faults
  /\ CleanCalled
  /\ current' = TRUE
  /\ UNCHANGED <<ringVars, f, count, given, pc, nested, devVars, arrived, taken>>

(* It enables the MAC ahead of the ring ... *)
CleanEnable ==
  /\ CleanCalled
  /\ next_rx' = 0
  /\ mac_en' = TRUE
  /\ pc' = "clean"
  /\ given' = 0
  /\ taken' = arrived
  /\ UNCHANGED <<is_empty, frame, addr, f, count, nested, current,
                 rxe, dmaed, dma, arrived>>

(* Mutant: only the first time. *)
CleanedOnce(i) == is_empty[i] \/ ~addr[i]

Cleaned(i) == TRUE

(* ... which it then gives to the DMA engine, one descriptor after the     *)
(* other.  The engine may be at work: a recv whose handler halted the      *)
(* device has started it again on its way out.                             *)
CleanGive ==
  /\ pc = "clean"
  /\ given < NO_OF_RX_FIFOS
  /\ is_empty' = [is_empty EXCEPT ![given] = Cleaned(given)]
  /\ addr' = [addr EXCEPT ![given] = TRUE]
  /\ given' = given + 1
  /\ UNCHANGED <<frame, next_rx, f, count, pc, nested, current, devVars,
                 ghostVars>>

(* The engine is started at the first one. *)
CleanStart ==
  /\ pc = "clean"
  /\ given = NO_OF_RX_FIFOS
  /\ given' = 0
  /\ dma' = 0
  /\ rxe' = TRUE
  /\ current' = TRUE
  /\ pc' = IF nested THEN "handler" ELSE "idle"
  /\ taken' = arrived
  /\ UNCHANGED <<ringVars, f, count, nested, dmaed, mac_en, faults, arrived,
                 before>>

CleanRing == CleanGive \/ CleanStart
-----------------------------------------------------------------------------
(* ath_gmac_recv, one access to shared memory or to a register at a time.  *)
Goto(l) == /\ pc' = l
           /\ UNCHANGED <<given, nested, current>>

ath_gmac_recv ==
  /\ pc = "idle" /\ current
  /\ count' = 0
  /\ Goto("loop")
  /\ UNCHANGED <<ringVars, f, devVars, ghostVars>>

(* Mutant: the ownership of the descriptor is not looked at. *)
OwnedNever(i) == FALSE

rx_owned_by_dma(i) == is_empty[i]

(* if (ath_gmac_rx_owned_by_dma(f)) *)
RecvLoop ==
  /\ pc = "loop"
  /\ f' = next_rx
  /\ Goto(IF rx_owned_by_dma(next_rx) THEN "count" ELSE "take")
  /\ UNCHANGED <<ringVars, count, devVars, ghostVars>>

(* if (!dmaed_pkt) break *)
RecvCount ==
  /\ pc = "count"
  /\ Goto(IF dmaed = 0 THEN "ctrl" ELSE "recheck")
  /\ UNCHANGED <<ringVars, f, count, devVars, ghostVars>>

(* Mutant: the descriptor is not looked at again. *)
RecheckNot == TRUE

(* if (f->is_empty == 1): a frame may have come since. *)
StillEmpty == is_empty[f]

RecvRecheck ==
  /\ pc = "recheck"
  /\ Goto(IF StillEmpty THEN "scan" ELSE "take")
  /\ UNCHANGED <<ringVars, f, count, devVars, ghostVars>>

(* Once round the ring, or up to a frame. *)
RecvScan ==
  LET n == Succ(next_rx)
  IN  /\ pc = "scan"
      /\ count < NO_OF_RX_FIFOS
      /\ next_rx' = n
      /\ f' = n
      /\ count' = IF is_empty[n] THEN count + 1 ELSE 0
      /\ Goto(IF is_empty[n] THEN "scan" ELSE "take")
      /\ UNCHANGED <<is_empty, frame, addr, devVars, ghostVars>>

RecvScanEnd ==
  /\ pc = "scan"
  /\ count >= NO_OF_RX_FIFOS
  /\ Goto("take")
  /\ UNCHANGED <<ringVars, f, count, devVars, ghostVars>>

(* NetReceive(NetRxPackets[mac->next_rx], ...) *)
RecvTake ==
  /\ pc = "take"
  /\ taken' = IF is_empty[next_rx] THEN taken ELSE frame[next_rx]
  /\ Goto("handler")
  /\ UNCHANGED <<ringVars, f, count, devVars, faults, arrived, before>>

(* ath_gmac_reg_wr(mac, 0x194, 1) takes one off the count. *)
RecvAck ==
  /\ pc = "handler"
  /\ dmaed' = IF dmaed = 0 THEN 0 ELSE dmaed - 1
  /\ pc' = "give"
  /\ nested' = FALSE
  /\ UNCHANGED <<ringVars, f, count, given, current, rxe, dma, mac_en,
                 ghostVars>>

(* Mutant: the descriptor is not given back. *)
GivenNot == is_empty

(* ath_gmac_rx_give_to_dma(f), and on to the next one *)
Given == [is_empty EXCEPT ![f] = TRUE]

RecvGive ==
  /\ pc = "give"
  /\ is_empty' = Given
  /\ next_rx' = Succ(next_rx)
  /\ Goto("loop")
  /\ UNCHANGED <<frame, addr, f, count, devVars, ghostVars>>

(* Mutant: the receiver is not started again. *)
RestartNever == FALSE

(* if (!(ath_gmac_reg_rd(mac, ATH_DMA_RX_CTRL))) *)
Stopped == ~rxe

(* The receiver is started again at the last descriptor looked at. *)
RecvCtrl ==
  /\ pc = "ctrl"
  /\ rxe' = (rxe \/ Stopped)
  /\ dma' = IF Stopped THEN f ELSE dma
  /\ Goto("idle")
  /\ UNCHANGED <<ringVars, f, count, dmaed, mac_en, ghostVars>>
-----------------------------------------------------------------------------
Device == DmaReceive \/ DmaOverflow

Recv == \/ ath_gmac_recv \/ RecvLoop \/ RecvCount \/ RecvRecheck
        \/ RecvScan \/ RecvScanEnd \/ RecvTake \/ RecvAck \/ RecvGive
        \/ RecvCtrl

Setup == \/ ath_gmac_halt \/ HandlerHalt
         \/ CleanNoLink \/ CleanEnable \/ CleanRing

Next == Device \/ Recv \/ Setup

Spec == Init /\ [][Next]_vars

(* NetLoop polls the current device over and over, and init returns. *)
FairSpec == Spec /\ WF_vars(Recv) /\ WF_vars(CleanRing)
-----------------------------------------------------------------------------
TypeOK ==
  /\ is_empty \in [Ring -> BOOLEAN]
  /\ frame \in [Ring -> 0..MaxFrames]
  /\ addr \in [Ring -> BOOLEAN]
  /\ next_rx \in Ring /\ f \in Ring /\ dma \in Ring
  /\ count \in 0..NO_OF_RX_FIFOS /\ given \in 0..NO_OF_RX_FIFOS
  /\ pc \in {"idle", "clean", "loop", "count", "recheck", "scan", "take",
             "handler", "give", "ctrl"}
  /\ nested \in BOOLEAN /\ current \in BOOLEAN
  /\ rxe \in BOOLEAN /\ mac_en \in BOOLEAN
  /\ dmaed \in 0..MaxFrames
  /\ faults \in Worlds
  /\ arrived \in 0..MaxFrames /\ taken \in 0..MaxFrames
  /\ before \in 0..MaxFrames

(* Whatever the DMA engine does while recv looks at a descriptor, what is  *)
(* handed over is a frame, the oldest one not handed over yet.             *)
InOrder ==
  faults = {} /\ pc = "take"
    => ~is_empty[next_rx] /\ frame[next_rx] = taken + 1

(* recv has looked at every descriptor once round the ring and found no    *)
(* frame, though the device counts one.  It goes on with the descriptor it *)
(* began with.                                                             *)
FoundNone == count = NO_OF_RX_FIFOS /\ is_empty[next_rx]

(* "For every command we re-setup the ring and start with clean h/w rx     *)
(* state": with the link up, what recv hands over was stored after init    *)
(* was last called.  The one exception: when a handler set the ring up     *)
(* again inside recv, or the count outlived a halt, the device may count a *)
(* frame that no descriptor holds; recv then hands over an old buffer.     *)
FreshFrames ==
  "link" \notin faults /\ pc = "take" =>
    \/ frame[next_rx] > before
    \/ faults # {} /\ FoundNone

(* The device never stores a frame by a descriptor whose address was not   *)
(* set, though recv starts the DMA engine on a ring that init gave up on.  *)
BuffersSet == Receiving => \A i \in Ring : addr[i]

(* A receiver that overflowed is started again, as long as it is polled. *)
Restarted == current /\ mac_en /\ ~rxe ~> rxe \/ ~current

Stored(k) == \E i \in Ring : ~is_empty[i] /\ frame[i] = k

(* Every frame the device counted is handed over, "move to [the descriptor *)
(* where] the packet is available", unless the device is halted before;    *)
(* this also when the link was down at some time.                          *)
AllTaken ==
  \A k \in 1..MaxFrames :
    faults \subseteq {"link"} /\ Stored(k) /\ current
      ~> ~Stored(k) \/ ~current
-----------------------------------------------------------------------------
(* The frames in the ring from next_rx on.  A frame that a handler has     *)
(* seen is still in its descriptor.                                        *)
Held == IF pc \in {"handler", "give"} THEN 1 ELSE 0

Waiting ==
  IF taken = arrived THEN <<>>
  ELSE [j \in 1..(arrived - taken) |->
          frame[(next_rx + Held + j - 1) % NO_OF_RX_FIFOS]]

Fifo == INSTANCE RxFifo WITH Capacity <- NO_OF_RX_FIFOS, waiting <- Waiting

(* Without faults the ring is a FIFO queue: no frame that was stored is    *)
(* lost, doubled or handed over out of turn.                               *)
RingIsFifo ==
  /\ faults = {} => Fifo!Init
  /\ [][faults = {} => Fifo!Next]_<<arrived, Waiting>>
-----------------------------------------------------------------------------
(* What the invariants above rest on.  Until init has first come to its    *)
(* end nothing is stored, and the two switches of the receiver are never   *)
(* on at the same time.                                                    *)
BuffersInv ==
  /\ pc = "clean" => \A i \in Ring : i < given => addr[i]
  /\ \/ \A i \in Ring : addr[i]
     \/ /\ \A i \in Ring : frame[i] = 0
        /\ ~nested
        /\ mac_en => pc = "clean"
        /\ pc = "clean" => ~current
        /\ ~current => ~rxe /\ pc \in {"idle", "clean"}

(* Frames that a descriptor of ours holds came after init was last called; *)
(* while init is at work this is so for the descriptors given to the DMA   *)
(* engine.  Until init has first been called no descriptor is looked at.   *)
Ours == IF pc = "clean" THEN {i \in Ring : i < given}
        ELSE {i \in Ring : addr[i]}

FreshInv ==
  /\ pc \in {"count", "recheck"} => f = next_rx
  /\ pc = "take" => ~is_empty[next_rx] \/ FoundNone
  /\ "link" \notin faults =>
       /\ \A i \in Ours : ~is_empty[i] => frame[i] > before
       /\ current \/ pc \notin {"idle", "clean"} \/ nested
            => \A i \in Ring : addr[i]

(* Frames in the ring, the one a handler sees included, and the distance   *)
(* of a descriptor from next_rx.                                           *)
Fill == Held + (arrived - taken)
Dist(i) == IF i >= next_rx THEN i - next_rx ELSE i - next_rx + NO_OF_RX_FIFOS
Pos(k) == IF next_rx + k >= NO_OF_RX_FIFOS THEN next_rx + k - NO_OF_RX_FIFOS
                                           ELSE next_rx + k

(* The device is halted or being set up: nothing is stored or counted.     *)
HaltedInv ==
  /\ pc \in {"idle", "clean"}
  /\ ~rxe
  /\ dmaed = 0
  /\ pc = "clean" => /\ mac_en /\ next_rx = 0 /\ taken = arrived
                     /\ \A i \in Ring : i < given => is_empty[i]

(* The device runs: the descriptors from next_rx on hold the frames not    *)
(* handed over, in order, and the DMA engine stands behind the last.  What *)
(* recv has found out of the ring stays true while the engine goes on.     *)
RunningInv ==
  /\ pc \notin {"clean", "scan"}
  /\ mac_en
  /\ Fill <= NO_OF_RX_FIFOS
  /\ dma = Pos(Fill)
  /\ \A i \in Ring : is_empty[i] <=> Dist(i) >= Fill
  /\ \A i \in Ring : Dist(i) \in Held..(Fill - 1)
                      => frame[i] = taken + 1 + Dist(i) - Held
  /\ dmaed = (arrived - taken) + (IF pc = "handler" THEN 1 ELSE 0)
  /\ pc \in {"count", "recheck", "take", "handler", "give", "ctrl"}
       => f = next_rx
  /\ pc \in {"recheck", "take"} => taken < arrived
  /\ pc = "ctrl" /\ ~rxe => arrived - taken \in {0, NO_OF_RX_FIFOS}

RingInv ==
  faults = {} =>
    /\ taken <= arrived
    /\ ~nested
    /\ IF current THEN RunningInv ELSE HaltedInv

CountInv == dmaed <= arrived /\ before <= arrived

GmacInv == TypeOK /\ CountInv /\ BuffersInv /\ FreshInv /\ RingInv
=============================================================================
