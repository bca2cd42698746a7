----------------------------- MODULE GmacProof ------------------------------
(***************************************************************************)
(* Proofs about GmacRx, for every size of the ring: no frame is stored     *)
(* where init did not set an address, no frame from before init is handed  *)
(* over, and without faults the ring is a FIFO queue.                      *)
(***************************************************************************)
EXTENDS GmacRx, TLAPS

(* The index after one of the ring is one of the ring. *)
LEMMA SuccInRing == \A i \in Ring : Succ(i) \in Ring
  BY RingAssumption DEF Ring, Succ

LEMMA InitInv == Init => GmacInv
<1> SUFFICES ASSUME Init PROVE GmacInv
  OBVIOUS
<1> USE RingAssumption
<1>1. 0 \in Ring  BY DEF Ring
<1>2. TypeOK
  <2>1. /\ nested \in BOOLEAN /\ current \in BOOLEAN
        /\ rxe \in BOOLEAN /\ mac_en \in BOOLEAN
    BY Zenon DEF Init
  <2>2. /\ is_empty \in [Ring -> BOOLEAN]
        /\ addr \in [Ring -> BOOLEAN]
    BY DEF Init
  <2>3. /\ frame \in [Ring -> 0..MaxFrames]
        /\ count \in 0..NO_OF_RX_FIFOS /\ dmaed \in 0..MaxFrames
        /\ arrived \in 0..MaxFrames /\ taken \in 0..MaxFrames
        /\ before \in 0..MaxFrames
    BY DEF Init
  <2> QED  BY <1>1, <2>1, <2>2, <2>3, Zenon DEF Init, TypeOK
<1>3. CountInv  BY DEF Init, CountInv
<1>4. BuffersInv  BY DEF Init, BuffersInv
<1>5. FreshInv  BY DEF Init, FreshInv, Ours
<1>6. RingInv  BY DEF Init, RingInv, HaltedInv
<1> QED  BY <1>2, <1>3, <1>4, <1>5, <1>6 DEF GmacInv

(* A frame is numbered one more than the last, and counted once. *)
LEMMA TypeStep == TypeOK /\ CountInv /\ [Next]_vars => TypeOK' /\ CountInv'
<1> SUFFICES ASSUME TypeOK, CountInv, [Next]_vars PROVE TypeOK' /\ CountInv'
  OBVIOUS
<1> USE RingAssumption, SuccInRing
<1> USE DEF TypeOK, CountInv, ringVars, procVars, devVars, ghostVars, vars,
            Goto
<1>0. 0 \in Ring  BY DEF Ring
<1>1. CASE DmaReceive  BY <1>1 DEF DmaReceive
<1>2. CASE DmaOverflow  BY <1>2 DEF DmaOverflow
<1>3. CASE ath_gmac_recv  BY <1>3 DEF ath_gmac_recv
<1>4. CASE RecvLoop  BY <1>4 DEF RecvLoop
<1>5. CASE RecvCount  BY <1>5 DEF RecvCount
<1>6. CASE RecvRecheck  BY <1>6 DEF RecvRecheck
<1>7. CASE RecvScan  BY <1>7 DEF RecvScan
<1>8. CASE RecvScanEnd  BY <1>8 DEF RecvScanEnd
<1>9. CASE RecvTake  BY <1>9 DEF RecvTake
<1>10. CASE RecvAck
  <2>1. /\ nested' \in BOOLEAN /\ current' \in BOOLEAN
        /\ rxe' \in BOOLEAN /\ mac_en' \in BOOLEAN
    BY <1>10, Zenon DEF RecvAck
  <2>2. dmaed' \in 0..MaxFrames /\ dmaed' <= arrived
    BY <1>10 DEF RecvAck
  <2> QED  BY <1>10, <2>1, <2>2, Zenon DEF RecvAck
<1>11. CASE RecvGive  BY <1>11 DEF RecvGive, Given
<1>12. CASE RecvCtrl  BY <1>12 DEF RecvCtrl, Stopped
<1>13. CASE ath_gmac_halt
  <2>1. /\ nested' \in BOOLEAN /\ current' \in BOOLEAN
        /\ rxe' \in BOOLEAN /\ mac_en' \in BOOLEAN
    BY <1>13, Zenon DEF ath_gmac_halt, Halt
  <2>2. dmaed' \in 0..MaxFrames /\ dmaed' <= arrived
    BY <1>13 DEF ath_gmac_halt, Halt
  <2> QED  BY <1>13, <2>1, <2>2, Zenon DEF ath_gmac_halt, Halt
<1>14. CASE HandlerHalt
  <2>1. /\ nested' \in BOOLEAN /\ current' \in BOOLEAN
        /\ rxe' \in BOOLEAN /\ mac_en' \in BOOLEAN
    BY <1>14, Zenon DEF HandlerHalt, Halt
  <2>2. dmaed' \in 0..MaxFrames /\ dmaed' <= arrived
    BY <1>14 DEF HandlerHalt, Halt
  <2> QED  BY <1>14, <2>1, <2>2, Zenon DEF HandlerHalt, Halt
<1>15. CASE CleanNoLink  BY <1>15 DEF CleanNoLink, CleanCalled
<1>16. CASE CleanEnable  BY <1>0, <1>16 DEF CleanEnable, CleanCalled
<1>17. CASE CleanRing
  <2>1. CASE CleanGive
    <3>1. given' \in 0..NO_OF_RX_FIFOS
      BY <2>1 DEF CleanGive
    <3>2. is_empty' \in [Ring -> BOOLEAN] /\ addr' \in [Ring -> BOOLEAN]
      BY <2>1 DEF CleanGive, Cleaned
    <3> QED  BY <2>1, <3>1, <3>2, Zenon DEF CleanGive
  <2>2. CASE CleanStart  BY <1>0, <2>2 DEF CleanStart
  <2> QED  BY <1>17, <2>1, <2>2 DEF CleanRing
<1>18. CASE UNCHANGED vars  BY <1>18
<1> QED
  BY <1>1, <1>2, <1>3, <1>4, <1>5, <1>6, <1>7, <1>8, <1>9, <1>10, <1>11,
     <1>12, <1>13, <1>14, <1>15, <1>16, <1>17, <1>18
     DEF Next, Device, Recv, Setup
-----------------------------------------------------------------------------
(* A ring that init never got to is never received into. *)
LEMMA BuffersStep ==
  TypeOK /\ BuffersInv /\ [Next]_vars => BuffersInv'
<1> SUFFICES ASSUME TypeOK, BuffersInv, [Next]_vars PROVE BuffersInv'
  OBVIOUS
<1> USE DEF TypeOK, BuffersInv, ringVars, procVars, devVars, ghostVars, vars,
            Goto
<1>1. CASE DmaReceive  BY <1>1 DEF DmaReceive, Receiving
<1>2. CASE DmaOverflow  BY <1>2 DEF DmaOverflow, Receiving
<1>3. CASE ath_gmac_recv  BY <1>3 DEF ath_gmac_recv
<1>4. CASE RecvLoop  BY <1>4 DEF RecvLoop, rx_owned_by_dma
<1>5. CASE RecvCount  BY <1>5 DEF RecvCount
<1>6. CASE RecvRecheck  BY <1>6 DEF RecvRecheck, StillEmpty
<1>7. CASE RecvScan  BY <1>7 DEF RecvScan
<1>8. CASE RecvScanEnd  BY <1>8 DEF RecvScanEnd
<1>9. CASE RecvTake  BY <1>9 DEF RecvTake
<1>10. CASE RecvAck  BY <1>10 DEF RecvAck
<1>11. CASE RecvGive  BY <1>11 DEF RecvGive, Given
<1>12. CASE RecvCtrl  BY <1>12 DEF RecvCtrl, Stopped
<1>13. CASE ath_gmac_halt  BY <1>13 DEF ath_gmac_halt, Halt
<1>14. CASE HandlerHalt  BY <1>14 DEF HandlerHalt, Halt
<1>15. CASE CleanNoLink  BY <1>15 DEF CleanNoLink, CleanCalled
<1>16. CASE CleanEnable
  BY <1>16, RingAssumption DEF CleanEnable, CleanCalled, Ring
<1>17. CASE CleanRing
  <2>1. CASE CleanGive
    BY <2>1, RingAssumption DEF CleanGive, Cleaned, Ring
  <2>2. CASE CleanStart
    BY <2>2, RingAssumption DEF CleanStart, Ring
  <2> QED  BY <1>17, <2>1, <2>2 DEF CleanRing
<1>18. CASE UNCHANGED vars  BY <1>18
<1> QED
  BY <1>1, <1>2, <1>3, <1>4, <1>5, <1>6, <1>7, <1>8, <1>9, <1>10, <1>11,
     <1>12, <1>13, <1>14, <1>15, <1>16, <1>17, <1>18
     DEF Next, Device, Recv, Setup

(* Init empties the ring, so what it holds later came later. *)
LEMMA FreshStep ==
  TypeOK /\ CountInv /\ BuffersInv /\ FreshInv /\ [Next]_vars => FreshInv'
<1> SUFFICES ASSUME TypeOK, CountInv, BuffersInv, FreshInv, [Next]_vars
             PROVE  FreshInv'
  OBVIOUS
<1> USE DEF TypeOK, CountInv, FreshInv, Ours, FoundNone, ringVars, procVars,
            devVars, ghostVars, vars, Goto
<1>1. CASE DmaReceive  BY <1>1 DEF DmaReceive, Receiving
<1>2. CASE DmaOverflow  BY <1>2 DEF DmaOverflow, Receiving
<1>3. CASE ath_gmac_recv  BY <1>3 DEF ath_gmac_recv
<1>4. CASE RecvLoop  BY <1>4 DEF RecvLoop, rx_owned_by_dma
<1>5. CASE RecvCount  BY <1>5 DEF RecvCount
<1>6. CASE RecvRecheck  BY <1>6 DEF RecvRecheck, StillEmpty
<1>7. CASE RecvScan  BY <1>7 DEF RecvScan
<1>8. CASE RecvScanEnd  BY <1>8, RingAssumption DEF RecvScanEnd
<1>9. CASE RecvTake  BY <1>9 DEF RecvTake
<1>10. CASE RecvAck  BY <1>10 DEF RecvAck
<1>11. CASE RecvGive  BY <1>11 DEF RecvGive, Given
<1>12. CASE RecvCtrl  BY <1>12 DEF RecvCtrl, Stopped
<1>13. CASE ath_gmac_halt  BY <1>13 DEF ath_gmac_halt, Halt
<1>14. CASE HandlerHalt  BY <1>14 DEF HandlerHalt, Halt
<1>15. CASE CleanNoLink  BY <1>15 DEF CleanNoLink, CleanCalled
<1>16. CASE CleanEnable
  BY <1>16, RingAssumption DEF CleanEnable, CleanCalled, Ring
<1>17. CASE CleanRing
  <2>1. CASE CleanGive
    BY <2>1, RingAssumption DEF CleanGive, Cleaned, Ring
  <2>2. CASE CleanStart
    BY <2>2, RingAssumption DEF CleanStart, BuffersInv, Ring
  <2> QED  BY <1>17, <2>1, <2>2 DEF CleanRing
<1>18. CASE UNCHANGED vars  BY <1>18
<1> QED
  BY <1>1, <1>2, <1>3, <1>4, <1>5, <1>6, <1>7, <1>8, <1>9, <1>10, <1>11,
     <1>12, <1>13, <1>14, <1>15, <1>16, <1>17, <1>18
     DEF Next, Device, Recv, Setup
-----------------------------------------------------------------------------
LEMMA RingStep ==
  TypeOK /\ RingInv /\ [Next]_vars => RingInv'
<1> SUFFICES ASSUME TypeOK, RingInv, [Next]_vars, faults' = {} PROVE RingInv'
  BY DEF RingInv
<1>0. faults = {}
  BY DEF Next, Device, Recv, Setup, DmaReceive, DmaOverflow, ath_gmac_recv,
         RecvLoop, RecvCount, RecvRecheck, RecvScan, RecvScanEnd, RecvTake,
         RecvAck, RecvGive, RecvCtrl, ath_gmac_halt, HandlerHalt, Halt,
         CleanNoLink, CleanEnable, CleanRing, CleanGive, CleanStart,
         CleanCalled, vars, ghostVars
<1> USE <1>0, RingAssumption
<1> USE DEF TypeOK, RingInv, RunningInv, HaltedInv, Held, Fill, Dist, Pos,
            Ring, Succ, ringVars, procVars, devVars, ghostVars, vars, Goto
<1>1. CASE DmaReceive
  <2> USE <1>1 DEF DmaReceive, Receiving
  <2>1. /\ current /\ RunningInv /\ ~nested /\ taken <= arrived
        /\ Fill < NO_OF_RX_FIFOS /\ Dist(dma) = Fill /\ dma = Pos(Fill)
    OBVIOUS
  <2>2. \A i \in Ring : Dist(i) = Fill => i = dma
    BY <2>1
  <2>3. /\ Fill' = Fill + 1 /\ Held' = Held
        /\ \A i \in Ring : Dist(i)' = Dist(i)
    OBVIOUS
  <2>4. Fill \in Nat /\ Held \in 0..1 /\ Held <= Fill
        /\ \A i \in Ring : Dist(i) \in Nat
    OBVIOUS
  <2>5. \A i \in Ring : is_empty'[i] <=> Dist(i)' >= Fill'
    <3>1. \A i \in Ring : is_empty[i] <=> Dist(i) >= Fill  BY <2>1
    <3> QED  BY <2>1, <2>2, <2>3, <2>4, <3>1 DEF RunningInv
  <2>6. \A i \in Ring : Dist(i)' \in Held'..(Fill' - 1)
                        => frame'[i] = taken' + 1 + Dist(i)' - Held'
    <3>1. \A i \in Ring : Dist(i) \in Held..(Fill - 1)
                        => frame[i] = taken + 1 + Dist(i) - Held
      BY <2>1
    <3>2. arrived + 1 = taken + 1 + Fill - Held  BY <2>1
    <3>3. SUFFICES ASSUME NEW i \in Ring, Dist(i)' \in Held'..(Fill' - 1)
                   PROVE  frame'[i] = taken' + 1 + Dist(i)' - Held'
      OBVIOUS
    <3>4. Dist(i) \in Held..Fill /\ Dist(i)' = Dist(i) /\ Held' = Held
      BY <2>3, <2>4, <3>3
    <3>5. CASE i = dma  BY <2>1, <3>2, <3>4, <3>5
    <3>6. CASE i # dma
      <4>1. Dist(i) \in Held..(Fill - 1)  BY <2>2, <2>4, <3>4, <3>6
      <4>2. frame'[i] = frame[i]  BY <3>6
      <4> QED  BY <3>1, <3>4, <4>1, <4>2
    <3> QED  BY <3>5, <3>6
  <2>7. dma' = Pos(Fill)'  BY <2>1, <2>3
  <2> QED  BY <2>1, <2>3, <2>5, <2>6, <2>7
<1>2. CASE DmaOverflow  BY <1>2 DEF DmaOverflow, Receiving
<1>3. CASE ath_gmac_recv  BY <1>3 DEF ath_gmac_recv
<1>4. CASE RecvLoop  BY <1>4 DEF RecvLoop, rx_owned_by_dma
<1>5. CASE RecvCount  BY <1>5 DEF RecvCount
<1>6. CASE RecvRecheck  BY <1>6 DEF RecvRecheck, StillEmpty
<1>7. CASE RecvScan  BY <1>7 DEF RecvScan
<1>8. CASE RecvScanEnd  BY <1>8 DEF RecvScanEnd
<1>9. CASE RecvTake
  <2> USE <1>9 DEF RecvTake
  <2>1. current /\ RunningInv /\ ~nested /\ taken < arrived /\ Held = 0
    OBVIOUS
  <2>2. ~is_empty[next_rx] /\ frame[next_rx] = taken + 1
    <3>1. next_rx \in Ring /\ Dist(next_rx) = 0 /\ Fill > 0  BY <2>1
    <3> QED  BY <2>1, <3>1
  <2>3. Held' = 1 /\ taken' = taken + 1 /\ Fill' = Fill
        /\ \A i \in Ring : Dist(i)' = Dist(i)
    BY <2>1, <2>2
  <2> QED  BY <2>1, <2>2, <2>3
<1>10. CASE RecvAck  BY <1>10 DEF RecvAck
<1>11. CASE RecvGive
  <2> USE <1>11 DEF RecvGive, Given
  <2>1. current /\ RunningInv /\ ~nested /\ Held = 1 /\ f = next_rx
    OBVIOUS
  <2>2. Held' = 0 /\ Fill' = Fill - 1 /\ Fill >= 1
    OBVIOUS
  <2>3. \A i \in Ring : Dist(i)' = IF i = next_rx THEN NO_OF_RX_FIFOS - 1
                                                 ELSE Dist(i) - 1
    OBVIOUS
  <2>4. dma' = Pos(Fill)'
    BY <2>1, <2>2
  <2>5. \A i \in Ring : is_empty'[i] <=> Dist(i)' >= Fill'
    <3>1. \A i \in Ring : is_empty[i] <=> Dist(i) >= Fill  BY <2>1
    <3> QED  BY <2>1, <2>2, <2>3, <3>1
  <2>6. \A i \in Ring : Dist(i)' \in Held'..(Fill' - 1)
                        => frame'[i] = taken' + 1 + Dist(i)' - Held'
    <3>1. \A i \in Ring : Dist(i) \in Held..(Fill - 1)
                        => frame[i] = taken + 1 + Dist(i) - Held
      BY <2>1
    <3>2. SUFFICES ASSUME NEW i \in Ring, Dist(i)' \in Held'..(Fill' - 1)
                   PROVE  frame'[i] = taken' + 1 + Dist(i)' - Held'
      OBVIOUS
    <3>3. i # next_rx  BY <2>1, <2>3, <3>2
    <3>4. Dist(i)' = Dist(i) - 1 /\ Dist(i) \in Int  BY <2>3, <3>3
    <3>5. Dist(i) \in Held..(Fill - 1)  BY <2>1, <3>2, <3>4
    <3>6. frame[i] = taken + 1 + Dist(i) - 1  BY <2>1, <3>1, <3>5
    <3>7. frame' = frame /\ taken' = taken /\ Held' = 0  BY <2>2
    <3> HIDE DEF Dist, Held
    <3> QED  BY <3>4, <3>6, <3>7
  <2> QED  BY <2>1, <2>2, <2>4, <2>5, <2>6
<1>12. CASE RecvCtrl  BY <1>12 DEF RecvCtrl, Stopped
<1>13. CASE ath_gmac_halt  BY <1>13 DEF ath_gmac_halt, Halt
<1>14. CASE HandlerHalt  BY <1>14 DEF HandlerHalt, Halt
<1>15. CASE CleanNoLink  BY <1>15 DEF CleanNoLink, CleanCalled
<1>16. CASE CleanEnable  BY <1>16 DEF CleanEnable, CleanCalled
<1>17. CASE CleanRing
  <2>1. CASE CleanGive  BY <2>1 DEF CleanGive, Cleaned
  <2>2. CASE CleanStart
    <3> USE <2>2 DEF CleanStart
    <3>1. /\ ~current /\ HaltedInv /\ ~nested /\ next_rx = 0
          /\ pc' = "idle" /\ Held' = 0 /\ Fill' = 0
      OBVIOUS
    <3>2. \A i \in Ring : is_empty[i]  BY <3>1
    <3>3. dma' = Pos(Fill)' /\ \A i \in Ring : is_empty'[i] /\ Dist(i)' >= 0
      BY <3>1, <3>2
    <3> QED  BY <3>1, <3>3
  <2> QED  BY <1>17, <2>1, <2>2 DEF CleanRing
<1>18. CASE UNCHANGED vars  BY <1>18
<1> QED
  BY <1>1, <1>2, <1>3, <1>4, <1>5, <1>6, <1>7, <1>8, <1>9, <1>10, <1>11,
     <1>12, <1>13, <1>14, <1>15, <1>16, <1>17, <1>18
     DEF Next, Device, Recv, Setup
-----------------------------------------------------------------------------
(* The invariant, for every ring and whatever may happen to it. *)
THEOREM Invariant == Spec => []GmacInv
<1>1. GmacInv /\ [Next]_vars => GmacInv'
  BY TypeStep, BuffersStep, FreshStep, RingStep DEF GmacInv
<1> QED  BY <1>1, InitInv, PTL DEF Spec

(* No frame is stored where init did not set an address. *)
THEOREM BuffersAreSet == Spec => []BuffersSet
<1>1. GmacInv => BuffersSet
  BY DEF GmacInv, BuffersInv, BuffersSet, Receiving
<1> QED  BY <1>1, Invariant, PTL

(* Where recv goes on to hand a frame over there is one, and the next. *)
THEOREM TakenInOrder == Spec => []InOrder
<1>1. GmacInv => InOrder
  <2> SUFFICES ASSUME GmacInv, faults = {}, pc = "take"
               PROVE  ~is_empty[next_rx] /\ frame[next_rx] = taken + 1
    BY DEF InOrder
  <2>1. TypeOK /\ RunningInv /\ taken < arrived
    BY DEF GmacInv, RingInv, HaltedInv, RunningInv
  <2>2. next_rx \in Ring /\ Dist(next_rx) = 0 /\ Held = 0 /\ Fill > 0
    BY <2>1, RingAssumption DEF TypeOK, Ring, Dist, Held, Fill
  <2> QED  BY <2>1, <2>2 DEF TypeOK, RunningInv, Fill
<1> QED  BY <1>1, Invariant, PTL
(* What recv hands over came after init was last called, with the link up  *)
(* and but for the round in vain that a handler's set-up may lead to.      *)
THEOREM FramesAreFresh == Spec => []FreshFrames
<1>1. GmacInv /\ InOrder => FreshFrames
  <2> SUFFICES ASSUME GmacInv, InOrder, "link" \notin faults, pc = "take",
                      ~(faults # {} /\ FoundNone)
               PROVE  frame[next_rx] > before
    BY DEF FreshFrames
  <2>1. next_rx \in Ring /\ \A i \in Ring : addr[i]
    BY DEF GmacInv, TypeOK, FreshInv
  <2>2. ~is_empty[next_rx]
    BY DEF GmacInv, FreshInv, InOrder
  <2> QED  BY <2>1, <2>2 DEF GmacInv, FreshInv, Ours
<1> QED  BY <1>1, Invariant, TakenInOrder, PTL
-----------------------------------------------------------------------------
(* The numbers after a up to b, in order. *)
Span(a, b) == [j \in 1..(b - a) |-> a + j]

LEMMA SpanIsSeq ==
  ASSUME NEW a \in Nat, NEW b \in Nat, a <= b
  PROVE  Span(a, b) \in Seq(Nat) /\ Len(Span(a, b)) = b - a
  BY DEF Span

LEMMA SpanEmpty == ASSUME NEW a \in Nat PROVE Span(a, a) = <<>>
  BY SpanIsSeq

LEMMA SpanAppend ==
  ASSUME NEW a \in Nat, NEW b \in Nat, a <= b
  PROVE  Append(Span(a, b), b + 1) = Span(a, b + 1)
<1> DEFINE s == Span(a, b)
           t == Append(s, b + 1)
<1>1. s \in Seq(Nat) /\ Len(s) = b - a /\ \A j \in 1..(b - a) : s[j] = a + j
  BY SpanIsSeq DEF Span
<1>2. t \in Seq(Nat) /\ Len(t) = b + 1 - a
  <2> HIDE DEF s
  <2> QED  BY <1>1
<1>3. \A j \in 1..(b + 1 - a) : t[j] = a + j
  <2> HIDE DEF s
  <2> QED  BY <1>1
<1>4. t = [j \in 1..(b + 1 - a) |-> a + j]
  <2> HIDE DEF t
  <2> QED  BY <1>2, <1>3
<1> QED  BY <1>4 DEF Span

LEMMA SpanTail ==
  ASSUME NEW a \in Nat, NEW b \in Nat, a < b
  PROVE  Span(a, b) # <<>> /\ Tail(Span(a, b)) = Span(a + 1, b)
<1> DEFINE s == Span(a, b)
           t == Tail(s)
<1>1. s \in Seq(Nat) /\ Len(s) = b - a /\ \A j \in 1..(b - a) : s[j] = a + j
  BY SpanIsSeq DEF Span
<1>2. s # <<>> /\ t \in Seq(Nat) /\ Len(t) = b - (a + 1)
  <2> HIDE DEF s
  <2> QED  BY <1>1
<1>3. \A j \in 1..(b - (a + 1)) : t[j] = a + 1 + j
  <2> HIDE DEF s
  <2> QED  BY <1>1
<1>4. t = [j \in 1..(b - (a + 1)) |-> a + 1 + j]
  <2> HIDE DEF t
  <2> QED  BY <1>2, <1>3
<1> QED  BY <1>2, <1>4 DEF Span

LEMMA ModTwice ==
  ASSUME NEW p \in Nat \ {0}, NEW x \in 0..(2 * p - 1)
  PROVE  x % p = IF x >= p THEN x - p ELSE x
<1>1. CASE x < p  BY <1>1, SMT
<1>2. CASE x >= p
  <2>1. x = p * 1 + (x - p) /\ x - p \in 0..(p - 1)  BY <1>2
  <2> QED  BY <1>2, <2>1, SMT
<1> QED  BY <1>1, <1>2

(* Counting on from next_rx, by the remainder or by a comparison. *)
LEMMA PosIsMod ==
  ASSUME TypeOK, NEW k \in 0..NO_OF_RX_FIFOS
  PROVE  (next_rx + k) % NO_OF_RX_FIFOS = Pos(k)
<1> DEFINE x == next_rx + k
<1>1. x \in 0..(2 * NO_OF_RX_FIFOS - 1)
  BY RingAssumption DEF TypeOK, Ring
<1>2. Pos(k) = IF x >= NO_OF_RX_FIFOS THEN x - NO_OF_RX_FIFOS ELSE x
  BY <1>1, RingAssumption DEF TypeOK, Ring, Pos
<1> HIDE DEF x
<1>3. x % NO_OF_RX_FIFOS = Pos(k)  BY <1>1, <1>2, ModTwice, RingAssumption
<1> QED  BY <1>3 DEF x

(* The ring of a device that runs holds the frames after taken, in order. *)
LEMMA WaitingIsSpan ==
  GmacInv /\ faults = {} /\ current => Waiting = Span(taken, arrived)
<1> SUFFICES ASSUME GmacInv, faults = {}, current
             PROVE  Waiting = Span(taken, arrived)
  OBVIOUS
<1>1. TypeOK /\ RunningInv /\ taken <= arrived
  BY DEF GmacInv, RingInv
<1>2. arrived \in Nat /\ taken \in Nat /\ next_rx \in Ring
      /\ NO_OF_RX_FIFOS \in Nat \ {0} /\ Held \in 0..1
      /\ Held + (arrived - taken) <= NO_OF_RX_FIFOS
  BY <1>1, RingAssumption DEF TypeOK, RunningInv, Fill, Held
<1>3. CASE taken = arrived
  BY <1>2, <1>3, SpanEmpty DEF Waiting
<1>4. CASE taken # arrived
  <2>1. ASSUME NEW j \in 1..(arrived - taken)
        PROVE  frame[(next_rx + Held + j - 1) % NO_OF_RX_FIFOS] = taken + j
    <3> DEFINE k == Held + j - 1
    <3>1. k \in 0..NO_OF_RX_FIFOS /\ k \in Held..(Fill - 1)
          /\ k < NO_OF_RX_FIFOS /\ next_rx + Held + j - 1 = next_rx + k
      BY <1>2 DEF Fill, Ring
    <3>2. Pos(k) \in Ring /\ Dist(Pos(k)) = k
      <4> HIDE DEF k
      <4> QED  BY <1>2, <3>1 DEF Pos, Dist, Ring
    <3>3. (next_rx + k) % NO_OF_RX_FIFOS = Pos(k)
      BY <1>1, <3>1, PosIsMod
    <3>4. frame[Pos(k)] = taken + 1 + k - Held
      BY <1>1, <3>1, <3>2 DEF RunningInv
    <3> QED  BY <1>2, <3>1, <3>3, <3>4
  <2> QED  BY <1>4, <2>1, Zenon DEF Waiting, Span
<1> QED  BY <1>3, <1>4

(* Every step of the ring without faults is one of the queue, or none that *)
(* the queue can see.                                                      *)
LEMMA FifoStep ==
  ASSUME GmacInv, GmacInv', [Next]_vars, faults = {}, faults' = {}
  PROVE  Fifo!Next \/ UNCHANGED <<arrived, Waiting>>
<1>1. TypeOK /\ RingInv /\ arrived \in Nat /\ taken \in Nat
      /\ taken <= arrived /\ ~nested
  BY RingAssumption DEF GmacInv, TypeOK, RingInv
<1>2. current => Waiting = Span(taken, arrived)  BY WaitingIsSpan
<1>3. current' => Waiting' = Span(taken', arrived')
  <2>1. (GmacInv /\ faults = {} /\ current => Waiting = Span(taken, arrived))'
    BY WaitingIsSpan, PTL
  <2> QED  BY <2>1 DEF Span
<1>4. ASSUME current, current', UNCHANGED <<arrived, taken>>
      PROVE  UNCHANGED <<arrived, Waiting>>
  BY <1>2, <1>3, <1>4
<1> USE DEF ringVars, procVars, devVars, ghostVars, vars, Goto
<1>5. CASE DmaReceive
  <2>1. current /\ current' /\ taken' = taken /\ arrived' = arrived + 1
    BY <1>1, <1>5 DEF DmaReceive, Receiving, RingInv, HaltedInv
  <2>2. arrived - taken < NO_OF_RX_FIFOS
    <3>1. Held' + (arrived' - taken') <= NO_OF_RX_FIFOS
      BY <2>1 DEF GmacInv, RingInv, RunningInv, Fill
    <3> QED  BY <1>1, <2>1, <3>1, RingAssumption DEF Held
  <2>3. Len(Waiting) < NO_OF_RX_FIFOS
    BY <1>1, <1>2, <2>1, <2>2, SpanIsSeq
  <2>4. Waiting' = Append(Waiting, arrived')
    BY <1>1, <1>2, <1>3, <2>1, SpanAppend
  <2> QED  BY <2>1, <2>3, <2>4 DEF Fifo!Next, Fifo!Store
<1>6. CASE DmaOverflow
  BY <1>1, <1>4, <1>6
     DEF DmaOverflow, Receiving, RingInv, HaltedInv
<1>7. CASE RecvTake
  <2>1. /\ current /\ current' /\ arrived' = arrived /\ taken < arrived
        /\ RunningInv
    BY <1>1, <1>7 DEF RecvTake, RingInv, HaltedInv, RunningInv
  <2>2. taken' = taken + 1
    <3>1. next_rx \in Ring /\ Dist(next_rx) = 0 /\ Held = 0 /\ Fill > 0
      BY <1>1, <1>7, <2>1, RingAssumption
         DEF RecvTake, TypeOK, Ring, Dist, Held, Fill
    <3> QED  BY <1>1, <1>7, <2>1, <3>1 DEF RecvTake, TypeOK, RunningInv, Fill
  <2>3. Waiting # <<>> /\ Waiting' = Tail(Waiting)
    BY <1>1, <1>2, <1>3, <2>1, <2>2, SpanTail
  <2> QED  BY <2>1, <2>3 DEF Fifo!Next, Fifo!HandOver
<1>8. CASE ath_gmac_recv  BY <1>4, <1>8 DEF ath_gmac_recv
<1>9. CASE RecvLoop
  BY <1>1, <1>4, <1>9 DEF RecvLoop, RingInv, HaltedInv
<1>10. CASE RecvCount
  BY <1>1, <1>4, <1>10 DEF RecvCount, RingInv, HaltedInv
<1>11. CASE RecvRecheck
  BY <1>1, <1>4, <1>11 DEF RecvRecheck, RingInv, HaltedInv
<1>12. CASE RecvScan
  BY <1>1, <1>12 DEF RecvScan, RingInv, HaltedInv, RunningInv
<1>13. CASE RecvScanEnd
  BY <1>1, <1>13 DEF RecvScanEnd, RingInv, HaltedInv, RunningInv
<1>14. CASE RecvAck
  BY <1>1, <1>4, <1>14 DEF RecvAck, RingInv, HaltedInv
<1>15. CASE RecvGive
  BY <1>1, <1>4, <1>15 DEF RecvGive, RingInv, HaltedInv
<1>16. CASE RecvCtrl
  BY <1>1, <1>4, <1>16 DEF RecvCtrl, RingInv, HaltedInv
<1>17. CASE ath_gmac_halt
  BY <1>17 DEF ath_gmac_halt, Halt, Waiting, Held
<1>18. CASE HandlerHalt  BY <1>18 DEF HandlerHalt
<1>19. CASE CleanNoLink  BY <1>19 DEF CleanNoLink
<1>20. CASE CleanEnable
  BY <1>20 DEF CleanEnable, Waiting, Fifo!Next, Fifo!Discard
<1>21. CASE CleanRing
  <2>1. CASE CleanGive  BY <2>1 DEF CleanGive, Waiting, Held
  <2>2. CASE CleanStart
    BY <2>2 DEF CleanStart, Waiting, Fifo!Next, Fifo!Discard
  <2> QED  BY <1>21, <2>1, <2>2 DEF CleanRing
<1>22. CASE UNCHANGED vars  BY <1>22 DEF Waiting, Held
<1> QED
  BY <1>5, <1>6, <1>7, <1>8, <1>9, <1>10, <1>11, <1>12, <1>13, <1>14, <1>15,
     <1>16, <1>17, <1>18, <1>19, <1>20, <1>21, <1>22
     DEF Next, Device, Recv, Setup

(* Without faults the receive ring implements the queue of RxFifo. *)
THEOREM RingImplementsFifo == Spec => RingIsFifo
<1>1. Init => (faults = {} => Fifo!Init)
  BY DEF Init, Fifo!Init, Waiting
<1>2. GmacInv /\ GmacInv' /\ [Next]_vars
        => [faults = {} => Fifo!Next]_<<arrived, Waiting>>
  <2> SUFFICES ASSUME GmacInv, GmacInv', [Next]_vars, faults = {}
               PROVE  Fifo!Next \/ UNCHANGED <<arrived, Waiting>>
    OBVIOUS
  <2>1. faults' = {}
    BY DEF Next, Device, Recv, Setup, DmaReceive, DmaOverflow, ath_gmac_recv,
           RecvLoop, RecvCount, RecvRecheck, RecvScan, RecvScanEnd, RecvTake,
           RecvAck, RecvGive, RecvCtrl, ath_gmac_halt, HandlerHalt, Halt,
           CleanNoLink, CleanEnable, CleanRing, CleanGive, CleanStart,
         CleanCalled, vars, ghostVars
  <2> QED  BY <2>1, FifoStep
<1> QED  BY <1>1, <1>2, Invariant, PTL DEF Spec, RingIsFifo
=============================================================================
