------------------------------ MODULE NetProof ------------------------------
(***************************************************************************)
(* What Net promises about the devices, for any number of them, any clock, *)
(* any number of retries and any setting: whatever cables and servers come *)
(* and go meanwhile.                                                       *)
(***************************************************************************)
EXTENDS Net, WellFoundedInduction, TLAPS
-----------------------------------------------------------------------------
(* Numbers. *)
LEMMA Least ==
  ASSUME NEW T, T \subseteq Nat, T # {}
  PROVE  \E x \in T : \A y \in T : x <= y
<1> DEFINE R == OpToRel(<, Nat)
<1>1. IsWellFoundedOn(R, Nat)
  BY NatLessThanWellFounded
<1>2. \A x, y \in Nat : <<y, x>> \in R <=> y < x
  BY DEF OpToRel
<1> HIDE DEF R
<1>3. PICK x \in T : \A y \in T : ~ (<<y, x>> \in R)
  BY <1>1, WFMin
<1>4. x \in Nat /\ \A y \in T : y \in Nat /\ ~(y < x)
  BY <1>2, <1>3, Zenon
<1>5. \A n, m \in Nat : ~(n < m) => m <= n
  OBVIOUS
<1> QED BY <1>4, <1>5, Zenon

LEMMA ModRange ==
  ASSUME NEW x \in Nat, NEW w \in Nat \ {0}
  PROVE  x % w \in 0..(w - 1) /\ x % w <= x /\ (x < w => x % w = x)
  OBVIOUS

LEMMA ModLess ==
  ASSUME NEW x \in Nat, NEW w \in Nat \ {0}
  PROVE  x % w \in Nat /\ x % w <= x
  BY ModRange

LEMMA Product ==
  ASSUME NEW x \in Nat, NEW y \in Nat
  PROVE  x * y \in Nat
  OBVIOUS
-----------------------------------------------------------------------------
(* The ring of devices. *)

(* eth_init ends after at most NMACS devices. *)
LEMMA InitEnds ==
  ASSUME NEW c \in Devices
  PROVE  FailedInits(c) \in 0..NMACS
<1> DEFINE T == {n \in Nat : n < NMACS => link[Next_(c, n)]}
<1>1. NMACS \in T
  BY MacsAssumption
<1>2. PICK n \in T : \A y \in T : n <= y
  BY <1>1, Least
<1>3. n \in 0..NMACS
  BY <1>1, <1>2, MacsAssumption
<1>4. ASSUME NEW j \in 0..(n - 1)
      PROVE  ~link[Next_(c, j)]
  <2>1. j \in Nat /\ j < n /\ ~(n <= j)
    BY <1>3, MacsAssumption
  <2>2. j \notin T
    BY <1>2, <2>1, Zenon
  <2> QED BY <2>1, <2>2, Zenon
<1> DEFINE P(m) == /\ m < NMACS => link[Next_(c, m)]
                   /\ \A j \in 0..(m - 1) : ~link[Next_(c, j)]
<1>5. P(n)
  BY <1>2, <1>4, Zenon
<1>6. FailedInits(c) = CHOOSE m \in 0..NMACS : P(m)
  BY Zenon DEF FailedInits
<1> HIDE DEF P
<1> QED BY <1>3, <1>5, <1>6, Zenon

LEMMA RingCloses ==
  ASSUME NEW d \in Devices, NEW j \in Nat
  PROVE  Next_(d, j) \in Devices
<1>1. d + j \in Nat /\ NMACS \in Nat \ {0}
  BY MacsAssumption DEF Devices
<1> QED BY <1>1, ModRange DEF Next_, Devices

LEMMA CurrentIsDevice ==
  ASSUME NEW c \in Devices
  PROVE  Next_(c, FailedInits(c)) \in Devices
<1>1. FailedInits(c) \in Nat
  BY InitEnds, MacsAssumption
<1> QED BY <1>1, RingCloses

(* What a step may do to the devices. *)
EthStep == \/ UNCHANGED ethVars
           \/ eth_halt
           \/ EthOpen
           \/ EthAnother(~NetRestarted)

LEMMA EthStepKeeps ==
  ASSUME EthTypeOK, OneActive, NetRestarted \in BOOLEAN, EthStep,
         UNCHANGED link \/ \E d \in Devices : link' = [link EXCEPT ![d] = ~@]
  PROVE  EthTypeOK' /\ OneActive'
<1>1. Halted \in [Devices -> {"INIT", "PASSIVE", "ACTIVE"}]
  BY DEF Halted, EthTypeOK
<1>2. \A d \in Devices : Halted[d] # "ACTIVE"
  BY DEF Halted, EthTypeOK, OneActive
<1>3. link' \in [Devices -> BOOLEAN]
  BY DEF EthTypeOK
<1>4. ASSUME NEW c \in Devices, eth_init(c)
      PROVE  /\ eth_current' \in Devices
             /\ state' \in [Devices -> {"INIT", "PASSIVE", "ACTIVE"}]
             /\ OneActive'
  <2>1. eth_current' \in Devices
    BY <1>4, CurrentIsDevice DEF eth_init
  <2>2. \/ state' = Halted
        \/ state' = [Halted EXCEPT ![eth_current'] = "ACTIVE"]
    BY <1>4, Zenon DEF eth_init
  <2>3. state' \in [Devices -> {"INIT", "PASSIVE", "ACTIVE"}]
    BY <1>1, <2>2
  <2>4. \A d \in Devices : d # eth_current' => state'[d] # "ACTIVE"
    BY <1>1, <1>2, <2>2
  <2> QED BY <2>1, <2>3, <2>4 DEF OneActive
<1>5. CASE UNCHANGED ethVars
  BY <1>3, <1>5 DEF ethVars, EthTypeOK, OneActive
<1>6. CASE eth_halt
  BY <1>1, <1>2, <1>3, <1>6 DEF eth_halt, EthTypeOK, OneActive
<1>7. CASE EthOpen
  <2>1. OpenAt \in Devices
    BY MacsAssumption DEF OpenAt, EthTypeOK, Devices
  <2>2. NetRestartWrap' \in BOOLEAN /\ first_failed' = first_failed
    BY <1>7, Zenon DEF EthOpen
  <2> QED BY <1>3, <1>4, <1>7, <2>1, <2>2, Zenon DEF EthOpen, EthTypeOK
<1>8. CASE EthAnother(~NetRestarted)
  <2>1. Another \in Devices
    <3>1. 1 \in Nat
      OBVIOUS
    <3> QED BY <3>1, RingCloses, Zenon DEF Another, EthTypeOK
  <2>2. /\ first_failed' \in Devices \union {NoDevice}
        /\ NetRestartWrap' \in BOOLEAN
    BY <1>8, Zenon DEF EthAnother, FirstFailed, EthTypeOK
  <2> QED BY <1>3, <1>4, <1>8, <2>1, <2>2, Zenon DEF EthAnother, EthTypeOK
<1> QED BY <1>5, <1>6, <1>7, <1>8 DEF EthStep

LEMMA StartAgainEth ==
  ASSUME NEW tm, NEW slot, NetStartAgain(tm, slot)
  PROVE  EthStep
  BY Zenon DEF NetStartAgain, EthStep

LEMMA NextEth ==
  ASSUME [Next]_vars
  PROVE  /\ EthStep
         /\ UNCHANGED link
              \/ \E d \in Devices : link' = [link EXCEPT ![d] = ~@]
<1>1. CASE UNCHANGED vars
  BY <1>1, Zenon DEF vars, worldVars, EthStep
<1>2. ASSUME NEW p \in Protocols, NetLoop(p)
      PROVE  EthStep /\ UNCHANGED link
  BY <1>2, Zenon DEF NetLoop, EthStep, worldVars
<1>3. CASE Abort
  BY <1>3, Zenon DEF Abort, EthStep, worldVars
<1>4. CASE RestartNoIP
  BY <1>4, Zenon DEF RestartNoIP, EthStep, worldVars
<1>5. CASE RestartNoAddr
  BY <1>5, StartAgainEth, Zenon DEF RestartNoAddr, worldVars
<1>6. CASE RestartTftp \/ RestartPing
  BY <1>6, Zenon DEF RestartTftp, RestartPing, RestartCommon, EthStep, worldVars
<1>7. ASSUME NEW m, Receive(m)
      PROVE  EthStep /\ UNCHANGED link
  BY <1>7, Zenon DEF Receive, EthStep, worldVars
<1>8. CASE \/ ReceiveArp \/ ReceiveArpLate
           \/ ReceivePing \/ ReceiveTftp \/ ReceiveIgnored
  BY <1>7, <1>8, Zenon DEF ReceiveArp, ReceiveArpLate, ReceivePing,
                           ReceiveTftp, ReceiveIgnored
<1>9. CASE ArpQuiet \/ ArpRetry
  BY <1>9, Zenon DEF ArpQuiet, ArpRetry, ArpCheck, EthStep, worldVars
<1>10. CASE ArpGiveUp
  BY <1>10, StartAgainEth, Zenon DEF ArpGiveUp, ArpCheck, worldVars
<1>11. CASE \/ TimerQuiet \/ PingTimeout \/ TftpTimeoutResend
            \/ TftpTimeoutBoot \/ startAgainTimeout
  BY <1>11, Zenon DEF TimerQuiet, PingTimeout, TftpTimeoutResend,
       TftpTimeoutBoot, startAgainTimeout, TimerCheck, EthStep, worldVars
<1>12. CASE TftpTimeoutGiveUp
  BY <1>12, StartAgainEth, Zenon DEF TftpTimeoutGiveUp, TimerCheck, worldVars
<1>13. CASE \/ SwitchContinue \/ SwitchRestart \/ SwitchSuccess \/ SwitchFail
            \/ Tick
  BY <1>13, Zenon DEF SwitchContinue, SwitchRestart, SwitchSuccess, SwitchFail,
       Tick, EthStep, worldVars
<1>14. CASE World
  BY <1>14, Zenon DEF World, LinkChange, ServerChange, Stabilise, EthStep
<1> QED BY <1>1, <1>2, <1>3, <1>4, <1>5, <1>6, <1>8, <1>9, <1>10, <1>11,
           <1>12, <1>13, <1>14, Zenon DEF Next, Step
-----------------------------------------------------------------------------
(* Frames, timers and the waiting slot. *)
LEMMA Config ==
  ASSUME TimeTypeOK
  PROVE  /\ Word \in Nat \ {0} /\ ARP_TIMEOUT_COUNT \in Nat \ {0}
         /\ CFG_HZ \in Nat \ {0} /\ TIMEOUT_COUNT \in Nat
  BY ConfigAssumption, TimeAssumption DEF TimeTypeOK, Word, ARP_TIMEOUT_COUNT

LEMMA TicksRange ==
  ASSUME TimeTypeOK, NEW secs \in Nat
  PROVE  Ticks(secs) \in 0..(Word - 1) /\ Ticks(secs) \in Nat
<1>1. Word \in Nat \ {0} /\ secs * CFG_HZ \in Nat
  BY Config, Product
<1> QED BY <1>1, ModRange DEF Ticks

LEMMA TimeoutSet ==
  ASSUME TimeTypeOK, NEW secs \in Nat, NEW h \in Handlers
  PROVE  /\ NetSetTimeout(secs, h) \in Timers
         /\ NetSetTimeout(secs, h).handler =
              IF Ticks(secs) = 0 THEN "none" ELSE h
         /\ NetSetTimeout(secs, h).delta = Ticks(secs)
         /\ NetSetTimeout(secs, h).age = 0
<1> DEFINE g == IF Ticks(secs) = 0 THEN "none" ELSE h
<1>1. NetSetTimeout(secs, h) =
        [handler |-> g, delta |-> Ticks(secs), age |-> 0]
  BY Zenon DEF NetSetTimeout, Ticks
<1>2. Ticks(secs) \in 0..(Word - 1) /\ 0 \in 0..(Word - 1)
  BY TicksRange, Config
<1>3. g \in Handlers
  BY DEF Handlers
<1>4. g = IF Ticks(secs) = 0 THEN "none" ELSE h
  OBVIOUS
<1> HIDE DEF g
<1>5. NetSetTimeout(secs, h) \in Timers
  BY <1>1, <1>2, <1>3 DEF Timers
<1>6. /\ NetSetTimeout(secs, h).handler = g
      /\ NetSetTimeout(secs, h).delta = Ticks(secs)
      /\ NetSetTimeout(secs, h).age = 0
  BY <1>1
<1> QED BY <1>4, <1>5, <1>6

LEMMA TimerLater ==
  ASSUME TimeTypeOK, NEW t \in Timers, NEW n \in Nat
  PROVE  /\ Later(t, n) \in Timers
         /\ Later(t, n).handler = t.handler /\ Later(t, n).delta = t.delta
         /\ Later(t, n).age = (t.age + n) % Word
<1>1. t.age + n \in Nat
  BY Config DEF Timers
<1>2. (t.age + n) % Word \in 0..(Word - 1)
  BY <1>1, Config, ModRange
<1>3. Later(t, n) \in Timers
  BY <1>2 DEF Timers, Later
<1>4. Later(t, n).handler = t.handler /\ Later(t, n).delta = t.delta
  BY DEF Timers, Later
<1>5. Later(t, n).age = (t.age + n) % Word
  BY DEF Timers, Later
<1> QED BY <1>3, <1>4, <1>5

LEMMA SlotLater ==
  ASSUME TimeTypeOK, NEW t \in Slots, NEW n \in Nat
  PROVE  /\ Later(t, n) \in Slots
         /\ Later(t, n).wait = t.wait /\ Later(t, n).src = t.src
         /\ Later(t, n).try = t.try
         /\ Later(t, n).age = (t.age + n) % Word
<1>1. t.age + n \in Nat
  BY Config DEF Slots
<1>2. (t.age + n) % Word \in 0..(Word - 1)
  BY <1>1, Config, ModRange
<1>3. Later(t, n) \in Slots
  BY <1>2 DEF Slots, Later
<1>4. Later(t, n).src = t.src /\ Later(t, n).try = t.try
  BY DEF Slots, Later
<1>5. Later(t, n).age = (t.age + n) % Word
  BY DEF Slots, Later
<1>6. Later(t, n).wait = t.wait
  BY DEF Slots, Later
<1> QED BY <1>3, <1>4, <1>5, <1>6

LEMMA TimerDisarmed ==
  ASSUME TimeTypeOK
  PROVE  Disarmed \in Timers
  BY DEF Disarmed, TimeTypeOK, Timers, Handlers

Kinds == {"arp", "udp"}
Asks == {"arp", "answer"}

LEMMA Transmits ==
  ASSUME TypeOK, NEW kind \in Kinds, NEW ask \in Asks, NEW src \in Devices,
         NEW box \in SUBSET Asks, Transmit(kind, ask, src, box)
  PROVE  /\ sent' \in Frames /\ sent'.kind = kind
         /\ sent'.dev = eth_current /\ sent'.src = src
         /\ inbox' \subseteq Asks
         /\ inbox' = box \/ inbox' = box \union {ask}
<1>1. sent' = [kind |-> kind, dev |-> eth_current, src |-> src]
  BY DEF Transmit
<1>2. inbox' = box \/ inbox' = box \union {ask}
  BY DEF Transmit
<1>3. eth_current \in Devices /\ kind \in {"none", "arp", "udp"}
  BY DEF TypeOK, EthTypeOK, Kinds
<1> QED BY <1>1, <1>2, <1>3 DEF Frames

LEMMA ArpSent ==
  ASSUME TypeOK, NEW src \in Devices, NEW box \in SUBSET Asks,
         SendArp(src, box)
  PROVE  /\ arp' \in Slots /\ arp'.wait /\ arp'.src = src
         /\ arp'.try = 1 /\ arp'.age = 0
         /\ sent' \in Frames /\ sent'.kind = "arp" /\ inbox' \subseteq Asks
         /\ inbox' = box \/ inbox' = box \union {"arp"}
<1>1. /\ arp' = [wait |-> TRUE, src |-> src, try |-> 1, age |-> 0]
      /\ Transmit("arp", "arp", src, box)
  BY DEF SendArp
<1>2. 1 \in 0..ARP_TIMEOUT_COUNT /\ 0 \in 0..(Word - 1)
  BY Config DEF TypeOK
<1>3. /\ arp' \in Slots /\ arp'.wait /\ arp'.src = src
      /\ arp'.try = 1 /\ arp'.age = 0
  BY <1>1, <1>2, Zenon DEF Slots
<1>4. "arp" \in Kinds /\ "arp" \in Asks
  BY DEF Kinds, Asks
<1> QED BY <1>1, <1>3, <1>4, Transmits, Zenon

LEMMA SlotBusy ==
  ASSUME TimeTypeOK, NEW t \in Slots
  PROVE  /\ Busy(t) \in Slots
         /\ Busy(t).wait = t.wait /\ Busy(t).src = t.src
         /\ Busy(t).try = t.try
         /\ Busy(t).age = t.age \/ Busy(t).age = (t.age + CFG_HZ) % Word
<1>1. Busy(t) = t \/ Busy(t) = Later(t, CFG_HZ)
  BY Zenon DEF Busy
<1>2. CFG_HZ \in Nat
  BY Config
<1> QED BY <1>1, <1>2, SlotLater, Zenon

LEMMA TimerBusy ==
  ASSUME TimeTypeOK, NEW t \in Timers
  PROVE  Busy(t) \in Timers
<1>1. Busy(t) = t \/ Busy(t) = Later(t, CFG_HZ)
  BY Zenon DEF Busy
<1>2. CFG_HZ \in Nat
  BY Config
<1> QED BY <1>1, <1>2, TimerLater, Zenon

LEMMA StartsAgain ==
  ASSUME TypeOK, NEW tm \in Timers, NEW slot \in Slots,
         NetStartAgain(tm, slot)
  PROVE  /\ timer' \in Timers /\ arp' \in Slots
         /\ NetState' \in {"CONTINUE", "RESTART", "SUCCESS", "FAIL"}
         /\ packetHandler' \in Handlers /\ inbox' \subseteq Asks
<1>1. /\ TimeTypeOK /\ packetHandler \in Handlers /\ inbox \subseteq Asks
      /\ NetState \in {"CONTINUE", "RESTART", "SUCCESS", "FAIL"}
  BY DEF TypeOK, PlaceTypeOK, Asks
<1>2. /\ Busy(tm) \in Timers /\ Busy(slot) \in Slots
      /\ "startAgain" \in Handlers
  BY <1>1, TimerBusy, SlotBusy DEF Handlers
<1>3. NetSetTimeout(Ten, "startAgain") \in Timers
  BY <1>1, <1>2, TimeoutSet DEF Ten
<1>4. timer' \in Timers /\ arp' \in Slots
  BY <1>2, <1>3, Zenon DEF NetStartAgain
<1>5. /\ NetState' \in {"CONTINUE", "RESTART", "SUCCESS", "FAIL"}
      /\ packetHandler' \in Handlers /\ inbox' \subseteq Asks
  BY <1>1, <1>2 DEF NetStartAgain
<1> QED BY <1>4, <1>5
-----------------------------------------------------------------------------
LEMMA FlagTypes ==
  ASSUME TypeOK, [Next]_vars
  PROVE  FlagTypeOK'
<1>0. FlagTypeOK
  BY DEF TypeOK
<1>1. CASE UNCHANGED vars
  BY <1>0, <1>1, Zenon DEF vars, netVars, worldVars, FlagTypeOK
<1>2. ASSUME NEW p \in Protocols, NetLoop(p)
      PROVE  FlagTypeOK'
  BY <1>0, <1>2, Zenon DEF NetLoop, worldVars, FlagTypeOK
<1>3. CASE Abort
  BY <1>0, <1>3, Zenon DEF Abort, netVars, worldVars, FlagTypeOK
<1>4. CASE RestartNoIP
  BY <1>0, <1>4, Zenon DEF RestartNoIP, worldVars, FlagTypeOK
<1>5. CASE RestartNoAddr
  BY <1>0, <1>5, Zenon DEF RestartNoAddr, worldVars, FlagTypeOK
<1>6. CASE RestartTftp \/ RestartPing
  BY <1>0, <1>6, Zenon DEF RestartTftp, RestartPing, RestartCommon, worldVars,
       FlagTypeOK
<1>7. ASSUME NEW m, Receive(m), NetServerEther' \in BOOLEAN
      PROVE  FlagTypeOK'
  BY <1>0, <1>7, Zenon DEF Receive, worldVars, FlagTypeOK
<1>8. CASE ReceiveArp
  BY <1>7, <1>8, Zenon DEF ReceiveArp
<1>9. CASE ReceiveArpLate \/ ReceivePing \/ ReceiveTftp \/ ReceiveIgnored
  BY <1>0, <1>7, <1>9, Zenon DEF ReceiveArpLate, ReceivePing, ReceiveTftp,
       ReceiveIgnored, FlagTypeOK
<1>10. CASE ArpQuiet \/ ArpRetry \/ ArpGiveUp
  BY <1>0, <1>10, Zenon DEF ArpQuiet, ArpRetry, ArpGiveUp, ArpCheck,
       worldVars, FlagTypeOK
<1>11. CASE \/ TimerQuiet \/ PingTimeout \/ TftpTimeoutResend
            \/ TftpTimeoutBoot \/ startAgainTimeout \/ TftpTimeoutGiveUp
  BY <1>0, <1>11, Zenon DEF TimerQuiet, PingTimeout, TftpTimeoutResend,
       TftpTimeoutBoot, startAgainTimeout, TftpTimeoutGiveUp, TimerCheck,
       worldVars, FlagTypeOK
<1>12. CASE \/ SwitchContinue \/ SwitchRestart \/ SwitchSuccess \/ SwitchFail
            \/ Tick
  BY <1>0, <1>12, Zenon DEF SwitchContinue, SwitchRestart, SwitchSuccess,
       SwitchFail, Tick, netVars, worldVars, FlagTypeOK
<1>13. CASE World
  BY <1>0, <1>13, Zenon DEF World, LinkChange, ServerChange, Stabilise,
       netVars, FlagTypeOK
<1> QED BY <1>1, <1>2, <1>3, <1>4, <1>5, <1>6, <1>8, <1>9, <1>10, <1>11,
           <1>12, <1>13, Zenon DEF Next, Step

States == {"CONTINUE", "RESTART", "SUCCESS", "FAIL"}

LEMMA TimeFrom ==
  ASSUME TimeTypeOK, cfg' = cfg, timer' \in Timers, arp' \in Slots,
         TftpTimeoutCount' \in 0..(TIMEOUT_COUNT + 1),
         NetOurEther' \in Devices, sent' \in Frames
  PROVE  TimeTypeOK'
<1>1. Timers' = Timers /\ Slots' = Slots
  BY DEF Timers, Slots, Word, ARP_TIMEOUT_COUNT
<1> QED BY <1>1 DEF TimeTypeOK

LEMMA Counted ==
  ASSUME TimeTypeOK, TftpTimeoutCount <= TIMEOUT_COUNT
  PROVE  CountTimeout \in 0..(TIMEOUT_COUNT + 1)
  BY Config DEF TimeTypeOK, CountTimeout

LEMMA Types ==
  ASSUME TypeOK, CountInv, [Next]_vars
  PROVE  PlaceTypeOK' /\ TimeTypeOK'
<1>0. /\ PlaceTypeOK /\ TimeTypeOK /\ cfg \in Configs
      /\ timer \in Timers /\ arp \in Slots /\ sent \in Frames
      /\ TftpTimeoutCount \in 0..(TIMEOUT_COUNT + 1)
      /\ NetOurEther \in Devices /\ eth_current \in Devices
      /\ inbox \in SUBSET Asks /\ {} \in SUBSET Asks
  BY DEF TypeOK, TimeTypeOK, EthTypeOK, PlaceTypeOK, Asks
<1>a. /\ 0 \in Devices /\ 0 \in 0..(Word - 1) /\ Word - 1 \in 0..(Word - 1)
      /\ 0 \in 0..ARP_TIMEOUT_COUNT /\ 0 \in 0..(TIMEOUT_COUNT + 1)
  BY <1>0, Config, MacsAssumption DEF Devices
<1>b. "arp" \in Kinds /\ "udp" \in Kinds /\ "arp" \in Asks /\ "answer" \in Asks
  BY DEF Kinds, Asks
<1>c. /\ NetSetTimeout(TFTP_TIMEOUT, "Tftp") \in Timers
      /\ NetSetTimeout(Ten, "Ping") \in Timers
      /\ Disarmed \in Timers
  BY <1>0, TimeoutSet, TimerDisarmed DEF TFTP_TIMEOUT, Ten, Handlers
<1>1. CASE UNCHANGED vars
  <2>1. TimeTypeOK'
    BY <1>0, <1>1, TimeFrom, Zenon DEF vars, netVars, worldVars, ghostVars
  <2> QED BY <1>0, <1>1, <2>1 DEF vars, netVars, ghostVars, PlaceTypeOK
<1>2. ASSUME NEW p \in Protocols, NetLoop(p)
      PROVE  PlaceTypeOK' /\ TimeTypeOK'
  <2>1. NoTimer \in Timers /\ NoArp \in Slots /\ NotSent \in Frames
    BY <1>a DEF NoTimer, NoArp, NotSent, Timers, Slots, Frames, Handlers
  <2>2. \A a \in {0, Word - 1} : [timer EXCEPT !.age = a] \in Timers
    BY <1>0, <1>a DEF Timers
  <2>3. timer' \in Timers
    BY <1>2, <2>1, <2>2, Zenon DEF NetLoop
  <2>4. TimeTypeOK'
    BY <1>0, <1>2, <2>1, <2>3, TimeFrom, Zenon DEF NetLoop, worldVars
  <2>5. PlaceTypeOK'
    BY <1>0, <1>2, ConfigAssumption DEF NetLoop, PlaceTypeOK
  <2> QED BY <2>4, <2>5
<1>3. CASE Abort
  <2>1. TimeTypeOK'
    BY <1>0, <1>3, TimeFrom, Zenon DEF Abort, netVars, worldVars
  <2> QED BY <1>0, <1>3, <2>1 DEF Abort, netVars, PlaceTypeOK
<1>4. CASE RestartNoIP
  <2>1. TimeTypeOK'
    BY <1>0, <1>4, TimeFrom, Zenon DEF RestartNoIP, worldVars
  <2> QED BY <1>0, <1>4, <2>1 DEF RestartNoIP, PlaceTypeOK
<1>5. CASE RestartNoAddr
  <2>1. /\ timer' \in Timers /\ arp' \in Slots /\ NetState' \in States
        /\ packetHandler' \in Handlers /\ inbox' \subseteq Asks
    BY <1>0, <1>5, StartsAgain, Zenon DEF RestartNoAddr, States
  <2>2. TimeTypeOK'
    BY <1>0, <1>5, <2>1, TimeFrom, Zenon DEF RestartNoAddr, worldVars
  <2> QED BY <1>0, <1>5, <2>1, <2>2 DEF RestartNoAddr, PlaceTypeOK, Asks, States
<1>6. CASE RestartTftp
  <2>1. SendArp(eth_current, {})
    BY <1>6, Zenon DEF RestartTftp, TftpSend, OurEther
  <2>2. arp' \in Slots /\ sent' \in Frames /\ inbox' \subseteq Asks
    BY <1>0, <2>1, ArpSent, Zenon
  <2>3. TimeTypeOK'
    BY <1>0, <1>a, <1>c, <1>6, <2>2, TimeFrom, Zenon
       DEF RestartTftp, RestartCommon, OurEther, worldVars
  <2> QED BY <1>0, <1>6, <2>2, <2>3
          DEF RestartTftp, RestartCommon, PlaceTypeOK, Asks, Handlers
<1>7. CASE RestartPing
  <2>1. SendArp(eth_current, {})
    BY <1>7, Zenon DEF RestartPing, OurEther
  <2>2. arp' \in Slots /\ sent' \in Frames /\ inbox' \subseteq Asks
    BY <1>0, <2>1, ArpSent, Zenon
  <2>3. TimeTypeOK'
    BY <1>0, <1>c, <1>7, <2>2, TimeFrom, Zenon
       DEF RestartPing, RestartCommon, OurEther, worldVars
  <2> QED BY <1>0, <1>7, <2>2, <2>3
          DEF RestartPing, RestartCommon, PlaceTypeOK, Asks, Handlers
<1>8. CASE ReceiveArp
  <2>1. PICK box \in AfterReply : Transmit("udp", "answer", arp.src, box)
    BY <1>8, Zenon DEF ReceiveArp
  <2>2. box \in SUBSET Asks
    BY <1>0 DEF AfterReply
  <2>3. arp.src \in Devices /\ [arp EXCEPT !.wait = FALSE] \in Slots
    BY <1>0 DEF Slots
  <2>4. sent' \in Frames /\ inbox' \subseteq Asks
    BY <1>b, <2>1, <2>2, <2>3, Transmits, Zenon
  <2>5. TimeTypeOK'
    BY <1>0, <1>8, <2>3, <2>4, TimeFrom, Zenon DEF ReceiveArp, Receive, worldVars
  <2> QED BY <1>0, <1>8, <2>4, <2>5 DEF ReceiveArp, Receive, PlaceTypeOK, Asks
<1>9. CASE ReceiveArpLate \/ ReceivePing \/ ReceiveIgnored
  <2>1. TimeTypeOK'
    BY <1>0, <1>9, TimeFrom, Zenon DEF ReceiveArpLate, ReceivePing,
         ReceiveIgnored, Receive, worldVars
  <2> QED BY <1>0, <1>9, <2>1 DEF ReceiveArpLate, ReceivePing, ReceiveIgnored,
            Receive, PlaceTypeOK
<1>10. CASE ReceiveTftp
  <2>1. [kind |-> "udp", dev |-> eth_current, src |-> NetOurEther] \in Frames
    BY <1>0 DEF Frames
  <2>2. TimeTypeOK'
    BY <1>0, <1>a, <1>c, <1>10, <2>1, TimeFrom, Zenon
       DEF ReceiveTftp, Receive, worldVars
  <2> QED BY <1>0, <1>10, <2>2 DEF ReceiveTftp, Receive, PlaceTypeOK
<1>11. CASE ArpQuiet
  <2>1. TimeTypeOK'
    BY <1>0, <1>11, TimeFrom, Zenon DEF ArpQuiet, ArpCheck, worldVars
  <2> QED BY <1>0, <1>11, <2>1 DEF ArpQuiet, ArpCheck, PlaceTypeOK
<1>12. CASE ArpRetry
  <2>1. arp.try + 1 \in 0..ARP_TIMEOUT_COUNT
    BY <1>0, <1>12, Config DEF ArpRetry, Slots
  <2>2. arp' \in Slots
    BY <1>0, <1>a, <1>12, <2>1 DEF ArpRetry, Slots
  <2>3. sent' \in Frames /\ inbox' \subseteq Asks
    BY <1>0, <1>b, <1>12, Transmits, Zenon DEF ArpRetry
  <2>4. TimeTypeOK'
    BY <1>0, <1>12, <2>2, <2>3, TimeFrom, Zenon DEF ArpRetry, ArpCheck, worldVars
  <2> QED BY <1>0, <1>12, <2>3, <2>4 DEF ArpRetry, ArpCheck, PlaceTypeOK, Asks
<1>13. CASE ArpGiveUp
  <2>1. [arp EXCEPT !.try = 0] \in Slots
    BY <1>0, <1>a DEF Slots
  <2>2. /\ timer' \in Timers /\ arp' \in Slots /\ NetState' \in States
        /\ packetHandler' \in Handlers /\ inbox' \subseteq Asks
    BY <1>0, <1>13, <2>1, StartsAgain, Zenon DEF ArpGiveUp, States
  <2>3. TimeTypeOK'
    BY <1>0, <1>13, <2>2, TimeFrom, Zenon DEF ArpGiveUp, ArpCheck, worldVars
  <2> QED BY <1>0, <1>13, <2>2, <2>3
          DEF ArpGiveUp, ArpCheck, PlaceTypeOK, Asks, States
<1>14. CASE TimerQuiet \/ PingTimeout \/ startAgainTimeout
  <2>1. TimeTypeOK'
    BY <1>0, <1>c, <1>14, TimeFrom, Zenon DEF TimerQuiet, PingTimeout,
         startAgainTimeout, TimerCheck, worldVars
  <2> QED BY <1>0, <1>14, <2>1 DEF TimerQuiet, PingTimeout, startAgainTimeout,
            TimerCheck, PlaceTypeOK
<1>15. CASE TftpTimeoutResend
  <2>1. CountTimeout \in 0..(TIMEOUT_COUNT + 1)
    BY <1>0, <1>15, Counted DEF TftpTimeoutResend, CountInv
  <2>2. arp' \in Slots /\ sent' \in Frames /\ inbox' \subseteq Asks
    <3>1. CASE SendArp(NetOurEther, inbox)
      BY <1>0, <3>1, ArpSent, Zenon
    <3>2. CASE Transmit("udp", "answer", NetOurEther, inbox) /\ UNCHANGED arp
      BY <1>0, <1>b, <3>2, Transmits, Zenon
    <3> QED BY <1>15, <3>1, <3>2, Zenon DEF TftpTimeoutResend, TftpSend
  <2>3. TimeTypeOK'
    BY <1>0, <1>c, <1>15, <2>1, <2>2, TimeFrom, Zenon
       DEF TftpTimeoutResend, TimerCheck, worldVars
  <2> QED BY <1>0, <1>15, <2>2, <2>3
          DEF TftpTimeoutResend, TimerCheck, PlaceTypeOK, Asks
<1>16. CASE TftpTimeoutGiveUp
  <2>1. CountTimeout \in 0..(TIMEOUT_COUNT + 1)
    BY <1>0, <1>16, Counted DEF TftpTimeoutGiveUp, CountInv
  <2>2. /\ timer' \in Timers /\ arp' \in Slots /\ NetState' \in States
        /\ packetHandler' \in Handlers /\ inbox' \subseteq Asks
    BY <1>0, <1>c, <1>16, StartsAgain, Zenon DEF TftpTimeoutGiveUp, States
  <2>3. TimeTypeOK'
    BY <1>0, <1>16, <2>1, <2>2, TimeFrom, Zenon
       DEF TftpTimeoutGiveUp, TimerCheck, worldVars
  <2> QED BY <1>0, <1>16, <2>2, <2>3
          DEF TftpTimeoutGiveUp, TimerCheck, PlaceTypeOK, Asks, States
<1>17. CASE TftpTimeoutBoot
  <2>1. CountTimeout \in 0..(TIMEOUT_COUNT + 1)
    BY <1>0, <1>17, Counted DEF TftpTimeoutBoot, CountInv
  <2>2. TimeTypeOK'
    BY <1>0, <1>c, <1>17, <2>1, TimeFrom, Zenon
       DEF TftpTimeoutBoot, TimerCheck, worldVars
  <2> QED BY <1>0, <1>17, <2>2 DEF TftpTimeoutBoot, TimerCheck, PlaceTypeOK
<1>18. CASE \/ SwitchContinue \/ SwitchRestart \/ SwitchSuccess \/ SwitchFail
  <2>1. TimeTypeOK'
    BY <1>0, <1>18, TimeFrom, Zenon DEF SwitchContinue, SwitchRestart,
         SwitchSuccess, SwitchFail, netVars, worldVars, ghostVars
  <2> QED BY <1>0, <1>18, <2>1 DEF SwitchContinue, SwitchRestart,
            SwitchSuccess, SwitchFail, netVars, ghostVars, PlaceTypeOK
<1>19. CASE Tick
  <2>1. Later(timer, 1) \in Timers /\ Later(arp, 1) \in Slots
    BY <1>0, TimerLater, SlotLater
  <2>2. timer' \in Timers /\ arp' \in Slots
    BY <1>0, <1>19, <2>1, Zenon DEF Tick
  <2>3. TimeTypeOK'
    BY <1>0, <1>19, <2>2, TimeFrom, Zenon DEF Tick, netVars, worldVars, ghostVars
  <2> QED BY <1>0, <1>19, <2>3 DEF Tick, netVars, ghostVars, PlaceTypeOK
<1>20. CASE World
  <2>1. TimeTypeOK'
    BY <1>0, <1>20, TimeFrom, Zenon DEF World, LinkChange, ServerChange,
         Stabilise, netVars, ghostVars
  <2> QED BY <1>0, <1>20, <2>1 DEF World, LinkChange, ServerChange, Stabilise,
            netVars, ghostVars, PlaceTypeOK
<1> QED BY <1>1, <1>2, <1>3, <1>4, <1>5, <1>6, <1>7, <1>8, <1>9, <1>10,
           <1>11, <1>12, <1>13, <1>14, <1>15, <1>16, <1>17, <1>18, <1>19,
           <1>20, Zenon DEF Next, Step

(* The handler of the timer, where it changes without being set. *)
LEMMA StartAgainHandler ==
  ASSUME TypeOK, NEW tm \in Timers, NEW slot, NetStartAgain(tm, slot),
         timer'.handler = "Tftp"
  PROVE  tm.handler = "Tftp"
<1>1. TimeTypeOK
  BY DEF TypeOK
<1>2. Busy(tm).handler = tm.handler
  <2>1. Busy(tm) = tm \/ Busy(tm) = Later(tm, CFG_HZ)
    BY Zenon DEF Busy
  <2>2. CFG_HZ \in Nat
    BY <1>1, Config
  <2> QED BY <1>1, <2>1, <2>2, TimerLater, Zenon
<1>3. NetSetTimeout(Ten, "startAgain").handler # "Tftp"
  <2>1. "startAgain" \in Handlers /\ Ten \in Nat
    BY DEF Handlers, Ten
  <2>2. NetSetTimeout(Ten, "startAgain").handler \in {"none", "startAgain"}
    BY <1>1, <2>1, TimeoutSet
  <2> QED BY <2>2
<1> QED BY <1>2, <1>3, Zenon DEF NetStartAgain

LEMMA Counts ==
  ASSUME TypeOK, CountInv, [Next]_vars
  PROVE  CountInv'
<1> DEFINE Tftp(t) == t.handler = "Tftp"
<1>0. /\ TimeTypeOK /\ timer \in Timers /\ TIMEOUT_COUNT \in Nat
      /\ ~Tftp(Disarmed)
  BY Config DEF TypeOK, TimeTypeOK, Disarmed, Timers
<1>1. ASSUME TftpTimeoutCount' = TftpTimeoutCount, Tftp(timer') => Tftp(timer)
      PROVE  CountInv'
  BY <1>1 DEF CountInv
<1>2. CASE UNCHANGED vars
  BY <1>1, <1>2, Zenon DEF vars, netVars
<1>3. ASSUME NEW p \in Protocols, NetLoop(p)
      PROVE  CountInv'
  <2>1. ~Tftp(NoTimer)
    BY DEF NoTimer
  <2>2. \A a : [timer EXCEPT !.age = a].handler = timer.handler
    BY <1>0 DEF Timers
  <2>3. Tftp(timer') => Tftp(timer)
    BY <1>3, <2>1, <2>2, Zenon DEF NetLoop
  <2> QED BY <1>1, <1>3, <2>3, Zenon DEF NetLoop
<1>4. CASE Abort \/ RestartNoIP
  BY <1>1, <1>4, Zenon DEF Abort, RestartNoIP, netVars
<1>5. CASE RestartNoAddr
  BY <1>0, <1>1, <1>5, StartAgainHandler, Zenon DEF RestartNoAddr
<1>6. CASE RestartTftp \/ ReceiveTftp
  <2>1. TftpTimeoutCount' = 0
    BY <1>6, Zenon DEF RestartTftp, ReceiveTftp
  <2> QED BY <1>0, <2>1 DEF CountInv
<1>7. CASE RestartPing
  <2>1. NetSetTimeout(Ten, "Ping").handler \in {"none", "Ping"}
    BY <1>0, TimeoutSet DEF Ten, Handlers
  <2>2. ~Tftp(timer')
    BY <1>7, <2>1 DEF RestartPing
  <2> QED BY <1>1, <1>7, <2>2, Zenon DEF RestartPing
<1>8. CASE ReceiveArp \/ ReceiveArpLate \/ ReceivePing \/ ReceiveIgnored
  BY <1>1, <1>8, Zenon DEF ReceiveArp, ReceiveArpLate, ReceivePing,
       ReceiveIgnored
<1>9. CASE ArpQuiet \/ ArpRetry
  BY <1>1, <1>9, Zenon DEF ArpQuiet, ArpRetry, ArpCheck
<1>10. CASE ArpGiveUp
  BY <1>0, <1>1, <1>10, StartAgainHandler, Zenon DEF ArpGiveUp, ArpCheck
<1>11. CASE TimerQuiet \/ PingTimeout \/ startAgainTimeout
  BY <1>0, <1>1, <1>11, Zenon DEF TimerQuiet, PingTimeout, startAgainTimeout
<1>12. CASE TftpTimeoutResend
  BY <1>12 DEF TftpTimeoutResend, CountInv
<1>13. CASE TftpTimeoutGiveUp
  <2>1. ~Tftp(timer')
    BY <1>0, <1>13, StartAgainHandler, TimerDisarmed, Zenon
       DEF TftpTimeoutGiveUp
  <2> QED BY <2>1, Zenon DEF CountInv
<1>14. CASE TftpTimeoutBoot
  BY <1>0, <1>14, Zenon DEF TftpTimeoutBoot, CountInv
<1>15. CASE \/ SwitchContinue \/ SwitchRestart \/ SwitchSuccess \/ SwitchFail
            \/ World
  BY <1>1, <1>15, Zenon DEF SwitchContinue, SwitchRestart, SwitchSuccess,
       SwitchFail, World, LinkChange, ServerChange, Stabilise, netVars
<1>16. CASE Tick
  <2>1. Later(timer, 1).handler = timer.handler
    BY <1>0, TimerLater
  <2> QED BY <1>1, <1>16, <2>1, Zenon DEF Tick, netVars
<1> QED BY <1>2, <1>3, <1>4, <1>5, <1>6, <1>7, <1>8, <1>9, <1>10, <1>11,
           <1>12, <1>13, <1>14, <1>15, <1>16, Zenon DEF Next, Step
-----------------------------------------------------------------------------
(* The frame that waits for the answer to an ARP request. *)
LEMMA CfgStays ==
  ASSUME [Next]_vars
  PROVE  cfg' = cfg
<1>1. CASE UNCHANGED vars
  BY <1>1, Zenon DEF vars, worldVars
<1>2. CASE (\E p \in Protocols : NetLoop(p)) \/ Abort
  BY <1>2, Zenon DEF NetLoop, Abort, worldVars
<1>3. CASE RestartNoIP \/ RestartNoAddr \/ RestartTftp \/ RestartPing
  BY <1>3, Zenon DEF RestartNoIP, RestartNoAddr, RestartTftp, RestartPing,
       RestartCommon, worldVars
<1>4. CASE \/ ReceiveArp \/ ReceiveArpLate
           \/ ReceivePing \/ ReceiveTftp \/ ReceiveIgnored
  BY <1>4, Zenon DEF ReceiveArp, ReceiveArpLate, ReceivePing, ReceiveTftp,
       ReceiveIgnored, Receive, worldVars
<1>5. CASE ArpQuiet \/ ArpRetry \/ ArpGiveUp
  BY <1>5, Zenon DEF ArpQuiet, ArpRetry, ArpGiveUp, ArpCheck, worldVars
<1>6. CASE \/ TimerQuiet \/ PingTimeout \/ TftpTimeoutResend
           \/ TftpTimeoutBoot \/ startAgainTimeout \/ TftpTimeoutGiveUp
  BY <1>6, Zenon DEF TimerQuiet, PingTimeout, TftpTimeoutResend,
       TftpTimeoutBoot, startAgainTimeout, TftpTimeoutGiveUp, TimerCheck,
       worldVars
<1>7. CASE \/ SwitchContinue \/ SwitchRestart \/ SwitchSuccess \/ SwitchFail
           \/ Tick
  BY <1>7, Zenon DEF SwitchContinue, SwitchRestart, SwitchSuccess, SwitchFail,
       Tick, worldVars
<1>8. CASE World
  BY <1>8, Zenon DEF World, LinkChange, ServerChange, Stabilise
<1> QED BY <1>1, <1>2, <1>3, <1>4, <1>5, <1>6, <1>7, <1>8, Zenon DEF Next, Step

(* The waits, in ticks. *)
LEMMA Waits ==
  ASSUME TypeOK, OnTime
  PROVE  /\ Ticks(TFTP_TIMEOUT) \in Nat /\ Ticks(Ten) \in Nat
         /\ Ticks(ARP_TIMEOUT) \in Nat /\ CFG_HZ \in Nat /\ Word \in Nat
         /\ Ticks(TFTP_TIMEOUT) > 0 /\ Ticks(Ten) > 0 /\ CFG_HZ > 0
         /\ Ticks(TFTP_TIMEOUT) + CFG_HZ + Ticks(Ten) < Ticks(ARP_TIMEOUT)
         /\ Ticks(ARP_TIMEOUT) < Word
<1>1. TimeTypeOK
  BY DEF TypeOK
<1>2. TFTP_TIMEOUT \in Nat /\ Ten \in Nat /\ ARP_TIMEOUT \in Nat
  BY DEF TFTP_TIMEOUT, Ten, ARP_TIMEOUT
<1>3. /\ Ticks(TFTP_TIMEOUT) \in Nat /\ Ticks(Ten) \in Nat
      /\ Ticks(ARP_TIMEOUT) \in 0..(Word - 1)
  BY <1>1, <1>2, TicksRange, Zenon
<1>4. Word \in Nat \ {0} /\ CFG_HZ \in Nat \ {0}
  BY <1>1, Config
<1> QED BY <1>3, <1>4 DEF OnTime, ShortWait

(* Ages are numbers. *)
LEMMA Ages ==
  ASSUME TypeOK
  PROVE  /\ timer.age \in Nat /\ timer.delta \in Nat /\ arp.age \in Nat
         /\ arp.try \in Nat /\ arp.wait \in BOOLEAN
<1>1. Word \in Nat \ {0} /\ ARP_TIMEOUT_COUNT \in Nat
  BY Config DEF TypeOK
<1>2. timer.age \in Nat /\ timer.delta \in Nat
  BY <1>1 DEF TypeOK, TimeTypeOK, Timers
<1>3. arp.age \in Nat /\ arp.try \in Nat /\ arp.wait \in BOOLEAN
  BY <1>1 DEF TypeOK, TimeTypeOK, Slots
<1> QED BY <1>2, <1>3

(* A device that is current and a protocol that runs: ARP does not ask     *)
(* again.  While NetStartAgain waits it asks in the last round only.       *)
LEMMA ArpInTime ==
  ASSUME TypeOK, OnTime, TimerInv, ArpExpired
  PROVE  /\ ~ProtocolInv
         /\ WaitInv /\ loop = "rx" => arp.try = 1 /\ Fired(timer)
<1> DEFINE T == Ticks(TFTP_TIMEOUT)
           S == Ticks(Ten)
           R == Ticks(ARP_TIMEOUT)
<1>1. /\ T \in Nat /\ S \in Nat /\ R \in Nat /\ CFG_HZ \in Nat
      /\ T > 0 /\ S > 0 /\ CFG_HZ > 0 /\ T + CFG_HZ + S < R
  BY Waits
<1>2. /\ timer.age \in Nat /\ timer.delta \in Nat /\ arp.age \in Nat
  BY Ages
<1>3. arp.wait /\ arp.age > R
  BY Zenon DEF ArpExpired, Ticks
<1>4. timer.age <= timer.delta + 1 /\ timer.handler = packetHandler
  BY DEF TimerInv
<1> HIDE DEF T, S, R
<1>5. ASSUME ProtocolInv PROVE FALSE
  <2>1. arp.age <= timer.age
    BY <1>3, <1>5, Zenon DEF ProtocolInv
  <2>2. timer.delta = T \/ timer.delta = S
    BY <1>5, Zenon DEF ProtocolInv, T, S
  <2> QED BY <1>1, <1>2, <1>3, <1>4, <2>1, <2>2
<1>6. ASSUME WaitInv, loop = "rx" PROVE arp.try = 1 /\ Fired(timer)
  <2>1. packetHandler = "startAgain" /\ timer.delta = S
    BY <1>6, Zenon DEF WaitInv, S
  <2>2. arp.age <= T + 1 + CFG_HZ + timer.age /\ arp.try = 1
    <3>1. loop # "timer"
      BY <1>6
    <3> QED BY <1>3, <1>6, <3>1, Zenon DEF WaitInv, T
  <2>3. timer.age > timer.delta
    BY <1>1, <1>2, <1>3, <2>1, <2>2
  <2>4. timer.handler # "none"
    BY <1>4, <2>1
  <2> QED BY <2>2, <2>3, <2>4 DEF Fired
<1> QED BY <1>5, <1>6
-----------------------------------------------------------------------------
(* A step, by the place in the loop that it leads to. *)
LEMMA SameWaits ==
  ASSUME cfg' = cfg
  PROVE  /\ OnTime' <=> OnTime
         /\ Ticks(TFTP_TIMEOUT)' = Ticks(TFTP_TIMEOUT)
         /\ Ticks(Ten)' = Ticks(Ten)
  BY Zenon DEF OnTime, ShortWait, EnoughTries, Ticks, Word, ARP_TIMEOUT_COUNT,
       TFTP_TIMEOUT, Ten, ARP_TIMEOUT

LEMMA SameFrame ==
  ASSUME cfg' = cfg, sent' = sent, SourceIsSender
  PROVE  SourceIsSender'
  BY SameWaits, Zenon DEF SourceIsSender

LEMMA OutOfLoop ==
  ASSUME ~InLoop', loop' = "restart" => NetState' = "CONTINUE"
  PROVE  FrameInv'
  BY Zenon DEF FrameInv

LEMMA Leaving ==
  ASSUME loop' = "switch", NetState' \in {"RESTART", "FAIL"},
         OnTime' /\ arp'.wait => arp'.src = NetOurEther'
  PROVE  FrameInv'
<1>1. loop' # "restart" /\ ~(NetState' \in {"CONTINUE", "SUCCESS"})
  OBVIOUS
<1> QED BY <1>1, Zenon DEF FrameInv

LEMMA GoingOn ==
  ASSUME InLoop', NetState' \in {"CONTINUE", "SUCCESS"},
         OnTime' => /\ arp'.wait => arp'.src = NetOurEther'
                    /\ TimerInv' /\ (ProtocolInv' \/ WaitInv')
  PROVE  FrameInv'
<1>1. loop' # "restart" /\ ~(NetState' \in {"RESTART", "FAIL"})
  BY DEF InLoop
<1> QED BY <1>1, Zenon DEF FrameInv

(* At the top of the loop and at the timer a frame is expected or NetLoop  *)
(* waits to start again.                                                   *)
LEMMA Going ==
  ASSUME TypeOK, FrameInv, OnTime, InLoop,
         loop # "switch" \/ NetState = "CONTINUE"
  PROVE  /\ arp.wait => arp.src = NetOurEther
         /\ NetState \in {"CONTINUE", "SUCCESS"}
         /\ TimerInv /\ (ProtocolInv \/ WaitInv)
<1>1. NetState \in {"CONTINUE", "RESTART", "SUCCESS", "FAIL"}
  BY DEF TypeOK, PlaceTypeOK
<1>2. NetState \in {"RESTART", "FAIL"} => loop = "switch"
  BY Zenon DEF FrameInv
<1>3. NetState \in {"CONTINUE", "SUCCESS"}
  BY <1>1, <1>2
<1> QED BY <1>3, Zenon DEF FrameInv
-----------------------------------------------------------------------------
FrameKept == FrameInv' /\ SourceIsSender'

LEMMA RestartFrames ==
  ASSUME NetInv, RestartTftp \/ RestartPing
  PROVE  FrameKept
<1>1. TypeOK /\ TimeTypeOK /\ eth_current \in Devices /\ {} \in SUBSET Asks
  BY Zenon DEF NetInv, TypeOK, EthTypeOK
<1>2. /\ cfg' = cfg /\ loop = "restart" /\ loop' = "rx" /\ polled' = FALSE
      /\ NetState' = NetState /\ NetOurEther' = eth_current
      /\ eth_current' = eth_current /\ protocol' = protocol
  BY Zenon DEF RestartTftp, RestartPing, RestartCommon, OurEther, worldVars,
       ethVars
<1>3. SendArp(eth_current, {})
  BY Zenon DEF RestartTftp, RestartPing, TftpSend, OurEther
<1>4. /\ arp'.wait /\ arp'.src = eth_current /\ arp'.try = 1 /\ arp'.age = 0
      /\ sent'.kind = "arp"
      /\ inbox' = {} \/ inbox' = {} \union {"arp"}
  BY <1>1, <1>3, ArpSent, Zenon
<1>5. SourceIsSender'
  <2>1. sent'.kind # "udp"
    BY <1>4
  <2> QED BY <2>1, Zenon DEF SourceIsSender
<1>6. ASSUME OnTime'
      PROVE  /\ NetState = "CONTINUE"
             /\ TimerInv' /\ ProtocolInv'
  <2>1. OnTime /\ NetState = "CONTINUE"
    BY <1>2, <1>6, SameWaits, Zenon DEF NetInv, FrameInv
  <2>2. Ticks(TFTP_TIMEOUT) # 0 /\ Ticks(Ten) # 0
    BY <1>1, <2>1, Waits
  <2>3. "Tftp" \in Handlers /\ "Ping" \in Handlers
        /\ TFTP_TIMEOUT \in Nat /\ Ten \in Nat
    BY DEF Handlers, TFTP_TIMEOUT, Ten
  <2>4. \/ /\ timer'.handler = "Tftp" /\ packetHandler' = "Tftp"
           /\ protocol' = "TFTP" /\ timer'.delta = Ticks(TFTP_TIMEOUT)
           /\ NetServerEther' = FALSE /\ timer'.age = 0
        \/ /\ timer'.handler = "Ping" /\ packetHandler' = "Ping"
           /\ protocol' = "PING" /\ timer'.delta = Ticks(Ten)
           /\ timer'.age = 0
    <3>1. CASE RestartTftp
      BY <1>1, <1>2, <2>2, <2>3, <3>1, TimeoutSet, Zenon DEF RestartTftp
    <3>2. CASE RestartPing
      BY <1>1, <1>2, <2>2, <2>3, <3>2, TimeoutSet, Zenon DEF RestartPing
    <3> QED BY <3>1, <3>2
  <2>5. timer'.age = 0
    BY <2>4, Zenon
  <2>6. Ticks(TFTP_TIMEOUT) \in Nat /\ Ticks(Ten) \in Nat
    BY <1>1, <2>1, Waits
  <2>7. timer'.age <= timer'.delta + 1 /\ timer'.age <= timer'.delta
    BY <2>4, <2>5, <2>6
  <2>8. TimerInv'
    BY <2>4, <2>7, Zenon DEF TimerInv
  <2>9. arp'.age <= timer'.age
    BY <1>4, <2>5
  <2>10. "answer" \notin inbox'
    BY <1>4
  <2>11. ProtocolInv'
    BY <1>2, <1>4, <2>4, <2>9, <2>10, SameWaits, Zenon DEF ProtocolInv
  <2> QED BY <2>1, <2>8, <2>11
<1>7. FrameInv'
  <2>1. CASE OnTime'
    <3>1. InLoop' /\ NetState' \in {"CONTINUE", "SUCCESS"}
      BY <1>2, <1>6, <2>1 DEF InLoop
    <3> QED BY <1>2, <1>4, <1>6, <2>1, <3>1, GoingOn, Zenon
  <2>2. CASE ~OnTime'
    BY <2>2, Zenon DEF FrameInv
  <2> QED BY <2>1, <2>2
<1> QED BY <1>5, <1>7 DEF FrameKept

LEMMA ReceiveFrames ==
  ASSUME NetInv, \/ ReceiveArp \/ ReceiveArpLate
                 \/ ReceivePing \/ ReceiveTftp \/ ReceiveIgnored
  PROVE  FrameKept
<1>1. /\ TypeOK /\ TimeTypeOK /\ eth_current \in Devices /\ arp \in Slots
      /\ inbox \in SUBSET Asks /\ FrameInv /\ SourceIsSender
  BY DEF NetInv, TypeOK, TimeTypeOK, EthTypeOK, PlaceTypeOK, Asks
<1>2. /\ cfg' = cfg /\ loop = "rx" /\ loop' = "rx" /\ polled' = FALSE
      /\ NetOurEther' = NetOurEther /\ eth_current' = eth_current
      /\ protocol' = protocol /\ packetHandler' = packetHandler
      /\ inbox # {}
  BY Zenon DEF ReceiveArp, ReceiveArpLate, ReceivePing, ReceiveTftp,
       ReceiveIgnored, Receive, worldVars, ethVars
<1>3. InLoop /\ InLoop' /\ loop # "switch" /\ loop # "timer"
  BY <1>2 DEF InLoop
<1>4. ASSUME ~OnTime PROVE FrameKept
  BY <1>2, <1>4, SameWaits, Zenon DEF FrameKept, FrameInv, SourceIsSender
<1>5. SUFFICES ASSUME OnTime PROVE FrameKept
  BY <1>4
<1>6. /\ arp.wait => arp.src = NetOurEther
      /\ NetState \in {"CONTINUE", "SUCCESS"}
      /\ TimerInv /\ ProtocolInv
  <2>1. ~WaitInv
    BY <1>2, <1>3, Zenon DEF WaitInv
  <2> QED BY <1>1, <1>3, <1>5, <2>1, Going, Zenon
<1>7. ASSUME arp'.wait => arp'.src = NetOurEther', TimerInv', ProtocolInv',
             NetState' \in {"CONTINUE", "SUCCESS"}
      PROVE  FrameInv'
  BY <1>3, <1>7, GoingOn, Zenon
<1>8. ASSUME timer' = timer PROVE TimerInv'
  BY <1>2, <1>6, <1>8, Zenon DEF TimerInv
<1>9. CASE ReceiveArp
  <2>1. PICK box \in AfterReply : Transmit("udp", "answer", arp.src, box)
    BY <1>9, Zenon DEF ReceiveArp
  <2>2. box \in SUBSET Asks
    BY <1>1 DEF AfterReply
  <2>3. /\ arp.wait /\ ~arp'.wait /\ arp.src \in Devices
    BY <1>1, <1>9 DEF ReceiveArp, Slots
  <2>4. sent'.src = arp.src /\ sent'.dev = eth_current
    <3>1. "udp" \in Kinds /\ "answer" \in Asks
      BY DEF Kinds, Asks
    <3> QED BY <1>1, <2>1, <2>2, <2>3, <3>1, Transmits, Zenon
  <2>5. SourceIsSender'
    BY <1>6, <2>3, <2>4, Zenon DEF SourceIsSender, ProtocolInv
  <2>6. ProtocolInv'
    <3>1. /\ timer' = timer
          /\ NetServerEther' = (NetServerEther \/ protocol = "TFTP")
      BY <1>9, Zenon DEF ReceiveArp
    <3> QED BY <1>2, <1>6, <2>3, <3>1, SameWaits, Zenon DEF ProtocolInv
  <2>7. FrameInv'
    BY <1>6, <1>7, <1>8, <1>9, <2>3, <2>6, Zenon DEF ReceiveArp
  <2> QED BY <2>5, <2>7 DEF FrameKept
<1>10. CASE ReceiveArpLate \/ ReceivePing
  <2>1. /\ timer' = timer /\ arp' = arp /\ sent' = sent
        /\ NetServerEther' = NetServerEther
    BY <1>10, Zenon DEF ReceiveArpLate, ReceivePing
  <2>2. NetState' \in {"CONTINUE", "SUCCESS"} /\ inbox' \subseteq inbox
    BY <1>6, <1>10 DEF ReceiveArpLate, ReceivePing
  <2>3. ProtocolInv'
    <3>1. "answer" \notin inbox => "answer" \notin inbox'
      BY <2>2
    <3> QED BY <1>2, <1>6, <2>1, <3>1, SameWaits, Zenon DEF ProtocolInv
  <2>4. FrameInv'
    BY <1>2, <1>6, <1>7, <1>8, <2>1, <2>2, <2>3, Zenon
  <2> QED BY <1>1, <1>2, <2>1, <2>4, SameFrame, Zenon DEF FrameKept
<1>11. CASE ReceiveTftp
  <2>1. /\ timer' = NetSetTimeout(TFTP_TIMEOUT, "Tftp")
        /\ sent' = [kind |-> "udp", dev |-> eth_current, src |-> NetOurEther]
        /\ arp' = arp /\ NetServerEther' = NetServerEther
        /\ "answer" \in inbox /\ packetHandler = "Tftp"
        /\ NetState' = "SUCCESS"
    BY <1>11, Zenon DEF ReceiveTftp, Receive
  <2>2. SourceIsSender'
    BY <1>6, <2>1 DEF SourceIsSender, ProtocolInv
  <2>3. ~arp.wait
    BY <1>6, <2>1, Zenon DEF ProtocolInv
  <2>4. "Tftp" \in Handlers /\ TFTP_TIMEOUT \in Nat
    BY DEF Handlers, TFTP_TIMEOUT
  <2>5. Ticks(TFTP_TIMEOUT) # 0 /\ Ticks(TFTP_TIMEOUT) \in Nat
    BY <1>1, <1>5, Waits
  <2>6. /\ timer'.handler = "Tftp" /\ timer'.delta = Ticks(TFTP_TIMEOUT)
        /\ timer'.age = 0
    BY <1>1, <2>1, <2>4, <2>5, TimeoutSet, Zenon
  <2>7. timer'.age <= timer'.delta + 1 /\ timer'.age <= timer'.delta
    BY <2>5, <2>6
  <2>8. TimerInv'
    BY <1>2, <2>1, <2>6, <2>7, Zenon DEF TimerInv
  <2>9. packetHandler # "Ping"
    BY <2>1
  <2>10. ProtocolInv'
    BY <1>2, <1>6, <2>1, <2>3, <2>6, <2>9, SameWaits, Zenon DEF ProtocolInv
  <2>11. FrameInv'
    <3>1. NetState' \in {"CONTINUE", "SUCCESS"}
      BY <2>1
    <3> QED BY <1>7, <2>1, <2>3, <2>8, <2>10, <3>1, Zenon
  <2> QED BY <2>2, <2>11 DEF FrameKept
<1>12. CASE ReceiveIgnored
  <2>1. packetHandler = "startAgain"
    BY <1>12, Zenon DEF ReceiveIgnored
  <2> QED BY <1>6, <2>1 DEF ProtocolInv
<1> QED BY <1>9, <1>10, <1>11, <1>12

LEMMA ArpFrames ==
  ASSUME NetInv, ArpQuiet \/ ArpRetry \/ ArpGiveUp
  PROVE  FrameKept
<1>1. /\ TypeOK /\ TimeTypeOK /\ arp \in Slots /\ inbox \in SUBSET Asks
      /\ NetOurEther \in Devices /\ FrameInv /\ SourceIsSender
  BY DEF NetInv, TypeOK, TimeTypeOK, PlaceTypeOK, Asks
<1>2. /\ cfg' = cfg /\ loop = "rx" /\ loop' = "timer" /\ polled' = polled
      /\ NetOurEther' = NetOurEther /\ protocol' = protocol
      /\ NetServerEther' = NetServerEther
  BY Zenon DEF ArpQuiet, ArpRetry, ArpGiveUp, ArpCheck, worldVars
<1>3. InLoop /\ InLoop' /\ loop # "switch" /\ loop # "timer"
      /\ loop' # "switch" /\ loop' # "rx"
  BY <1>2 DEF InLoop
<1>4. ASSUME ~OnTime PROVE FrameKept
  BY <1>2, <1>4, SameWaits, Zenon DEF FrameKept, FrameInv, SourceIsSender
<1>5. SUFFICES ASSUME OnTime PROVE FrameKept
  BY <1>4
<1>6. /\ arp.wait => arp.src = NetOurEther
      /\ NetState \in {"CONTINUE", "SUCCESS"}
      /\ TimerInv /\ (ProtocolInv \/ WaitInv)
  BY <1>1, <1>3, <1>5, Going, Zenon
<1>7. ASSUME timer' = timer, packetHandler' = packetHandler PROVE TimerInv'
  BY <1>3, <1>6, <1>7, Zenon DEF TimerInv
<1>8. CASE ArpQuiet
  <2>1. /\ timer' = timer /\ packetHandler' = packetHandler /\ arp' = arp
        /\ inbox' = inbox /\ sent' = sent /\ NetState' = NetState
        /\ eth_current' = eth_current
    BY <1>8, Zenon DEF ArpQuiet, ethVars
  <2>2. ProtocolInv => ProtocolInv'
    BY <1>2, <2>1, SameWaits, Zenon DEF ProtocolInv
  <2>3. WaitInv => WaitInv'
    BY <1>2, <1>3, <2>1, SameWaits, Zenon DEF WaitInv
  <2>4. FrameInv'
    BY <1>2, <1>3, <1>6, <1>7, <2>1, <2>2, <2>3, GoingOn, Zenon
  <2> QED BY <1>1, <1>2, <2>1, <2>4, SameFrame, Zenon DEF FrameKept
<1>9. ASSUME ArpExpired PROVE WaitInv /\ arp.try = 1 /\ Fired(timer)
  BY <1>1, <1>2, <1>5, <1>6, <1>9, ArpInTime, Zenon
<1>10. CASE ArpRetry
  <2>1. /\ timer' = timer /\ packetHandler' = packetHandler
        /\ NetState' = NetState /\ ArpExpired
        /\ Transmit("arp", "arp", NetOurEther, inbox)
    BY <1>10, Zenon DEF ArpRetry
  <2>2. arp'.wait = arp.wait /\ arp'.src = arp.src
    BY <1>1, <1>10 DEF ArpRetry, Slots
  <2>3. sent'.kind # "udp"
    <3>1. "arp" \in Kinds /\ "arp" \in Asks /\ "arp" # "udp"
      BY DEF Kinds, Asks
    <3> QED BY <1>1, <2>1, <3>1, Transmits, Zenon
  <2>4. Fired(timer')
    BY <1>9, <2>1, Zenon
  <2>5. WaitInv'
    BY <1>2, <1>9, <2>1, <2>4, SameWaits, Zenon DEF WaitInv, Fired
  <2>6. FrameInv'
    BY <1>2, <1>3, <1>6, <1>7, <2>1, <2>2, <2>5, GoingOn, Zenon
  <2> QED BY <2>3, <2>6, Zenon DEF FrameKept, SourceIsSender
<1>11. CASE ArpGiveUp
  <2>1. arp.try = 1 /\ arp.try + 1 >= ARP_TIMEOUT_COUNT
    BY <1>9, <1>11, Zenon DEF ArpGiveUp
  <2>2. ARP_TIMEOUT_COUNT > 2 /\ ARP_TIMEOUT_COUNT \in Nat
    BY <1>1, <1>5, Config DEF OnTime, EnoughTries
  <2> QED BY <2>1, <2>2
<1> QED BY <1>8, <1>10, <1>11

(* NetStartAgain, once TFTP has given up. *)
LEMMA GiveUpFrames ==
  ASSUME NetInv, TftpTimeoutGiveUp
  PROVE  FrameKept
<1>1. /\ TypeOK /\ TimeTypeOK /\ arp \in Slots
      /\ FrameInv /\ SourceIsSender
  BY DEF NetInv, TypeOK, TimeTypeOK
<1>2. /\ cfg' = cfg /\ loop = "timer" /\ loop' = "switch"
      /\ NetOurEther' = NetOurEther /\ sent' = sent
      /\ timer.handler = "Tftp" /\ NetStartAgain(Disarmed, arp)
      /\ ~cfg.recovery
  BY Zenon DEF TftpTimeoutGiveUp, TimerCheck, worldVars
<1>3. InLoop /\ InLoop' /\ loop # "switch"
  BY <1>2 DEF InLoop
<1>4. ASSUME ~OnTime PROVE FrameKept
  BY <1>2, <1>4, SameWaits, Zenon DEF FrameKept, FrameInv, SourceIsSender
<1>5. SUFFICES ASSUME OnTime PROVE FrameInv'
  BY <1>1, <1>2, <1>4, SameFrame, Zenon DEF FrameKept
<1>6. /\ arp.wait => arp.src = NetOurEther
      /\ NetState \in {"CONTINUE", "SUCCESS"}
      /\ TimerInv /\ ProtocolInv /\ timer.delta = Ticks(TFTP_TIMEOUT)
  <2>1. TimerInv /\ (ProtocolInv \/ WaitInv)
    BY <1>1, <1>3, <1>5, Going, Zenon
  <2>2. packetHandler = "Tftp"
    BY <1>2, <2>1, Zenon DEF TimerInv
  <2>3. packetHandler # "startAgain" /\ packetHandler # "Ping"
    BY <2>2
  <2> QED BY <1>1, <1>3, <1>5, <2>1, <2>3, Going, Zenon DEF WaitInv, ProtocolInv
<1>7. /\ Busy(arp).wait = arp.wait /\ Busy(arp).src = arp.src
      /\ Busy(arp).try = arp.try
      /\ Busy(arp).age = arp.age \/ Busy(arp).age = (arp.age + CFG_HZ) % Word
  BY <1>1, SlotBusy, Zenon
<1>8. arp'.wait => arp'.src = NetOurEther'
  BY <1>2, <1>6, <1>7, Zenon DEF NetStartAgain
<1>9. CASE NetState' \in {"RESTART", "FAIL"}
  BY <1>2, <1>8, <1>9, Leaving, Zenon
<1>10. CASE /\ arp' = Busy(arp) /\ inbox' = {}
            /\ timer' = NetSetTimeout(Ten, "startAgain")
            /\ packetHandler' = "startAgain"
            /\ NetState' = NetState
  <2>1. /\ Ticks(TFTP_TIMEOUT) \in Nat /\ Ticks(Ten) \in Nat /\ CFG_HZ \in Nat
        /\ Ticks(Ten) # 0 /\ Word \in Nat \ {0}
    BY <1>1, <1>5, Waits, Config
  <2>2. "startAgain" \in Handlers /\ Ten \in Nat
    BY DEF Handlers, Ten
  <2>3. /\ timer'.handler = "startAgain" /\ timer'.delta = Ticks(Ten)
        /\ timer'.age = 0
    BY <1>1, <1>10, <2>1, <2>2, TimeoutSet, Zenon
  <2>4. TimerInv'
    <3>1. timer'.age <= timer'.delta + 1 /\ timer'.age <= timer'.delta
      BY <2>1, <2>3
    <3> QED BY <1>10, <2>3, <3>1, Zenon DEF TimerInv
  <2>5. ASSUME arp.wait
        PROVE  /\ Busy(arp).age <= Ticks(TFTP_TIMEOUT) + 1 + CFG_HZ + timer'.age
               /\ Busy(arp).try = 1
    <3>1. timer.age \in Nat /\ arp.age \in Nat
      BY <1>1, Ages
    <3>2. arp.age <= timer.age /\ arp.try = 1
      BY <1>6, <2>5, Zenon DEF ProtocolInv
    <3>3. timer.age <= Ticks(TFTP_TIMEOUT) + 1
      BY <1>6, Zenon DEF TimerInv
    <3>4. arp.age + CFG_HZ \in Nat
      BY <2>1, <3>1
    <3>5. /\ (arp.age + CFG_HZ) % Word \in Nat
          /\ (arp.age + CFG_HZ) % Word <= arp.age + CFG_HZ
      BY <2>1, <3>4, ModLess, Zenon
    <3>6. Busy(arp).age \in Nat /\ Busy(arp).age <= arp.age + CFG_HZ
      BY <1>7, <2>1, <3>1, <3>5
    <3> QED BY <1>7, <2>1, <2>3, <3>1, <3>2, <3>3, <3>6
  <2>6. WaitInv'
    BY <1>2, <1>7, <1>10, <2>3, <2>5, SameWaits, Zenon DEF WaitInv
  <2> QED BY <1>3, <1>6, <1>8, <1>10, <2>4, <2>6, GoingOn, Zenon
<1> QED BY <1>2, <1>9, <1>10 DEF NetStartAgain

LEMMA ResendFrames ==
  ASSUME NetInv, TftpTimeoutResend
  PROVE  FrameKept
<1>1. /\ TypeOK /\ TimeTypeOK /\ arp \in Slots /\ inbox \in SUBSET Asks
      /\ NetOurEther \in Devices /\ NetServerEther \in BOOLEAN
      /\ FrameInv /\ SourceIsSender
  BY DEF NetInv, TypeOK, TimeTypeOK, PlaceTypeOK, FlagTypeOK, Asks
<1>2. /\ cfg' = cfg /\ loop = "timer" /\ loop' = "switch"
      /\ NetOurEther' = NetOurEther /\ protocol' = protocol
      /\ NetServerEther' = NetServerEther /\ NetState' = NetState
      /\ packetHandler' = packetHandler /\ eth_current' = eth_current
      /\ timer.handler = "Tftp"
      /\ timer' = NetSetTimeout(TFTP_TIMEOUT, "Tftp")
      /\ TftpSend(NetServerEther, NetOurEther, inbox)
  BY Zenon DEF TftpTimeoutResend, TimerCheck, worldVars, ethVars
<1>3. InLoop /\ InLoop' /\ loop # "switch"
  BY <1>2 DEF InLoop
<1>4. ASSUME ~OnTime PROVE FrameKept
  BY <1>2, <1>4, SameWaits, Zenon DEF FrameKept, FrameInv, SourceIsSender
<1>5. SUFFICES ASSUME OnTime PROVE FrameKept
  BY <1>4
<1>6. /\ arp.wait => arp.src = NetOurEther
      /\ NetState \in {"CONTINUE", "SUCCESS"}
      /\ TimerInv /\ (ProtocolInv \/ WaitInv)
  BY <1>1, <1>3, <1>5, Going, Zenon
<1>7. /\ packetHandler = "Tftp" /\ packetHandler # "startAgain"
      /\ packetHandler # "Ping"
  BY <1>2, <1>6 DEF TimerInv
<1>8. /\ NetOurEther = eth_current /\ protocol = "TFTP"
      /\ arp.wait <=> ~NetServerEther
      /\ arp.wait => "answer" \notin inbox
  BY <1>6, <1>7, Zenon DEF WaitInv, ProtocolInv
<1>9. /\ timer'.handler = "Tftp" /\ timer'.delta = Ticks(TFTP_TIMEOUT)
      /\ timer'.age = 0 /\ TimerInv'
  <2>1. "Tftp" \in Handlers /\ TFTP_TIMEOUT \in Nat
    BY DEF Handlers, TFTP_TIMEOUT
  <2>2. Ticks(TFTP_TIMEOUT) # 0 /\ Ticks(TFTP_TIMEOUT) \in Nat
    BY <1>1, <1>5, Waits
  <2>3. /\ timer'.handler = "Tftp" /\ timer'.delta = Ticks(TFTP_TIMEOUT)
        /\ timer'.age = 0
    BY <1>1, <1>2, <2>1, <2>2, TimeoutSet, Zenon
  <2>4. timer'.age <= timer'.delta + 1 /\ timer'.age <= timer'.delta
    BY <2>2, <2>3
  <2> QED BY <1>2, <1>7, <2>3, <2>4, Zenon DEF TimerInv
<1>10. CASE ~NetServerEther /\ SendArp(NetOurEther, inbox)
  <2>1. /\ arp'.wait /\ arp'.src = NetOurEther
        /\ arp'.try = 1 /\ arp'.age = 0 /\ sent'.kind = "arp"
        /\ inbox' = inbox \/ inbox' = inbox \union {"arp"}
    BY <1>1, <1>10, ArpSent, Zenon
  <2>2. "answer" \notin inbox' /\ arp'.age <= timer'.age /\ sent'.kind # "udp"
    BY <1>8, <1>9, <1>10, <2>1
  <2>3. ProtocolInv'
    BY <1>2, <1>7, <1>8, <1>9, <1>10, <2>1, <2>2, SameWaits, Zenon
       DEF ProtocolInv
  <2>4. FrameInv'
    BY <1>2, <1>3, <1>6, <1>9, <2>1, <2>3, GoingOn, Zenon
  <2> QED BY <2>2, <2>4, Zenon DEF FrameKept, SourceIsSender
<1>11. CASE /\ NetServerEther /\ arp' = arp
            /\ Transmit("udp", "answer", NetOurEther, inbox)
  <2>1. sent'.src = NetOurEther /\ sent'.dev = eth_current
    <3>1. "udp" \in Kinds /\ "answer" \in Asks
      BY DEF Kinds, Asks
    <3> QED BY <1>1, <1>11, <3>1, Transmits, Zenon
  <2>2. ProtocolInv'
    BY <1>2, <1>7, <1>8, <1>9, <1>11, SameWaits, Zenon DEF ProtocolInv
  <2>3. FrameInv'
    BY <1>2, <1>3, <1>6, <1>9, <1>11, <2>2, GoingOn, Zenon
  <2> QED BY <1>8, <2>1, <2>3, Zenon DEF FrameKept, SourceIsSender
<1> QED BY <1>2, <1>10, <1>11, Zenon DEF TftpSend

LEMMA TimerFrames ==
  ASSUME NetInv, TimerQuiet \/ PingTimeout \/ startAgainTimeout
  PROVE  FrameKept
<1>1. TypeOK /\ FrameInv /\ SourceIsSender
  BY Zenon DEF NetInv
<1>2. /\ cfg' = cfg /\ loop = "timer" /\ loop' = "switch" /\ arp' = arp
      /\ NetOurEther' = NetOurEther /\ protocol' = protocol /\ sent' = sent
      /\ NetServerEther' = NetServerEther /\ packetHandler' = packetHandler
      /\ inbox' = inbox /\ eth_current' = eth_current
  BY Zenon DEF TimerQuiet, PingTimeout, startAgainTimeout, TimerCheck,
       worldVars, ethVars, eth_halt
<1>3. InLoop /\ InLoop' /\ loop # "switch"
  BY <1>2 DEF InLoop
<1>4. ASSUME ~OnTime PROVE FrameKept
  BY <1>2, <1>4, SameWaits, Zenon DEF FrameKept, FrameInv, SourceIsSender
<1>5. SUFFICES ASSUME OnTime PROVE FrameInv'
  BY <1>1, <1>2, <1>4, SameFrame, Zenon DEF FrameKept
<1>6. /\ arp.wait => arp.src = NetOurEther
      /\ NetState \in {"CONTINUE", "SUCCESS"}
      /\ TimerInv /\ (ProtocolInv \/ WaitInv)
  BY <1>1, <1>3, <1>5, Going, Zenon
<1>7. CASE PingTimeout \/ startAgainTimeout
  <2>1. NetState' \in {"RESTART", "FAIL"}
    BY <1>7 DEF PingTimeout, startAgainTimeout
  <2> QED BY <1>2, <1>6, <2>1, Leaving, Zenon
<1>8. CASE TimerQuiet
  <2>1. timer' = timer /\ NetState' = NetState /\ ~Fired(timer)
    BY <1>8, Zenon DEF TimerQuiet
  <2>2. packetHandler # "none"
    BY <1>6 DEF ProtocolInv, WaitInv
  <2>3. timer.age <= timer.delta
    <3>1. timer.age \in Nat /\ timer.delta \in Nat
      BY <1>1, Ages
    <3> QED BY <1>6, <2>1, <2>2, <3>1 DEF Fired, TimerInv
  <2>4. TimerInv'
    BY <1>2, <1>6, <2>1, <2>3, Zenon DEF TimerInv
  <2>5. ProtocolInv => ProtocolInv'
    BY <1>2, <2>1, SameWaits, Zenon DEF ProtocolInv
  <2>6. WaitInv => WaitInv'
    BY <1>2, <2>1, SameWaits, Zenon DEF WaitInv
  <2> QED BY <1>2, <1>3, <1>6, <2>1, <2>4, <2>5, <2>6, GoingOn, Zenon
<1> QED BY <1>7, <1>8

LEMMA ContinueFrames ==
  ASSUME NetInv, SwitchContinue
  PROVE  FrameKept
<1>1. TypeOK /\ FrameInv /\ SourceIsSender
  BY Zenon DEF NetInv
<1>2. /\ cfg' = cfg /\ loop = "switch" /\ loop' = "rx" /\ arp' = arp
      /\ NetOurEther' = NetOurEther /\ protocol' = protocol /\ sent' = sent
      /\ NetServerEther' = NetServerEther /\ packetHandler' = packetHandler
      /\ inbox' = inbox /\ eth_current' = eth_current /\ timer' = timer
      /\ NetState' = NetState /\ NetState = "CONTINUE"
  BY Zenon DEF SwitchContinue, netVars, worldVars, ethVars, ghostVars
<1>3. InLoop /\ InLoop' /\ loop # "timer"
  BY <1>2 DEF InLoop
<1>4. ASSUME ~OnTime PROVE FrameKept
  BY <1>2, <1>4, SameWaits, Zenon DEF FrameKept, FrameInv, SourceIsSender
<1>5. SUFFICES ASSUME OnTime PROVE FrameInv'
  BY <1>1, <1>2, <1>4, SameFrame, Zenon DEF FrameKept
<1>6. /\ arp.wait => arp.src = NetOurEther
      /\ NetState \in {"CONTINUE", "SUCCESS"}
      /\ TimerInv /\ (ProtocolInv \/ WaitInv)
  BY <1>1, <1>2, <1>3, <1>5, Going, Zenon
<1>7. TimerInv'
  BY <1>2, <1>6, Zenon DEF TimerInv
<1>8. ProtocolInv => ProtocolInv'
  BY <1>2, SameWaits, Zenon DEF ProtocolInv
<1>9. WaitInv => WaitInv'
  BY <1>2, <1>3, SameWaits, Zenon DEF WaitInv
<1> QED BY <1>2, <1>3, <1>6, <1>7, <1>8, <1>9, GoingOn, Zenon

LEMMA TickFrames ==
  ASSUME NetInv, Tick
  PROVE  FrameKept
<1>1. /\ TypeOK /\ TimeTypeOK /\ FrameInv /\ SourceIsSender
      /\ timer \in Timers /\ arp \in Slots
  BY Zenon DEF NetInv, TypeOK, TimeTypeOK
<1>2. /\ cfg' = cfg /\ loop = "rx" /\ loop' = "rx" /\ polled
      /\ polled' = FALSE /\ inbox = {}
      /\ NetOurEther' = NetOurEther /\ protocol' = protocol /\ sent' = sent
      /\ NetServerEther' = NetServerEther /\ packetHandler' = packetHandler
      /\ inbox' = inbox /\ eth_current' = eth_current /\ NetState' = NetState
  BY Zenon DEF Tick, netVars, worldVars, ethVars, ghostVars
<1>3. InLoop /\ InLoop' /\ loop # "timer" /\ loop # "switch" /\ loop' # "switch"
  BY <1>2 DEF InLoop
<1>4. ASSUME ~OnTime PROVE FrameKept
  BY <1>2, <1>4, SameWaits, Zenon DEF FrameKept, FrameInv, SourceIsSender
<1>5. SUFFICES ASSUME OnTime PROVE FrameInv'
  BY <1>1, <1>2, <1>4, SameFrame, Zenon DEF FrameKept
<1>6. /\ arp.wait => arp.src = NetOurEther
      /\ NetState \in {"CONTINUE", "SUCCESS"}
      /\ TimerInv /\ (ProtocolInv \/ WaitInv)
  BY <1>1, <1>3, <1>5, Going, Zenon
<1> DEFINE T == Ticks(TFTP_TIMEOUT)
           S == Ticks(Ten)
<1>7. /\ T \in Nat /\ S \in Nat /\ CFG_HZ \in Nat /\ Word \in Nat \ {0}
      /\ T > 0 /\ S > 0 /\ CFG_HZ > 0 /\ T + CFG_HZ + S < Word
  BY <1>1, <1>5, Waits
<1>8. /\ timer.age \in Nat /\ timer.delta \in Nat /\ arp.age \in Nat
      /\ arp.wait \in BOOLEAN
  BY <1>1, Ages
<1>9. timer.delta = T \/ timer.delta = S
  BY <1>6, Zenon DEF ProtocolInv, WaitInv
<1>10. timer.age <= timer.delta
  BY <1>2, <1>6, Zenon DEF TimerInv
<1>11. packetHandler # "none"
  BY <1>6 DEF ProtocolInv, WaitInv
<1> HIDE DEF T, S
<1>12. timer.age + 1 \in Nat /\ arp.age + 1 \in Nat /\ timer.age + 1 < Word
  BY <1>7, <1>8, <1>9, <1>10
<1>13. timer' = Later(timer, 1)
  BY <1>2, <1>6, <1>11, Zenon DEF Tick, TimerInv
<1>14. (timer.age + 1) % Word = timer.age + 1
  BY <1>7, <1>12, ModRange, Zenon
<1>15. 1 \in Nat
  OBVIOUS
<1>16. /\ timer'.handler = timer.handler /\ timer'.delta = timer.delta
       /\ timer'.age = timer.age + 1
  BY <1>1, <1>13, <1>14, <1>15, TimerLater, Zenon
<1>17. /\ arp'.wait = arp.wait /\ arp'.src = arp.src /\ arp'.try = arp.try
       /\ arp.wait => arp'.age = (arp.age + 1) % Word
  BY <1>1, <1>15, SlotLater, Zenon DEF Tick
<1>18. (arp.age + 1) % Word \in Nat /\ (arp.age + 1) % Word <= arp.age + 1
  BY <1>7, <1>12, ModLess, Zenon
<1>19. \A n \in Nat : arp.wait /\ arp.age <= n + timer.age
                        => arp'.age <= n + timer'.age
  BY <1>8, <1>16, <1>17, <1>18
<1>20. arp.wait /\ arp.age <= timer.age => arp'.age <= timer'.age
  BY <1>8, <1>16, <1>17, <1>18
<1>21. TimerInv'
  <2>1. timer'.age <= timer'.delta + 1
    BY <1>8, <1>10, <1>16
  <2> QED BY <1>2, <1>3, <1>6, <1>16, <2>1, Zenon DEF TimerInv
<1>22. ProtocolInv => ProtocolInv'
  BY <1>2, <1>16, <1>17, <1>20, SameWaits, Zenon DEF ProtocolInv
<1>23. WaitInv => WaitInv'
  <2>1. T + 1 + CFG_HZ \in Nat
    BY <1>7
  <2> QED BY <1>2, <1>3, <1>16, <1>17, <1>19, <2>1, SameWaits, Zenon
          DEF WaitInv, T
<1> QED BY <1>2, <1>3, <1>6, <1>17, <1>21, <1>22, <1>23, GoingOn, Zenon

(* Where nothing that the frames depend on changes. *)
LEMMA StillFrames ==
  ASSUME NetInv, World \/ UNCHANGED vars
  PROVE  FrameKept
<1>1. /\ loop' = loop /\ protocol' = protocol /\ NetState' = NetState
      /\ NetOurEther' = NetOurEther /\ NetServerEther' = NetServerEther
      /\ packetHandler' = packetHandler /\ timer' = timer /\ arp' = arp
      /\ inbox' = inbox /\ polled' = polled /\ cfg' = cfg /\ sent' = sent
      /\ eth_current' = eth_current
  BY Zenon DEF World, LinkChange, ServerChange, Stabilise, vars, netVars,
       worldVars, ethVars, ghostVars
<1>2. FrameInv /\ SourceIsSender
  BY Zenon DEF NetInv
<1>3. SourceIsSender'
  BY <1>1, <1>2, SameFrame
<1>4. TimerInv => TimerInv'
  BY <1>1, Zenon DEF TimerInv
<1>5. ProtocolInv => ProtocolInv'
  BY <1>1, SameWaits, Zenon DEF ProtocolInv
<1>6. WaitInv => WaitInv'
  BY <1>1, SameWaits, Zenon DEF WaitInv, Fired
<1>7. FrameInv'
  BY <1>1, <1>2, <1>4, <1>5, <1>6, SameWaits, Zenon DEF FrameInv, InLoop
<1> QED BY <1>3, <1>7 DEF FrameKept

LEMMA NextFrames ==
  ASSUME NetInv, [Next]_vars
  PROVE  FrameInv' /\ SourceIsSender'
<1>1. FrameInv /\ SourceIsSender /\ cfg' = cfg
  BY CfgStays, Zenon DEF NetInv
<1>2. ASSUME loop' \in {"idle", "restart", "bootm"}, sent' = sent,
             loop' = "restart" => NetState' = "CONTINUE"
      PROVE  FrameKept
  <2>1. ~InLoop'
    BY <1>2 DEF InLoop
  <2> QED BY <1>1, <1>2, <2>1, OutOfLoop, SameFrame, Zenon DEF FrameKept
<1>3. ASSUME NEW p \in Protocols, NetLoop(p) PROVE FrameKept
  <2>1. loop' = "restart" /\ NetState' = "CONTINUE" /\ sent' = NotSent
    BY <1>3, Zenon DEF NetLoop
  <2>2. ~InLoop' /\ sent'.kind # "udp"
    BY <2>1 DEF InLoop, NotSent
  <2> QED BY <2>1, <2>2, OutOfLoop, Zenon DEF FrameKept, SourceIsSender
<1>4. CASE Abort \/ RestartNoIP \/ SwitchSuccess \/ SwitchFail
  <2>1. loop' = "idle" /\ sent' = sent
    BY <1>4, Zenon DEF Abort, RestartNoIP, SwitchSuccess, SwitchFail
  <2>2. loop' \in {"idle", "restart", "bootm"} /\ loop' # "restart"
    BY <2>1
  <2> QED BY <1>2, <2>1, <2>2, Zenon DEF FrameKept
<1>5. CASE SwitchRestart \/ TftpTimeoutBoot
  <2>1. /\ sent' = sent
        /\ \/ loop' = "restart" /\ NetState' = "CONTINUE"
           \/ loop' = "bootm"
    BY <1>5, Zenon DEF SwitchRestart, TftpTimeoutBoot, ghostVars
  <2>2. /\ loop' \in {"idle", "restart", "bootm"}
        /\ loop' = "restart" => NetState' = "CONTINUE"
    BY <2>1
  <2> QED BY <1>2, <2>1, <2>2, Zenon DEF FrameKept
<1>6. CASE RestartNoAddr
  <2>1. ~OnTime /\ sent' = sent
    BY <1>6 DEF RestartNoAddr, OnTime
  <2>2. ~OnTime'
    BY <1>1, <2>1, SameWaits, Zenon
  <2> QED BY <2>2, Zenon DEF FrameKept, FrameInv, SourceIsSender
<1> QED BY <1>3, <1>4, <1>5, <1>6, RestartFrames, ReceiveFrames, ArpFrames,
           GiveUpFrames, ResendFrames, TimerFrames, ContinueFrames,
           TickFrames, StillFrames, Zenon DEF Next, Step, FrameKept
-----------------------------------------------------------------------------
LEMMA InitInv == Init => NetInv
<1> SUFFICES ASSUME Init PROVE NetInv
  OBVIOUS
<1>1. cfg \in Configs /\ 0 \in Devices /\ TIMEOUT_COUNT \in Nat
  BY MacsAssumption, TimeAssumption DEF Init, Devices
<1>2. EthTypeOK /\ OneActive
  BY <1>1 DEF Init, EthInit, EthTypeOK, OneActive
<1>3. FlagTypeOK
  BY Zenon DEF Init, FlagTypeOK
<1>4. PlaceTypeOK
  BY DEF Init, PlaceTypeOK, Handlers
<1>5. Word \in Nat \ {0} /\ ARP_TIMEOUT_COUNT \in Nat \ {0}
  BY <1>1, ConfigAssumption DEF Word, ARP_TIMEOUT_COUNT
<1>6. timer \in Timers
  BY <1>5 DEF Init, NoTimer, Timers, Handlers
<1>7. 0 \in 0..(Word - 1) /\ 0 \in 0..ARP_TIMEOUT_COUNT
  BY <1>5
<1>8. arp \in Slots
  BY <1>1, <1>7, Zenon DEF Init, NoArp, Slots
<1>9. sent \in Frames /\ sent.kind # "udp"
  BY <1>1 DEF Init, NotSent, Frames
<1>10. TimeTypeOK
  BY <1>1, <1>6, <1>8, <1>9 DEF Init, TimeTypeOK
<1>11. CountInv /\ FrameInv
  BY <1>1 DEF Init, CountInv, NoTimer, FrameInv, InLoop
<1> QED BY <1>2, <1>3, <1>4, <1>9, <1>10, <1>11, Zenon
        DEF NetInv, TypeOK, SourceIsSender

LEMMA NextInv == NetInv /\ [Next]_vars => NetInv'
<1> SUFFICES ASSUME NetInv, [Next]_vars PROVE NetInv'
  OBVIOUS
<1>1. /\ TypeOK /\ CountInv /\ OneActive /\ EthTypeOK
      /\ NetRestarted \in BOOLEAN
  BY Zenon DEF NetInv, TypeOK, FlagTypeOK
<1>2. EthTypeOK' /\ OneActive'
  BY <1>1, NextEth, EthStepKeeps, Zenon
<1>3. FlagTypeOK' /\ PlaceTypeOK' /\ TimeTypeOK'
  BY <1>1, FlagTypes, Types, Zenon
<1>4. CountInv'
  BY <1>1, Counts, Zenon
<1>5. FrameInv' /\ SourceIsSender'
  BY NextFrames, Zenon
<1> QED BY <1>2, <1>3, <1>4, <1>5, Zenon DEF NetInv, TypeOK

(* Types, timeout counts, devices and frames keep NetInv, the inductive    *)
(* invariant of NetLoop and of the devices below it, in every interleaving *)
(* of the loop with cables, servers and the clock.                         *)
THEOREM Invariance == Spec => []NetInv
<1>1. Init => NetInv
  BY InitInv
<1>2. NetInv /\ [Next]_vars => NetInv'
  BY NextInv
<1> QED BY <1>1, <1>2, PTL DEF Spec

(* Only the current device ever has its receiver on, however eth_init and  *)
(* eth_try_another rotate over the ring and whichever of them come up.     *)
THEOREM OneIsActive == Spec => []OneActive
<1>1. NetInv => OneActive
  BY Zenon DEF NetInv
<1> QED BY <1>1, Invariance, PTL

(* A TFTP or ping frame leaves the device whose address it carries, on any *)
(* clock and with any setting for which OnTime holds, though it may have   *)
(* waited for an ARP reply across NetStartAgain.                           *)
THEOREM FramesCarryTheirSender == Spec => []SourceIsSender
<1>1. NetInv => SourceIsSender
  BY Zenon DEF NetInv
<1> QED BY <1>1, Invariance, PTL
=============================================================================
