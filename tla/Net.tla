-------------------------------- MODULE Net ---------------------------------
(***************************************************************************)
(* NetLoop with the parts that Tftp leaves open: the ARP exchange in front *)
(* of the first frame and its retries, the two timers, the rotation over   *)
(* the Ethernet devices, and the ping command (net/net.c, net/eth.c).      *)
(*                                                                         *)
(* Of TFTP only the request and its retransmission matter here: the answer *)
(* to a request is taken for the whole file.  An answer is a frame of the  *)
(* server, which sits behind the device cfg.home.                          *)
(*                                                                         *)
(* Time is counted in ticks, CFG_HZ of them to the second.  get_timer      *)
(* counts modulo Word (2^32), and so are timeouts computed: a timer is its *)
(* age since it was set, modulo Word.                                      *)
(***************************************************************************)
EXTENDS Eth

CONSTANTS
  CFG_HZ,             \* ticks per second
  TIMEOUT_COUNT,      \* TFTP timeouts before giving up
  Protocols,          \* commands to consider: "TFTP", "PING"
  Configs             \* choices of cfg

ASSUME TimeAssumption ==
  /\ CFG_HZ \in Nat \ {0}
  /\ TIMEOUT_COUNT \in Nat

ASSUME ConfigAssumption ==
  /\ Protocols \subseteq {"TFTP", "PING"}
  /\ Configs \subseteq [word : Nat \ {0}, tries : Nat \ {0},
                        netretry : {"yes", "no", "once"}, recovery : BOOLEAN,
                        home : Devices, noaddr : SUBSET Devices,
                        ip : BOOLEAN]

VARIABLES
  loop,            \* where NetLoop is; "idle" outside, "bootm" for good
  protocol,        \* "TFTP" or "PING"
  NetState,
  NetRestarted, NetDevExists,
  NetOurEther,     \* the device whose address it is
  NetServerEther,  \* is the server's address known
  packetHandler,
  timer,           \* timeHandler, timeDelta and the time since timeStart
  arp,             \* the one waiting frame: NetArpWaitPacketIP # 0, the
                   \*   source it carries, NetArpWaitTry and the time since
                   \*   NetArpWaitTimerStart
  TftpTimeoutCount,
  inbox,           \* frames the current device has for us
  polled,          \* the loop has gone round since the last tick
  cfg,             \* values of an unsigned long, CONFIG_NET_RETRY_COUNT, the
                   \*   variable netretry, firmware recovery, the device the
                   \*   server is behind, devices without an address, and are
                   \*   the IP addresses given
  serverUp, stable,     \* the world outside
  result, sent     \* what the properties look at

netVars == <<NetState, NetRestarted, NetDevExists, NetOurEther,
             NetServerEther, packetHandler, TftpTimeoutCount>>
worldVars == <<cfg, link, serverUp, stable>>
ghostVars == <<result, sent>>
vars == <<loop, protocol, netVars, timer, arp, inbox, polled, ethVars,
          worldVars, ghostVars>>

Word == cfg.word
ARP_TIMEOUT_COUNT == cfg.tries

ARP_TIMEOUT == 5
TFTP_TIMEOUT == 2
Ten == 10

(* NetSetTimeout.  The product of seconds and CFG_HZ is a 32-bit one, and  *)
(* a timeout of zero switches the timer off.                               *)
NetSetTimeout(secs, h) ==
  LET iv == (secs * CFG_HZ) % Word
  IN  [handler |-> IF iv = 0 THEN "none" ELSE h, delta |-> iv, age |-> 0]

NoTimer == [handler |-> "none", delta |-> 0, age |-> 0]
Disarmed == [timer EXCEPT !.handler = "none"]
Fired(t) == t.handler # "none" /\ t.age > t.delta

NotSent == [kind |-> "none", dev |-> 0, src |-> 0]
NoArp == [wait |-> FALSE, src |-> 0, try |-> 0, age |-> 0]

Init ==
  /\ EthInit
  /\ loop = "idle"
  /\ protocol = "TFTP"
  /\ NetState = "CONTINUE"
  /\ NetRestarted = FALSE /\ NetDevExists = FALSE
  /\ NetOurEther = 0 /\ NetServerEther = FALSE
  /\ packetHandler = "none"
  /\ timer = NoTimer /\ arp = NoArp
  /\ TftpTimeoutCount = 0
  /\ inbox = {} /\ polled = FALSE
  /\ cfg \in Configs /\ serverUp = FALSE /\ stable = FALSE
  /\ result = "none"
  /\ sent = NotSent
-----------------------------------------------------------------------------
(* A frame leaves through the current device with source address src; what *)
(* it asks for is put into box when the server hears it and the answer     *)
(* gets through.  Nothing is lost once the world is stable.                *)
Transmit(kind, ask, src, box) ==
  LET heard == /\ state[eth_current] = "ACTIVE" /\ link[eth_current]
               /\ eth_current = cfg.home /\ serverUp
  IN  /\ sent' = [kind |-> kind, dev |-> eth_current, src |-> src]
      /\ \/ heard /\ inbox' = box \union {ask}
         \/ ~(heard /\ stable) /\ inbox' = box

(* NetSendUDPPacket to a server whose address is not known, and PingSend:  *)
(* the frame is put in the waiting slot, over what it held.                *)
SendArp(src, box) ==
  /\ arp' = [wait |-> TRUE, src |-> src, try |-> 1, age |-> 0]
  /\ Transmit("arp", "arp", src, box)

(* TftpSend, for a server address that is known or not. *)
TftpSend(known, src, box) ==
  \/ ~known /\ SendArp(src, box)
  \/ known /\ Transmit("udp", "answer", src, box) /\ UNCHANGED arp
-----------------------------------------------------------------------------
(* Bringing up a device takes a second, which the timers see. *)
Later(t, n) == [t EXCEPT !.age = (@ + n) % Word]
Busy(t) == IF InitSucceeds(Another) THEN Later(t, CFG_HZ) ELSE t

(* NetStartAgain, called with the timer as tm and the ARP slot as slot. *)
NetStartAgain(tm, slot) ==
  \/ /\ cfg.recovery
     /\ timer' = tm
     /\ arp' = slot
     /\ UNCHANGED <<ethVars, NetState, packetHandler, inbox>>
  \/ /\ ~cfg.recovery
     /\ cfg.netretry = "no"
     /\ eth_halt
     /\ NetState' = "FAIL"
     /\ timer' = tm
     /\ arp' = slot
     /\ UNCHANGED <<packetHandler, inbox>>
  \/ /\ ~cfg.recovery
     /\ cfg.netretry # "no"
     /\ EthAnother(~NetRestarted)
     /\ arp' = Busy(slot)
     /\ inbox' = {}
     /\ \/ /\ ~WrapSeen(~NetRestarted)
           /\ NetState' = "RESTART"
           /\ timer' = Busy(tm)
           /\ UNCHANGED packetHandler
        \/ /\ WrapSeen(~NetRestarted)
           /\ NetDevExists /\ cfg.netretry # "once"
           /\ timer' = NetSetTimeout(Ten, "startAgain")
           /\ packetHandler' = "startAgain"
           /\ UNCHANGED NetState
        \/ /\ WrapSeen(~NetRestarted)
           /\ ~(NetDevExists /\ cfg.netretry # "once")
           /\ NetState' = "FAIL"
           /\ timer' = Busy(tm)
           /\ UNCHANGED packetHandler
-----------------------------------------------------------------------------
(* NetLoop from its head to `restart:' and the line that sets NetState.  A *)
(* slot left over from the command before is emptied; NetRestartWrap is    *)
(* not cleared, and a timer may still be armed: it was just set or it has  *)
(* run out since.                                                          *)
NetLoop(p) ==
  /\ loop = "idle"
  /\ cfg.recovery => p = "TFTP"
  /\ protocol' = p
  /\ NetState' = "CONTINUE"
  /\ \E a \in {0, Word - 1} :
       timer' = IF timer.handler = "none" THEN NoTimer
                                          ELSE [timer EXCEPT !.age = a]
  /\ NetRestarted' = FALSE /\ NetDevExists' = FALSE
  /\ arp' = NoArp
  /\ EthOpen
  /\ result' = "none" /\ inbox' = {} /\ sent' = NotSent
  /\ loop' = "restart"
  /\ UNCHANGED <<NetOurEther, NetServerEther, packetHandler,
                 TftpTimeoutCount, polled, worldVars>>

(* `restart:' with no IP address given for one of the two ends: the        *)
(* command returns -1.                                                     *)
RestartNoIP ==
  /\ loop = "restart"
  /\ ~cfg.ip
  /\ NetOurEther' = eth_current
  /\ eth_halt
  /\ loop' = "idle" /\ result' = "noip"
  /\ UNCHANGED <<protocol, NetState, NetRestarted, NetDevExists,
                 NetServerEther, packetHandler, TftpTimeoutCount, timer, arp,
                 inbox, polled, worldVars, sent>>

(* `restart:' with a device that has no address: net_check_prereq says     *)
(* "`ethaddr' not set", calls NetStartAgain and starts nothing.            *)
RestartNoAddr ==
  /\ loop = "restart"
  /\ cfg.ip
  /\ eth_current \in cfg.noaddr
  /\ NetOurEther' = eth_current
  /\ NetStartAgain(timer, arp)
  /\ loop' = "rx" /\ polled' = FALSE
  /\ UNCHANGED <<protocol, NetRestarted, NetDevExists, NetServerEther,
                 TftpTimeoutCount, worldVars, result, sent>>

(* Mutant: NetOurEther is copied once, ahead of the label. *)
OurEtherOnce == IF NetRestarted THEN NetOurEther ELSE eth_current

(* memcpy (NetOurEther, eth_get_dev()->enetaddr, 6) *)
OurEther == eth_current

RestartCommon ==
  /\ loop = "restart"
  /\ cfg.ip
  /\ eth_current \notin cfg.noaddr
  /\ NetOurEther' = OurEther
  /\ NetDevExists' = TRUE
  /\ loop' = "rx" /\ polled' = FALSE
  /\ UNCHANGED <<protocol, NetState, NetRestarted, ethVars, worldVars, result>>

(* ... TftpStart, which forgets the server's address ... *)
RestartTftp ==
  /\ protocol = "TFTP"
  /\ RestartCommon
  /\ timer' = NetSetTimeout(TFTP_TIMEOUT, "Tftp")
  /\ packetHandler' = "Tftp"
  /\ TftpTimeoutCount' = 0
  /\ NetServerEther' = FALSE
  /\ TftpSend(FALSE, OurEther, {})

(* ... or PingStart. *)
RestartPing ==
  /\ protocol = "PING"
  /\ RestartCommon
  /\ timer' = NetSetTimeout(Ten, "Ping")
  /\ packetHandler' = "Ping"
  /\ SendArp(OurEther, {})
  /\ UNCHANGED <<TftpTimeoutCount, NetServerEther>>
-----------------------------------------------------------------------------
(* eth_rx, one frame at a time.  The loop then goes on round.  An ARP      *)
(* request of another host is answered in place and leaves no trace.       *)
Receive(m) ==
  /\ loop = "rx"
  /\ m \in inbox
  /\ polled' = FALSE
  /\ UNCHANGED <<loop, protocol, NetRestarted, NetDevExists, NetOurEther,
                 ethVars, worldVars, result>>

(* The reply may come twice. *)
AfterReply == {inbox \ {"arp"}} \union (IF stable THEN {} ELSE {inbox})

(* An ARP reply for the address asked for: the address is stored where the *)
(* sender of the waiting frame keeps it, and the frame goes out.           *)
ReceiveArp ==
  /\ Receive("arp")
  /\ arp.wait
  /\ NetServerEther' = (NetServerEther \/ protocol = "TFTP")
  /\ arp' = [arp EXCEPT !.wait = FALSE]
  /\ \E box \in AfterReply : Transmit("udp", "answer", arp.src, box)
  /\ UNCHANGED <<NetState, packetHandler, TftpTimeoutCount, timer>>

ReceiveArpLate ==
  /\ Receive("arp")
  /\ ~arp.wait
  /\ inbox' = inbox \ {"arp"}
  /\ UNCHANGED <<NetState, packetHandler, NetServerEther, TftpTimeoutCount,
                 timer, arp, sent>>

(* PingHandler, TftpHandler for a file of one block, startAgainHandler. *)
ReceivePing ==
  /\ Receive("answer")
  /\ packetHandler = "Ping"
  /\ NetState' = "SUCCESS"
  /\ inbox' = inbox \ {"answer"}
  /\ UNCHANGED <<packetHandler, NetServerEther, TftpTimeoutCount, timer, arp,
                 sent>>

ReceiveTftp ==
  /\ Receive("answer")
  /\ packetHandler = "Tftp"
  /\ timer' = NetSetTimeout(TFTP_TIMEOUT, "Tftp")
  /\ TftpTimeoutCount' = 0
  /\ NetState' = "SUCCESS"
  /\ sent' = [kind |-> "udp", dev |-> eth_current, src |-> NetOurEther]
  /\ inbox' = inbox \ {"answer"}
  /\ UNCHANGED <<packetHandler, NetServerEther, arp>>

ReceiveIgnored ==
  /\ Receive("answer")
  /\ packetHandler = "startAgain"
  /\ inbox' = inbox \ {"answer"}
  /\ UNCHANGED <<NetState, packetHandler, NetServerEther, TftpTimeoutCount,
                 timer, arp, sent>>

(* "Abort": ctrl-c, looked at after eth_rx. *)
Abort ==
  /\ loop = "rx" /\ inbox = {}
  /\ eth_halt
  /\ loop' = "idle" /\ result' = "abort"
  /\ UNCHANGED <<protocol, netVars, timer, arp, inbox, polled, worldVars, sent>>
-----------------------------------------------------------------------------
(* ArpTimeoutCheck *)
ArpExpired == arp.wait /\ arp.age > (ARP_TIMEOUT * CFG_HZ) % Word

ArpCheck ==
  /\ loop = "rx" /\ inbox = {} /\ ~polled
  /\ loop' = "timer"
  /\ UNCHANGED <<protocol, NetRestarted, NetDevExists, NetOurEther,
                 NetServerEther, TftpTimeoutCount, polled, worldVars, result>>

ArpQuiet ==
  /\ ArpCheck
  /\ ~ArpExpired
  /\ UNCHANGED <<NetState, packetHandler, timer, arp, inbox, ethVars,
                 sent>>

ArpRetry ==
  /\ ArpCheck
  /\ ArpExpired
  /\ arp.try + 1 < ARP_TIMEOUT_COUNT
  /\ arp' = [arp EXCEPT !.try = @ + 1, !.age = 0]
  /\ Transmit("arp", "arp", NetOurEther, inbox)
  /\ UNCHANGED <<NetState, packetHandler, timer, ethVars>>

(* "ARP Retry count exceeded; starting again".  The slot stays taken and   *)
(* its timer is not set.                                                   *)
ArpGiveUp ==
  /\ ArpCheck
  /\ ArpExpired
  /\ arp.try + 1 >= ARP_TIMEOUT_COUNT
  /\ NetStartAgain(timer, [arp EXCEPT !.try = 0])
  /\ UNCHANGED sent
-----------------------------------------------------------------------------
(* The timer.  NetLoop disarms it and calls the handler. *)
TimerCheck ==
  /\ loop = "timer"
  /\ UNCHANGED <<protocol, NetRestarted, NetDevExists, NetOurEther,
                 NetServerEther, polled, worldVars, result>>

TimerQuiet ==
  /\ TimerCheck
  /\ ~Fired(timer)
  /\ loop' = "switch"
  /\ UNCHANGED <<NetState, packetHandler, TftpTimeoutCount, timer, arp, inbox,
                 ethVars, sent>>

(* Mutant: it starts again, as TftpTimeout does. *)
PingTimeoutAgain ==
  /\ TimerCheck
  /\ Fired(timer) /\ timer.handler = "Ping"
  /\ NetStartAgain(Disarmed, arp)
  /\ loop' = "switch"
  /\ UNCHANGED <<TftpTimeoutCount, sent>>

PingTimeout ==
  /\ TimerCheck
  /\ Fired(timer) /\ timer.handler = "Ping"
  /\ timer' = Disarmed
  /\ eth_halt
  /\ NetState' = "FAIL"
  /\ loop' = "switch"
  /\ UNCHANGED <<packetHandler, TftpTimeoutCount, arp, inbox, sent>>

(* Mutant: a timeout in front of the ARP reply does not count. *)
CountTimeoutAnswered ==
  IF NetServerEther THEN TftpTimeoutCount + 1 ELSE TftpTimeoutCount

CountTimeout == TftpTimeoutCount + 1

TftpTimeoutResend ==
  /\ TimerCheck
  /\ Fired(timer) /\ timer.handler = "Tftp"
  /\ CountTimeout <= TIMEOUT_COUNT
  /\ TftpTimeoutCount' = CountTimeout
  /\ timer' = NetSetTimeout(TFTP_TIMEOUT, "Tftp")
  /\ TftpSend(NetServerEther, NetOurEther, inbox)
  /\ loop' = "switch"
  /\ UNCHANGED <<NetState, packetHandler, ethVars>>

TftpTimeoutGiveUp ==
  /\ TimerCheck
  /\ Fired(timer) /\ timer.handler = "Tftp"
  /\ CountTimeout > TIMEOUT_COUNT
  /\ ~cfg.recovery
  /\ TftpTimeoutCount' = CountTimeout
  /\ NetStartAgain(Disarmed, arp)
  /\ loop' = "switch"
  /\ UNCHANGED sent

(* In recovery do_bootm is called first, and does not return. *)
TftpTimeoutBoot ==
  /\ TimerCheck
  /\ Fired(timer) /\ timer.handler = "Tftp"
  /\ CountTimeout > TIMEOUT_COUNT
  /\ cfg.recovery
  /\ TftpTimeoutCount' = CountTimeout
  /\ timer' = Disarmed
  /\ loop' = "bootm"
  /\ UNCHANGED <<NetState, packetHandler, arp, inbox, ethVars, sent>>

startAgainTimeout ==
  /\ TimerCheck
  /\ Fired(timer) /\ timer.handler = "startAgain"
  /\ timer' = Disarmed
  /\ NetState' = "RESTART"
  /\ loop' = "switch"
  /\ UNCHANGED <<packetHandler, TftpTimeoutCount, arp, inbox, ethVars,
                 sent>>

(* switch (NetState) *)
SwitchContinue ==
  /\ loop = "switch"
  /\ NetState = "CONTINUE"
  /\ loop' = "rx" /\ polled' = TRUE
  /\ UNCHANGED <<protocol, netVars, timer, arp, inbox, ethVars, worldVars,
                 ghostVars>>

SwitchRestart ==
  /\ loop = "switch"
  /\ NetState = "RESTART"
  /\ NetRestarted' = TRUE
  /\ NetState' = "CONTINUE"
  /\ loop' = "restart"
  /\ UNCHANGED <<protocol, NetDevExists, NetOurEther,
                 NetServerEther, packetHandler, TftpTimeoutCount, timer, arp,
                 inbox, polled, ethVars, worldVars, ghostVars>>

(* Only the success path halts the device. *)
SwitchSuccess ==
  /\ loop = "switch"
  /\ NetState = "SUCCESS"
  /\ eth_halt
  /\ loop' = "idle" /\ result' = "success"
  /\ UNCHANGED <<protocol, netVars, timer, arp, inbox, polled, worldVars, sent>>

SwitchFail ==
  /\ loop = "switch"
  /\ NetState = "FAIL"
  /\ loop' = "idle" /\ result' = "fail"
  /\ UNCHANGED <<protocol, netVars, timer, arp, inbox, polled, ethVars,
                 worldVars, sent>>

(* A tick passes between two rounds of the loop, which takes far less.     *)
(* The start of a timer that nobody looks at need not be kept.             *)
Tick ==
  /\ loop = "rx" /\ inbox = {} /\ polled
  /\ polled' = FALSE
  /\ timer' = IF timer.handler = "none" THEN timer ELSE Later(timer, 1)
  /\ arp' = IF arp.wait THEN Later(arp, 1) ELSE arp
  /\ UNCHANGED <<loop, protocol, netVars, inbox, ethVars, worldVars,
                 ghostVars>>
-----------------------------------------------------------------------------
(* Cables are plugged and unplugged and the server comes and goes, until   *)
(* perhaps it is there for good.  Between two rounds of the loop will do:  *)
(* within one nothing else can tell when it happened.                      *)
Between == ~stable /\ loop \in {"idle", "rx"}

LinkChange(d) ==
  /\ Between
  /\ link' = [link EXCEPT ![d] = ~@]
  /\ UNCHANGED <<loop, protocol, netVars, timer, arp, inbox, polled, ethVars,
                 cfg, serverUp, stable, ghostVars>>

ServerChange ==
  /\ Between
  /\ serverUp' = ~serverUp
  /\ UNCHANGED <<loop, protocol, netVars, timer, arp, inbox, polled, ethVars,
                 cfg, link, stable, ghostVars>>

Stabilise ==
  /\ Between
  /\ link[cfg.home] /\ serverUp
  /\ stable' = TRUE
  /\ UNCHANGED <<loop, protocol, netVars, timer, arp, inbox, polled, ethVars,
                 cfg, link, serverUp, ghostVars>>

World == (\E d \in Devices : LinkChange(d)) \/ ServerChange \/ Stabilise

(* What the processor does on its own once a command runs. *)
Step == \/ RestartNoIP \/ RestartNoAddr \/ RestartTftp \/ RestartPing
        \/ ReceiveArp \/ ReceiveArpLate
        \/ ReceivePing \/ ReceiveTftp \/ ReceiveIgnored
        \/ ArpQuiet \/ ArpRetry \/ ArpGiveUp
        \/ TimerQuiet \/ PingTimeout \/ TftpTimeoutResend
        \/ TftpTimeoutGiveUp \/ TftpTimeoutBoot \/ startAgainTimeout
        \/ SwitchContinue \/ SwitchRestart \/ SwitchSuccess \/ SwitchFail
        \/ Tick

Next == \/ (\E p \in Protocols : NetLoop(p))
        \/ Abort \/ Step \/ World

Spec == Init /\ [][Next]_vars

(* The processor never stops, and time passes. *)
FairSpec == Spec /\ WF_vars(Step)
-----------------------------------------------------------------------------
Handlers == {"none", "Tftp", "Ping", "startAgain"}

EthTypeOK ==
  /\ eth_current \in Devices
  /\ first_failed \in Devices \union {NoDevice}
  /\ NetRestartWrap \in BOOLEAN
  /\ state \in [Devices -> {"INIT", "PASSIVE", "ACTIVE"}]
  /\ link \in [Devices -> BOOLEAN]

FlagTypeOK ==
  /\ NetRestarted \in BOOLEAN /\ NetDevExists \in BOOLEAN
  /\ NetServerEther \in BOOLEAN /\ polled \in BOOLEAN
  /\ serverUp \in BOOLEAN /\ stable \in BOOLEAN

PlaceTypeOK ==
  /\ loop \in {"idle", "restart", "rx", "timer", "switch", "bootm"}
  /\ protocol \in {"TFTP", "PING"}
  /\ NetState \in {"CONTINUE", "RESTART", "SUCCESS", "FAIL"}
  /\ packetHandler \in Handlers
  /\ inbox \subseteq {"arp", "answer"}
  /\ result \in {"none", "success", "fail", "abort", "noip"}

Timers == [handler : Handlers, delta : 0..(Word - 1), age : 0..(Word - 1)]
Slots == [wait : BOOLEAN, src : Devices, try : 0..ARP_TIMEOUT_COUNT,
          age : 0..(Word - 1)]
Frames == [kind : {"none", "arp", "udp"}, dev : Devices, src : Devices]

TimeTypeOK ==
  /\ cfg \in Configs
  /\ timer \in Timers /\ arp \in Slots
  /\ TftpTimeoutCount \in 0..(TIMEOUT_COUNT + 1)
  /\ NetOurEther \in Devices
  /\ sent \in Frames

TypeOK == EthTypeOK /\ FlagTypeOK /\ PlaceTypeOK /\ TimeTypeOK

Ticks(secs) == (secs * CFG_HZ) % Word

(* On this board ten seconds overflow, to so little that TFTP giving up,   *)
(* another device brought up and ten seconds waited take less than the     *)
(* five seconds that ARP waits.                                            *)
ShortWait ==
  /\ Ticks(Ten) > 0 /\ Ticks(TFTP_TIMEOUT) > 0
  /\ Ticks(TFTP_TIMEOUT) + CFG_HZ + Ticks(Ten) < Ticks(ARP_TIMEOUT)

(* With fewer tries ARP gives up, and has the command start again, before  *)
(* a timer of ten seconds runs out.                                        *)
EnoughTries == ARP_TIMEOUT_COUNT > 2

(* The devices share the receive buffers, so that only the current one may *)
(* have its receiver on.                                                   *)
OneActive == \A d \in Devices : d # eth_current => state[d] # "ACTIVE"

(* A TFTP or ping frame leaves the device whose address it carries, though *)
(* it may have waited for the answer to an ARP request while NetStartAgain *)
(* moved on to another device: by the time ARP asks again for it, another  *)
(* frame takes its place.  That rests on the board's clock, which cuts the *)
(* ten seconds before a restart short, on more than two tries of ARP, and  *)
(* on all devices having an address: without one a timer of an earlier     *)
(* command is not replaced.                                                *)
OnTime == ShortWait /\ EnoughTries /\ cfg.noaddr = {}

SourceIsSender == OnTime /\ sent.kind = "udp" => sent.src = sent.dev

(* A ping always ends, on devices that have an address. *)
PingEnds ==
  /\ protocol = "PING" /\ loop # "idle"
  /\ cfg.noaddr = {} /\ EnoughTries
  ~> loop = "idle"

(* In recovery the transfer ends or the firmware in flash is started, even *)
(* when nobody ever answers the ARP request.  The device has an address:   *)
(* net_check_prereq leaves NetLoop without a timer when it has none.       *)
RecoveryEnds == cfg.recovery /\ cfg.noaddr = {} /\ loop # "idle"
                  ~> loop \in {"idle", "bootm"}

(* With netretry unset a transfer finds a server that is there for good,   *)
(* on whatever device, unless the operator interrupts it.                  *)
ServerFound ==
  /\ ~cfg.recovery /\ cfg.netretry = "yes"
  /\ cfg.noaddr = {} /\ cfg.ip /\ EnoughTries
  /\ stable /\ protocol = "TFTP" /\ loop # "idle"
  ~> loop = "idle" /\ result \in {"success", "abort"}
-----------------------------------------------------------------------------
(* What SourceIsSender rests on.  Between two restarts the timer is that   *)
(* of the handler of packets.  A frame that waits has the address that is  *)
(* in NetOurEther.                                                         *)
InLoop == loop \in {"rx", "timer", "switch"}

TimerInv ==
  /\ timer.handler = packetHandler
  /\ timer.age <= timer.delta + 1
  /\ loop = "switch" \/ (loop = "rx" /\ polled) => timer.age <= timer.delta

(* That address is the current device's, and ARP will not ask again before *)
(* the timer runs out, ...                                                 *)
ProtocolInv ==
  /\ NetOurEther = eth_current
  /\ \/ /\ packetHandler = "Tftp" /\ protocol = "TFTP"
        /\ timer.delta = Ticks(TFTP_TIMEOUT)
        /\ arp.wait <=> ~NetServerEther
     \/ /\ packetHandler = "Ping" /\ protocol = "PING"
        /\ timer.delta = Ticks(Ten)
  /\ arp.wait => arp.age <= timer.age /\ arp.try = 1 /\ "answer" \notin inbox

(* ... but for the ten seconds that NetStartAgain has the command wait.    *)
(* Then no frame comes in, unless ARP asks when they are just over.        *)
WaitInv ==
  /\ packetHandler = "startAgain"
  /\ timer.delta = Ticks(Ten)
  /\ \/ loop = "timer" /\ Fired(timer)
     \/ /\ inbox = {}
        /\ arp.wait => /\ arp.age <= Ticks(TFTP_TIMEOUT) + 1 + CFG_HZ + timer.age
                       /\ arp.try = 1

FrameInv ==
  OnTime =>
    /\ loop = "restart" => NetState = "CONTINUE"
    /\ InLoop => /\ arp.wait => arp.src = NetOurEther
                 /\ NetState \in {"RESTART", "FAIL"} => loop = "switch"
                 /\ NetState \in {"CONTINUE", "SUCCESS"}
                      => TimerInv /\ (ProtocolInv \/ WaitInv)

(* TftpTimeout counts no further once it has given up. *)
CountInv == timer.handler = "Tftp" => TftpTimeoutCount <= TIMEOUT_COUNT

NetInv == TypeOK /\ CountInv /\ OneActive /\ FrameInv /\ SourceIsSender
=============================================================================
