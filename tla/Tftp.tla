-------------------------------- MODULE Tftp --------------------------------
(***************************************************************************)
(* The TFTP client of the boot loader (net/tftp.c) inside the NetLoop that *)
(* drives it (net/net.c).                                                  *)
(*                                                                         *)
(* Every operator below is one path through one C function.  A path that   *)
(* calls TftpSend hands the wire the frame TftpFrame', the one the new     *)
(* client state determines; the modules that compose the client with a    *)
(* server and a wire (TftpNet, TftpLan) say what becomes of it.            *)
(*                                                                         *)
(* Data abstraction: a DATA frame carries the number of the file block it  *)
(* holds, RAM at load_addr is an array of 512 byte slots, and the length   *)
(* of a frame is counted in units of which a full block has BlockSize.     *)
(***************************************************************************)
EXTENDS Integers

CONSTANTS
  FileBlocks,    \* DATA frames the file takes; the last one is short
  LastLen,       \* payload of that last frame, less than a full block
  BlockSize,     \* TFTP_BLOCK_SIZE
  SeqSize,       \* TFTP_SEQUENCE_SIZE: block numbers are counted modulo this
  TIMEOUT_COUNT, \* timeouts before giving up
  Tids,          \* UDP ports a server may answer from
  Ports,         \* values of 1024 + get_timer(0) % 3072
  Modes,         \* values of fw_recovery (non-zero or not) to consider
  Retries        \* values of the environment variable netretry to consider

WELL_KNOWN_PORT == 69
NoPort == 0

ASSUME FileAssumption ==
  /\ FileBlocks \in Nat \ {0}
  /\ BlockSize \in Nat \ {0}
  /\ LastLen \in 0..(BlockSize - 1)
  /\ SeqSize \in Nat /\ SeqSize > 1
  /\ TIMEOUT_COUNT \in Nat

ASSUME PortAssumption ==
  /\ Tids \subseteq Nat /\ WELL_KNOWN_PORT \notin Tids /\ NoPort \notin Tids
  /\ Ports \subseteq Nat /\ NoPort \notin Ports
  /\ Modes \subseteq BOOLEAN
  /\ Retries \subseteq {"yes", "no", "once"}

VARIABLES
  TftpState,           \* "RRQ", "OACK" or "DATA"
  TftpServerPort,      \* the UDP port at their end
  TftpOurPort,         \* the UDP port at our end
  TftpTimeoutCount,
  TftpBlock,           \* sequence number of the last DATA frame, stored or not
  TftpLastBlock,       \* sequence number of the last block received
  TftpBlockWrap,       \* sequence number wrap-arounds; the offset goes with it
  NetState,            \* "CONTINUE", "RESTART", "SUCCESS" or "FAIL"
  packetHandler,       \* "Tftp", "startAgain" or "none"
  timeHandler,         \* "Tftp", "startAgain" or "none"
  NetBootFileXferSize,
  filesize,            \* the environment variable filesize, 0 when unset
  mem,                 \* the file block in each slot of RAM, 0 for none
  loop,                \* where NetLoop is
  fw_recovery,         \* set by main_loop before the transfer
  netretry,            \* environment variable, not changed by a transfer
  ports                \* the ports TftpStart has used so far

clientVars == <<TftpState, TftpServerPort, TftpOurPort, TftpTimeoutCount,
                TftpBlock, TftpLastBlock, TftpBlockWrap, NetState,
                packetHandler, timeHandler, NetBootFileXferSize, filesize,
                mem, loop, fw_recovery, netretry, ports>>

Slots == 1..FileBlocks

Len512(n) == IF n = FileBlocks THEN LastLen ELSE BlockSize

FileSize == (FileBlocks - 1) * BlockSize + LastLen

(* Blocks before n, or all of them, are in place. *)
StoredBelow(n) == \A j \in Slots : j < n => mem[j] = j
WholeFile == \A s \in Slots : mem[s] = s

DataFrame(t, p, n) ==
  [op |-> "DATA", tid |-> t, port |-> p, block |-> n % SeqSize, data |-> n]
OackFrame(t, p) == [op |-> "OACK", tid |-> t, port |-> p]
ErrorFrame(t, p) == [op |-> "ERROR", tid |-> t, port |-> p]
RrqFrame(p) == [op |-> "RRQ", port |-> p]
AckFrame(t, p, b) == [op |-> "ACK", tid |-> t, port |-> p, block |-> b]

ToClient == {DataFrame(t, p, n) : t \in Tids, p \in Ports, n \in Slots}
            \union {OackFrame(t, p) : t \in Tids, p \in Ports}
            \union {ErrorFrame(t, p) : t \in Tids, p \in Ports}
ToServer == {RrqFrame(p) : p \in Ports}
            \union {AckFrame(t, p, b) : t \in Tids, p \in Ports,
                                        b \in 0..(SeqSize - 1)}
-----------------------------------------------------------------------------
(* The static variables are zero and no command has run. *)
TftpInit ==
  /\ TftpState = "RRQ"
  /\ TftpServerPort = NoPort
  /\ TftpOurPort = NoPort
  /\ TftpTimeoutCount = 0
  /\ TftpBlock = 0
  /\ TftpLastBlock = 0
  /\ TftpBlockWrap = 0
  /\ NetState = "CONTINUE"
  /\ packetHandler = "none"
  /\ timeHandler = "none"
  /\ NetBootFileXferSize = 0
  /\ filesize = 0
  /\ mem = [s \in Slots |-> 0]
  /\ loop = "idle"
  /\ fw_recovery \in Modes
  /\ netretry \in Retries
  /\ ports = {}

(* What TftpSend puts on the wire in the current state. *)
TftpFrame ==
  IF TftpState = "RRQ" THEN RrqFrame(TftpOurPort)
                       ELSE AckFrame(TftpServerPort, TftpOurPort, TftpBlock)

(* NetLoop up to `restart:' and from there into the packet loop.  The port *)
(* is pseudo-random; the model takes one no earlier start has used.        *)
TftpStart ==
  /\ timeHandler' = "Tftp"
  /\ packetHandler' = "Tftp"
  /\ TftpServerPort' = WELL_KNOWN_PORT
  /\ TftpTimeoutCount' = 0
  /\ TftpState' = "RRQ"
  /\ TftpOurPort' \in Ports \ ports
  /\ ports' = ports \union {TftpOurPort'}
  /\ TftpBlock' = 0
  /\ NetBootFileXferSize' = 0
  /\ NetState' = "CONTINUE"
  /\ loop' = "rx"
  /\ UNCHANGED <<TftpLastBlock, TftpBlockWrap, filesize, mem, fw_recovery,
                 netretry>>

NetLoopEnter == loop = "idle" /\ TftpStart

NetLoopRestart ==
  /\ loop \in {"rx", "switch"}
  /\ NetState = "RESTART"
  /\ TftpStart
-----------------------------------------------------------------------------
(* NetStartAgain called with timeHandler equal to th.  Whether the devices *)
(* have all been tried (NetRestartWrap) is left open here; NetDevExists is *)
(* set once TftpStart has run.                                             *)
NetStartAgain(th) ==
  \/ /\ fw_recovery
     /\ timeHandler' = th
     /\ UNCHANGED <<NetState, packetHandler>>
  \/ /\ ~fw_recovery
     /\ netretry \in {"no", "once"}
     /\ NetState' = "FAIL"
     /\ timeHandler' = th
     /\ UNCHANGED packetHandler
  \/ /\ ~fw_recovery
     /\ netretry = "yes"
     /\ timeHandler' = "startAgain"
     /\ packetHandler' = "startAgain"
     /\ UNCHANGED NetState
  \/ /\ ~fw_recovery
     /\ netretry # "no"
     /\ NetState' = "RESTART"
     /\ timeHandler' = th
     /\ UNCHANGED packetHandler

(* Mutant: the destination port of a frame is not compared with ours. *)
AcceptsAnyPort(m) ==
  /\ loop = "rx"
  /\ packetHandler = "Tftp"
  /\ TftpState = "RRQ" \/ m.tid = TftpServerPort

(* The frame reaches TftpHandler and passes its port checks. *)
Accepts(m) ==
  /\ loop = "rx"
  /\ packetHandler = "Tftp"
  /\ m.port = TftpOurPort
  /\ TftpState = "RRQ" \/ m.tid = TftpServerPort

(* The frame is for a stale port, from a stale server, or reaches *)
(* startAgainHandler: nothing happens.                            *)
HandlerDrop(m) ==
  /\ loop = "rx"
  /\ ~Accepts(m)
  /\ UNCHANGED clientVars

HandlerOack(m) ==
  /\ Accepts(m)
  /\ m.op = "OACK"
  /\ TftpState' = "OACK"
  /\ TftpServerPort' = m.tid
  /\ UNCHANGED <<TftpOurPort, TftpTimeoutCount, TftpBlock, TftpLastBlock,
                 TftpBlockWrap, NetState, packetHandler, timeHandler,
                 NetBootFileXferSize, filesize, mem, loop, fw_recovery,
                 netretry, ports>>

HandlerError(m) ==
  /\ Accepts(m)
  /\ m.op = "ERROR"
  /\ NetStartAgain(timeHandler)
  /\ UNCHANGED <<TftpState, TftpServerPort, TftpOurPort, TftpTimeoutCount,
                 TftpBlock, TftpLastBlock, TftpBlockWrap,
                 NetBootFileXferSize, filesize, mem, loop, fw_recovery,
                 netretry, ports>>

(* TftpBlockWrap after the zero test at the head of the DATA case. *)
WrapCount(b) == IF b = 0 THEN TftpBlockWrap + 1 ELSE TftpBlockWrap

Waiting == TftpState \in {"RRQ", "OACK"}

(* The first block is not block 1: it is not stored, and yet TftpBlock and *)
(* TftpState are those of a transfer under way.                            *)
HandlerDataNotFirst(m) ==
  /\ Accepts(m)
  /\ m.op = "DATA"
  /\ Waiting
  /\ m.block # 1
  /\ TftpBlock' = m.block
  /\ TftpState' = "DATA"
  /\ TftpServerPort' = m.tid
  /\ TftpLastBlock' = 0
  /\ TftpBlockWrap' = 0
  /\ NetStartAgain(timeHandler)
  /\ UNCHANGED <<TftpOurPort, TftpTimeoutCount, NetBootFileXferSize,
                 filesize, mem, loop, fw_recovery, netretry, ports>>

HandlerDataSame(m) ==
  /\ Accepts(m)
  /\ m.op = "DATA"
  /\ ~Waiting
  /\ m.block = TftpLastBlock
  /\ TftpBlock' = m.block
  /\ TftpBlockWrap' = WrapCount(m.block)
  /\ UNCHANGED <<TftpState, TftpServerPort, TftpOurPort, TftpTimeoutCount,
                 TftpLastBlock, NetState, packetHandler, timeHandler,
                 NetBootFileXferSize, filesize, mem, loop, fw_recovery,
                 netretry, ports>>

(* Mutant: the block number is used as an index that starts at 0. *)
store_blockOffByOne(b, w, n) ==
  LET slot == b + w * SeqSize + 1
      newsize == (slot - 1) * BlockSize + Len512(n)
  IN  /\ mem' = [s \in Slots |-> IF s = slot THEN n ELSE mem[s]]
      /\ NetBootFileXferSize' = IF NetBootFileXferSize < newsize
                                THEN newsize ELSE NetBootFileXferSize

(* store_block: file block n of sequence number b lands in the slot that   *)
(* the wrap count in force, w, gives it.  Slots beyond the file are not    *)
(* represented, the size of the transfer is.                               *)
store_block(b, w, n) ==
  LET slot == b + w * SeqSize
      newsize == (slot - 1) * BlockSize + Len512(n)
  IN  /\ mem' = [s \in Slots |-> IF s = slot THEN n ELSE mem[s]]
      /\ NetBootFileXferSize' = IF NetBootFileXferSize < newsize
                                THEN newsize ELSE NetBootFileXferSize

(* Mutant: a full frame ends the transfer. *)
IsLastNotLonger(m) == Len512(m.data) <= BlockSize

(* A frame shorter than a block is the last. *)
IsLast(m) == Len512(m.data) < BlockSize

HandlerDataStore(m) ==
  /\ Accepts(m)
  /\ m.op = "DATA"
  /\ IF Waiting THEN m.block = 1 ELSE m.block # TftpLastBlock
  /\ TftpBlock' = m.block
  /\ TftpState' = "DATA"
  /\ TftpServerPort' = IF Waiting THEN m.tid ELSE TftpServerPort
  /\ TftpBlockWrap' = IF Waiting THEN 0 ELSE WrapCount(m.block)
  /\ TftpLastBlock' = m.block
  /\ timeHandler' = "Tftp"
  /\ TftpTimeoutCount' = 0
  /\ store_block(m.block, TftpBlockWrap', m.data)
  /\ NetState' = IF IsLast(m) THEN "SUCCESS" ELSE NetState
  /\ UNCHANGED <<TftpOurPort, packetHandler, filesize, loop, fw_recovery,
                 netretry, ports>>
-----------------------------------------------------------------------------
(* NetLoop has found the timer expired and calls the handler, which it has *)
(* disarmed first.  It looks at NetState before it polls the device again. *)
AfterTimer == loop' = IF NetState' = "CONTINUE" THEN "rx" ELSE "switch"

RetriesLeft == TftpTimeoutCount + 1 <= TIMEOUT_COUNT

(* Mutant: the timer is not armed again. *)
TftpTimeoutResendOnce ==
  /\ loop = "rx"
  /\ timeHandler = "Tftp"
  /\ RetriesLeft
  /\ TftpTimeoutCount' = TftpTimeoutCount + 1
  /\ timeHandler' = "none"
  /\ UNCHANGED <<TftpState, TftpServerPort, TftpOurPort, TftpBlock,
                 TftpLastBlock, TftpBlockWrap, NetState, packetHandler,
                 NetBootFileXferSize, filesize, mem, fw_recovery, netretry,
                 ports>>
  /\ AfterTimer

TftpTimeoutResend ==
  /\ loop = "rx"
  /\ timeHandler = "Tftp"
  /\ RetriesLeft
  /\ TftpTimeoutCount' = TftpTimeoutCount + 1
  /\ UNCHANGED <<TftpState, TftpServerPort, TftpOurPort, TftpBlock,
                 TftpLastBlock, TftpBlockWrap, NetState, packetHandler,
                 timeHandler, NetBootFileXferSize, filesize, mem,
                 fw_recovery, netretry, ports>>
  /\ AfterTimer

TftpTimeoutGiveUp ==
  /\ loop = "rx"
  /\ timeHandler = "Tftp"
  /\ ~RetriesLeft
  /\ ~fw_recovery
  /\ TftpTimeoutCount' = TftpTimeoutCount + 1
  /\ NetStartAgain("none")
  /\ AfterTimer
  /\ UNCHANGED <<TftpState, TftpServerPort, TftpOurPort, TftpBlock,
                 TftpLastBlock, TftpBlockWrap, NetBootFileXferSize, filesize,
                 mem, fw_recovery, netretry, ports>>

(* In recovery do_bootm starts the firmware in flash or resets the board:  *)
(* it does not return.                                                     *)
TftpTimeoutBoot ==
  /\ loop = "rx"
  /\ timeHandler = "Tftp"
  /\ ~RetriesLeft
  /\ fw_recovery
  /\ TftpTimeoutCount' = TftpTimeoutCount + 1
  /\ timeHandler' = "none"
  /\ loop' = "bootm"
  /\ UNCHANGED <<TftpState, TftpServerPort, TftpOurPort, TftpBlock,
                 TftpLastBlock, TftpBlockWrap, NetState, packetHandler,
                 NetBootFileXferSize, filesize, mem, fw_recovery, netretry,
                 ports>>

startAgainTimeout ==
  /\ loop = "rx"
  /\ timeHandler = "startAgain"
  /\ timeHandler' = "none"
  /\ NetState' = "RESTART"
  /\ loop' = "switch"
  /\ UNCHANGED <<TftpState, TftpServerPort, TftpOurPort, TftpTimeoutCount,
                 TftpBlock, TftpLastBlock, TftpBlockWrap, packetHandler,
                 NetBootFileXferSize, filesize, mem, fw_recovery, netretry,
                 ports>>

(* The operator pressed Ctrl-C: NetLoop returns -1. *)
NetLoopAbort ==
  /\ loop = "rx"
  /\ loop' = "abort"
  /\ UNCHANGED <<TftpState, TftpServerPort, TftpOurPort, TftpTimeoutCount,
                 TftpBlock, TftpLastBlock, TftpBlockWrap, NetState,
                 packetHandler, timeHandler, NetBootFileXferSize, filesize,
                 mem, fw_recovery, netretry, ports>>

(* The environment variable filesize when NetLoop returns. *)
ReportedSize ==
  IF NetState = "SUCCESS" /\ NetBootFileXferSize > 0
  THEN NetBootFileXferSize ELSE filesize

(* NetLoop sees NETLOOP_SUCCESS or NETLOOP_FAIL and returns. *)
NetLoopReturn ==
  /\ loop \in {"rx", "switch"}
  /\ NetState \in {"SUCCESS", "FAIL"}
  /\ filesize' = ReportedSize
  /\ loop' = "done"
  /\ UNCHANGED <<TftpState, TftpServerPort, TftpOurPort, TftpTimeoutCount,
                 TftpBlock, TftpLastBlock, TftpBlockWrap, NetState,
                 packetHandler, timeHandler, NetBootFileXferSize, mem,
                 fw_recovery, netretry, ports>>

Ended == loop \in {"done", "abort", "bootm"}
=============================================================================
