------------------------------ MODULE TftpNet -------------------------------
(***************************************************************************)
(* The TFTP client and a server over a network that may lose, delay,       *)
(* reorder and duplicate frames: `net' holds every frame ever sent, and a  *)
(* frame in it may be delivered at any time, any number of times, or never.*)
(* Retransmissions need no action: the frame is still there.               *)
(***************************************************************************)
EXTENDS TftpServer

VARIABLE net

vars == <<clientVars, serverVars, net>>

Send(m) == net' = net \union {m}

Init == TftpInit /\ ServerInit /\ net = {}

ClientStart == /\ NetLoopEnter \/ NetLoopRestart
               /\ Send(TftpFrame')
               /\ UNCHANGED serverVars

ClientResend == /\ TftpTimeoutResend
                /\ Send(TftpFrame')
                /\ UNCHANGED serverVars

ClientQuiet == /\ \/ TftpTimeoutGiveUp \/ TftpTimeoutBoot
                  \/ startAgainTimeout
                  \/ NetLoopAbort \/ NetLoopReturn
               /\ UNCHANGED <<serverVars, net>>

(* TftpHandler, for a frame that makes the client answer ... *)
ClientAnswer(m) == /\ HandlerOack(m) \/ HandlerDataStore(m)
                   /\ Send(TftpFrame')
                   /\ UNCHANGED serverVars

(* ... and for one that does not. *)
ClientAbsorb(m) == /\ \/ HandlerError(m) \/ HandlerDataNotFirst(m)
                      \/ HandlerDataSame(m) \/ HandlerDrop(m)
                   /\ UNCHANGED <<serverVars, net>>

Opened(m, t) == ServerOpen(m, t) /\ Send(ServerFrame(t)')
Refused(m, t) == ServerRefuse(m, t) /\ Send(ErrorFrame(t, m.port))
Acked(m) == /\ ServerAck(m)
            /\ IF spos'[m.tid] = Closed THEN UNCHANGED net
                                        ELSE Send(ServerFrame(m.tid)')
Aborted(t) == ServerAbort(t) /\ Send(ErrorFrame(t, sport[t]))

Client == \/ ClientStart \/ ClientResend \/ ClientQuiet
          \/ \E m \in net : m \in ToClient /\ (ClientAnswer(m) \/ ClientAbsorb(m))

Server == /\ \/ \E m \in net, t \in Tids : Opened(m, t) \/ Refused(m, t)
             \/ \E m \in net : Acked(m)
             \/ \E t \in Tids : Aborted(t)
          /\ UNCHANGED clientVars

(* The command has ended, or as many starts as Ports allows were used up. *)
Terminated == /\ \/ Ended
                 \/ NetState = "RESTART" /\ ports = Ports
              /\ UNCHANGED vars

Next == Client \/ Server \/ Terminated

Spec == Init /\ [][Next]_vars
-----------------------------------------------------------------------------
TypeOK ==
  /\ TftpState \in {"RRQ", "OACK", "DATA"}
  /\ TftpServerPort \in Tids \union {WELL_KNOWN_PORT, NoPort}
  /\ TftpOurPort \in Ports \union {NoPort}
  /\ TftpTimeoutCount \in 0..(TIMEOUT_COUNT + 1)
  /\ TftpBlock \in 0..(SeqSize - 1)
  /\ TftpLastBlock \in 0..(SeqSize - 1)
  /\ TftpBlockWrap \in Nat
  /\ NetState \in {"CONTINUE", "RESTART", "SUCCESS", "FAIL"}
  /\ packetHandler \in {"Tftp", "startAgain", "none"}
  /\ timeHandler \in {"Tftp", "startAgain", "none"}
  /\ NetBootFileXferSize \in Nat
  /\ filesize \in Nat
  /\ mem \in [Slots -> 0..FileBlocks]
  /\ loop \in {"idle", "rx", "switch", "done", "abort", "bootm"}
  /\ fw_recovery \in Modes
  /\ netretry \in Retries
  /\ ports \subseteq Ports
  /\ spos \in [Tids -> -1..(FileBlocks + 1)]
  /\ sport \in [Tids -> Ports \union {NoPort}]
  /\ net \subseteq ToClient \union ToServer

(* "Acknoledge the block just received" (tftp.c): a block whose number the *)
(* client has acknowledged is in RAM, in its place.  The server never      *)
(* sends an acknowledged block again, so a block missed here stays missing.*)
AckedIsStored ==
  \A m \in net : m.op = "ACK" /\ m.block # 0 => mem[m.block] = m.block

(* "We received the whole thing": when NetLoop is to report success every  *)
(* block of the file is in its slot and the size is that of the file.      *)
SuccessIsWholeFile ==
  NetState = "SUCCESS" => WholeFile /\ NetBootFileXferSize = FileSize

(* What the callers act on, the environment variable filesize, is the size *)
(* of a file that is complete in RAM.                                      *)
FilesizeIsWholeFile == filesize # 0 => filesize = FileSize /\ WholeFile

(* NetLoop never polls with nothing to wake it up: while the transfer goes *)
(* on a timer is armed, whatever handler was left through a break, an      *)
(* ignored frame or a NetStartAgain that returned at once.                 *)
TimerArmed == loop = "rx" /\ NetState = "CONTINUE" => timeHandler # "none"
-----------------------------------------------------------------------------
(* The outcome the caller of NetLoop sees. *)
Outcome == CASE loop = "done" /\ NetState = "SUCCESS" -> "complete"
             [] loop \in {"abort", "bootm"} -> "given up"
             [] loop = "done" /\ NetState # "SUCCESS" -> "given up"
             [] OTHER -> "running"

Transfer == INSTANCE FileTransfer WITH Blocks <- FileBlocks, Size <- FileSize,
              image <- mem, outcome <- Outcome, size <- filesize

(* The client implements FileTransfer: every frame received, timeout,      *)
(* restart and return is a step of that specification or leaves what the   *)
(* caller sees unchanged.                                                  *)
ImplementsFileTransfer == Transfer!Spec
-----------------------------------------------------------------------------
(* Type correctness needs to know that a client with a transfer under way  *)
(* has chosen its port and, outside state RRQ, its server, that the retry  *)
(* counter is within its limit while the timer is armed, and that every    *)
(* transfer the server opened has a client port.                           *)
TypeInv == /\ TypeOK
           /\ loop # "idle" => TftpOurPort \in Ports
           /\ TftpState # "RRQ" => TftpServerPort \in Tids
           /\ loop = "idle" => TftpState = "RRQ"
           /\ timeHandler = "Tftp" => TftpTimeoutCount <= TIMEOUT_COUNT
           /\ \A t \in Tids : spos[t] # Free => sport[t] \in Ports

(* The inductive invariant behind SuccessIsWholeFile for a server that     *)
(* ignores the option and a file whose block numbers do not wrap.          *)
PlainTransfer == Options \subseteq {FALSE} /\ SeqSize > FileBlocks

(* The client has acknowledged something from port p. *)
Begun(p) == \E m \in net : m.op = "ACK" /\ m.port = p

NetInv ==
  \A m \in net :
    /\ m.op # "OACK"
    /\ m.op = "DATA" => /\ StoredBelow(m.data)
                        /\ m.data > 1 => Begun(m.port)
    /\ m.op = "ACK" => m.block \in Slots /\ mem[m.block] = m.block
    /\ m.op \in {"RRQ", "ACK"} => m.port \in ports

ServerInv ==
  \A t \in Tids :
    /\ spos[t] # 0
    /\ Open(t) => StoredBelow(spos[t])
    /\ Open(t) /\ spos[t] > 1 => Begun(sport[t])

ClientInv ==
  /\ TftpState # "OACK"
  /\ TftpBlockWrap = 0
  /\ loop = "idle" => TftpState = "RRQ" /\ NetState = "CONTINUE" /\ ports = {}
  /\ loop # "idle" => TftpOurPort \in ports
  /\ TftpState = "RRQ" => ~Begun(TftpOurPort)
  /\ TftpState = "DATA" => /\ TftpServerPort \in Tids
                           /\ TftpBlock \in Slots
                           /\ TftpLastBlock \in Slots
                           /\ mem[TftpBlock] = TftpBlock
                           /\ mem[TftpLastBlock] = TftpLastBlock
  /\ NetBootFileXferSize <= FileSize

(* The strengthening that a step of any actor preserves. *)
IInv == /\ TypeInv /\ NetInv /\ ServerInv /\ ClientInv
        /\ SuccessIsWholeFile /\ FilesizeIsWholeFile
=============================================================================
