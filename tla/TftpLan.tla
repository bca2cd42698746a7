------------------------------ MODULE TftpLan -------------------------------
(***************************************************************************)
(* The TFTP client and a server on one Ethernet segment, the way the       *)
(* recovery of main_loop is used: a frame may be lost, none overtakes      *)
(* another, and the only duplicates are the retransmissions of the two     *)
(* ends.                                                                   *)
(***************************************************************************)
EXTENDS TftpServer, Sequences

CONSTANT MaxLen   \* frames a direction holds; one more is lost

ASSUME MaxLenAssumption == MaxLen \in Nat \ {0}

VARIABLES
  up,      \* frames on their way to the server
  down     \* frames on their way to the client

lanVars == <<clientVars, serverVars, up, down>>

Put(ch, m) == IF Len(ch) < MaxLen THEN Append(ch, m) ELSE ch

LanInit == TftpInit /\ ServerInit /\ up = <<>> /\ down = <<>>

LanStart == /\ NetLoopEnter \/ NetLoopRestart
            /\ up' = Put(up, TftpFrame')
            /\ UNCHANGED <<serverVars, down>>

LanResend == /\ TftpTimeoutResend
             /\ up' = Put(up, TftpFrame')
             /\ UNCHANGED <<serverVars, down>>

LanTimeout == /\ TftpTimeoutGiveUp \/ TftpTimeoutBoot \/ startAgainTimeout
              /\ UNCHANGED <<serverVars, up, down>>

LanReturn == /\ NetLoopAbort \/ NetLoopReturn
             /\ UNCHANGED <<serverVars, up, down>>

LanAnswer == /\ down # <<>>
             /\ HandlerOack(Head(down)) \/ HandlerDataStore(Head(down))
             /\ down' = Tail(down)
             /\ up' = Put(up, TftpFrame')
             /\ UNCHANGED serverVars

LanAbsorb == /\ down # <<>>
             /\ \/ HandlerError(Head(down)) \/ HandlerDataNotFirst(Head(down))
                \/ HandlerDataSame(Head(down)) \/ HandlerDrop(Head(down))
             /\ down' = Tail(down)
             /\ UNCHANGED <<serverVars, up>>

LanOpened == /\ up # <<>>
             /\ \E t \in Tids : /\ ServerOpen(Head(up), t)
                                /\ down' = Put(down, ServerFrame(t)')
             /\ up' = Tail(up)
             /\ UNCHANGED clientVars

LanAcked == /\ up # <<>>
            /\ Head(up).op = "ACK"
            /\ \E t \in Tids :
                 /\ Head(up).tid = t
                 /\ ServerAck(Head(up))
                 /\ down' = IF spos'[t] = Closed THEN down
                                               ELSE Put(down, ServerFrame(t)')
            /\ up' = Tail(up)
            /\ UNCHANGED clientVars

(* An acknowledgement no transfer waits for is ignored, and a read request *)
(* too once Tids is used up.                                               *)
LanIgnored == /\ up # <<>>
              /\ IF Head(up).op = "RRQ"
                 THEN \A t \in Tids : spos[t] # Free
                 ELSE ~AckExpected(Head(up))
              /\ up' = Tail(up)
              /\ UNCHANGED <<clientVars, serverVars, down>>

(* The server's own timer. *)
LanRetransmit(t) == /\ Open(t)
                    /\ down' = Put(down, ServerFrame(t))
                    /\ UNCHANGED <<clientVars, serverVars, up>>

LanAborted(t) == /\ ServerAbort(t)
                 /\ down' = Put(down, ErrorFrame(t, sport[t]))
                 /\ UNCHANGED <<clientVars, up>>

LanLose == /\ \/ up # <<>> /\ up' = Tail(up) /\ UNCHANGED down
              \/ down # <<>> /\ down' = Tail(down) /\ UNCHANGED up
           /\ UNCHANGED <<clientVars, serverVars>>

LanTerminated == /\ \/ Ended
                    \/ NetState = "RESTART" /\ ports = Ports
                 /\ UNCHANGED lanVars

LanClient == LanStart \/ LanResend \/ LanTimeout \/ LanReturn
             \/ LanAnswer \/ LanAbsorb
LanServer == LanOpened \/ LanAcked \/ LanIgnored
             \/ \E t \in Tids : LanRetransmit(t) \/ LanAborted(t)

LanNext == LanClient \/ LanServer \/ LanLose \/ LanTerminated

LanSpec == LanInit /\ [][LanNext]_lanVars

(* NetLoop polls for ever and time passes, so a timer that stays armed     *)
(* fires, and NetLoop acts on NetState once the burst of frames that       *)
(* ath_gmac_recv hands over is over.  Nothing is assumed of the network,   *)
(* of the server or of the operator.                                       *)
LanFairSpec ==
  /\ LanSpec
  /\ WF_lanVars(LanResend \/ LanTimeout)
  /\ WF_lanVars(LanStart \/ (NetLoopReturn
                             /\ UNCHANGED <<serverVars, up, down>>))
-----------------------------------------------------------------------------
(* "We received the whole thing": a reported success leaves the whole file *)
(* in RAM, and filesize, when it is set, is the size of that file.         *)
ReportsWholeFile ==
  /\ NetState = "SUCCESS" => WholeFile /\ NetBootFileXferSize = FileSize
  /\ filesize # 0 => WholeFile /\ filesize = FileSize

(* The recovery download never hangs: whatever the network loses and the   *)
(* server sends or withholds, NetLoop reports an end or gives the board to *)
(* the firmware in flash.                                                  *)
RecoveryEnds == (fw_recovery /\ loop = "rx") ~> Ended

(* Outside recovery it ends or starts again from another port.             *)
EndsOrRestarts ==
  \A p \in Ports : (loop = "rx" /\ TftpOurPort = p) ~>
                      (Ended \/ TftpOurPort # p \/ ports = Ports)
-----------------------------------------------------------------------------
(* What ReportsWholeFile rests on while the block numbers do not wrap.     *)
On(ch) == {ch[i] : i \in 1..Len(ch)}

LanTypeOK ==
  /\ TftpState \in {"RRQ", "OACK", "DATA"}
  /\ TftpState # "RRQ" => TftpServerPort \in Tids
  /\ loop = "idle" => TftpState = "RRQ" /\ NetState = "CONTINUE" /\ ports = {}
  /\ loop # "idle" => TftpOurPort \in ports
  /\ ports \subseteq Ports
  /\ mem \in [Slots -> 0..FileBlocks]
  /\ NetBootFileXferSize \in 0..FileSize
  /\ spos \in [Tids -> Free..Closed]
  /\ sport \in [Tids -> Ports \union {NoPort}]
  /\ \A t \in Tids : spos[t] # Free => sport[t] \in Ports
  /\ up \in Seq(ToServer) /\ down \in Seq(ToClient)

(* The client has had a block, at port p or at a later one. *)
Underway(p) == p \in ports /\ (p = TftpOurPort => TftpState = "DATA")

(* No OACK of a transfer is behind a DATA frame of the same transfer. *)
InOrder(ch) ==
  \A i, j \in 1..Len(ch) :
    i < j /\ ch[i].op = "DATA" /\ ch[j].op = "OACK" => ch[i].tid # ch[j].tid

DownInv ==
  /\ InOrder(down)
  /\ \A m \in On(down) :
       m.op = "DATA" => /\ StoredBelow(m.data) /\ spos[m.tid] > 0
                        /\ m.data > 1 => Underway(m.port)

OackInv ==
  TftpState = "DATA" =>
    \A m \in On(down) : m.op = "OACK" => m.tid # TftpServerPort

UpInv ==
  \A m \in On(up) :
    /\ m.port \in ports
    /\ m.op = "ACK" /\ m.block # 0 => /\ m.block \in Slots
                                      /\ mem[m.block] = m.block
                                      /\ Underway(m.port)

TransferInv ==
  \A t \in Tids :
    Open(t) => /\ StoredBelow(spos[t])
               /\ spos[t] > 1 => Underway(sport[t])

ReceiverInv ==
  /\ TftpBlockWrap = 0
  /\ TftpState # "DATA" => TftpBlock = 0
  /\ TftpState = "DATA" => /\ spos[TftpServerPort] > 0
                           /\ \A b \in {TftpBlock, TftpLastBlock} :
                                b \in Slots /\ mem[b] = b

LanInv == /\ LanTypeOK /\ DownInv /\ OackInv /\ UpInv /\ TransferInv
          /\ ReceiverInv /\ ReportsWholeFile
=============================================================================
