----------------------------- MODULE TftpProof ------------------------------
(***************************************************************************)
(* Theorems about TftpNet, the TFTP client over a network that loses,      *)
(* duplicates and reorders frames, and about TftpLan, the client on one    *)
(* segment that only loses them: for every file, every number of server    *)
(* ports and client ports and every retry limit.                           *)
(***************************************************************************)
EXTENDS TftpNet, TftpLan, SequenceTheorems, TLAPS

(* Arithmetic the solver is given as facts. *)
LEMMA MulMono == ASSUME NEW a \in Nat, NEW b \in Nat, NEW c \in Nat, a <= b
                 PROVE  a * c <= b * c /\ a * c \in Nat
  BY Z3

LEMMA ModBlock == \A n \in Nat : n % SeqSize \in 0..(SeqSize - 1)
  BY FileAssumption

LEMMA ModSmall == ASSUME SeqSize > FileBlocks
                  PROVE  \A n \in Slots : n % SeqSize = n
  BY FileAssumption DEF Slots

(* The frames a server may send. *)
LEMMA ServerFrameType ==
  ASSUME NEW t \in Tids, NEW p \in Ports
  PROVE  /\ OackFrame(t, p) \in ToClient
         /\ ErrorFrame(t, p) \in ToClient
         /\ \A n \in Slots : DataFrame(t, p, n) \in ToClient
  BY DEF ToClient

(* What a frame for the client is made of. *)
LEMMA ClientFrame ==
  ASSUME NEW m \in ToClient
  PROVE  /\ m.op \in {"DATA", "OACK", "ERROR"}
         /\ m.tid \in Tids /\ m.port \in Ports
         /\ m.op = "DATA" => /\ m.data \in Slots
                             /\ m.block = m.data % SeqSize
                             /\ m.block \in 0..(SeqSize - 1)
  BY ModBlock, FileAssumption
     DEF ToClient, DataFrame, OackFrame, ErrorFrame, Slots

(* A block that is stored has a slot of at least 1 and hence a size.       *)
LEMMA StoredSize ==
  ASSUME NEW b \in 0..(SeqSize - 1), NEW w \in Nat, NEW n \in Slots,
         b = 0 => w > 0
  PROVE  (b + w * SeqSize - 1) * BlockSize + Len512(n) \in Nat
<1>1. w * SeqSize \in Nat /\ (w > 0 => w * SeqSize >= SeqSize)
  <2>1. CASE w = 0
    BY <2>1, FileAssumption
  <2>2. CASE w > 0
    <3>1. 1 * SeqSize <= w * SeqSize /\ w * SeqSize \in Nat
      BY <2>2, FileAssumption, MulMono
    <3>2. QED
      BY <3>1, FileAssumption
  <2>3. QED
    BY <2>1, <2>2
<1>2. b + w * SeqSize - 1 \in Nat
  BY <1>1, FileAssumption
<1>3. (b + w * SeqSize - 1) * BlockSize \in Nat
  BY <1>2, FileAssumption, MulMono
<1>4. Len512(n) \in Nat
  BY FileAssumption DEF Len512
<1>5. QED
  BY <1>3, <1>4
-----------------------------------------------------------------------------
(* The frame TftpSend builds is an ACK or RRQ frame once the client has    *)
(* a port and, outside state RRQ, a server.                                *)
LEMMA FrameType ==
  ASSUME TypeOK, TftpOurPort \in Ports,
         TftpState # "RRQ" => TftpServerPort \in Tids
  PROVE  TftpFrame \in ToServer
  BY DEF TypeOK, TftpFrame, ToServer, RrqFrame, AckFrame

LEMMA TypeInit == Init => TypeInv
  BY FileAssumption, PortAssumption, OptionsAssumption
     DEF Init, TftpInit, ServerInit, TypeInv, TypeOK, Free, Slots

(* Steps of the client. *)
LEMMA TypeStart == TypeInv /\ ClientStart => TypeInv'
<1> SUFFICES ASSUME TypeInv, ClientStart PROVE TypeInv'
  OBVIOUS
<1>1. TftpStart /\ Send(TftpFrame') /\ UNCHANGED serverVars
  BY DEF ClientStart, NetLoopEnter, NetLoopRestart
<1>2. TftpOurPort' \in Ports /\ TftpState' = "RRQ"
  BY <1>1 DEF TftpStart
<1>3. TftpFrame' \in ToServer
  BY <1>2 DEF TftpFrame, ToServer
<1>4. net' \subseteq ToClient \union ToServer
  BY <1>1, <1>3 DEF Send, TypeInv, TypeOK
<1>5. QED
  BY <1>1, <1>2, <1>4, FileAssumption
     DEF TypeInv, TypeOK, TftpStart, serverVars

LEMMA TypeResend == TypeInv /\ ClientResend => TypeInv'
  BY FileAssumption, PortAssumption
     DEF TypeInv, TypeOK, ClientResend, TftpTimeoutResend, AfterTimer, RetriesLeft,
         Send, TftpFrame, RrqFrame, AckFrame, ToServer, serverVars

LEMMA TypeQuiet == TypeInv /\ ClientQuiet => TypeInv'
<1> SUFFICES ASSUME TypeInv, ClientQuiet PROVE TypeInv'
  OBVIOUS
<1> USE FileAssumption DEF TypeInv, TypeOK, serverVars
<1>1. CASE TftpTimeoutGiveUp
  BY <1>1 DEF ClientQuiet, TftpTimeoutGiveUp, NetStartAgain, AfterTimer, RetriesLeft
<1>2. CASE TftpTimeoutBoot
  <2>1. /\ timeHandler = "Tftp" /\ timeHandler' = "none"
        /\ loop = "rx" /\ loop' = "bootm"
        /\ TftpTimeoutCount' = TftpTimeoutCount + 1
        /\ UNCHANGED <<TftpState, TftpServerPort, TftpOurPort, TftpBlock,
                       TftpLastBlock, TftpBlockWrap, NetState, packetHandler,
                       NetBootFileXferSize, filesize, mem, fw_recovery,
                       netretry, ports, spos, sport, net>>
    BY <1>2 DEF ClientQuiet, TftpTimeoutBoot
  <2>2. QED
    BY <2>1
<1>3. CASE startAgainTimeout
  BY <1>3 DEF ClientQuiet, startAgainTimeout
<1>4. CASE NetLoopAbort
  BY <1>4 DEF ClientQuiet, NetLoopAbort
<1>5. CASE NetLoopReturn
  BY <1>5 DEF ClientQuiet, NetLoopReturn, ReportedSize
<1>6. QED
  BY <1>1, <1>2, <1>3, <1>4, <1>5 DEF ClientQuiet

LEMMA TypeAnswer ==
  ASSUME TypeInv, NEW m \in net, m \in ToClient, ClientAnswer(m)
  PROVE  TypeInv'
<1>1. CASE HandlerOack(m)
  BY <1>1, ClientFrame
     DEF TypeInv, TypeOK, serverVars, ClientAnswer, HandlerOack, Accepts, Send,
         TftpFrame, AckFrame, ToServer
<1>2. CASE HandlerDataStore(m)
  <2>1. /\ m.tid \in Tids /\ m.data \in Slots
        /\ m.block \in 0..(SeqSize - 1)
    BY <1>2, ClientFrame DEF HandlerDataStore
  <2>2. TftpBlockWrap' \in Nat /\ (m.block = 0 => TftpBlockWrap' > 0)
    BY <1>2, <2>1 DEF TypeInv, TypeOK, HandlerDataStore, WrapCount
  <2>3. NetBootFileXferSize' \in Nat
    <3>1. (m.block + TftpBlockWrap' * SeqSize - 1) * BlockSize + Len512(m.data)
             \in Nat
      BY <2>1, <2>2, StoredSize
    <3>2. QED
      BY <1>2, <3>1 DEF TypeInv, TypeOK, HandlerDataStore, store_block
  <2>4. mem' \in [Slots -> 0..FileBlocks]
    BY <1>2, <2>1, FileAssumption
       DEF TypeInv, TypeOK, HandlerDataStore, store_block, Slots
  <2>5. TftpServerPort' \in Tids /\ TftpState' = "DATA"
    BY <1>2, <2>1 DEF TypeInv, TypeOK, HandlerDataStore, Accepts, Waiting
  <2>6. net' \subseteq ToClient \union ToServer
    BY <1>2, <2>1, <2>5
       DEF TypeInv, TypeOK, ClientAnswer, HandlerDataStore, Accepts, Send,
           TftpFrame, AckFrame, ToServer
  <2>7. /\ TftpBlock' = m.block /\ TftpLastBlock' = m.block
        /\ TftpTimeoutCount' = 0 /\ timeHandler' = "Tftp"
        /\ NetState' \in {NetState, "SUCCESS"}
        /\ loop = "rx"
        /\ UNCHANGED <<TftpOurPort, packetHandler, filesize, loop, fw_recovery,
                       netretry, ports, spos, sport>>
    BY <1>2 DEF ClientAnswer, HandlerDataStore, Accepts, serverVars
  <2>8. QED
    BY <2>1, <2>2, <2>3, <2>4, <2>5, <2>6, <2>7, FileAssumption
       DEF TypeInv, TypeOK
<1>3. QED
  BY <1>1, <1>2 DEF ClientAnswer

LEMMA TypeAbsorb ==
  ASSUME TypeInv, NEW m \in net, m \in ToClient, ClientAbsorb(m)
  PROVE  TypeInv'
<1> USE DEF TypeInv, TypeOK, serverVars
<1>1. CASE HandlerError(m)
  BY <1>1 DEF ClientAbsorb, HandlerError, NetStartAgain
<1>2. CASE HandlerDataNotFirst(m)
  <2>1. m.tid \in Tids /\ m.block \in 0..(SeqSize - 1)
    BY <1>2, ClientFrame DEF HandlerDataNotFirst
  <2>2. /\ NetState' \in {NetState, "FAIL", "RESTART"}
        /\ packetHandler' \in {packetHandler, "startAgain"}
        /\ timeHandler' \in {timeHandler, "startAgain"}
    BY <1>2 DEF HandlerDataNotFirst, NetStartAgain
  <2>3. QED
    BY <1>2, <2>1, <2>2, FileAssumption
       DEF ClientAbsorb, HandlerDataNotFirst, Accepts
<1>3. CASE HandlerDataSame(m)
  BY <1>3, ClientFrame DEF ClientAbsorb, HandlerDataSame, WrapCount
<1>4. CASE HandlerDrop(m)
  BY <1>4 DEF ClientAbsorb, HandlerDrop, clientVars
<1>5. QED
  BY <1>1, <1>2, <1>3, <1>4 DEF ClientAbsorb

(* Steps of the server. *)
LEMMA TypeServer == TypeInv /\ Server => TypeInv'
<1> SUFFICES ASSUME TypeInv, Server PROVE TypeInv'
  OBVIOUS
<1> USE FileAssumption, PortAssumption, OptionsAssumption
    DEF TypeInv, TypeOK, clientVars, Free, Closed
<1>1. ASSUME NEW m \in net, NEW t \in Tids, Opened(m, t)
      PROVE  TypeInv'
  <2>1. m.port \in Ports
    BY <1>1 DEF Opened, ServerOpen, ToClient, ToServer, RrqFrame, AckFrame,
                DataFrame, OackFrame, ErrorFrame
  <2>2. /\ spos' \in [Tids -> -1..(FileBlocks + 1)]
        /\ spos'[t] \in {0, 1} /\ sport'[t] = m.port
        /\ sport' \in [Tids -> Ports \union {NoPort}]
    BY <1>1, <2>1 DEF Opened, ServerOpen
  <2>3. ServerFrame(t)' \in ToClient
    <3>1. 1 \in Slots
      BY DEF Slots
    <3>2. QED
      BY <2>1, <2>2, <3>1, ServerFrameType DEF ServerFrame
  <2>4. net' \subseteq ToClient \union ToServer
    BY <1>1, <2>3 DEF Opened, Send
  <2>5. QED
    BY <1>1, <2>1, <2>2, <2>4 DEF Server, Opened, ServerOpen
<1>2. ASSUME NEW m \in net, NEW t \in Tids, Refused(m, t)
      PROVE  TypeInv'
  <2>1. m.port \in Ports
    BY <1>2 DEF Refused, ServerRefuse, ToClient, ToServer, RrqFrame, AckFrame,
                DataFrame, OackFrame, ErrorFrame
  <2>2. /\ spos' = [spos EXCEPT ![t] = Closed]
        /\ sport' = [sport EXCEPT ![t] = m.port]
        /\ net' = net \union {ErrorFrame(t, m.port)}
    BY <1>2 DEF Refused, ServerRefuse, Send
  <2> DEFINE e == ErrorFrame(t, m.port)
  <2>3. net' \subseteq ToClient \union ToServer
    <3>1. e \in ToClient
      BY <2>1, ServerFrameType
    <3>2. net' = net \union {e}
      BY <2>2
    <3> HIDE DEF e
    <3>3. QED
      BY <3>1, <3>2
  <2>4. /\ spos' \in [Tids -> -1..(FileBlocks + 1)]
        /\ sport' \in [Tids -> Ports \union {NoPort}]
        /\ \A u \in Tids : spos'[u] # Free => sport'[u] \in Ports
    BY <2>1, <2>2
  <2>5. QED
    BY <2>2, <2>3, <2>4 DEF Server
<1>3. ASSUME NEW m \in net, Acked(m)
      PROVE  TypeInv'
  <2>1. m.tid \in Tids /\ m.port \in Ports
    BY <1>3 DEF Acked, ServerAck, AckExpected, ToClient, ToServer, RrqFrame,
                AckFrame, DataFrame, OackFrame, ErrorFrame
  <2>2. /\ spos' \in [Tids -> -1..(FileBlocks + 1)]
        /\ spos'[m.tid] \in 1..(FileBlocks + 1)
        /\ sport'[m.tid] = m.port
    BY <1>3, <2>1 DEF Acked, ServerAck, AckExpected, Open
  <2>3. spos'[m.tid] # Closed => ServerFrame(m.tid)' \in ToClient
    <3>1. spos'[m.tid] # Closed => spos'[m.tid] \in Slots
      BY <2>2 DEF Slots
    <3>2. QED
      BY <2>1, <2>2, <3>1, ServerFrameType DEF ServerFrame
  <2>4. net' \subseteq ToClient \union ToServer
    BY <1>3, <2>3 DEF Acked, Send
  <2>5. QED
    BY <1>3, <2>1, <2>2, <2>4 DEF Server, Acked, ServerAck, AckExpected
<1>4. ASSUME NEW t \in Tids, Aborted(t)
      PROVE  TypeInv'
  <2>1. sport[t] \in Ports
    BY <1>4 DEF Aborted, ServerAbort, Open
  <2>2. /\ spos' = [spos EXCEPT ![t] = Closed]
        /\ sport' = sport
        /\ net' = net \union {ErrorFrame(t, sport[t])}
    BY <1>4 DEF Aborted, ServerAbort, Send
  <2> DEFINE e == ErrorFrame(t, sport[t])
  <2>3. net' \subseteq ToClient \union ToServer
    <3>1. e \in ToClient
      BY <2>1, ServerFrameType
    <3>2. net' = net \union {e}
      BY <2>2
    <3> HIDE DEF e
    <3>3. QED
      BY <3>1, <3>2
  <2>4. /\ spos' \in [Tids -> -1..(FileBlocks + 1)]
        /\ \A u \in Tids : spos'[u] # Free => sport'[u] \in Ports
    BY <2>1, <2>2
  <2>5. QED
    BY <2>2, <2>3, <2>4 DEF Server
<1>5. QED
  BY <1>1, <1>2, <1>3, <1>4 DEF Server

LEMMA TypeStep == TypeInv /\ [Next]_vars => TypeInv'
<1> SUFFICES ASSUME TypeInv, [Next]_vars PROVE TypeInv'
  OBVIOUS
<1>1. CASE Client
  BY <1>1, TypeStart, TypeResend, TypeQuiet, TypeAnswer, TypeAbsorb DEF Client
<1>2. CASE Server
  BY <1>2, TypeServer
<1>3. CASE Terminated \/ UNCHANGED vars
  BY <1>3 DEF Terminated, vars, clientVars, serverVars, TypeInv, TypeOK
<1>4. QED
  BY <1>1, <1>2, <1>3 DEF Next

(* Type correctness of the client, the server and the frames between them, *)
(* with the bounds that matter: the retry counter never passes             *)
(* TIMEOUT_COUNT + 1, sizes never go negative although store_block         *)
(* subtracts one from a block number that may be 0.                        *)
THEOREM TypeCorrect == Spec => []TypeOK
<1>1. TypeInv => TypeOK
  BY DEF TypeInv
<1>2. QED
  BY <1>1, TypeInit, TypeStep, PTL DEF Spec

(* The timer stays armed while NetLoop has nothing to report: for every    *)
(* mode, retry policy and network behaviour a transfer that is going on    *)
(* has a pending timeout.                                                  *)
THEOREM TimerAlwaysArmed == Spec => []TimerArmed
<1>1. Init => TimerArmed
  BY DEF Init, TftpInit, TimerArmed
<1>2. TimerArmed /\ [Next]_vars => TimerArmed'
  <2> SUFFICES ASSUME TimerArmed, [Next]_vars PROVE TimerArmed'
    OBVIOUS
  <2> USE DEF TimerArmed
  <2>1. CASE ClientStart
    BY <2>1 DEF ClientStart, NetLoopEnter, NetLoopRestart, TftpStart
  <2>2. CASE ClientResend
    BY <2>2 DEF ClientResend, TftpTimeoutResend
  <2>3. CASE ClientQuiet
    BY <2>3 DEF ClientQuiet, TftpTimeoutGiveUp, TftpTimeoutBoot,
                startAgainTimeout, NetLoopAbort, NetLoopReturn, NetStartAgain,
                AfterTimer
  <2>4. ASSUME NEW m \in net, ClientAnswer(m) PROVE TimerArmed'
    BY <2>4 DEF ClientAnswer, HandlerOack, HandlerDataStore
  <2>5. ASSUME NEW m \in net, ClientAbsorb(m) PROVE TimerArmed'
    BY <2>5 DEF ClientAbsorb, HandlerError, HandlerDataNotFirst,
                HandlerDataSame, HandlerDrop, NetStartAgain, clientVars
  <2>6. CASE Server \/ Terminated \/ UNCHANGED vars
    BY <2>6 DEF Server, Terminated, vars, clientVars
  <2>7. QED
    BY <2>1, <2>2, <2>3, <2>4, <2>5, <2>6 DEF Next, Client
<1>3. QED
  BY <1>1, <1>2, PTL DEF Spec
-----------------------------------------------------------------------------
(* Facts about frames and RAM that only ever become true. *)
LEMMA StoredMono ==
  ASSUME \A s \in Slots : mem[s] = s => mem'[s] = s, NEW n, StoredBelow(n)
  PROVE  StoredBelow(n)'
  BY DEF StoredBelow

LEMMA BegunMono ==
  ASSUME net \subseteq net', NEW p, Begun(p)
  PROVE  Begun(p)'
  BY DEF Begun

LEMMA NetGrows ==
  ASSUME NetInv, net \subseteq net', ports \subseteq ports',
         \A s \in Slots : mem[s] = s => mem'[s] = s,
         \A m \in net' \ net :
            /\ m.op # "OACK"
            /\ m.op = "DATA" => /\ StoredBelow(m.data)'
                                /\ m.data > 1 => Begun(m.port)'
            /\ m.op = "ACK" => m.block \in Slots /\ mem'[m.block] = m.block
            /\ m.op \in {"RRQ", "ACK"} => m.port \in ports'
  PROVE  NetInv'
<1> SUFFICES ASSUME NEW m \in net'
             PROVE  /\ m.op # "OACK"
                    /\ m.op = "DATA" => /\ StoredBelow(m.data)'
                                        /\ m.data > 1 => Begun(m.port)'
                    /\ m.op = "ACK" => m.block \in Slots /\ mem'[m.block] = m.block
                    /\ m.op \in {"RRQ", "ACK"} => m.port \in ports'
  BY DEF NetInv
<1>1. CASE m \in net
  <2>1. /\ m.op # "OACK"
        /\ m.op = "DATA" => StoredBelow(m.data) /\ (m.data > 1 => Begun(m.port))
        /\ m.op = "ACK" => m.block \in Slots /\ mem[m.block] = m.block
        /\ m.op \in {"RRQ", "ACK"} => m.port \in ports
    BY <1>1 DEF NetInv
  <2>2. QED
    BY <2>1, StoredMono, BegunMono
<1>2. CASE m \notin net
  BY <1>2
<1>3. QED
  BY <1>1, <1>2

LEMMA ServerKeeps ==
  ASSUME ServerInv, net \subseteq net', UNCHANGED serverVars,
         \A s \in Slots : mem[s] = s => mem'[s] = s
  PROVE  ServerInv'
<1> SUFFICES ASSUME NEW t \in Tids
             PROVE  /\ spos'[t] # 0
                    /\ Open(t)' => StoredBelow(spos[t])'
                    /\ Open(t)' /\ spos'[t] > 1 => Begun(sport[t])'
  BY DEF ServerInv
<1>1. spos' = spos /\ sport' = sport /\ (Open(t)' <=> Open(t))
  BY DEF serverVars, Open
<1>2. /\ spos[t] # 0
      /\ Open(t) => StoredBelow(spos[t])
      /\ Open(t) /\ spos[t] > 1 => Begun(sport[t])
  BY DEF ServerInv
<1>3. Open(t) => StoredBelow(spos[t])'
  BY <1>1, <1>2, StoredMono DEF StoredBelow
<1>4. Open(t) /\ spos[t] > 1 => Begun(sport[t])'
  BY <1>1, <1>2, BegunMono DEF Begun
<1>5. QED
  BY <1>1, <1>2, <1>3, <1>4

(* The size of the file, and that no prefix of it is larger. *)
LEMMA SizeFacts ==
  /\ FileSize \in Nat
  /\ \A n \in Slots : (n - 1) * BlockSize + Len512(n) <= FileSize
  /\ (FileBlocks - 1) * BlockSize + Len512(FileBlocks) = FileSize
<1>1. FileBlocks - 1 \in Nat /\ BlockSize \in Nat /\ LastLen \in Nat
  BY FileAssumption
<1>2. (FileBlocks - 1) * BlockSize \in Nat
  BY <1>1, MulMono
<1>3. ASSUME NEW n \in Slots, n # FileBlocks
      PROVE  (n - 1) * BlockSize + Len512(n) <= FileSize
  <2>1. n \in Nat /\ n <= FileBlocks - 1 /\ n - 1 \in Nat
    BY <1>3, FileAssumption DEF Slots
  <2>2. n * BlockSize <= (FileBlocks - 1) * BlockSize
    BY <1>1, <2>1, MulMono
  <2>3. (n - 1) * BlockSize + BlockSize = n * BlockSize
    BY <1>1, <2>1, Z3
  <2>4. n * BlockSize \in Nat /\ (n - 1) * BlockSize \in Nat
    BY <1>1, <2>1, MulMono
  <2>5. QED
    BY <1>1, <1>2, <1>3, <2>2, <2>3, <2>4 DEF Len512, FileSize
<1>4. QED
  BY <1>1, <1>2, <1>3 DEF FileSize, Len512

(* A client frame over such a network carries its own block number. *)
LEMMA PlainFrame ==
  ASSUME PlainTransfer, NEW m \in ToClient, m.op = "DATA"
  PROVE  m.block = m.data /\ m.data \in Slots /\ m.data \in Nat /\ m.data # 0
  BY ClientFrame, ModSmall, FileAssumption DEF PlainTransfer, Slots
-----------------------------------------------------------------------------
(* The step theorem for the safety invariant, one lemma per action. *)
Safe == /\ NetInv /\ ServerInv /\ ClientInv
        /\ SuccessIsWholeFile /\ FilesizeIsWholeFile

LEMMA SafeInit == Init => Safe
  BY FileAssumption, SizeFacts
     DEF Init, TftpInit, ServerInit, Safe, NetInv, ServerInv, ClientInv, Begun,
         SuccessIsWholeFile, FilesizeIsWholeFile, Open, Free

LEMMA SafeStart == TypeInv /\ Safe /\ ClientStart => Safe'
<1> SUFFICES ASSUME TypeInv, Safe, ClientStart PROVE Safe'
  OBVIOUS
<1> DEFINE f == RrqFrame(TftpOurPort')
<1>1. TftpStart /\ net' = net \union {f} /\ UNCHANGED serverVars
  BY DEF ClientStart, NetLoopEnter, NetLoopRestart, TftpStart, Send, TftpFrame
<1>2. f.op = "RRQ" /\ f.port = TftpOurPort'
  BY DEF RrqFrame
<1>3. /\ TftpOurPort' \notin ports /\ TftpOurPort' \in ports'
      /\ ports \subseteq ports' /\ mem' = mem
  BY <1>1 DEF TftpStart
<1> HIDE DEF f
<1>4. NetInv'
  BY <1>1, <1>2, <1>3, NetGrows DEF Safe
<1>5. ServerInv'
  BY <1>1, <1>3, ServerKeeps DEF Safe
<1>6. ~Begun(TftpOurPort)'
  <2>1. \A m \in net : m.op = "ACK" => m.port \in ports
    BY DEF Safe, NetInv
  <2>2. QED
    BY <1>1, <1>2, <1>3, <2>1 DEF Begun
<1>7. ClientInv'
  BY <1>1, <1>3, <1>6, SizeFacts DEF Safe, ClientInv, TftpStart
<1>8. SuccessIsWholeFile' /\ FilesizeIsWholeFile'
  BY <1>1 DEF Safe, TftpStart, SuccessIsWholeFile, FilesizeIsWholeFile, WholeFile
<1>9. QED
  BY <1>4, <1>5, <1>7, <1>8 DEF Safe

(* Steps of the client that send nothing and store nothing: only its own   *)
(* invariants are at stake.                                                *)
LEMMA SafeSilent ==
  ASSUME Safe, UNCHANGED <<serverVars, net, mem, ports>>
  PROVE  NetInv' /\ ServerInv'
<1>1. NetInv'
  BY NetGrows DEF Safe
<1>2. ServerInv'
  BY ServerKeeps DEF Safe
<1>3. QED
  BY <1>1, <1>2

LEMMA SafeQuiet == TypeInv /\ Safe /\ ClientQuiet => Safe'
<1> SUFFICES ASSUME TypeInv, Safe, ClientQuiet PROVE Safe'
  OBVIOUS
<1>1. /\ UNCHANGED <<serverVars, net, mem, ports, TftpState, TftpServerPort,
                     TftpOurPort, TftpBlock, TftpLastBlock, TftpBlockWrap,
                     NetBootFileXferSize>>
      /\ loop # "idle" /\ loop' # "idle"
      /\ NetState' \in {NetState, "FAIL", "RESTART"}
      /\ filesize' # filesize => NetState = "SUCCESS" /\ filesize' = NetBootFileXferSize
  BY DEF ClientQuiet, TftpTimeoutGiveUp, TftpTimeoutBoot, startAgainTimeout,
         NetLoopAbort, NetLoopReturn, ReportedSize, NetStartAgain, AfterTimer
<1>2. NetInv' /\ ServerInv'
  BY <1>1, SafeSilent
<1>3. ClientInv'
  BY <1>1 DEF Safe, ClientInv, Begun
<1>4. SuccessIsWholeFile' /\ FilesizeIsWholeFile'
  BY <1>1 DEF Safe, SuccessIsWholeFile, FilesizeIsWholeFile, WholeFile
<1>5. QED
  BY <1>2, <1>3, <1>4 DEF Safe

LEMMA SafeResend ==
  ASSUME PlainTransfer, TypeInv, Safe, ClientResend
  PROVE  Safe'
<1>1. /\ UNCHANGED <<serverVars, mem, ports, TftpState, TftpServerPort,
                     TftpOurPort, TftpBlock, TftpLastBlock, TftpBlockWrap,
                     NetBootFileXferSize, NetState, filesize>>
      /\ loop = "rx" /\ loop' # "idle"
  BY DEF ClientResend, TftpTimeoutResend, AfterTimer
<1> DEFINE f == TftpFrame
<1>2. net' = net \union {f}
  BY <1>1 DEF ClientResend, Send, TftpFrame
<1>3. /\ f.op \in {"RRQ", "ACK"} /\ f.port = TftpOurPort
      /\ f.op = "ACK" => TftpState = "DATA" /\ f.block = TftpBlock
  BY DEF TftpFrame, RrqFrame, AckFrame, Safe, ClientInv, TypeInv, TypeOK
<1> HIDE DEF f
<1>4. /\ TftpOurPort \in ports
      /\ TftpState = "DATA" => TftpBlock \in Slots /\ mem[TftpBlock] = TftpBlock
      /\ TftpState = "RRQ" => ~Begun(TftpOurPort)
  BY <1>1 DEF Safe, ClientInv
<1>5. NetInv'
  BY <1>1, <1>2, <1>3, <1>4, NetGrows DEF Safe
<1>6. ServerInv'
  BY <1>1, <1>2, ServerKeeps DEF Safe
<1>7. TftpState = "RRQ" => ~Begun(TftpOurPort)'
  BY <1>1, <1>2, <1>3, <1>4 DEF Begun
<1>8. ClientInv'
  BY <1>1, <1>7 DEF Safe, ClientInv
<1>9. SuccessIsWholeFile' /\ FilesizeIsWholeFile'
  BY <1>1 DEF Safe, SuccessIsWholeFile, FilesizeIsWholeFile, WholeFile
<1>10. QED
  BY <1>5, <1>6, <1>8, <1>9 DEF Safe

(* A block is stored.  The frame itself says that the blocks before it are *)
(* in place, so the last one completes the file.                           *)
LEMMA SafeStore ==
  ASSUME PlainTransfer, TypeInv, Safe,
         NEW m \in net, m \in ToClient, HandlerDataStore(m), ClientAnswer(m)
  PROVE  Safe'
<1>1. /\ m.op = "DATA" /\ m.block = m.data /\ m.data \in Slots
      /\ m.data \in Nat /\ m.data # 0 /\ m.tid \in Tids
  BY PlainFrame, ClientFrame DEF HandlerDataStore
<1>2. /\ TftpBlockWrap' = 0 /\ TftpState' = "DATA"
      /\ TftpBlock' = m.data /\ TftpLastBlock' = m.data
      /\ UNCHANGED <<TftpOurPort, filesize, loop, ports>>
      /\ loop = "rx" /\ UNCHANGED serverVars
      /\ NetState' = IF m.data = FileBlocks THEN "SUCCESS" ELSE NetState
  BY <1>1, FileAssumption
     DEF HandlerDataStore, Accepts, WrapCount, Safe, ClientInv, ClientAnswer,
         IsLast, Len512
<1>3. /\ mem' = [s \in Slots |-> IF s = m.data THEN m.data ELSE mem[s]]
      /\ NetBootFileXferSize' =
           LET newsize == (m.data - 1) * BlockSize + Len512(m.data)
           IN  IF NetBootFileXferSize < newsize THEN newsize
                                                ELSE NetBootFileXferSize
  <2>1. m.block + TftpBlockWrap' * SeqSize = m.data
    BY <1>1, <1>2, FileAssumption
  <2>2. QED
    BY <2>1 DEF HandlerDataStore, store_block
<1>4. /\ \A s \in Slots : mem[s] = s => mem'[s] = s
      /\ mem'[m.data] = m.data
  BY <1>1, <1>3
<1>5. TftpServerPort' \in Tids
  BY <1>1 DEF HandlerDataStore, Accepts, Waiting, Safe, ClientInv, TypeInv, TypeOK
<1> DEFINE f == TftpFrame'
<1>6. f.op = "ACK" /\ f.block = m.data /\ f.port = TftpOurPort
  BY <1>2 DEF TftpFrame, AckFrame
<1>7. net' = net \union {f}
  BY DEF ClientAnswer, Send
<1> HIDE DEF f
<1>8. TftpOurPort \in ports
  BY <1>2 DEF Safe, ClientInv
<1>9. NetInv'
  BY <1>1, <1>2, <1>4, <1>6, <1>7, <1>8, NetGrows DEF Safe
<1>10. ServerInv'
  BY <1>2, <1>4, <1>7, ServerKeeps DEF Safe
<1>11. NetBootFileXferSize' \in Nat /\ NetBootFileXferSize' <= FileSize
  <2>1. (m.data - 1) * BlockSize + Len512(m.data) <= FileSize
    BY <1>1, SizeFacts
  <2>2. TypeInv'
    BY TypeAnswer
  <2>3. QED
    BY <1>3, <2>1, <2>2 DEF Safe, ClientInv, TypeInv, TypeOK
<1>12. ClientInv'
  BY <1>1, <1>2, <1>4, <1>5, <1>8, <1>11 DEF ClientInv
<1>13. m.data = FileBlocks => WholeFile' /\ NetBootFileXferSize' = FileSize
  <2> SUFFICES ASSUME m.data = FileBlocks
               PROVE  WholeFile' /\ NetBootFileXferSize' = FileSize
    OBVIOUS
  <2>1. StoredBelow(FileBlocks)
    BY <1>1 DEF Safe, NetInv
  <2>2. \A s \in Slots : s < FileBlocks \/ s = FileBlocks
    BY FileAssumption DEF Slots
  <2>3. WholeFile'
    BY <1>4, <2>1, <2>2 DEF WholeFile, StoredBelow
  <2>4. NetBootFileXferSize \in Nat /\ NetBootFileXferSize <= FileSize
    BY DEF Safe, ClientInv, TypeInv, TypeOK
  <2>5. QED
    BY <1>3, <2>3, <2>4, SizeFacts
<1>14. WholeFile => WholeFile'
  BY <1>4 DEF WholeFile
<1>15. NetState = "SUCCESS" => NetBootFileXferSize' = FileSize
  <2>1. NetState = "SUCCESS" => NetBootFileXferSize = FileSize
    BY DEF Safe, SuccessIsWholeFile
  <2>2. (m.data - 1) * BlockSize + Len512(m.data) <= FileSize
    BY <1>1, SizeFacts
  <2>3. NetBootFileXferSize \in Nat /\ NetBootFileXferSize' \in Nat
    BY <1>11 DEF TypeInv, TypeOK
  <2>4. NetBootFileXferSize' >= NetBootFileXferSize
    BY <1>3, <2>3
  <2>5. QED
    BY <1>11, <2>1, <2>3, <2>4, SizeFacts
<1>16. SuccessIsWholeFile'
  BY <1>2, <1>13, <1>14, <1>15 DEF Safe, SuccessIsWholeFile
<1>17. FilesizeIsWholeFile'
  BY <1>2, <1>14 DEF Safe, FilesizeIsWholeFile
<1>18. QED
  BY <1>9, <1>10, <1>12, <1>16, <1>17 DEF Safe

(* Without OACK no other frame makes the client answer. *)
LEMMA SafeAnswer ==
  ASSUME PlainTransfer, TypeInv, Safe,
         NEW m \in net, m \in ToClient, ClientAnswer(m)
  PROVE  Safe'
<1>1. ~HandlerOack(m)
  BY DEF Safe, NetInv, HandlerOack
<1>2. QED
  BY <1>1, SafeStore DEF ClientAnswer

(* A first block other than 1 is impossible: block n > 1 for our port was  *)
(* sent after an acknowledgement from our port, and in state RRQ there is  *)
(* none yet.                                                               *)
LEMMA FirstIsOne ==
  ASSUME PlainTransfer, TypeInv, Safe, NEW m \in net, m \in ToClient
  PROVE  ~HandlerDataNotFirst(m)
<1> SUFFICES ASSUME HandlerDataNotFirst(m) PROVE FALSE
  OBVIOUS
<1>1. m.op = "DATA" /\ m.port = TftpOurPort /\ TftpState = "RRQ" /\ m.block # 1
  BY DEF HandlerDataNotFirst, Accepts, Waiting, Safe, ClientInv
<1>2. m.data > 1
  BY <1>1, PlainFrame
<1>3. Begun(TftpOurPort)
  BY <1>1, <1>2 DEF Safe, NetInv
<1>4. QED
  BY <1>1, <1>3 DEF Safe, ClientInv

LEMMA SafeAbsorb ==
  ASSUME PlainTransfer, TypeInv, Safe,
         NEW m \in net, m \in ToClient, ClientAbsorb(m)
  PROVE  Safe'
<1>1. /\ UNCHANGED <<serverVars, net, mem, ports, TftpState, TftpServerPort,
                     TftpOurPort, TftpLastBlock, NetBootFileXferSize, filesize,
                     loop>>
      /\ NetState' \in {NetState, "FAIL", "RESTART"}
      /\ loop # "idle"
  BY FirstIsOne DEF ClientAbsorb, HandlerError, HandlerDataSame, HandlerDrop,
                    NetStartAgain, clientVars, Accepts
<1>2. /\ \/ TftpBlock' = TftpBlock
         \/ TftpState = "DATA" /\ TftpBlock' = TftpLastBlock
      /\ TftpBlockWrap' = 0
  <2>1. CASE HandlerDataSame(m)
    BY <2>1, PlainFrame
       DEF HandlerDataSame, WrapCount, Safe, ClientInv, Waiting, TypeInv, TypeOK
  <2>2. CASE HandlerError(m)
    BY <2>2 DEF HandlerError, Safe, ClientInv
  <2>3. CASE HandlerDrop(m)
    BY <2>3 DEF HandlerDrop, clientVars, Safe, ClientInv
  <2>4. QED
    BY <2>1, <2>2, <2>3, FirstIsOne DEF ClientAbsorb
<1>3. NetInv' /\ ServerInv'
  BY <1>1, SafeSilent
<1>4. ClientInv'
  BY <1>1, <1>2 DEF Safe, ClientInv, Begun
<1>5. SuccessIsWholeFile' /\ FilesizeIsWholeFile'
  BY <1>1 DEF Safe, SuccessIsWholeFile, FilesizeIsWholeFile, WholeFile
<1>6. QED
  BY <1>3, <1>4, <1>5 DEF Safe

(* The server's steps leave the client alone; what they owe is that a new  *)
(* DATA frame is backed by stored blocks.                                  *)
LEMMA ClientKeeps ==
  ASSUME Safe, UNCHANGED clientVars, net \subseteq net',
         \A m \in net' \ net : m.op # "ACK"
  PROVE  ClientInv' /\ SuccessIsWholeFile' /\ FilesizeIsWholeFile'
<1>1. \A p : Begun(p)' <=> Begun(p)
  BY DEF Begun
<1>2. ClientInv'
  BY <1>1 DEF Safe, ClientInv, clientVars
<1>3. QED
  BY <1>2 DEF Safe, SuccessIsWholeFile, FilesizeIsWholeFile, WholeFile, clientVars

(* Transfer t moves to position n, with frame f for it when it stays open. *)
LEMMA ServerMoves ==
  ASSUME TypeInv, Safe, UNCHANGED clientVars, NEW t \in Tids, NEW n \in 1..Closed,
         spos' = [spos EXCEPT ![t] = n],
         sport' \in [Tids -> Ports \union {NoPort}],
         \A u \in Tids \ {t} : sport'[u] = sport[u],
         net \subseteq net',
         n # Closed => /\ StoredBelow(n)
                       /\ n > 1 => Begun(sport'[t]),
         \A m \in net' \ net :
            \/ m.op = "ERROR"
            \/ m.op = "DATA" /\ n # Closed /\ m.data = n /\ m.port = sport'[t]
  PROVE  Safe'
<1>1. /\ mem' = mem /\ ports' = ports
  BY DEF clientVars
<1>2. NetInv'
  <2>1. \A m \in net' \ net :
            /\ m.op \notin {"OACK", "ACK", "RRQ"}
            /\ m.op = "DATA" => /\ StoredBelow(m.data)'
                                /\ m.data > 1 => Begun(m.port)'
    BY <1>1, StoredMono, BegunMono
  <2>2. QED
    BY <1>1, <2>1, NetGrows DEF Safe
<1>3. ServerInv'
  <2> SUFFICES ASSUME NEW u \in Tids
               PROVE  /\ spos'[u] # 0
                      /\ Open(u)' => StoredBelow(spos[u])'
                      /\ Open(u)' /\ spos'[u] > 1 => Begun(sport[u])'
    BY DEF ServerInv
  <2>1. CASE u = t
    <3>1. spos'[u] = n
      BY <2>1 DEF TypeInv, TypeOK
    <3>2. Open(u)' => n # Closed
      BY <3>1, FileAssumption DEF Open, Closed
    <3>3. n # Closed => StoredBelow(spos[u])'
      BY <1>1, <3>1 DEF StoredBelow
    <3>4. n # Closed /\ n > 1 => Begun(sport[u])'
      BY <2>1 DEF Begun
    <3>5. QED
      BY <3>1, <3>2, <3>3, <3>4, FileAssumption DEF Closed
  <2>2. CASE u # t
    <3>1. spos'[u] = spos[u] /\ sport'[u] = sport[u]
      BY <2>2 DEF TypeInv, TypeOK
    <3>2. /\ spos[u] # 0
          /\ Open(u) => StoredBelow(spos[u])
          /\ Open(u) /\ spos[u] > 1 => Begun(sport[u])
      BY DEF Safe, ServerInv
    <3>3. Open(u)' <=> Open(u)
      BY <3>1 DEF Open
    <3>4. Open(u) => StoredBelow(spos[u])'
      BY <1>1, <3>1, <3>2 DEF StoredBelow
    <3>5. Open(u) /\ spos[u] > 1 => Begun(sport[u])'
      BY <3>1, <3>2 DEF Begun
    <3>6. QED
      BY <3>1, <3>2, <3>3, <3>4, <3>5
  <2>3. QED
    BY <2>1, <2>2
<1>4. ClientInv' /\ SuccessIsWholeFile' /\ FilesizeIsWholeFile'
  BY ClientKeeps
<1>5. QED
  BY <1>2, <1>3, <1>4 DEF Safe

LEMMA SafeServer == ASSUME PlainTransfer, TypeInv, Safe, Server PROVE Safe'
<1>0. UNCHANGED clientVars /\ TypeInv'
  BY TypeServer DEF Server
<1> USE DEF Closed
<1>1. ASSUME NEW m \in net, NEW t \in Tids, Opened(m, t) PROVE Safe'
  <2>1. /\ spos' = [spos EXCEPT ![t] = 1] /\ spos'[t] = 1
        /\ sport' = [sport EXCEPT ![t] = m.port]
        /\ net' = net \union {ServerFrame(t)'}
    BY <1>1 DEF Opened, ServerOpen, Send, PlainTransfer, TypeInv, TypeOK
  <2>2. ServerFrame(t)'.op = "DATA" /\ ServerFrame(t)'.data = 1
        /\ ServerFrame(t)'.port = sport'[t]
    BY <2>1 DEF ServerFrame, DataFrame
  <2>3. StoredBelow(1)
    BY FileAssumption DEF StoredBelow, Slots
  <2>4. sport' \in [Tids -> Ports \union {NoPort}]
    BY <1>0 DEF TypeInv, TypeOK
  <2>5. \A u \in Tids \ {t} : sport'[u] = sport[u]
    BY <2>1 DEF TypeInv, TypeOK
  <2> DEFINE n == 1
  <2>6. n \in 1..Closed /\ n # Closed /\ ~(n > 1) /\ StoredBelow(n)
    BY <2>3, FileAssumption
  <2>7. /\ \A x \in net' \ net : /\ x.op = "DATA" /\ n # Closed
                                  /\ x.data = n /\ x.port = sport'[t]
        /\ net \subseteq net'
    BY <2>1, <2>2, <2>6
  <2>8. spos' = [spos EXCEPT ![t] = n]
    BY <2>1
  <2> HIDE DEF n
  <2>9. QED
    BY <1>0, <2>4, <2>5, <2>6, <2>7, <2>8, ServerMoves
<1>2. ASSUME NEW m \in net, NEW t \in Tids, Refused(m, t) PROVE Safe'
  <2>1. /\ spos' = [spos EXCEPT ![t] = Closed]
        /\ sport' = [sport EXCEPT ![t] = m.port]
        /\ net' = net \union {ErrorFrame(t, m.port)}
    BY <1>2 DEF Refused, ServerRefuse, Send
  <2>2. ErrorFrame(t, m.port).op = "ERROR"
    BY DEF ErrorFrame
  <2>3. \A x \in net' \ net : x.op = "ERROR"
    BY <2>1, <2>2
  <2>4. sport' \in [Tids -> Ports \union {NoPort}]
    BY <1>0 DEF TypeInv, TypeOK
  <2>5. \A u \in Tids \ {t} : sport'[u] = sport[u]
    BY <2>1 DEF TypeInv, TypeOK
  <2>6. Closed \in 1..Closed
    BY FileAssumption
  <2>7. net \subseteq net'
    BY <2>1
  <2>8. QED
    BY <1>0, <2>1, <2>3, <2>4, <2>5, <2>6, <2>7, ServerMoves
<1>3. ASSUME NEW m \in net, Acked(m) PROVE Safe'
  <2> DEFINE t == m.tid
             n == spos[t] + 1
  <2>1. /\ m.op = "ACK" /\ m.port = sport[t] /\ Open(t)
        /\ m.block = spos[t] % SeqSize
    BY <1>3 DEF Acked, ServerAck, AckExpected
  <2>2. t \in Tids
    BY <2>1 DEF TypeInv, TypeOK, ToClient, ToServer, RrqFrame, AckFrame,
                DataFrame, OackFrame, ErrorFrame
  <2>3. /\ spos' = [spos EXCEPT ![t] = n] /\ spos'[t] = n /\ sport' = sport
        /\ IF n = Closed THEN net' = net ELSE net' = net \union {ServerFrame(t)'}
    BY <1>3, <2>2 DEF Acked, ServerAck, AckExpected, Send, TypeInv, TypeOK
  <2>4. spos[t] \in Slots /\ n \in 1..Closed /\ n > 1
    BY <2>1, <2>2, FileAssumption
       DEF Safe, ServerInv, Open, Slots, TypeInv, TypeOK
  <2>5. mem[spos[t]] = spos[t]
    <3>1. m.block = spos[t]
      BY <2>1, <2>4, ModSmall DEF PlainTransfer
    <3>2. QED
      BY <2>1, <3>1 DEF Safe, NetInv
  <2>6. StoredBelow(n)
    <3>1. StoredBelow(spos[t])
      BY <2>1, <2>2 DEF Safe, ServerInv
    <3>2. \A j \in Slots : j < n => j < spos[t] \/ j = spos[t]
      BY <2>4 DEF Slots
    <3>3. QED
      BY <2>5, <3>1, <3>2 DEF StoredBelow
  <2>7. Begun(sport'[t])
    BY <2>1, <2>3 DEF Begun
  <2>8. n # Closed => /\ ServerFrame(t)'.op = "DATA" /\ ServerFrame(t)'.data = n
                      /\ ServerFrame(t)'.port = sport'[t]
    BY <2>3, <2>4 DEF ServerFrame, DataFrame
  <2>9. /\ \A x \in net' \ net : /\ x.op = "DATA" /\ n # Closed
                                   /\ x.data = n /\ x.port = sport'[t]
        /\ net \subseteq net'
    BY <2>3, <2>8
  <2>10. sport' \in [Tids -> Ports \union {NoPort}]
    BY <1>0 DEF TypeInv, TypeOK
  <2> HIDE DEF n, t
  <2>11. QED
    BY <1>0, <2>2, <2>3, <2>4, <2>6, <2>7, <2>9, <2>10, ServerMoves
<1>4. ASSUME NEW t \in Tids, Aborted(t) PROVE Safe'
  <2>1. /\ spos' = [spos EXCEPT ![t] = Closed] /\ sport' = sport
        /\ net' = net \union {ErrorFrame(t, sport[t])}
    BY <1>4 DEF Aborted, ServerAbort, Send
  <2>2. ErrorFrame(t, sport[t]).op = "ERROR"
    BY DEF ErrorFrame
  <2>3. (\A x \in net' \ net : x.op = "ERROR") /\ net \subseteq net'
    BY <2>1, <2>2
  <2>4. sport' \in [Tids -> Ports \union {NoPort}]
    BY <1>0 DEF TypeInv, TypeOK
  <2>5. Closed \in 1..Closed
    BY FileAssumption
  <2>6. QED
    BY <1>0, <2>1, <2>3, <2>4, <2>5, ServerMoves
<1>5. QED
  BY <1>1, <1>2, <1>3, <1>4 DEF Server

LEMMA SafeStep ==
  ASSUME PlainTransfer
  PROVE  TypeInv /\ Safe /\ [Next]_vars => Safe'
<1> SUFFICES ASSUME TypeInv, Safe, [Next]_vars PROVE Safe'
  OBVIOUS
<1>1. CASE Client
  BY <1>1, SafeStart, SafeResend, SafeQuiet, SafeAnswer, SafeAbsorb DEF Client
<1>2. CASE Server
  BY <1>2, SafeServer
<1>3. CASE Terminated \/ UNCHANGED vars
  <2>1. UNCHANGED vars
    BY <1>3 DEF Terminated
  <2>2. NetInv' /\ ServerInv'
    BY <2>1, SafeSilent DEF vars, clientVars
  <2>3. ClientInv' /\ SuccessIsWholeFile' /\ FilesizeIsWholeFile'
    BY <2>1, ClientKeeps DEF vars
  <2>4. QED
    BY <2>2, <2>3 DEF Safe
<1>4. QED
  BY <1>1, <1>2, <1>3 DEF Next

(* Over any network, with a server that ignores the option and a file      *)
(* whose block numbers do not wrap, in recovery or not: the invariant      *)
(* holds, for files of any length and any number of starts and servers.    *)
THEOREM Invariance == ASSUME PlainTransfer PROVE Spec => []IInv
<1>1. Init => TypeInv /\ Safe
  BY TypeInit, SafeInit
<1>2. TypeInv /\ Safe /\ [Next]_vars => (TypeInv /\ Safe)'
  BY TypeStep, SafeStep
<1>3. TypeInv /\ Safe => IInv
  BY DEF Safe, IInv
<1>4. QED
  BY <1>1, <1>2, <1>3, PTL DEF Spec

(* A success is reported only with the whole file in RAM and its exact     *)
(* size, and so is filesize.                                               *)
THEOREM SuccessMeansWholeFile ==
  ASSUME PlainTransfer
  PROVE  Spec => [](SuccessIsWholeFile /\ FilesizeIsWholeFile)
<1>1. IInv => SuccessIsWholeFile /\ FilesizeIsWholeFile
  BY DEF IInv
<1>2. QED
  BY <1>1, Invariance, PTL

(* Every block the client acknowledges is stored. *)
THEOREM AcknowledgedIsStored == ASSUME PlainTransfer PROVE Spec => []AckedIsStored
<1>1. IInv => AckedIsStored
  BY DEF IInv, NetInv, AckedIsStored
<1>2. QED
  BY <1>1, Invariance, PTL
-----------------------------------------------------------------------------
(* The refinement, step by step. *)
LEMMA RunningStep ==
  ASSUME loop \in {"idle", "rx", "switch"}, loop' \in {"idle", "rx", "switch"},
         UNCHANGED <<mem, filesize>>
  PROVE  UNCHANGED Transfer!vars
  BY DEF Outcome, Transfer!vars

LEMMA StoreStep ==
  ASSUME PlainTransfer, TypeInv, Safe,
         NEW m \in net, m \in ToClient, HandlerDataStore(m)
  PROVE  Transfer!Next
<1>1. m.op = "DATA" /\ m.block = m.data /\ m.data \in Slots /\ m.data # 0
  BY PlainFrame DEF HandlerDataStore
<1>2. TftpBlockWrap' = 0 /\ loop = "rx" /\ loop' = "rx" /\ filesize' = filesize
  BY <1>1 DEF HandlerDataStore, Accepts, WrapCount, Safe, ClientInv
<1>3. m.block + TftpBlockWrap' * SeqSize = m.data
  BY <1>1, <1>2, FileAssumption DEF Slots
<1>4. mem' = [s \in Slots |-> IF s = m.data THEN m.data ELSE mem[s]]
  BY <1>3 DEF HandlerDataStore, store_block
<1>5. mem' = [mem EXCEPT ![m.data] = m.data]
  BY <1>1, <1>4 DEF TypeInv, TypeOK
<1>6. Outcome = "running" /\ Outcome' = "running"
  BY <1>2 DEF Outcome
<1>7. Transfer!Receive
  BY <1>1, <1>2, <1>5, <1>6 DEF Transfer!Receive, Slots
<1>8. QED
  BY <1>7 DEF Transfer!Next

LEMMA EndStep ==
  ASSUME TypeInv, Safe, ClientQuiet, ~(loop' \in {"idle", "rx", "switch"})
  PROVE  Transfer!Next
<1>1. /\ loop \in {"rx", "switch"} /\ Outcome = "running"
      /\ mem' = mem
  BY DEF ClientQuiet, TftpTimeoutGiveUp, TftpTimeoutBoot, startAgainTimeout,
         NetLoopAbort, NetLoopReturn, AfterTimer, Outcome
<1>2. CASE loop' = "done" /\ NetState = "SUCCESS"
  <2>1. NetLoopReturn
    BY <1>2 DEF ClientQuiet, TftpTimeoutGiveUp, TftpTimeoutBoot,
                startAgainTimeout, NetLoopAbort, AfterTimer
  <2>2. filesize' = FileSize
    <3>1. NetBootFileXferSize = FileSize /\ (filesize # 0 => filesize = FileSize)
      BY <1>2 DEF Safe, SuccessIsWholeFile, FilesizeIsWholeFile
    <3>2. NetBootFileXferSize \in Nat /\ filesize \in Nat
      BY DEF TypeInv, TypeOK
    <3>3. QED
      BY <1>2, <2>1, <3>1, <3>2 DEF NetLoopReturn, ReportedSize
  <2>3. \A s \in 1..FileBlocks : mem[s] = s
    BY <1>2 DEF Safe, SuccessIsWholeFile, WholeFile, Slots
  <2>4. Outcome' = "complete"
    BY <1>2, <2>1 DEF NetLoopReturn, Outcome
  <2>5. Transfer!Complete
    BY <1>1, <2>2, <2>3, <2>4 DEF Transfer!Complete
  <2>6. QED
    BY <2>5 DEF Transfer!Next
<1>3. CASE ~(loop' = "done" /\ NetState = "SUCCESS")
  <2>1. /\ loop' \in {"done", "abort", "bootm"}
        /\ loop' = "done" => NetState' = NetState
        /\ filesize' = filesize
    BY <1>3 DEF ClientQuiet, TftpTimeoutGiveUp, TftpTimeoutBoot,
                startAgainTimeout, NetLoopAbort, NetLoopReturn, ReportedSize,
                AfterTimer
  <2>2. Outcome' = "given up"
    BY <1>3, <2>1 DEF Outcome
  <2>3. Transfer!GiveUp
    BY <1>1, <2>1, <2>2 DEF Transfer!GiveUp
  <2>4. QED
    BY <2>3 DEF Transfer!Next
<1>4. QED
  BY <1>2, <1>3

LEMMA RefinementStep ==
  ASSUME PlainTransfer
  PROVE  TypeInv /\ Safe /\ [Next]_vars => [Transfer!Next]_(Transfer!vars)
<1> SUFFICES ASSUME TypeInv, Safe, [Next]_vars
             PROVE  [Transfer!Next]_(Transfer!vars)
  OBVIOUS
<1>1. CASE ClientStart \/ ClientResend
  <2>1. /\ loop \in {"idle", "rx", "switch"} /\ loop' \in {"idle", "rx", "switch"}
        /\ UNCHANGED <<mem, filesize>>
    BY <1>1 DEF ClientStart, NetLoopEnter, NetLoopRestart, TftpStart,
                ClientResend, TftpTimeoutResend, AfterTimer
  <2>2. QED
    BY <2>1, RunningStep
<1>2. CASE ClientQuiet
  <2>1. CASE loop' \in {"idle", "rx", "switch"}
    <3>1. loop = "rx" /\ UNCHANGED <<mem, filesize>>
      BY <1>2, <2>1
         DEF ClientQuiet, TftpTimeoutGiveUp, TftpTimeoutBoot, startAgainTimeout,
             NetLoopAbort, NetLoopReturn, AfterTimer
    <3>2. QED
      BY <2>1, <3>1, RunningStep
  <2>2. CASE ~(loop' \in {"idle", "rx", "switch"})
    BY <1>2, <2>2, EndStep
  <2>3. QED
    BY <2>1, <2>2
<1>3. ASSUME NEW m \in net, m \in ToClient, ClientAnswer(m)
      PROVE  [Transfer!Next]_(Transfer!vars)
  <2>1. ~HandlerOack(m)
    BY DEF Safe, NetInv, HandlerOack
  <2>2. HandlerDataStore(m)
    BY <1>3, <2>1 DEF ClientAnswer
  <2>3. QED
    BY <1>3, <2>2, StoreStep
<1>4. ASSUME NEW m \in net, ClientAbsorb(m)
      PROVE  [Transfer!Next]_(Transfer!vars)
  <2>1. loop = "rx" /\ loop' = "rx" /\ UNCHANGED <<mem, filesize>>
    BY <1>4 DEF ClientAbsorb, HandlerError, HandlerDataNotFirst,
                HandlerDataSame, HandlerDrop, Accepts, clientVars
  <2>2. QED
    BY <2>1, RunningStep
<1>5. CASE Server \/ Terminated \/ UNCHANGED vars
  BY <1>5 DEF Server, Terminated, vars, clientVars, Transfer!vars, Outcome
<1>6. QED
  BY <1>1, <1>2, <1>3, <1>4, <1>5 DEF Next, Client

(* The client implements FileTransfer under the same assumptions: its      *)
(* caller sees blocks appear in their places and then one verdict, which   *)
(* is "complete" only for a complete file.                                 *)
THEOREM Refinement == ASSUME PlainTransfer PROVE Spec => ImplementsFileTransfer
<1>1. Init => Transfer!Init
  BY DEF Init, TftpInit, Transfer!Init, Outcome, Slots
<1>2. Spec => [](TypeInv /\ Safe)
  BY TypeInit, SafeInit, TypeStep, SafeStep, PTL DEF Spec
<1>3. QED
  BY <1>1, <1>2, RefinementStep, PTL DEF Spec, ImplementsFileTransfer, Transfer!Spec
-----------------------------------------------------------------------------
(***************************************************************************)
(* One Ethernet segment (TftpLan): the server may accept the option, so    *)
(* OACK frames travel with the others.                                     *)
(***************************************************************************)

(* A frame is taken from the head of a queue. *)
LEMMA QueueTail ==
  ASSUME NEW S, NEW ch \in Seq(S), ch # <<>>
  PROVE  /\ Head(ch) \in S /\ Head(ch) \in On(ch)
         /\ Tail(ch) \in Seq(S) /\ On(Tail(ch)) \subseteq On(ch)
<1>1. /\ Len(ch) \in Nat /\ Len(ch) > 0 /\ Head(ch) = ch[1] /\ ch[1] \in S
      /\ Tail(ch) \in Seq(S) /\ Len(Tail(ch)) = Len(ch) - 1
      /\ \A i \in 1..(Len(ch) - 1) : Tail(ch)[i] = ch[i + 1]
  OBVIOUS
<1>2. QED
  BY <1>1 DEF On

LEMMA OrderTail ==
  ASSUME NEW S, NEW ch \in Seq(S), ch # <<>>, InOrder(ch)
  PROVE  /\ InOrder(Tail(ch))
         /\ Head(ch).op = "DATA" =>
              \A m \in On(Tail(ch)) : m.op = "OACK" => m.tid # Head(ch).tid
<1>1. /\ Len(ch) \in Nat /\ Len(ch) > 0 /\ Head(ch) = ch[1]
      /\ Len(Tail(ch)) = Len(ch) - 1
      /\ \A i \in 1..(Len(ch) - 1) : Tail(ch)[i] = ch[i + 1]
  OBVIOUS
<1>2. InOrder(Tail(ch))
  <2> SUFFICES ASSUME NEW i \in 1..(Len(ch) - 1), NEW j \in 1..(Len(ch) - 1), i < j,
                      Tail(ch)[i].op = "DATA", Tail(ch)[j].op = "OACK"
               PROVE  Tail(ch)[i].tid # Tail(ch)[j].tid
    BY <1>1 DEF InOrder
  <2>1. /\ Tail(ch)[i] = ch[i + 1] /\ Tail(ch)[j] = ch[j + 1]
        /\ i + 1 \in 1..Len(ch) /\ j + 1 \in 1..Len(ch) /\ i + 1 < j + 1
    BY <1>1
  <2>2. QED
    BY <2>1 DEF InOrder
<1>3. ASSUME Head(ch).op = "DATA", NEW m \in On(Tail(ch)), m.op = "OACK"
      PROVE  m.tid # Head(ch).tid
  <2>1. PICK i \in 1..(Len(ch) - 1) : m = ch[i + 1]
    BY <1>1 DEF On
  <2>2. 1 \in 1..Len(ch) /\ i + 1 \in 1..Len(ch) /\ 1 < i + 1
    BY <1>1
  <2>3. QED
    BY <1>1, <1>3, <2>1, <2>2 DEF InOrder
<1>4. QED
  BY <1>2, <1>3

(* A frame is put at its end. *)
LEMMA QueuePut ==
  ASSUME NEW S, NEW ch \in Seq(S), NEW m \in S
  PROVE  Put(ch, m) \in Seq(S) /\ On(Put(ch, m)) \subseteq On(ch) \union {m}
<1>1. /\ Append(ch, m) \in Seq(S) /\ Len(Append(ch, m)) = Len(ch) + 1
      /\ Len(ch) \in Nat /\ Append(ch, m)[Len(ch) + 1] = m
      /\ \A i \in 1..Len(ch) : Append(ch, m)[i] = ch[i]
  OBVIOUS
<1>2. On(Append(ch, m)) \subseteq On(ch) \union {m}
  BY <1>1 DEF On
<1>3. QED
  BY <1>1, <1>2 DEF Put

LEMMA OrderPut ==
  ASSUME NEW S, NEW ch \in Seq(S), NEW m \in S, InOrder(ch),
         m.op = "OACK" => \A x \in On(ch) : x.op = "DATA" => x.tid # m.tid
  PROVE  InOrder(Put(ch, m))
<1>1. /\ Len(Append(ch, m)) = Len(ch) + 1
      /\ Len(ch) \in Nat /\ Append(ch, m)[Len(ch) + 1] = m
      /\ \A i \in 1..Len(ch) : Append(ch, m)[i] = ch[i] /\ ch[i] \in On(ch)
  BY DEF On
<1> DEFINE c == Append(ch, m)
<1>2. InOrder(c)
  <2> SUFFICES ASSUME NEW i \in 1..(Len(ch) + 1), NEW j \in 1..(Len(ch) + 1), i < j,
                      c[i].op = "DATA", c[j].op = "OACK"
               PROVE  c[i].tid # c[j].tid
    BY <1>1 DEF InOrder
  <2>1. i \in 1..Len(ch) /\ c[i] = ch[i] /\ c[i] \in On(ch)
    BY <1>1
  <2>2. CASE j \in 1..Len(ch)
    BY <1>1, <2>1, <2>2 DEF InOrder
  <2>3. CASE j = Len(ch) + 1
    BY <1>1, <2>1, <2>3
  <2>4. QED
    BY <2>2, <2>3
<1>3. QED
  BY <1>2 DEF Put
-----------------------------------------------------------------------------
(* The client is under way at p after the step. *)
WillBeUnderway(p) ==
  p \in ports' /\ (p = TftpOurPort' => TftpState' = "DATA")

(* What no step takes back. *)
Grows ==
  /\ \A s \in Slots : mem[s] = s => mem'[s] = s
  /\ \A p \in Ports : Underway(p) => WillBeUnderway(p)
  /\ ports \subseteq ports'
  /\ \A t \in Tids : spos[t] > 0 => spos'[t] > 0

LEMMA DownGrows ==
  ASSUME LanTypeOK, DownInv, Grows, InOrder(down)',
         \A m \in On(down)' \ On(down) :
            m.op = "DATA" => /\ StoredBelow(m.data)' /\ spos'[m.tid] > 0
                             /\ m.data > 1 => WillBeUnderway(m.port)
  PROVE  DownInv'
<1> SUFFICES ASSUME NEW m \in On(down)', m.op = "DATA"
             PROVE  /\ StoredBelow(m.data)' /\ spos'[m.tid] > 0
                    /\ m.data > 1 => WillBeUnderway(m.port)
  BY DEF DownInv, Underway, WillBeUnderway
<1>1. CASE m \in On(down)
  <2>1. m.tid \in Tids /\ m.port \in Ports
    <3>1. m \in ToClient
      BY <1>1 DEF LanTypeOK, On
    <3>2. QED
      BY <3>1, ClientFrame
  <2>2. StoredBelow(m.data) /\ spos[m.tid] > 0 /\ (m.data > 1 => Underway(m.port))
    BY <1>1 DEF DownInv
  <2>3. StoredBelow(m.data)'
    BY <2>2, StoredMono DEF Grows
  <2>4. QED
    BY <2>1, <2>2, <2>3 DEF Grows
<1>2. CASE m \notin On(down)
  BY <1>2
<1>3. QED
  BY <1>1, <1>2

LEMMA UpGrows ==
  ASSUME LanTypeOK, UpInv, Grows,
         \A m \in On(up)' \ On(up) :
            /\ m.port \in ports'
            /\ m.op = "ACK" /\ m.block # 0 => /\ m.block \in Slots
                                              /\ mem'[m.block] = m.block
                                              /\ WillBeUnderway(m.port)
  PROVE  UpInv'
<1> SUFFICES ASSUME NEW m \in On(up)'
             PROVE  /\ m.port \in ports'
                    /\ m.op = "ACK" /\ m.block # 0 => /\ m.block \in Slots
                                                      /\ mem'[m.block] = m.block
                                                      /\ WillBeUnderway(m.port)
  BY DEF UpInv, Underway, WillBeUnderway
<1>1. CASE m \in On(up)
  <2>1. /\ m.port \in ports
        /\ m.op = "ACK" /\ m.block # 0 => /\ m.block \in Slots
                                          /\ mem[m.block] = m.block
                                          /\ Underway(m.port)
    BY <1>1 DEF UpInv
  <2>2. m.port \in Ports
    BY <2>1 DEF LanTypeOK
  <2>3. QED
    BY <2>1, <2>2 DEF Grows
<1>2. CASE m \notin On(up)
  BY <1>2
<1>3. QED
  BY <1>1, <1>2

LEMMA TransfersKeep ==
  ASSUME LanTypeOK, TransferInv, Grows, UNCHANGED serverVars
  PROVE  TransferInv'
<1> SUFFICES ASSUME NEW t \in Tids, Open(t)'
             PROVE  /\ StoredBelow(spos[t])'
                    /\ spos'[t] > 1 => Underway(sport[t])'
  BY DEF TransferInv
<1>1. spos' = spos /\ sport' = sport /\ Open(t)
  BY DEF serverVars, Open
<1>2. StoredBelow(spos[t]) /\ (spos[t] > 1 => Underway(sport[t]))
  BY <1>1 DEF TransferInv
<1>3. sport[t] \in Ports
  BY <1>1, FileAssumption DEF LanTypeOK, Open, Free
<1>4. StoredBelow(spos[t])'
  BY <1>1, <1>2, StoredMono DEF Grows, StoredBelow
<1>5. spos[t] > 1 => Underway(sport[t])'
  BY <1>1, <1>2, <1>3 DEF Grows, Underway, WillBeUnderway
<1>6. QED
  BY <1>1, <1>4, <1>5

(* The frame of TftpSend, when the client has moved to a sound state. *)
LEMMA UpSent ==
  ASSUME SeqSize > FileBlocks, LanTypeOK, UpInv, Grows, ReceiverInv',
         up' = Put(up, TftpFrame'),
         TftpState' \in {"RRQ", "OACK", "DATA"},
         TftpState' # "RRQ" => TftpServerPort' \in Tids,
         TftpOurPort' \in ports', ports' \subseteq Ports
  PROVE  up' \in Seq(ToServer) /\ UpInv'
<1> DEFINE f == TftpFrame'
<1>1. TftpBlock' \in 0..(SeqSize - 1)
  BY FileAssumption DEF ReceiverInv, Slots
<1>2. /\ f \in ToServer /\ f.port = TftpOurPort'
      /\ f.op = "ACK" /\ f.block # 0 => TftpState' = "DATA" /\ f.block = TftpBlock'
  BY <1>1 DEF TftpFrame, ToServer, RrqFrame, AckFrame, ReceiverInv
<1>3. up' = Put(up, f)
  OBVIOUS
<1> HIDE DEF f
<1>4. up' \in Seq(ToServer) /\ On(up)' \subseteq On(up) \union {f}
  BY <1>2, <1>3, QueuePut DEF LanTypeOK
<1>5. f.op = "ACK" /\ f.block # 0 => /\ f.block \in Slots
                                     /\ mem'[f.block] = f.block
                                     /\ WillBeUnderway(f.port)
  BY <1>2 DEF ReceiverInv, WillBeUnderway
<1>6. UpInv'
  BY <1>2, <1>4, <1>5, UpGrows
<1>7. QED
  BY <1>4, <1>6
-----------------------------------------------------------------------------
(* The step theorem for LanInv, one lemma per action. *)
LEMMA LanInitially == LanInit => LanInv
<1> SUFFICES ASSUME LanInit PROVE LanInv
  OBVIOUS
<1>1. up = <<>> /\ down = <<>> /\ On(up) = {} /\ On(down) = {}
  BY DEF LanInit, On
<1>2. LanTypeOK
  BY <1>1, FileAssumption, PortAssumption, SizeFacts
     DEF LanInit, TftpInit, ServerInit, LanTypeOK, Free, Closed, Slots
<1>3. DownInv /\ UpInv /\ OackInv
  BY <1>1 DEF DownInv, UpInv, OackInv, InOrder
<1>4. TransferInv /\ ReceiverInv /\ ReportsWholeFile
  BY FileAssumption
     DEF LanInit, TftpInit, ServerInit, TransferInv, ReceiverInv,
         ReportsWholeFile, Open, Free
<1>5. QED
  BY <1>2, <1>3, <1>4 DEF LanInv

LEMMA LanStarts ==
  ASSUME SeqSize > FileBlocks, LanInv, LanStart
  PROVE  LanInv'
<1>1. /\ TftpStart /\ up' = Put(up, TftpFrame')
      /\ UNCHANGED <<serverVars, down>>
  BY DEF LanStart, NetLoopEnter, NetLoopRestart
<1>2. /\ TftpState' = "RRQ" /\ TftpBlock' = 0 /\ NetState' = "CONTINUE"
      /\ TftpOurPort' \in Ports /\ TftpOurPort' \notin ports
      /\ ports' = ports \union {TftpOurPort'} /\ loop' = "rx"
      /\ NetBootFileXferSize' = 0
      /\ UNCHANGED <<TftpBlockWrap, filesize, mem>>
  BY <1>1 DEF TftpStart
<1>3. Grows
  BY <1>1, <1>2 DEF Grows, Underway, WillBeUnderway, serverVars
<1>4. ReceiverInv'
  BY <1>2 DEF LanInv, ReceiverInv
<1>5. up' \in Seq(ToServer) /\ UpInv'
  BY <1>1, <1>2, <1>3, <1>4, UpSent DEF LanInv, LanTypeOK
<1>6. DownInv'
  BY <1>1, <1>3, DownGrows DEF LanInv, DownInv
<1>7. TransferInv'
  BY <1>1, <1>3, TransfersKeep DEF LanInv
<1>8. OackInv' /\ ReportsWholeFile'
  BY <1>2 DEF LanInv, OackInv, ReportsWholeFile, WholeFile
<1>9. LanTypeOK'
  BY <1>1, <1>2, <1>5, SizeFacts DEF LanInv, LanTypeOK, serverVars
<1>10. QED
  BY <1>4, <1>5, <1>6, <1>7, <1>8, <1>9 DEF LanInv

(* Steps of the client that leave the transfer and the queue to it alone.  *)
LEMMA LanClientRests ==
  ASSUME SeqSize > FileBlocks, LanInv,
         UNCHANGED <<serverVars, down, mem, ports, TftpState, TftpServerPort,
                     TftpOurPort, TftpBlock, TftpLastBlock, TftpBlockWrap,
                     NetBootFileXferSize>>,
         loop # "idle", loop' # "idle",
         up' \in {up, Put(up, TftpFrame')},
         NetState' \in {NetState, "FAIL", "RESTART"},
         filesize' # filesize =>
           NetState = "SUCCESS" /\ filesize' = NetBootFileXferSize
  PROVE  LanInv'
<1>1. Grows
  BY DEF Grows, Underway, WillBeUnderway, serverVars
<1>2. ReceiverInv'
  BY DEF LanInv, ReceiverInv, serverVars
<1>3. up' \in Seq(ToServer) /\ UpInv'
  <2>1. CASE up' = up
    BY <1>1, <2>1, UpGrows DEF LanInv, LanTypeOK
  <2>2. CASE up' = Put(up, TftpFrame')
    BY <1>1, <1>2, <2>2, UpSent DEF LanInv, LanTypeOK
  <2>3. QED
    BY <2>1, <2>2
<1>4. DownInv'
  BY <1>1, DownGrows DEF LanInv, DownInv
<1>5. TransferInv'
  BY <1>1, TransfersKeep DEF LanInv
<1>6. OackInv'
  BY DEF LanInv, OackInv
<1>7. ReportsWholeFile'
  BY DEF LanInv, ReportsWholeFile, WholeFile
<1>8. LanTypeOK'
  BY <1>3 DEF LanInv, LanTypeOK, serverVars
<1>9. QED
  BY <1>2, <1>3, <1>4, <1>5, <1>6, <1>7, <1>8 DEF LanInv

LEMMA LanResends ==
  ASSUME SeqSize > FileBlocks, LanInv, LanResend
  PROVE  LanInv'
<1>1. /\ UNCHANGED <<serverVars, down, mem, ports, TftpState, TftpServerPort,
                     TftpOurPort, TftpBlock, TftpLastBlock, TftpBlockWrap,
                     NetBootFileXferSize>>
      /\ loop # "idle" /\ loop' # "idle"
      /\ up' = Put(up, TftpFrame')
      /\ NetState' = NetState /\ filesize' = filesize
  BY DEF LanResend, TftpTimeoutResend, AfterTimer
<1>2. QED
  BY <1>1, LanClientRests

LEMMA LanIsQuiet ==
  ASSUME SeqSize > FileBlocks, LanInv, LanTimeout \/ LanReturn
  PROVE  LanInv'
<1>1. /\ UNCHANGED <<serverVars, up, down, mem, ports, TftpState, TftpServerPort,
                     TftpOurPort, TftpBlock, TftpLastBlock, TftpBlockWrap,
                     NetBootFileXferSize>>
      /\ loop # "idle" /\ loop' # "idle"
      /\ NetState' \in {NetState, "FAIL", "RESTART"}
      /\ filesize' # filesize =>
           NetState = "SUCCESS" /\ filesize' = NetBootFileXferSize
  BY DEF LanTimeout, LanReturn, TftpTimeoutGiveUp, TftpTimeoutBoot,
         startAgainTimeout, NetLoopAbort, NetLoopReturn, ReportedSize,
         NetStartAgain, AfterTimer
<1>2. QED
  BY <1>1, LanClientRests

(* The frame the client takes, and what is behind it in the queue. *)
LEMMA LanFrame ==
  ASSUME SeqSize > FileBlocks, LanInv, down # <<>>
  PROVE  LET m == Head(down) IN
         /\ m \in ToClient /\ m \in On(down) /\ m.tid \in Tids
         /\ Tail(down) \in Seq(ToClient) /\ On(Tail(down)) \subseteq On(down)
         /\ InOrder(Tail(down))
         /\ m.op = "DATA" =>
              /\ m.data \in Slots /\ m.block = m.data
              /\ StoredBelow(m.data) /\ spos[m.tid] > 0
              /\ m.data > 1 => Underway(m.port)
              /\ \A x \in On(Tail(down)) : x.op = "OACK" => x.tid # m.tid
<1> DEFINE m == Head(down)
<1>1. down \in Seq(ToClient) /\ InOrder(down)
  BY DEF LanInv, LanTypeOK, DownInv
<1>2. /\ m \in ToClient /\ m \in On(down)
      /\ Tail(down) \in Seq(ToClient) /\ On(Tail(down)) \subseteq On(down)
  BY <1>1, QueueTail
<1>3. /\ InOrder(Tail(down))
      /\ m.op = "DATA" => \A x \in On(Tail(down)) : x.op = "OACK" => x.tid # m.tid
  BY <1>1, OrderTail
<1> HIDE DEF m
<1>4. m.tid \in Tids /\ (m.op = "DATA" => m.data \in Slots /\ m.block = m.data)
  BY <1>2, ClientFrame, ModSmall
<1>5. m.op = "DATA" => /\ StoredBelow(m.data) /\ spos[m.tid] > 0
                       /\ m.data > 1 => Underway(m.port)
  BY <1>2 DEF LanInv, DownInv
<1>6. QED
  BY <1>2, <1>3, <1>4, <1>5 DEF m

LEMMA LanOacks ==
  ASSUME SeqSize > FileBlocks, LanInv, LanAnswer, HandlerOack(Head(down))
  PROVE  LanInv'
<1> DEFINE m == Head(down)
<1>1. /\ m \in On(down) /\ m.tid \in Tids
      /\ Tail(down) \in Seq(ToClient) /\ On(Tail(down)) \subseteq On(down)
      /\ InOrder(Tail(down))
  BY LanFrame DEF LanAnswer
<1>2. /\ m.op = "OACK" /\ loop = "rx"
      /\ TftpState = "RRQ" \/ m.tid = TftpServerPort
      /\ TftpState' = "OACK" /\ TftpServerPort' = m.tid
      /\ UNCHANGED <<TftpOurPort, TftpBlock, TftpLastBlock, TftpBlockWrap,
                     NetState, NetBootFileXferSize, filesize, mem, loop, ports>>
      /\ UNCHANGED serverVars /\ up' = Put(up, TftpFrame') /\ down' = Tail(down)
  BY DEF HandlerOack, Accepts, LanAnswer
<1> HIDE DEF m
<1>3. TftpState \in {"RRQ", "OACK"} /\ TftpBlock = 0
  BY <1>1, <1>2 DEF LanInv, LanTypeOK, OackInv, ReceiverInv
<1>4. Grows
  BY <1>2, <1>3 DEF Grows, Underway, WillBeUnderway, serverVars
<1>5. ReceiverInv'
  BY <1>2, <1>3 DEF LanInv, ReceiverInv
<1>6. up' \in Seq(ToServer) /\ UpInv'
  BY <1>1, <1>2, <1>4, <1>5, UpSent DEF LanInv, LanTypeOK
<1>7. DownInv'
  BY <1>1, <1>2, <1>4, DownGrows DEF LanInv
<1>8. TransferInv'
  BY <1>2, <1>4, TransfersKeep DEF LanInv
<1>9. OackInv' /\ ReportsWholeFile'
  BY <1>2 DEF LanInv, OackInv, ReportsWholeFile, WholeFile
<1>10. LanTypeOK'
  BY <1>1, <1>2, <1>6 DEF LanInv, LanTypeOK, serverVars
<1>11. QED
  BY <1>5, <1>6, <1>7, <1>8, <1>9, <1>10 DEF LanInv

(* A block is stored: the frame says that the blocks before it are there.  *)
LEMMA LanStores ==
  ASSUME SeqSize > FileBlocks, LanInv, LanAnswer, HandlerDataStore(Head(down))
  PROVE  LanInv'
<1> DEFINE m == Head(down)
           newsize == (m.data - 1) * BlockSize + Len512(m.data)
<1>0. m.op = "DATA" /\ down # <<>>
  BY DEF HandlerDataStore, LanAnswer
<1>1. /\ m.tid \in Tids /\ m.data \in Slots /\ m.block = m.data
      /\ Tail(down) \in Seq(ToClient) /\ On(Tail(down)) \subseteq On(down)
      /\ InOrder(Tail(down)) /\ StoredBelow(m.data) /\ spos[m.tid] > 0
      /\ \A x \in On(Tail(down)) : x.op = "OACK" => x.tid # m.tid
  BY <1>0, LanFrame
<1>2. m.data \in Nat /\ m.data # 0
  BY <1>1, FileAssumption DEF Slots
<1>3. /\ TftpBlockWrap' = 0 /\ TftpState' = "DATA" /\ TftpServerPort' = m.tid
      /\ TftpBlock' = m.data /\ TftpLastBlock' = m.data
      /\ UNCHANGED <<TftpOurPort, filesize, loop, ports>>
      /\ loop = "rx" /\ UNCHANGED serverVars
      /\ NetState' = IF m.data = FileBlocks THEN "SUCCESS" ELSE NetState
      /\ up' = Put(up, TftpFrame') /\ down' = Tail(down)
  BY <1>1, <1>2, FileAssumption
     DEF HandlerDataStore, Accepts, Waiting, WrapCount, LanInv, LanTypeOK,
         ReceiverInv, LanAnswer, IsLast, Len512
<1>4. /\ mem' = [s \in Slots |-> IF s = m.data THEN m.data ELSE mem[s]]
      /\ NetBootFileXferSize' = IF NetBootFileXferSize < newsize
                                THEN newsize ELSE NetBootFileXferSize
  <2>1. m.block + TftpBlockWrap' * SeqSize = m.data
    BY <1>1, <1>2, <1>3, FileAssumption
  <2>2. QED
    BY <2>1 DEF HandlerDataStore, store_block
<1>5. newsize \in Nat /\ newsize <= FileSize
  <2>1. m.data - 1 \in Nat /\ Len512(m.data) \in Nat /\ BlockSize \in Nat
    BY <1>2, FileAssumption DEF Len512
  <2>2. (m.data - 1) * BlockSize \in Nat
    BY <2>1, MulMono
  <2>3. QED
    BY <1>1, <2>1, <2>2, SizeFacts
<1>6. m.data = FileBlocks => newsize = FileSize
  BY SizeFacts
<1> HIDE DEF m, newsize
<1>7. (\A s \in Slots : mem[s] = s => mem'[s] = s) /\ mem'[m.data] = m.data
  BY <1>1, <1>4
<1>8. Grows
  BY <1>3, <1>7 DEF Grows, Underway, WillBeUnderway, serverVars
<1>9. ReceiverInv'
  BY <1>1, <1>3, <1>7 DEF ReceiverInv, serverVars
<1>10. up' \in Seq(ToServer) /\ UpInv'
  BY <1>1, <1>3, <1>8, <1>9, UpSent DEF LanInv, LanTypeOK
<1>11. DownInv'
  BY <1>1, <1>3, <1>8, DownGrows DEF LanInv
<1>12. TransferInv'
  BY <1>3, <1>8, TransfersKeep DEF LanInv
<1>13. OackInv'
  BY <1>1, <1>3 DEF OackInv
<1>14. LanTypeOK'
  <2>1. mem' \in [Slots -> 0..FileBlocks]
    BY <1>1, <1>4, FileAssumption DEF LanInv, LanTypeOK, Slots
  <2>2. NetBootFileXferSize' \in 0..FileSize
    BY <1>4, <1>5, SizeFacts DEF LanInv, LanTypeOK
  <2>3. QED
    BY <1>1, <1>3, <1>10, <2>1, <2>2 DEF LanInv, LanTypeOK, serverVars
<1>15. WholeFile => WholeFile'
  BY <1>7 DEF WholeFile
<1>16. m.data = FileBlocks => WholeFile'
  <2>1. \A s \in Slots : s < FileBlocks \/ s = FileBlocks
    BY FileAssumption DEF Slots
  <2>2. QED
    BY <1>1, <1>7, <2>1 DEF WholeFile, StoredBelow
<1>17. m.data = FileBlocks \/ NetBootFileXferSize = FileSize =>
         NetBootFileXferSize' = FileSize
  <2>1. NetBootFileXferSize \in Nat /\ NetBootFileXferSize <= FileSize
    BY SizeFacts DEF LanInv, LanTypeOK
  <2>2. QED
    BY <1>4, <1>5, <1>6, <2>1, SizeFacts
<1>18. ReportsWholeFile'
  BY <1>3, <1>15, <1>16, <1>17 DEF LanInv, ReportsWholeFile
<1>19. QED
  BY <1>9, <1>10, <1>11, <1>12, <1>13, <1>14, <1>18 DEF LanInv

(* A frame without an answer: ERROR, a repeated block, or none of ours. *)
LEMMA LanAbsorbs ==
  ASSUME SeqSize > FileBlocks, LanInv, LanAbsorb
  PROVE  LanInv'
<1> DEFINE m == Head(down)
<1>1. /\ m \in ToClient /\ m \in On(down) /\ m.tid \in Tids
      /\ Tail(down) \in Seq(ToClient) /\ On(Tail(down)) \subseteq On(down)
      /\ InOrder(Tail(down))
      /\ m.op = "DATA" => /\ m.data \in Slots /\ m.block = m.data
                          /\ m.data > 1 => Underway(m.port)
  BY LanFrame DEF LanAbsorb
<1>2. ~HandlerDataNotFirst(m)
  <2> SUFFICES ASSUME HandlerDataNotFirst(m) PROVE FALSE
    OBVIOUS
  <2>1. m.op = "DATA" /\ m.port = TftpOurPort /\ TftpState # "DATA" /\ m.block # 1
    BY DEF HandlerDataNotFirst, Accepts, Waiting
  <2>2. m.data > 1
    BY <1>1, <2>1, FileAssumption DEF Slots
  <2>3. QED
    BY <1>1, <2>1, <2>2 DEF Underway
<1>3. /\ UNCHANGED <<serverVars, up, mem, ports, TftpState, TftpServerPort,
                     TftpOurPort, TftpLastBlock, NetBootFileXferSize, filesize,
                     loop>>
      /\ NetState' \in {NetState, "FAIL", "RESTART"}
      /\ down' = Tail(down)
  BY <1>2 DEF LanAbsorb, HandlerError, HandlerDataSame, HandlerDrop,
              NetStartAgain, clientVars
<1>4. /\ \/ TftpBlock' = TftpBlock
         \/ TftpState = "DATA" /\ TftpBlock' = TftpLastBlock
      /\ TftpBlockWrap' = 0
  <2>1. CASE HandlerDataSame(m)
    BY <1>1, <2>1, FileAssumption
       DEF HandlerDataSame, WrapCount, LanInv, LanTypeOK, ReceiverInv, Waiting, Slots
  <2>2. CASE HandlerError(m)
    BY <2>2 DEF HandlerError, LanInv, ReceiverInv
  <2>3. CASE HandlerDrop(m)
    BY <2>3 DEF HandlerDrop, clientVars, LanInv, ReceiverInv
  <2>4. QED
    BY <1>2, <2>1, <2>2, <2>3 DEF LanAbsorb
<1>5. loop # "idle"
  BY DEF LanAbsorb, HandlerError, HandlerDataSame, HandlerDrop,
         HandlerDataNotFirst, Accepts
<1> HIDE DEF m
<1>6. Grows
  BY <1>3 DEF Grows, Underway, WillBeUnderway, serverVars
<1>7. ReceiverInv'
  BY <1>3, <1>4 DEF LanInv, ReceiverInv, serverVars
<1>8. DownInv'
  BY <1>1, <1>3, <1>6, DownGrows DEF LanInv
<1>9. UpInv'
  BY <1>3, <1>6, UpGrows DEF LanInv
<1>10. TransferInv'
  BY <1>3, <1>6, TransfersKeep DEF LanInv
<1>11. OackInv' /\ ReportsWholeFile'
  BY <1>1, <1>3 DEF LanInv, OackInv, ReportsWholeFile, WholeFile
<1>12. LanTypeOK'
  BY <1>1, <1>3, <1>5 DEF LanInv, LanTypeOK, serverVars
<1>13. QED
  BY <1>7, <1>8, <1>9, <1>10, <1>11, <1>12 DEF LanInv

(* The client is left alone and no transfer falls back. *)
LEMMA LanClientKeeps ==
  ASSUME LanInv, UNCHANGED clientVars,
         \A t \in Tids : spos[t] > 0 => spos'[t] > 0
  PROVE  Grows /\ ReceiverInv' /\ ReportsWholeFile'
<1>1. UNCHANGED <<TftpState, TftpServerPort, TftpOurPort, TftpBlock, TftpLastBlock,
                  TftpBlockWrap, NetState, NetBootFileXferSize, filesize, mem,
                  loop, ports>>
  BY DEF clientVars
<1>2. Grows
  BY <1>1 DEF Grows, Underway, WillBeUnderway
<1>3. ReceiverInv'
  BY <1>1 DEF LanInv, LanTypeOK, ReceiverInv
<1>4. ReportsWholeFile'
  BY <1>1 DEF LanInv, ReportsWholeFile, WholeFile
<1>5. QED
  BY <1>2, <1>3, <1>4

(* Frames leave the queues, by delivery to a server that ignores them or   *)
(* by loss.                                                                *)
LEMMA LanShrinks ==
  ASSUME LanInv, UNCHANGED <<clientVars, serverVars>>,
         up' \in Seq(ToServer), On(up)' \subseteq On(up),
         down' \in Seq(ToClient), On(down)' \subseteq On(down), InOrder(down)'
  PROVE  LanInv'
<1>1. Grows /\ ReceiverInv' /\ ReportsWholeFile'
  BY LanClientKeeps DEF serverVars
<1>2. UpInv'
  BY <1>1, UpGrows DEF LanInv
<1>3. DownInv'
  BY <1>1, DownGrows DEF LanInv
<1>4. TransferInv'
  BY <1>1, TransfersKeep DEF LanInv
<1>5. OackInv'
  BY DEF LanInv, OackInv, clientVars
<1>6. LanTypeOK'
  BY DEF LanInv, LanTypeOK, clientVars, serverVars
<1>7. QED
  BY <1>1, <1>2, <1>3, <1>4, <1>5, <1>6 DEF LanInv

LEMMA LanLosesOrIgnores ==
  ASSUME LanInv, LanLose \/ LanIgnored
  PROVE  LanInv'
<1>1. UNCHANGED <<clientVars, serverVars>>
  BY DEF LanLose, LanIgnored
<1>2. /\ \/ up' = up /\ down # <<>> /\ down' = Tail(down)
         \/ down' = down /\ up # <<>> /\ up' = Tail(up)
      /\ up \in Seq(ToServer) /\ down \in Seq(ToClient) /\ InOrder(down)
  BY DEF LanLose, LanIgnored, LanInv, LanTypeOK, DownInv
<1>3. CASE up' = up /\ down # <<>> /\ down' = Tail(down)
  <2>1. Tail(down) \in Seq(ToClient) /\ On(Tail(down)) \subseteq On(down)
    BY <1>2, <1>3, QueueTail
  <2>2. InOrder(Tail(down))
    BY <1>2, <1>3, OrderTail
  <2>3. QED
    BY <1>1, <1>2, <1>3, <2>1, <2>2, LanShrinks
<1>4. CASE down' = down /\ up # <<>> /\ up' = Tail(up)
  <2>1. Tail(up) \in Seq(ToServer) /\ On(Tail(up)) \subseteq On(up)
    BY <1>2, <1>4, QueueTail
  <2>2. QED
    BY <1>1, <1>2, <1>4, <2>1, LanShrinks
<1>5. QED
  BY <1>2, <1>3, <1>4

(* Transfer t is at position n and sends f, or nothing.  An OACK is sent   *)
(* only while the transfer has sent no block, so no block of it is on its  *)
(* way or has reached the client.                                          *)
LEMMA LanServes ==
  ASSUME LanInv, UNCHANGED clientVars,
         up' \in Seq(ToServer), On(up)' \subseteq On(up),
         NEW t \in Tids, NEW n \in 0..Closed, n >= spos[t],
         spos' = [spos EXCEPT ![t] = n],
         sport' \in [Tids -> Ports \union {NoPort}], sport'[t] \in Ports,
         \A u \in Tids \ {t} : sport'[u] = sport[u],
         n # Closed => StoredBelow(n) /\ (n > 1 => Underway(sport'[t])),
         NEW f \in ToClient, f.tid = t, down' \in {down, Put(down, f)},
         f.op = "OACK" => n = 0,
         f.op = "DATA" => n > 0 /\ n # Closed /\ f.data = n /\ f.port = sport'[t]
  PROVE  LanInv'
<1>1. spos'[t] = n /\ \A u \in Tids \ {t} : spos'[u] = spos[u]
  BY DEF LanInv, LanTypeOK
<1>2. \A u \in Tids : spos[u] > 0 => spos'[u] > 0
  BY <1>1, FileAssumption DEF Closed, LanInv, LanTypeOK, Free
<1>3. Grows /\ ReceiverInv' /\ ReportsWholeFile'
  BY <1>2, LanClientKeeps
<1>4. UpInv'
  BY <1>3, UpGrows DEF LanInv
<1>5. mem' = mem /\ ports' = ports /\ TftpOurPort' = TftpOurPort
      /\ TftpState' = TftpState /\ TftpServerPort' = TftpServerPort
  BY DEF clientVars
<1>6. /\ down \in Seq(ToClient) /\ InOrder(down) /\ spos[t] \in Int
      /\ \A x \in On(down) : x.op = "DATA" => x.tid \in Tids /\ spos[x.tid] > 0
  <2>1. \A x \in On(down) : x \in ToClient
    BY DEF LanInv, LanTypeOK, On
  <2>2. QED
    BY <2>1, ClientFrame, FileAssumption
       DEF LanInv, LanTypeOK, DownInv, Free, Closed
<1>7. f.op = "OACK" => spos[t] <= 0
  BY <1>6
<1>8. /\ down' \in Seq(ToClient) /\ On(down)' \subseteq On(down) \union {f}
      /\ InOrder(down)'
  <2>1. Put(down, f) \in Seq(ToClient) /\ On(Put(down, f)) \subseteq On(down) \union {f}
    BY <1>6, QueuePut
  <2>2. f.op = "OACK" => \A x \in On(down) : x.op = "DATA" => x.tid # f.tid
    BY <1>6, <1>7
  <2>3. InOrder(Put(down, f))
    BY <1>6, <2>2, OrderPut
  <2>4. QED
    BY <1>6, <2>1, <2>3
<1>9. DownInv'
  <2>1. f.op = "DATA" => /\ StoredBelow(f.data)' /\ spos'[f.tid] > 0
                         /\ f.data > 1 => WillBeUnderway(f.port)
    BY <1>1, <1>5 DEF StoredBelow, Underway, WillBeUnderway
  <2>2. QED
    BY <1>3, <1>8, <2>1, DownGrows DEF LanInv
<1>10. OackInv'
  BY <1>5, <1>6, <1>7, <1>8 DEF LanInv, OackInv, ReceiverInv
<1>11. TransferInv'
  <2> SUFFICES ASSUME NEW u \in Tids, Open(u)'
               PROVE  /\ StoredBelow(spos[u])'
                      /\ spos'[u] > 1 => Underway(sport[u])'
    BY DEF TransferInv
  <2>1. CASE u = t
    <3>1. n # Closed
      BY <1>1, <2>1, FileAssumption DEF Open, Closed
    <3>2. QED
      BY <1>1, <1>5, <2>1, <3>1 DEF StoredBelow, Underway
  <2>2. CASE u # t
    <3>1. spos'[u] = spos[u] /\ sport'[u] = sport[u] /\ Open(u)
      BY <1>1, <2>2 DEF Open
    <3>2. StoredBelow(spos[u]) /\ (spos[u] > 1 => Underway(sport[u]))
      BY <3>1 DEF LanInv, TransferInv
    <3>3. QED
      BY <1>5, <3>1, <3>2 DEF StoredBelow, Underway
  <2>3. QED
    BY <2>1, <2>2
<1>12. LanTypeOK'
  <2>1. spos' \in [Tids -> Free..Closed]
    BY FileAssumption DEF LanInv, LanTypeOK, Free, Closed
  <2>2. \A u \in Tids : spos'[u] # Free => sport'[u] \in Ports
    BY <1>1 DEF LanInv, LanTypeOK
  <2>3. QED
    BY <1>8, <2>1, <2>2 DEF LanInv, LanTypeOK, clientVars
<1>13. QED
  BY <1>3, <1>4, <1>9, <1>10, <1>11, <1>12 DEF LanInv

(* The frame a transfer at position n sends. *)
LEMMA ServedFrame ==
  ASSUME NEW t \in Tids, NEW p \in Ports, NEW n \in 0..FileBlocks
  PROVE  LET f == IF n = 0 THEN OackFrame(t, p) ELSE DataFrame(t, p, n) IN
         /\ f \in ToClient /\ f.tid = t
         /\ f.op = "OACK" => n = 0
         /\ f.op = "DATA" => n > 0 /\ f.data = n /\ f.port = p
<1>1. CASE n = 0
  BY <1>1, ServerFrameType DEF OackFrame
<1>2. CASE n # 0
  <2>1. n \in Slots
    BY <1>2, FileAssumption DEF Slots
  <2>2. QED
    BY <1>2, <2>1, ServerFrameType, FileAssumption DEF DataFrame
<1>3. QED
  BY <1>1, <1>2

LEMMA ServerHead ==
  ASSUME LanInv, up # <<>>
  PROVE  /\ Head(up) \in ToServer /\ Head(up) \in On(up) /\ Head(up).port \in Ports
         /\ Head(up).op = "ACK" => Head(up).tid \in Tids
         /\ Tail(up) \in Seq(ToServer) /\ On(Tail(up)) \subseteq On(up)
<1>1. up \in Seq(ToServer)
  BY DEF LanInv, LanTypeOK
<1>2. /\ Head(up) \in ToServer /\ Head(up) \in On(up)
      /\ Tail(up) \in Seq(ToServer) /\ On(Tail(up)) \subseteq On(up)
  BY <1>1, QueueTail
<1>3. QED
  BY <1>2 DEF ToServer, RrqFrame, AckFrame

LEMMA LanOpens == ASSUME LanInv, LanOpened PROVE LanInv'
<1> DEFINE m == Head(up)
<1>1. /\ m.port \in Ports /\ Tail(up) \in Seq(ToServer)
      /\ On(Tail(up)) \subseteq On(up)
  BY ServerHead DEF LanOpened
<1>2. /\ up' = Tail(up) /\ UNCHANGED clientVars
      /\ \E t \in Tids : /\ ServerOpen(m, t)
                         /\ down' = Put(down, ServerFrame(t)')
  BY DEF LanOpened
<1>3. PICK t \in Tids : ServerOpen(m, t) /\ down' = Put(down, ServerFrame(t)')
  BY <1>2
<1>4. PICK n \in {0, 1} : spos' = [spos EXCEPT ![t] = n]
  BY <1>3 DEF ServerOpen
<1>5. /\ spos[t] = -1 /\ spos'[t] = n
      /\ sport' = [sport EXCEPT ![t] = m.port] /\ sport'[t] = m.port
      /\ sport' \in [Tids -> Ports \union {NoPort}]
      /\ \A u \in Tids \ {t} : sport'[u] = sport[u]
  BY <1>1, <1>3, <1>4 DEF ServerOpen, Free, LanInv, LanTypeOK
<1> HIDE DEF m
<1> DEFINE f == IF n = 0 THEN OackFrame(t, m.port) ELSE DataFrame(t, m.port, n)
<1>6. down' = Put(down, f)
  BY <1>3, <1>5 DEF ServerFrame
<1>7. n \in 0..FileBlocks /\ n \in 0..Closed /\ n # Closed /\ n >= spos[t] /\ ~(n > 1)
  BY <1>5, FileAssumption DEF Closed
<1>8. /\ f \in ToClient /\ f.tid = t
      /\ f.op = "OACK" => n = 0
      /\ f.op = "DATA" => n > 0 /\ f.data = n /\ f.port = m.port
  BY <1>1, <1>7, ServedFrame
<1> HIDE DEF f
<1>9. n # Closed => StoredBelow(n) /\ (n > 1 => Underway(sport'[t]))
  BY <1>7, FileAssumption DEF StoredBelow, Slots
<1>10. /\ up' \in Seq(ToServer) /\ On(up)' \subseteq On(up)
       /\ sport'[t] \in Ports /\ down' \in {down, Put(down, f)}
       /\ f.op = "DATA" => n > 0 /\ n # Closed /\ f.data = n /\ f.port = sport'[t]
  BY <1>1, <1>2, <1>5, <1>6, <1>7, <1>8
<1>11. /\ UNCHANGED clientVars /\ sport' \in [Tids -> Ports \union {NoPort}]
       /\ \A u \in Tids \ {t} : sport'[u] = sport[u]
  BY <1>2, <1>5
<1>12. f \in ToClient /\ f.tid = t /\ (f.op = "OACK" => n = 0)
  BY <1>8
<1>13. n \in 0..Closed /\ n >= spos[t]
  BY <1>7
<1>14. QED
  BY <1>4, <1>9, <1>10, <1>11, <1>12, <1>13, LanServes

LEMMA LanAcks ==
  ASSUME SeqSize > FileBlocks, LanInv, LanAcked
  PROVE  LanInv'
<1> DEFINE m == Head(up)
<1>0. PICK t \in Tids :
        /\ m.tid = t /\ ServerAck(m)
        /\ down' = IF spos'[t] = Closed THEN down ELSE Put(down, ServerFrame(t)')
  BY DEF LanAcked
<1> DEFINE n == spos[t] + 1
<1>1. /\ m \in On(up) /\ m.port \in Ports
      /\ Tail(up) \in Seq(ToServer) /\ On(Tail(up)) \subseteq On(up)
  BY ServerHead DEF LanAcked
<1>2. /\ m.op = "ACK" /\ Open(t) /\ m.port = sport[t]
      /\ m.block = spos[t] % SeqSize
      /\ spos' = [spos EXCEPT ![t] = n] /\ sport' = sport
      /\ down' = IF spos'[t] = Closed THEN down ELSE Put(down, ServerFrame(t)')
      /\ up' = Tail(up) /\ UNCHANGED clientVars
  BY <1>0 DEF LanAcked, ServerAck, AckExpected
<1>3. /\ spos'[t] = n /\ spos[t] \in 0..FileBlocks /\ n \in 1..Closed
      /\ n >= spos[t]
  BY <1>1, <1>2, FileAssumption DEF LanInv, LanTypeOK, Open, Closed
<1>4. m.block = spos[t]
  <2>1. 0 % SeqSize = 0
    BY FileAssumption
  <2>2. spos[t] # 0 => spos[t] \in Slots
    BY <1>3, FileAssumption DEF Slots
  <2>3. QED
    BY <1>2, <2>1, <2>2, ModSmall
<1>5. StoredBelow(spos[t])
  BY <1>1, <1>2 DEF LanInv, TransferInv
<1>6. StoredBelow(n) /\ (n > 1 => Underway(sport'[t]))
  <2>1. CASE spos[t] = 0
    BY <2>1, FileAssumption DEF StoredBelow, Slots
  <2>2. CASE spos[t] # 0
    <3>1. mem[spos[t]] = spos[t] /\ Underway(sport[t])
      BY <1>1, <1>2, <1>4, <2>2 DEF LanInv, UpInv
    <3>2. \A j \in Slots : j < n => j < spos[t] \/ j = spos[t]
      BY <1>3 DEF Slots
    <3>3. QED
      BY <1>2, <1>5, <3>1, <3>2 DEF StoredBelow
  <2>3. QED
    BY <2>1, <2>2
<1>7. CASE n = Closed
  <2> DEFINE f == ErrorFrame(t, m.port)
  <2>1. f \in ToClient /\ f.tid = t /\ f.op = "ERROR"
    BY <1>1, ServerFrameType DEF ErrorFrame
  <2>2. down' = down
    BY <1>2, <1>3, <1>7
  <2>3. /\ n \in 0..Closed /\ sport' \in [Tids -> Ports \union {NoPort}]
        /\ sport'[t] \in Ports
    BY <1>1, <1>2, <1>3 DEF LanInv, LanTypeOK
  <2> HIDE DEF f, n, m
  <2>4. QED
    BY <1>1, <1>2, <1>3, <1>7, <2>1, <2>2, <2>3, LanServes
<1>8. CASE n # Closed
  <2> DEFINE f == IF n = 0 THEN OackFrame(t, m.port) ELSE DataFrame(t, m.port, n)
  <2>1. n \in 0..FileBlocks /\ n \in 0..Closed
    BY <1>3, <1>8, FileAssumption DEF Closed
  <2>2. down' = Put(down, f)
    BY <1>2, <1>3, <1>8 DEF ServerFrame
  <2>3. /\ f \in ToClient /\ f.tid = t
        /\ f.op = "OACK" => n = 0
        /\ f.op = "DATA" => n > 0 /\ f.data = n /\ f.port = m.port
    BY <1>1, <2>1, ServedFrame
  <2>4. sport' \in [Tids -> Ports \union {NoPort}] /\ sport'[t] = m.port
    BY <1>1, <1>2 DEF LanInv, LanTypeOK
  <2> HIDE DEF f, n, m
  <2>5. QED
    BY <1>1, <1>2, <1>3, <1>6, <1>8, <2>1, <2>2, <2>3, <2>4, LanServes
<1>9. QED
  BY <1>7, <1>8

LEMMA LanRetransmits ==
  ASSUME LanInv, NEW t \in Tids, LanRetransmit(t)
  PROVE  LanInv'
<1> DEFINE n == spos[t]
           p == sport[t]
           f == IF n = 0 THEN OackFrame(t, p) ELSE DataFrame(t, p, n)
<1>1. /\ Open(t) /\ down' = Put(down, f)
      /\ UNCHANGED <<clientVars, up>> /\ spos' = spos /\ sport' = sport
  BY DEF LanRetransmit, ServerFrame, serverVars
<1>2. /\ n \in 0..FileBlocks /\ n \in 0..Closed /\ n # Closed /\ n >= spos[t]
      /\ p \in Ports
  BY <1>1, FileAssumption DEF Open, Closed, Free, LanInv, LanTypeOK
<1>3. /\ spos' = [spos EXCEPT ![t] = n] /\ sport'[t] = p
      /\ sport' \in [Tids -> Ports \union {NoPort}]
      /\ \A u \in Tids \ {t} : sport'[u] = sport[u]
      /\ up' \in Seq(ToServer) /\ On(up)' \subseteq On(up)
  BY <1>1 DEF LanInv, LanTypeOK
<1>4. StoredBelow(n) /\ (n > 1 => Underway(p))
  BY <1>1 DEF LanInv, TransferInv
<1>5. /\ f \in ToClient /\ f.tid = t
      /\ f.op = "OACK" => n = 0
      /\ f.op = "DATA" => n > 0 /\ f.data = n /\ f.port = p
  BY <1>2, ServedFrame
<1> HIDE DEF f, n, p
<1>6. QED
  BY <1>1, <1>2, <1>3, <1>4, <1>5, LanServes

LEMMA LanAborts ==
  ASSUME LanInv, NEW t \in Tids, LanAborted(t)
  PROVE  LanInv'
<1> DEFINE p == sport[t]
           f == ErrorFrame(t, p)
<1>1. /\ Open(t) /\ down' = Put(down, f)
      /\ UNCHANGED <<clientVars, up>> /\ sport' = sport
      /\ spos' = [spos EXCEPT ![t] = Closed]
  BY DEF LanAborted, ServerAbort
<1>2. p \in Ports /\ Closed \in 0..Closed /\ Closed >= spos[t]
  BY <1>1, FileAssumption DEF Open, Closed, Free, LanInv, LanTypeOK
<1>3. /\ sport'[t] = p /\ sport' \in [Tids -> Ports \union {NoPort}]
      /\ \A u \in Tids \ {t} : sport'[u] = sport[u]
      /\ up' \in Seq(ToServer) /\ On(up)' \subseteq On(up)
  BY <1>1 DEF LanInv, LanTypeOK
<1>4. f \in ToClient /\ f.tid = t /\ f.op = "ERROR"
  BY <1>2, ServerFrameType DEF ErrorFrame
<1> HIDE DEF f, p
<1>5. QED
  BY <1>1, <1>2, <1>3, <1>4, LanServes

LEMMA LanStep ==
  ASSUME SeqSize > FileBlocks
  PROVE  LanInv /\ [LanNext]_lanVars => LanInv'
<1> SUFFICES ASSUME LanInv, [LanNext]_lanVars PROVE LanInv'
  OBVIOUS
<1>1. CASE LanClient
  BY <1>1, LanStarts, LanResends, LanIsQuiet, LanOacks, LanStores, LanAbsorbs
     DEF LanClient, LanAnswer
<1>2. CASE LanServer
  BY <1>2, LanOpens, LanAcks, LanLosesOrIgnores, LanRetransmits, LanAborts
     DEF LanServer
<1>3. CASE LanLose
  BY <1>3, LanLosesOrIgnores
<1>4. CASE LanTerminated \/ UNCHANGED lanVars
  <2>1. UNCHANGED <<clientVars, serverVars, up, down>>
    BY <1>4 DEF LanTerminated, lanVars
  <2>2. up \in Seq(ToServer) /\ down \in Seq(ToClient) /\ InOrder(down)
    BY DEF LanInv, LanTypeOK, DownInv
  <2>3. QED
    BY <2>1, <2>2, LanShrinks
<1>5. QED
  BY <1>1, <1>2, <1>3, <1>4 DEF LanNext

(* On one Ethernet segment, with a server that may accept the option, a    *)
(* file whose block numbers do not wrap: the invariant holds for every     *)
(* length of the queues, every loss and every retransmission of both ends. *)
THEOREM LanInvariance == ASSUME SeqSize > FileBlocks PROVE LanSpec => []LanInv
<1>1. LanInv /\ [LanNext]_lanVars => LanInv'
  BY LanStep
<1>2. QED
  BY <1>1, LanInitially, PTL DEF LanSpec

(* The recovery download reports a success, or sets filesize, only with    *)
(* the whole file in RAM and its exact size: on a network that keeps the   *)
(* order of frames the OACK exchange of TftpHandler is safe too.           *)
THEOREM LanReportsWholeFile ==
  ASSUME SeqSize > FileBlocks
  PROVE  LanSpec => []ReportsWholeFile
<1>1. LanInv => ReportsWholeFile
  BY DEF LanInv
<1>2. QED
  BY <1>1, LanInvariance, PTL
=============================================================================
