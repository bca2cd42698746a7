----------------------------- MODULE TftpServer -----------------------------
(***************************************************************************)
(* A TFTP server as the client of net/tftp.c sees it.  It is not part of   *)
(* this repository: what is stated here is the lock-step discipline        *)
(* (RFC 1350, RFC 2347) the client is written against.  Every read request *)
(* opens a transfer on a UDP port (tid) of its own.  The client asks for   *)
(* the option "timeout", so the server may answer with OACK first.         *)
(***************************************************************************)
EXTENDS Tftp

CONSTANT Options   \* whether the server may accept / may ignore the option

ASSUME OptionsAssumption == Options \subseteq BOOLEAN

VARIABLES
  spos,    \* what a transfer sent last: 0 for OACK, n for block n
  sport    \* the client port a transfer serves

serverVars == <<spos, sport>>

Free == -1
Closed == FileBlocks + 1

ServerInit ==
  /\ spos = [t \in Tids |-> Free]
  /\ sport = [t \in Tids |-> NoPort]

Open(t) == spos[t] \in 0..FileBlocks

ServerFrame(t) == IF spos[t] = 0 THEN OackFrame(t, sport[t])
                                 ELSE DataFrame(t, sport[t], spos[t])

(* A read request opens transfer t and the frame ServerFrame(t)' is sent. *)
ServerOpen(m, t) ==
  /\ m.op = "RRQ"
  /\ spos[t] = Free
  /\ \E opt \in Options :
        spos' = [spos EXCEPT ![t] = IF opt THEN 0 ELSE 1]
  /\ sport' = [sport EXCEPT ![t] = m.port]

(* A read request is refused: ERROR from the new port. *)
ServerRefuse(m, t) ==
  /\ m.op = "RRQ"
  /\ spos[t] = Free
  /\ spos' = [spos EXCEPT ![t] = Closed]
  /\ sport' = [sport EXCEPT ![t] = m.port]

AckExpected(m) ==
  /\ m.op = "ACK"
  /\ Open(m.tid)
  /\ m.port = sport[m.tid]
  /\ m.block = spos[m.tid] % SeqSize

(* The acknowledgement the transfer waits for: it moves on, and sends      *)
(* ServerFrame' unless the file has been acknowledged to its end.          *)
ServerAck(m) ==
  /\ AckExpected(m)
  /\ spos' = [spos EXCEPT ![m.tid] = @ + 1]
  /\ UNCHANGED sport

(* The server abandons a transfer with an ERROR frame. *)
ServerAbort(t) ==
  /\ Open(t)
  /\ spos' = [spos EXCEPT ![t] = Closed]
  /\ UNCHANGED sport
=============================================================================
