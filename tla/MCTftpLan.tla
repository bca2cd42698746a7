----------------------------- MODULE MCTftpLan ------------------------------
(* TLC instances of TftpLan. *)
EXTENDS TftpLan
=============================================================================
