----------------------------- MODULE MCTftpNet ------------------------------
(* TLC instances of TftpNet. *)
EXTENDS TftpNet
=============================================================================
