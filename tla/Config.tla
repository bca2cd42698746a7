------------------------------- MODULE Config -------------------------------
(* What the board's configuration (include/configs) fixes for all that     *)
(* reads a line.                                                           *)

CONSTANT CFG_CBSIZE   \* size of console_buffer, cmdbuf and finaltoken
=============================================================================
