----------------------------- MODULE MCTftpGet -----------------------------
(* Small instances of TftpGet for TLC.                                     *)
EXTENDS TftpGet
=============================================================================
