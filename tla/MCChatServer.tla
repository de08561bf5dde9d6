---------------------------- MODULE MCChatServer ----------------------------
(* Small instances of ChatServer for TLC.                                  *)
EXTENDS ChatServer, TLC

\* The clients are interchangeable: used by the runs without liveness.
ClientSymmetry == Permutations(Clients)
=============================================================================
