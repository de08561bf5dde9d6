----------------------------- MODULE MCMsgQueue -----------------------------
(* A small instance of MsgQueue for TLC.                                   *)
EXTENDS MsgQueue

CONSTANTS p1, p2, p3

\* Up to renaming: a pair and a bystander, two receivers, two senders.
MCRoles == {<<{p1}, {p2}>>, <<{p1}, {p2, p3}>>, <<{p1, p2}, {p3}>>}
=============================================================================
