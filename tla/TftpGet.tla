------------------------------- MODULE TftpGet -------------------------------
(***************************************************************************)
(* The TFTP client of 2012.04.13/udp/tftpget.c, which fetches one file, and*)
(* as its environment the server it talks to and the network between them. *)
(*                                                                         *)
(* A block stands for its number: block NumBlocks is the one shorter than  *)
(* 512 bytes that ends the transfer.  The server is one of RFC 1350 that   *)
(* answers every acknowledgment once; it sends a block again when its      *)
(* timer expires.  The network loses and reorders datagrams.               *)
(***************************************************************************)
EXTENDS Integers, Sequences, Functions

CONSTANTS
    NumBlocks,    \* blocks of the file; below 2^16, so block numbers do not wrap
    DiskFails,    \* whether open() (the file may exist: O_EXCL) and write() may fail
    MaxLoss,      \* bound: datagrams the network loses
    MaxEarly      \* bound: timeouts while block or acknowledgment is still on its way

ASSUME TftpAssumption ==
    /\ NumBlocks \in 1..65535 /\ DiskFails \in BOOLEAN
    /\ MaxLoss \in Nat /\ MaxEarly \in Nat

Blocks == 1..NumBlocks
Messages == [op : {"RRQ", "ERROR"}] \cup [op : {"DATA", "ACK"}, block : Blocks]

RRQ == [op |-> "RRQ"]
ERROR == [op |-> "ERROR"]
DATA(n) == [op |-> "DATA", block |-> n]
ACK(n) == [op |-> "ACK", block |-> n]

VARIABLES
    pc,       \* "request", "receive", "finished" or "failed" (exit(1))
    opened,   \* global_receive_fd # -1
    file,     \* the blocks written to global_receive_filename, in order
    diskOK,   \* history: no open() or write() has failed
    net,      \* datagrams on their way
    serving,  \* the block the server has sent last; 0: it has no request, NumBlocks + 1: all is acknowledged
    losses, early

envVars == <<serving, losses, early>>
vars == <<pc, opened, file, diskOK, net, serving, losses, early>>

Init ==
    /\ pc = "request" /\ opened = FALSE /\ file = <<>> /\ diskOK = TRUE
    /\ net = {} /\ serving = 0 /\ losses = 0 /\ early = 0

-----------------------------------------------------------------------------
(* The client.                                                             *)

SendRequest ==
    /\ pc = "request"
    /\ \/ pc' = "receive" /\ net' = net \cup {RRQ}
       \/ pc' = "failed" /\ UNCHANGED net        \* sendto() fails
    /\ UNCHANGED <<opened, file, diskOK, envVars>>

RecvFails ==
    /\ pc = "receive"
    /\ pc' = "failed"
    /\ UNCHANGED <<opened, file, diskOK, net, envVars>>

ReceiveError ==
    /\ pc = "receive" /\ ERROR \in net
    /\ pc' = "failed" /\ net' = net \ {ERROR}
    /\ UNCHANGED <<opened, file, diskOK, envVars>>

\* Mutant: the first block finds the file not yet open.
Stored_OpensOnly(n) ==
    /\ opened' = TRUE
    /\ file' = IF opened THEN Append(file, n) ELSE file
    /\ UNCHANGED diskOK

\* read_data() has the file open and writes what it got, whatever its number.
Stored(n) ==
    /\ opened' = TRUE
    /\ file' = Append(file, n)
    /\ UNCHANGED diskOK

\* open() fails: read_data() returns early and its caller does not notice;
\* block_size, which ends the transfer, keeps whatever was in it.
OpenFails ==
    /\ DiskFails /\ ~opened
    /\ diskOK' = FALSE /\ UNCHANGED <<opened, file>>

\* The result of write() is not looked at.
WriteFails ==
    /\ DiskFails
    /\ opened' = TRUE /\ diskOK' = FALSE /\ UNCHANGED file

\* Mutant: a block that came before is not acknowledged again.
Acknowledged_Once(n) == IF n \in Range(file) THEN {} ELSE {ACK(n)}

\* send_acknowledgment() answers every block, a repeated one too.
Acknowledged(n) == {ACK(n)}

\* Mutant: a block of 512 bytes ends the transfer.
read_data_EndsEarly(n) == Stored(n) /\ pc' = "finished"

\* A block shorter than 512 bytes ends the transfer.
read_data(n) ==
    \/ Stored(n) /\ pc' = IF n = NumBlocks THEN "finished" ELSE "receive"
    \/ WriteFails /\ pc' = IF n = NumBlocks THEN "finished" ELSE "receive"
    \/ OpenFails /\ pc' \in {"finished", "receive"}

ReceiveData(n) ==
    /\ pc = "receive" /\ DATA(n) \in net
    /\ read_data(n)
    /\ net' = (net \ {DATA(n)}) \cup Acknowledged(n)
    /\ UNCHANGED envVars

-----------------------------------------------------------------------------
(* The server and the network.                                             *)

ServeRequest ==
    /\ RRQ \in net /\ serving = 0
    /\ \/ serving' = 1 /\ net' = (net \ {RRQ}) \cup {DATA(1)}
       \/ UNCHANGED serving /\ net' = (net \ {RRQ}) \cup {ERROR}
    /\ UNCHANGED <<pc, opened, file, diskOK, losses, early>>

\* The acknowledgment of the last block sent brings the next; others are ignored.
ServeAck(n) ==
    /\ ACK(n) \in net
    /\ serving' = IF n = serving THEN n + 1 ELSE serving
    /\ net' = (net \ {ACK(n)}) \cup (IF n = serving /\ n < NumBlocks THEN {DATA(n + 1)} ELSE {})
    /\ UNCHANGED <<pc, opened, file, diskOK, losses, early>>

\* The timer expires after the block or its acknowledgment was lost, or early.
Timeout ==
    /\ serving \in Blocks /\ DATA(serving) \notin net
    /\ \/ ACK(serving) \notin net /\ UNCHANGED early
       \/ ACK(serving) \in net /\ early < MaxEarly /\ early' = early + 1
    /\ pc = "receive"       \* the server gives up on a client that is gone
    /\ net' = net \cup {DATA(serving)}
    /\ UNCHANGED <<pc, opened, file, diskOK, serving, losses>>

Lose(m) ==
    /\ m \in net /\ losses < MaxLoss
    /\ net' = net \ {m} /\ losses' = losses + 1
    /\ UNCHANGED <<pc, opened, file, diskOK, serving, early>>

Client == SendRequest \/ RecvFails \/ ReceiveError \/ \E n \in Blocks : ReceiveData(n)
Environment == ServeRequest \/ Timeout \/ (\E n \in Blocks : ServeAck(n)) \/ (\E m \in Messages : Lose(m))

Next == Client \/ Environment

Spec == Init /\ [][Next]_vars

(* The client's recvfrom() returns what has arrived; what is not lost arrives, *)
(* and the server's timer runs.                                                *)
FairSpec == Spec /\ WF_vars(SendRequest) /\ WF_vars(ReceiveError) /\ WF_vars(ServeRequest)
                 /\ WF_vars(Timeout)
                 /\ \A n \in Blocks : WF_vars(ReceiveData(n)) /\ WF_vars(ServeAck(n))

-----------------------------------------------------------------------------
\* The variables have their types.
TypeOK ==
    /\ pc \in {"request", "receive", "finished", "failed"} /\ opened \in BOOLEAN /\ diskOK \in BOOLEAN
    /\ file \in Seq(Blocks) /\ net \subseteq Messages
    /\ serving \in 0..(NumBlocks + 1) /\ losses \in 0..MaxLoss /\ early \in 0..MaxEarly

\* As long as the disk works the client acknowledges only what it has written, so
\* the server never moves past a block the file does not hold (tftpget.c:216-219).
AckedIsStored == diskOK =>
    /\ \A n \in Blocks : ACK(n) \in net => n \in Range(file)
    /\ \A n \in Blocks : n < serving => n \in Range(file)

\* If the disk works, a client that says "Finished." has every block of the file,
\* through losses, repetitions and reordering (tftpget.c:168-171, 221-226).
NothingMissing == diskOK /\ pc = "finished" => Range(file) = Blocks

\* A client that says "Finished." has the file: every block once and in order
\* (tftpget.c:2 "get a file from tftp server", 168-171).
FileIntact == pc = "finished" => file = [n \in Blocks |-> n]

\* Once the server has the request, lost and repeated datagrams do not keep the
\* client from ending: it acknowledges a repeated block again.  After a failure of
\* the disk the server may have every acknowledgment while the client waits on, for
\* block_size was not set (tftpget.c:214-226).
ServedEnds ==
    serving > 0 ~> pc \in {"finished", "failed"} \/ (~diskOK /\ serving > NumBlocks)
=============================================================================
