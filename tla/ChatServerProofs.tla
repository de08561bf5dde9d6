--------------------------- MODULE ChatServerProofs ---------------------------
(***************************************************************************)
(* Proofs about ChatServer, for any number of clients and descriptors.     *)
(*                                                                         *)
(* None of the invariants is inductive alone: that a result of select() is *)
(* still true needs the tables to agree and no client to own two           *)
(* descriptors; that needs the clients in the accept queue to be distinct  *)
(* from each other and from the connected ones.  IndInv collects them.     *)
(*                                                                         *)
(* On top of it, Effect says what a step does to the connections and to    *)
(* the units on their way; that the streams stay intact and that the       *)
(* server implements Relay both follow from Effect, case by case.          *)
(***************************************************************************)
EXTENDS ChatServer, SequenceTheorems, TLAPS

\* Outside a pass nothing is left of select()'s results.
BetweenPasses == pc \in {"loop", "select"} => rset = {} /\ wset = {}

\* ReadinessNotStale, also while write() runs; and until net_accept has run,
\* nothing the pass will write to has been closed.
PassOK ==
    pc \in {"scan", "write"} =>
        /\ Listening \in rset => backlog # <<>> /\ wset \subseteq Attached
        /\ \A f \in rset \ {Listening} : f \in Attached /\ Readable(fdtab[f])
        /\ \A f \in wset : f \in Attached => conn_list[f].sbuf # <<>>

\* The running write() has a connection and copies no more than its sbuf.
WriteOK ==
    pc = "write" => \A f \in ConnFds :
        AtWrite(f) => f \in Attached /\ wdone <= Len(conn_list[f].sbuf)

\* A client is idle, queued once, or connected once.
QueueOK ==
    Running =>
        /\ \A i, j \in 1..Len(backlog) : backlog[i] = backlog[j] => i = j
        /\ \A i \in 1..Len(backlog) : link[backlog[i]] # "idle"
        /\ \A i \in 1..Len(backlog) : \A f \in Attached : fdtab[f] # backlog[i]
        /\ \A f \in Attached : link[fdtab[f]] # "idle"

\* BuffersFit, with the stronger fact that rbuf is empty between two steps.
BuffersOK ==
    \A f \in Attached : /\ Len(conn_list[f].sbuf) <= conn_list[f].ssize
                        /\ conn_list[f].rbuf = <<>> /\ conn_list[f].rsize > 0

IndInv == /\ TypeOK /\ TablesAgree /\ WriteInterest
          /\ BetweenPasses /\ PassOK /\ WriteOK /\ QueueOK /\ BuffersOK

-----------------------------------------------------------------------------
(* The objects the actions build.                                          *)

\* Every unit the server handles is a unit.
LEMMA Units ==
    ASSUME NEW c \in Clients, NEW k \in Nat
    PROVE  Header(c, k) \in Unit /\ Data(c, k) \in Unit /\ Sorry(c) \in Unit
  BY DEF Header, Data, Sorry, Unit

\* The types of the fields of a conn_t.
LEMMA FieldTypes ==
    ASSUME NEW conn \in ConnObject
    PROVE  /\ conn.peer \in Clients /\ conn.rbuf \in Seq(Unit) /\ conn.rsize \in Nat
           /\ conn.sbuf \in Seq(Unit) /\ conn.ssize \in Nat /\ conn # NULL
           /\ Len(conn.sbuf) \in Nat
  BY ChatAssumption DEF ConnObject

\* init_conn_object() returns a conn_t with two empty buffers.
LEMMA NewConn ==
    ASSUME NEW c \in Clients
    PROVE  LET new == init_conn_object(c) IN
           /\ new \in ConnObject /\ new # NULL
           /\ new.peer = c /\ new.sbuf = <<>> /\ new.rbuf = <<>>
           /\ new.rsize > 0 /\ new.ssize \in Nat
  <1>1. init_conn_object(c) \in ConnObject
    BY ChatAssumption DEF init_conn_object, conn_t, ConnObject
  <1> QED BY <1>1, ChatAssumption DEF init_conn_object, conn_t

\* buffered_send() keeps the peer and the receive buffer, appends, and the
\* payload fits the buffer afterwards.
LEMMA SentConn ==
    ASSUME NEW conn \in ConnObject, NEW frame \in Seq(Unit), frame # <<>>
    PROVE  LET new == buffered_send(conn, frame) IN
           /\ new \in ConnObject /\ new # NULL
           /\ new.peer = conn.peer /\ new.rbuf = conn.rbuf /\ new.rsize = conn.rsize
           /\ new.sbuf = conn.sbuf \o frame
           /\ new.sbuf # <<>> /\ Len(new.sbuf) <= new.ssize
  <1> DEFINE payload == conn.sbuf \o frame
             size == IF Len(payload) > conn.ssize THEN Len(payload) ELSE conn.ssize
             new == buffered_send(conn, frame)
  <1>1. payload \in Seq(Unit) /\ Len(payload) = Len(conn.sbuf) + Len(frame)
    BY FieldTypes, ConcatProperties
  <1>2. Len(frame) > 0 /\ Len(frame) \in Nat
    BY EmptySeq, LenProperties
  <1>3. size \in Nat /\ Len(payload) <= size
    BY <1>1, <1>2, FieldTypes
  <1>4. payload # <<>>
    BY <1>1, <1>2, FieldTypes
  <1>5. new = conn_t(conn.peer, conn.rbuf, conn.rsize, payload, size)
    BY DEF buffered_send
  <1> HIDE DEF payload, size, new
  <1>6. /\ new \in ConnObject /\ new # NULL
        /\ new.peer = conn.peer /\ new.rbuf = conn.rbuf /\ new.rsize = conn.rsize
        /\ new.sbuf = payload /\ new.ssize = size
    <2>1. new \in ConnObject
      BY <1>1, <1>3, <1>5, FieldTypes DEF conn_t, ConnObject
    <2> QED BY <2>1, <1>5, FieldTypes DEF conn_t
  <1> QED
    BY <1>3, <1>4, <1>6 DEF new, payload

\* exchange_data() empties the reader's own rbuf.
LEMMA DrainedConn ==
    ASSUME NEW conn \in ConnObject, NEW rs \in Nat
    PROVE  LET new == conn_t(conn.peer, <<>>, rs, conn.sbuf, conn.ssize) IN
           /\ new \in ConnObject /\ new # NULL
           /\ new.peer = conn.peer /\ new.rbuf = <<>> /\ new.rsize = rs
           /\ new.sbuf = conn.sbuf /\ new.ssize = conn.ssize
  <1>1. conn_t(conn.peer, <<>>, rs, conn.sbuf, conn.ssize) \in ConnObject
    BY FieldTypes DEF conn_t, ConnObject
  <1> QED BY <1>1, FieldTypes DEF conn_t

\* net_write() drops what was sent.
LEMMA TrimmedConn ==
    ASSUME NEW conn \in ConnObject, NEW k \in Nat, k <= Len(conn.sbuf)
    PROVE  LET new == Trim(conn, k) IN
           /\ new \in ConnObject /\ new # NULL
           /\ new.peer = conn.peer /\ new.rbuf = conn.rbuf /\ new.rsize = conn.rsize
           /\ new.ssize = conn.ssize
           /\ Len(new.sbuf) = Len(conn.sbuf) - k
           /\ new.sbuf = <<>> <=> Len(conn.sbuf) = k
  <1> DEFINE rest == SubSeq(conn.sbuf, k + 1, Len(conn.sbuf))
             new == Trim(conn, k)
  <1>1. rest \in Seq(Unit) /\ Len(rest) = Len(conn.sbuf) - k
    BY FieldTypes, SubSeqProperties
  <1>2. rest = <<>> <=> Len(conn.sbuf) = k
    <2>1. rest = <<>> <=> Len(rest) = 0
      BY <1>1, EmptySeq
    <2> QED BY <1>1, <2>1, FieldTypes
  <1>3. new = conn_t(conn.peer, conn.rbuf, conn.rsize, rest, conn.ssize)
    BY DEF Trim
  <1> HIDE DEF rest, new
  <1>4. /\ new \in ConnObject /\ new # NULL
        /\ new.peer = conn.peer /\ new.rbuf = conn.rbuf /\ new.rsize = conn.rsize
        /\ new.sbuf = rest /\ new.ssize = conn.ssize
    <2>1. new \in ConnObject
      BY <1>1, <1>3, FieldTypes DEF conn_t, ConnObject
    <2> QED BY <2>1, <1>3, FieldTypes DEF conn_t
  <1> QED
    BY <1>1, <1>2, <1>4 DEF new

-----------------------------------------------------------------------------
(* The initial state, and one lemma per action.                            *)

\* main() reaches its loop with an empty connection list.
LEMMA InitInv == Init => IndInv
  <1> SUFFICES ASSUME Init PROVE IndInv
    OBVIOUS
  <1>1. Attached = {}
    BY DEF Init, Attached
  <1>2. TypeOK
    BY ChatAssumption DEF Init, TypeOK, ConnFds
  <1>3. TablesAgree /\ WriteInterest /\ BuffersOK
    BY <1>1 DEF Init, TablesAgree, WriteInterest, BuffersOK
  <1>4. BetweenPasses /\ PassOK /\ WriteOK /\ QueueOK
    BY <1>1 DEF Init, BetweenPasses, PassOK, WriteOK, QueueOK
  <1> QED BY <1>2, <1>3, <1>4 DEF IndInv

\* A step that leaves the server's own variables alone.
LEMMA ServerUnchanged ==
    ASSUME IndInv, UNCHANGED <<serverVars, fdtab>>
    PROVE  /\ Attached' = Attached /\ Running' = Running
           /\ TablesAgree' /\ WriteInterest' /\ BetweenPasses' /\ WriteOK' /\ BuffersOK'
  BY DEF IndInv, serverVars, Attached, Running, TablesAgree, WriteInterest, BetweenPasses,
         WriteOK, AtWrite, BuffersOK

\* connect(): a new client joins the accept queue.
LEMMA ConnectInv == ASSUME IndInv, NEW c \in Clients, Connect(c) PROVE IndInv'
  <1>1. /\ backlog' \in Seq(Clients) /\ Len(backlog') = Len(backlog) + 1 /\ Len(backlog) \in Nat
        /\ backlog' # <<>> /\ backlog'[Len(backlog) + 1] = c
        /\ \A i \in 1..Len(backlog) : backlog'[i] = backlog[i]
    <2>1. backlog \in Seq(Clients) /\ backlog' = Append(backlog, c)
      BY DEF IndInv, TypeOK, Connect
    <2> QED BY <2>1, AppendProperties, LenProperties
  <1>2. UNCHANGED <<serverVars, fdtab, sent, nread, exit_flag, err, out, got>>
    BY DEF Connect
  <1>3. TypeOK'
    BY <1>1, <1>2 DEF IndInv, TypeOK, Connect, serverVars
  <1>4. \A d \in Clients : /\ d # c => link'[d] = link[d]
                           /\ Readable(d) => Readable(d)'
    BY <1>2 DEF Connect, IndInv, TypeOK, Readable
  <1>5. PassOK'
    <2>1. \A f \in Attached : fdtab[f] \in Clients
      BY DEF IndInv, TypeOK, Attached, TablesAgree, Running, Connect
    <2> QED
      BY <1>1, <1>2, <1>4, <2>1, ServerUnchanged DEF IndInv, PassOK, serverVars
  <1>6. QueueOK'
    <2>1. Running /\ link[c] = "idle" /\ link' = [link EXCEPT ![c] = "up"]
      BY DEF Connect
    <2>2. link'[c] = "up"
      BY <2>1 DEF IndInv, TypeOK
    <2>3. \A i \in 1..Len(backlog) : backlog[i] # c /\ backlog[i] \in Clients
      BY <2>1, ElementOfSeq DEF IndInv, QueueOK, TypeOK
    <2>4. \A f \in Attached : fdtab[f] # c /\ fdtab[f] \in Clients
      BY <2>1 DEF IndInv, QueueOK, TypeOK, Attached, TablesAgree
    <2> QED
      BY <1>1, <1>2, <1>4, <2>1, <2>2, <2>3, <2>4, ServerUnchanged DEF IndInv, QueueOK
  <1> QED BY <1>2, <1>3, <1>5, <1>6, ServerUnchanged DEF IndInv

\* send(), recv(), shutdown() and a reset by a client change only what the
\* kernel knows about that client, and never make it less ready.
LEMMA PeerInv ==
    ASSUME IndInv, NEW c \in Clients, Send(c) \/ Receive(c) \/ Finish(c) \/ Reset(c)
    PROVE  IndInv'
  <1>1. UNCHANGED <<serverVars, fdtab, backlog, exit_flag>>
    BY DEF Send, Receive, Finish, Reset
  <1>2. TypeOK'
    <2>1. Len(out[c]) \in Nat
      BY DEF IndInv, TypeOK
    <2>2. CASE Send(c)
      BY <1>1, <2>2 DEF IndInv, TypeOK, Send, serverVars
    <2>3. CASE Receive(c)
      BY <1>1, <2>1, <2>3 DEF IndInv, TypeOK, Receive, serverVars
    <2>4. CASE Finish(c)
      BY <1>1, <2>4 DEF IndInv, TypeOK, Finish, serverVars
    <2>5. CASE Reset(c)
      BY <1>1, <2>5 DEF IndInv, TypeOK, Reset, serverVars
    <2> QED BY <2>2, <2>3, <2>4, <2>5
  <1>3. \A d \in Clients : /\ Readable(d) => Readable(d)'
                           /\ link[d] # "idle" => link'[d] # "idle"
    <2>1. CASE Send(c)
      BY <2>1 DEF IndInv, TypeOK, Readable, Send
    <2>2. CASE Receive(c)
      BY <2>2 DEF Readable, Receive
    <2>3. CASE Finish(c) \/ Reset(c)
      BY <2>3 DEF IndInv, TypeOK, Readable, Finish, Reset
    <2> QED BY <2>1, <2>2, <2>3
  <1>4. Running => \A f \in Attached : fdtab[f] \in Clients
    BY DEF IndInv, TypeOK, Attached, TablesAgree
  <1>5. PassOK'
    BY <1>1, <1>3, <1>4, ServerUnchanged DEF IndInv, PassOK, serverVars, Running
  <1>6. QueueOK'
    <2>1. \A i \in 1..Len(backlog) : backlog[i] \in Clients
      BY ElementOfSeq DEF IndInv, TypeOK
    <2> QED BY <1>1, <1>3, <1>4, <2>1, ServerUnchanged DEF IndInv, QueueOK
  <1> QED BY <1>1, <1>2, <1>5, <1>6, ServerUnchanged DEF IndInv

\* Leaving the loop: what holds of a running server is claimed no longer.
LEMMA ShutdownInv == ASSUME IndInv, Shutdown PROVE IndInv'
  <1>1. pc' = "exited" /\ Attached' = {} /\ ~Running'
    BY DEF Shutdown, Attached, Running
  <1>2. TypeOK'
    BY DEF IndInv, TypeOK, Shutdown
  <1> QED
    BY <1>1, <1>2 DEF IndInv, TablesAgree, WriteInterest, BetweenPasses, PassOK, WriteOK,
                      QueueOK, BuffersOK

\* The test of the flag, and the end of a pass.
LEMMA LoopInv == ASSUME IndInv, CheckExit \/ EndOfPass PROVE IndInv'
  <1>1. CASE Shutdown
    BY <1>1, ShutdownInv
  <1>2. CASE UNCHANGED <<conn_list, read_set, write_set, maxfd, exit_flag, rset, wset,
                         wdone, fdtab, backlog, clientVars>>
             /\ Running /\ pc' \in {"loop", "select"} /\ rset = {} /\ wset = {}
    <2>1. TypeOK'
      BY <1>2 DEF IndInv, TypeOK, clientVars
    <2>2. Attached' = Attached /\ Running'
      BY <1>2 DEF Attached, Running
    <2>3. TablesAgree' /\ WriteInterest' /\ BuffersOK' /\ QueueOK'
      BY <1>2, <2>2 DEF IndInv, TablesAgree, WriteInterest, BuffersOK, QueueOK, clientVars
    <2>4. BetweenPasses' /\ PassOK' /\ WriteOK'
      BY <1>2 DEF BetweenPasses, PassOK, WriteOK
    <2> QED BY <2>1, <2>3, <2>4 DEF IndInv
  <1>3. rset \cup wset = {} => rset = {} /\ wset = {}
    OBVIOUS
  <1> QED
    BY <1>1, <1>2, <1>3 DEF CheckExit, EndOfPass, IndInv, BetweenPasses, Running

\* select(): the bits it sets are true of the connections they stand for.
LEMMA SelectInv == ASSUME IndInv, Select PROVE IndInv'
  <1>1. CASE BadFd
    BY <1>1, ShutdownInv DEF Select
  <1>2. CASE ~BadFd
    <2>1. /\ pc = "select" /\ pc' = (IF ReadyToRead \cup ReadyToWrite = {} THEN "loop" ELSE "scan")
          /\ rset' = ReadyToRead /\ wset' = ReadyToWrite
          /\ UNCHANGED <<conn_list, read_set, write_set, maxfd, exit_flag, wdone,
                         fdtab, backlog, clientVars>>
      BY <1>2 DEF Select
    <2>2. Running /\ Running' /\ Attached' = Attached
      BY <2>1 DEF Running, Attached
    <2>3. /\ ReadyToRead \subseteq read_set /\ ReadyToWrite \subseteq write_set
          /\ Listening \in ReadyToRead => backlog # <<>>
          /\ \A f \in ReadyToRead \ {Listening} : Readable(fdtab[f])
      BY DEF ReadyToRead, ReadyToWrite
    <2>4. TypeOK'
      BY <2>1, <2>3 DEF IndInv, TypeOK, clientVars
    <2>5. TablesAgree' /\ WriteInterest' /\ BuffersOK' /\ QueueOK'
      BY <2>1, <2>2 DEF IndInv, TablesAgree, WriteInterest, BuffersOK, QueueOK, clientVars
    <2>6. BetweenPasses' /\ WriteOK'
      BY <2>1 DEF BetweenPasses, WriteOK
    <2>7. PassOK'
      <3>1. \A f : Readable(f)' <=> Readable(f)
        BY <2>1 DEF Readable, clientVars
      <3>2. read_set = {Listening} \cup Attached
            /\ write_set = {f \in Attached : conn_list[f].sbuf # <<>>}
        BY <2>2 DEF IndInv, TablesAgree, WriteInterest
      <3> QED BY <2>1, <2>2, <2>3, <3>1, <3>2 DEF PassOK
    <2> QED BY <2>4, <2>5, <2>6, <2>7 DEF IndInv
  <1> QED BY <1>1, <1>2

\* The accept queue after accept() has taken its head.
LEMMA QueueTail ==
    ASSUME TypeOK, backlog # <<>>
    PROVE  /\ Len(backlog) \in Nat \ {0} /\ Head(backlog) = backlog[1] /\ Head(backlog) \in Clients
           /\ Tail(backlog) \in Seq(Clients) /\ Len(Tail(backlog)) = Len(backlog) - 1
           /\ \A i \in 1..(Len(backlog) - 1) : Tail(backlog)[i] = backlog[i + 1]
           /\ \A i \in 1..Len(backlog) : backlog[i] \in Clients
  <1>1. backlog \in Seq(Clients)
    BY DEF TypeOK
  <1> QED BY <1>1, EmptySeq, HeadTailProperties, ElementOfSeq

\* net_accept with a conn_t: the lowest free descriptor joins every table.
LEMMA AcceptInv ==
    ASSUME IndInv, net_accept, NEW f \in FreeFds, AcceptSucceeds(f)
    PROVE  IndInv'
  <1> DEFINE c == Head(backlog)
  <1>1. /\ pc = "scan" /\ Running /\ f \in ConnFds /\ f \notin Attached
        /\ Listening \in rset /\ backlog # <<>> /\ wset \subseteq Attached
    BY DEF IndInv, net_accept, AtRead, PassOK, Running, FreeFds, TablesAgree
  <1>2. /\ fdtab' = [fdtab EXCEPT ![f] = c]
        /\ conn_list' = [conn_list EXCEPT ![f] = init_conn_object(c)]
        /\ read_set' = read_set \cup {f} /\ maxfd' = (IF maxfd < f THEN f ELSE maxfd)
        /\ backlog' = Tail(backlog) /\ rset' = rset \ {Listening}
        /\ UNCHANGED <<pc, write_set, exit_flag, wset, wdone, err, sent, nread, got, link, out>>
    BY DEF net_accept, AcceptSucceeds, net_register_read
  <1>3. c \in Clients
    BY <1>1, QueueTail DEF IndInv
  <1>4. TypeOK'
    <2>1. maxfd' \in Listening..MaxFd
      BY <1>1, <1>2, ChatAssumption DEF IndInv, TypeOK, ConnFds
    <2>2. conn_list' \in [ConnFds -> ConnObject \cup {NULL}]
      BY <1>2, <1>3, NewConn DEF IndInv, TypeOK
    <2>3. backlog' \in Seq(Clients)
      BY <1>1, <1>2, QueueTail DEF IndInv
    <2> QED BY <1>1, <1>2, <1>3, <2>1, <2>2, <2>3 DEF IndInv, TypeOK
  <1>5. /\ Attached' = Attached \cup {f} /\ Running'
        /\ conn_list'[f] = init_conn_object(c) /\ fdtab'[f] = c
        /\ \A g \in Attached : conn_list'[g] = conn_list[g] /\ fdtab'[g] = fdtab[g]
    BY <1>1, <1>2, <1>3, NewConn DEF IndInv, TypeOK, Attached, Running
  <1>6. \A g \in Attached : fdtab[g] # c
    <2>1. 1 \in 1..Len(backlog) /\ c = backlog[1]
      BY <1>1, QueueTail DEF IndInv
    <2> QED BY <1>1, <2>1 DEF IndInv, QueueOK
  <1>7. TablesAgree'
    <2>1. \A g \in ConnFds : g # f => fdtab'[g] = fdtab[g]
      BY <1>2 DEF IndInv, TypeOK
    <2>2. c # NULL
      BY <1>3, ChatAssumption
    <2>3. \A g \in Attached : g <= maxfd'
      BY <1>1, <1>2 DEF IndInv, TablesAgree, TypeOK, Attached, ConnFds
    <2>4. f <= maxfd'
      BY <1>1, <1>2 DEF IndInv, TypeOK, ConnFds
    <2>5. read_set' = {Listening} \cup Attached'
      BY <1>1, <1>2, <1>5 DEF IndInv, TablesAgree
    <2>6. \A g \in ConnFds : fdtab'[g] # NULL <=> g \in Attached'
      BY <1>1, <1>5, <2>1, <2>2 DEF IndInv, TablesAgree
    <2>7. \A g \in Attached' : fdtab'[g] = conn_list'[g].peer
      BY <1>1, <1>3, <1>5, NewConn DEF IndInv, TablesAgree
    <2>8. \A g, h \in Attached' : fdtab'[g] = fdtab'[h] => g = h
      BY <1>1, <1>5, <1>6 DEF IndInv, TablesAgree
    <2> QED BY <1>5, <2>3, <2>4, <2>5, <2>6, <2>7, <2>8 DEF TablesAgree
  <1>8. WriteInterest' /\ BuffersOK'
    BY <1>1, <1>2, <1>3, <1>5, NewConn, EmptySeq DEF IndInv, WriteInterest, BuffersOK
  <1>9. BetweenPasses' /\ WriteOK'
    BY <1>1, <1>2 DEF BetweenPasses, WriteOK
  <1>10. PassOK'
    <2>1. \A g \in Attached : Readable(fdtab[g])' <=> Readable(fdtab[g])
      BY <1>2, <1>5 DEF Readable
    <2>2. \A g \in rset' \ {Listening} : g \in Attached' /\ Readable(fdtab[g])'
      BY <1>1, <1>2, <1>5, <2>1 DEF IndInv, PassOK
    <2>3. \A g \in wset' : g \in Attached' => conn_list'[g].sbuf # <<>>
      BY <1>1, <1>2, <1>5 DEF IndInv, PassOK
    <2> QED BY <1>2, <2>2, <2>3 DEF PassOK
  <1>11. QueueOK'
    <2>1. \A i, j \in 1..Len(backlog') : backlog'[i] = backlog'[j] => i = j
      BY <1>1, <1>2, QueueTail DEF IndInv, QueueOK
    <2>2. \A i \in 1..Len(backlog') : backlog'[i] = backlog[i + 1] /\ i + 1 \in 1..Len(backlog)
      BY <1>1, <1>2, QueueTail DEF IndInv
    <2>3. \A i \in 1..Len(backlog') : link'[backlog'[i]] # "idle"
      BY <1>1, <1>2, <2>2 DEF IndInv, QueueOK
    <2>4. \A i \in 1..Len(backlog') : backlog'[i] # c
      BY <1>1, <2>2, QueueTail DEF IndInv, QueueOK
    <2>5. \A i \in 1..Len(backlog') : \A g \in Attached' : fdtab'[g] # backlog'[i]
      BY <1>1, <1>5, <2>2, <2>4 DEF IndInv, QueueOK
    <2>6. link[c] # "idle"
      BY <1>1, QueueTail DEF IndInv, QueueOK
    <2>7. \A g \in Attached' : link'[fdtab'[g]] # "idle"
      BY <1>1, <1>2, <1>5, <2>6 DEF IndInv, QueueOK
    <2> QED BY <2>1, <2>3, <2>5, <2>7 DEF QueueOK
  <1> QED BY <1>4, <1>7, <1>8, <1>9, <1>10, <1>11 DEF IndInv

\* net_accept without a connection: accept() failed, or no memory for the conn_t.
LEMMA NoAcceptInv ==
    ASSUME IndInv, net_accept, AcceptFails \/ AcceptRefuses
    PROVE  IndInv'
  <1> DEFINE c == Head(backlog)
  <1>1. /\ pc = "scan" /\ Running /\ Listening \in rset /\ backlog # <<>>
    BY DEF IndInv, net_accept, AtRead, PassOK, Running
  <1>2. /\ rset' = rset \ {Listening}
        /\ UNCHANGED <<pc, conn_list, read_set, maxfd, fdtab, write_set, exit_flag, wset, wdone,
                       err, sent, nread, got>>
    BY DEF net_accept, AcceptFails, AcceptRefuses
  <1>3. Attached' = Attached /\ Running'
    BY <1>1, <1>2 DEF Attached, Running
  <1>4. TablesAgree' /\ WriteInterest' /\ BuffersOK' /\ BetweenPasses' /\ WriteOK'
    BY <1>1, <1>2, <1>3 DEF IndInv, TablesAgree, WriteInterest, BuffersOK, BetweenPasses, WriteOK
  <1>5. CASE AcceptFails
    <2>1. UNCHANGED <<backlog, link, out>>
      BY <1>5 DEF AcceptFails
    <2>2. TypeOK' /\ QueueOK'
      BY <1>2, <1>3, <2>1 DEF IndInv, TypeOK, QueueOK, Running
    <2>3. PassOK'
      BY <1>1, <1>2, <1>3, <2>1 DEF IndInv, PassOK, Readable
    <2> QED BY <1>4, <2>2, <2>3 DEF IndInv
  <1>6. CASE AcceptRefuses
    <2>1. /\ out' = [out EXCEPT ![c] = IF link[c] = "rst" THEN @ ELSE Append(@, Sorry(c))]
          /\ link' = [link EXCEPT ![c] = "gone"] /\ backlog' = Tail(backlog)
      BY <1>6 DEF AcceptRefuses
    <2>2. c \in Clients /\ c = backlog[1] /\ 1 \in 1..Len(backlog)
      BY <1>1, QueueTail DEF IndInv
    <2>3. out' \in [Clients -> Seq(Unit)]
      <3>1. out[c] \in Seq(Unit) /\ Sorry(c) \in Unit
        BY <2>2, Units DEF IndInv, TypeOK
      <3>2. Append(out[c], Sorry(c)) \in Seq(Unit)
        BY <3>1, AppendProperties
      <3> QED BY <2>1, <3>1, <3>2 DEF IndInv, TypeOK
    <2>4. TypeOK'
      BY <1>1, <1>2, <2>1, <2>3, QueueTail DEF IndInv, TypeOK
    <2>5. \A g \in Attached : fdtab[g] # c /\ fdtab[g] \in Clients
      <3>1. \A g \in Attached : fdtab[g] \in Clients
        BY <1>1 DEF IndInv, TablesAgree, TypeOK, Attached
      <3>2. \A g \in Attached : fdtab[g] # c
        BY <1>1, <2>2 DEF IndInv, QueueOK
      <3> QED BY <3>1, <3>2
    <2>6. PassOK'
      BY <1>1, <1>2, <1>3, <2>1, <2>5 DEF IndInv, TypeOK, PassOK, Readable
    <2>7. QueueOK'
      <3>1. \A i \in 1..Len(backlog') : /\ backlog'[i] = backlog[i + 1] /\ i + 1 \in 1..Len(backlog)
                                        /\ backlog[i + 1] \in Clients
        BY <1>1, <2>1, QueueTail DEF IndInv
      <3>2. \A i, j \in 1..Len(backlog') : backlog'[i] = backlog'[j] => i = j
        BY <1>1, <2>1, QueueTail DEF IndInv, QueueOK
      <3>3. \A d \in Clients : link[d] # "idle" => link'[d] # "idle"
        BY <2>1 DEF IndInv, TypeOK
      <3>4. \A i \in 1..Len(backlog') : link'[backlog'[i]] # "idle"
        BY <1>1, <3>1, <3>3 DEF IndInv, QueueOK
      <3>5. \A g \in Attached' : link'[fdtab'[g]] # "idle"
        BY <1>1, <1>2, <1>3, <2>5, <3>3 DEF IndInv, QueueOK
      <3> QED BY <1>1, <1>2, <1>3, <3>1, <3>2, <3>4, <3>5 DEF IndInv, QueueOK
    <2> QED BY <1>4, <2>4, <2>6, <2>7 DEF IndInv
  <1> QED BY <1>5, <1>6

\* Closing a connection takes it out of every table at once and leaves the other
\* connections as they are.
LEMMA CloseConnInv ==
    ASSUME IndInv, Running, Running', NEW f \in Attached, CloseConn(f),
           UNCHANGED <<maxfd, backlog, sent, nread>>
    PROVE  /\ conn_list' \in [ConnFds -> ConnObject \cup {NULL}]
           /\ fdtab' \in [ConnFds -> Clients \cup {NULL}]
           /\ read_set' \subseteq ConnFds \cup {Listening} /\ write_set' \subseteq ConnFds
           /\ link' \in [Clients -> {"idle", "up", "fin", "rst", "gone"}]
           /\ Attached' = Attached \ {f}
           /\ \A g \in Attached' : /\ conn_list'[g] = conn_list[g]
                                   /\ Readable(fdtab[g]) => Readable(fdtab[g])'
           /\ TablesAgree' /\ WriteInterest' /\ BuffersOK' /\ QueueOK'
  <1>1. f \in ConnFds /\ fdtab[f] \in Clients /\ Listening # f
    BY ChatAssumption DEF IndInv, TypeOK, Attached, TablesAgree, ConnFds
  <1>2. /\ fdtab' = [fdtab EXCEPT ![f] = NULL] /\ conn_list' = [conn_list EXCEPT ![f] = NULL]
        /\ read_set' = read_set \ {f} /\ write_set' = write_set \ {f}
        /\ link' = [link EXCEPT ![fdtab[f]] = "gone"]
    BY DEF CloseConn
  <1>3. /\ conn_list' \in [ConnFds -> ConnObject \cup {NULL}]
        /\ fdtab' \in [ConnFds -> Clients \cup {NULL}]
        /\ read_set' \subseteq ConnFds \cup {Listening} /\ write_set' \subseteq ConnFds
        /\ link' \in [Clients -> {"idle", "up", "fin", "rst", "gone"}]
    BY <1>1, <1>2 DEF IndInv, TypeOK
  <1>4. /\ Attached' = Attached \ {f} /\ fdtab'[f] = NULL
        /\ \A g \in ConnFds \ {f} : conn_list'[g] = conn_list[g] /\ fdtab'[g] = fdtab[g]
    BY <1>1, <1>2 DEF IndInv, TypeOK, Attached
  <1>5. \A g \in Attached' : g \in ConnFds \ {f} /\ fdtab[g] # fdtab[f] /\ fdtab[g] \in Clients
    BY <1>4 DEF IndInv, TablesAgree, TypeOK, Attached
  <1>6. \A d \in Clients : d # fdtab[f] => link'[d] = link[d]
    BY <1>2 DEF IndInv, TypeOK
  <1>7. \A g \in Attached' : Readable(fdtab[g]) => Readable(fdtab[g])'
    BY <1>4, <1>5, <1>6 DEF Readable
  <1>8. TablesAgree'
    <2>1. read_set' = {Listening} \cup Attached'
      BY <1>1, <1>2, <1>4 DEF IndInv, TablesAgree
    <2>2. \A g \in ConnFds : fdtab'[g] # NULL <=> g \in Attached'
      BY <1>4 DEF IndInv, TablesAgree
    <2>3. \A g \in Attached' : fdtab'[g] = conn_list'[g].peer /\ g <= maxfd'
      BY <1>4, <1>5 DEF IndInv, TablesAgree
    <2>4. \A g, h \in Attached' : fdtab'[g] = fdtab'[h] => g = h
      BY <1>4, <1>5 DEF IndInv, TablesAgree
    <2> QED BY <2>1, <2>2, <2>3, <2>4 DEF TablesAgree
  <1>9. WriteInterest'
    BY <1>2, <1>4, <1>5 DEF IndInv, WriteInterest
  <1>10. BuffersOK'
    BY <1>4, <1>5 DEF IndInv, BuffersOK
  <1>11. QueueOK'
    <2>1. \A i \in 1..Len(backlog) : backlog[i] \in Clients
      BY ElementOfSeq DEF IndInv, TypeOK
    <2>2. \A d \in Clients : link[d] # "idle" => link'[d] # "idle"
      BY <1>1, <1>2 DEF IndInv, TypeOK
    <2>3. \A i \in 1..Len(backlog) : link'[backlog[i]] # "idle"
      BY <2>1, <2>2 DEF IndInv, QueueOK
    <2>4. \A g \in Attached' : link'[fdtab'[g]] # "idle"
      BY <1>4, <1>5, <2>2 DEF IndInv, QueueOK
    <2> QED BY <1>4, <1>5, <2>3, <2>4 DEF IndInv, QueueOK
  <1> QED BY <1>3, <1>4, <1>5, <1>7, <1>8, <1>9, <1>10, <1>11

\* What a read() of n units appends is a sequence of units.
LEMMA ChunkType ==
    ASSUME NEW c \in Clients, NEW n \in Nat, NEW k0 \in Nat
    PROVE  /\ [k \in 1..n |-> Data(c, k0 + k)] \in Seq(Unit)
           /\ Len([k \in 1..n |-> Data(c, k0 + k)]) = n
  <1>1. \A k \in 1..n : Data(c, k0 + k) \in Unit
    BY Units
  <1> HIDE DEF Data, Unit
  <1> QED BY <1>1, IsASeq

\* A frame is not empty.
LEMMA FrameType ==
    ASSUME NEW c \in Clients, NEW chunk \in Seq(Unit)
    PROVE  Frame(c, chunk) \in Seq(Unit) /\ Frame(c, chunk) # <<>>
  <1> DEFINE h == Header(c, Len(chunk))
  <1>1. Len(chunk) \in Nat /\ h \in Unit
    BY Units, LenProperties
  <1> HIDE DEF h
  <1>2. <<h>> \in Seq(Unit) /\ Len(<<h>>) = 1
    BY <1>1
  <1>3. <<h>> \o chunk \in Seq(Unit) /\ Len(<<h>> \o chunk) = 1 + Len(chunk)
    BY <1>2, ConcatProperties
  <1>4. <<h>> \o chunk # <<>>
    BY <1>1, <1>3, EmptySeq
  <1> QED BY <1>3, <1>4 DEF Frame, h

\* exchange_data(): one new chunk in rbuf is framed for every other connection.
LEMMA ReadDataInv ==
    ASSUME IndInv, NEW f \in ConnFds, net_read(f), f \in Attached, ReadData(f)
    PROVE  IndInv'
  <1> DEFINE c == fdtab[f]
             conn == conn_list[f]
             n == ReadCount(f)
             chunk == conn.rbuf \o [k \in 1..n |-> Data(c, nread[c] + k)]
             frame == Frame(conn.peer, chunk)
  <1>1. /\ pc = "scan" /\ Running /\ f \in rset /\ AtRead(f)
        /\ rset' = rset \ {f}
        /\ UNCHANGED <<exit_flag, wset, wdone, backlog, sent, out, got>>
    BY DEF net_read, AtRead, Running
  <1>2. /\ n > 0 /\ nread' = [nread EXCEPT ![c] = @ + n]
        /\ net_register_write(Others(f))
        /\ UNCHANGED <<pc, read_set, fdtab, link, err>>
    BY DEF ReadData
  <1>3. PICK rs \in {conn.rsize, 2 * conn.rsize} : exchange_data(f, chunk, rs)
    BY DEF ReadData
  <1>4. c \in Clients /\ conn \in ConnObject /\ conn.peer = c /\ conn.rsize > 0
    BY <1>1 DEF IndInv, TypeOK, TablesAgree, Attached, BuffersOK
  <1>5. n \in Nat
    <2>1. sent[c] \in Nat /\ nread[c] \in Nat
      BY <1>4 DEF IndInv, TypeOK
    <2>2. conn.rsize - Len(conn.rbuf) \in Int
      BY <1>4, FieldTypes, LenProperties
    <2> QED BY <1>2, <2>1, <2>2 DEF ReadCount
  <1>6. rs \in Nat /\ rs > 0
    BY <1>4, FieldTypes
  <1>7. chunk \in Seq(Unit)
    BY <1>4, <1>5, ChunkType, FieldTypes, ConcatProperties DEF IndInv, TypeOK
  <1>8. frame \in Seq(Unit) /\ frame # <<>>
    BY <1>4, <1>7, FrameType
  <1> HIDE DEF n, chunk, frame
  <1>9. Others(f) = Attached \ {f}
    BY DEF Others, Attached
  <1>10. write_set' = write_set \cup (Attached \ {f}) /\ maxfd' = maxfd
    <2>1. \A g \in Others(f) \cup {maxfd} : g <= maxfd
      BY <1>1, <1>9 DEF IndInv, TablesAgree, TypeOK
    <2>2. \A m \in Others(f) \cup {maxfd} : m \in Int
      BY <1>9 DEF IndInv, TypeOK, Attached, ConnFds
    <2>3. \A m \in Others(f) \cup {maxfd} :
             (\A g \in Others(f) \cup {maxfd} : g <= m) => m = maxfd
      <3> TAKE m \in Others(f) \cup {maxfd}
      <3> HAVE \A g \in Others(f) \cup {maxfd} : g <= m
      <3>1. maxfd <= m /\ m <= maxfd /\ m \in Int /\ maxfd \in Int
        BY <2>1, <2>2
      <3> QED BY <3>1
    <2>4. maxfd \in Others(f) \cup {maxfd}
      OBVIOUS
    <2>5. (CHOOSE m \in Others(f) \cup {maxfd} : \A g \in Others(f) \cup {maxfd} : g <= m) = maxfd
      BY <2>1, <2>3, <2>4
    <2> QED BY <1>2, <1>9, <2>5 DEF net_register_write
  <1>11. \A g \in Attached : conn_list[g] \in ConnObject /\ conn_list[g] # NULL /\ g \in ConnFds
    BY DEF IndInv, TypeOK, Attached
  <1> DEFINE drained == conn_t(conn.peer, <<>>, rs, conn.sbuf, conn.ssize)
  <1>12. conn_list' = [g \in ConnFds |-> IF g = f THEN drained
                                         ELSE IF conn_list[g] # NULL
                                              THEN buffered_send(conn_list[g], frame) ELSE NULL]
    BY <1>3 DEF exchange_data, frame
  <1>13. /\ drained \in ConnObject /\ drained # NULL /\ drained.peer = conn.peer
         /\ drained.rbuf = <<>> /\ drained.rsize = rs
         /\ drained.sbuf = conn.sbuf /\ drained.ssize = conn.ssize
    BY <1>4, <1>6, DrainedConn
  <1> HIDE DEF drained
  <1>14. /\ conn_list'[f] = drained
         /\ \A g \in Attached \ {f} : conn_list'[g] = buffered_send(conn_list[g], frame)
         /\ \A g \in ConnFds \ Attached : conn_list'[g] = NULL
    BY <1>11, <1>12 DEF Attached
  <1>15. \A g \in Attached \ {f} :
           /\ conn_list'[g] \in ConnObject /\ conn_list'[g] # NULL
           /\ conn_list'[g].peer = conn_list[g].peer /\ conn_list'[g].rbuf = conn_list[g].rbuf
           /\ conn_list'[g].rsize = conn_list[g].rsize
           /\ conn_list'[g].sbuf # <<>> /\ Len(conn_list'[g].sbuf) <= conn_list'[g].ssize
    BY <1>8, <1>11, <1>14, SentConn
  <1>16. Attached' = Attached
    BY <1>13, <1>14, <1>15 DEF Attached
  <1>17. conn_list' \in [ConnFds -> ConnObject \cup {NULL}]
    <2>1. \A g \in ConnFds : conn_list'[g] \in ConnObject \cup {NULL}
      BY <1>13, <1>14, <1>15
    <2> QED BY <1>12, <2>1
  <1>18. TypeOK'
    <2>1. nread' \in [Clients -> Nat]
      BY <1>2, <1>4, <1>5 DEF IndInv, TypeOK
    <2>2. write_set' \subseteq ConnFds
      BY <1>10 DEF IndInv, TypeOK, Attached
    <2> QED BY <1>1, <1>2, <1>10, <1>17, <2>1, <2>2 DEF IndInv, TypeOK
  <1>19. TablesAgree'
    BY <1>1, <1>2, <1>10, <1>13, <1>14, <1>15, <1>16 DEF IndInv, TablesAgree
  <1>20. WriteInterest'
    BY <1>1, <1>2, <1>10, <1>13, <1>14, <1>15, <1>16 DEF IndInv, WriteInterest
  <1>21. BuffersOK'
    BY <1>6, <1>13, <1>14, <1>15, <1>16 DEF IndInv, BuffersOK
  <1>22. BetweenPasses' /\ WriteOK'
    BY <1>1, <1>2 DEF BetweenPasses, WriteOK
  <1>23. PassOK'
    <2>1. \A g \in Attached \ {f} : fdtab[g] \in Clients /\ fdtab[g] # c
      BY <1>1 DEF IndInv, TablesAgree, TypeOK, Attached
    <2>2. \A g \in Attached \ {f} : Readable(fdtab[g]) => Readable(fdtab[g])'
      BY <1>1, <1>2, <2>1 DEF Readable, IndInv, TypeOK
    <2>3. \A g \in rset' \ {Listening} : g \in Attached' /\ Readable(fdtab[g])'
      BY <1>1, <1>16, <2>2 DEF IndInv, PassOK
    <2>4. \A g \in wset' : g \in Attached' => conn_list'[g].sbuf # <<>>
      BY <1>1, <1>13, <1>14, <1>15, <1>16 DEF IndInv, PassOK
    <2>5. Listening \in rset' => backlog' # <<>> /\ wset' \subseteq Attached'
      BY <1>1, <1>16 DEF IndInv, PassOK
    <2> QED BY <2>3, <2>4, <2>5 DEF PassOK
  <1>24. QueueOK'
    BY <1>1, <1>2, <1>16 DEF IndInv, QueueOK
  <1> QED BY <1>18, <1>19, <1>20, <1>21, <1>22, <1>23, <1>24 DEF IndInv

\* The other outcomes of net_read: no conn_t, the overrun, an error.
LEMMA ReadNothingInv ==
    ASSUME IndInv, NEW f \in ConnFds, net_read(f),
           \/ UNCHANGED <<pc, conn_list, read_set, write_set, maxfd, fdtab, link, err, nread>>
           \/ ReadOverruns(f) \/ ReadFails(f)
    PROVE  IndInv'
  <1>1. /\ pc = "scan" /\ Running /\ rset' = rset \ {f}
        /\ UNCHANGED <<exit_flag, wset, wdone, backlog, sent, out, got>>
    BY DEF net_read, Running
  <1>2. /\ UNCHANGED <<conn_list, read_set, write_set, maxfd, fdtab, link, nread>>
        /\ pc' \in {"scan", "undefined"}
        /\ err' \in [Clients -> {"none", "ECONNRESET", "EPIPE"}]
    BY <1>1 DEF ReadOverruns, ReadFails, IndInv, TypeOK
  <1>3. Attached' = Attached
    BY <1>2 DEF Attached
  <1>4. TypeOK'
    BY <1>1, <1>2 DEF IndInv, TypeOK
  <1>5. TablesAgree' /\ WriteInterest' /\ BuffersOK' /\ QueueOK'
    BY <1>1, <1>2, <1>3 DEF IndInv, TablesAgree, WriteInterest, BuffersOK, QueueOK, Running
  <1>6. BetweenPasses' /\ WriteOK'
    BY <1>2 DEF BetweenPasses, WriteOK
  <1>7. PassOK'
    BY <1>1, <1>2, <1>3 DEF IndInv, PassOK, Readable
  <1> QED BY <1>4, <1>5, <1>6, <1>7 DEF IndInv

\* The end of the stream: a write bit of the same descriptor may be left over.
LEMMA ReadEOFInv ==
    ASSUME IndInv, NEW f \in ConnFds, net_read(f), f \in Attached, ReadEOF(f)
    PROVE  IndInv'
  <1>1. /\ pc = "scan" /\ Running /\ Running' /\ rset' = rset \ {f} /\ AtRead(f)
        /\ UNCHANGED <<pc, exit_flag, wset, wdone, backlog, sent, out, got, maxfd, err, nread>>
        /\ CloseConn(f)
    BY DEF net_read, ReadEOF, Running
  <1>2. /\ conn_list' \in [ConnFds -> ConnObject \cup {NULL}]
        /\ fdtab' \in [ConnFds -> Clients \cup {NULL}]
        /\ read_set' \subseteq ConnFds \cup {Listening} /\ write_set' \subseteq ConnFds
        /\ link' \in [Clients -> {"idle", "up", "fin", "rst", "gone"}]
        /\ Attached' = Attached \ {f}
        /\ \A g \in Attached' : /\ conn_list'[g] = conn_list[g]
                                /\ Readable(fdtab[g]) => Readable(fdtab[g])'
        /\ TablesAgree' /\ WriteInterest' /\ BuffersOK' /\ QueueOK'
    BY <1>1, CloseConnInv
  <1>3. TypeOK'
    BY <1>1, <1>2 DEF IndInv, TypeOK
  <1>4. BetweenPasses' /\ WriteOK'
    BY <1>1 DEF BetweenPasses, WriteOK
  <1>5. Listening \notin rset
    <2>1. Listening < f
      BY ChatAssumption DEF ConnFds
    <2> QED BY <1>1, <2>1, ChatAssumption DEF AtRead, ConnFds
  <1>6. PassOK'
    BY <1>1, <1>2, <1>5 DEF IndInv, PassOK
  <1> QED BY <1>2, <1>3, <1>4, <1>6 DEF IndInv

\* net_write starts, or finds the connection closed.
LEMMA WriteStartInv ==
    ASSUME IndInv, NEW f \in ConnFds, WriteStarts(f) \/ WriteSkipped(f)
    PROVE  IndInv'
  <1>1. /\ pc = "scan" /\ AtWrite(f) /\ pc' \in {"scan", "write"} /\ wset' \subseteq wset
        /\ wdone' \in Nat
        /\ UNCHANGED <<conn_list, read_set, write_set, maxfd, exit_flag, rset,
                       fdtab, backlog, clientVars>>
    BY DEF WriteStarts, WriteSkipped, IndInv, TypeOK
  <1>2. Attached' = Attached /\ Running /\ Running'
    BY <1>1 DEF Attached, Running
  <1>3. TypeOK'
    BY <1>1 DEF IndInv, TypeOK, clientVars
  <1>4. TablesAgree' /\ WriteInterest' /\ BuffersOK' /\ QueueOK' /\ BetweenPasses'
    BY <1>1, <1>2 DEF IndInv, TablesAgree, WriteInterest, BuffersOK, QueueOK, BetweenPasses,
                      clientVars
  <1>5. PassOK'
    BY <1>1, <1>2 DEF IndInv, PassOK, Readable, clientVars
  <1>6. WriteOK'
    <2>1. CASE WriteStarts(f)
      <3>1. pc' = "write" /\ wdone' = 0 /\ UNCHANGED <<wset, rset, conn_list>> /\ f \in Attached
        BY <2>1 DEF WriteStarts, Attached
      <3>2. \A g \in ConnFds : AtWrite(g)' => g = f
        BY <1>1, <3>1 DEF AtWrite, ConnFds
      <3>3. Len(conn_list[f].sbuf) \in Nat
        BY <3>1, FieldTypes DEF IndInv, TypeOK, Attached
      <3> QED BY <1>2, <3>1, <3>2, <3>3 DEF WriteOK
    <2>2. CASE WriteSkipped(f)
      BY <2>2, <1>1 DEF WriteSkipped, WriteOK
    <2> QED BY <2>1, <2>2
  <1> QED BY <1>3, <1>4, <1>5, <1>6 DEF IndInv

\* write() copies a part of sbuf to the socket.
LEMMA WriteCopyInv == ASSUME IndInv, NEW f \in ConnFds, WriteCopies(f) PROVE IndInv'
  <1> DEFINE c == fdtab[f]
             k == IF Room(c) < Unwritten(f) THEN Room(c) ELSE Unwritten(f)
  <1>1. /\ pc = "write" /\ pc' = "write" /\ AtWrite(f) /\ k > 0
        /\ out' = [out EXCEPT ![c] = @ \o SubSeq(conn_list[f].sbuf, wdone + 1, wdone + k)]
        /\ wdone' = wdone + k
        /\ UNCHANGED <<pc, conn_list, read_set, write_set, maxfd, exit_flag, rset, wset,
                       fdtab, backlog, link, err, sent, nread, got>>
    BY DEF WriteCopies
  <1>2. /\ Attached' = Attached /\ Running /\ Running' /\ f \in Attached
        /\ wdone <= Len(conn_list[f].sbuf)
    BY <1>1 DEF Attached, Running, IndInv, WriteOK
  <1>3. conn_list[f] \in ConnObject /\ c \in Clients
    BY <1>2 DEF IndInv, TypeOK, Attached, TablesAgree
  <1>4. Len(out[c]) \in Nat /\ out[c] \in Seq(Unit)
    BY <1>3, LenProperties DEF IndInv, TypeOK
  <1>5. k \in Nat /\ wdone + k <= Len(conn_list[f].sbuf) /\ wdone \in Nat
    <2>1. wdone \in Nat /\ got[c] \in Nat /\ Len(conn_list[f].sbuf) \in Nat
      BY <1>3, FieldTypes DEF IndInv, TypeOK
    <2>2. Room(c) \in Int
      BY <1>4, <2>1, ChatAssumption DEF Room
    <2>3. Unwritten(f) = Len(conn_list[f].sbuf) - wdone
      BY DEF Unwritten
    <2> QED BY <1>1, <2>1, <2>2, <2>3
  <1> HIDE DEF k
  <1>6. TypeOK'
    <2>1. SubSeq(conn_list[f].sbuf, wdone + 1, wdone + k) \in Seq(Unit)
      BY <1>3, <1>5, FieldTypes, SubSeqProperties
    <2>2. out[c] \o SubSeq(conn_list[f].sbuf, wdone + 1, wdone + k) \in Seq(Unit)
      BY <1>4, <2>1, ConcatProperties
    <2>3. out' \in [Clients -> Seq(Unit)]
      BY <1>1, <1>3, <2>2 DEF IndInv, TypeOK
    <2> QED BY <1>1, <1>5, <2>3 DEF IndInv, TypeOK
  <1>7. TablesAgree' /\ WriteInterest' /\ BuffersOK' /\ QueueOK' /\ BetweenPasses'
    BY <1>1, <1>2 DEF IndInv, TablesAgree, WriteInterest, BuffersOK, QueueOK, BetweenPasses
  <1>8. PassOK'
    BY <1>1, <1>2 DEF IndInv, PassOK, Readable
  <1>9. WriteOK'
    <2>1. \A g \in ConnFds : AtWrite(g)' => g = f
      BY <1>1 DEF AtWrite, ConnFds
    <2> QED BY <1>1, <1>2, <1>5, <2>1 DEF WriteOK
  <1> QED BY <1>6, <1>7, <1>8, <1>9 DEF IndInv

\* write() returns, with a full or a short count.
LEMMA WriteDoneInv ==
    ASSUME IndInv, NEW f \in ConnFds, pc = "write", AtWrite(f), WriteDone(f), exit_flag' \in Nat
    PROVE  IndInv'
  <1>1. /\ conn_list' = [conn_list EXCEPT ![f] = Trim(@, wdone)]
        /\ write_set' = (IF Unwritten(f) = 0 THEN write_set \ {f} ELSE write_set)
        /\ pc' = "scan" /\ wset' = wset \ {f} /\ wdone' = 0
        /\ UNCHANGED <<read_set, maxfd, rset, fdtab, backlog, link, err, sent, nread, out, got>>
    BY DEF WriteDone, clientVars
  <1>2. Running /\ Running' /\ f \in Attached /\ wdone <= Len(conn_list[f].sbuf)
        /\ wdone \in Nat
    BY <1>1 DEF Running, IndInv, WriteOK, TypeOK
  <1>3. conn_list[f] \in ConnObject /\ Len(conn_list[f].sbuf) \in Nat
    BY <1>2, FieldTypes DEF IndInv, TypeOK, Attached
  <1> DEFINE new == Trim(conn_list[f], wdone)
  <1>4. /\ new \in ConnObject /\ new # NULL
        /\ new.peer = conn_list[f].peer /\ new.rbuf = conn_list[f].rbuf
        /\ new.rsize = conn_list[f].rsize /\ new.ssize = conn_list[f].ssize
        /\ Len(new.sbuf) = Len(conn_list[f].sbuf) - wdone
        /\ new.sbuf = <<>> <=> Len(conn_list[f].sbuf) = wdone
    BY <1>2, <1>3, TrimmedConn
  <1> HIDE DEF new
  <1>5. /\ conn_list'[f] = new /\ \A g \in ConnFds \ {f} : conn_list'[g] = conn_list[g]
        /\ conn_list' \in [ConnFds -> ConnObject \cup {NULL}]
    BY <1>1, <1>4 DEF IndInv, TypeOK, new
  <1>6. Attached' = Attached /\ Attached \subseteq ConnFds
    BY <1>2, <1>4, <1>5 DEF Attached
  <1>7. TypeOK'
    BY <1>1, <1>5 DEF IndInv, TypeOK
  <1>8. TablesAgree'
    <2>1. \A g \in Attached : conn_list'[g].peer = conn_list[g].peer
      BY <1>4, <1>5, <1>6
    <2> QED BY <1>1, <1>2, <1>6, <2>1 DEF IndInv, TablesAgree
  <1>9. WriteInterest'
    <2>1. Unwritten(f) = 0 <=> new.sbuf = <<>>
      BY <1>2, <1>3, <1>4 DEF Unwritten
    <2>2. conn_list[f].sbuf # <<>>
      BY <1>2 DEF IndInv, PassOK, AtWrite
    <2> QED BY <1>1, <1>2, <1>5, <1>6, <2>1, <2>2 DEF IndInv, WriteInterest
  <1>10. BuffersOK'
    <2>1. Len(new.sbuf) <= new.ssize
      BY <1>2, <1>3, <1>4, FieldTypes DEF IndInv, BuffersOK
    <2> QED BY <1>2, <1>4, <1>5, <1>6, <2>1 DEF IndInv, BuffersOK
  <1>11. QueueOK' /\ BetweenPasses' /\ WriteOK'
    BY <1>1, <1>2, <1>6 DEF IndInv, QueueOK, BetweenPasses, WriteOK
  <1>12. PassOK'
    <2>1. Listening \notin rset
      BY ChatAssumption DEF AtWrite, ConnFds
    <2>2. \A g \in wset' : g \in Attached' => conn_list'[g].sbuf # <<>>
      BY <1>1, <1>5, <1>6 DEF IndInv, PassOK
    <2>3. \A g \in rset' \ {Listening} : g \in Attached' /\ Readable(fdtab[g])'
      BY <1>1, <1>6 DEF IndInv, PassOK, Readable
    <2> QED BY <1>1, <2>1, <2>2, <2>3 DEF PassOK
  <1> QED BY <1>7, <1>8, <1>9, <1>10, <1>11, <1>12 DEF IndInv

\* write() fails on a connection that was reset.
LEMMA WriteFailInv == ASSUME IndInv, NEW f \in ConnFds, WriteFails(f) PROVE IndInv'
  <1>1. /\ pc = "write" /\ AtWrite(f) /\ pc' = "scan" /\ wset' = wset \ {f}
        /\ err' = [err EXCEPT ![fdtab[f]] = "none"]
        /\ UNCHANGED <<maxfd, exit_flag, rset, wdone, backlog, sent, nread, out, got>>
    BY DEF WriteFails
  <1>2. Running /\ Running' /\ f \in Attached
    BY <1>1 DEF Running, IndInv, WriteOK
  <1>3. err' \in [Clients -> {"none", "ECONNRESET", "EPIPE"}]
    BY <1>1 DEF IndInv, TypeOK
  <1>4. Listening \notin rset
    BY <1>1, ChatAssumption DEF AtWrite, ConnFds
  <1>5. BetweenPasses' /\ WriteOK'
    BY <1>1 DEF BetweenPasses, WriteOK
  <1>6. CASE CloseConn(f)
    <2>1. /\ conn_list' \in [ConnFds -> ConnObject \cup {NULL}]
          /\ fdtab' \in [ConnFds -> Clients \cup {NULL}]
          /\ read_set' \subseteq ConnFds \cup {Listening} /\ write_set' \subseteq ConnFds
          /\ link' \in [Clients -> {"idle", "up", "fin", "rst", "gone"}]
          /\ Attached' = Attached \ {f}
          /\ \A g \in Attached' : /\ conn_list'[g] = conn_list[g]
                                  /\ Readable(fdtab[g]) => Readable(fdtab[g])'
          /\ TablesAgree' /\ WriteInterest' /\ BuffersOK' /\ QueueOK'
      BY <1>1, <1>2, <1>6, CloseConnInv
    <2>2. TypeOK'
      BY <1>1, <1>3, <2>1 DEF IndInv, TypeOK
    <2>3. f \notin rset
      BY <1>1 DEF AtWrite
    <2>4. PassOK'
      BY <1>1, <1>4, <2>1, <2>3 DEF IndInv, PassOK
    <2> QED BY <1>5, <2>1, <2>2, <2>4 DEF IndInv
  <1>7. CASE UNCHANGED <<fdtab, conn_list, read_set, write_set, link>>
    <2>1. Attached' = Attached
      BY <1>7 DEF Attached
    <2>2. TypeOK'
      BY <1>1, <1>3, <1>7 DEF IndInv, TypeOK
    <2>3. TablesAgree' /\ WriteInterest' /\ BuffersOK' /\ QueueOK'
      BY <1>1, <1>2, <1>7, <2>1 DEF IndInv, TablesAgree, WriteInterest, BuffersOK, QueueOK
    <2>4. PassOK'
      BY <1>1, <1>4, <1>7, <2>1 DEF IndInv, PassOK, Readable
    <2> QED BY <1>5, <2>2, <2>3, <2>4 DEF IndInv
  <1> QED BY <1>6, <1>7 DEF WriteFails

\* sigterm_handler: the interrupted system call returns, or nothing else happens.
LEMMA SignalInv == ASSUME IndInv, sigterm_handler PROVE IndInv'
  <1>1. exit_flag' \in Nat /\ Running
    BY DEF sigterm_handler, IndInv, TypeOK
  <1>2. CASE \E f \in ConnFds : Blocked(f) /\ wdone > 0 /\ WriteDone(f)
    BY <1>1, <1>2, WriteDoneInv DEF Blocked
  <1>3. CASE /\ pc \in {"select"} /\ pc' = "loop"
             /\ UNCHANGED <<conn_list, read_set, write_set, maxfd, rset, wset, wdone,
                            fdtab, backlog, clientVars>>
    <2>1. Attached' = Attached /\ Running'
      BY <1>3 DEF Attached, Running
    <2>2. TypeOK'
      BY <1>1, <1>3 DEF IndInv, TypeOK, clientVars
    <2>3. TablesAgree' /\ WriteInterest' /\ BuffersOK' /\ QueueOK'
      BY <1>1, <1>3, <2>1 DEF IndInv, TablesAgree, WriteInterest, BuffersOK, QueueOK, clientVars
    <2>4. BetweenPasses' /\ PassOK' /\ WriteOK'
      BY <1>3 DEF IndInv, BetweenPasses, PassOK, WriteOK
    <2> QED BY <2>2, <2>3, <2>4 DEF IndInv
  <1>4. CASE UNCHANGED <<serverVars, fdtab, backlog, clientVars>>
    <2>1. TypeOK'
      BY <1>1, <1>4 DEF IndInv, TypeOK, clientVars, serverVars
    <2>2. PassOK' /\ QueueOK'
      BY <1>4, ServerUnchanged DEF IndInv, PassOK, QueueOK, Readable, clientVars, serverVars
    <2> QED BY <1>4, <2>1, <2>2, ServerUnchanged DEF IndInv
  <1> QED BY <1>2, <1>3, <1>4 DEF sigterm_handler

-----------------------------------------------------------------------------
(* The theorems.                                                           *)

\* Every step preserves the inductive invariant.
LEMMA StepInv == IndInv /\ [Next]_vars => IndInv'
  <1> SUFFICES ASSUME IndInv, [Next]_vars PROVE IndInv'
    OBVIOUS
  <1>1. ASSUME NEW c \in Clients, Client(c) PROVE IndInv'
    BY <1>1, ConnectInv, PeerInv DEF Client
  <1>2. CASE sigterm_handler
    BY <1>2, SignalInv
  <1>3. CASE CheckExit \/ EndOfPass
    BY <1>3, LoopInv
  <1>4. CASE Select
    BY <1>4, SelectInv
  <1>5. CASE net_accept
    <2>1. AcceptFails \/ AcceptRefuses \/ \E f \in FreeFds : AcceptSucceeds(f)
      BY <1>5 DEF net_accept
    <2> QED BY <1>5, <2>1, AcceptInv, NoAcceptInv
  <1>6. ASSUME NEW f \in ConnFds, net_read(f) PROVE IndInv'
    <2>1. CASE conn_list[f] = NULL
      BY <1>6, <2>1, ReadNothingInv DEF net_read
    <2>2. CASE conn_list[f] # NULL
      <3>1. f \in Attached
        BY <2>2 DEF Attached
      <3>2. ReadData(f) \/ ReadOverruns(f) \/ ReadEOF(f) \/ ReadFails(f)
        BY <1>6, <2>2 DEF net_read
      <3> QED BY <1>6, <3>1, <3>2, ReadDataInv, ReadNothingInv, ReadEOFInv
    <2> QED BY <2>1, <2>2
  <1>7. ASSUME NEW f \in ConnFds, net_write(f) PROVE IndInv'
    <2>1. CASE WriteReturns(f)
      <3>1. pc = "write" /\ AtWrite(f) /\ WriteDone(f) /\ exit_flag' \in Nat
        BY <2>1 DEF WriteReturns, IndInv, TypeOK
      <3> QED BY <3>1, WriteDoneInv
    <2> QED BY <1>7, <2>1, WriteStartInv, WriteCopyInv, WriteFailInv DEF net_write
  <1>8. CASE UNCHANGED vars
    <2>1. UNCHANGED <<serverVars, fdtab, backlog, exit_flag, clientVars>>
      BY <1>8 DEF vars, serverVars, clientVars
    <2>2. TypeOK'
      BY <2>1 DEF IndInv, TypeOK, clientVars, serverVars
    <2>3. PassOK' /\ QueueOK'
      BY <2>1, ServerUnchanged DEF IndInv, PassOK, QueueOK, Readable, clientVars, serverVars
    <2> QED BY <2>1, <2>2, <2>3, ServerUnchanged DEF IndInv
  <1> QED
    BY <1>1, <1>2, <1>3, <1>4, <1>5, <1>6, <1>7, <1>8 DEF Next, Server, Stopped

\* The inductive invariant holds throughout.
THEOREM Invariance == Spec => []IndInv
  BY InitInv, StepInv, PTL DEF Spec

\* The type invariant, for every set of clients and every limit.
THEOREM TypeCorrect == Spec => []TypeOK
  <1>1. IndInv => TypeOK
    BY DEF IndInv
  <1> QED BY <1>1, Invariance, PTL

\* The descriptor table, the connection list, the read set and global_maxfd agree
\* in every reachable state, so select() never fails with EBADF.
THEOREM TablesAlwaysAgree == Spec => []TablesAgree
  <1>1. IndInv => TablesAgree
    BY DEF IndInv
  <1> QED BY <1>1, Invariance, PTL

\* A connection is watched for writing exactly while data is buffered for it.
THEOREM WriteInterestExact == Spec => []WriteInterest
  <1>1. IndInv => WriteInterest
    BY DEF IndInv
  <1> QED BY <1>1, Invariance, PTL

\* No call in a pass acts on a stale result of select(), however many
\* connections are accepted and closed in that pass: accept() and read() never
\* block.
THEOREM NoStaleReadiness == Spec => []ReadinessNotStale
  <1>1. IndInv => ReadinessNotStale
    BY DEF IndInv, PassOK, ReadinessNotStale
  <1> QED BY <1>1, Invariance, PTL

\* No payload outgrows its buffer, and read() is never called without room.
THEOREM BuffersAlwaysFit == Spec => []BuffersFit
  <1>1. IndInv => BuffersFit
    BY EmptySeq DEF IndInv, BuffersOK, BuffersFit
  <1> QED BY <1>1, Invariance, PTL

\* A process that has ended does not run again.
LEMMA StillRunning == ASSUME [Next]_vars, Running' PROVE Running
  BY DEF Running, Next, Server, Stopped, Client, Connect, Send, Receive, Finish, Reset,
         sigterm_handler, CheckExit, Select, EndOfPass, net_accept, net_read, net_write,
         WriteStarts, WriteSkipped, WriteCopies, WriteReturns, WriteFails, vars, serverVars

\* accept() takes a free descriptor and close() frees one: the kernel never gives
\* a connected descriptor to another client.
LEMMA OwnerKept ==
    ASSUME IndInv, [Next]_vars, NEW f \in Attached
    PROVE  fdtab'[f] \in {fdtab[f], NULL}
  <1>1. f \in ConnFds /\ fdtab \in [ConnFds -> Clients \cup {NULL}]
    BY DEF Attached, IndInv, TypeOK
  <1>2. CASE fdtab' = fdtab
    BY <1>2
  <1>3. CASE Shutdown
    BY <1>1, <1>3 DEF Shutdown
  <1>4. CASE net_accept /\ \E g \in FreeFds : AcceptSucceeds(g)
    <2>1. PICK g \in FreeFds : AcceptSucceeds(g)
      BY <1>4
    <2>2. pc = "scan"
      BY <1>4 DEF net_accept
    <2>3. g # f
      BY <2>2 DEF FreeFds, IndInv, TablesAgree, Running
    <2> QED BY <1>1, <2>1, <2>3 DEF AcceptSucceeds
  <1>5. CASE \E g \in ConnFds : CloseConn(g)
    BY <1>1, <1>5 DEF CloseConn
  <1>6. ASSUME NEW c \in Clients, Client(c) PROVE fdtab' = fdtab
    BY <1>6 DEF Client, Connect, Send, Receive, Finish, Reset
  <1>7. CASE sigterm_handler
    BY <1>2, <1>7 DEF sigterm_handler, WriteDone
  <1>8. CASE CheckExit \/ EndOfPass \/ Select
    BY <1>2, <1>3, <1>8 DEF CheckExit, EndOfPass, Select
  <1>9. CASE net_accept
    BY <1>2, <1>4, <1>9 DEF net_accept, AcceptFails, AcceptRefuses
  <1>10. ASSUME NEW g \in ConnFds, net_read(g) PROVE fdtab' = fdtab \/ CloseConn(g)
    BY <1>10 DEF net_read, ReadData, ReadOverruns, ReadEOF, ReadFails
  <1>11. ASSUME NEW g \in ConnFds, net_write(g) PROVE fdtab' = fdtab \/ CloseConn(g)
    BY <1>11 DEF net_write, WriteStarts, WriteSkipped, WriteCopies, WriteReturns, WriteDone,
                 WriteFails
  <1>12. CASE UNCHANGED vars
    BY <1>2, <1>12 DEF vars
  <1> QED
    BY <1>2, <1>5, <1>6, <1>7, <1>8, <1>9, <1>10, <1>11, <1>12 DEF Next, Server, Stopped

\* The server stops running by leaving its loop, or in a heap overrun.
LEMMA StopStep ==
    ASSUME IndInv, [Next]_vars, ~Running'
    PROVE  Shutdown \/ conn_list' = conn_list
  <1> USE DEF Running
  <1>1. ASSUME NEW c \in Clients, Client(c) PROVE conn_list' = conn_list
    BY <1>1 DEF Client, Connect, Send, Receive, Finish, Reset, serverVars
  <1>2. CASE sigterm_handler
    BY <1>2 DEF sigterm_handler, WriteDone, serverVars
  <1>3. CASE CheckExit \/ EndOfPass \/ Select
    BY <1>3 DEF CheckExit, EndOfPass, Select
  <1>4. CASE net_accept
    BY <1>4 DEF net_accept
  <1>5. ASSUME NEW g \in ConnFds, net_read(g) PROVE conn_list' = conn_list
    BY <1>5 DEF net_read, ReadData, ReadOverruns, ReadEOF, ReadFails
  <1>6. ASSUME NEW g \in ConnFds, net_write(g) PROVE FALSE
    BY <1>6 DEF net_write, WriteStarts, WriteSkipped, WriteCopies, WriteReturns, WriteDone,
                WriteFails
  <1>7. CASE UNCHANGED vars
    BY <1>7 DEF vars
  <1> QED
    BY <1>1, <1>2, <1>3, <1>4, <1>5, <1>6, <1>7 DEF Next, Server, Stopped

\* net_accept never overwrites the conn_t of a live connection: a slot of
\* global_conn_list passes from one client to another only through NULL.
THEOREM SlotsFreedBeforeReuse == Spec => SlotFreedBeforeReuse
  <1> DEFINE Kept == \A f \in Attached : conn_list'[f] # NULL
                                           => conn_list'[f].peer = conn_list[f].peer
  <1>1. IndInv /\ [Next]_vars => Kept
    <2> SUFFICES ASSUME IndInv, [Next]_vars, NEW f \in Attached, conn_list'[f] # NULL
                 PROVE  conn_list'[f].peer = conn_list[f].peer
      OBVIOUS
    <2>1. IndInv'
      BY StepInv
    <2>2. f \in ConnFds /\ f \in Attached'
      BY DEF Attached
    <2>3. CASE Running'
      <3>1. Running
        BY <2>3, StillRunning
      <3> QED BY <2>1, <2>2, <2>3, <3>1, OwnerKept DEF IndInv, TablesAgree
    <2>4. CASE ~Running'
      BY <2>2, <2>4, StopStep DEF Shutdown
    <2> QED BY <2>3, <2>4
  <1>2. IndInv /\ [Next]_vars => [Kept]_vars
    BY <1>1
  <1> QED BY <1>2, Invariance, PTL DEF Spec, SlotFreedBeforeReuse

-----------------------------------------------------------------------------
(* The units on their way to each client, and the abstract relay.          *)

\* A client that is not connected yet has been sent nothing.
Fresh ==
    Running => \A c \in Clients :
        (link[c] = "idle" \/ \E j \in 1..Len(backlog) : backlog[j] = c) => out[c] = <<>>

\* The server reads no more than was sent.
Counted == \A c \in Clients : nread[c] <= sent[c] /\ sent[c] <= MaxSend

\* What is still to be written to descriptor f.
Rest(f) == LET unsent == conn_list[f].sbuf IN
    IF pc = "write" /\ AtWrite(f) THEN SubSeq(unsent, wdone + 1, Len(unsent)) ELSE unsent

\* What follows a prefix is what was appended to it.
LEMMA ConcatRest ==
    ASSUME NEW a \in Seq(Unit), NEW b \in Seq(Unit)
    PROVE  SubSeq(a \o b, Len(a) + 1, Len(a \o b)) = b
  <1> DEFINE s == a \o b
             t == SubSeq(s, Len(a) + 1, Len(s))
  <1>1. /\ s \in Seq(Unit) /\ Len(s) = Len(a) + Len(b) /\ Len(a) \in Nat /\ Len(b) \in Nat
        /\ \A j \in 1..(Len(a) + Len(b)) : s[j] = IF j <= Len(a) THEN a[j] ELSE b[j - Len(a)]
    BY ConcatProperties, LenProperties
  <1> HIDE DEF s
  <1>2. \A j \in (Len(a) + 1)..Len(s) : s[j] \in Unit
    BY <1>1, ElementOfSeq
  <1>3. /\ t \in Seq(Unit)
        /\ Len(t) = (IF Len(a) + 1 <= Len(s) THEN Len(s) - (Len(a) + 1) + 1 ELSE 0)
        /\ \A j \in 1..(Len(s) - (Len(a) + 1) + 1) : t[j] = s[Len(a) + 1 + j - 1]
    BY <1>1, <1>2, SubSeqProperties
  <1> HIDE DEF t
  <1>4. Len(t) = Len(b)
    BY <1>1, <1>3
  <1>5. \A j \in 1..Len(b) : t[j] = b[j]
    <2> TAKE j \in 1..Len(b)
    <2>1. t[j] = s[Len(a) + 1 + j - 1] /\ Len(a) + 1 + j - 1 = Len(a) + j
      BY <1>1, <1>3
    <2>2. s[Len(a) + j] = b[Len(a) + j - Len(a)] /\ Len(a) + j - Len(a) = j
      BY <1>1
    <2> QED BY <2>1, <2>2
  <1>6. t = b
    BY <1>3, <1>4, <1>5, SeqEqual
  <1> QED BY <1>6 DEF s, t

\* The end of a sequence from position k + 1 on.
LEMMA SuffixType ==
    ASSUME NEW s \in Seq(Unit), NEW k \in Nat, k <= Len(s)
    PROVE  /\ SubSeq(s, k + 1, Len(s)) \in Seq(Unit)
           /\ Len(SubSeq(s, k + 1, Len(s))) = Len(s) - k
           /\ \A j \in 1..(Len(s) - k) : SubSeq(s, k + 1, Len(s))[j] = s[k + j]
           /\ k = 0 => SubSeq(s, k + 1, Len(s)) = s
  <1>1. Len(s) \in Nat
    BY LenProperties
  <1>2. \A j \in (k + 1)..Len(s) : s[j] \in Unit
    BY <1>1, ElementOfSeq
  <1>3. /\ SubSeq(s, k + 1, Len(s)) \in Seq(Unit)
        /\ Len(SubSeq(s, k + 1, Len(s))) = (IF k + 1 <= Len(s) THEN Len(s) - (k + 1) + 1 ELSE 0)
        /\ \A j \in 1..(Len(s) - (k + 1) + 1) : SubSeq(s, k + 1, Len(s))[j] = s[k + 1 + j - 1]
    BY <1>1, <1>2, SubSeqProperties
  <1>4. \A j \in 1..(Len(s) - k) : j \in 1..(Len(s) - (k + 1) + 1) /\ k + 1 + j - 1 = k + j
    BY <1>1
  <1>5. k = 0 => SubSeq(s, k + 1, Len(s)) = s
    BY SubSeqFull
  <1> QED BY <1>1, <1>3, <1>4, <1>5

\* The types of what is on its way.
LEMMA RestType ==
    ASSUME IndInv, NEW f \in Attached
    PROVE  /\ f \in ConnFds /\ conn_list[f] \in ConnObject /\ conn_list[f].sbuf \in Seq(Unit)
           /\ Rest(f) \in Seq(Unit) /\ Len(Rest(f)) \in Nat
           /\ Running => fdtab[f] \in Clients /\ out[fdtab[f]] \in Seq(Unit)
  <1>1. f \in ConnFds /\ conn_list[f] \in ConnObject /\ conn_list[f].sbuf \in Seq(Unit)
    BY FieldTypes DEF IndInv, TypeOK, Attached
  <1>2. Running => fdtab[f] \in Clients /\ out[fdtab[f]] \in Seq(Unit)
    BY <1>1 DEF IndInv, TypeOK, TablesAgree
  <1>3. Rest(f) \in Seq(Unit)
    <2>1. CASE pc = "write" /\ AtWrite(f)
      <3>1. wdone \in Nat /\ wdone <= Len(conn_list[f].sbuf)
        BY <1>1, <2>1 DEF IndInv, TypeOK, WriteOK
      <3> QED BY <1>1, <2>1, <3>1, SuffixType DEF Rest
    <2>2. CASE ~(pc = "write" /\ AtWrite(f))
      BY <1>1, <2>2 DEF Rest
    <2> QED BY <2>1, <2>2
  <1> QED BY <1>1, <1>2, <1>3, LenProperties

\* The refinement mapping, connection by connection.
Mapped == Running =>
    /\ Members = {fdtab[f] : f \in Attached}
    /\ \A f \in Attached : Undelivered(fdtab[f]) = Rest(f) /\ Stream(f) = out[fdtab[f]] \o Rest(f)
    /\ \A c \in Clients \ Members : Undelivered(c) = <<>>

\* It follows from the invariant: a connection's stream is what its client was sent
\* and what is still to be written.
LEMMA QueueOf == IndInv => Mapped
  <1> SUFFICES ASSUME IndInv, Running PROVE Mapped
    BY DEF Mapped
  <1>1. Members = {fdtab[f] : f \in Attached}
    <2>1. \A f \in Attached : fdtab[f] \in Clients
      BY RestType
    <2> QED BY <2>1 DEF Members
  <1>2. \A f \in Attached : Stream(f) = out[fdtab[f]] \o Rest(f)
    BY DEF Stream, Rest
  <1>3. ASSUME NEW f \in Attached
        PROVE  Undelivered(fdtab[f]) = Rest(f)
    <2> DEFINE c == fdtab[f]
    <2>1. c \in Members
      BY <1>1
    <2>2. \A g \in Attached : fdtab[g] = c => g = f
      BY DEF IndInv, TablesAgree
    <2>3. FdOf(c) = f
      BY <2>2 DEF FdOf
    <2>4. Undelivered(c) = SubSeq(Stream(f), Len(out[c]) + 1, Len(Stream(f)))
      BY <2>1, <2>3 DEF Undelivered
    <2>5. out[c] \in Seq(Unit) /\ Rest(f) \in Seq(Unit)
      BY RestType
    <2> HIDE DEF c
    <2>6. SubSeq(out[c] \o Rest(f), Len(out[c]) + 1, Len(out[c] \o Rest(f))) = Rest(f)
      BY <2>5, ConcatRest
    <2> QED BY <1>2, <2>4, <2>6 DEF c
  <1>4. \A c \in Clients \ Members : Undelivered(c) = <<>>
    BY DEF Undelivered
  <1> QED BY <1>1, <1>2, <1>3, <1>4 DEF Mapped

\* The same mapping after a step.
LEMMA QueueOfNext == IndInv' => Mapped'
  BY QueueOf, PTL

\* What a step of the running server does to the connections: nothing, a client joins
\* or is refused, a chunk is published, units are handed over, a connection is closed.
SameConn(f) == fdtab'[f] = fdtab[f] /\ Rest(f)' = Rest(f)

Quiets == Attached' = Attached /\ UNCHANGED <<nread, out>> /\ \A f \in Attached : SameConn(f)

Joins(f) ==
    /\ f \notin Attached /\ Attached' = Attached \cup {f} /\ \A g \in Attached : SameConn(g)
    /\ fdtab'[f] \in Clients /\ out[fdtab'[f]] = <<>> /\ Rest(f)' = <<>>
    /\ UNCHANGED <<nread, out>>

Refuses(c) ==
    /\ Attached' = Attached /\ \A g \in Attached : SameConn(g) /\ fdtab[g] # c
    /\ out[c] = <<>> /\ out' = [out EXCEPT ![c] = <<Sorry(c)>>]
    /\ UNCHANGED nread

Chunk(c, n) == [k \in 1..n |-> Data(c, nread[c] + k)]

Publishes(f, n) ==
    /\ nread' = [nread EXCEPT ![fdtab[f]] = @ + n] /\ nread[fdtab[f]] + n <= MaxSend
    /\ Attached' = Attached /\ UNCHANGED out /\ SameConn(f)
    /\ \A g \in Attached \ {f} : /\ fdtab'[g] = fdtab[g]
                                 /\ Rest(g)' = Rest(g) \o Frame(fdtab[f], Chunk(fdtab[f], n))

HandsOver(f, k) ==
    /\ out' = [out EXCEPT ![fdtab[f]] = @ \o SubSeq(Rest(f), 1, k)]
    /\ Rest(f)' = SubSeq(Rest(f), k + 1, Len(Rest(f)))
    /\ Attached' = Attached /\ UNCHANGED nread /\ \A g \in Attached : fdtab'[g] = fdtab[g]
    /\ \A g \in Attached \ {f} : SameConn(g)

Closes(f) ==
    /\ Attached' = Attached \ {f} /\ UNCHANGED <<nread, out>>
    /\ \A g \in Attached \ {f} : SameConn(g)

Effect == \/ Quiets
          \/ \E f \in ConnFds : Joins(f)
          \/ \E c \in Clients : Refuses(c)
          \/ \E f \in Attached : \E n \in Nat \ {0} : Publishes(f, n)
          \/ \E f \in Attached : \E k \in 1..Len(Rest(f)) : HandsOver(f, k)
          \/ \E f \in Attached : Closes(f)

\* Steps that leave the server's variables alone.
LEMMA IdleEffect == ASSUME UNCHANGED <<serverVars, fdtab, nread, out>> PROVE Quiets
  BY DEF serverVars, Quiets, SameConn, Rest, AtWrite, Attached

\* Steps outside write() that leave the connections alone.
LEMMA ScanEffect ==
    ASSUME UNCHANGED <<conn_list, fdtab, nread, out>>, pc # "write", pc' # "write"
    PROVE  Quiets
  BY DEF Quiets, SameConn, Rest, Attached

\* At most one descriptor is being written to.
LEMMA OneWriter ==
    ASSUME NEW f \in ConnFds, NEW g \in ConnFds, AtWrite(f), AtWrite(g)
    PROVE  f = g
  BY DEF AtWrite, ConnFds

\* net_accept: a client joins with nothing to send to it, or is refused.
LEMMA AcceptEffect == ASSUME IndInv, Fresh, net_accept PROVE Effect
  <1> DEFINE c == Head(backlog)
  <1>1. /\ pc = "scan" /\ pc' = "scan" /\ Running /\ UNCHANGED nread
        /\ Listening \in rset /\ backlog # <<>>
    BY DEF IndInv, net_accept, AtRead, PassOK, Running
  <1>2. c \in Clients /\ c = backlog[1] /\ 1 \in 1..Len(backlog)
    BY <1>1, QueueTail DEF IndInv
  <1>3. out[c] = <<>> /\ \A g \in Attached : fdtab[g] # c
    BY <1>1, <1>2 DEF Fresh, IndInv, QueueOK
  <1>4. CASE AcceptFails
    <2>1. Quiets
      BY <1>1, <1>4, ScanEffect DEF AcceptFails
    <2> QED BY <2>1 DEF Effect
  <1>5. CASE AcceptRefuses
    <2>1. UNCHANGED <<conn_list, fdtab>>
      BY <1>5 DEF AcceptRefuses
    <2>2. CASE link[c] = "rst"
      <3>1. out' = out
        BY <1>2, <1>5, <2>2 DEF AcceptRefuses, IndInv, TypeOK
      <3>2. Quiets
        BY <1>1, <2>1, <3>1, ScanEffect
      <3> QED BY <3>2 DEF Effect
    <2>3. CASE link[c] # "rst"
      <3>1. out' = [out EXCEPT ![c] = Append(@, Sorry(c))]
        BY <1>5, <2>3 DEF AcceptRefuses
      <3>2. Append(<<>>, Sorry(c)) = <<Sorry(c)>>
        OBVIOUS
      <3>3. out' = [out EXCEPT ![c] = <<Sorry(c)>>]
        BY <1>3, <3>1, <3>2
      <3>4. Refuses(c)
        BY <1>1, <1>3, <2>1, <3>3 DEF Refuses, SameConn, Rest, Attached
      <3> QED BY <1>2, <3>4 DEF Effect
    <2> QED BY <2>2, <2>3
  <1>6. ASSUME NEW f \in FreeFds, AcceptSucceeds(f)
        PROVE  Effect
    <2>1. /\ fdtab' = [fdtab EXCEPT ![f] = c] /\ UNCHANGED out
          /\ conn_list' = [conn_list EXCEPT ![f] = init_conn_object(c)]
      BY <1>6 DEF AcceptSucceeds
    <2>2. f \in ConnFds /\ f \notin Attached
      BY <1>1 DEF FreeFds, IndInv, TablesAgree
    <2>3. init_conn_object(c) # NULL /\ init_conn_object(c).sbuf = <<>>
      BY <1>2, NewConn
    <2>4. /\ conn_list'[f] = init_conn_object(c) /\ fdtab'[f] = c
          /\ \A g \in ConnFds \ {f} : conn_list'[g] = conn_list[g] /\ fdtab'[g] = fdtab[g]
      BY <2>1, <2>2 DEF IndInv, TypeOK
    <2>5. Attached' = Attached \cup {f}
      BY <2>2, <2>3, <2>4 DEF Attached
    <2>6. \A g \in Attached : SameConn(g)
      BY <1>1, <2>2, <2>4 DEF SameConn, Rest, Attached
    <2>7. Joins(f)
      BY <1>1, <1>2, <1>3, <2>1, <2>2, <2>3, <2>4, <2>5, <2>6 DEF Joins, Rest
    <2> QED BY <2>2, <2>7 DEF Effect
  <1> QED BY <1>4, <1>5, <1>6 DEF net_accept

\* Closing a connection leaves the others as they are.
LEMMA CloseEffect ==
    ASSUME IndInv, NEW f \in Attached, CloseConn(f), UNCHANGED <<nread, out>>, pc' # "write",
           pc = "write" => AtWrite(f)
    PROVE  Effect
  <1>1. \A g \in ConnFds \ {f} : conn_list'[g] = conn_list[g] /\ fdtab'[g] = fdtab[g]
    BY DEF CloseConn, IndInv, TypeOK
  <1>2. Attached' = Attached \ {f}
    BY <1>1 DEF CloseConn, IndInv, TypeOK, Attached
  <1>3. ASSUME NEW g \in Attached \ {f}
        PROVE  SameConn(g)
    <2>1. g \in ConnFds \ {f} /\ f \in ConnFds
      BY DEF Attached
    <2>2. ~(pc = "write" /\ AtWrite(g))
      BY <2>1, OneWriter
    <2> QED BY <1>1, <2>1, <2>2 DEF SameConn, Rest
  <1> QED BY <1>2, <1>3 DEF Closes, Effect

\* net_read: the chunk that was read is published, whole and once.
LEMMA ReadDataEffect ==
    ASSUME IndInv, Counted, NEW f \in ConnFds, net_read(f), f \in Attached, ReadData(f)
    PROVE  Effect
  <1> DEFINE c == fdtab[f]
             conn == conn_list[f]
             n == ReadCount(f)
             data == Chunk(c, n)
             frame == Frame(c, data)
  <1>1. pc = "scan" /\ pc' = "scan" /\ Running /\ UNCHANGED out
    BY DEF net_read, ReadData, Running
  <1>2. n > 0 /\ nread' = [nread EXCEPT ![c] = @ + n] /\ UNCHANGED fdtab
    BY DEF ReadData
  <1>3. c \in Clients /\ conn \in ConnObject /\ conn.peer = c /\ conn.rbuf = <<>>
    BY <1>1 DEF IndInv, TypeOK, TablesAgree, Attached, BuffersOK
  <1>4. n \in Nat \ {0} /\ nread[c] + n <= MaxSend
    <2>1. sent[c] \in Nat /\ nread[c] \in Nat /\ conn.rsize - Len(conn.rbuf) \in Int
      BY <1>3, FieldTypes DEF IndInv, TypeOK
    <2>2. n <= sent[c] - nread[c] /\ n \in Int
      BY <2>1 DEF ReadCount
    <2> HIDE DEF n
    <2> QED BY <1>2, <1>3, <2>1, <2>2, ChatAssumption DEF Counted
  <1>5. data \in Seq(Unit) /\ conn.rbuf \o data = data
    <2>1. data \in Seq(Unit)
      <3> HIDE DEF n
      <3> QED BY <1>3, <1>4, ChunkType DEF IndInv, TypeOK, Chunk
    <2> QED BY <1>3, <2>1, ConcatEmptySeq
  <1>6. PICK rs \in {conn.rsize, 2 * conn.rsize} : exchange_data(f, data, rs)
    BY <1>5 DEF ReadData, Chunk
  <1>7. frame \in Seq(Unit) /\ frame # <<>>
    BY <1>3, <1>5, FrameType
  <1> HIDE DEF n, data, frame
  <1>8. rs \in Nat
    BY <1>3, FieldTypes
  <1>9. conn_list'[f] # NULL /\ conn_list'[f].sbuf = conn.sbuf
    BY <1>3, <1>6, <1>8, DrainedConn DEF exchange_data
  <1>10. ASSUME NEW g \in Attached \ {f}
         PROVE  conn_list'[g] # NULL /\ conn_list'[g].sbuf = conn_list[g].sbuf \o frame
    <2>1. g \in ConnFds /\ conn_list[g] # NULL /\ conn_list[g] \in ConnObject
      BY DEF IndInv, TypeOK, Attached
    <2>2. conn_list'[g] = buffered_send(conn_list[g], frame)
      BY <1>3, <1>6, <2>1 DEF exchange_data, frame
    <2> QED BY <1>7, <2>1, <2>2, SentConn
  <1>11. Attached' = Attached
    <2>1. \A g \in ConnFds \ Attached : conn_list'[g] = NULL
      BY <1>6 DEF exchange_data, Attached
    <2> QED BY <1>9, <1>10, <2>1 DEF Attached
  <1>12. Publishes(f, n)
    BY <1>1, <1>2, <1>4, <1>9, <1>10, <1>11 DEF Publishes, SameConn, Rest, frame, data
  <1> QED BY <1>4, <1>12 DEF Effect

\* What is left after k more units of a suffix.
LEMMA SuffixSplit ==
    ASSUME NEW s \in Seq(Unit), NEW w \in Nat, NEW k \in Nat \ {0}, w + k <= Len(s)
    PROVE  LET r == SubSeq(s, w + 1, Len(s)) IN
           /\ k \in 1..Len(r)
           /\ SubSeq(s, w + 1, w + k) = SubSeq(r, 1, k)
           /\ SubSeq(s, w + k + 1, Len(s)) = SubSeq(r, k + 1, Len(r))
  <1> DEFINE r == SubSeq(s, w + 1, Len(s))
  <1>1. Len(s) \in Nat /\ w <= Len(s)
    BY LenProperties
  <1>2. r \in Seq(Unit) /\ Len(r) = Len(s) - w
    BY <1>1, SuffixType
  <1>3. /\ w + 1 \in 1..Len(s) /\ Len(s) \in 1..Len(s)
        /\ 1 \in 1..(Len(s) - (w + 1) + 1) /\ k \in 1..(Len(s) - (w + 1) + 1)
    BY <1>1
  <1>4. SubSeq(r, 1, k) = SubSeq(s, w + 1 + 1 - 1, w + 1 + k - 1)
    BY <1>3, SubSeqOfSubSeq
  <1>5. w + 1 + 1 - 1 = w + 1 /\ w + 1 + k - 1 = w + k
    OBVIOUS
  <1>6. SubSeq(r, k + 1, Len(r)) = SubSeq(s, w + k + 1, Len(s))
    <2>1. CASE w + k = Len(s)
      <3>1. /\ Len(r) < k + 1 /\ Len(s) < w + k + 1
            /\ k + 1 \in Int /\ w + k + 1 \in Int /\ Len(r) \in Int
        BY <1>1, <1>2, <2>1
      <3> QED BY <1>1, <3>1, SubSeqEmpty
    <2>2. CASE w + k < Len(s)
      <3>1. k + 1 \in 1..(Len(s) - (w + 1) + 1) /\ Len(r) \in 1..(Len(s) - (w + 1) + 1)
        BY <1>1, <1>2, <2>2
      <3>2. SubSeq(r, k + 1, Len(r)) = SubSeq(s, w + 1 + (k + 1) - 1, w + 1 + Len(r) - 1)
        BY <1>3, <3>1, SubSeqOfSubSeq
      <3>3. \A a, b, d, e \in Nat :
                a = b - d => d + 1 + (e + 1) - 1 = d + e + 1 /\ d + 1 + a - 1 = b
        OBVIOUS
      <3>4. Len(r) \in Nat
        BY <1>2, LenProperties
      <3> HIDE DEF r
      <3>5. w + 1 + (k + 1) - 1 = w + k + 1 /\ w + 1 + Len(r) - 1 = Len(s)
        BY <1>1, <1>2, <3>3, <3>4
      <3> QED BY <3>2, <3>5 DEF r
    <2> QED BY <1>1, <2>1, <2>2
  <1>7. k \in 1..Len(r)
    BY <1>1, <1>2
  <1> QED BY <1>4, <1>5, <1>6, <1>7

\* write() hands over a piece of what is buffered.
LEMMA CopyEffect == ASSUME IndInv, NEW f \in ConnFds, WriteCopies(f) PROVE Effect
  <1> DEFINE c == fdtab[f]
             k == IF Room(c) < Unwritten(f) THEN Room(c) ELSE Unwritten(f)
             s == conn_list[f].sbuf
  <1>1. /\ pc = "write" /\ pc' = "write" /\ AtWrite(f) /\ k > 0
        /\ out' = [out EXCEPT ![c] = @ \o SubSeq(s, wdone + 1, wdone + k)]
        /\ wdone' = wdone + k
        /\ UNCHANGED <<conn_list, rset, wset, fdtab, nread>>
    BY DEF WriteCopies
  <1>2. f \in Attached /\ Running
    BY <1>1 DEF Running, IndInv, WriteOK
  <1>3. s \in Seq(Unit) /\ c \in Clients /\ Len(s) \in Nat /\ wdone \in Nat /\ wdone <= Len(s)
    BY <1>1, <1>2, RestType, LenProperties DEF IndInv, TypeOK, WriteOK
  <1>4. k \in Nat \ {0} /\ wdone + k <= Len(s)
    <2>1. Len(out[c]) \in Nat /\ got[c] \in Nat
      BY <1>3, LenProperties DEF IndInv, TypeOK
    <2>2. Room(c) \in Int /\ Unwritten(f) = Len(s) - wdone
      BY <2>1, ChatAssumption DEF Room, Unwritten
    <2> HIDE DEF s
    <2> QED BY <1>1, <1>3, <2>2
  <1> HIDE DEF k
  <1>5. Rest(f) = SubSeq(s, wdone + 1, Len(s))
    BY <1>1 DEF Rest
  <1>6. Rest(f)' = SubSeq(s, wdone + k + 1, Len(s))
    BY <1>1 DEF Rest, AtWrite
  <1>7. ASSUME NEW g \in Attached \ {f}
        PROVE  SameConn(g)
    <2>1. g \in ConnFds
      BY DEF Attached
    <2>2. ~AtWrite(g) /\ ~AtWrite(g)'
      BY <1>1, <2>1, OneWriter DEF AtWrite
    <2> QED BY <1>1, <2>2 DEF SameConn, Rest
  <1>8. /\ k \in 1..Len(Rest(f))
        /\ SubSeq(s, wdone + 1, wdone + k) = SubSeq(Rest(f), 1, k)
        /\ SubSeq(s, wdone + k + 1, Len(s)) = SubSeq(Rest(f), k + 1, Len(Rest(f)))
    BY <1>3, <1>4, <1>5, SuffixSplit
  <1>9. Attached' = Attached
    BY <1>1 DEF Attached
  <1>10. HandsOver(f, k)
    BY <1>1, <1>6, <1>7, <1>8, <1>9 DEF HandsOver
  <1> QED BY <1>2, <1>8, <1>10 DEF Effect

\* The memmove() after write() leaves what is on its way as it is.
LEMMA DoneEffect ==
    ASSUME IndInv, NEW f \in ConnFds, pc = "write", AtWrite(f), WriteDone(f)
    PROVE  Quiets
  <1>1. /\ conn_list' = [conn_list EXCEPT ![f] = Trim(@, wdone)] /\ pc' = "scan"
        /\ UNCHANGED <<fdtab, nread, out>>
    BY DEF WriteDone, clientVars
  <1>2. f \in Attached /\ wdone <= Len(conn_list[f].sbuf) /\ wdone \in Nat
    BY DEF Running, IndInv, WriteOK, TypeOK
  <1>3. conn_list[f] \in ConnObject
    BY <1>2, RestType
  <1>4. Trim(conn_list[f], wdone) # NULL
    BY <1>2, <1>3, TrimmedConn
  <1>5. Trim(conn_list[f], wdone).sbuf
            = SubSeq(conn_list[f].sbuf, wdone + 1, Len(conn_list[f].sbuf))
    BY DEF Trim, conn_t
  <1>6. /\ conn_list'[f] = Trim(conn_list[f], wdone)
        /\ \A g \in ConnFds \ {f} : conn_list'[g] = conn_list[g]
    BY <1>1 DEF IndInv, TypeOK
  <1>7. Attached' = Attached
    BY <1>2, <1>4, <1>6 DEF Attached
  <1>8. SameConn(f)
    BY <1>1, <1>5, <1>6 DEF SameConn, Rest
  <1>9. ASSUME NEW g \in Attached \ {f}
        PROVE  SameConn(g)
    <2>1. g \in ConnFds \ {f}
      BY DEF Attached
    <2>2. ~AtWrite(g)
      BY <2>1, OneWriter
    <2> QED BY <1>1, <1>6, <2>1, <2>2 DEF SameConn, Rest
  <1> QED BY <1>1, <1>7, <1>8, <1>9 DEF Quiets

\* A write() that starts, or fails with nothing written, changes nothing.
LEMMA NothingWritten ==
    ASSUME IndInv, NEW f \in Attached, UNCHANGED <<conn_list, fdtab, nread, out>>,
           \/ pc = "write" /\ AtWrite(f) /\ wdone = 0 /\ pc' # "write"
           \/ pc # "write" /\ pc' = "write" /\ AtWrite(f)' /\ wdone' = 0
    PROVE  Quiets
  <1>1. /\ f \in ConnFds
        /\ SubSeq(conn_list[f].sbuf, 0 + 1, Len(conn_list[f].sbuf)) = conn_list[f].sbuf
    BY RestType, SuffixType, LenProperties
  <1>2. SameConn(f)
    BY <1>1 DEF SameConn, Rest
  <1>3. ASSUME NEW g \in Attached \ {f}
        PROVE  SameConn(g)
    <2>1. g \in ConnFds /\ g # f
      BY DEF Attached
    <2>2. AtWrite(f) => ~AtWrite(g)
      BY <1>1, <2>1, OneWriter
    <2>3. AtWrite(f)' => ~AtWrite(g)'
      BY <1>1, <2>1 DEF AtWrite, ConnFds
    <2> QED BY <2>2, <2>3 DEF SameConn, Rest
  <1>4. Attached' = Attached
    BY DEF Attached
  <1> QED BY <1>2, <1>3, <1>4 DEF Quiets

\* Every step of the running server is one of these.
LEMMA StepEffect ==
    ASSUME IndInv, Fresh, Counted, [Next]_vars, Running, Running'
    PROVE  Effect
  <1>1. CASE Quiets
    BY <1>1 DEF Effect
  <1>2. ASSUME NEW c \in Clients, Client(c) PROVE Effect
    <2>1. UNCHANGED <<serverVars, fdtab, nread, out>>
      BY <1>2 DEF Client, Connect, Send, Receive, Finish, Reset
    <2> QED BY <1>1, <2>1, IdleEffect
  <1>3. CASE sigterm_handler
    <2>1. CASE \E f \in ConnFds : Blocked(f) /\ wdone > 0 /\ WriteDone(f)
      BY <1>1, <2>1, DoneEffect DEF Blocked
    <2>2. CASE /\ pc = "select" /\ pc' = "loop"
               /\ UNCHANGED <<conn_list, read_set, write_set, maxfd, rset, wset, wdone,
                              fdtab, backlog, clientVars>>
      BY <1>1, <2>2, ScanEffect DEF clientVars
    <2>3. CASE UNCHANGED <<serverVars, fdtab, backlog, clientVars>>
      BY <1>1, <2>3, IdleEffect DEF clientVars
    <2> QED BY <1>3, <2>1, <2>2, <2>3 DEF sigterm_handler
  <1>4. CASE CheckExit \/ EndOfPass \/ Select
    <2>1. ~Shutdown
      BY DEF Shutdown, Running
    <2>2. UNCHANGED <<conn_list, fdtab, clientVars>> /\ pc # "write" /\ pc' # "write"
      BY <1>4, <2>1 DEF CheckExit, EndOfPass, Select
    <2> QED BY <1>1, <2>2, ScanEffect DEF clientVars
  <1>5. CASE net_accept
    BY <1>5, AcceptEffect
  <1>6. ASSUME NEW f \in ConnFds, net_read(f) PROVE Effect
    <2>1. CASE UNCHANGED <<pc, conn_list, read_set, write_set, maxfd, fdtab, link, err, nread>>
      BY <1>1, <1>6, <2>1, ScanEffect DEF net_read
    <2>2. CASE conn_list[f] # NULL
      <3>1. f \in Attached /\ pc = "scan" /\ UNCHANGED out
        BY <1>6, <2>2 DEF Attached, net_read
      <3>2. CASE ReadData(f)
        BY <1>6, <3>1, <3>2, ReadDataEffect
      <3>3. CASE ReadOverruns(f)
        BY <3>3 DEF ReadOverruns, Running
      <3>4. CASE ReadEOF(f)
        BY <3>1, <3>4, CloseEffect DEF ReadEOF
      <3>5. CASE ReadFails(f)
        BY <1>1, <3>1, <3>5, ScanEffect DEF ReadFails
      <3> QED BY <1>6, <2>2, <3>2, <3>3, <3>4, <3>5 DEF net_read
    <2> QED BY <1>6, <2>1, <2>2 DEF net_read
  <1>7. ASSUME NEW f \in ConnFds, net_write(f) PROVE Effect
    <2>1. CASE WriteStarts(f)
      <3>1. /\ f \in Attached /\ pc # "write" /\ pc' = "write" /\ AtWrite(f)' /\ wdone' = 0
            /\ UNCHANGED <<conn_list, fdtab, nread, out>>
        BY <2>1 DEF WriteStarts, Attached, AtWrite, clientVars
      <3> QED BY <1>1, <3>1, NothingWritten
    <2>2. CASE WriteSkipped(f)
      BY <1>1, <2>2, ScanEffect DEF WriteSkipped, clientVars
    <2>3. CASE WriteCopies(f)
      BY <2>3, CopyEffect
    <2>4. CASE WriteReturns(f)
      BY <1>1, <2>4, DoneEffect DEF WriteReturns
    <2>5. CASE WriteFails(f)
      <3>1. /\ pc = "write" /\ AtWrite(f) /\ wdone = 0 /\ pc' # "write" /\ f \in Attached
            /\ UNCHANGED <<nread, out>>
        BY <2>5 DEF WriteFails, IndInv, WriteOK
      <3>2. CASE CloseConn(f)
        BY <3>1, <3>2, CloseEffect
      <3>3. CASE UNCHANGED <<fdtab, conn_list>>
        BY <1>1, <3>1, <3>3, NothingWritten
      <3> QED BY <2>5, <3>2, <3>3 DEF WriteFails
    <2> QED BY <1>7, <2>1, <2>2, <2>3, <2>4, <2>5 DEF net_write
  <1>8. CASE UNCHANGED vars
    BY <1>1, <1>8, IdleEffect DEF vars, serverVars
  <1> QED
    BY <1>2, <1>3, <1>4, <1>5, <1>6, <1>7, <1>8 DEF Next, Server, Stopped

-----------------------------------------------------------------------------
(* No client is sent anything before it is connected, and no more is read  *)
(* than was sent.                                                          *)

\* Steps that write nothing and queue nobody leave the newcomers as they are.
LEMMA FreshKept ==
    ASSUME IndInv, Fresh, Running, UNCHANGED <<out, backlog>>,
           \A c \in Clients : link'[c] = "idle" => link[c] = "idle"
    PROVE  Fresh'
  BY DEF Fresh

\* Nothing is written to a client that is idle or still queued.
LEMMA FreshStep == ASSUME IndInv, Fresh, [Next]_vars PROVE Fresh'
  <1> SUFFICES ASSUME Running' PROVE Fresh'
    BY DEF Fresh
  <1>1. Running /\ ~Shutdown
    BY StillRunning DEF Shutdown, Running
  <1>2. link \in [Clients -> {"idle", "up", "fin", "rst", "gone"}] /\ out \in [Clients -> Seq(Unit)]
    BY DEF IndInv, TypeOK
  <1>3. ASSUME NEW c \in Clients, Client(c) PROVE Fresh'
    <2>1. CASE Connect(c)
      <3>1. /\ link[c] = "idle" /\ link' = [link EXCEPT ![c] = "up"]
            /\ backlog' = Append(backlog, c) /\ UNCHANGED out
        BY <2>1 DEF Connect
      <3>2. backlog \in Seq(Clients)
        BY DEF IndInv, TypeOK
      <3>3. \A j \in 1..Len(backlog') :
                backlog'[j] = c \/ \E i \in 1..Len(backlog) : backlog[i] = backlog'[j]
        BY <3>1, <3>2
      <3> QED BY <1>1, <1>2, <3>1, <3>3 DEF Fresh
    <2>2. CASE Send(c) \/ Receive(c) \/ Finish(c) \/ Reset(c)
      <3>1. UNCHANGED <<out, backlog>> /\ \A d \in Clients : link'[d] = "idle" => link[d] = "idle"
        BY <1>2, <2>2 DEF Send, Receive, Finish, Reset
      <3> QED BY <1>1, <3>1, FreshKept
    <2> QED BY <1>3, <2>1, <2>2 DEF Client
  <1>4. CASE sigterm_handler
    <2>1. UNCHANGED <<out, backlog, link>>
      BY <1>4 DEF sigterm_handler, WriteDone, clientVars
    <2> QED BY <1>1, <2>1, FreshKept
  <1>5. CASE CheckExit \/ EndOfPass \/ Select
    <2>1. UNCHANGED <<out, backlog, link>>
      BY <1>1, <1>5 DEF CheckExit, EndOfPass, Select, clientVars
    <2> QED BY <1>1, <2>1, FreshKept
  <1>6. CASE net_accept
    <2> DEFINE c == Head(backlog)
    <2>1. CASE AcceptFails
      BY <1>1, <2>1, FreshKept DEF AcceptFails
    <2>2. CASE AcceptRefuses \/ \E f \in FreeFds : AcceptSucceeds(f)
      <3>1. backlog # <<>>
        BY <1>6 DEF IndInv, net_accept, AtRead, PassOK
      <3>2. c \in Clients /\ c = backlog[1] /\ 1 \in 1..Len(backlog) /\ backlog' = Tail(backlog)
        BY <2>2, <3>1, QueueTail DEF IndInv, AcceptRefuses, AcceptSucceeds
      <3>3. \A j \in 1..Len(backlog') : /\ backlog'[j] # c
                                        /\ \E i \in 1..Len(backlog) : backlog[i] = backlog'[j]
        <4>1. backlog \in Seq(Clients)
          BY DEF IndInv, TypeOK
        <4>2. \A j \in 1..Len(Tail(backlog)) :
                  j + 1 \in 1..Len(backlog) /\ Tail(backlog)[j] = backlog[j + 1] /\ j + 1 # 1
          BY <3>1, <4>1
        <4> QED BY <1>1, <3>2, <4>2 DEF IndInv, QueueOK
      <3>4. /\ \A d \in Clients \ {c} : out'[d] = out[d] /\ link'[d] = link[d]
            /\ out'[c] = out[c] \/ link'[c] = "gone"
            /\ link'[c] # "idle"
        <4>1. link[c] # "idle"
          BY <1>1, <3>2 DEF IndInv, QueueOK
        <4> QED BY <1>2, <2>2, <3>2, <4>1 DEF AcceptRefuses, AcceptSucceeds
      <3> QED BY <1>1, <3>2, <3>3, <3>4 DEF Fresh
    <2> QED BY <1>6, <2>1, <2>2 DEF net_accept
  <1>7. ASSUME NEW f \in ConnFds, net_read(f) PROVE Fresh'
    <2>1. UNCHANGED <<out, backlog>>
      BY <1>7 DEF net_read
    <2>2. \A d \in Clients : link'[d] = "idle" => link[d] = "idle"
      BY <1>2, <1>7 DEF net_read, ReadData, ReadOverruns, ReadEOF, ReadFails, CloseConn
    <2> QED BY <1>1, <2>1, <2>2, FreshKept
  <1>8. ASSUME NEW f \in ConnFds, net_write(f) PROVE Fresh'
    <2>1. CASE WriteCopies(f)
      <3>1. /\ UNCHANGED <<backlog, link>> /\ f \in Attached /\ fdtab[f] \in Clients
            /\ \A d \in Clients \ {fdtab[f]} : out'[d] = out[d]
        <4>1. f \in Attached /\ UNCHANGED <<backlog, link>>
          BY <2>1 DEF WriteCopies, IndInv, WriteOK
        <4>2. fdtab[f] \in Clients
          BY <1>1, <4>1, RestType
        <4> QED BY <1>2, <2>1, <4>1, <4>2 DEF WriteCopies
      <3>2. link[fdtab[f]] # "idle" /\ \A j \in 1..Len(backlog) : backlog[j] # fdtab[f]
        BY <1>1, <3>1 DEF IndInv, QueueOK
      <3> QED BY <1>1, <3>1, <3>2 DEF Fresh
    <2>2. CASE WriteStarts(f) \/ WriteSkipped(f) \/ WriteReturns(f) \/ WriteFails(f)
      <3>1. UNCHANGED <<out, backlog>>
        BY <2>2 DEF WriteStarts, WriteSkipped, WriteReturns, WriteDone, WriteFails, clientVars
      <3>2. \A d \in Clients : link'[d] = "idle" => link[d] = "idle"
        BY <1>2, <2>2 DEF WriteStarts, WriteSkipped, WriteReturns, WriteDone, WriteFails,
                          clientVars, CloseConn
      <3> QED BY <1>1, <3>1, <3>2, FreshKept
    <2> QED BY <1>8, <2>1, <2>2 DEF net_write
  <1>9. CASE UNCHANGED vars
    BY <1>1, <1>9, FreshKept DEF vars
  <1> QED
    BY <1>3, <1>4, <1>5, <1>6, <1>7, <1>8, <1>9 DEF Next, Server, Stopped

\* read() returns what was sent, no more.
LEMMA CountedStep == ASSUME IndInv, Counted, [Next]_vars PROVE Counted'
  <1>1. sent \in [Clients -> Nat] /\ nread \in [Clients -> Nat] /\ MaxSend \in Nat
    BY ChatAssumption DEF IndInv, TypeOK
  <1>2. CASE UNCHANGED <<sent, nread>>
    BY <1>2 DEF Counted
  <1>3. ASSUME NEW c \in Clients, Send(c) PROVE Counted'
    BY <1>1, <1>3 DEF Send, Counted
  <1>4. ASSUME NEW f \in ConnFds, f \in Attached, net_read(f), ReadData(f) PROVE Counted'
    <2> DEFINE c == fdtab[f]
               n == ReadCount(f)
    <2>1. UNCHANGED sent /\ nread' = [nread EXCEPT ![c] = @ + n] /\ pc = "scan"
      BY <1>4 DEF net_read, ReadData
    <2>2. c \in Clients /\ conn_list[f] \in ConnObject
      BY <1>4, <2>1, RestType DEF Running
    <2>3. n \in Int /\ nread[c] + n <= sent[c]
      <3>1. conn_list[f].rsize - Len(conn_list[f].rbuf) \in Int
        BY <2>2, FieldTypes, LenProperties
      <3> QED BY <1>1, <2>2, <3>1 DEF ReadCount
    <2> HIDE DEF n, c
    <2> QED BY <1>1, <2>1, <2>2, <2>3 DEF Counted
  <1>5. ASSUME NEW c \in Clients, Client(c) PROVE Counted'
    BY <1>2, <1>3, <1>5 DEF Client, Connect, Receive, Finish, Reset
  <1>6. CASE sigterm_handler
    BY <1>2, <1>6 DEF sigterm_handler, WriteDone, clientVars
  <1>7. CASE CheckExit \/ EndOfPass \/ Select \/ net_accept
    BY <1>2, <1>7 DEF CheckExit, EndOfPass, Select, Shutdown, clientVars, net_accept
  <1>8. ASSUME NEW f \in ConnFds, net_read(f) PROVE Counted'
    <2>1. CASE UNCHANGED nread
      BY <1>2, <1>8, <2>1 DEF net_read
    <2>2. CASE conn_list[f] # NULL /\ ReadData(f)
      BY <1>4, <1>8, <2>2 DEF Attached
    <2> QED BY <1>8, <2>1, <2>2 DEF net_read, ReadOverruns, ReadEOF, ReadFails
  <1>9. ASSUME NEW f \in ConnFds, net_write(f) PROVE Counted'
    <2>1. UNCHANGED <<sent, nread>>
      BY <1>9 DEF net_write, WriteStarts, WriteSkipped, WriteCopies, WriteReturns, WriteDone,
                  WriteFails, clientVars
    <2> QED BY <1>2, <2>1
  <1>10. CASE UNCHANGED vars
    BY <1>2, <1>10 DEF vars
  <1> QED
    BY <1>5, <1>6, <1>7, <1>8, <1>9, <1>10 DEF Next, Server, Stopped

-----------------------------------------------------------------------------
(* The streams stay intact.                                                *)

\* What StreamIntact says of one stream s to client me, when the server has read
\* count[c] units of each client c.
Whole(s, me, count) ==
    /\ \A p \in DOMAIN s : s[p].kind = "header" =>
          /\ s[p].src # me /\ p + s[p].num <= Len(s)
          /\ \A j \in 1..s[p].num : /\ p + j \in DOMAIN s /\ s[p + j].kind = "data"
                                    /\ s[p + j].src = s[p].src
    /\ \A p \in DOMAIN s : s[p].kind = "data" =>
          /\ \E h \in 1..(p - 1) : s[h].kind = "header" /\ p <= h + s[h].num
          /\ \/ s[p].num = count[s[p].src]
             \/ \E q \in DOMAIN s : /\ s[q].kind = "data" /\ s[q].src = s[p].src
                                    /\ q > p /\ s[q].num = s[p].num + 1

\* Every stream is as StreamIntact says.
WholeStreams == Running => \A f \in Attached : Whole(Stream(f), fdtab[f], nread)

\* A stream holds units.
LEMMA StreamType ==
    ASSUME IndInv, Running, NEW f \in Attached
    PROVE  Stream(f) = out[fdtab[f]] \o Rest(f) /\ Stream(f) \in Seq(Unit)
  <1>1. Stream(f) = out[fdtab[f]] \o Rest(f)
    BY QueueOf DEF Mapped
  <1>2. out[fdtab[f]] \in Seq(Unit) /\ Rest(f) \in Seq(Unit)
    BY RestType
  <1> QED BY <1>1, <1>2, ConcatProperties

\* The two ways to say it agree.
LEMMA WholeIsIntact == IndInv /\ WholeStreams => StreamIntact
  <1> SUFFICES ASSUME IndInv, Running, WholeStreams PROVE StreamIntact
    BY DEF StreamIntact
  <1> SUFFICES ASSUME NEW f \in Attached
               PROVE  LET s == Stream(f)
                          From(c) == {p \in DOMAIN s : s[p].kind = "data" /\ s[p].src = c}
                      IN  /\ \A p \in DOMAIN s : s[p].kind = "header" =>
                                /\ s[p].src # fdtab[f] /\ p + s[p].num <= Len(s)
                                /\ \A j \in 1..s[p].num : p + j \in From(s[p].src)
                          /\ \A c \in Clients : \A p \in From(c) :
                                /\ \E h \in 1..(p - 1) : s[h].kind = "header" /\ p <= h + s[h].num
                                /\ \/ s[p].num = nread[c]
                                   \/ \E q \in From(c) : q > p /\ s[q].num = s[p].num + 1
    BY DEF StreamIntact
  <1> DEFINE s == Stream(f)
  <1>1. Whole(s, fdtab[f], nread)
    BY DEF WholeStreams
  <1> HIDE DEF s
  <1> QED BY <1>1 DEF Whole, s

\* An empty stream is whole.
LEMMA EmptyWhole == \A me, count : Whole(<<>>, me, count)
  BY DEF Whole

\* A stream holds no data of the client it goes to, so what that client sends
\* does not matter to it.
LEMMA OwnData ==
    ASSUME NEW s \in Seq(Unit), NEW me \in Clients, NEW count \in [Clients -> Nat], NEW n \in Nat,
           Whole(s, me, count)
    PROVE  Whole(s, me, [count EXCEPT ![me] = @ + n])
  <1> DEFINE next == [count EXCEPT ![me] = @ + n]
  <1>1. DOMAIN s = 1..Len(s) /\ Len(s) \in Nat /\ \A p \in DOMAIN s : s[p] \in Unit
    BY LenProperties, ElementOfSeq
  <1>2. ASSUME NEW p \in DOMAIN s, s[p].kind = "data"
        PROVE  next[s[p].src] = count[s[p].src]
    <2>1. PICK h \in 1..(p - 1) : s[h].kind = "header" /\ p <= h + s[h].num
      BY <1>2 DEF Whole
    <2>2. h \in DOMAIN s /\ s[h].num \in Nat /\ s[h].src \in Clients
      BY <1>1, <2>1 DEF Unit
    <2>3. p - h \in 1..s[h].num /\ h + (p - h) = p
      BY <1>1, <2>1, <2>2
    <2>4. s[p].src = s[h].src
      <3>1. \A j \in 1..s[h].num : s[h + j].src = s[h].src
        BY <2>1, <2>2 DEF Whole
      <3>2. s[h + (p - h)].src = s[h].src
        BY <2>3, <3>1
      <3> QED BY <2>3, <3>2
    <2>5. s[h].src # me
      BY <2>1, <2>2 DEF Whole
    <2> QED BY <2>2, <2>4, <2>5
  <1> HIDE DEF next
  <1>3. Whole(s, me, next)
    BY <1>2 DEF Whole
  <1> QED BY <1>3 DEF next

\* The fields of the units.
LEMMA UnitFields ==
    /\ \A c, k : /\ Data(c, k).kind = "data" /\ Data(c, k).src = c /\ Data(c, k).num = k
                 /\ Header(c, k).kind = "header" /\ Header(c, k).src = c /\ Header(c, k).num = k
    /\ \A u \in Unit : u.src \in Clients /\ u.num \in Nat
  BY DEF Data, Header, Unit

\* A header and its chunk, unit by unit.
LEMMA FrameUnits ==
    ASSUME NEW c \in Clients, NEW n \in Nat, NEW k0 \in Nat
    PROVE  LET frame == Frame(c, [k \in 1..n |-> Data(c, k0 + k)]) IN
           /\ frame \in Seq(Unit) /\ Len(frame) = n + 1 /\ frame[1] = Header(c, n)
           /\ \A j \in 1..n : frame[j + 1] = Data(c, k0 + j)
  <1> DEFINE chunk == [k \in 1..n |-> Data(c, k0 + k)]
             h == Header(c, n)
  <1>1. chunk \in Seq(Unit) /\ Len(chunk) = n /\ \A j \in 1..n : chunk[j] = Data(c, k0 + j)
    BY ChunkType
  <1>2. h \in Unit
    BY Units
  <1> HIDE DEF chunk, h
  <1>3. <<h>> \in Seq(Unit) /\ Len(<<h>>) = 1 /\ <<h>>[1] = h
    BY <1>2
  <1>4. /\ <<h>> \o chunk \in Seq(Unit) /\ Len(<<h>> \o chunk) = 1 + n
        /\ \A j \in 1..(1 + n) : (<<h>> \o chunk)[j] = IF j <= 1 THEN <<h>>[j] ELSE chunk[j - 1]
    BY <1>1, <1>3, ConcatProperties
  <1>5. (<<h>> \o chunk)[1] = h
    BY <1>3, <1>4
  <1>6. ASSUME NEW j \in 1..n
        PROVE  (<<h>> \o chunk)[j + 1] = Data(c, k0 + j)
    <2>1. j + 1 \in 1..(1 + n) /\ ~(j + 1 <= 1) /\ j + 1 - 1 = j
      OBVIOUS
    <2> QED BY <1>1, <1>4, <2>1
  <1>7. Frame(c, chunk) = <<h>> \o chunk
    BY <1>1 DEF Frame, h
  <1>8. /\ Frame(c, chunk) \in Seq(Unit) /\ Len(Frame(c, chunk)) = n + 1
        /\ Frame(c, chunk)[1] = h /\ \A j \in 1..n : Frame(c, chunk)[j + 1] = Data(c, k0 + j)
    BY <1>4, <1>5, <1>6, <1>7
  <1> QED BY <1>8 DEF chunk, h

\* A frame of the next n units of another client keeps a stream whole.
LEMMA FrameAdded ==
    ASSUME NEW s \in Seq(Unit), NEW me \in Clients, NEW c \in Clients, c # me,
           NEW count \in [Clients -> Nat], NEW n \in Nat \ {0}, Whole(s, me, count)
    PROVE  Whole(s \o Frame(c, [k \in 1..n |-> Data(c, count[c] + k)]), me,
                 [count EXCEPT ![c] = @ + n])
  <1> DEFINE frame == Frame(c, [k \in 1..n |-> Data(c, count[c] + k)])
             next == [count EXCEPT ![c] = @ + n]
             t == s \o frame
             L == Len(s)
  <1>1. count[c] \in Nat /\ L \in Nat /\ DOMAIN s = 1..L /\ \A p \in DOMAIN s : s[p] \in Unit
    BY LenProperties, ElementOfSeq
  <1>2. /\ frame \in Seq(Unit) /\ Len(frame) = n + 1 /\ frame[1] = Header(c, n)
        /\ \A j \in 1..n : frame[j + 1] = Data(c, count[c] + j)
    BY <1>1, FrameUnits
  <1> HIDE DEF frame, L
  <1>3. /\ t \in Seq(Unit) /\ Len(t) = L + (n + 1)
        /\ \A j \in 1..(L + (n + 1)) : t[j] = IF j <= L THEN s[j] ELSE frame[j - L]
    <2>1. frame \in Seq(Unit)
      BY <1>2
    <2>2. /\ t \in Seq(Unit) /\ Len(t) = Len(s) + Len(frame)
          /\ \A j \in 1..(Len(s) + Len(frame)) : t[j] = IF j <= Len(s) THEN s[j]
                                                       ELSE frame[j - Len(s)]
      BY <2>1, ConcatProperties
    <2> HIDE DEF t
    <2>3. Len(s) = L /\ Len(frame) = n + 1
      BY <1>2 DEF L
    <2> QED BY <2>2, <2>3
  <1> HIDE DEF t
  <1>4. DOMAIN t = 1..(L + (n + 1)) /\ DOMAIN s \subseteq DOMAIN t
    BY <1>1, <1>3, LenProperties
  <1>5. /\ \A p \in DOMAIN s : t[p] = s[p]
        /\ \A i \in 1..(n + 1) : t[L + i] = frame[i]
    <2>1. \A p \in DOMAIN s : t[p] = s[p]
      BY <1>1, <1>3
    <2>2. ASSUME NEW i \in 1..(n + 1) PROVE t[L + i] = frame[i]
      <3>1. PICK m \in Nat : m = L + i /\ m \in 1..(L + (n + 1)) /\ ~(m <= L) /\ m - L = i
        BY <1>1
      <3>2. t[m] = frame[m - L]
        BY <1>3, <3>1
      <3> QED BY <3>1, <3>2
    <2> QED BY <2>1, <2>2
  <1>6. L + 1 \in DOMAIN t /\ t[L + 1] = Header(c, n)
    <2>1. L + 1 \in 1..(L + (n + 1)) /\ 1 \in 1..(n + 1)
      BY <1>1
    <2> QED BY <1>2, <1>4, <1>5, <2>1
  <1>7. ASSUME NEW j \in 1..n
        PROVE  L + 1 + j \in DOMAIN t /\ t[L + 1 + j] = Data(c, count[c] + j)
    <2>1. L + 1 + j \in 1..(L + (n + 1)) /\ L + 1 + j = L + (j + 1) /\ j + 1 \in 1..(n + 1)
      BY <1>1
    <2>2. t[L + (j + 1)] = frame[j + 1] /\ frame[j + 1] = Data(c, count[c] + j)
      BY <1>2, <1>5, <2>1
    <2> QED BY <1>4, <2>1, <2>2
  <1>8. ASSUME NEW p \in DOMAIN t
        PROVE  p \in DOMAIN s \/ p = L + 1 \/ \E j \in 1..n : p = L + 1 + j
    <2>1. CASE p <= L
      BY <1>1, <1>4, <2>1
    <2>2. CASE p = L + 1
      BY <2>2
    <2>3. CASE p > L + 1
      <3>1. \A a, b, d \in Nat : a \in 1..(b + (d + 1)) /\ a > b + 1
                                  => a - b - 1 \in 1..d /\ a = b + 1 + (a - b - 1)
        OBVIOUS
      <3>2. p \in Nat /\ p \in 1..(L + (n + 1))
        BY <1>4
      <3>3. p - L - 1 \in 1..n /\ p = L + 1 + (p - L - 1)
        BY <1>1, <2>3, <3>1, <3>2
      <3> QED BY <3>3
    <2> QED BY <1>1, <1>4, <2>1, <2>2, <2>3
  <1>9. /\ next[c] = count[c] + n
        /\ \A d \in Clients \ {c} : next[d] = count[d]
    OBVIOUS
  <1> HIDE DEF next
  <1>10. ASSUME NEW p \in DOMAIN t, t[p].kind = "header"
         PROVE  /\ t[p].src # me /\ p + t[p].num <= Len(t)
                /\ \A j \in 1..t[p].num : /\ p + j \in DOMAIN t /\ t[p + j].kind = "data"
                                          /\ t[p + j].src = t[p].src
    <2>1. CASE p \in DOMAIN s
      <3>1. t[p] = s[p] /\ s[p].kind = "header"
        BY <1>5, <1>10, <2>1
      <3>2. /\ s[p].src # me /\ p + s[p].num <= L
            /\ \A j \in 1..s[p].num : /\ p + j \in DOMAIN s /\ s[p + j].kind = "data"
                                      /\ s[p + j].src = s[p].src
        BY <2>1, <3>1 DEF Whole, L
      <3>3. p + s[p].num <= Len(t)
        <4>1. s[p].num \in Nat /\ p \in Nat
          BY <1>1, <2>1, UnitFields
        <4> QED BY <1>1, <1>3, <3>2, <4>1
      <3> QED BY <1>4, <1>5, <3>1, <3>2, <3>3
    <2>2. CASE p = L + 1
      <3>1. t[p].src = c /\ t[p].num = n
        BY <1>6, <2>2, UnitFields
      <3>2. p + n <= Len(t)
        BY <1>1, <1>3, <2>2
      <3>3. \A j \in 1..n : p + j \in DOMAIN t /\ t[p + j].kind = "data" /\ t[p + j].src = c
        BY <1>7, <2>2, UnitFields
      <3> QED BY <3>1, <3>2, <3>3
    <2>3. CASE \E j \in 1..n : p = L + 1 + j
      <3>1. PICK j \in 1..n : p = L + 1 + j
        BY <2>3
      <3>2. t[p].kind = "data"
        BY <1>7, <3>1, UnitFields
      <3> QED BY <1>10, <3>2
    <2> QED BY <1>8, <2>1, <2>2, <2>3
  <1>11. ASSUME NEW p \in DOMAIN t, t[p].kind = "data"
         PROVE  /\ \E h \in 1..(p - 1) : t[h].kind = "header" /\ p <= h + t[h].num
                /\ \/ t[p].num = next[t[p].src]
                   \/ \E q \in DOMAIN t : /\ t[q].kind = "data" /\ t[q].src = t[p].src
                                          /\ q > p /\ t[q].num = t[p].num + 1
    <2>1. CASE p \in DOMAIN s
      <3>1. t[p] = s[p] /\ s[p].kind = "data" /\ s[p].src \in Clients
        BY <1>1, <1>5, <1>11, <2>1, UnitFields
      <3>2. PICK h \in 1..(p - 1) : s[h].kind = "header" /\ p <= h + s[h].num
        BY <2>1, <3>1 DEF Whole
      <3>3. h \in DOMAIN s /\ t[h] = s[h]
        BY <1>1, <1>5, <2>1
      <3>4. CASE s[p].num = count[s[p].src] /\ s[p].src # c
        BY <1>9, <3>1, <3>2, <3>3, <3>4
      <3>5. CASE s[p].num = count[s[p].src] /\ s[p].src = c
        <4>1. 1 \in 1..n
          OBVIOUS
        <4>2. L + 1 + 1 \in DOMAIN t /\ t[L + 1 + 1] = Data(c, count[c] + 1)
          BY <1>7, <4>1
        <4>3. L + 1 + 1 > p
          BY <1>1, <2>1
        <4>4. /\ t[L + 1 + 1].kind = "data" /\ t[L + 1 + 1].src = t[p].src
              /\ t[L + 1 + 1].num = t[p].num + 1
          BY <3>1, <3>5, <4>2, UnitFields
        <4> QED BY <3>2, <3>3, <4>2, <4>3, <4>4
      <3>6. CASE \E q \in DOMAIN s : /\ s[q].kind = "data" /\ s[q].src = s[p].src
                                     /\ q > p /\ s[q].num = s[p].num + 1
        BY <1>4, <1>5, <3>1, <3>2, <3>3, <3>6
      <3> QED BY <2>1, <3>1, <3>4, <3>5, <3>6 DEF Whole
    <2>2. CASE p = L + 1
      BY <1>6, <1>11, <2>2, UnitFields
    <2>3. CASE \E j \in 1..n : p = L + 1 + j
      <3>1. PICK j \in 1..n : p = L + 1 + j
        BY <2>3
      <3>2. t[p].src = c /\ t[p].num = count[c] + j
        BY <1>7, <3>1, UnitFields
      <3>3. L + 1 \in 1..(p - 1) /\ p <= L + 1 + n
        BY <1>1, <3>1
      <3>4. t[L + 1].kind = "header" /\ t[L + 1].num = n
        BY <1>6, UnitFields
      <3>5. CASE j = n
        BY <1>9, <3>2, <3>3, <3>4, <3>5
      <3>6. CASE j # n
        <4>1. j + 1 \in 1..n
          BY <3>6
        <4>2. L + 1 + (j + 1) \in DOMAIN t /\ t[L + 1 + (j + 1)] = Data(c, count[c] + (j + 1))
          BY <1>7, <4>1
        <4>3. L + 1 + (j + 1) > p /\ count[c] + (j + 1) = count[c] + j + 1
          BY <1>1, <3>1
        <4>4. /\ t[L + 1 + (j + 1)].kind = "data" /\ t[L + 1 + (j + 1)].src = t[p].src
              /\ t[L + 1 + (j + 1)].num = t[p].num + 1
          BY <3>2, <4>2, <4>3, UnitFields
        <4> QED BY <3>3, <3>4, <4>2, <4>3, <4>4
      <3> QED BY <3>5, <3>6
    <2> QED BY <1>8, <2>1, <2>2, <2>3
  <1>12. Whole(t, me, next)
    BY <1>10, <1>11 DEF Whole
  <1> QED BY <1>12 DEF t, frame, next

\* Units are appended to a stream in any grouping.
LEMMA Associative == \A s, t, u \in Seq(Unit) : (s \o t) \o u = s \o (t \o u)
  BY ConcatAssociative

\* What StreamIntact needs: a step of the server appends whole frames to the
\* streams, moves units along them, or leaves them alone.
LEMMA StreamStep ==
    ASSUME IndInv, Fresh, Counted, WholeStreams, [Next]_vars, IndInv' PROVE WholeStreams'
  <1> SUFFICES ASSUME Running' PROVE WholeStreams'
    BY DEF WholeStreams
  <1>1. Running
    BY StillRunning
  <1>2. Effect
    BY <1>1, StepEffect
  <1>3. ASSUME NEW f \in Attached
        PROVE  /\ Whole(Stream(f), fdtab[f], nread) /\ fdtab[f] \in Clients
               /\ Stream(f) = out[fdtab[f]] \o Rest(f) /\ Stream(f) \in Seq(Unit)
               /\ out[fdtab[f]] \in Seq(Unit) /\ Rest(f) \in Seq(Unit)
    BY <1>1, StreamType, RestType DEF WholeStreams
  <1>4. \A f \in Attached' : Stream(f)' = out'[fdtab'[f]] \o Rest(f)'
    BY QueueOfNext DEF Mapped
  <1>5. \A f, g \in Attached : fdtab[f] = fdtab[g] => f = g
    BY <1>1 DEF IndInv, TablesAgree
  <1>6. nread \in [Clients -> Nat] /\ out \in [Clients -> Seq(Unit)]
    BY DEF IndInv, TypeOK
  <1> SUFFICES ASSUME NEW g \in Attached'
               PROVE  Whole(Stream(g)', fdtab'[g], nread')
    BY DEF WholeStreams
  <1>7. CASE g \in Attached /\ SameConn(g) /\ UNCHANGED nread /\ out'[fdtab[g]] = out[fdtab[g]]
    <2>1. Stream(g)' = Stream(g) /\ fdtab'[g] = fdtab[g] /\ nread' = nread
      BY <1>3, <1>4, <1>7 DEF SameConn
    <2> QED BY <1>3, <1>7, <2>1
  <1>8. CASE Quiets
    BY <1>7, <1>8 DEF Quiets
  <1>9. ASSUME NEW f \in ConnFds, Joins(f) PROVE Whole(Stream(g)', fdtab'[g], nread')
    <2>1. CASE g = f
      <3>1. Stream(g)' = <<>> \o <<>>
        BY <1>4, <1>9, <2>1 DEF Joins
      <3>2. <<>> \o <<>> = <<>>
        OBVIOUS
      <3> QED BY <3>1, <3>2, EmptyWhole
    <2> QED BY <1>7, <1>9, <2>1 DEF Joins
  <1>10. ASSUME NEW c \in Clients, Refuses(c) PROVE Whole(Stream(g)', fdtab'[g], nread')
    <2>1. g \in Attached /\ SameConn(g) /\ fdtab[g] # c /\ UNCHANGED nread
      BY <1>10 DEF Refuses
    <2>2. out'[fdtab[g]] = out[fdtab[g]]
      BY <1>3, <1>6, <1>10, <2>1 DEF Refuses
    <2> QED BY <1>7, <2>1, <2>2
  <1>11. ASSUME NEW f \in Attached, NEW n \in Nat \ {0}, Publishes(f, n)
         PROVE  Whole(Stream(g)', fdtab'[g], nread')
    <2> DEFINE c == fdtab[f]
    <2>1. /\ g \in Attached /\ UNCHANGED out /\ nread' = [nread EXCEPT ![c] = @ + n]
          /\ c \in Clients
      BY <1>3, <1>11 DEF Publishes
    <2>2. CASE g = f
      <3>1. Stream(g)' = Stream(g) /\ fdtab'[g] = fdtab[g]
        BY <1>3, <1>4, <1>11, <2>1, <2>2 DEF Publishes, SameConn
      <3>2. Whole(Stream(g), fdtab[g], [nread EXCEPT ![fdtab[g]] = @ + n])
        BY <1>3, <1>6, <2>1, OwnData
      <3> QED BY <2>1, <2>2, <3>1, <3>2
    <2>3. CASE g # f
      <3> DEFINE frame == Frame(c, Chunk(c, n))
      <3>1. fdtab'[g] = fdtab[g] /\ Rest(g)' = Rest(g) \o frame /\ fdtab[g] # c
        BY <1>5, <1>11, <2>1, <2>3 DEF Publishes
      <3>2. nread[c] \in Nat /\ frame = Frame(c, [k \in 1..n |-> Data(c, nread[c] + k)])
        BY <1>6, <2>1 DEF Chunk
      <3>3. frame \in Seq(Unit)
        BY <2>1, <3>2, FrameUnits
      <3>4. Whole(Stream(g) \o frame, fdtab[g], [nread EXCEPT ![c] = @ + n])
        BY <1>3, <1>6, <2>1, <3>1, <3>2, FrameAdded
      <3> HIDE DEF frame, c
      <3>5. Stream(g)' = Stream(g) \o frame
        <4>1. out[fdtab[g]] \in Seq(Unit) /\ Rest(g) \in Seq(Unit)
          BY <1>3, <2>1
        <4>2. (out[fdtab[g]] \o Rest(g)) \o frame = out[fdtab[g]] \o (Rest(g) \o frame)
          BY <3>3, <4>1, Associative
        <4>3. Stream(g)' = out[fdtab[g]] \o (Rest(g) \o frame)
          BY <1>4, <2>1, <3>1
        <4> QED BY <1>3, <2>1, <4>2, <4>3
      <3> QED BY <2>1, <3>1, <3>4, <3>5
    <2> QED BY <2>2, <2>3
  <1>12. ASSUME NEW f \in Attached, NEW k \in 1..Len(Rest(f)), HandsOver(f, k)
         PROVE  Whole(Stream(g)', fdtab'[g], nread')
    <2>1. g \in Attached /\ UNCHANGED nread /\ fdtab'[g] = fdtab[g]
      BY <1>12 DEF HandsOver
    <2>2. CASE g = f
      <3> DEFINE o == out[fdtab[f]]
                 r == Rest(f)
                 a == SubSeq(r, 1, k)
                 b == SubSeq(r, k + 1, Len(r))
      <3>1. out'[fdtab[f]] = o \o a /\ Rest(f)' = b
        BY <1>3, <1>6, <1>12 DEF HandsOver
      <3>2. o \in Seq(Unit) /\ r \in Seq(Unit) /\ Len(r) \in Nat /\ k \in 1..Len(r)
        BY <1>3, LenProperties
      <3> HIDE DEF o, r
      <3>3. a \in Seq(Unit) /\ b \in Seq(Unit)
        <4>1. b \in Seq(Unit)
          BY <3>2, SuffixType
        <4>2. \A i \in 1..k : r[i] \in Unit
          BY <3>2, ElementOfSeq
        <4>3. a \in Seq(Unit)
          BY <3>2, <4>2, SubSeqProperties
        <4> QED BY <4>1, <4>3
      <3>4. a \o b = r
        <4>1. 1 \in 1..(Len(r) + 1) /\ k \in (1 - 1)..Len(r) /\ Len(r) \in k..Len(r)
          BY <3>2
        <4>2. a \o b = SubSeq(r, 1, Len(r))
          BY <3>2, <4>1, ConcatAdjacentSubSeq
        <4> QED BY <3>2, <4>2, SubSeqFull
      <3> HIDE DEF a, b
      <3>5. (o \o a) \o b = o \o r
        <4>1. (o \o a) \o b = o \o (a \o b)
          BY <3>2, <3>3, Associative
        <4> QED BY <3>4, <4>1
      <3>6. Stream(g)' = Stream(g)
        BY <1>3, <1>4, <2>1, <2>2, <3>1, <3>5 DEF o, r
      <3> QED BY <1>3, <2>1, <3>6
    <2>3. CASE g # f
      <3>1. SameConn(g) /\ fdtab[g] # fdtab[f]
        BY <1>5, <1>12, <2>1, <2>3 DEF HandsOver
      <3>2. out'[fdtab[g]] = out[fdtab[g]]
        BY <1>3, <1>6, <1>12, <2>1, <3>1 DEF HandsOver
      <3> QED BY <1>7, <2>1, <3>1, <3>2
    <2> QED BY <2>2, <2>3
  <1>13. ASSUME NEW f \in Attached, Closes(f) PROVE Whole(Stream(g)', fdtab'[g], nread')
    BY <1>7, <1>13 DEF Closes
  <1> QED BY <1>2, <1>8, <1>9, <1>10, <1>11, <1>12, <1>13 DEF Effect

\* IndInv, with what the streams need.
RelayInv == IndInv /\ Fresh /\ Counted /\ WholeStreams

\* It holds in every reachable state.
THEOREM RelayInvariance == Spec => []RelayInv
  <1>1. Init => Fresh /\ Counted /\ WholeStreams
    <2> SUFFICES ASSUME Init PROVE Fresh /\ Counted /\ WholeStreams
      OBVIOUS
    <2>1. Attached = {}
      BY DEF Init, Attached
    <2>2. Counted
      <3> SUFFICES ASSUME NEW c \in Clients PROVE nread[c] <= sent[c] /\ sent[c] <= MaxSend
        BY DEF Counted
      <3>1. sent[c] = 0 /\ nread[c] = 0
        BY DEF Init
      <3> QED BY <3>1, ChatAssumption
    <2> QED BY <2>1, <2>2 DEF Init, Fresh, WholeStreams
  <1>2. RelayInv /\ [Next]_vars => RelayInv'
    <2> SUFFICES ASSUME RelayInv, [Next]_vars PROVE RelayInv'
      OBVIOUS
    <2>1. IndInv'
      BY StepInv DEF RelayInv
    <2> QED BY <2>1, FreshStep, CountedStep, StreamStep DEF RelayInv
  <1> QED BY <1>1, <1>2, InitInv, PTL DEF Spec, RelayInv

\* Every connected client is sent whole frames of the others' units, none of them
\* lost, repeated or out of order, through any partial and interrupted writes
\* (test.c:717-731, 849-880).
THEOREM StreamsAlwaysIntact == Spec => []StreamIntact
  <1>1. RelayInv => StreamIntact
    BY WholeIsIntact DEF RelayInv
  <1> QED BY <1>1, RelayInvariance, PTL

-----------------------------------------------------------------------------
(* The server implements the relay.                                        *)

\* The abstract members and queues, connection by connection.
ByConn == Running =>
    /\ Queues = [c \in Clients |-> Queues[c]] /\ Members \subseteq Clients
    /\ \A f \in Attached : fdtab[f] \in Members /\ Queues[fdtab[f]] = Rest(f)
    /\ \A c \in Members : \E f \in Attached : fdtab[f] = c
    /\ \A c \in Clients \ Members : Queues[c] = <<>>
    /\ \A f, g \in Attached : fdtab[f] = fdtab[g] => f = g

\* It follows from the invariant.
LEMMA QueuesByConn == IndInv => ByConn
  <1> SUFFICES ASSUME IndInv, Running PROVE ByConn
    BY DEF ByConn
  <1>1. Queues = [c \in Clients |-> Queues[c]] /\ \A c \in Clients : Queues[c] = Undelivered(c)
    BY DEF Queues
  <1>2. /\ Members = {fdtab[f] : f \in Attached}
        /\ \A f \in Attached : Undelivered(fdtab[f]) = Rest(f)
        /\ \A c \in Clients \ Members : Undelivered(c) = <<>>
    BY QueueOf DEF Mapped
  <1>3. \A f \in Attached : fdtab[f] \in Clients
    BY RestType
  <1>4. \A f, g \in Attached : fdtab[f] = fdtab[g] => f = g
    BY DEF IndInv, TablesAgree
  <1>5. ASSUME NEW f \in Attached PROVE fdtab[f] \in Members /\ Queues[fdtab[f]] = Rest(f)
    BY <1>1, <1>2, <1>3
  <1>6. /\ Members \subseteq Clients /\ \A c \in Members : \E f \in Attached : fdtab[f] = c
        /\ \A c \in Clients \ Members : Queues[c] = <<>>
    BY <1>1, <1>2, <1>3
  <1> QED BY <1>1, <1>4, <1>5, <1>6 DEF ByConn

\* The same after a step.
LEMMA QueuesByConnNext == IndInv' => ByConn'
  BY QueuesByConn, PTL

\* Two abstract queues that agree client by client are the same.
LEMMA SameQueues ==
    ASSUME Queues = [c \in Clients |-> Queues[c]], Queues' = [c \in Clients |-> Queues'[c]],
           \A c \in Clients : Queues'[c] = Queues[c]
    PROVE  Queues' = Queues
  OBVIOUS

\* net_accept makes a client a member, with nothing queued for it.
LEMMA JoinsRelay ==
    ASSUME ByConn, ByConn', Running, Running', NEW f \in ConnFds, Joins(f)
    PROVE  Abstract!Next
  <1> DEFINE c == fdtab'[f]
  <1>1. f \in Attached' /\ c \in Clients /\ UNCHANGED <<nread, out>> /\ out[c] = <<>>
    BY DEF Joins
  <1>2. c \notin Members
    <2> SUFFICES ASSUME c \in Members PROVE FALSE
      OBVIOUS
    <2>1. PICK g \in Attached : fdtab[g] = c
      BY DEF ByConn
    <2>2. g # f /\ g \in Attached' /\ fdtab'[g] = c
      BY <2>1 DEF Joins, SameConn
    <2> QED BY <1>1, <2>2 DEF ByConn
  <1>3. Members' = Members \cup {c}
    BY DEF ByConn, Joins, SameConn
  <1>4. ASSUME NEW d \in Clients PROVE Queues'[d] = Queues[d]
    <2>1. CASE d = c
      BY <1>1, <1>2, <2>1 DEF ByConn, Joins
    <2>2. CASE d \in Members
      <3>1. PICK g \in Attached : fdtab[g] = d
        BY <2>2 DEF ByConn
      <3>2. g \in Attached' /\ fdtab'[g] = d /\ Rest(g)' = Rest(g)
        BY <3>1 DEF Joins, SameConn
      <3> QED BY <3>1, <3>2 DEF ByConn
    <2>3. CASE d \notin Members /\ d # c
      BY <1>3, <2>3 DEF ByConn
    <2> QED BY <2>1, <2>2, <2>3
  <1>5. Queues' = Queues
    BY <1>4, SameQueues DEF ByConn
  <1>6. Abstract!Join(c)
    BY <1>1, <1>2, <1>3, <1>5 DEF Abstract!Join
  <1> QED BY <1>1, <1>6 DEF Abstract!Next

\* Steps that change no connection's client keep the members.
LEMMA SameMembers ==
    ASSUME ByConn, ByConn', Running, Running', Attached' = Attached,
           \A g \in Attached : fdtab'[g] = fdtab[g]
    PROVE  Members' = Members
  <1>1. ASSUME NEW c \in Members PROVE c \in Members'
    <2>1. PICK f \in Attached : fdtab[f] = c
      BY DEF ByConn
    <2> QED BY <2>1 DEF ByConn
  <1>2. ASSUME NEW c \in Members' PROVE c \in Members
    <2>1. PICK f \in Attached' : fdtab'[f] = c
      BY DEF ByConn
    <2> QED BY <2>1 DEF ByConn
  <1> QED BY <1>1, <1>2

\* Steps that change no connection's client and no queue but those of C.
LEMMA OtherQueues ==
    ASSUME ByConn, ByConn', Running, Running', Attached' = Attached,
           \A g \in Attached : fdtab'[g] = fdtab[g], NEW C,
           \A g \in Attached : fdtab[g] \notin C => Rest(g)' = Rest(g)
    PROVE  Members' = Members /\ \A d \in Clients \ C : Queues'[d] = Queues[d]
  <1>1. Members' = Members
    BY SameMembers
  <1>2. ASSUME NEW d \in Clients \ C PROVE Queues'[d] = Queues[d]
    <2>1. CASE d \in Members
      <3>1. PICK g \in Attached : fdtab[g] = d
        BY <2>1 DEF ByConn
      <3> QED BY <3>1 DEF ByConn
    <2>2. CASE d \notin Members
      BY <1>1, <2>2 DEF ByConn
    <2> QED BY <2>1, <2>2
  <1> QED BY <1>1, <1>2

\* Steps inside the server are invisible.
LEMMA QuietsRelay ==
    ASSUME ByConn, ByConn', Running, Running', Quiets
    PROVE  UNCHANGED Abstract!rvars
  <1>1. Members' = Members /\ \A d \in Clients \ {} : Queues'[d] = Queues[d]
    BY OtherQueues DEF Quiets, SameConn
  <1>2. Queues' = Queues
    BY <1>1, SameQueues DEF ByConn
  <1> QED BY <1>1, <1>2 DEF Quiets, Abstract!rvars

\* A client that cannot be served gets the apology.
LEMMA RefusesRelay ==
    ASSUME ByConn, ByConn', Running, Running', NEW c \in Clients, Refuses(c)
    PROVE  Abstract!Next
  <1>1. Members' = Members /\ \A d \in Clients \ {} : Queues'[d] = Queues[d]
    BY OtherQueues DEF Refuses, SameConn
  <1>2. Queues' = Queues
    BY <1>1, SameQueues DEF ByConn
  <1>3. c \notin Members
    BY DEF ByConn, Refuses
  <1>4. Abstract!Sorry(c) = Sorry(c)
    BY DEF Abstract!Sorry, Sorry
  <1>5. Abstract!Refuse(c)
    BY <1>1, <1>2, <1>3, <1>4 DEF Refuses, Abstract!Refuse
  <1> QED BY <1>5 DEF Abstract!Next

\* exchange_data() queues the frame for every other member.
LEMMA PublishesRelay ==
    ASSUME IndInv, ByConn, ByConn', Running, Running', NEW f \in Attached, NEW n \in Nat \ {0},
           Publishes(f, n)
    PROVE  Abstract!Next
  <1> DEFINE s == fdtab[f]
             frame == Frame(s, Chunk(s, n))
             queued == <<Abstract!Header(s, n)>> \o [k \in 1..n |-> Abstract!Data(s, nread[s] + k)]
  <1>1. s \in Members /\ s \in Clients /\ nread[s] \in Nat /\ UNCHANGED out
    BY DEF ByConn, IndInv, TypeOK, Publishes
  <1>2. n \in 1..(MaxSend - nread[s]) /\ nread' = [nread EXCEPT ![s] = @ + n]
    BY <1>1, ChatAssumption DEF Publishes
  <1>3. frame = queued
    <2>1. Len(Chunk(s, n)) = n
      BY <1>1, ChunkType DEF Chunk
    <2> QED BY <2>1 DEF Frame, Chunk, Header, Data, Abstract!Header, Abstract!Data
  <1> HIDE DEF frame
  <1>4. Members' = Members
    <2>1. Attached' = Attached /\ \A g \in Attached : fdtab'[g] = fdtab[g]
      BY DEF Publishes, SameConn
    <2> QED BY <2>1, SameMembers
  <1>5. ASSUME NEW d \in Clients
        PROVE  Queues'[d] = IF d \in Members \ {s} THEN Queues[d] \o frame ELSE Queues[d]
    <2>1. CASE d \in Members \ {s}
      <3>1. PICK g \in Attached : fdtab[g] = d
        BY <2>1 DEF ByConn
      <3>2. g \in Attached' /\ fdtab'[g] = d /\ Rest(g)' = Rest(g) \o frame
        BY <2>1, <3>1 DEF Publishes, frame
      <3>3. Queues[d] = Rest(g)
        BY <3>1 DEF ByConn
      <3>4. Queues'[d] = Rest(g)'
        BY <3>2 DEF ByConn
      <3> QED BY <2>1, <3>2, <3>3, <3>4
    <2>2. CASE d = s
      <3>1. f \in Attached' /\ fdtab'[f] = d /\ Rest(f)' = Rest(f)
        BY <2>2 DEF Publishes, SameConn
      <3> QED BY <2>2, <3>1 DEF ByConn
    <2>3. CASE d \notin Members
      BY <1>4, <2>3 DEF ByConn
    <2> QED BY <2>1, <2>2, <2>3
  <1>6. Queues' = [d \in Clients |-> IF d \in Members \ {s} THEN Queues[d] \o frame ELSE Queues[d]]
    BY <1>5 DEF ByConn
  <1>7. Abstract!Publish(s, n)
    BY <1>1, <1>2, <1>3, <1>4, <1>6 DEF Abstract!Publish
  <1> QED BY <1>1, <1>2, <1>7 DEF Abstract!Next

\* write() hands over the front of a queue.
LEMMA HandsOverRelay ==
    ASSUME ByConn, ByConn', Running, Running', NEW f \in Attached, NEW k \in 1..Len(Rest(f)),
           HandsOver(f, k)
    PROVE  Abstract!Next
  <1> DEFINE c == fdtab[f]
  <1>1. c \in Members /\ c \in Clients /\ Queues[c] = Rest(f) /\ UNCHANGED nread
    BY DEF ByConn, HandsOver
  <1>2. Members' = Members /\ \A d \in Clients \ {c} : Queues'[d] = Queues[d]
    BY OtherQueues DEF HandsOver, SameConn
  <1>3. Queues'[c] = SubSeq(Queues[c], k + 1, Len(Queues[c]))
    BY <1>1 DEF ByConn, HandsOver
  <1>4. Queues' = [Queues EXCEPT ![c] = SubSeq(@, k + 1, Len(@))]
    BY <1>1, <1>2, <1>3 DEF ByConn
  <1>5. out' = [out EXCEPT ![c] = @ \o SubSeq(Queues[c], 1, k)]
    BY <1>1 DEF HandsOver
  <1>6. Abstract!HandOver(c, k)
    BY <1>1, <1>2, <1>4, <1>5 DEF Abstract!HandOver
  <1> QED BY <1>1, <1>6 DEF Abstract!Next

\* A closed connection's client leaves, and what was queued for it is dropped.
LEMMA ClosesRelay ==
    ASSUME ByConn, ByConn', Running, Running', NEW f \in Attached, Closes(f)
    PROVE  Abstract!Next
  <1> DEFINE c == fdtab[f]
  <1>1. c \in Clients /\ UNCHANGED <<nread, out>>
    BY DEF ByConn, Closes
  <1>2. Members' = Members \ {c}
    BY DEF ByConn, Closes, SameConn
  <1>3. ASSUME NEW d \in Clients
        PROVE  Queues'[d] = IF d \in {c} THEN <<>> ELSE Queues[d]
    <2>1. CASE d \in Members /\ d # c
      <3>1. PICK g \in Attached : fdtab[g] = d
        BY <2>1 DEF ByConn
      <3>2. g \in Attached' /\ fdtab'[g] = d /\ Rest(g)' = Rest(g)
        BY <2>1, <3>1 DEF Closes, SameConn
      <3> QED BY <2>1, <3>1, <3>2 DEF ByConn
    <2>2. CASE ~(d \in Members /\ d # c)
      BY <1>2, <2>2 DEF ByConn
    <2> QED BY <2>1, <2>2
  <1>4. Queues' = [d \in Clients |-> IF d \in {c} THEN <<>> ELSE Queues[d]]
    BY <1>3 DEF ByConn
  <1>5. Abstract!Leave({c})
    BY <1>1, <1>2, <1>4 DEF Abstract!Leave
  <1> QED BY <1>1, <1>5 DEF Abstract!Next

\* A process that ends drops all connections; an overrun touches none of the
\* abstract state.
LEMMA StopsRelay ==
    ASSUME IndInv, [Next]_vars, Running, ~Running'
    PROVE  Abstract!Next \/ UNCHANGED Abstract!rvars
  <1>1. CASE Shutdown
    <2>1. Attached' = {} /\ UNCHANGED <<nread, out>>
      BY <1>1 DEF Shutdown, Attached
    <2>2. Members' = {}
      BY <2>1 DEF Members
    <2>3. Queues' = [c \in Clients |-> <<>>]
      BY <2>2 DEF Queues, Undelivered
    <2>4. Members \subseteq Clients
      BY DEF Members
    <2>5. Abstract!Leave(Clients)
      BY <2>1, <2>2, <2>3, <2>4 DEF Abstract!Leave
    <2> QED BY <2>5 DEF Abstract!Next
  <1>2. CASE \E f \in ConnFds : net_read(f) /\ ReadOverruns(f)
    <2>1. UNCHANGED <<conn_list, fdtab, nread, out>> /\ pc # "write" /\ pc' # "write"
      BY <1>2 DEF net_read, ReadOverruns
    <2>2. Attached' = Attached
      BY <2>1 DEF Attached
    <2>3. \A f \in Attached : Stream(f)' = Stream(f)
      BY <2>1 DEF Stream
    <2>4. Members' = Members
      BY <2>1, <2>2 DEF Members
    <2>5. \A c \in Clients : Undelivered(c)' = Undelivered(c)
      BY <2>1 DEF Undelivered, Members, FdOf, Stream, Attached
    <2>6. Queues' = Queues
      BY <2>5 DEF Queues
    <2> QED BY <2>1, <2>4, <2>6 DEF Abstract!rvars
  <1> QED
    BY <1>1, <1>2 DEF Running, Next, Server, Stopped, Client, Connect, Send, Receive, Finish, Reset,
         sigterm_handler, CheckExit, Select, EndOfPass, net_accept, net_read, ReadData, ReadEOF,
         ReadFails, net_write, WriteDone,
         WriteStarts, WriteSkipped, WriteCopies, WriteReturns, WriteFails, vars, serverVars

\* After the end only the clients move.
LEMMA EndedRelay ==
    ASSUME [Next]_vars, ~Running
    PROVE  UNCHANGED Abstract!rvars
  <1>1. UNCHANGED <<serverVars, fdtab, nread, out>>
    BY DEF Running, Next, Server, Stopped, Client, Connect, Send, Receive, Finish, Reset,
         sigterm_handler, CheckExit, Select, EndOfPass, net_accept, net_read, net_write,
         WriteStarts, WriteSkipped, WriteCopies, WriteReturns, WriteFails, vars, serverVars
  <1>2. \A c \in Clients : Undelivered(c)' = Undelivered(c)
    BY <1>1 DEF serverVars, Undelivered, Members, FdOf, Stream, Attached, AtWrite
  <1>3. Queues' = Queues
    BY <1>2 DEF Queues
  <1>4. Members' = Members
    BY <1>1 DEF serverVars, Members, Attached
  <1> QED BY <1>1, <1>3, <1>4 DEF Abstract!rvars

\* Every step of the server is a step of the relay, or invisible to it.
LEMMA StepRelay == RelayInv /\ [Next]_vars => [Abstract!Next]_(Abstract!rvars)
  <1> SUFFICES ASSUME RelayInv, [Next]_vars PROVE Abstract!Next \/ UNCHANGED Abstract!rvars
    OBVIOUS
  <1>1. IndInv /\ Fresh /\ Counted /\ IndInv'
    BY StepInv DEF RelayInv
  <1>2. CASE ~Running
    BY <1>2, EndedRelay
  <1>3. CASE Running /\ ~Running'
    BY <1>1, <1>3, StopsRelay
  <1>4. CASE Running /\ Running'
    <2>1. Effect /\ ByConn /\ ByConn'
      BY <1>1, <1>4, StepEffect, QueuesByConn, QueuesByConnNext
    <2>2. CASE Quiets
      BY <1>4, <2>1, <2>2, QuietsRelay
    <2>3. ASSUME NEW f \in ConnFds, Joins(f) PROVE Abstract!Next
      BY <1>4, <2>1, <2>3, JoinsRelay
    <2>4. ASSUME NEW c \in Clients, Refuses(c) PROVE Abstract!Next
      BY <1>4, <2>1, <2>4, RefusesRelay
    <2>5. ASSUME NEW f \in Attached, NEW n \in Nat \ {0}, Publishes(f, n) PROVE Abstract!Next
      BY <1>1, <1>4, <2>1, <2>5, PublishesRelay
    <2>6. ASSUME NEW f \in Attached, NEW k \in 1..Len(Rest(f)), HandsOver(f, k) PROVE Abstract!Next
      BY <1>4, <2>1, <2>6, HandsOverRelay
    <2>7. ASSUME NEW f \in Attached, Closes(f) PROVE Abstract!Next
      BY <1>4, <2>1, <2>7, ClosesRelay
    <2> QED BY <2>1, <2>2, <2>3, <2>4, <2>5, <2>6, <2>7 DEF Effect
  <1> QED BY <1>2, <1>3, <1>4

\* The select() server implements the relay of module Relay: every chunk it reads
\* is queued once, with its header, for every other connected client, queues are
\* handed over in order, and only a closed connection loses what is queued
\* (test.c:608-880).
THEOREM RelayImplemented == Spec => RefinesRelay
  <1>1. Init => Abstract!Init
    <2> SUFFICES ASSUME Init PROVE Abstract!Init
      OBVIOUS
    <2>1. Attached = {}
      BY DEF Init, Attached
    <2>2. Members = {}
      BY <2>1 DEF Members
    <2>3. Queues = [c \in Clients |-> <<>>]
      BY <2>2 DEF Queues, Undelivered
    <2> QED BY <2>2, <2>3 DEF Init, Abstract!Init
  <1> QED BY <1>1, StepRelay, RelayInvariance, PTL DEF Spec, RefinesRelay, Abstract!Spec
=============================================================================
