----------------------------- MODULE ChatServer -----------------------------
(***************************************************************************)
(* The chat relay of network_programming/2012.04.14/io-multiplexing/test.c:*)
(* a single-threaded select() server that copies whatever one client sends *)
(* to every other connected client.                                        *)
(*                                                                         *)
(* Data is counted in units.  The k-th unit client c sends is Data(c, k);  *)
(* the text "[ip:port, n bytes]: " that exchange_data puts in front of a   *)
(* chunk is one unit, Header(c, n).  The buffers' sizes count units too.   *)
(*                                                                         *)
(* The kernel (descriptor table, accept queue, socket buffers, errors) and *)
(* the clients are the environment; they are modelled from how the server  *)
(* uses them, with the error codes Linux's TCP gives.                      *)
(***************************************************************************)
EXTENDS Integers, Sequences

CONSTANTS
    Clients,        \* client sockets; each connects at most once
    NULL,           \* an empty slot of global_conn_list or of the descriptor table
    Listening,      \* listening_socket
    MaxFd,          \* highest descriptor the kernel hands out (RLIMIT_NOFILE - 1)
    BUFFER_SIZE,    \* initial size of rbuf and sbuf
    Backlog,        \* third argument of the program
    SockCap,        \* units a client's socket buffers hold before write() blocks
    MaxSend,        \* bound: units each client sends
    MaxSignals,     \* bound: SIGINT, SIGTERM or SIGQUIT deliveries
    MallocFails     \* whether malloc may return NULL

ConnFds == (Listening + 1) .. MaxFd

Header(c, n) == [kind |-> "header", src |-> c, num |-> n]
Data(c, k)   == [kind |-> "data", src |-> c, num |-> k]
Sorry(c)     == [kind |-> "error", src |-> c, num |-> 0]   \* internal_server_error_message

Unit == [kind : {"header", "data", "error"}, src : Clients, num : Nat]

\* conn_t: the peer stands for ip and port, a buf_t is its payload and its size.
ConnObject == [peer : Clients, rbuf : Seq(Unit), rsize : Nat,
               sbuf : Seq(Unit), ssize : Nat]

ASSUME ChatAssumption ==
    /\ Listening \in Nat /\ MaxFd \in Nat /\ Listening < MaxFd
    /\ BUFFER_SIZE \in Nat \ {0} /\ Backlog \in Nat \ {0} /\ SockCap \in Nat \ {0}
    /\ MaxSend \in Nat /\ MaxSignals \in Nat
    /\ MallocFails \in BOOLEAN
    /\ NULL \notin Clients /\ NULL \notin ConnObject

VARIABLES
    pc,           \* where main() is: "loop" (for (;;)), "select", "scan", "write", "exited", "undefined"
    conn_list,    \* global_conn_list, for the descriptors accept() can return
    read_set,     \* global_read_set
    write_set,    \* global_write_set
    maxfd,        \* global_maxfd
    exit_flag,    \* global_exit_flag
    rset, wset,   \* what is left of select()'s results in the current pass
    wdone,        \* units the running write() has copied so far
    fdtab,        \* kernel: descriptor -> client at the other end
    backlog,      \* kernel: established connections waiting for accept()
    link,         \* state of the client's connection
    err,          \* kernel: pending socket error (sk_err) of the server's end
    sent, nread,  \* units the client has sent / the server has read
    out, got      \* units written to the client's socket / how many it has read

serverVars == <<pc, conn_list, read_set, write_set, maxfd, rset, wset, wdone>>
clientVars == <<link, err, sent, nread, out, got>>
vars == <<pc, conn_list, read_set, write_set, maxfd, exit_flag, rset, wset, wdone,
          fdtab, backlog, link, err, sent, nread, out, got>>

Running == pc \notin {"exited", "undefined"}

-----------------------------------------------------------------------------
(* What the kernel promises about a connection.                            *)

Room(c) == SockCap - (Len(out[c]) - got[c])

\* read() would return at once: data, end of file or an error is there.
Readable(c) == nread[c] < sent[c] \/ link[c] \in {"fin", "rst"}

\* write() would copy something or fail at once.
Writable(c) == Room(c) > 0 \/ link[c] = "rst"

FreeFds == {f \in ConnFds : fdtab[f] = NULL}

ReadyToRead == {f \in read_set : f <= maxfd /\ IF f = Listening
                                              THEN backlog # <<>>
                                              ELSE Readable(fdtab[f])}
ReadyToWrite == {f \in write_set : f <= maxfd /\ Writable(fdtab[f])}

\* A descriptor is registered that is not open: select() fails with EBADF.
BadFd == \E f \in read_set \cup write_set :
            f # Listening /\ f <= maxfd /\ fdtab[f] = NULL

-----------------------------------------------------------------------------
(* Clients and signals.                                                    *)

\* The three-way handshake is the kernel's: accept() comes later.
Connect(c) ==
    /\ Running /\ link[c] = "idle" /\ Len(backlog) < Backlog
    /\ link' = [link EXCEPT ![c] = "up"]
    /\ backlog' = Append(backlog, c)
    /\ UNCHANGED <<serverVars, exit_flag, fdtab, err, sent, nread, out, got>>

Send(c) ==
    /\ link[c] = "up" /\ sent[c] < MaxSend
    /\ sent' = [sent EXCEPT ![c] = @ + 1]
    /\ UNCHANGED <<serverVars, exit_flag, fdtab, backlog, link, err, nread, out, got>>

Receive(c) ==
    /\ link[c] \in {"up", "fin"} /\ got[c] < Len(out[c])
    /\ got' = [got EXCEPT ![c] = Len(out[c])]
    /\ UNCHANGED <<serverVars, exit_flag, fdtab, backlog, link, err, sent, nread, out>>

\* The client shuts its sending side down; it may go on reading.
Finish(c) ==
    /\ link[c] = "up"
    /\ link' = [link EXCEPT ![c] = "fin"]
    /\ UNCHANGED <<serverVars, exit_flag, fdtab, backlog, err, sent, nread, out, got>>

\* An RST arrives: the pending error is ECONNRESET, or EPIPE after a FIN.
Reset(c) ==
    /\ link[c] \in {"up", "fin"}
    /\ link' = [link EXCEPT ![c] = "rst"]
    /\ err' = [err EXCEPT ![c] = IF link[c] = "fin" THEN "EPIPE" ELSE "ECONNRESET"]
    /\ UNCHANGED <<serverVars, exit_flag, fdtab, backlog, sent, nread, out, got>>

-----------------------------------------------------------------------------
(* The server.                                                             *)

Init ==
    /\ pc = "loop" /\ exit_flag = 0 /\ wdone = 0
    /\ conn_list = [f \in ConnFds |-> NULL]
    /\ fdtab = [f \in ConnFds |-> NULL]
    /\ read_set = {Listening} /\ write_set = {} /\ maxfd = Listening
    /\ rset = {} /\ wset = {} /\ backlog = <<>>
    /\ link = [c \in Clients |-> "idle"] /\ err = [c \in Clients |-> "none"]
    /\ sent = [c \in Clients |-> 0] /\ nread = [c \in Clients |-> 0]
    /\ out = [c \in Clients |-> <<>>] /\ got = [c \in Clients |-> 0]

\* Both ways out of the loop: close the listening socket, destroy_conn_list(),
\* return; the kernel closes what is still open, so unsent data is lost.
Shutdown ==
    /\ pc' = "exited"
    /\ conn_list' = [f \in ConnFds |-> NULL]
    /\ fdtab' = [f \in ConnFds |-> NULL]
    /\ backlog' = <<>>
    /\ link' = [c \in Clients |-> IF link[c] = "idle" THEN "idle" ELSE "gone"]
    /\ UNCHANGED <<read_set, write_set, maxfd, exit_flag, rset, wset, wdone,
                   err, sent, nread, out, got>>

CheckExit ==
    /\ pc = "loop"
    /\ \/ exit_flag > 0 /\ Shutdown
       \/ /\ exit_flag = 0 /\ pc' = "select"
          /\ UNCHANGED <<conn_list, read_set, write_set, maxfd, exit_flag, rset, wset,
                         wdone, fdtab, backlog, clientVars>>

\* Mutant: select() without a timeout.
Select_NoTimeout ==
    /\ pc = "select" /\ ReadyToRead \cup ReadyToWrite # {}
    /\ pc' = "scan" /\ rset' = ReadyToRead /\ wset' = ReadyToWrite
    /\ UNCHANGED <<conn_list, read_set, write_set, maxfd, exit_flag, wdone,
                   fdtab, backlog, clientVars>>

\* Mutant: the pass tests global_read_set instead of select()'s copy.
Select_TestsRegistered ==
    /\ pc = "select"
    /\ pc' = IF ReadyToRead \cup ReadyToWrite = {} THEN "loop" ELSE "scan"
    /\ rset' = read_set /\ wset' = ReadyToWrite
    /\ UNCHANGED <<conn_list, read_set, write_set, maxfd, exit_flag, wdone,
                   fdtab, backlog, clientVars>>

\* select() with a one-second timeout.  EBADF breaks out of the loop; a timeout
\* runs do_extra_job(), which only prints.
Select ==
    /\ pc = "select"
    /\ IF BadFd
       THEN Shutdown
       ELSE /\ pc' = IF ReadyToRead \cup ReadyToWrite = {} THEN "loop" ELSE "scan"
            /\ rset' = ReadyToRead /\ wset' = ReadyToWrite
            /\ UNCHANGED <<conn_list, read_set, write_set, maxfd, exit_flag, wdone,
                           fdtab, backlog, clientVars>>

\* The loop over 0..global_maxfd stands at f: a bit leaves rset or wset when the
\* loop has dealt with it, and f's read bit is looked at before its write bit.
AtRead(f)  == f \in rset /\ \A g \in rset \cup wset : f <= g
AtWrite(f) == f \in wset \ rset /\ \A g \in rset \cup wset : f <= g

EndOfPass ==
    /\ pc = "scan" /\ rset \cup wset = {}
    /\ pc' = "loop"
    /\ UNCHANGED <<conn_list, read_set, write_set, maxfd, exit_flag, rset, wset,
                   wdone, fdtab, backlog, clientVars>>

conn_t(peer, rbuf, rsize, sbuf, ssize) ==
    [peer |-> peer, rbuf |-> rbuf, rsize |-> rsize, sbuf |-> sbuf, ssize |-> ssize]

init_conn_object(c) == conn_t(c, <<>>, BUFFER_SIZE, <<>>, BUFFER_SIZE)

\* Mutant: global_maxfd is forgotten.
net_register_read_NoMaxfd(f) ==
    /\ read_set' = read_set \cup {f}
    /\ UNCHANGED maxfd

\* Mutant: global_maxfd holds select()'s nfds.
net_register_read_Nfds(f) ==
    /\ read_set' = read_set \cup {f}
    /\ maxfd' = IF maxfd <= f THEN f + 1 ELSE maxfd

net_register_read(f) ==
    /\ read_set' = read_set \cup {f}
    /\ maxfd' = IF maxfd < f THEN f ELSE maxfd

\* accept() returns the lowest free descriptor; with none it fails (EMFILE).
\* The scan goes on.
AcceptFails ==
    /\ FreeFds = {}
    /\ UNCHANGED <<conn_list, read_set, maxfd, fdtab, backlog, link, out>>

AcceptSucceeds(f) ==
    LET c == Head(backlog) IN
    /\ fdtab' = [fdtab EXCEPT ![f] = c]
    /\ conn_list' = [conn_list EXCEPT ![f] = init_conn_object(c)]
    /\ net_register_read(f)
    /\ backlog' = Tail(backlog)
    /\ UNCHANGED <<link, out>>

\* No memory for the conn_t: apologise and close.
AcceptRefuses ==
    LET c == Head(backlog) IN
    /\ MallocFails
    /\ out' = [out EXCEPT ![c] = IF link[c] = "rst" THEN @ ELSE Append(@, Sorry(c))]
    /\ link' = [link EXCEPT ![c] = "gone"]
    /\ backlog' = Tail(backlog)
    /\ UNCHANGED <<conn_list, read_set, maxfd, fdtab>>

net_accept ==
    /\ pc = "scan" /\ AtRead(Listening)
    /\ \/ AcceptFails
       \/ \E f \in FreeFds : /\ \A g \in FreeFds : f <= g
                             /\ AcceptSucceeds(f) \/ AcceptRefuses
    /\ rset' = rset \ {Listening}
    /\ UNCHANGED <<pc, write_set, exit_flag, wset, wdone, err, sent, nread, got>>

\* Connection closed by peer: close(fd), destroy the conn_t, leave every set.
CloseConn(f) ==
    /\ fdtab' = [fdtab EXCEPT ![f] = NULL]
    /\ conn_list' = [conn_list EXCEPT ![f] = NULL]
    /\ read_set' = read_set \ {f}
    /\ write_set' = write_set \ {f}
    /\ link' = [link EXCEPT ![fdtab[f]] = "gone"]

\* Mutant: the call is missing.
net_register_write_Forgotten(S) == UNCHANGED <<write_set, maxfd>>

net_register_write(S) ==
    /\ write_set' = write_set \cup S
    /\ maxfd' = CHOOSE m \in S \cup {maxfd} : \A g \in S \cup {maxfd} : g <= m

\* The connections exchange_data(f) relays to.
Others(f) == {g \in ConnFds : g # f /\ conn_list[g] # NULL}

Frame(c, chunk) == <<Header(c, Len(chunk))>> \o chunk

\* Mutant: the copy starts one unit before the end of what is there.
buffered_send_OffByOne(conn, frame) ==
    LET payload == SubSeq(conn.sbuf, 1, Len(conn.sbuf) - 1) \o frame IN
    conn_t(conn.peer, conn.rbuf, conn.rsize,
           payload, IF Len(payload) > conn.ssize THEN Len(payload) ELSE conn.ssize)

\* buffered_send() of the header and of the chunk: the buffer grows to fit.
buffered_send(conn, frame) ==
    LET payload == conn.sbuf \o frame IN
    conn_t(conn.peer, conn.rbuf, conn.rsize,
           payload, IF Len(payload) > conn.ssize THEN Len(payload) ELSE conn.ssize)

\* Mutant: rbuf->payload_length is not reset.
exchange_data_KeepsPayload(f, chunk, rsize) ==
    conn_list' = [g \in ConnFds |->
                    IF g = f
                    THEN conn_t(conn_list[f].peer, chunk, rsize,
                                conn_list[f].sbuf, conn_list[f].ssize)
                    ELSE IF conn_list[g] # NULL
                         THEN buffered_send(conn_list[g], Frame(conn_list[f].peer, chunk))
                         ELSE NULL]

exchange_data(f, chunk, rsize) ==
    conn_list' = [g \in ConnFds |->
                    IF g = f
                    THEN conn_t(conn_list[f].peer, <<>>, rsize,
                                conn_list[f].sbuf, conn_list[f].ssize)
                    ELSE IF conn_list[g] # NULL
                         THEN buffered_send(conn_list[g], Frame(conn_list[f].peer, chunk))
                         ELSE NULL]

\* read() of all that has arrived and fits, then the growth of a full rbuf
\* (a failed malloc leaves it as it is), then exchange_data().
ReadCount(f) ==
    LET avail == sent[fdtab[f]] - nread[fdtab[f]]
        space == conn_list[f].rsize - Len(conn_list[f].rbuf)
    IN  IF avail < space THEN avail ELSE space

ReadData(f) ==
    LET c == fdtab[f]
        conn == conn_list[f]
        chunk == conn.rbuf \o [k \in 1..ReadCount(f) |-> Data(c, nread[c] + k)]
    IN  /\ ReadCount(f) > 0
        /\ nread' = [nread EXCEPT ![c] = @ + ReadCount(f)]
        /\ \E rsize \in {conn.rsize, 2 * conn.rsize} :
              /\ rsize = conn.rsize => Len(chunk) < conn.rsize \/ MallocFails
              /\ rsize # conn.rsize => Len(chunk) >= conn.rsize
              /\ exchange_data(f, chunk, rsize)
        /\ net_register_write(Others(f))
        /\ UNCHANGED <<pc, read_set, fdtab, link, err>>

\* buffered_send() copies into the old, too small buffer when malloc() fails:
\* a heap overrun, after which nothing is known about the process.
ReadOverruns(f) ==
    /\ MallocFails /\ ReadCount(f) > 0
    /\ \E g \in Others(f) : Len(conn_list[g].sbuf) + 1 + Len(conn_list[f].rbuf) + ReadCount(f)
                               > conn_list[g].ssize
    /\ pc' = "undefined"
    /\ UNCHANGED <<conn_list, read_set, write_set, maxfd, fdtab, link, err, nread>>

\* read() returns 0 at the end of the stream, and also when it is given no room.
ReadEOF(f) ==
    LET c == fdtab[f] IN
    /\ \/ Len(conn_list[f].rbuf) = conn_list[f].rsize
       \/ nread[c] = sent[c] /\ link[c] \in {"fin", "rst"} /\ err[c] # "ECONNRESET"
    /\ CloseConn(f)
    /\ UNCHANGED <<pc, maxfd, err, nread>>

\* Any other error: return -3 with the connection still registered.
ReadFails(f) ==
    LET c == fdtab[f] IN
    /\ nread[c] = sent[c] /\ link[c] = "rst" /\ err[c] = "ECONNRESET"
    /\ err' = [err EXCEPT ![c] = "none"]
    /\ UNCHANGED <<pc, conn_list, read_set, write_set, maxfd, fdtab, link, nread>>

net_read(f) ==
    /\ pc = "scan" /\ AtRead(f)
    /\ IF conn_list[f] = NULL
       THEN UNCHANGED <<pc, conn_list, read_set, write_set, maxfd, fdtab, link, err, nread>>
       ELSE ReadData(f) \/ ReadOverruns(f) \/ ReadEOF(f) \/ ReadFails(f)
    /\ rset' = rset \ {f}
    /\ UNCHANGED <<exit_flag, wset, wdone, backlog, sent, out, got>>

\* write() starts copying; the descriptor's bit stays in wset until it returns.
WriteStarts(f) ==
    /\ pc = "scan" /\ AtWrite(f) /\ conn_list[f] # NULL
    /\ pc' = "write" /\ wdone' = 0
    /\ UNCHANGED <<conn_list, read_set, write_set, maxfd, exit_flag, rset, wset,
                   fdtab, backlog, clientVars>>

\* The connection was closed by net_read() in this very iteration.
WriteSkipped(f) ==
    /\ pc = "scan" /\ AtWrite(f) /\ conn_list[f] = NULL
    /\ wset' = wset \ {f}
    /\ UNCHANGED <<pc, conn_list, read_set, write_set, maxfd, exit_flag, rset, wdone,
                   fdtab, backlog, clientVars>>

Unwritten(f) == Len(conn_list[f].sbuf) - wdone

WriteCopies(f) ==
    LET c == fdtab[f]
        k == IF Room(c) < Unwritten(f) THEN Room(c) ELSE Unwritten(f)
    IN  /\ pc = "write" /\ AtWrite(f) /\ link[c] # "rst"
        /\ k > 0
        /\ out' = [out EXCEPT ![c] = @ \o SubSeq(conn_list[f].sbuf, wdone + 1, wdone + k)]
        /\ wdone' = wdone + k
        /\ UNCHANGED <<pc, conn_list, read_set, write_set, maxfd, exit_flag, rset, wset,
                       fdtab, backlog, link, err, sent, nread, got>>

\* The memmove() after n units have been written.
Trim(conn, n) == conn_t(conn.peer, conn.rbuf, conn.rsize,
                        SubSeq(conn.sbuf, n + 1, Len(conn.sbuf)), conn.ssize)

\* Mutants: a short count is taken for a complete write; the write interest is
\* dropped although data is left.
WriteDone_IgnoresShortCount(f) ==
    /\ conn_list' = [conn_list EXCEPT ![f].sbuf = <<>>]
    /\ write_set' = write_set \ {f}
    /\ pc' = "scan" /\ wset' = wset \ {f} /\ wdone' = 0
    /\ UNCHANGED <<read_set, maxfd, rset, fdtab, backlog, clientVars>>
WriteDone_AlwaysUnregisters(f) ==
    /\ conn_list' = [conn_list EXCEPT ![f] = Trim(@, wdone)]
    /\ write_set' = write_set \ {f}
    /\ pc' = "scan" /\ wset' = wset \ {f} /\ wdone' = 0
    /\ UNCHANGED <<read_set, maxfd, rset, fdtab, backlog, clientVars>>

\* write() has returned n = wdone: drop what was sent, unregister when done.
WriteDone(f) ==
    /\ conn_list' = [conn_list EXCEPT ![f] = Trim(@, wdone)]
    /\ write_set' = IF Unwritten(f) = 0 THEN write_set \ {f} ELSE write_set
    /\ pc' = "scan" /\ wset' = wset \ {f} /\ wdone' = 0
    /\ UNCHANGED <<read_set, maxfd, rset, fdtab, backlog, clientVars>>

\* A reset ends a write() that has copied something with a short count.
WriteReturns(f) ==
    /\ pc = "write" /\ AtWrite(f)
    /\ \/ Unwritten(f) = 0
       \/ link[fdtab[f]] = "rst" /\ wdone > 0
    /\ WriteDone(f)
    /\ UNCHANGED exit_flag

\* EPIPE closes the connection; any other error leaves it registered.
WriteFails(f) ==
    LET c == fdtab[f] IN
    /\ pc = "write" /\ AtWrite(f)
    /\ link[c] = "rst" /\ wdone = 0 /\ Unwritten(f) > 0
    /\ pc' = "scan" /\ wset' = wset \ {f}
    /\ err' = [err EXCEPT ![c] = "none"]
    /\ \/ err[c] # "ECONNRESET" /\ CloseConn(f)
       \/ /\ err[c] = "ECONNRESET"
          /\ UNCHANGED <<fdtab, conn_list, read_set, write_set, link>>
    /\ UNCHANGED <<maxfd, exit_flag, rset, wdone, backlog, sent, nread, out, got>>

net_write(f) ==
    WriteStarts(f) \/ WriteSkipped(f) \/ WriteCopies(f) \/ WriteReturns(f) \/ WriteFails(f)

(* sigterm_handler.  The handlers are installed without SA_RESTART:        *)
(* - select() returns EINTR if it has begun to wait, and the loop goes     *)
(*   round; the signal may also come after the test of the flag and before *)
(*   select(), which then waits its second;                                *)
(* - a blocked write() that has copied something returns a short count; one*)
(*   that has copied nothing returns EINTR and is started again.           *)
Blocked(f) ==
    pc = "write" /\ AtWrite(f) /\ Room(fdtab[f]) = 0 /\ Unwritten(f) > 0
                 /\ link[fdtab[f]] # "rst"

sigterm_handler ==
    /\ Running /\ exit_flag < MaxSignals
    /\ exit_flag' = exit_flag + 1
    /\ \/ \E f \in ConnFds : Blocked(f) /\ wdone > 0 /\ WriteDone(f)
       \/ /\ pc = "select" /\ pc' = "loop"
          /\ UNCHANGED <<conn_list, read_set, write_set, maxfd, rset, wset, wdone,
                         fdtab, backlog, clientVars>>
       \/ /\ ~ \E f \in ConnFds : Blocked(f) /\ wdone > 0
          /\ UNCHANGED <<serverVars, fdtab, backlog, clientVars>>

-----------------------------------------------------------------------------
Client(c) == Connect(c) \/ Send(c) \/ Receive(c) \/ Finish(c) \/ Reset(c)

Server ==
    \/ CheckExit \/ Select \/ EndOfPass
    \/ net_accept
    \/ \E f \in ConnFds : net_read(f) \/ net_write(f)

\* The process has ended; nothing more happens on its side.
Stopped == ~Running /\ UNCHANGED vars

Next == (\E c \in Clients : Client(c)) \/ sigterm_handler \/ Server \/ Stopped

Spec == Init /\ [][Next]_vars

(* The process gets the processor; a client that has not gone away keeps     *)
(* reading its socket.  Nothing is assumed about what the clients send.      *)
Fairness == WF_vars(Server) /\ \A c \in Clients : WF_vars(Receive(c))
FairSpec == Spec /\ Fairness

-----------------------------------------------------------------------------
(* Properties.                                                             *)

Attached == {f \in ConnFds : conn_list[f] # NULL}

\* Each variable keeps to its C type, and a descriptor to its table.
TypeOK ==
    /\ pc \in {"loop", "select", "scan", "write", "exited", "undefined"}
    /\ conn_list \in [ConnFds -> ConnObject \cup {NULL}]
    /\ fdtab \in [ConnFds -> Clients \cup {NULL}]
    /\ read_set \subseteq ConnFds \cup {Listening} /\ write_set \subseteq ConnFds
    /\ rset \subseteq ConnFds \cup {Listening} /\ wset \subseteq ConnFds
    /\ maxfd \in Listening..MaxFd /\ exit_flag \in Nat /\ wdone \in Nat
    /\ backlog \in Seq(Clients)
    /\ link \in [Clients -> {"idle", "up", "fin", "rst", "gone"}]
    /\ err \in [Clients -> {"none", "ECONNRESET", "EPIPE"}]
    /\ sent \in [Clients -> Nat] /\ nread \in [Clients -> Nat]
    /\ out \in [Clients -> Seq(Unit)] /\ got \in [Clients -> Nat]

\* While the server runs, the three tables that describe the connections agree:
\* a descriptor is open exactly if it has a conn_t (of the client at its other
\* end), exactly then select() watches it for reading, and global_maxfd covers
\* it.  A closed descriptor left in a set would make select() fail with EBADF
\* and end the server (test.c:240-251).
TablesAgree ==
    Running =>
        /\ read_set = {Listening} \cup Attached
        /\ \A f \in ConnFds : fdtab[f] # NULL <=> f \in Attached
        /\ \A f \in Attached : fdtab[f] = conn_list[f].peer /\ f <= maxfd
        /\ \A f, g \in Attached : fdtab[f] = fdtab[g] => f = g

\* While the server runs, select() watches a connection for writing exactly while
\* its sbuf holds unsent data: otherwise the loop would spin on an idle
\* connection, or never send what is buffered (test.c:727, 835).
WriteInterest ==
    Running => write_set = {f \in Attached : conn_list[f].sbuf # <<>>}

\* The results of select() are still true when the pass reaches them, whatever
\* the earlier iterations accepted, closed and reused: accept() finds a queued
\* connection, read() finds data, end of file or an error, and write() something
\* to send, unless net_read has just closed the connection.  The sockets are
\* blocking, so a stale bit would hang the server (test.c:263-289).
ReadinessNotStale ==
    pc = "scan" =>
        /\ Listening \in rset => backlog # <<>>
        /\ \A f \in rset \ {Listening} : f \in Attached /\ Readable(fdtab[f])
        /\ \A f \in wset : f \in Attached => conn_list[f].sbuf # <<>>

\* As long as malloc() has not failed in buffered_send(), no payload exceeds its
\* buffer; and rbuf never is full when read() is called, even after a failed
\* malloc(), so a return value of 0 means the end of the stream (test.c:608-638).
BuffersFit ==
    \A f \in Attached : /\ Len(conn_list[f].sbuf) <= conn_list[f].ssize
                        /\ Len(conn_list[f].rbuf) < conn_list[f].rsize

\* All that client c has been or is being sent on descriptor f.
Stream(f) == LET unsent == conn_list[f].sbuf IN
    out[fdtab[f]] \o IF pc = "write" /\ AtWrite(f)
                     THEN SubSeq(unsent, wdone + 1, Len(unsent)) ELSE unsent

\* Every connected client is sent whole frames, one after the other: a header
\* that names another client and a length, and that many units of that client.
\* The units of one sender come without gap, repetition or reordering, up to the
\* last one the server has read, across partial writes, interrupted writes and
\* the growth of the buffers (test.c:849-880, 717-731).
StreamIntact ==
    Running => \A f \in Attached :
        LET s == Stream(f)
            From(c) == {p \in DOMAIN s : s[p].kind = "data" /\ s[p].src = c}
        IN  /\ \A p \in DOMAIN s : s[p].kind = "header" =>
                  /\ s[p].src # fdtab[f] /\ p + s[p].num <= Len(s)
                  /\ \A j \in 1..s[p].num : p + j \in From(s[p].src)
            /\ \A c \in Clients : \A p \in From(c) :
                  /\ \E h \in 1..(p - 1) : s[h].kind = "header" /\ p <= h + s[h].num
                  /\ s[p].num = nread[c] \/ \E q \in From(c) : q > p /\ s[q].num = s[p].num + 1

\* A slot of global_conn_list changes hands only through NULL: net_accept never
\* overwrites the conn_t of a live connection (test.c:577).
SlotFreedBeforeReuse ==
    [][\A f \in Attached : conn_list'[f] # NULL => conn_list'[f].peer = conn_list[f].peer]_vars

\* After a SIGINT, SIGTERM or SIGQUIT the server ends, also when the signal falls
\* between the test of the flag and select(), or interrupts a write().
ExitsAfterSignal == exit_flag > 0 ~> ~Running

\* What a connected client has sent is read and relayed, unless that connection
\* or the server ends first: select() keeps watching it (test.c:240, 739-747).
InputIsRelayed == \A f \in ConnFds, c \in Clients :
    fdtab[f] = c /\ nread[c] < sent[c] ~> nread[c] = sent[c] \/ fdtab[f] # c

\* What is buffered for a client is written to it, unless that connection or the
\* server ends first, though write() may block on other clients (test.c:283-288,
\* 722-734, 835-838).
OutputIsSent == \A f \in ConnFds :
    f \in Attached /\ conn_list[f].sbuf # <<>> ~> f \notin Attached \/ conn_list[f].sbuf = <<>>

\* What the server promises (module Relay): the refinement mapping forgets the
\* descriptors, the sets, select() and the progress of write().
Members == {c \in Clients : \E f \in Attached : fdtab[f] = c}
FdOf(c) == CHOOSE f \in Attached : fdtab[f] = c
Undelivered(c) ==
    IF c \notin Members THEN <<>>
    ELSE LET f == FdOf(c) IN SubSeq(Stream(f), Len(out[c]) + 1, Len(Stream(f)))

Queues == [c \in Clients |-> Undelivered(c)]

Abstract == INSTANCE Relay WITH members <- Members, taken <- nread,
                                queue <- Queues, handed <- out
RefinesRelay == Abstract!Spec
=============================================================================
