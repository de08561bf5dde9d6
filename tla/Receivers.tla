----------------------------- MODULE Receivers ------------------------------
(***************************************************************************)
(* The four receiving servers of 2012.04.16/io-multiplexing, which accept  *)
(* connections and collect what the clients send:                          *)
(*                                                                         *)
(*   "poll"      poll_test.c: a table of pollfd entries, appended to while *)
(*               it is scanned and compacted before every poll();          *)
(*   "select"    select_test.c: descriptor sets scanned in order;          *)
(*   "epoll"     epoll_test.c: no connection list, no signal handlers;     *)
(*   "epollnew"  epoll_test.new.c: epoll with a connection list.           *)
(*                                                                         *)
(* Nothing calls buffered_send(), so no program ever asks for writability. *)
(* Buffers are payload lengths and sizes, counted in units.                *)
(***************************************************************************)
EXTENDS Integers, Sequences, FiniteSets

CONSTANTS
    Programs,      \* the programs to look at
    Clients,       \* client sockets; each connects at most once
    NULL, DANGLING,
    Listening,     \* listening_socket
    MaxFd,         \* highest descriptor the kernel hands out
    TableSize,     \* entries of global_pollfd
    MaxEvents,     \* MAX_EVENTS, EPOLL_MAX_EVENTS
    BUFFER_SIZE,
    MaxAlloc,      \* largest newsize malloc() grants
    Backlog,
    MaxFaults,     \* bound: failures of create_conn_object() and epoll_ctl()
    MaxSend        \* bound: units each client sends

ConnFds == (Listening + 1) .. MaxFd
Slots == 0 .. (TableSize - 1)
Buffer == [payload : Nat, size : Nat]

ASSUME ReceiversAssumption ==
    /\ Programs \subseteq {"poll", "select", "epoll", "epollnew"}
    /\ Listening \in Nat \ {0} /\ MaxFd \in Nat /\ Listening < MaxFd
    /\ TableSize \in Nat /\ TableSize > MaxFd - Listening + 1
    /\ MaxEvents \in Nat \ {0} /\ BUFFER_SIZE \in Nat \ {0} /\ MaxAlloc \in Nat
    /\ Backlog \in Nat \ {0} /\ MaxFaults \in Nat /\ MaxSend \in Nat
    /\ {NULL, DANGLING} \cap (Clients \cup Buffer) = {} /\ NULL # DANGLING

VARIABLES
    prog,        \* which program runs
    pc,          \* "loop", "wait", "scan", "exited", "undefined"
    pollfd,      \* poll: global_pollfd, [fd, revents]
    conn_index,  \* poll: global_conn_index, entries in use
    i,           \* poll: the scan's index
    watched,     \* select, epoll: global_read_set, or what epoll watches
    maxfd,       \* select: global_maxfd
    events,      \* select, epoll: descriptors reported and not yet handled
    conn_list,   \* global_conn_list: the conn_t's rbuf, NULL, or a freed conn_t
    exit_flag,   \* global_exit_flag > 0
    fdtab,       \* kernel: descriptor -> client at the other end
    backlog,     \* kernel: connections waiting for accept()
    link,        \* state of the client's connection
    sent, nread, \* units the client has sent / the server has read
    faults

tables == <<pollfd, conn_index, watched, maxfd>>
netVars == <<fdtab, backlog, link, sent, nread>>
vars == <<prog, pc, tables, i, events, conn_list, exit_flag, netVars, faults>>

Readable(c) == nread[c] < sent[c] \/ link[c] \in {"fin", "rst"}

FreeFds == {f \in ConnFds : fdtab[f] = NULL}

\* The kernel's answer for a descriptor; poll() ignores a negative one.
Ready(f) == IF f = -1 THEN FALSE
            ELSE IF f = Listening THEN backlog # <<>> ELSE Readable(fdtab[f])

Running == pc \notin {"exited", "undefined"}

-----------------------------------------------------------------------------
(* Clients and signals.                                                    *)

Connect(c) ==
    /\ Running /\ link[c] = "idle" /\ Len(backlog) < Backlog
    /\ link' = [link EXCEPT ![c] = "up"]
    /\ backlog' = Append(backlog, c)
    /\ UNCHANGED <<prog, pc, tables, i, events, conn_list, exit_flag, fdtab, sent, nread, faults>>

Send(c) ==
    /\ Running /\ link[c] = "up" /\ sent[c] < MaxSend
    /\ sent' = [sent EXCEPT ![c] = @ + 1]
    /\ UNCHANGED <<prog, pc, tables, i, events, conn_list, exit_flag, fdtab, backlog, link, nread, faults>>

Finish(c) ==
    /\ Running /\ link[c] = "up"
    /\ \E s \in {"fin", "rst"} : link' = [link EXCEPT ![c] = s]
    /\ UNCHANGED <<prog, pc, tables, i, events, conn_list, exit_flag, fdtab, backlog, sent, nread, faults>>

\* epoll_test.c has no handler: a signal ends it, and with it the model's interest.
sigterm_handler ==
    /\ Running /\ prog # "epoll" /\ ~exit_flag
    /\ exit_flag' = TRUE
    /\ UNCHANGED <<prog, pc, tables, i, events, conn_list, netVars, faults>>

-----------------------------------------------------------------------------
(* The servers.                                                            *)

Init ==
    /\ prog \in Programs
    /\ pc = "loop" /\ i = 0 /\ events = <<>> /\ exit_flag = FALSE
    /\ pollfd = [k \in Slots |-> IF k = 0 /\ prog = "poll" THEN [fd |-> Listening, revents |-> FALSE]
                                                         ELSE [fd |-> 0, revents |-> FALSE]]
    /\ conn_index = IF prog = "poll" THEN 1 ELSE 0
    /\ watched = IF prog = "poll" THEN {} ELSE {Listening}
    /\ maxfd = IF prog = "select" THEN Listening ELSE 0
    /\ conn_list = [f \in ConnFds |-> NULL] /\ fdtab = [f \in ConnFds |-> NULL]
    /\ backlog = <<>> /\ link = [c \in Clients |-> "idle"]
    /\ sent = [c \in Clients |-> 0] /\ nread = [c \in Clients |-> 0] /\ faults = 0

\* The tables are freed, a dangling conn_t a second time.
Shutdown ==
    /\ pc = "loop" /\ exit_flag
    /\ pc' = IF \E f \in ConnFds : conn_list[f] = DANGLING THEN "undefined" ELSE "exited"
    /\ conn_list' = [f \in ConnFds |-> NULL] /\ fdtab' = [f \in ConnFds |-> NULL]
    /\ backlog' = <<>>
    /\ link' = [c \in Clients |-> IF link[c] = "idle" THEN "idle" ELSE "gone"]
    /\ UNCHANGED <<prog, tables, i, events, exit_flag, sent, nread, faults>>

\* The k-th entry in use whose connection is still open, counting from 0.
Live == {k \in 0..(conn_index - 1) : pollfd[k].fd # -1}
Rank(k) == Cardinality({j \in Live : j < k})

\* Live entries move to the front in order; the entries behind them stay as they
\* are, revents included.
re_construct_pollfd ==
    /\ pollfd' = [s \in Slots |-> IF \E k \in Live : Rank(k) = s
                                  THEN pollfd[CHOOSE k \in Live : Rank(k) = s]
                                  ELSE pollfd[s]]
    /\ conn_index' = Cardinality(Live)

\* The pass begins: global_exit_flag is not set, and poll_test.c compacts its table.
PassBegins ==
    /\ pc = "loop" /\ ~exit_flag
    /\ pc' = "wait"
    /\ IF prog = "poll" THEN re_construct_pollfd ELSE UNCHANGED <<pollfd, conn_index>>
    /\ UNCHANGED <<prog, watched, maxfd, i, events, conn_list, exit_flag, netVars, faults>>

\* poll() sets revents of the entries in use.
Poll ==
    /\ pc = "wait" /\ prog = "poll"
    /\ \E s \in 0..(conn_index - 1) : Ready(pollfd[s].fd)
    /\ pollfd' = [s \in Slots |-> IF s < conn_index
                                  THEN [pollfd[s] EXCEPT !.revents = Ready(pollfd[s].fd)]
                                  ELSE pollfd[s]]
    /\ pc' = "scan" /\ i' = 0
    /\ UNCHANGED <<prog, conn_index, watched, maxfd, events, conn_list, exit_flag, netVars, faults>>

\* Mutant: the loop tests global_read_set instead of the set select() returned.
Reported_Registered ==
    IF prog = "select" THEN {f \in watched : f <= maxfd} ELSE {f \in watched : Ready(f)}

\* What select() or epoll_wait() finds ready.
Reported == {f \in watched : Ready(f) /\ (prog = "select" => f <= maxfd)}

\* select() leaves its answer in rset, scanned upwards; epoll_wait() reports at most
\* MaxEvents descriptors in an order of its own.
Wait ==
    LET n == IF prog = "select" \/ Cardinality(Reported) < MaxEvents
             THEN Cardinality(Reported) ELSE MaxEvents
    IN  /\ pc = "wait" /\ prog # "poll" /\ Reported # {}
        /\ events' \in {s \in [1..n -> Reported] :
                          \A a, b \in 1..n : a < b => IF prog = "select" THEN s[a] < s[b] ELSE s[a] # s[b]}
        /\ pc' = "scan"
        /\ UNCHANGED <<prog, tables, i, conn_list, exit_flag, netVars, faults>>

\* Mutant: every program waits again, without a look at global_exit_flag.
TimesOut_WaitsAgain == pc = "wait" /\ Reported = {} /\ UNCHANGED vars

\* With nothing ready the call returns after a second.  In select_test.c and
\* epoll_test.new.c a signal interrupts it (EINTR) and the loop starts again;
\* poll_test.c waits again.
TimesOut ==
    /\ pc = "wait"
    /\ \/ Reported = {} /\ \A s \in 0..(conn_index - 1) : ~Ready(pollfd[s].fd)
       \/ exit_flag /\ prog \in {"select", "epollnew"}
    /\ pc' = "loop"
    /\ UNCHANGED <<prog, tables, i, events, conn_list, exit_flag, netVars, faults>>

\* The descriptor the scan is at, if it is reported as readable.
AtEvent(f) ==
    /\ pc = "scan"
    /\ IF prog = "poll" THEN i < conn_index /\ pollfd[i].revents /\ pollfd[i].fd = f
                        ELSE events # <<>> /\ Head(events) = f

Advance == IF prog = "poll" THEN i' = i + 1 /\ UNCHANGED events
                            ELSE events' = Tail(events) /\ UNCHANGED i

ScanSkips ==
    /\ pc = "scan" /\ prog = "poll" /\ i < conn_index /\ ~pollfd[i].revents
    /\ i' = i + 1
    /\ UNCHANGED <<prog, pc, tables, events, conn_list, exit_flag, netVars, faults>>

ScanEnds ==
    /\ pc = "scan" /\ IF prog = "poll" THEN i >= conn_index ELSE events = <<>>
    /\ pc' = "loop"
    /\ UNCHANGED <<prog, tables, i, events, conn_list, exit_flag, netVars, faults>>

\* Mutant: the new connection overwrites the last entry in use.
AppendPollfd_OverwritesLast(f) ==
    pollfd' = [pollfd EXCEPT ![conn_index - 1].fd = f] /\ UNCHANGED conn_index

\* A new connection takes the entry at global_conn_index; its revents is not set.
AppendPollfd(f) ==
    pollfd' = [pollfd EXCEPT ![conn_index].fd = f] /\ conn_index' = conn_index + 1

\* Mutant: global_maxfd is not raised.
net_register_read_NoMaxfd(f) == watched' = watched \cup {f} /\ UNCHANGED maxfd

net_register_read(f) ==
    /\ watched' = watched \cup {f}
    /\ maxfd' = IF prog = "select" /\ maxfd < f THEN f ELSE maxfd

Register(f) ==
    IF prog = "poll" THEN AppendPollfd(f) /\ UNCHANGED <<watched, maxfd>>
                     ELSE net_register_read(f) /\ UNCHANGED <<pollfd, conn_index>>

NewConn == IF prog = "epoll" THEN NULL ELSE [payload |-> 0, size |-> BUFFER_SIZE]

Opened(f, conn) ==
    /\ fdtab' = [fdtab EXCEPT ![f] = Head(backlog)]
    /\ conn_list' = [conn_list EXCEPT ![f] = conn]
    /\ UNCHANGED link

\* The new connection is closed again.
Refused ==
    /\ link' = [link EXCEPT ![Head(backlog)] = "gone"]
    /\ UNCHANGED <<tables, conn_list, fdtab>>

\* Nothing left for the conn_t: it is closed at once.  If only one of its buffers
\* is missing, create_conn_object() of select_test.c and epoll_test.new.c frees the
\* conn_t and returns it all the same.  If epoll_ctl() fails, epoll_test.c closes
\* the connection and epoll_test.new.c keeps it without watching it.
AcceptFaults(f) ==
    /\ faults < MaxFaults /\ faults' = faults + 1
    /\ \/ Refused
       \/ prog \in {"select", "epollnew"} /\ Opened(f, DANGLING) /\ Register(f)
       \/ prog = "epollnew" /\ Opened(f, NewConn) /\ UNCHANGED tables

\* accept() returns the lowest free descriptor, or fails when there is none.  That
\* the slot of global_conn_list is free then is TableMatches.
net_accept ==
    /\ AtEvent(Listening)
    /\ \/ FreeFds = {} /\ UNCHANGED <<tables, conn_list, fdtab, backlog, link, faults>>
       \/ \E f \in FreeFds :
             /\ \A g \in FreeFds : f <= g
             /\ backlog' = Tail(backlog)
             /\ \/ Opened(f, NewConn) /\ Register(f) /\ UNCHANGED faults
                \/ AcceptFaults(f)
    /\ Advance
    /\ UNCHANGED <<prog, pc, exit_flag, sent, nread>>

AtRead(f) == f \in ConnFds /\ AtEvent(f)

\* The room read() is given: epoll_test.c has a local buffer.
Room(f) == IF prog = "epoll" THEN BUFFER_SIZE ELSE conn_list[f].size - conn_list[f].payload

\* The program loses interest in a descriptor it has closed.
Unregister(f) ==
    /\ pollfd' = IF prog = "poll" THEN [pollfd EXCEPT ![i].fd = -1] ELSE pollfd
    /\ watched' = watched \ {f}
    /\ UNCHANGED <<conn_index, maxfd>>

\* read() returns 0 at the end of the stream, and also when it is given no room.
ReadEOF(f) ==
    LET c == fdtab[f] IN
    /\ AtRead(f) /\ conn_list[f] # DANGLING
    /\ Room(f) = 0 \/ (nread[c] = sent[c] /\ link[c] = "fin")
    /\ fdtab' = [fdtab EXCEPT ![f] = NULL]
    /\ conn_list' = [conn_list EXCEPT ![f] = NULL]
    /\ link' = [link EXCEPT ![c] = "gone"]
    /\ Unregister(f)
    /\ Advance
    /\ UNCHANGED <<prog, pc, exit_flag, backlog, sent, nread, faults>>

\* Mutant: the buffer grows only when it has already overflowed.
GrownSize_TooLate(buf, n) ==
    IF buf.payload + n > buf.size /\ 2 * buf.size <= MaxAlloc THEN 2 * buf.size ELSE buf.size

\* A full buffer doubles if malloc(newsize) succeeds; in select_test.c every read
\* doubles it.
GrownSize(buf, n) ==
    IF (prog = "select" \/ buf.payload + n >= buf.size) /\ 2 * buf.size <= MaxAlloc
    THEN 2 * buf.size ELSE buf.size

\* read() of all that has arrived and fits; nothing ever takes it out of rbuf.
ReadData(f) ==
    LET c == fdtab[f]
        avail == sent[c] - nread[c]
        n == IF avail < Room(f) THEN avail ELSE Room(f)
        buf == conn_list[f]
    IN  /\ AtRead(f) /\ conn_list[f] # DANGLING /\ n > 0
        /\ nread' = [nread EXCEPT ![c] = @ + n]
        /\ conn_list' = IF prog = "epoll" THEN conn_list
                        ELSE [conn_list EXCEPT ![f] = [payload |-> buf.payload + n,
                                                       size |-> GrownSize(buf, n)]]
        /\ Advance
        /\ UNCHANGED <<prog, pc, tables, exit_flag, fdtab, backlog, link, sent, faults>>

\* ECONNRESET is printed; the next read() returns 0.
ReadFails(f) ==
    LET c == fdtab[f] IN
    /\ AtRead(f) /\ conn_list[f] # DANGLING /\ Room(f) > 0
    /\ nread[c] = sent[c] /\ link[c] = "rst"
    /\ link' = [link EXCEPT ![c] = "fin"]
    /\ Advance
    /\ UNCHANGED <<prog, pc, tables, conn_list, exit_flag, fdtab, backlog, sent, nread, faults>>

\* Reading through a conn_t that was freed: nothing is promised from here on.
ReadDangling(f) ==
    /\ AtRead(f) /\ conn_list[f] = DANGLING
    /\ pc' = "undefined"
    /\ UNCHANGED <<prog, tables, i, events, conn_list, exit_flag, netVars, faults>>

net_read(f) == ReadEOF(f) \/ ReadData(f) \/ ReadFails(f) \/ ReadDangling(f)

Stopped == ~Running /\ UNCHANGED vars

Server == \/ Shutdown \/ PassBegins \/ Poll \/ Wait \/ TimesOut \/ ScanSkips \/ ScanEnds
          \/ net_accept \/ \E f \in ConnFds : net_read(f)

Next == \/ \E c \in Clients : Connect(c) \/ Send(c) \/ Finish(c)
        \/ sigterm_handler \/ Server \/ Stopped

Spec == Init /\ [][Next]_vars

\* epoll_wait() that reports f, among others.
WaitReports(f) == Wait /\ \E k \in DOMAIN events' : events'[k] = f

\* The server is scheduled, and epoll_wait() takes its descriptors in turn.
FairSpec == /\ Spec /\ WF_vars(Server)
            /\ \A f \in ConnFds \cup {Listening} : SF_vars(WaitReports(f))

-----------------------------------------------------------------------------
Attached == {f \in ConnFds : conn_list[f] # NULL}

\* The variables keep to their C types and tables.
TypeOK ==
    /\ prog \in Programs
    /\ pc \in {"loop", "wait", "scan", "exited", "undefined"} /\ exit_flag \in BOOLEAN
    /\ pollfd \in [Slots -> [fd : {-1, 0, Listening} \cup ConnFds, revents : BOOLEAN]]
    /\ conn_index \in (IF prog = "poll" THEN 1 ELSE 0)..TableSize /\ i \in 0..TableSize
    /\ watched \subseteq {Listening} \cup ConnFds /\ maxfd \in 0..MaxFd
    /\ events \in Seq({Listening} \cup ConnFds)
    /\ conn_list \in [ConnFds -> Buffer \cup {NULL, DANGLING}]
    /\ fdtab \in [ConnFds -> Clients \cup {NULL}] /\ backlog \in Seq(Clients)
    /\ link \in [Clients -> {"idle", "up", "fin", "rst", "gone"}]
    /\ sent \in [Clients -> Nat] /\ nread \in [Clients -> Nat] /\ faults \in 0..MaxFaults

\* How often the program asks the kernel about descriptor f.
Asked(f) == IF prog = "poll" THEN Cardinality({k \in 0..(conn_index - 1) : pollfd[k].fd = f})
            ELSE IF f \in watched /\ (prog = "select" => f <= maxfd) THEN 1 ELSE 0

\* Through accepting, closing and, in poll_test.c, appending and compaction, the
\* program asks about the listening socket and every open connection exactly once
\* and about nothing else, and its connection list has exactly the open ones
\* (poll_test.c:438-444, 478-481, 626-648; select_test.c:508-510, 550-557;
\* epoll_test.new.c:512-520, 560-563).  The exception is a connection that
\* epoll_test.new.c could not add to its epoll set.
TableMatches ==
    Running =>
        /\ Asked(Listening) = 1
        /\ \A f \in ConnFds :
              /\ fdtab[f] = NULL => Asked(f) = 0 /\ f \notin Attached
              /\ fdtab[f] # NULL => /\ Asked(f) = 1 \/ (prog = "epollnew" /\ faults > 0)
                                    /\ prog # "epoll" => f \in Attached

\* net_read() closes a connection only after its peer has closed it, as "Connection
\* closed by peer" says (poll_test.c:473, select_test.c:549, epoll_test.c:224,
\* epoll_test.new.c:559), with one exception: rbuf is full and could not grow, so
\* that read() has no room and returns 0.
ClosedOnlyByPeer ==
    [][\A f \in ConnFds :
          pc = "scan" /\ fdtab[f] # NULL /\ fdtab'[f] = NULL
            => \/ link[fdtab[f]] = "fin" /\ nread[fdtab[f]] = sent[fdtab[f]]
               \/ /\ f \in Attached /\ Room(f) = 0
                  /\ 2 * conn_list[f].size > MaxAlloc]_vars

\* Where the scan calls net_read, the connection is ready to read, as the comment
\* and the message at poll_test.c:221-230 say: read() will not block.
ReadyToRead == \A f \in ConnFds : AtRead(f) => fdtab[f] # NULL /\ Readable(fdtab[f])

\* With descriptor sets and event lists it is: nothing that happens earlier in the
\* pass, a descriptor closed and handed out again by accept() included, makes the
\* rest of the answer stale (select_test.c:268-286, epoll_test.c:170-217,
\* epoll_test.new.c:283-296).
EventsNotStale ==
    \A k \in DOMAIN events : pc = "scan" =>
        \/ events[k] = Listening /\ backlog # <<>>
        \/ events[k] \in ConnFds /\ fdtab[events[k]] # NULL /\ Readable(fdtab[events[k]])

\* poll_test.c is stuck in read().
Blocked == \E f \in ConnFds : AtRead(f) /\ ~Readable(fdtab[f])

\* A signal ends the server, in poll_test.c unless it is stuck in read()
\* (poll_test.c:172, select_test.c:223, epoll_test.new.c:244).
ExitsAfterSignal == exit_flag ~> (~Running \/ Blocked)

\* What arrives on an open connection is read, however the events are batched, unless
\* the server ends or is stuck or the connection was never added to the epoll set.
InputIsRead ==
    \A c \in Clients :
        (\E f \in ConnFds : fdtab[f] = c) /\ nread[c] < sent[c]
          ~> \/ nread[c] = sent[c] \/ link[c] = "gone" \/ ~Running \/ exit_flag \/ Blocked
             \/ (prog = "epollnew" /\ faults > 0)
=============================================================================
