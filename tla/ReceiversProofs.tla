-------------------------- MODULE ReceiversProofs ---------------------------
(***************************************************************************)
(* Proofs about the four receivers for any number of clients, descriptors, *)
(* events, units and failures: the tables match the open connections, the  *)
(* events that remain to be handled are not stale, and a connection is     *)
(* closed only after its peer or for want of room.                         *)
(***************************************************************************)
EXTENDS Receivers, FiniteSetTheorems, TLAPS

\* A client waits for accept() once and in one place, or has one descriptor.
PeersOK ==
    /\ \A k \in DOMAIN backlog : link[backlog[k]] # "idle"
    /\ \A j, k \in DOMAIN backlog : backlog[j] = backlog[k] => j = k
    /\ \A f \in ConnFds : fdtab[f] # NULL =>
          /\ link[fdtab[f]] # "idle"
          /\ \A k \in DOMAIN backlog : backlog[k] # fdtab[f]
          /\ \A g \in ConnFds : fdtab[g] = fdtab[f] => g = f

\* The connection list has exactly the open connections; epoll_test.c has no list.
ConnsOK ==
    \A f \in ConnFds :
        /\ fdtab[f] = NULL => conn_list[f] = NULL
        /\ fdtab[f] # NULL /\ prog # "epoll" => conn_list[f] # NULL
        /\ prog = "epoll" => conn_list[f] = NULL

\* A buffer that is full could not grow.
RoomOK ==
    \A f \in ConnFds : conn_list[f] \notin {NULL, DANGLING} =>
        /\ conn_list[f].payload <= conn_list[f].size
        /\ conn_list[f].payload = conn_list[f].size => 2 * conn_list[f].size > MaxAlloc

\* The entries in use are the listening socket, in front, and each open connection once.
\* Closed ones are behind the scan, and gone before the next poll().
PollOK ==
    prog = "poll" =>
        /\ events = <<>> /\ pollfd[0].fd = Listening
        /\ \A k \in Slots : k < conn_index => pollfd[k].fd \in {-1, Listening} \cup ConnFds
        /\ \A j, k \in Slots : j < conn_index /\ k < conn_index /\ pollfd[j].fd = pollfd[k].fd
                                  => j = k \/ pollfd[j].fd = -1
        /\ \A f \in ConnFds : fdtab[f] # NULL <=> \E k \in Slots : k < conn_index /\ pollfd[k].fd = f
        /\ \A k \in Slots : k < conn_index /\ pollfd[k].fd = -1 => pc = "loop" \/ (pc = "scan" /\ k < i)
        /\ pc = "scan" /\ i = 0 /\ pollfd[0].revents => backlog # <<>>

\* What select() and epoll_wait() are asked about.
WatchOK ==
    prog # "poll" =>
        /\ Listening \in watched
        /\ \A f \in ConnFds : f \in watched => fdtab[f] # NULL
        /\ \A f \in ConnFds : fdtab[f] # NULL => f \in watched \/ (prog = "epollnew" /\ faults > 0)
        /\ prog = "select" => \A f \in watched : f <= maxfd

\* The answer that is left to handle names a watched descriptor at most once.
EventsOK ==
    pc = "scan" =>
        /\ \A j, k \in DOMAIN events : events[j] = events[k] => j = k
        /\ \A k \in DOMAIN events :
              /\ events[k] \in watched
              /\ events[k] = Listening => backlog # <<>>
              /\ events[k] \in ConnFds => Readable(fdtab[events[k]])

Parts == PeersOK /\ ConnsOK /\ RoomOK /\ PollOK /\ WatchOK /\ EventsOK

IndInv == TypeOK /\ (Running => Parts)

-----------------------------------------------------------------------------
(* Sequences, descriptors and the cases of a step.                         *)

\* What is left of a sequence when its head has been dealt with.
LEMMA TailFacts ==
    ASSUME NEW S, NEW s \in Seq(S), s # <<>>
    PROVE  /\ Head(s) \in S /\ Head(s) = s[1] /\ 1 \in DOMAIN s /\ Tail(s) \in Seq(S)
           /\ \A k \in DOMAIN Tail(s) : /\ k \in Nat /\ k + 1 \in DOMAIN s /\ k + 1 # 1
                                        /\ Tail(s)[k] = s[k + 1]
<1>1. Len(s) \in Nat /\ Len(s) # 0 /\ DOMAIN s = 1..Len(s)
    OBVIOUS
<1>2. Tail(s) \in Seq(S) /\ Len(Tail(s)) = Len(s) - 1 /\ DOMAIN Tail(s) = 1..(Len(s) - 1)
    BY <1>1
<1>3. \A k \in 1..(Len(s) - 1) : Tail(s)[k] = s[k + 1]
    BY <1>1
<1> QED
    BY <1>1, <1>2, <1>3

\* What an element more does to a sequence.
LEMMA AppendFacts ==
    ASSUME NEW S, NEW s \in Seq(S), NEW e \in S
    PROVE  /\ Append(s, e) \in Seq(S) /\ Append(s, e) # <<>>
           /\ DOMAIN Append(s, e) = DOMAIN s \cup {Len(s) + 1} /\ Len(s) + 1 \notin DOMAIN s
           /\ \A k \in DOMAIN s : Append(s, e)[k] = s[k]
           /\ Append(s, e)[Len(s) + 1] = e
<1>1. Len(s) \in Nat /\ DOMAIN s = 1..Len(s)
    OBVIOUS
<1>2. Append(s, e) \in Seq(S) /\ DOMAIN Append(s, e) = 1..(Len(s) + 1) /\ Append(s, e) # <<>>
    BY <1>1
<1>3. /\ \A k \in 1..Len(s) : Append(s, e)[k] = s[k]
      /\ Append(s, e)[Len(s) + 1] = e
    BY <1>1
<1> QED
    BY <1>1, <1>2, <1>3

\* The listening socket is no connection.
LEMMA Descriptors ==
    /\ Listening \notin ConnFds /\ -1 \notin ConnFds /\ 0 \notin ConnFds
    /\ Listening # 0 /\ Listening # -1 /\ ConnFds \subseteq 0..MaxFd /\ Listening \in 0..MaxFd
    /\ 0 \in Slots
BY ReceiversAssumption DEF ConnFds, Slots

\* Steps that move the server's program counter, its index or its exit flag only.
Quiet == sigterm_handler \/ TimesOut \/ ScanSkips \/ ScanEnds

\* They leave tables, events and connections alone.
LEMMA QuietLeaves ==
    ASSUME Quiet
    PROVE  /\ UNCHANGED <<prog, pollfd, conn_index, watched, maxfd, events, conn_list>>
           /\ UNCHANGED <<fdtab, backlog, link, sent, nread, faults>>
BY DEF Quiet, sigterm_handler, TimesOut, ScanSkips, ScanEnds, tables, netVars

\* A step of a running server that goes on running.
Step == \/ \E c \in Clients : Connect(c) \/ Send(c) \/ Finish(c)
        \/ Quiet \/ PassBegins \/ Poll \/ Wait \/ net_accept
        \/ \E f \in ConnFds : ReadEOF(f) \/ ReadData(f) \/ ReadFails(f)
        \/ UNCHANGED vars

\* The server goes on running only by such a step.
LEMMA StepCases ==
    ASSUME [Next]_vars, Running'
    PROVE  Running /\ Step
<1>1. CASE UNCHANGED vars
    BY <1>1 DEF vars, Running, Step
<1>2. CASE Stopped
    BY <1>2 DEF Stopped, vars, Running
<1>3. CASE \E c \in Clients : Connect(c) \/ Send(c) \/ Finish(c)
    <2>1. PICK c \in Clients : Connect(c) \/ Send(c) \/ Finish(c)
        BY <1>3
    <2>2. Running
        BY <2>1 DEF Connect, Send, Finish
    <2>3. Step
        BY <2>1 DEF Step
    <2> QED BY <2>2, <2>3
<1>4. CASE Quiet
    BY <1>4 DEF Step, Quiet, sigterm_handler, TimesOut, ScanSkips, ScanEnds, Running
<1>5. CASE PassBegins \/ Poll \/ Wait
    BY <1>5 DEF Step, PassBegins, Poll, Wait, Running
<1>6. CASE net_accept
    BY <1>6 DEF Step, net_accept, AtEvent, Running
<1>7. CASE Shutdown
    BY <1>7 DEF Shutdown, Running
<1>8. ASSUME NEW f \in ConnFds, net_read(f)
      PROVE  Running /\ Step
    <2>1. ~ReadDangling(f)
        BY DEF ReadDangling, Running
    <2>2. ReadEOF(f) \/ ReadData(f) \/ ReadFails(f)
        BY <2>1, <1>8 DEF net_read
    <2>3. Running
        BY <2>2 DEF ReadEOF, ReadData, ReadFails, AtRead, AtEvent, Running
    <2> QED BY <2>2, <2>3 DEF Step
<1> QED
    BY <1>1, <1>2, <1>3, <1>4, <1>5, <1>6, <1>7, <1>8 DEF Next, Server, Quiet

\* The outcomes of net_accept: no descriptor left, closed at once, or opened.
AcceptNone == UNCHANGED <<pollfd, conn_index, watched, maxfd, conn_list, fdtab, backlog, link, faults>>

AcceptRefused ==
    /\ backlog' = Tail(backlog) /\ faults' = faults + 1 /\ faults < MaxFaults
    /\ link' = [link EXCEPT ![Head(backlog)] = "gone"]
    /\ UNCHANGED <<pollfd, conn_index, watched, maxfd, conn_list, fdtab>>

AcceptOpens(f, conn) ==
    /\ backlog' = Tail(backlog) /\ UNCHANGED link
    /\ faults' = faults \/ (faults < MaxFaults /\ faults' = faults + 1)
    /\ fdtab' = [fdtab EXCEPT ![f] = Head(backlog)]
    /\ conn_list' = [conn_list EXCEPT ![f] = conn]
    /\ conn \in {NewConn, DANGLING} /\ (conn = DANGLING => prog \in {"select", "epollnew"})
    /\ \/ Register(f)
       \/ /\ prog = "epollnew" /\ faults' = faults + 1
          /\ UNCHANGED <<pollfd, conn_index, watched, maxfd>>

\* net_accept has no other outcome.
LEMMA AcceptCases ==
    ASSUME net_accept
    PROVE  /\ AtEvent(Listening) /\ Advance /\ UNCHANGED <<prog, pc, exit_flag, sent, nread>>
           /\ AcceptNone \/ AcceptRefused \/ \E f \in FreeFds, conn \in {NewConn, DANGLING} : AcceptOpens(f, conn)
<1>1. AtEvent(Listening) /\ Advance /\ UNCHANGED <<prog, pc, exit_flag, sent, nread>>
    BY DEF net_accept
<1>2. CASE FreeFds = {}
    BY <1>1, <1>2 DEF net_accept, tables, AcceptNone
<1>3. NewConn # DANGLING
    BY ReceiversAssumption DEF NewConn, Buffer
<1>4. CASE FreeFds # {}
    <2>1. PICK f \in FreeFds : /\ backlog' = Tail(backlog)
                               /\ \/ Opened(f, NewConn) /\ Register(f) /\ UNCHANGED faults
                                  \/ AcceptFaults(f)
        BY <1>4 DEF net_accept
    <2>2. CASE Opened(f, NewConn) /\ Register(f) /\ UNCHANGED faults
        <3>1. AcceptOpens(f, NewConn)
            BY <1>3, <2>1, <2>2 DEF Opened, AcceptOpens
        <3> QED BY <1>1, <3>1
    <2>3. CASE AcceptFaults(f)
        <3>1. faults < MaxFaults /\ faults' = faults + 1
            BY <2>3 DEF AcceptFaults
        <3>2. CASE Refused
            BY <1>1, <2>1, <3>1, <3>2 DEF Refused, tables, AcceptRefused
        <3>3. CASE prog \in {"select", "epollnew"} /\ Opened(f, DANGLING) /\ Register(f)
            <4>1. AcceptOpens(f, DANGLING)
                BY <2>1, <3>1, <3>3 DEF Opened, AcceptOpens
            <4> QED BY <1>1, <4>1
        <3>4. CASE prog = "epollnew" /\ Opened(f, NewConn) /\ UNCHANGED tables
            <4>1. AcceptOpens(f, NewConn)
                BY <1>3, <2>1, <3>1, <3>4 DEF Opened, AcceptOpens, tables
            <4> QED BY <1>1, <4>1
        <3> QED BY <2>3, <3>2, <3>3, <3>4 DEF AcceptFaults
    <2> QED BY <2>1, <2>2, <2>3
<1> QED
    BY <1>2, <1>4

\* Where the server reads there is an open connection, and a buffer unless it is epoll_test.c.
LEMMA ReadFacts ==
    ASSUME TypeOK, Parts, NEW f \in ConnFds, AtRead(f)
    PROVE  /\ fdtab[f] \in Clients
           /\ pc = "scan"
           /\ conn_list[f] # DANGLING /\ prog # "epoll" => conn_list[f] \in Buffer
           /\ prog = "poll" => i \in Slots /\ i < conn_index /\ pollfd[i].fd = f
           /\ prog # "poll" => events # <<>> /\ Head(events) = f /\ f \in watched
<1>1. CASE prog = "poll"
    <2>1. i \in Slots /\ i < conn_index /\ pollfd[i].fd = f
        BY <1>1, ReceiversAssumption DEF AtRead, AtEvent, TypeOK, Slots
    <2>2. fdtab[f] # NULL
        BY <1>1, <2>1 DEF Parts, PollOK
    <2> QED BY <1>1, <2>1, <2>2 DEF TypeOK, Parts, ConnsOK, AtRead, AtEvent
<1>2. CASE prog # "poll"
    <2>1. events # <<>> /\ Head(events) = f
        BY <1>2 DEF AtRead, AtEvent
    <2>2. 1 \in DOMAIN events /\ events[1] = f
        BY <2>1, TailFacts DEF TypeOK
    <2>3. f \in watched
        BY <2>2 DEF Parts, EventsOK, AtRead, AtEvent
    <2>4. fdtab[f] # NULL
        BY <1>2, <2>3 DEF Parts, WatchOK
    <2> QED BY <1>2, <2>1, <2>3, <2>4 DEF TypeOK, Parts, ConnsOK, AtRead, AtEvent
<1> QED
    BY <1>1, <1>2

\* accept() is called with a connection waiting, in poll_test.c at the first entry.
LEMMA AcceptFacts ==
    ASSUME TypeOK, Parts, AtEvent(Listening)
    PROVE  /\ pc = "scan" /\ backlog # <<>> /\ Head(backlog) \in Clients /\ Head(backlog) = backlog[1]
           /\ 1 \in DOMAIN backlog /\ Tail(backlog) \in Seq(Clients)
           /\ prog = "poll" => i = 0
           /\ prog # "poll" => events # <<>> /\ Head(events) = Listening
<1>1. backlog # <<>>
    <2>1. CASE prog = "poll"
        <3>1. i \in Slots /\ i < conn_index /\ pollfd[i].fd = Listening /\ pollfd[i].revents
            BY <2>1, ReceiversAssumption DEF AtEvent, TypeOK, Slots
        <3>2. i = 0
            BY <2>1, <3>1, Descriptors, ReceiversAssumption DEF Parts, PollOK, TypeOK
        <3> QED BY <2>1, <3>1, <3>2 DEF AtEvent, Parts, PollOK
    <2>2. CASE prog # "poll"
        <3>1. 1 \in DOMAIN events /\ events[1] = Listening
            BY <2>2, TailFacts DEF AtEvent, TypeOK
        <3> QED BY <3>1 DEF AtEvent, Parts, EventsOK
    <2> QED BY <2>1, <2>2
<1>2. prog = "poll" => i = 0
    <2>1. SUFFICES ASSUME prog = "poll" PROVE i = 0
        OBVIOUS
    <2>2. i \in Slots /\ i < conn_index /\ pollfd[i].fd = Listening
        BY <2>1, ReceiversAssumption DEF AtEvent, TypeOK, Slots
    <2> QED BY <2>1, <2>2, Descriptors, ReceiversAssumption DEF Parts, PollOK, TypeOK
<1> QED
    BY <1>1, <1>2, TailFacts DEF AtEvent, TypeOK

-----------------------------------------------------------------------------
(* Counting the entries of global_pollfd.                                  *)

\* Before poll_test.c accepts there is room for one entry more: the entries are
\* different descriptors.
LEMMA PollBound ==
    ASSUME TypeOK, PollOK, prog = "poll", pc = "scan", i = 0
    PROVE  conn_index \in Slots
<1> DEFINE S == 0..(conn_index - 1)
           T == Listening..MaxFd
           h == [k \in S |-> pollfd[k].fd]
<1>1. conn_index \in Nat /\ conn_index <= TableSize /\ S \subseteq Slots /\ \A k \in S : k < conn_index
    BY ReceiversAssumption DEF TypeOK, Slots
<1>2. \A k \in S : pollfd[k].fd \in T /\ pollfd[k].fd # -1
    <2>1. \A k \in S : k \in Slots /\ k < conn_index /\ ~(k < 0)
        BY <1>1
    <2>2. \A k \in S : pollfd[k].fd # -1
        BY <2>1 DEF PollOK
    <2>3. \A k \in S : pollfd[k].fd \in {Listening} \cup ConnFds
        BY <2>1, <2>2 DEF PollOK
    <2> QED BY <2>2, <2>3, ReceiversAssumption DEF ConnFds
<1>3. h \in Injection(S, T)
    <2>1. \A j, k \in S : pollfd[j].fd = pollfd[k].fd => j = k
        BY <1>1, <1>2 DEF PollOK
    <2>2. h \in [S -> T]
        BY <1>2
    <2> QED BY <2>1, <2>2 DEF Injection, IsInjective
<1>4. IsFiniteSet(T) /\ Cardinality(T) = MaxFd - Listening + 1
    BY FS_Interval, ReceiversAssumption
<1>5. Cardinality(S) <= Cardinality(T)
    <2> HIDE DEF S, T, h
    <2> QED BY <1>3, <1>4, FS_Injection
<1>6. Cardinality(S) = conn_index
    BY <1>1, FS_Interval
<1> QED
    BY <1>1, <1>4, <1>5, <1>6, ReceiversAssumption DEF Slots

\* The ranks of the entries that stay are 0, 1, ... in order.
LEMMA Ranks ==
    ASSUME TypeOK, PollOK, prog = "poll"
    PROVE  /\ Cardinality(Live) \in 1..conn_index /\ 0 \in Live /\ Rank(0) = 0
           /\ \A k \in Live : Rank(k) \in 0..(Cardinality(Live) - 1)
           /\ \A j, k \in Live : Rank(j) = Rank(k) => j = k
           /\ \A s \in 0..(Cardinality(Live) - 1) : \E k \in Live : Rank(k) = s
<1> DEFINE Below(k) == {j \in Live : j < k}
           n == Cardinality(Live)
           r == [k \in Live |-> Rank(k)]
<1>1. conn_index \in Nat /\ conn_index >= 1 /\ Live \subseteq 0..(conn_index - 1) /\ Live \subseteq Nat
    BY DEF TypeOK, Live
<1>2. IsFiniteSet(Live) /\ n \in Nat /\ n <= conn_index
    <2>1. IsFiniteSet(0..(conn_index - 1)) /\ Cardinality(0..(conn_index - 1)) = conn_index
        BY <1>1, FS_Interval
    <2> HIDE DEF n
    <2>2. IsFiniteSet(Live) /\ Cardinality(Live) <= conn_index
        BY <1>1, <2>1, FS_Subset
    <2> QED BY <2>2, FS_CardinalityType DEF n
<1>3. 0 \in Live
    BY <1>1, Descriptors, ReceiversAssumption DEF PollOK, Live
<1>4. n # 0
    BY <1>2, <1>3, FS_EmptySet
<1>5. ASSUME NEW k \in Live
      PROVE  IsFiniteSet(Below(k)) /\ Rank(k) \in Nat /\ Rank(k) = Cardinality(Below(k)) /\ Rank(k) <= n - 1
    <2>1. Below(k) \in SUBSET (Live \ {k})
        BY <1>1
    <2>2. IsFiniteSet(Live \ {k}) /\ Cardinality(Live \ {k}) = n - 1
        BY <1>2, FS_RemoveElement
    <2>3. IsFiniteSet(Below(k)) /\ Cardinality(Below(k)) <= n - 1
        <3> HIDE DEF Below, n
        <3> QED BY <2>1, <2>2, FS_Subset
    <2>4. Cardinality(Below(k)) \in Nat
        BY <2>3, FS_CardinalityType
    <2> QED BY <2>3, <2>4 DEF Rank
<1>6. ASSUME NEW j \in Live, NEW k \in Live, j < k
      PROVE  Rank(j) < Rank(k)
    <2>1. Below(j) \cup {j} \in SUBSET Below(k) /\ j \notin Below(j)
        <3>1. \A x, y, z \in Nat : (x < y /\ y < z => x < z) /\ ~(x < x)
            OBVIOUS
        <3> QED BY <1>1, <1>6, <3>1
    <2>2. Cardinality(Below(j) \cup {j}) = Cardinality(Below(j)) + 1
        <3> HIDE DEF Below
        <3> QED BY <1>5, <2>1, FS_AddElement
    <2>3. Cardinality(Below(j) \cup {j}) <= Cardinality(Below(k))
        <3> HIDE DEF Below
        <3> QED BY <1>5, <2>1, FS_Subset
    <2> HIDE DEF Below
    <2> QED BY <1>5, <2>2, <2>3
<1>7. \A j, k \in Live : Rank(j) = Rank(k) => j = k
    <2>1. \A j, k \in Live : j < k \/ k < j \/ j = k
        BY <1>1
    <2>2. \A j, k \in Live : j < k => Rank(j) < Rank(k)
        BY <1>6
    <2>3. \A k \in Live : Rank(k) \in Nat
        BY <1>5
    <2>4. \A x, y \in Nat : x = y => ~(x < y) /\ ~(y < x)
        OBVIOUS
    <2> QED BY <2>1, <2>2, <2>3, <2>4
<1>8. \A k \in Live : Rank(k) \in 0..(n - 1)
    <2>1. \A k \in Live : Rank(k) \in Nat /\ Rank(k) <= n - 1
        BY <1>5
    <2>2. \A x \in Nat : x <= n - 1 => x \in 0..(n - 1)
        BY <1>2
    <2> QED BY <2>1, <2>2
<1>9. \A s \in 0..(n - 1) : \E k \in Live : Rank(k) = s
    <2>1. r \in Injection(Live, 0..(n - 1))
        BY <1>7, <1>8 DEF Injection, IsInjective
    <2>2. IsFiniteSet(0..(n - 1)) /\ Cardinality(0..(n - 1)) = n
        BY <1>2, FS_Interval
    <2>3. r \in Surjection(Live, 0..(n - 1))
        <3> HIDE DEF r
        <3> QED BY <2>1, <2>2, FS_Injection
    <2> QED BY <2>3 DEF Surjection
<1>10. Rank(0) = 0
    <2>1. Below(0) = {}
        <3>1. \A x \in Nat : ~(x < 0)
            OBVIOUS
        <3> QED BY <1>1, <3>1
    <2> QED BY <1>3, <1>5, <2>1, FS_EmptySet
<1> QED
    BY <1>2, <1>3, <1>4, <1>7, <1>8, <1>9, <1>10

\* Compaction drops the closed entries, keeps the others and keeps them apart.
LEMMA Compacts ==
    ASSUME TypeOK, PollOK, prog = "poll", re_construct_pollfd
    PROVE  /\ conn_index' \in 1..conn_index
           /\ pollfd' \in [Slots -> [fd : {-1, 0, Listening} \cup ConnFds, revents : BOOLEAN]]
           /\ \A s \in Slots : s < conn_index' => \E k \in Live : Rank(k) = s /\ pollfd'[s] = pollfd[k]
           /\ \A k \in Live : Rank(k) \in Slots /\ Rank(k) < conn_index' /\ pollfd'[Rank(k)] = pollfd[k]
           /\ pollfd'[0] = pollfd[0]
<1> DEFINE K(s) == CHOOSE k \in Live : Rank(k) = s
<1>1. conn_index' = Cardinality(Live) /\ conn_index' \in 1..conn_index
    BY Ranks DEF re_construct_pollfd
<1>2. conn_index \in Nat /\ conn_index <= TableSize /\ Live \subseteq Slots
    BY ReceiversAssumption DEF TypeOK, Live, Slots
<1>3. \A k \in Live : Rank(k) \in 0..(conn_index' - 1) /\ Rank(k) \in Slots
    BY <1>1, <1>2, Ranks, ReceiversAssumption DEF Slots
<1>4. ASSUME NEW s \in Slots, NEW k \in Live, Rank(k) = s
      PROVE  pollfd'[s] = pollfd[k]
    <2>1. K(s) \in Live /\ Rank(K(s)) = s
        BY <1>4
    <2>2. K(s) = k
        BY <1>4, <2>1, Ranks
    <2>3. pollfd'[s] = pollfd[K(s)]
        BY <1>4 DEF re_construct_pollfd
    <2> QED BY <2>2, <2>3
<1>5. \A s \in Slots : s < conn_index' => \E k \in Live : Rank(k) = s
    <2>1. \A s \in Slots : s < conn_index' => s \in 0..(conn_index' - 1)
        BY <1>1, <1>2, ReceiversAssumption DEF Slots
    <2> QED BY <1>1, <2>1, Ranks
<1>6. pollfd' \in [Slots -> [fd : {-1, 0, Listening} \cup ConnFds, revents : BOOLEAN]]
    <2>1. \A s \in Slots : pollfd'[s] \in {pollfd[k] : k \in Slots}
        <3> TAKE s \in Slots
        <3>1. CASE \E k \in Live : Rank(k) = s
            BY <3>1, <1>2, <1>4
        <3>2. CASE ~\E k \in Live : Rank(k) = s
            BY <3>2 DEF re_construct_pollfd
        <3> QED BY <3>1, <3>2
    <2>2. pollfd' = [s \in Slots |-> pollfd'[s]]
        BY DEF re_construct_pollfd
    <2>3. \A k \in Slots : pollfd[k] \in [fd : {-1, 0, Listening} \cup ConnFds, revents : BOOLEAN]
        BY DEF TypeOK
    <2>4. \A s \in Slots : pollfd'[s] \in [fd : {-1, 0, Listening} \cup ConnFds, revents : BOOLEAN]
        BY <2>1, <2>3
    <2> QED BY <2>2, <2>4
<1>7. pollfd'[0] = pollfd[0]
    BY <1>4, Ranks, Descriptors
<1>8. \A k \in Live : Rank(k) < conn_index'
    BY <1>1, <1>2, <1>3
<1> QED
    BY <1>1, <1>3, <1>4, <1>5, <1>6, <1>7, <1>8

\* A read takes at least one unit, no more than has arrived and no more than there is
\* room for, and the buffer takes them in.
LEMMA ReadTakes ==
    ASSUME TypeOK, Parts, NEW f \in ConnFds, ReadData(f)
    PROVE  \E n \in Nat \ {0} :
              /\ nread' = [nread EXCEPT ![fdtab[f]] = @ + n]
              /\ n <= sent[fdtab[f]] - nread[fdtab[f]]
              /\ prog = "epoll" => UNCHANGED conn_list
              /\ prog # "epoll" => \E new \in Buffer :
                    /\ conn_list[f] \in Buffer /\ n <= conn_list[f].size - conn_list[f].payload
                    /\ new = [payload |-> conn_list[f].payload + n, size |-> GrownSize(conn_list[f], n)]
                    /\ conn_list' = [conn_list EXCEPT ![f] = new]
<1> DEFINE c == fdtab[f]
           avail == sent[c] - nread[c]
           n == IF avail < Room(f) THEN avail ELSE Room(f)
<1>1. fdtab[f] \in Clients /\ (prog # "epoll" => conn_list[f] \in Buffer) /\ n > 0
    BY ReadFacts DEF ReadData
<1>2. avail \in Int /\ Room(f) \in Int
    BY <1>1, ReceiversAssumption DEF TypeOK, Room, Buffer
<1>3. n \in Nat \ {0} /\ n <= avail /\ n <= Room(f)
    BY <1>1, <1>2
<1>4. nread' = [nread EXCEPT ![c] = @ + n]
    BY DEF ReadData
<1>5. CASE prog = "epoll"
    BY <1>3, <1>4, <1>5 DEF ReadData
<1>6. CASE prog # "epoll"
    <2> DEFINE new == [payload |-> conn_list[f].payload + n, size |-> GrownSize(conn_list[f], n)]
    <2>1. conn_list' = [conn_list EXCEPT ![f] = new]
        BY <1>6 DEF ReadData
    <2>2. n <= conn_list[f].size - conn_list[f].payload
        BY <1>3, <1>6 DEF Room
    <2> HIDE DEF n
    <2>3. new \in Buffer
        BY <1>1, <1>3, <1>6, ReceiversAssumption DEF Buffer, GrownSize
    <2> HIDE DEF new
    <2>4. \E b \in Buffer :
             /\ conn_list[f] \in Buffer /\ n <= conn_list[f].size - conn_list[f].payload
             /\ b = [payload |-> conn_list[f].payload + n, size |-> GrownSize(conn_list[f], n)]
             /\ conn_list' = [conn_list EXCEPT ![f] = b]
        BY <1>1, <1>6, <2>1, <2>2, <2>3 DEF new
    <2> QED BY <1>3, <1>4, <1>6, <2>4
<1> QED
    BY <1>5, <1>6

\* select() and epoll_wait() report finitely many watched descriptors, each once.
LEMMA WaitReported ==
    ASSUME TypeOK, Wait
    PROVE  /\ \A j, k \in DOMAIN events' : events'[j] = events'[k] => j = k
           /\ \A k \in DOMAIN events' : events'[k] \in Reported
           /\ events' \in Seq({Listening} \cup ConnFds)
<1>1. Reported \subseteq 0..MaxFd /\ Reported \subseteq {Listening} \cup ConnFds
    BY Descriptors DEF Reported, TypeOK
<1>2. PICK n \in Nat : /\ events' \in [1..n -> Reported]
                       /\ \A a, b \in 1..n : a < b => IF prog = "select" THEN events'[a] < events'[b]
                                                                       ELSE events'[a] # events'[b]
    <2>1. IsFiniteSet(0..MaxFd)
        BY FS_Interval, ReceiversAssumption
    <2>2. Cardinality(Reported) \in Nat
        BY <1>1, <2>1, FS_Subset, FS_CardinalityType
    <2> QED BY <2>2, ReceiversAssumption DEF Wait
<1>3. \A a, b \in 1..n : a < b => events'[a] # events'[b]
    <2>1. \A x, y \in 0..MaxFd : x < y => x # y
        BY ReceiversAssumption
    <2> QED BY <1>1, <1>2, <2>1
<1>4. \A a, b \in 1..n : a < b \/ b < a \/ a = b
    OBVIOUS
<1>5. \A j, k \in DOMAIN events' : events'[j] = events'[k] => j = k
    BY <1>2, <1>3, <1>4
<1>6. events' \in [1..n -> {Listening} \cup ConnFds]
    BY <1>1, <1>2
<1>7. events' \in Seq({Listening} \cup ConnFds)
    BY <1>6
<1> QED
    BY <1>2, <1>5, <1>7

-----------------------------------------------------------------------------
(* The invariant holds initially and its parts are preserved.              *)

\* With no connection yet, every part of the invariant holds.
LEMMA InitInv == Init => IndInv
<1> SUFFICES ASSUME Init PROVE IndInv
    OBVIOUS
<1>1. TypeOK
    <2>1. events \in Seq({Listening} \cup ConnFds) /\ backlog \in Seq(Clients)
        BY DEF Init
    <2>2. pollfd \in [Slots -> [fd : {-1, 0, Listening} \cup ConnFds, revents : BOOLEAN]]
        BY DEF Init
    <2>3. conn_index \in (IF prog = "poll" THEN 1 ELSE 0)..TableSize /\ i \in 0..TableSize
        BY ReceiversAssumption DEF Init
    <2>4. watched \subseteq {Listening} \cup ConnFds /\ maxfd \in 0..MaxFd
        BY ReceiversAssumption DEF Init
    <2>5. /\ conn_list \in [ConnFds -> Buffer \cup {NULL, DANGLING}]
          /\ fdtab \in [ConnFds -> Clients \cup {NULL}]
        BY DEF Init
    <2>6. /\ link \in [Clients -> {"idle", "up", "fin", "rst", "gone"}] /\ faults \in 0..MaxFaults
          /\ sent \in [Clients -> Nat] /\ nread \in [Clients -> Nat]
        BY ReceiversAssumption DEF Init
    <2>7. prog \in Programs /\ pc = "loop" /\ exit_flag \in BOOLEAN
        BY DEF Init
    <2> QED BY <2>1, <2>2, <2>3, <2>4, <2>5, <2>6, <2>7 DEF TypeOK
<1>2. PeersOK /\ ConnsOK /\ RoomOK
    BY DEF Init, PeersOK, ConnsOK, RoomOK
<1>3. PollOK
    <2>1. SUFFICES ASSUME prog = "poll" PROVE PollOK
        BY DEF PollOK
    <2>2. pollfd[0].fd = Listening /\ conn_index = 1 /\ events = <<>>
        BY <2>1, Descriptors DEF Init
    <2>3. \A k \in Slots : k < 1 => k = 0
        BY ReceiversAssumption DEF Slots
    <2>4. \A f \in ConnFds : fdtab[f] = NULL
        BY DEF Init
    <2>5. pc = "loop"
        BY DEF Init
    <2>6. \A f \in ConnFds : f # Listening
        BY Descriptors
    <2> QED BY <2>1, <2>2, <2>3, <2>4, <2>5, <2>6, Descriptors DEF PollOK
<1>4. WatchOK
    BY Descriptors, ReceiversAssumption DEF Init, WatchOK
<1>5. EventsOK
    BY DEF Init, EventsOK
<1> QED
    BY <1>1, <1>2, <1>3, <1>4, <1>5 DEF IndInv, Parts

\* An entry of global_pollfd.
Entry == [fd : {-1, 0, Listening} \cup ConnFds, revents : BOOLEAN]

\* Setting the fd of one entry leaves its revents and the other entries alone.
LEMMA EntrySet ==
    ASSUME NEW tab \in [Slots -> Entry], NEW k \in Slots, NEW f \in {-1, 0, Listening} \cup ConnFds,
           NEW new, new = [tab EXCEPT ![k].fd = f]
    PROVE  /\ new \in [Slots -> Entry]
           /\ new[k].fd = f /\ new[k].revents = tab[k].revents
           /\ \A j \in Slots : j # k => new[j] = tab[j]
<1>1. tab[k] \in Entry
    OBVIOUS
<1>2. [tab[k] EXCEPT !.fd = f] \in Entry
    BY <1>1 DEF Entry
<1>3. new = [tab EXCEPT ![k] = [tab[k] EXCEPT !.fd = f]]
    OBVIOUS
<1>4. new[k] = [tab[k] EXCEPT !.fd = f] /\ \A j \in Slots : j # k => new[j] = tab[j]
    BY <1>3
<1>5. new[k].fd = f /\ new[k].revents = tab[k].revents
    BY <1>1, <1>4 DEF Entry
<1> QED
    BY <1>2, <1>3, <1>4, <1>5

\* The scan goes on to the next entry or event.
LEMMA AdvanceType ==
    ASSUME TypeOK, Advance, pc = "scan",
           prog = "poll" => i < conn_index, prog # "poll" => events # <<>>
    PROVE  i' \in 0..TableSize /\ events' \in Seq({Listening} \cup ConnFds)
<1>1. CASE prog = "poll"
    <2>1. \A x \in 0..TableSize : \A y \in 0..TableSize : x < y => x + 1 \in 0..TableSize
        BY ReceiversAssumption
    <2>2. conn_index \in 0..TableSize
        BY ReceiversAssumption DEF TypeOK
    <2> QED BY <1>1, <2>1, <2>2 DEF TypeOK, Advance
<1>2. CASE prog # "poll"
    <2>1. events \in Seq({Listening} \cup ConnFds) /\ events # <<>> /\ i \in 0..TableSize
        BY <1>2 DEF TypeOK
    <2>2. Tail(events) \in Seq({Listening} \cup ConnFds)
        BY <2>1, TailFacts
    <2> QED BY <1>2, <2>1, <2>2 DEF Advance
<1> QED
    BY <1>1, <1>2

\* Every step keeps the types: the table of poll_test.c never runs out of entries.
LEMMA TypeStep ==
    ASSUME TypeOK, Running => Parts, [Next]_vars
    PROVE  TypeOK'
<1> USE ReceiversAssumption
<1>1. CASE UNCHANGED vars \/ Stopped
    BY <1>1 DEF TypeOK, vars, Stopped, tables, netVars
<1>2. ASSUME NEW c \in Clients, Connect(c) \/ Send(c) \/ Finish(c)
      PROVE  TypeOK'
    <2>1. CASE Connect(c)
        <3>1. backlog' \in Seq(Clients)
            BY <2>1, AppendFacts DEF Connect, TypeOK
        <3> QED BY <2>1, <3>1 DEF Connect, TypeOK, tables
    <2>2. CASE Send(c)
        BY <2>2 DEF Send, TypeOK, tables
    <2>3. CASE Finish(c)
        BY <2>3 DEF Finish, TypeOK, tables
    <2> QED BY <1>2, <2>1, <2>2, <2>3
<1>3. CASE sigterm_handler \/ TimesOut \/ ScanEnds
    BY <1>3 DEF sigterm_handler, TimesOut, ScanEnds, TypeOK, tables, netVars
<1>4. CASE ScanSkips
    <2>1. \A x \in 0..TableSize : \A y \in 0..TableSize : x < y => x + 1 \in 0..TableSize
        OBVIOUS
    <2>2. conn_index \in 0..TableSize
        BY DEF TypeOK
    <2>3. i' \in 0..TableSize
        BY <1>4, <2>1, <2>2 DEF ScanSkips, TypeOK
    <2> QED BY <1>4, <2>3 DEF ScanSkips, TypeOK, tables, netVars
<1>5. CASE Shutdown
    <2>1. backlog' \in Seq(Clients)
        BY <1>5 DEF Shutdown
    <2> QED BY <1>5, <2>1 DEF Shutdown, TypeOK, tables
<1>6. CASE PassBegins
    <2>1. /\ pollfd' \in [Slots -> [fd : {-1, 0, Listening} \cup ConnFds, revents : BOOLEAN]]
          /\ conn_index' \in (IF prog = "poll" THEN 1 ELSE 0)..TableSize
        <3>1. CASE prog = "poll"
            <4>1. conn_index' \in 1..conn_index /\ conn_index \in Nat /\ conn_index <= TableSize
                BY <1>6, <3>1, Compacts DEF PassBegins, TypeOK, Parts, Running
            <4> QED BY <1>6, <3>1, <4>1, Compacts DEF PassBegins, Parts, Running
        <3>2. CASE prog # "poll"
            BY <1>6, <3>2 DEF PassBegins, TypeOK
        <3> QED BY <3>1, <3>2
    <2> QED BY <1>6, <2>1 DEF PassBegins, TypeOK, netVars
<1>7. CASE Poll
    <2>1. \A f \in {-1, 0, Listening} \cup ConnFds : Ready(f) \in BOOLEAN
        BY DEF Ready, Readable
    <2>2. ASSUME NEW s \in Slots
          PROVE  pollfd'[s] \in [fd : {-1, 0, Listening} \cup ConnFds, revents : BOOLEAN]
        <3>1. pollfd[s] \in [fd : {-1, 0, Listening} \cup ConnFds, revents : BOOLEAN]
            BY DEF TypeOK
        <3>2. pollfd'[s] = pollfd[s] \/ pollfd'[s] = [pollfd[s] EXCEPT !.revents = Ready(pollfd[s].fd)]
            BY <1>7 DEF Poll
        <3>3. Ready(pollfd[s].fd) \in BOOLEAN
            BY <2>1, <3>1
        <3> HIDE DEF TypeOK
        <3> QED BY <3>1, <3>2, <3>3
    <2>3. pollfd' = [s \in Slots |-> pollfd'[s]]
        BY <1>7 DEF Poll
    <2>4. pollfd' \in [Slots -> [fd : {-1, 0, Listening} \cup ConnFds, revents : BOOLEAN]]
        BY <2>2, <2>3
    <2>5. /\ pc' = "scan" /\ i' = 0
          /\ UNCHANGED <<prog, conn_index, watched, maxfd, events, conn_list, exit_flag>>
          /\ UNCHANGED <<fdtab, backlog, link, sent, nread, faults>>
        BY <1>7 DEF Poll, netVars
    <2>6. i' \in 0..TableSize
        BY <2>5
    <2> QED BY <2>4, <2>5, <2>6 DEF TypeOK
<1>8. CASE Wait
    <2>1. events' \in Seq({Listening} \cup ConnFds)
        BY <1>8, WaitReported
    <2> QED BY <1>8, <2>1 DEF Wait, TypeOK, tables, netVars
<1>9. CASE net_accept
    <2>1. Parts /\ pc = "scan"
        BY <1>9 DEF net_accept, AtEvent, Running
    <2>2. i' \in 0..TableSize /\ events' \in Seq({Listening} \cup ConnFds)
        BY <1>9, AdvanceType DEF net_accept, AtEvent
    <2>3. /\ Head(backlog) \in Clients /\ Tail(backlog) \in Seq(Clients)
          /\ prog = "poll" => conn_index \in Slots
        BY <1>9, <2>1, AcceptFacts, PollBound DEF net_accept, Parts
    <2>4. pollfd \in [Slots -> Entry]
        BY DEF TypeOK, Entry
    <2>5. UNCHANGED <<prog, pc, exit_flag, sent, nread>>
        BY <1>9, AcceptCases
    <2>6. CASE AcceptNone
        BY <2>2, <2>5, <2>6 DEF AcceptNone, TypeOK
    <2>7. CASE AcceptRefused
        BY <2>2, <2>3, <2>5, <2>7 DEF AcceptRefused, TypeOK
    <2>8. ASSUME NEW f \in FreeFds, NEW conn \in {NewConn, DANGLING}, AcceptOpens(f, conn)
          PROVE  TypeOK'
        <3>1. f \in ConnFds /\ f \in 0..MaxFd
            BY Descriptors DEF FreeFds
        <3>2. backlog' \in Seq(Clients) /\ faults' \in 0..MaxFaults
            BY <2>3, <2>8 DEF AcceptOpens, TypeOK
        <3>3. fdtab' \in [ConnFds -> Clients \cup {NULL}] /\ UNCHANGED link
            BY <2>3, <2>8, <3>1 DEF AcceptOpens, TypeOK
        <3>4. conn \in Buffer \cup {NULL, DANGLING}
            BY DEF NewConn, Buffer
        <3>5. conn_list' \in [ConnFds -> Buffer \cup {NULL, DANGLING}]
            BY <2>8, <3>1, <3>4 DEF AcceptOpens, TypeOK
        <3>6. CASE UNCHANGED <<pollfd, conn_index, watched, maxfd>>
            BY <2>2, <2>5, <3>2, <3>3, <3>5, <3>6 DEF TypeOK
        <3>7. CASE Register(f) /\ prog = "poll"
            <4>1. conn_index \in Slots /\ conn_index >= 1 /\ conn_index + 1 \in 1..TableSize
                BY <2>3, <3>7 DEF TypeOK, Slots
            <4>2. pollfd' = [pollfd EXCEPT ![conn_index].fd = f] /\ conn_index' \in 1..TableSize
                BY <3>7, <4>1 DEF Register, AppendPollfd
            <4>3. pollfd' \in [Slots -> Entry]
                BY <2>4, <3>1, <4>1, <4>2, EntrySet
            <4> QED BY <2>2, <2>5, <3>2, <3>3, <3>5, <3>7, <4>2, <4>3 DEF Register, TypeOK, Entry
        <3>8. CASE Register(f) /\ prog # "poll"
            <4>1. watched' \subseteq {Listening} \cup ConnFds /\ maxfd' \in 0..MaxFd /\ UNCHANGED <<pollfd, conn_index>>
                BY <3>1, <3>8 DEF Register, net_register_read, TypeOK
            <4> QED BY <2>2, <2>5, <3>2, <3>3, <3>5, <4>1 DEF TypeOK
        <3> QED BY <2>8, <3>6, <3>7, <3>8 DEF AcceptOpens
    <2> QED BY <1>9, <2>6, <2>7, <2>8, AcceptCases
<1>10. ASSUME NEW f \in ConnFds, net_read(f)
       PROVE  TypeOK'
    <2>1. Parts /\ AtRead(f)
        BY <1>10 DEF net_read, ReadEOF, ReadData, ReadFails, ReadDangling, AtRead, AtEvent, Running
    <2>2. fdtab[f] \in Clients /\ pc = "scan" /\ (conn_list[f] # DANGLING /\ prog # "epoll" => conn_list[f] \in Buffer)
        BY <2>1, ReadFacts
    <2>3. ASSUME Advance
          PROVE  i' \in 0..TableSize /\ events' \in Seq({Listening} \cup ConnFds)
        BY <2>1, <2>3, AdvanceType DEF AtRead, AtEvent
    <2>4. CASE ReadEOF(f)
        <3>1. pollfd' \in [Slots -> [fd : {-1, 0, Listening} \cup ConnFds, revents : BOOLEAN]]
            <4>1. pollfd \in [Slots -> Entry]
                BY DEF TypeOK, Entry
            <4>2. CASE prog = "poll"
                <5>1. i \in Slots
                    BY <2>1, <4>2, ReadFacts
                <5>2. pollfd' = [pollfd EXCEPT ![i].fd = -1]
                    BY <2>4, <4>2 DEF ReadEOF, Unregister
                <5>3. pollfd' \in [Slots -> Entry]
                    BY <4>1, <5>1, <5>2, EntrySet
                <5> QED BY <5>3 DEF Entry
            <4>3. CASE prog # "poll"
                BY <2>4, <4>1, <4>3 DEF ReadEOF, Unregister, Entry
            <4> QED BY <4>2, <4>3
        <3> QED BY <2>2, <2>3, <2>4, <3>1 DEF ReadEOF, Unregister, TypeOK
    <2>5. CASE ReadData(f)
        <3>1. nread' \in [Clients -> Nat]
            <4>1. PICK n \in Nat \ {0} : nread' = [nread EXCEPT ![fdtab[f]] = @ + n]
                BY <2>1, <2>5, ReadTakes
            <4>2. nread[fdtab[f]] + n \in Nat
                BY <2>2 DEF TypeOK
            <4> QED BY <4>1, <4>2 DEF TypeOK
        <3>2. conn_list' \in [ConnFds -> Buffer \cup {NULL, DANGLING}]
            <4>1. UNCHANGED conn_list \/ \E new \in Buffer : conn_list' = [conn_list EXCEPT ![f] = new]
                BY <2>1, <2>5, ReadTakes
            <4> QED BY <4>1 DEF TypeOK
        <3> QED BY <2>2, <2>3, <2>5, <3>1, <3>2 DEF ReadData, TypeOK, tables
    <2>6. CASE ReadFails(f)
        BY <2>2, <2>3, <2>6 DEF ReadFails, TypeOK, tables
    <2>7. CASE ReadDangling(f)
        BY <2>7 DEF ReadDangling, TypeOK, tables, netVars
    <2> QED BY <1>10, <2>4, <2>5, <2>6, <2>7 DEF net_read
<1> QED
    BY <1>1, <1>2, <1>3, <1>4, <1>5, <1>6, <1>7, <1>8, <1>9, <1>10 DEF Next, Server

\* What the steps other than connecting and accepting do to peers.
LEMMA PeersKept ==
    ASSUME TypeOK, PeersOK, UNCHANGED backlog,
           \A f \in ConnFds : fdtab'[f] \in {fdtab[f], NULL},
           \A c \in Clients : link[c] # "idle" => link'[c] # "idle"
    PROVE  PeersOK'
<1>1. \A k \in DOMAIN backlog : backlog[k] \in Clients
    BY DEF TypeOK
<1>2. \A f \in ConnFds : fdtab[f] \in Clients \cup {NULL}
    BY DEF TypeOK
<1> QED
    BY <1>1, <1>2 DEF PeersOK

\* connect() and accept() move a client from idle to the backlog to one descriptor.
LEMMA PeersStep ==
    ASSUME TypeOK, Parts, Step
    PROVE  PeersOK'
<1> USE DEF Parts
<1>1. ASSUME NEW c \in Clients, Connect(c)
      PROVE  PeersOK'
    <2>1. /\ backlog' = Append(backlog, c) /\ link' = [link EXCEPT ![c] = "up"] /\ UNCHANGED fdtab
          /\ link[c] = "idle" /\ backlog \in Seq(Clients)
        BY <1>1 DEF Connect, TypeOK
    <2>2. \A k \in DOMAIN backlog : backlog[k] # c
        BY <2>1 DEF PeersOK
    <2>3. \A f \in ConnFds : fdtab[f] # c
        BY <2>1, ReceiversAssumption DEF PeersOK
    <2>4. \A x \in Clients : link[x] # "idle" => link'[x] # "idle"
        BY <2>1 DEF TypeOK
    <2>5. link'[c] # "idle"
        BY <2>1 DEF TypeOK
    <2>6. /\ DOMAIN backlog' = DOMAIN backlog \cup {Len(backlog) + 1}
          /\ Len(backlog) + 1 \notin DOMAIN backlog
          /\ \A k \in DOMAIN backlog : backlog'[k] = backlog[k] /\ backlog[k] \in Clients
          /\ backlog'[Len(backlog) + 1] = c
        BY <2>1, AppendFacts
    <2>7. \A k \in DOMAIN backlog' : link'[backlog'[k]] # "idle"
        BY <2>4, <2>5, <2>6 DEF PeersOK
    <2>8. \A j, k \in DOMAIN backlog' : backlog'[j] = backlog'[k] => j = k
        BY <2>2, <2>6 DEF PeersOK
    <2>9. \A f \in ConnFds : fdtab[f] # NULL => link'[fdtab[f]] # "idle"
        BY <2>4 DEF PeersOK, TypeOK
    <2>10. \A f \in ConnFds : fdtab[f] # NULL => \A k \in DOMAIN backlog' : backlog'[k] # fdtab[f]
        BY <2>3, <2>6 DEF PeersOK
    <2> QED BY <2>1, <2>7, <2>8, <2>9, <2>10 DEF PeersOK
<1>2. ASSUME NEW c \in Clients, Send(c) \/ Finish(c)
      PROVE  PeersOK'
    <2>1. UNCHANGED <<backlog, fdtab>> /\ \A x \in Clients : link[x] # "idle" => link'[x] # "idle"
        BY <1>2 DEF Send, Finish, TypeOK
    <2> QED BY <2>1, PeersKept
<1>3. CASE Quiet \/ PassBegins \/ Poll \/ Wait \/ UNCHANGED vars
    <2>1. UNCHANGED <<backlog, fdtab, link>>
        BY <1>3, QuietLeaves DEF PassBegins, Poll, Wait, netVars, vars
    <2> QED BY <2>1, PeersKept
<1>4. CASE net_accept
    <2>1. CASE AcceptNone
        BY <2>1, PeersKept DEF AcceptNone
    <2> DEFINE c == Head(backlog)
    <2>2. /\ backlog # <<>> /\ c \in Clients /\ c = backlog[1] /\ 1 \in DOMAIN backlog
          /\ backlog \in Seq(Clients)
        BY <1>4, AcceptCases, AcceptFacts DEF TypeOK
    <2>3. \A k \in DOMAIN Tail(backlog) : k \in Nat /\ k + 1 \in DOMAIN backlog /\ k + 1 # 1 /\ Tail(backlog)[k] = backlog[k + 1]
        BY <2>2, TailFacts
    <2>4. \A k \in DOMAIN Tail(backlog) : Tail(backlog)[k] # c /\ link[Tail(backlog)[k]] # "idle" /\ Tail(backlog)[k] \in Clients
        BY <2>2, <2>3 DEF PeersOK
    <2>5. \A j, k \in DOMAIN Tail(backlog) : Tail(backlog)[j] = Tail(backlog)[k] => j = k
        <3>1. \A j, k \in Nat : j + 1 = k + 1 => j = k
            OBVIOUS
        <3> QED BY <2>3, <3>1 DEF PeersOK
    <2>6. \A f \in ConnFds : fdtab[f] # NULL => /\ \A k \in DOMAIN Tail(backlog) : Tail(backlog)[k] # fdtab[f]
                                                 /\ fdtab[f] # c /\ fdtab[f] \in Clients
        BY <2>2, <2>3 DEF PeersOK, TypeOK
    <2>7. link[c] # "idle"
        BY <2>2 DEF PeersOK
    <2>8. CASE AcceptRefused
        <3>1. backlog' = Tail(backlog) /\ UNCHANGED fdtab /\ link' = [link EXCEPT ![c] = "gone"]
            BY <2>8 DEF AcceptRefused
        <3>2. \A x \in Clients : link[x] # "idle" => link'[x] # "idle"
            BY <3>1 DEF TypeOK
        <3> HIDE DEF c
        <3> QED BY <2>4, <2>5, <2>6, <3>1, <3>2 DEF PeersOK
    <2>9. ASSUME NEW f \in FreeFds, NEW conn \in {NewConn, DANGLING}, AcceptOpens(f, conn)
          PROVE  PeersOK'
        <3>1. backlog' = Tail(backlog) /\ UNCHANGED link /\ fdtab' = [fdtab EXCEPT ![f] = c] /\ f \in ConnFds
            BY <2>9 DEF AcceptOpens, FreeFds
        <3>2. fdtab'[f] = c /\ \A g \in ConnFds : g # f => fdtab'[g] = fdtab[g]
            BY <3>1 DEF TypeOK
        <3> HIDE DEF c
        <3>3. \A g \in ConnFds : fdtab'[g] # NULL =>
                 /\ link[fdtab'[g]] # "idle"
                 /\ \A k \in DOMAIN Tail(backlog) : Tail(backlog)[k] # fdtab'[g]
            BY <2>4, <2>6, <2>7, <3>2 DEF PeersOK
        <3>4. \A g, h \in ConnFds : fdtab'[g] # NULL /\ fdtab'[h] = fdtab'[g] => h = g
            BY <2>2, <2>6, <3>2, ReceiversAssumption DEF PeersOK
        <3> QED BY <2>4, <2>5, <3>1, <3>3, <3>4 DEF PeersOK
    <2> QED BY <1>4, <2>1, <2>8, <2>9, AcceptCases
<1>5. ASSUME NEW f \in ConnFds, ReadEOF(f) \/ ReadData(f) \/ ReadFails(f)
      PROVE  PeersOK'
    <2>1. UNCHANGED backlog
        BY <1>5 DEF ReadEOF, ReadData, ReadFails
    <2>2. \A g \in ConnFds : fdtab'[g] \in {fdtab[g], NULL}
        BY <1>5 DEF ReadEOF, ReadData, ReadFails, TypeOK
    <2>3. \A x \in Clients : link[x] # "idle" => link'[x] # "idle"
        BY <1>5 DEF ReadEOF, ReadData, ReadFails, TypeOK
    <2> QED BY <2>1, <2>2, <2>3, PeersKept
<1> QED
    BY <1>1, <1>2, <1>3, <1>4, <1>5 DEF Step

\* accept() fills the slot of the connection list, closing clears it, reading keeps it.
LEMMA ConnsStep ==
    ASSUME TypeOK, Parts, Step
    PROVE  ConnsOK'
<1> USE DEF Parts
<1>1. CASE UNCHANGED <<prog, fdtab, conn_list>>
    BY <1>1 DEF ConnsOK
<1>2. ASSUME NEW c \in Clients, Connect(c) \/ Send(c) \/ Finish(c)
      PROVE  UNCHANGED <<prog, fdtab, conn_list>>
    BY <1>2 DEF Connect, Send, Finish
<1>3. CASE Quiet \/ PassBegins \/ Poll \/ Wait \/ UNCHANGED vars
    BY <1>1, <1>3, QuietLeaves DEF PassBegins, Poll, Wait, netVars, vars
<1>4. CASE net_accept
    <2>1. CASE AcceptNone \/ AcceptRefused
        BY <1>1, <1>4, <2>1, AcceptCases DEF AcceptNone, AcceptRefused
    <2>2. ASSUME NEW f \in FreeFds, NEW conn \in {NewConn, DANGLING}, AcceptOpens(f, conn)
          PROVE  ConnsOK'
        <3>1. Head(backlog) \in Clients /\ Head(backlog) # NULL /\ UNCHANGED prog
            BY <1>4, AcceptCases, AcceptFacts, ReceiversAssumption
        <3>2. f \in ConnFds /\ (prog # "epoll" => conn # NULL) /\ (prog = "epoll" => conn = NULL)
            BY <2>2, ReceiversAssumption DEF AcceptOpens, FreeFds, NewConn, Buffer
        <3>3. fdtab'[f] = Head(backlog) /\ conn_list'[f] = conn
            BY <2>2, <3>2 DEF AcceptOpens, TypeOK
        <3>4. \A g \in ConnFds : g # f => fdtab'[g] = fdtab[g] /\ conn_list'[g] = conn_list[g]
            BY <2>2, <3>2 DEF AcceptOpens, TypeOK
        <3> QED BY <3>1, <3>2, <3>3, <3>4 DEF ConnsOK
    <2> QED BY <1>4, <2>1, <2>2, AcceptCases
<1>5. ASSUME NEW f \in ConnFds, ReadEOF(f)
      PROVE  ConnsOK'
    BY <1>5 DEF ReadEOF, ConnsOK, TypeOK
<1>6. ASSUME NEW f \in ConnFds, ReadData(f)
      PROVE  ConnsOK'
    <2>1. UNCHANGED <<prog, fdtab>> /\ AtRead(f)
        BY <1>6 DEF ReadData
    <2>2. CASE prog = "epoll"
        BY <1>1, <1>6, <2>1, <2>2 DEF ReadData
    <2>3. CASE prog # "epoll"
        <3>1. PICK buf \in Buffer : conn_list' = [conn_list EXCEPT ![f] = buf]
            BY <1>6, <2>3, ReadTakes
        <3>2. fdtab[f] # NULL /\ buf # NULL
            BY <2>1, ReadFacts, ReceiversAssumption
        <3>3. conn_list'[f] = buf /\ \A g \in ConnFds : g # f => conn_list'[g] = conn_list[g]
            BY <3>1 DEF TypeOK
        <3> QED BY <2>1, <2>3, <3>2, <3>3 DEF ConnsOK
    <2> QED BY <2>2, <2>3
<1>7. ASSUME NEW f \in ConnFds, ReadFails(f)
      PROVE  ConnsOK'
    BY <1>1, <1>7 DEF ReadFails
<1> QED
    BY <1>1, <1>2, <1>3, <1>4, <1>5, <1>6, <1>7 DEF Step

\* A read that fills the buffer doubles it unless malloc() refuses.
LEMMA RoomStep ==
    ASSUME TypeOK, Parts, Step
    PROVE  RoomOK'
<1> USE DEF Parts
<1>1. CASE UNCHANGED conn_list
    BY <1>1 DEF RoomOK
<1>2. ASSUME NEW c \in Clients, Connect(c) \/ Send(c) \/ Finish(c)
      PROVE  UNCHANGED conn_list
    BY <1>2 DEF Connect, Send, Finish
<1>3. CASE Quiet \/ PassBegins \/ Poll \/ Wait \/ UNCHANGED vars
    BY <1>1, <1>3, QuietLeaves DEF PassBegins, Poll, Wait, netVars, vars
<1>4. CASE net_accept
    <2>1. CASE AcceptNone \/ AcceptRefused
        BY <1>1, <2>1 DEF AcceptNone, AcceptRefused
    <2>2. ASSUME NEW f \in FreeFds, NEW conn \in {NewConn, DANGLING}, AcceptOpens(f, conn)
          PROVE  RoomOK'
        <3>1. conn \notin {NULL, DANGLING} => conn = [payload |-> 0, size |-> BUFFER_SIZE]
            BY DEF NewConn
        <3>2. conn \notin {NULL, DANGLING} => conn.payload < conn.size /\ conn.payload # conn.size
            BY <3>1, ReceiversAssumption
        <3>3. conn \notin {NULL, DANGLING} => conn.payload <= conn.size
            BY <3>1, ReceiversAssumption
        <3>4. conn_list'[f] = conn /\ \A g \in ConnFds : g # f => conn_list'[g] = conn_list[g]
            BY <2>2 DEF AcceptOpens, FreeFds, TypeOK
        <3> QED BY <3>2, <3>3, <3>4 DEF RoomOK
    <2> QED BY <1>4, <2>1, <2>2, AcceptCases
<1>5. ASSUME NEW f \in ConnFds, ReadEOF(f)
      PROVE  RoomOK'
    BY <1>5 DEF ReadEOF, RoomOK, TypeOK
<1>6. ASSUME NEW f \in ConnFds, ReadData(f)
      PROVE  RoomOK'
    <2>1. CASE prog = "epoll"
        BY <1>1, <1>6, <2>1, ReadTakes
    <2>2. CASE prog # "epoll"
        <3> DEFINE buf == conn_list[f]
        <3>1. PICK n \in Nat \ {0}, new \in Buffer :
                 /\ buf \in Buffer /\ n <= buf.size - buf.payload
                 /\ new = [payload |-> buf.payload + n, size |-> GrownSize(buf, n)]
                 /\ conn_list' = [conn_list EXCEPT ![f] = new]
            BY <1>6, <2>2, ReadTakes
        <3> HIDE DEF buf
        <3>2. new.payload <= new.size /\ (new.payload = new.size => 2 * new.size > MaxAlloc)
            <4>1. buf.payload \in Nat /\ buf.size \in Nat /\ new.payload = buf.payload + n /\ new.size = GrownSize(buf, n)
                BY <3>1 DEF Buffer
            <4>2. CASE new.size = 2 * buf.size
                BY <3>1, <4>1, <4>2
            <4>3. CASE new.size # 2 * buf.size
                BY <3>1, <4>1, <4>3, ReceiversAssumption DEF GrownSize
            <4> QED BY <4>2, <4>3
        <3>3. conn_list'[f] = new /\ \A g \in ConnFds : g # f => conn_list'[g] = conn_list[g]
            BY <3>1 DEF TypeOK
        <3> QED BY <3>2, <3>3 DEF RoomOK
    <2> QED BY <2>1, <2>2
<1>7. ASSUME NEW f \in ConnFds, ReadFails(f)
      PROVE  RoomOK'
    BY <1>1, <1>7 DEF ReadFails
<1> QED
    BY <1>1, <1>2, <1>3, <1>4, <1>5, <1>6, <1>7 DEF Step

\* Registering and closing keep the watched set equal to the open connections.
LEMMA WatchStep ==
    ASSUME TypeOK, Parts, Step
    PROVE  WatchOK'
<1> USE DEF Parts
<1>1. CASE UNCHANGED <<prog, fdtab, watched, maxfd, faults>>
    BY <1>1 DEF WatchOK
<1>2. ASSUME NEW c \in Clients, Connect(c) \/ Send(c) \/ Finish(c)
      PROVE  UNCHANGED <<prog, fdtab, watched, maxfd, faults>>
    BY <1>2 DEF Connect, Send, Finish, tables
<1>3. CASE Quiet \/ PassBegins \/ Poll \/ Wait \/ UNCHANGED vars
    BY <1>1, <1>3, QuietLeaves DEF PassBegins, Poll, Wait, netVars, tables, vars
<1>4. CASE net_accept
    <2>1. UNCHANGED prog /\ Head(backlog) # NULL
        BY <1>4, AcceptCases, AcceptFacts, ReceiversAssumption
    <2>2. CASE AcceptNone
        BY <1>1, <2>1, <2>2 DEF AcceptNone
    <2>3. CASE AcceptRefused
        BY <2>1, <2>3 DEF AcceptRefused, WatchOK, TypeOK
    <2>4. ASSUME NEW f \in FreeFds, NEW conn \in {NewConn, DANGLING}, AcceptOpens(f, conn), prog # "poll"
          PROVE  WatchOK'
        <3>1. f \in ConnFds /\ fdtab'[f] # NULL /\ \A g \in ConnFds : g # f => fdtab'[g] = fdtab[g]
            BY <2>1, <2>4 DEF AcceptOpens, FreeFds, TypeOK
        <3>2. faults > 0 => faults' > 0
            BY <2>4 DEF AcceptOpens, TypeOK
        <3>3. CASE Register(f)
            <4>1. watched' = watched \cup {f} /\ maxfd' = IF prog = "select" /\ maxfd < f THEN f ELSE maxfd
                BY <2>4, <3>3 DEF Register, net_register_read
            <4>2. prog = "select" => \A g \in watched' : g <= maxfd'
                <5>1. \A g \in watched' : g \in Nat /\ maxfd \in Nat /\ f \in Nat
                    BY <3>1, <4>1, Descriptors DEF TypeOK
                <5> QED BY <2>4, <4>1, <5>1 DEF WatchOK
            <4> QED BY <2>1, <2>4, <3>1, <3>2, <4>1, <4>2 DEF WatchOK
        <3>4. CASE prog = "epollnew" /\ faults' = faults + 1 /\ UNCHANGED <<pollfd, conn_index, watched, maxfd>>
            <4>1. faults' > 0
                BY <3>4 DEF TypeOK
            <4> QED BY <2>1, <2>4, <3>1, <3>4, <4>1 DEF WatchOK
        <3> QED BY <2>4, <3>3, <3>4 DEF AcceptOpens
    <2>5. CASE prog = "poll"
        BY <2>1, <2>5 DEF WatchOK
    <2> QED BY <1>4, <2>2, <2>3, <2>4, <2>5, AcceptCases
<1>5. ASSUME NEW f \in ConnFds, ReadEOF(f)
      PROVE  WatchOK'
    <2>1. f # Listening
        BY Descriptors
    <2> QED BY <1>5, <2>1 DEF ReadEOF, Unregister, WatchOK, TypeOK
<1>6. ASSUME NEW f \in ConnFds, ReadData(f) \/ ReadFails(f)
      PROVE  WatchOK'
    BY <1>1, <1>6 DEF ReadData, ReadFails, tables
<1> QED
    BY <1>1, <1>2, <1>3, <1>4, <1>5, <1>6 DEF Step

\* A program stays what it is.
LEMMA ProgKept ==
    ASSUME Step
    PROVE  UNCHANGED prog
<1>1. ASSUME NEW c \in Clients, Connect(c) \/ Send(c) \/ Finish(c)
      PROVE  UNCHANGED prog
    BY <1>1 DEF Connect, Send, Finish
<1>2. CASE Quiet \/ PassBegins \/ Poll \/ Wait \/ UNCHANGED vars \/ net_accept
    BY <1>2, QuietLeaves, AcceptCases DEF PassBegins, Poll, Wait, vars
<1>3. ASSUME NEW f \in ConnFds, ReadEOF(f) \/ ReadData(f) \/ ReadFails(f)
      PROVE  UNCHANGED prog
    BY <1>3 DEF ReadEOF, ReadData, ReadFails
<1> QED
    BY <1>1, <1>2, <1>3 DEF Step

\* What keeps the table of poll_test.c as it is.
LEMMA PollKept ==
    ASSUME TypeOK, PollOK, prog = "poll", UNCHANGED <<prog, pollfd, conn_index, fdtab, events>>,
           pc' = "loop" \/ (pc' = pc /\ i' = i /\ (backlog # <<>> => backlog' # <<>>))
              \/ (pc = "scan" /\ pc' = "scan" /\ i' = i + 1)
    PROVE  PollOK'
<1>1. \A k \in Slots : k \in Nat /\ i \in Nat
    BY ReceiversAssumption DEF Slots, TypeOK
<1>2. \A k \in Slots : k < conn_index /\ pollfd[k].fd = -1 => pc' = "loop" \/ (pc' = "scan" /\ k < i')
    BY <1>1 DEF PollOK
<1>3. pc' = "scan" /\ i' = 0 /\ pollfd[0].revents => backlog' # <<>>
    BY <1>1, Descriptors DEF PollOK
<1> QED
    BY <1>2, <1>3 DEF PollOK

\* Appending, closing, compacting and polling keep the table of poll_test.c.
LEMMA PollStep ==
    ASSUME TypeOK, Parts, Step
    PROVE  PollOK'
<1> USE DEF Parts
<1>1. UNCHANGED prog
    BY ProgKept
<1>2. SUFFICES ASSUME prog = "poll" PROVE PollOK'
    BY <1>1 DEF PollOK
<1>3. ASSUME NEW c \in Clients, Connect(c) \/ Send(c) \/ Finish(c)
      PROVE  PollOK'
    <2>1. backlog # <<>> => backlog' # <<>>
        BY <1>3, AppendFacts DEF Connect, Send, Finish, TypeOK
    <2>2. UNCHANGED <<prog, pollfd, conn_index, fdtab, events, pc, i>>
        BY <1>3 DEF Connect, Send, Finish, tables
    <2> QED BY <1>2, <2>1, <2>2, PollKept
<1>4. CASE Quiet
    <2>1. /\ UNCHANGED <<prog, pollfd, conn_index, fdtab, events, backlog>>
          /\ pc' = "loop" \/ (pc' = pc /\ i' = i) \/ (pc = "scan" /\ pc' = "scan" /\ i' = i + 1)
        BY <1>4, QuietLeaves DEF Quiet, sigterm_handler, TimesOut, ScanSkips, ScanEnds
    <2> QED BY <1>2, <2>1, PollKept
<1>5. CASE UNCHANGED vars
    BY <1>2, <1>5, PollKept DEF vars, tables, netVars
<1>6. CASE PassBegins
    <2>1. /\ re_construct_pollfd /\ UNCHANGED <<prog, events, fdtab>> /\ pc' = "wait"
        BY <1>2, <1>6 DEF PassBegins, netVars
    <2>2. /\ \A s \in Slots : s < conn_index' => \E k \in Live : Rank(k) = s /\ pollfd'[s] = pollfd[k]
          /\ \A k \in Live : Rank(k) \in Slots /\ Rank(k) < conn_index' /\ pollfd'[Rank(k)] = pollfd[k]
          /\ pollfd'[0] = pollfd[0]
        BY <1>2, <2>1, Compacts
    <2>3. \A k \in Live : k \in Slots /\ k < conn_index /\ pollfd[k].fd # -1
        BY ReceiversAssumption DEF Live, Slots, TypeOK
    <2>4. \A k \in Slots : k < conn_index /\ pollfd[k].fd # -1 => k \in Live
        BY ReceiversAssumption DEF Live, Slots, TypeOK
    <2>5. \A s \in Slots : s < conn_index' => pollfd'[s].fd \in {Listening} \cup ConnFds /\ pollfd'[s].fd # -1
        BY <1>2, <2>2, <2>3 DEF PollOK
    <2>6. \A s, t \in Slots : s < conn_index' /\ t < conn_index' /\ pollfd'[s].fd = pollfd'[t].fd => s = t
        <3> SUFFICES ASSUME NEW s \in Slots, NEW t \in Slots, s < conn_index', t < conn_index',
                            pollfd'[s].fd = pollfd'[t].fd
                     PROVE  s = t
            OBVIOUS
        <3>1. PICK j \in Live : Rank(j) = s /\ pollfd'[s] = pollfd[j]
            BY <2>2
        <3>2. PICK k \in Live : Rank(k) = t /\ pollfd'[t] = pollfd[k]
            BY <2>2
        <3>3. j = k
            BY <1>2, <2>3, <3>1, <3>2 DEF PollOK
        <3> QED BY <3>1, <3>2, <3>3
    <2>7. \A f \in ConnFds : fdtab[f] # NULL <=> \E s \in Slots : s < conn_index' /\ pollfd'[s].fd = f
        <3> TAKE f \in ConnFds
        <3>1. fdtab[f] # NULL <=> \E k \in Live : pollfd[k].fd = f
            BY <1>2, <2>3, <2>4, Descriptors DEF PollOK
        <3>2. (\E k \in Live : pollfd[k].fd = f) <=> \E s \in Slots : s < conn_index' /\ pollfd'[s].fd = f
            BY <2>2
        <3> QED BY <3>1, <3>2
    <2>8. pollfd'[0].fd = Listening /\ events' = <<>>
        BY <1>2, <2>1, <2>2 DEF PollOK
    <2>9. fdtab' = fdtab /\ pc' # "scan" /\ prog' = "poll"
        BY <1>2, <2>1
    <2> QED BY <2>5, <2>6, <2>7, <2>8, <2>9 DEF PollOK
<1>7. CASE Poll
    <2>1. pc = "wait" /\ UNCHANGED <<prog, conn_index, fdtab, events, backlog>> /\ pc' = "scan" /\ i' = 0
        BY <1>7 DEF Poll, netVars
    <2>2. \A s \in Slots : pollfd'[s].fd = pollfd[s].fd
        BY <1>7 DEF Poll, TypeOK
    <2>3. 0 \in Slots /\ 0 < conn_index
        BY <1>2, Descriptors DEF TypeOK
    <2>4. pollfd'[0].revents = Ready(Listening)
        BY <1>2, <1>7, <2>3 DEF Poll, TypeOK, PollOK
    <2>5. Ready(Listening) <=> backlog # <<>>
        BY Descriptors DEF Ready
    <2>6. \A k \in Slots : k < conn_index => pollfd[k].fd # -1
        BY <1>2, <2>1 DEF PollOK
    <2>7. pc' = "scan" /\ i' = 0 /\ pollfd'[0].revents => backlog' # <<>>
        BY <2>1, <2>4, <2>5
    <2> QED BY <1>2, <2>1, <2>2, <2>3, <2>6, <2>7 DEF PollOK
<1>8. CASE Wait
    BY <1>2, <1>8 DEF Wait
<1>9. CASE net_accept
    <2>1. i = 0 /\ pc = "scan" /\ UNCHANGED <<prog, pc, events>> /\ i' = i + 1 /\ i \in Nat
        BY <1>2, <1>9, AcceptCases, AcceptFacts DEF Advance
    <2>2. CASE AcceptNone \/ AcceptRefused
        BY <1>2, <2>1, <2>2, PollKept DEF AcceptNone, AcceptRefused
    <2>3. ASSUME NEW f \in FreeFds, NEW conn \in {NewConn, DANGLING}, AcceptOpens(f, conn)
          PROVE  PollOK'
        <3>1. f \in ConnFds /\ fdtab[f] = NULL /\ Head(backlog) # NULL
            BY <1>9, AcceptCases, AcceptFacts, ReceiversAssumption DEF FreeFds
        <3>2. fdtab'[f] # NULL /\ \A g \in ConnFds : g # f => fdtab'[g] = fdtab[g]
            BY <2>3, <3>1 DEF AcceptOpens, TypeOK
        <3>3. conn_index \in Slots /\ conn_index \in Nat /\ conn_index >= 1
            BY <1>2, <2>1, PollBound DEF TypeOK
        <3>4. pollfd' = [pollfd EXCEPT ![conn_index].fd = f] /\ conn_index' = conn_index + 1
            BY <1>2, <2>3 DEF AcceptOpens, Register, AppendPollfd
        <3>5. pollfd'[conn_index].fd = f /\ \A k \in Slots : k # conn_index => pollfd'[k] = pollfd[k]
            <4>1. pollfd \in [Slots -> Entry]
                BY DEF TypeOK, Entry
            <4> QED BY <3>1, <3>3, <3>4, <4>1, EntrySet
        <3>6. \A k \in Slots : k < conn_index' <=> k < conn_index \/ k = conn_index
            BY <3>3, <3>4, ReceiversAssumption DEF Slots
        <3>7. \A k \in Slots : k < conn_index => k # conn_index /\ pollfd[k].fd # f
            BY <1>2, <3>1, <3>3, Descriptors DEF PollOK
        <3>8. \A k \in Slots : k < conn_index => pollfd[k].fd # -1
            <4>1. \A k \in Slots : ~(k < i)
                BY <2>1, ReceiversAssumption DEF Slots
            <4> QED BY <1>2, <2>1, <4>1 DEF PollOK
        <3>9. 0 \in Slots /\ 0 # conn_index
            BY <3>3, Descriptors
        <3>10. events' = <<>> /\ pollfd'[0].fd = Listening
            BY <1>2, <2>1, <3>5, <3>9 DEF PollOK
        <3>11. \A k \in Slots : k < conn_index' => pollfd'[k].fd \in {Listening} \cup ConnFds /\ pollfd'[k].fd # -1
            BY <1>2, <3>1, <3>5, <3>6, <3>7, <3>8, Descriptors DEF PollOK
        <3>12. \A j, k \in Slots : j < conn_index' /\ k < conn_index' /\ pollfd'[j].fd = pollfd'[k].fd => j = k
            BY <1>2, <3>5, <3>6, <3>7, <3>8 DEF PollOK
        <3>13. \A g \in ConnFds : fdtab'[g] # NULL <=> \E k \in Slots : k < conn_index' /\ pollfd'[k].fd = g
            <4>1. \A g \in ConnFds : g # f =>
                     ((\E k \in Slots : k < conn_index' /\ pollfd'[k].fd = g)
                        <=> \E k \in Slots : k < conn_index /\ pollfd[k].fd = g)
                BY <3>5, <3>6, <3>7
            <4>2. \E k \in Slots : k < conn_index' /\ pollfd'[k].fd = f
                BY <3>3, <3>5, <3>6
            <4> QED BY <1>2, <3>2, <4>1, <4>2 DEF PollOK
        <3>14. i' # 0
            BY <2>1
        <3> QED BY <3>10, <3>11, <3>12, <3>13, <3>14 DEF PollOK
    <2> QED BY <1>9, <2>2, <2>3, AcceptCases
<1>10. ASSUME NEW f \in ConnFds, ReadEOF(f)
       PROVE  PollOK'
    <2>1. /\ pc = "scan" /\ UNCHANGED <<prog, pc, events, conn_index>> /\ i' = i + 1
          /\ i \in Slots /\ i \in Nat /\ i < conn_index /\ pollfd[i].fd = f
        BY <1>2, <1>10, ReadFacts DEF ReadEOF, Unregister, Advance, TypeOK
    <2>2. fdtab'[f] = NULL /\ \A g \in ConnFds : g # f => fdtab'[g] = fdtab[g]
        BY <1>10 DEF ReadEOF, TypeOK
    <2>3. pollfd'[i].fd = -1 /\ \A k \in Slots : k # i => pollfd'[k] = pollfd[k]
        <3>1. pollfd \in [Slots -> Entry]
            BY DEF TypeOK, Entry
        <3>2. pollfd' = [pollfd EXCEPT ![i].fd = -1]
            BY <1>2, <1>10 DEF ReadEOF, Unregister
        <3> QED BY <2>1, <3>1, <3>2, EntrySet
    <2>4. i # 0 /\ 0 \in Slots
        BY <1>2, <2>1, Descriptors DEF PollOK
    <2>5. events' = <<>> /\ pollfd'[0].fd = Listening
        BY <1>2, <2>1, <2>3, <2>4 DEF PollOK
    <2>6. \A k \in Slots : k < conn_index => pollfd'[k].fd \in {-1, Listening} \cup ConnFds
        BY <1>2, <2>1, <2>3 DEF PollOK
    <2>7. \A j, k \in Slots : j < conn_index /\ k < conn_index /\ pollfd'[j].fd = pollfd'[k].fd
                                 => j = k \/ pollfd'[j].fd = -1
        BY <1>2, <2>1, <2>3 DEF PollOK
    <2>8. \A g \in ConnFds : fdtab'[g] # NULL <=> \E k \in Slots : k < conn_index /\ pollfd'[k].fd = g
        <3>1. \A g \in ConnFds : g # f =>
                 ((\E k \in Slots : k < conn_index /\ pollfd'[k].fd = g)
                    <=> \E k \in Slots : k < conn_index /\ pollfd[k].fd = g)
            BY <2>1, <2>3, Descriptors
        <3>2. \A k \in Slots : k < conn_index => pollfd'[k].fd # f
            BY <1>2, <2>1, <2>3, Descriptors DEF PollOK
        <3> QED BY <1>2, <2>2, <3>1, <3>2 DEF PollOK
    <2>9. \A k \in Slots : k < conn_index /\ pollfd'[k].fd = -1 => k < i'
        <3>1. \A k \in Slots : k < i => k < i + 1
            BY <2>1, ReceiversAssumption DEF Slots
        <3>2. i < i + 1
            BY <2>1
        <3> QED BY <1>2, <2>1, <2>3, <3>1, <3>2 DEF PollOK
    <2>10. i' # 0 /\ pc' = "scan"
        BY <2>1
    <2> QED BY <2>1, <2>5, <2>6, <2>7, <2>8, <2>9, <2>10 DEF PollOK
<1>11. ASSUME NEW f \in ConnFds, ReadData(f) \/ ReadFails(f)
       PROVE  PollOK'
    <2>1. /\ pc = "scan" /\ pc' = "scan" /\ i' = i + 1
          /\ UNCHANGED <<prog, pollfd, conn_index, fdtab, events>>
        BY <1>2, <1>11 DEF ReadData, ReadFails, AtRead, AtEvent, Advance, tables
    <2> QED BY <1>2, <2>1, PollKept
<1> QED
    BY <1>3, <1>4, <1>5, <1>6, <1>7, <1>8, <1>9, <1>10, <1>11 DEF Step

\* The events left when the first has been handled are others.
LEMMA EventsLeft ==
    ASSUME TypeOK, EventsOK, pc = "scan", prog # "poll", Advance, events # <<>>
    PROVE  /\ \A j, k \in DOMAIN events' : events'[j] = events'[k] => j = k
           /\ \A k \in DOMAIN events' : \E m \in DOMAIN events : events'[k] = events[m] /\ events[m] # Head(events)
<1>1. events' = Tail(events) /\ events \in Seq({Listening} \cup ConnFds)
    BY DEF Advance, TypeOK
<1>2. /\ Head(events) = events[1] /\ 1 \in DOMAIN events
      /\ \A k \in DOMAIN Tail(events) : /\ k \in Nat /\ k + 1 \in DOMAIN events /\ k + 1 # 1
                                        /\ Tail(events)[k] = events[k + 1]
    BY <1>1, TailFacts
<1>3. \A j, k \in Nat : j + 1 = k + 1 => j = k
    OBVIOUS
<1>4. \A j, k \in DOMAIN events' : events'[j] = events'[k] => j = k
    BY <1>1, <1>2, <1>3 DEF EventsOK
<1>5. \A k \in DOMAIN events' : events'[k] = events[k + 1] /\ events[k + 1] # Head(events)
    BY <1>1, <1>2 DEF EventsOK
<1> QED
    BY <1>1, <1>2, <1>4, <1>5

\* Whatever one event does, it leaves the readiness of the events behind it alone.
LEMMA EventsStep ==
    ASSUME TypeOK, Parts, Step, PollOK', UNCHANGED prog
    PROVE  EventsOK'
<1> USE DEF Parts
<1>1. SUFFICES ASSUME pc' = "scan" PROVE EventsOK'
    BY DEF EventsOK
<1>2. CASE prog = "poll"
    BY <1>2 DEF PollOK, EventsOK
<1>3. SUFFICES ASSUME prog # "poll" PROVE EventsOK'
    BY <1>2
<1>4. \A f \in ConnFds : f \in watched => fdtab[f] \in Clients
    BY <1>3 DEF WatchOK, TypeOK
<1>5. CASE UNCHANGED <<pc, events, watched, backlog, fdtab, link, sent, nread>>
    BY <1>5 DEF EventsOK, Readable
<1>6. ASSUME NEW c \in Clients, Connect(c) \/ Send(c) \/ Finish(c)
      PROVE  EventsOK'
    <2>1. UNCHANGED <<pc, events, watched, fdtab, nread>>
        BY <1>6 DEF Connect, Send, Finish, tables
    <2>2. backlog # <<>> => backlog' # <<>>
        BY <1>6, AppendFacts DEF Connect, Send, Finish, TypeOK
    <2>3. \A x \in Clients : Readable(x) => Readable(x)'
        <3> SUFFICES ASSUME NEW x \in Clients, Readable(x) PROVE Readable(x)'
            OBVIOUS
        <3>1. CASE Connect(c)
            BY <3>1 DEF Connect, Readable, TypeOK
        <3>2. CASE Send(c)
            BY <3>2 DEF Send, Readable, TypeOK
        <3>3. CASE Finish(c)
            BY <3>3 DEF Finish, Readable, TypeOK
        <3> QED BY <1>6, <3>1, <3>2, <3>3
    <2>4. \A k \in DOMAIN events : events[k] \in ConnFds => Readable(fdtab[events[k]])'
        <3>1. \A k \in DOMAIN events : events[k] \in ConnFds => Readable(fdtab[events[k]]) /\ fdtab[events[k]] \in Clients
            BY <1>1, <1>4, <2>1 DEF EventsOK
        <3> QED BY <2>1, <2>3, <3>1 DEF Readable
    <2> QED BY <1>1, <2>1, <2>2, <2>4 DEF EventsOK
<1>7. CASE Quiet
    <2>1. UNCHANGED pc
        BY <1>1, <1>3, <1>7 DEF Quiet, sigterm_handler, TimesOut, ScanSkips, ScanEnds
    <2> QED BY <1>5, <1>7, <2>1, QuietLeaves
<1>8. CASE PassBegins \/ Poll \/ UNCHANGED vars
    BY <1>1, <1>3, <1>5, <1>8 DEF PassBegins, Poll, vars, tables, netVars
<1>9. CASE Wait
    <2>1. \A j, k \in DOMAIN events' : events'[j] = events'[k] => j = k
        BY <1>9, WaitReported
    <2>2. UNCHANGED <<watched, backlog, fdtab, link, sent, nread>>
        BY <1>9 DEF Wait, tables, netVars
    <2>3. \A f \in Reported : /\ f \in watched
                              /\ f = Listening => backlog # <<>>
                              /\ f \in ConnFds => Readable(fdtab[f])
        BY Descriptors DEF Reported, Ready
    <2>4. \A k \in DOMAIN events' : events'[k] \in Reported
        BY <1>9, WaitReported
    <2> QED BY <2>1, <2>2, <2>3, <2>4 DEF EventsOK, Readable
<1>10. CASE net_accept
    <2>1. /\ pc = "scan" /\ events # <<>> /\ Head(events) = Listening /\ Advance
          /\ UNCHANGED <<sent, nread>>
          /\ Head(backlog) = backlog[1] /\ 1 \in DOMAIN backlog /\ Head(backlog) \in Clients
        BY <1>3, <1>10, AcceptCases, AcceptFacts
    <2>2. /\ \A j, k \in DOMAIN events' : events'[j] = events'[k] => j = k
          /\ \A k \in DOMAIN events' : \E m \in DOMAIN events : events'[k] = events[m] /\ events[m] # Listening
        BY <1>3, <2>1, EventsLeft
    <2>3. \A m \in DOMAIN events : /\ events[m] \in watched
                                   /\ events[m] \in ConnFds => Readable(fdtab[events[m]])
        BY <2>1 DEF EventsOK
    <2>4. \A g \in ConnFds : g \in watched => fdtab[g] # Head(backlog) /\ fdtab[g] # NULL /\ fdtab[g] \in Clients
        BY <1>3, <1>4, <2>1 DEF PeersOK, WatchOK
    <2>5. ASSUME \A g \in ConnFds : fdtab[g] # NULL => fdtab'[g] = fdtab[g],
                 \A x \in Clients : x # Head(backlog) => link'[x] = link[x],
                 watched \subseteq watched'
          PROVE  EventsOK'
        <3>1. \A g \in ConnFds : g \in watched /\ Readable(fdtab[g]) => Readable(fdtab[g])'
            BY <2>1, <2>4, <2>5 DEF Readable
        <3> QED BY <2>2, <2>3, <2>5, <3>1 DEF EventsOK
    <2>6. CASE AcceptNone
        BY <2>5, <2>6 DEF AcceptNone
    <2>7. CASE AcceptRefused
        BY <2>5, <2>7 DEF AcceptRefused, TypeOK
    <2>8. ASSUME NEW f \in FreeFds, NEW conn \in {NewConn, DANGLING}, AcceptOpens(f, conn)
          PROVE  EventsOK'
        <3>1. watched \subseteq watched'
            BY <1>3, <2>8 DEF AcceptOpens, Register, net_register_read
        <3>2. \A g \in ConnFds : fdtab[g] # NULL => fdtab'[g] = fdtab[g]
            BY <2>8 DEF AcceptOpens, FreeFds, TypeOK
        <3>3. UNCHANGED link
            BY <2>8 DEF AcceptOpens
        <3> QED BY <2>5, <3>1, <3>2, <3>3
    <2> QED BY <1>10, <2>6, <2>7, <2>8, AcceptCases
<1>11. ASSUME NEW f \in ConnFds, ReadEOF(f) \/ ReadData(f) \/ ReadFails(f)
       PROVE  EventsOK'
    <2>1. AtRead(f) /\ Advance /\ UNCHANGED <<backlog, sent>>
        BY <1>11 DEF ReadEOF, ReadData, ReadFails
    <2>2. pc = "scan" /\ events # <<>> /\ Head(events) = f /\ fdtab[f] \in Clients
        BY <1>3, <2>1, ReadFacts
    <2>3. /\ \A j, k \in DOMAIN events' : events'[j] = events'[k] => j = k
          /\ \A k \in DOMAIN events' : \E m \in DOMAIN events : events'[k] = events[m] /\ events[m] # f
        BY <1>3, <2>1, <2>2, EventsLeft
    <2>4. \A m \in DOMAIN events : /\ events[m] \in watched
                                   /\ events[m] = Listening => backlog # <<>>
                                   /\ events[m] \in ConnFds => Readable(fdtab[events[m]])
        BY <2>2 DEF EventsOK
    <2>5. \A g \in ConnFds : g \in watched /\ g # f => fdtab[g] # fdtab[f] /\ fdtab[g] \in Clients
        BY <1>3, <1>4, <2>2, ReceiversAssumption DEF PeersOK, WatchOK
    <2>6. \A g \in ConnFds : g # f => fdtab'[g] = fdtab[g]
        BY <1>11 DEF ReadEOF, ReadData, ReadFails, TypeOK
    <2>7. \A x \in Clients : x # fdtab[f] => link'[x] = link[x] /\ nread'[x] = nread[x]
        BY <1>11, <2>2 DEF ReadEOF, ReadData, ReadFails, TypeOK
    <2>8. watched \ {f} \subseteq watched'
        BY <1>11 DEF ReadEOF, ReadData, ReadFails, Unregister, tables
    <2>9. \A g \in ConnFds : g \in watched /\ g # f /\ Readable(fdtab[g]) => Readable(fdtab[g])'
        BY <2>1, <2>5, <2>6, <2>7 DEF Readable
    <2> QED BY <2>1, <2>3, <2>4, <2>8, <2>9 DEF EventsOK
<1> QED
    BY <1>6, <1>7, <1>8, <1>9, <1>10, <1>11 DEF Step

-----------------------------------------------------------------------------
(* The theorems.                                                           *)

\* Every step keeps the invariant; a server that has ended or whose behaviour is
\* undefined promises only its types.
LEMMA StepInv == IndInv /\ [Next]_vars => IndInv'
<1> SUFFICES ASSUME IndInv, [Next]_vars PROVE IndInv'
    OBVIOUS
<1>1. TypeOK'
    BY TypeStep DEF IndInv
<1>2. ASSUME Running'
      PROVE  Parts'
    <2>1. Parts /\ Step /\ TypeOK
        BY <1>2, StepCases DEF IndInv
    <2>2. PeersOK' /\ ConnsOK' /\ RoomOK' /\ PollOK' /\ WatchOK'
        BY <2>1, PeersStep, ConnsStep, RoomStep, PollStep, WatchStep
    <2>3. EventsOK'
        BY <2>1, <2>2, ProgKept, EventsStep
    <2> QED BY <2>2, <2>3 DEF Parts
<1> QED
    BY <1>1, <1>2 DEF IndInv

\* The descriptor tables of the four receivers, their connection lists and the events
\* they have still to handle stay consistent with the kernel's open connections
\* (poll_test.c, select_test.c, epoll_test.c, epoll_test.new.c).
THEOREM Invariance == Spec => []IndInv
<1>1. Init => IndInv
    BY InitInv
<1>2. IndInv /\ [Next]_vars => IndInv'
    BY StepInv
<1> QED
    BY <1>1, <1>2, PTL DEF Spec

\* The table of poll_test.c asks about each descriptor as often as an entry names it.
LEMMA AskedOnce ==
    ASSUME TypeOK, Parts, prog = "poll", NEW f
    PROVE  /\ (\A k \in Slots : k < conn_index => pollfd[k].fd # f) => Asked(f) = 0
           /\ f # -1 /\ (\E k \in Slots : k < conn_index /\ pollfd[k].fd = f) => Asked(f) = 1
<1> DEFINE S == {k \in 0..(conn_index - 1) : pollfd[k].fd = f}
<1>1. Asked(f) = Cardinality(S)
    BY DEF Asked
<1>2. \A k : k \in 0..(conn_index - 1) <=> k \in Slots /\ k < conn_index
    BY ReceiversAssumption DEF TypeOK, Slots
<1>3. ASSUME \A k \in Slots : k < conn_index => pollfd[k].fd # f
      PROVE  Asked(f) = 0
    <2>1. S = {}
        BY <1>2, <1>3
    <2> QED BY <1>1, <2>1, FS_EmptySet
<1>4. ASSUME f # -1, NEW k \in Slots, k < conn_index, pollfd[k].fd = f
      PROVE  Asked(f) = 1
    <2>1. S = {k}
        BY <1>2, <1>4 DEF Parts, PollOK
    <2> QED BY <1>1, <2>1, FS_Singleton
<1> QED
    BY <1>3, <1>4

\* Through accepting, closing, appending and compacting, the program asks about the
\* listening socket and every open connection once and about nothing else, and its
\* connection list has exactly the open ones (poll_test.c:438-444, 478-481, 626-648;
\* select_test.c:508-510, 550-557; epoll_test.new.c:512-520, 560-563).
THEOREM TablesAlwaysMatch == Spec => []TableMatches
<1>1. IndInv => TableMatches
    <2> SUFFICES ASSUME IndInv, Running PROVE TableMatches
        BY DEF TableMatches
    <2>1. TypeOK /\ Parts
        BY DEF IndInv
    <2>2. Asked(Listening) = 1
        <3>1. CASE prog = "poll"
            <4>1. 0 \in Slots /\ 0 < conn_index /\ pollfd[0].fd = Listening
                BY <2>1, <3>1, Descriptors DEF TypeOK, Parts, PollOK
            <4> QED BY <2>1, <3>1, <4>1, Descriptors, AskedOnce
        <3>2. CASE prog # "poll"
            BY <2>1, <3>2 DEF Asked, Parts, WatchOK
        <3> QED BY <3>1, <3>2
    <2>3. ASSUME NEW f \in ConnFds, fdtab[f] = NULL
          PROVE  Asked(f) = 0 /\ f \notin Attached
        <3>1. CASE prog = "poll"
            <4>1. \A k \in Slots : k < conn_index => pollfd[k].fd # f
                BY <2>1, <2>3, <3>1 DEF Parts, PollOK
            <4> QED BY <2>1, <2>3, <3>1, <4>1, AskedOnce DEF Parts, ConnsOK, Attached
        <3>2. CASE prog # "poll"
            BY <2>1, <2>3, <3>2 DEF Asked, Parts, WatchOK, ConnsOK, Attached
        <3> QED BY <3>1, <3>2
    <2>4. ASSUME NEW f \in ConnFds, fdtab[f] # NULL
          PROVE  /\ Asked(f) = 1 \/ (prog = "epollnew" /\ faults > 0)
                 /\ prog # "epoll" => f \in Attached
        <3>1. CASE prog = "poll"
            <4>1. f # -1 /\ \E k \in Slots : k < conn_index /\ pollfd[k].fd = f
                BY <2>1, <2>4, <3>1, Descriptors DEF Parts, PollOK
            <4>2. Asked(f) = 1
                BY <2>1, <3>1, <4>1, AskedOnce
            <4> QED BY <2>1, <2>4, <4>2 DEF Parts, ConnsOK, Attached
        <3>2. CASE prog # "poll"
            BY <2>1, <2>4, <3>2 DEF Asked, Parts, WatchOK, ConnsOK, Attached
        <3> QED BY <3>1, <3>2
    <2> QED BY <2>2, <2>3, <2>4 DEF TableMatches
<1> QED
    BY <1>1, Invariance, PTL

\* Nothing that happens earlier in a pass, a descriptor closed and handed out again by
\* accept() included, makes the rest of select()'s or epoll_wait()'s answer stale
\* (select_test.c:268-286, epoll_test.c:170-217, epoll_test.new.c:283-296).
THEOREM EventsNeverStale == Spec => []EventsNotStale
<1>1. IndInv => EventsNotStale
    <2> SUFFICES ASSUME IndInv, pc = "scan", NEW k \in DOMAIN events
                 PROVE  \/ events[k] = Listening /\ backlog # <<>>
                        \/ events[k] \in ConnFds /\ fdtab[events[k]] # NULL /\ Readable(fdtab[events[k]])
        BY DEF EventsNotStale
    <2>1. TypeOK /\ Parts
        BY DEF IndInv, Running
    <2>2. prog # "poll"
        BY <2>1 DEF Parts, PollOK
    <2>3. events[k] \in {Listening} \cup ConnFds
        BY <2>1 DEF TypeOK
    <2> QED BY <2>1, <2>2, <2>3 DEF Parts, WatchOK, EventsOK
<1> QED
    BY <1>1, Invariance, PTL

\* net_read() closes a connection only after its peer has closed it and everything it
\* sent was read, or because rbuf is full and could not grow (poll_test.c:473,
\* select_test.c:549, epoll_test.c:224, epoll_test.new.c:559).
THEOREM PeersCloseFirst == Spec => ClosedOnlyByPeer
<1> DEFINE Reason(f) == \/ link[fdtab[f]] = "fin" /\ nread[fdtab[f]] = sent[fdtab[f]]
                        \/ /\ f \in Attached /\ Room(f) = 0
                           /\ 2 * conn_list[f].size > MaxAlloc
           Closes == \A f \in ConnFds : pc = "scan" /\ fdtab[f] # NULL /\ fdtab'[f] = NULL => Reason(f)
<1>1. IndInv /\ [Next]_vars => Closes
    <2> SUFFICES ASSUME IndInv, [Next]_vars, NEW f \in ConnFds, pc = "scan", fdtab[f] # NULL, fdtab'[f] = NULL
                 PROVE  Reason(f)
        OBVIOUS
    <2>1. TypeOK /\ Parts
        BY DEF IndInv, Running
    <2>2. ReadEOF(f)
        <3>1. ~UNCHANGED fdtab
            OBVIOUS
        <3>2. \A c \in Clients : ~(Connect(c) \/ Send(c) \/ Finish(c))
            BY <3>1 DEF Connect, Send, Finish
        <3>3. ~(sigterm_handler \/ PassBegins \/ Poll \/ Wait \/ TimesOut \/ ScanSkips \/ ScanEnds \/ Stopped)
            BY <3>1 DEF sigterm_handler, PassBegins, Poll, Wait, TimesOut, ScanSkips, ScanEnds, Stopped, netVars, vars
        <3>4. ~Shutdown /\ ~UNCHANGED vars
            BY <3>1 DEF Shutdown, vars, netVars
        <3>5. ~net_accept
            <4>1. SUFFICES ASSUME net_accept PROVE FALSE
                OBVIOUS
            <4>2. PICK g \in FreeFds, conn \in {NewConn, DANGLING} : AcceptOpens(g, conn)
                BY <3>1, <4>1, AcceptCases DEF AcceptNone, AcceptRefused
            <4>3. fdtab' = [fdtab EXCEPT ![g] = Head(backlog)] /\ fdtab[g] = NULL
                BY <4>2 DEF AcceptOpens, FreeFds
            <4> QED BY <2>1, <4>3 DEF TypeOK
        <3>6. PICK g \in ConnFds : net_read(g)
            BY <3>2, <3>3, <3>4, <3>5 DEF Next, Server
        <3>7. ReadEOF(g)
            BY <3>1, <3>6 DEF net_read, ReadData, ReadFails, ReadDangling, netVars
        <3>8. g = f
            BY <2>1, <3>7 DEF ReadEOF, TypeOK
        <3> QED BY <3>7, <3>8
    <2>3. CASE Room(f) = 0
        <3>1. prog # "epoll"
            BY <2>3, ReceiversAssumption DEF Room
        <3>2. conn_list[f] \in Buffer /\ conn_list[f] \notin {NULL, DANGLING}
            BY <2>1, <2>2, <3>1, ReadFacts, ReceiversAssumption DEF ReadEOF
        <3>3. conn_list[f].payload = conn_list[f].size
            BY <2>3, <3>1, <3>2 DEF Room, Buffer
        <3> QED BY <2>1, <2>3, <3>2, <3>3 DEF Parts, RoomOK, Attached
    <2>4. CASE nread[fdtab[f]] = sent[fdtab[f]] /\ link[fdtab[f]] = "fin"
        BY <2>4
    <2> QED BY <2>2, <2>3, <2>4 DEF ReadEOF
<1> QED
    BY <1>1, Invariance, PTL DEF Spec, ClosedOnlyByPeer
=============================================================================
