---------------------------- MODULE ConnServers -----------------------------
(***************************************************************************)
(* Five servers that give each connection to a step, process or thread of  *)
(* its own:                                                                *)
(*                                                                         *)
(*   "iterative"  2012.04.13/tcp/server.c: the loop itself answers;        *)
(*   "fork"       server1.c: a child per connection, wait() in the SIGCHLD *)
(*                handler;                                                 *)
(*   "thread"     server2.c: a detached thread per connection;             *)
(*   "prefork"    server3.c: children that accept once each, the parent    *)
(*                waits for one whenever PROCESS_NUM are there;            *)
(*   "echo"       tcp/server.c: a child per connection that answers until  *)
(*                the client closes, waitpid() in a loop in the handler.   *)
(*                                                                         *)
(* An answer is the banner, or what was sent in capitals; only that it was *)
(* given is recorded.                                                      *)
(***************************************************************************)
EXTENDS Integers, Sequences, FiniteSets

CONSTANTS
    Programs,      \* the programs to look at
    Clients,       \* each connects at most once
    NULL,
    PROCESS_NUM,
    Workers,       \* numbers for child processes and threads
    MaxHeld,       \* connections the main process may have open (RLIMIT_NOFILE)
    Backlog,
    MaxFaults      \* bound: failures of fork(), pthread_create() and accept()

ASSUME ServersAssumption ==
    /\ Programs \subseteq {"iterative", "fork", "thread", "prefork", "echo"}
    /\ PROCESS_NUM \in Nat \ {0} /\ MaxHeld \in Nat \ {0} /\ Backlog \in Nat \ {0} /\ MaxFaults \in Nat
    /\ IsFiniteSet(Clients) /\ IsFiniteSet(Workers) /\ Workers \subseteq Nat /\ NULL \notin Clients

VARIABLES
    prog,            \* which program runs
    pc,              \* the main process
    conn,            \* new_connected_socket, connection_sock
    process_count,   \* prefork: its counter, up to PROCESS_NUM
    held,            \* connections the main process has open
    worker,          \* children and threads: [st, client]
    pending,         \* SIGCHLD is pending for the main process
    handling,        \* the main process is in signal_handler()
    backlog, link,   \* connections waiting for accept(); what the client did
    served,          \* clients that were answered
    faults

mainVars == <<pc, conn, process_count, held>>
vars == <<prog, mainVars, worker, pending, handling, backlog, link, served, faults>>

Free == [st |-> "none", client |-> NULL]
Is(s) == {w \in Workers : worker[w].st = s}
\* Which free number a new worker gets makes no difference.
NewWorker == {w \in Is("none") : \A v \in Is("none") : w <= v}

Holds(w, c) == worker[w].st \in {"working", "closing"} /\ worker[w].client = c

\* A thread lives in the main process, a child does not.
InProcess == prog \in {"iterative", "thread"}
HasHandler == prog \in {"fork", "echo"}

-----------------------------------------------------------------------------
(* Clients.                                                                *)

Connect(c) ==
    /\ pc # "ended" /\ link[c] = "idle" /\ Len(backlog) < Backlog
    /\ link' = [link EXCEPT ![c] = "up"] /\ backlog' = Append(backlog, c)
    /\ UNCHANGED <<prog, mainVars, worker, pending, handling, served, faults>>

\* The client closes, or closes and resets.
Leave(c) ==
    /\ link[c] = "up"
    /\ \E s \in {"fin", "rst"} : link' = [link EXCEPT ![c] = s]
    /\ UNCHANGED <<prog, mainVars, worker, pending, handling, backlog, served, faults>>

-----------------------------------------------------------------------------
(* The main process.                                                       *)

Init ==
    /\ prog \in Programs
    /\ pc = IF prog = "prefork" THEN "fork" ELSE "accept"
    /\ conn = NULL /\ process_count = 0 /\ held = {} /\ worker = [w \in Workers |-> Free]
    /\ pending = FALSE /\ handling = FALSE
    /\ backlog = <<>> /\ link = [c \in Clients |-> "idle"] /\ served = {} /\ faults = 0

\* The process ends: its connections close and its threads are gone.
Ends ==
    /\ pc' = "ended" /\ conn' = NULL /\ held' = {} /\ pending' = FALSE
    /\ worker' = IF prog = "thread" THEN [w \in Workers |-> Free] ELSE worker
    /\ UNCHANGED <<prog, process_count, handling, backlog, link>>

Accept ==
    /\ pc = "accept" /\ ~handling /\ backlog # <<>> /\ Cardinality(held) < MaxHeld
    /\ conn' = Head(backlog) /\ held' = held \cup {Head(backlog)} /\ backlog' = Tail(backlog)
    /\ pc' = "dispatch"
    /\ UNCHANGED <<prog, process_count, worker, pending, handling, link, served, faults>>

\* Any error but EINTR, running out of descriptors among them, ends the loop.
AcceptFails ==
    /\ pc = "accept" /\ ~handling
    /\ \/ Cardinality(held) = MaxHeld /\ UNCHANGED faults
       \/ faults < MaxFaults /\ faults' = faults + 1
    /\ Ends /\ UNCHANGED served

\* write() of the banner, whose result nobody looks at.  To a client that was reset it
\* fails: with SIGPIPE, which has its default action, or without, if the reset comes to
\* the socket as an error first (ECONNRESET).
Banner(c) == served' = IF link[c] = "rst" THEN served ELSE served \cup {c}

\* server.c answers in its loop.
Answer ==
    /\ pc = "dispatch" /\ prog = "iterative"
    /\ \/ /\ link[conn] = "rst" /\ Ends /\ UNCHANGED <<served, faults>>
       \/ /\ Banner(conn) /\ pc' = "close"
          /\ UNCHANGED <<prog, conn, process_count, held, worker, pending, handling, backlog, link, faults>>

\* fork() or pthread_create(): the new worker has the connection.
Dispatch ==
    /\ pc = "dispatch" /\ prog # "iterative" /\ ~handling
    /\ \E w \in NewWorker : worker' = [worker EXCEPT ![w] = [st |-> "working", client |-> conn]]
    /\ IF prog = "thread" THEN pc' = "accept" /\ conn' = NULL ELSE pc' = "close" /\ UNCHANGED conn
    /\ UNCHANGED <<prog, process_count, held, pending, handling, backlog, link, served, faults>>

\* server1.c and server2.c go on and leave the connection open; tcp/server.c exits.
DispatchFails ==
    /\ pc = "dispatch" /\ prog # "iterative" /\ ~handling
    /\ faults < MaxFaults /\ faults' = faults + 1
    /\ \/ prog = "echo" /\ Ends /\ UNCHANGED served
       \/ /\ prog # "echo" /\ pc' = "accept" /\ conn' = NULL
          /\ UNCHANGED <<prog, process_count, held, worker, pending, handling, backlog, link, served>>

\* Mutant: the parent forgets to close its copy.
CloseConn_Forgotten ==
    /\ pc = "close" /\ ~handling
    /\ pc' = "accept" /\ conn' = NULL
    /\ UNCHANGED <<prog, process_count, held, worker, pending, handling, backlog, link, served, faults>>

CloseConn ==
    /\ pc = "close" /\ ~handling
    /\ held' = held \ {conn} /\ pc' = "accept" /\ conn' = NULL
    /\ UNCHANGED <<prog, process_count, worker, pending, handling, backlog, link, served, faults>>

\* Mutant: the parent counts after it has decided to wait.
ForkChild_CountsLate ==
    /\ pc = "fork"
    /\ \E w \in NewWorker : worker' = [worker EXCEPT ![w].st = "accepting"]
    /\ process_count' = IF process_count < PROCESS_NUM THEN process_count + 1 ELSE PROCESS_NUM
    /\ pc' = IF process_count >= PROCESS_NUM THEN "wait" ELSE "fork"
    /\ UNCHANGED <<prog, conn, held, pending, handling, backlog, link, served, faults>>

\* process_count only grows; beyond PROCESS_NUM its values are alike.
ForkChild ==
    /\ pc = "fork"
    /\ \E w \in NewWorker : worker' = [worker EXCEPT ![w].st = "accepting"]
    /\ process_count' = IF process_count < PROCESS_NUM THEN process_count + 1 ELSE PROCESS_NUM
    /\ pc' = IF process_count' >= PROCESS_NUM THEN "wait" ELSE "fork"
    /\ UNCHANGED <<prog, conn, held, pending, handling, backlog, link, served, faults>>

WaitChild ==
    /\ pc = "wait"
    /\ \E w \in Is("zombie") : worker' = [worker EXCEPT ![w] = Free]
    /\ pc' = "fork"
    /\ UNCHANGED <<prog, conn, process_count, held, pending, handling, backlog, link, served, faults>>

\* SIGCHLD is delivered; it stays blocked until the handler returns.
HandlerStarts ==
    /\ pending /\ ~handling /\ pc # "ended"
    /\ handling' = TRUE /\ pending' = FALSE
    /\ UNCHANGED <<prog, mainVars, worker, backlog, link, served, faults>>

\* Mutant: both handlers wait for one child per signal.
Reap_Once == /\ \E w \in Is("zombie") : worker' = [worker EXCEPT ![w] = Free]
             /\ handling' = FALSE

\* Mutant: both handlers wait in a loop, server1.c's with a wait() that blocks.
Reap_Loops ==
    \/ /\ \E w \in Is("zombie") : worker' = [worker EXCEPT ![w] = Free]
       /\ UNCHANGED handling
    \/ /\ prog = "echo" /\ Is("zombie") = {}
       /\ handling' = FALSE /\ UNCHANGED worker

\* One wait() in server1.c, which would block if no child had exited; waitpid() until
\* there is none left in tcp/server.c.
Reap ==
    \/ /\ \E w \in Is("zombie") : worker' = [worker EXCEPT ![w] = Free]
       /\ handling' = (prog = "echo")
    \/ /\ prog = "echo" /\ Is("zombie") = {}
       /\ handling' = FALSE /\ UNCHANGED worker

signal_handler ==
    /\ handling /\ Reap
    /\ UNCHANGED <<prog, mainVars, pending, backlog, link, served, faults>>

Main == \/ Accept \/ Answer \/ Dispatch \/ CloseConn \/ ForkChild \/ WaitChild
        \/ HandlerStarts \/ signal_handler

-----------------------------------------------------------------------------
(* Children and threads.                                                   *)

\* A child of server3.c accepts once; if accept() fails it exits.
WorkerAccepts(w) ==
    /\ worker[w].st = "accepting" /\ backlog # <<>>
    /\ worker' = [worker EXCEPT ![w] = [st |-> "working", client |-> Head(backlog)]]
    /\ backlog' = Tail(backlog)
    /\ UNCHANGED <<prog, mainVars, pending, handling, link, served, faults>>

WorkerAcceptFails(w) ==
    /\ worker[w].st = "accepting" /\ faults < MaxFaults /\ faults' = faults + 1
    /\ worker' = [worker EXCEPT ![w].st = "closing"]
    /\ UNCHANGED <<prog, mainVars, pending, handling, backlog, link, served>>

\* A child exits, or dies of SIGPIPE, and the parent is sent SIGCHLD; only server1.c
\* and tcp/server.c catch it.
Exit(w) ==
    /\ worker' = [worker EXCEPT ![w] = [st |-> "zombie", client |-> NULL]]
    /\ pending' = (HasHandler /\ pc # "ended")

\* The banner is written.
WorkerWrites(w) ==
    /\ worker[w].st = "working" /\ prog # "echo"
    /\ Banner(worker[w].client) /\ worker' = [worker EXCEPT ![w].st = "closing"]
    /\ UNCHANGED <<prog, mainVars, pending, handling, backlog, link, faults>>

\* SIGPIPE ends the child, or in server2.c the whole server.
WorkerKilled(w) ==
    /\ worker[w].st = "working" /\ prog # "echo" /\ link[worker[w].client] = "rst"
    /\ IF prog = "thread" THEN Ends
                           ELSE Exit(w) /\ UNCHANGED <<prog, mainVars, handling, backlog, link>>
    /\ UNCHANGED <<served, faults>>

WorkerAnswers(w) == WorkerWrites(w) \/ WorkerKilled(w)

\* The child of tcp/server.c answers what it reads, and ends at the end of the stream:
\* read_r() tries again after any error, and after a reset the next read() returns 0.
WorkerEchoes(w) ==
    LET c == worker[w].client IN
    /\ worker[w].st = "working" /\ prog = "echo"
    /\ \/ /\ link[c] = "up" /\ c \notin served /\ served' = served \cup {c} /\ UNCHANGED worker
       \/ /\ link[c] \in {"fin", "rst"} /\ UNCHANGED served
          /\ worker' = [worker EXCEPT ![w].st = "closing"]
    /\ UNCHANGED <<prog, mainVars, pending, handling, backlog, link, faults>>

\* The connection is closed.  A thread closes it for the whole process.
WorkerEnds(w) ==
    /\ worker[w].st = "closing"
    /\ \/ /\ prog = "thread" /\ held' = held \ {worker[w].client}
          /\ worker' = [worker EXCEPT ![w] = Free] /\ UNCHANGED pending
       \/ prog # "thread" /\ Exit(w) /\ UNCHANGED held
    /\ UNCHANGED <<prog, pc, conn, process_count, handling, backlog, link, served, faults>>

Worker(w) == WorkerAccepts(w) \/ WorkerAnswers(w) \/ WorkerEchoes(w) \/ WorkerEnds(w)

Next == \/ Main \/ AcceptFails \/ DispatchFails
        \/ \E w \in Workers : Worker(w) \/ WorkerAcceptFails(w)
        \/ \E c \in Clients : Connect(c) \/ Leave(c)

Spec == Init /\ [][Next]_vars

\* The main process and every worker are scheduled.
FairSpec == Spec /\ WF_vars(Main) /\ \A w \in Workers : WF_vars(Worker(w))

-----------------------------------------------------------------------------
Statuses == [st : {"none", "accepting", "working", "closing", "zombie"}, client : Clients \cup {NULL}]

\* The variables keep to their C types.
TypeOK ==
    /\ prog \in Programs /\ pc \in {"accept", "dispatch", "close", "fork", "wait", "ended"}
    /\ conn \in Clients \cup {NULL} /\ process_count \in 0..PROCESS_NUM /\ held \subseteq Clients
    /\ worker \in [Workers -> Statuses]
    /\ pending \in BOOLEAN /\ handling \in BOOLEAN
    /\ backlog \in Seq(Clients) /\ link \in [Clients -> {"idle", "up", "fin", "rst"}]
    /\ served \subseteq Clients /\ faults \in 0..MaxFaults

\* The main process has a connection open only while it is passing it on or a thread
\* works on it; each fork() or pthread_create() that fails leaves one open for ever
\* (server1.c:187-190, 210, server2.c:160-164, 193, tcp/server.c:106).
Leaked == {c \in held : c # conn /\ ~\E w \in Workers : prog = "thread" /\ Holds(w, c)}
NoLeak == Cardinality(Leaked) <= faults

\* Signals merge, and each handler must suit that.  When the handler of server1.c
\* runs, a child has exited that nobody has waited for, so its wait() never blocks the
\* server (server1.c:223-231).  In tcp/server.c, which loops, a zombie has its signal on
\* the way or its handler running: none is left behind (tcp/server.c:113-120).
HandlersReap ==
    /\ prog = "fork" /\ handling => Is("zombie") # {}
    /\ prog = "echo" /\ pc # "ended" /\ Is("zombie") # {} => pending \/ handling

\* server3.c never has more than PROCESS_NUM children, zombies included, and waits
\* only with all of them there, although its counter only grows (server3.c:125-179).
PoolBounded ==
    prog = "prefork" =>
        /\ Cardinality(Workers \ Is("none")) <= PROCESS_NUM
        /\ pc = "wait" => Cardinality(Workers \ Is("none")) = PROCESS_NUM

\* Clients cannot end a server that works in child processes; without faults the main
\* process ends only in server.c and server2.c, when a client resets, and in server2.c
\* when there are too many at once (server.c:119-129, 151, server2.c:122-132, 190).
StaysUp ==
    pc = "ended" /\ faults = 0
      => \/ InProcess /\ \E c \in Clients : link[c] = "rst"
         \/ prog = "thread"

\* Every client that connects and stays is answered, unless a call has failed or the
\* server has ended.
EveryoneAnswered ==
    \A c \in Clients : link[c] = "up" ~> c \in served \/ link[c] # "up" \/ faults > 0 \/ pc = "ended"
=============================================================================
