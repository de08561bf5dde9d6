------------------------- MODULE ConnServersProofs --------------------------
(***************************************************************************)
(* Proofs about the five servers of ConnServers for any number of clients, *)
(* workers, descriptors and failures.  None of the properties is inductive *)
(* by itself; the parts below say what they rely on.                       *)
(***************************************************************************)
EXTENDS ConnServers, FiniteSetTheorems, TLAPS

Busy == Workers \ Is("none")

\* conn is set between accept() and close() only, a worker that answers has a client,
\* and only server3.c forks without having accepted.
Places ==
    /\ conn # NULL <=> pc \in {"dispatch", "close"}
    /\ \A w \in Workers : /\ worker[w].st = "working" => worker[w].client # NULL
                          /\ worker[w].st = "none" => worker[w].client = NULL
    /\ pc \in {"fork", "wait"} <=> prog = "prefork"

\* A signal that is pending and a handler that runs have a zombie each in server1.c, and
\* two if both are there: that is why its wait() does not block.
SignalsOwed ==
    /\ pending \/ handling => HasHandler
    /\ prog = "fork" =>
          /\ pending \/ handling => Is("zombie") # {}
          /\ pending /\ handling => \E v, w \in Is("zombie") : v # w

\* process_count is the number of children until it reaches PROCESS_NUM; from then on
\* the parent is one child short, or waits with all of them there.
PoolCounted ==
    prog = "prefork" =>
        /\ pc = "fork" => \/ process_count < PROCESS_NUM /\ Cardinality(Busy) = process_count
                          \/ process_count = PROCESS_NUM /\ Cardinality(Busy) = PROCESS_NUM - 1
        /\ pc = "wait" => process_count = PROCESS_NUM /\ Cardinality(Busy) = PROCESS_NUM

IndInv == /\ TypeOK /\ Places /\ NoLeak /\ SignalsOwed /\ HandlersReap
          /\ PoolCounted /\ StaysUp

-----------------------------------------------------------------------------
(* Types and places.                                                       *)

\* A number that is free.
LEMMA FreeStatus == Free \in Statuses
BY DEF Free, Statuses

\* The server begins with nothing open, nobody working and no signal.
LEMMA InitInv == Init => IndInv
<1> SUFFICES ASSUME Init PROVE IndInv
    OBVIOUS
<1>1. Leaked = {} /\ Is("zombie") = {} /\ Busy = {}
    BY DEF Init, Leaked, Is, Busy, Free
<1>2. TypeOK
    <2>1. worker \in [Workers -> Statuses]
        BY FreeStatus DEF Init
    <2>2. backlog \in Seq(Clients) /\ link \in [Clients -> {"idle", "up", "fin", "rst"}]
        BY DEF Init
    <2>3. pc \in {"accept", "fork"} /\ process_count \in 0..PROCESS_NUM /\ faults \in 0..MaxFaults
        BY ServersAssumption DEF Init
    <2> QED BY <2>1, <2>2, <2>3, ServersAssumption DEF Init, TypeOK
<1>3. Places
    BY ServersAssumption DEF Init, Places, Free
<1>4. Cardinality(Leaked) = 0 /\ Cardinality(Busy) = 0
    BY <1>1, FS_EmptySet
<1>5. NoLeak /\ SignalsOwed /\ HandlersReap /\ PoolCounted /\ StaysUp
    BY <1>1, <1>4, ServersAssumption DEF Init, NoLeak, SignalsOwed, HandlersReap, PoolCounted, StaysUp
<1> QED
    BY <1>2, <1>3, <1>5 DEF IndInv

\* The end of the main process, and of its threads, is well typed.
LEMMA EndsType == ASSUME TypeOK, Ends, served' = served, faults' \in 0..MaxFaults PROVE TypeOK'
<1>1. worker' \in [Workers -> Statuses]
    BY FreeStatus DEF TypeOK, Ends
<1> QED
    BY <1>1 DEF TypeOK, Ends

\* So is the exit of a child.
LEMMA ExitType ==
    ASSUME TypeOK, NEW w \in Workers, Exit(w)
    PROVE  worker' \in [Workers -> Statuses] /\ pending' \in BOOLEAN
<1>1. [st |-> "zombie", client |-> NULL] \in Statuses
    BY DEF Statuses
<1>2. HasHandler \in BOOLEAN
    BY DEF HasHandler
<1> QED
    BY <1>1, <1>2 DEF TypeOK, Exit

\* Every step of the main process, of a worker and of a client keeps the types.
LEMMA TypeStep == TypeOK /\ Places /\ [Next]_vars => TypeOK'
<1> SUFFICES ASSUME TypeOK, Places, [Next]_vars PROVE TypeOK'
    OBVIOUS
<1> USE ServersAssumption DEF TypeOK
<1>1. CASE Accept
    BY <1>1 DEF Accept
<1>2. CASE Answer
    <2>1. CASE pc' = "ended"
        BY <1>2, <2>1, EndsType DEF Answer, Banner
    <2>2. CASE pc' = "close"
        BY <1>2, <2>2 DEF Answer, Banner, Ends, Places
    <2> QED BY <1>2, <2>1, <2>2 DEF Answer, Ends
<1>3. CASE Dispatch
    <2>1. [st |-> "working", client |-> conn] \in Statuses
        BY DEF Statuses
    <2>2. worker' \in [Workers -> Statuses]
        BY <1>3, <2>1 DEF Dispatch, NewWorker, Is
    <2> QED BY <1>3, <2>2 DEF Dispatch
<1>4. CASE CloseConn
    BY <1>4 DEF CloseConn
<1>5. CASE ForkChild
    <2>1. PICK w \in Workers : worker' = [worker EXCEPT ![w].st = "accepting"]
        BY <1>5 DEF ForkChild, NewWorker, Is
    <2>2. [worker[w] EXCEPT !.st = "accepting"] \in Statuses
        BY DEF Statuses
    <2>3. worker' \in [Workers -> Statuses]
        BY <2>1, <2>2
    <2> QED BY <1>5, <2>3 DEF ForkChild
<1>6. CASE WaitChild
    BY <1>6, FreeStatus DEF WaitChild, Is
<1>7. CASE HandlerStarts
    BY <1>7 DEF HandlerStarts, mainVars
<1>8. CASE signal_handler
    <2>1. ASSUME NEW w \in Workers, worker' = [worker EXCEPT ![w] = Free] PROVE TypeOK'
        <3>1. worker' \in [Workers -> Statuses]
            BY <2>1, FreeStatus DEF TypeOK
        <3>2. handling' \in BOOLEAN
            BY <1>8 DEF signal_handler, Reap
        <3> QED BY <1>8, <3>1, <3>2 DEF signal_handler, mainVars
    <2>2. CASE UNCHANGED worker /\ handling' = FALSE
        BY <1>8, <2>2 DEF signal_handler, mainVars
    <2> QED BY <1>8, <2>1, <2>2 DEF signal_handler, Reap, Is
<1>9. CASE AcceptFails
    BY <1>9, EndsType DEF AcceptFails
<1>10. CASE DispatchFails
    <2>1. CASE prog = "echo"
        BY <1>10, <2>1, EndsType DEF DispatchFails
    <2>2. CASE prog # "echo"
        BY <1>10, <2>2 DEF DispatchFails
    <2> QED BY <2>1, <2>2
<1>11. ASSUME NEW w \in Workers, WorkerAccepts(w) PROVE TypeOK'
    <2>1. backlog # <<>> /\ Head(backlog) \in Clients /\ Tail(backlog) \in Seq(Clients)
        BY <1>11 DEF WorkerAccepts
    <2>2. [st |-> "working", client |-> Head(backlog)] \in Statuses
        BY <2>1 DEF Statuses
    <2>3. worker' \in [Workers -> Statuses]
        BY <1>11, <2>2 DEF WorkerAccepts
    <2> QED BY <1>11, <2>1, <2>3 DEF WorkerAccepts, mainVars
<1>12. ASSUME NEW w \in Workers, WorkerAnswers(w) PROVE TypeOK'
    <2>1. CASE WorkerKilled(w) /\ prog = "thread"
        BY <2>1, EndsType DEF WorkerKilled
    <2>2. CASE WorkerKilled(w) /\ prog # "thread"
        BY <2>2, ExitType DEF WorkerKilled, mainVars
    <2>3. CASE WorkerWrites(w)
        <3>1. worker[w].client \in Clients
            BY <2>3 DEF WorkerWrites, Banner, Places, Statuses
        <3>2. worker' = [worker EXCEPT ![w].st = "closing"] /\ Banner(worker[w].client)
            BY <2>3 DEF WorkerWrites
        <3>3. worker' \in [Workers -> Statuses]
            BY <3>2 DEF Statuses
        <3> QED BY <2>3, <3>1, <3>2, <3>3 DEF WorkerWrites, Banner, mainVars
    <2> QED BY <1>12, <2>1, <2>2, <2>3 DEF WorkerAnswers
<1>13. ASSUME NEW w \in Workers, WorkerEchoes(w) PROVE TypeOK'
    <2>1. worker' \in [Workers -> Statuses] /\ served' \subseteq Clients
        BY <1>13 DEF WorkerEchoes, Places, Statuses
    <2> QED BY <1>13, <2>1 DEF WorkerEchoes, mainVars
<1>14. ASSUME NEW w \in Workers, WorkerEnds(w) PROVE TypeOK'
    <2>1. CASE prog = "thread"
        BY <1>14, <2>1, FreeStatus DEF WorkerEnds
    <2>2. CASE prog # "thread"
        BY <1>14, <2>2, ExitType DEF WorkerEnds
    <2> QED BY <2>1, <2>2
<1>15. ASSUME NEW w \in Workers, WorkerAcceptFails(w) PROVE TypeOK'
    <2>1. worker' \in [Workers -> Statuses]
        BY <1>15 DEF WorkerAcceptFails, Statuses
    <2> QED BY <1>15, <2>1 DEF WorkerAcceptFails, mainVars
<1>16. ASSUME NEW c \in Clients, Connect(c) PROVE TypeOK'
    BY <1>16 DEF Connect, mainVars
<1>17. ASSUME NEW c \in Clients, Leave(c) PROVE TypeOK'
    BY <1>17 DEF Leave, mainVars
<1>18. CASE UNCHANGED vars
    BY <1>18 DEF vars, mainVars
<1> QED
    BY <1>1, <1>2, <1>3, <1>4, <1>5, <1>6, <1>7, <1>8, <1>9, <1>10, <1>11, <1>12, <1>13, <1>14,
       <1>15, <1>16, <1>17, <1>18
       DEF Next, Main, Worker

\* Where the main process stands goes with the connection it has in hand.
LEMMA PlacesStep == TypeOK /\ Places /\ SignalsOwed /\ [Next]_vars => Places'
<1> SUFFICES ASSUME TypeOK, Places, SignalsOwed, [Next]_vars PROVE Places'
    OBVIOUS
<1> USE ServersAssumption DEF TypeOK, Places, Free, Statuses
<1>1. CASE Accept
    <2>1. Head(backlog) \in Clients
        BY <1>1 DEF Accept
    <2> QED BY <1>1, <2>1 DEF Accept
<1>2. CASE Answer
    BY <1>2 DEF Answer, Banner, Ends
<1>3. CASE Dispatch
    BY <1>3 DEF Dispatch, NewWorker, Is
<1>4. CASE CloseConn
    BY <1>4 DEF CloseConn
<1>5. CASE ForkChild
    BY <1>5 DEF ForkChild, NewWorker, Is
<1>6. CASE WaitChild
    BY <1>6 DEF WaitChild, Is, Free
<1>7. CASE HandlerStarts
    BY <1>7 DEF HandlerStarts, mainVars
<1>8. CASE signal_handler
    BY <1>8 DEF signal_handler, mainVars, Reap, Is, Free
<1>9. CASE AcceptFails
    BY <1>9 DEF AcceptFails, Ends
<1>10. CASE DispatchFails
    BY <1>10 DEF DispatchFails, Ends
<1>11. ASSUME NEW w \in Workers, WorkerAccepts(w) PROVE Places'
    BY <1>11 DEF WorkerAccepts, mainVars
<1>12. ASSUME NEW w \in Workers, WorkerAnswers(w) PROVE Places'
    <2>1. CASE WorkerWrites(w)
        BY <2>1 DEF WorkerWrites, mainVars
    <2>2. CASE WorkerKilled(w)
        BY <2>2 DEF WorkerKilled, mainVars, Exit, Ends, HasHandler
    <2> QED BY <1>12, <2>1, <2>2 DEF WorkerAnswers
<1>13. ASSUME NEW w \in Workers, WorkerEchoes(w) PROVE Places'
    BY <1>13 DEF WorkerEchoes, mainVars
<1>14. ASSUME NEW w \in Workers, WorkerEnds(w) PROVE Places'
    BY <1>14 DEF WorkerEnds, Exit, Free, HasHandler
<1>15. ASSUME NEW w \in Workers, WorkerAcceptFails(w) PROVE Places'
    BY <1>15 DEF WorkerAcceptFails, mainVars
<1>16. ASSUME NEW c \in Clients, Connect(c) PROVE Places'
    BY <1>16 DEF Connect, mainVars
<1>17. ASSUME NEW c \in Clients, Leave(c) PROVE Places'
    BY <1>17 DEF Leave, mainVars
<1>18. CASE UNCHANGED vars
    BY <1>18 DEF vars, mainVars
<1> QED
    BY <1>1, <1>2, <1>3, <1>4, <1>5, <1>6, <1>7, <1>8, <1>9, <1>10, <1>11, <1>12, <1>13, <1>14,
       <1>15, <1>16, <1>17, <1>18
       DEF Next, Main, Worker

-----------------------------------------------------------------------------
(* Connections left open.                                                  *)

\* Nothing more is left open, or one connection for one more failure.
LEMMA LeakCounted ==
    ASSUME TypeOK, NoLeak, NEW c, faults' \in Nat,
           \/ Leaked' \subseteq Leaked /\ faults' >= faults
           \/ Leaked' \subseteq Leaked \cup {c} /\ faults' = faults + 1
           \/ Leaked' = {}
    PROVE  NoLeak'
<1>1. IsFiniteSet(Leaked) /\ Cardinality(Leaked) \in Nat
    BY ServersAssumption, FS_Subset, FS_CardinalityType DEF Leaked, TypeOK
<1>2. IsFiniteSet(Leaked \cup {c}) /\ Cardinality(Leaked \cup {c}) <= Cardinality(Leaked) + 1
                                 /\ Cardinality(Leaked \cup {c}) \in Nat
    BY <1>1, FS_AddElement, FS_CardinalityType
<1>3. faults \in Nat /\ Cardinality(Leaked) <= faults
    BY ServersAssumption DEF NoLeak, TypeOK
<1>4. CASE Leaked' \subseteq Leaked /\ faults' >= faults
    <2>1. Cardinality(Leaked') \in Nat /\ Cardinality(Leaked') <= Cardinality(Leaked)
        BY <1>1, <1>4, FS_Subset, FS_CardinalityType
    <2> QED BY <1>1, <1>3, <1>4, <2>1 DEF NoLeak
<1>5. CASE Leaked' \subseteq Leaked \cup {c} /\ faults' = faults + 1
    <2>1. Cardinality(Leaked') \in Nat /\ Cardinality(Leaked') <= Cardinality(Leaked \cup {c})
        BY <1>2, <1>5, FS_Subset, FS_CardinalityType
    <2> QED BY <1>1, <1>2, <1>3, <1>5, <2>1 DEF NoLeak
<1>6. CASE Leaked' = {}
    BY <1>6, FS_EmptySet DEF NoLeak
<1> QED
    BY <1>4, <1>5, <1>6

\* Only a fork() or pthread_create() that fails leaves a connection open.
LEMMA LeakStep == TypeOK /\ Places /\ NoLeak /\ TypeOK' /\ [Next]_vars => NoLeak'
<1> SUFFICES ASSUME TypeOK, Places, NoLeak, TypeOK', [Next]_vars PROVE NoLeak'
    OBVIOUS
<1> SUFFICES \/ Leaked' \subseteq Leaked /\ faults' >= faults
             \/ Leaked' \subseteq Leaked \cup {conn} /\ faults' = faults + 1
             \/ Leaked' = {}
    <2>1. faults' \in Nat
        BY ServersAssumption DEF TypeOK
    <2> QED BY <2>1, LeakCounted
<1> DEFINE Goal == \/ Leaked' \subseteq Leaked /\ faults' >= faults
                   \/ Leaked' \subseteq Leaked \cup {conn} /\ faults' = faults + 1
                   \/ Leaked' = {}
<1>0. faults >= faults /\ NULL \notin held
    BY ServersAssumption DEF TypeOK
<1> USE <1>0 DEF Leaked, Holds
<1>1. CASE Accept
    BY <1>1 DEF Accept, Places, TypeOK
<1>2. CASE Answer
    BY <1>2 DEF Answer, Banner, Ends
<1>3. CASE Dispatch
    <2>1. PICK w \in Workers : /\ worker[w].st = "none"
                              /\ worker' = [worker EXCEPT ![w] = [st |-> "working", client |-> conn]]
        BY <1>3 DEF Dispatch, NewWorker, Is
    <2>2. \A c \in Clients : (\E v \in Workers : Holds(v, c)) => \E v \in Workers : Holds(v, c)'
        BY <2>1 DEF TypeOK
    <2>3. worker'[w].st = "working" /\ worker'[w].client = conn
        BY <2>1 DEF TypeOK
    <2>4. CASE prog = "thread"
        BY <1>3, <2>2, <2>3, <2>4 DEF Dispatch, TypeOK
    <2>5. CASE prog # "thread"
        BY <1>3, <2>5 DEF Dispatch
    <2> QED BY <2>4, <2>5
<1>4. CASE CloseConn
    BY <1>4 DEF CloseConn
<1>5. CASE ForkChild
    <2>1. prog # "thread" /\ prog' = prog /\ held' = held /\ conn' = conn /\ faults' = faults
        BY <1>5 DEF ForkChild, Places
    <2> QED BY <2>1
<1>6. CASE WaitChild
    <2>1. prog # "thread" /\ prog' = prog /\ held' = held /\ conn' = conn /\ faults' = faults
        BY <1>6 DEF WaitChild, Places
    <2> QED BY <2>1
<1>7. CASE HandlerStarts
    BY <1>7 DEF HandlerStarts, mainVars
<1>8. CASE signal_handler
    <2>1. \A v \in Workers : \A c : Holds(v, c) => Holds(v, c)'
        BY <1>8 DEF signal_handler, Reap, Is, Free, TypeOK
    <2> QED BY <1>8, <2>1 DEF signal_handler, mainVars
<1>9. CASE AcceptFails
    BY <1>9 DEF AcceptFails, Ends
<1>10. CASE DispatchFails
    BY <1>10 DEF DispatchFails, Ends
<1>11. ASSUME NEW w \in Workers, WorkerAccepts(w) PROVE Goal
    <2>1. \A v \in Workers : \A c : Holds(v, c) => Holds(v, c)'
        BY <1>11 DEF WorkerAccepts, TypeOK
    <2> QED BY <1>11, <2>1 DEF WorkerAccepts, mainVars
<1>12. ASSUME NEW w \in Workers, WorkerAnswers(w) PROVE Goal
    <2>1. CASE WorkerKilled(w) /\ prog = "thread"
        BY <2>1 DEF WorkerKilled, Ends
    <2>2. CASE WorkerKilled(w) /\ prog # "thread"
        BY <2>2 DEF WorkerKilled, mainVars
    <2>3. CASE WorkerWrites(w)
        <3>1. \A v \in Workers : \A c : Holds(v, c) => Holds(v, c)'
            BY <2>3 DEF WorkerWrites, Banner, TypeOK, Statuses
        <3> QED BY <2>3, <3>1 DEF WorkerWrites, Banner, mainVars
    <2> QED BY <1>12, <2>1, <2>2, <2>3 DEF WorkerAnswers
<1>13. ASSUME NEW w \in Workers, WorkerEchoes(w) PROVE Goal
    <2>1. \A v \in Workers : \A c : Holds(v, c) => Holds(v, c)'
        BY <1>13 DEF WorkerEchoes, TypeOK, Statuses
    <2> QED BY <1>13, <2>1 DEF WorkerEchoes, mainVars
<1>14. ASSUME NEW w \in Workers, WorkerEnds(w) PROVE Goal
    <2>1. CASE prog = "thread"
        <3>1. \A v \in Workers : \A c : c # worker[w].client /\ Holds(v, c) => Holds(v, c)'
            BY <1>14, <2>1 DEF WorkerEnds, TypeOK
        <3> QED BY <1>14, <2>1, <3>1 DEF WorkerEnds
    <2>2. CASE prog # "thread"
        BY <1>14, <2>2 DEF WorkerEnds
    <2> QED BY <2>1, <2>2
<1>15. ASSUME NEW w \in Workers, WorkerAcceptFails(w) PROVE Goal
    <2>1. \A v \in Workers : \A c : Holds(v, c) => Holds(v, c)'
        BY <1>15 DEF WorkerAcceptFails, TypeOK
    <2>2. faults' >= faults
        BY <1>15, ServersAssumption DEF WorkerAcceptFails, TypeOK
    <2> QED BY <1>15, <2>1, <2>2 DEF WorkerAcceptFails, mainVars
<1>16. ASSUME NEW c \in Clients, Connect(c) PROVE Goal
    BY <1>16 DEF Connect, mainVars
<1>17. ASSUME NEW c \in Clients, Leave(c) PROVE Goal
    BY <1>17 DEF Leave, mainVars
<1>18. CASE UNCHANGED vars
    BY <1>18 DEF vars, mainVars
<1> QED
    BY <1>1, <1>2, <1>3, <1>4, <1>5, <1>6, <1>7, <1>8, <1>9, <1>10, <1>11, <1>12, <1>13, <1>14,
       <1>15, <1>16, <1>17, <1>18
       DEF Next, Main, Worker

-----------------------------------------------------------------------------
(* Signals and zombies.                                                    *)

\* A child exits: whatever was owed before, now there is a zombie more.
LEMMA ExitOwed ==
    ASSUME TypeOK, SignalsOwed, HandlersReap, NEW w \in Workers, worker[w].st # "zombie", Exit(w),
           prog' = prog, handling' = handling, pc' = pc
    PROVE  SignalsOwed' /\ HandlersReap'
<1>1. w \in Is("zombie")' /\ w \notin Is("zombie") /\ \A v \in Is("zombie") : v \in Is("zombie")'
    BY DEF Is, Exit, TypeOK
<1>2. pending' = (HasHandler /\ pc # "ended") /\ (HasHandler' <=> HasHandler)
    BY DEF Exit, HasHandler
<1>3. SignalsOwed'
    BY <1>1, <1>2 DEF SignalsOwed
<1>4. HandlersReap'
    BY <1>1, <1>2 DEF HandlersReap, SignalsOwed, HasHandler
<1> QED
    BY <1>3, <1>4

\* Steps that neither send nor take a signal, unless the server ends, and reap nobody.
KeepsSignals ==
    /\ Is("zombie")' = Is("zombie") /\ UNCHANGED <<prog, handling>>
    /\ \/ UNCHANGED pending /\ (pc = "ended" => pc' = "ended")
       \/ pending' = FALSE /\ pc' = "ended"

\* They keep what the signal handler owes.
LEMMA SameZombies == ASSUME SignalsOwed, HandlersReap, KeepsSignals PROVE SignalsOwed' /\ HandlersReap'
<1>1. HasHandler' <=> HasHandler
    BY DEF KeepsSignals, HasHandler
<1>2. CASE UNCHANGED pending /\ (pc = "ended" => pc' = "ended")
    BY <1>1, <1>2 DEF KeepsSignals, SignalsOwed, HandlersReap
<1>3. CASE pending' = FALSE /\ pc' = "ended"
    BY <1>1, <1>3 DEF KeepsSignals, SignalsOwed, HandlersReap
<1> QED
    BY <1>2, <1>3 DEF KeepsSignals

\* Every SIGCHLD of server1.c has its zombie, and every zombie of tcp/server.c its SIGCHLD.
LEMMA OwedStep ==
    TypeOK /\ Places /\ SignalsOwed /\ HandlersReap /\ [Next]_vars => SignalsOwed' /\ HandlersReap'
<1> SUFFICES ASSUME TypeOK, Places, SignalsOwed, HandlersReap, [Next]_vars
             PROVE  SignalsOwed' /\ HandlersReap'
    OBVIOUS
<1> DEFINE Goal == SignalsOwed' /\ HandlersReap'
<1>1. CASE Accept
    <2>1. Is("zombie")' = Is("zombie")
        BY <1>1 DEF Accept, Is, TypeOK, Free, Statuses
    <2> QED BY <1>1, <2>1, SameZombies DEF KeepsSignals, Accept
<1>2. CASE Answer
    <2>1. CASE pc' = "ended"
        <3>1. Is("zombie")' = Is("zombie") /\ pc' = "ended" /\ pending' = FALSE /\ UNCHANGED <<prog, handling>>
            BY <1>2, <2>1 DEF Answer, Banner, Ends, Is
        <3> QED BY <3>1, SameZombies DEF KeepsSignals
    <2>2. CASE pc' = "close"
        <3>1. Is("zombie")' = Is("zombie")
            BY <1>2, <2>2 DEF Answer, Banner, Ends, Is
        <3> QED BY <1>2, <2>2, <3>1, SameZombies DEF KeepsSignals, Answer, Banner, Ends
    <2> QED BY <1>2, <2>1, <2>2 DEF Answer, Ends
<1>3. CASE Dispatch
    <2>1. Is("zombie")' = Is("zombie")
        BY <1>3 DEF Dispatch, NewWorker, Is, TypeOK, Free, Statuses
    <2> QED BY <1>3, <2>1, SameZombies DEF KeepsSignals, Dispatch, NewWorker, Is
<1>4. CASE CloseConn
    <2>1. Is("zombie")' = Is("zombie")
        BY <1>4 DEF CloseConn, Is, TypeOK, Free, Statuses
    <2> QED BY <1>4, <2>1, SameZombies DEF KeepsSignals, CloseConn
<1>5. CASE ForkChild
    <2>1. Is("zombie")' = Is("zombie")
        BY <1>5 DEF ForkChild, NewWorker, Is, TypeOK, Free, Statuses
    <2> QED BY <1>5, <2>1, SameZombies DEF KeepsSignals, ForkChild, NewWorker, Is
<1>6. CASE WaitChild
    <2>1. prog = "prefork"
        BY <1>6 DEF WaitChild, Places
    <2> QED BY <1>6, <2>1 DEF WaitChild, SignalsOwed, HandlersReap, HasHandler
<1>7. CASE HandlerStarts
    <2>1. Is("zombie")' = Is("zombie")
        BY <1>7 DEF HandlerStarts, Is
    <2> QED BY <1>7, <2>1 DEF HandlerStarts, mainVars, SignalsOwed, HandlersReap, HasHandler
<1>8. CASE signal_handler
    <2>1. ASSUME NEW w \in Is("zombie"), worker' = [worker EXCEPT ![w] = Free], handling' = (prog = "echo")
          PROVE  Goal
        <3>1. Is("zombie")' = Is("zombie") \ {w}
            BY <2>1 DEF Is, Free, TypeOK
        <3>2. UNCHANGED <<prog, pc, pending>> /\ handling
            BY <1>8 DEF signal_handler, mainVars
        <3>3. CASE prog = "echo"
            <4>1. handling' = TRUE
                BY <2>1, <3>3
            <4> QED BY <3>2, <3>3, <4>1 DEF SignalsOwed, HandlersReap, HasHandler
        <3>4. CASE prog = "fork"
            <4>1. handling' = FALSE
                BY <2>1, <3>4
            <4>2. pending => Is("zombie")' # {}
                BY <3>1, <3>2, <3>4 DEF SignalsOwed
            <4> QED BY <3>2, <3>4, <4>1, <4>2 DEF SignalsOwed, HandlersReap, HasHandler
        <3> QED BY <3>2, <3>3, <3>4 DEF SignalsOwed, HasHandler
    <2>2. CASE prog = "echo" /\ Is("zombie") = {} /\ handling' = FALSE /\ UNCHANGED worker
        <3>1. Is("zombie")' = {}
            BY <2>2 DEF Is
        <3> QED BY <1>8, <2>2, <3>1 DEF signal_handler, mainVars, SignalsOwed, HandlersReap, HasHandler
    <2> QED BY <1>8, <2>1, <2>2 DEF signal_handler, Reap
<1>9. CASE AcceptFails
    <2>1. CASE prog = "thread"
        BY <1>9, <2>1 DEF AcceptFails, Ends, SignalsOwed, HandlersReap, HasHandler
    <2>2. CASE prog # "thread"
        <3>1. Is("zombie")' = Is("zombie")
            BY <1>9, <2>2 DEF AcceptFails, Ends, Is
        <3> QED BY <1>9, <3>1, SameZombies DEF KeepsSignals, AcceptFails, Ends
    <2> QED BY <2>1, <2>2
<1>10. CASE DispatchFails
    <2>1. CASE prog = "echo"
        <3>1. Is("zombie")' = Is("zombie")
            BY <1>10, <2>1 DEF DispatchFails, Ends, Is
        <3> QED BY <1>10, <2>1, <3>1, SameZombies DEF KeepsSignals, DispatchFails, Ends
    <2>2. CASE prog # "echo"
        <3>1. Is("zombie")' = Is("zombie")
            BY <1>10, <2>2 DEF DispatchFails, Is
        <3> QED BY <1>10, <2>2, <3>1, SameZombies DEF KeepsSignals, DispatchFails
    <2> QED BY <2>1, <2>2
<1>11. ASSUME NEW w \in Workers, WorkerAccepts(w) PROVE Goal
    <2>1. Is("zombie")' = Is("zombie")
        BY <1>11 DEF WorkerAccepts, Is, TypeOK, Free, Statuses
    <2> QED BY <1>11, <2>1, SameZombies DEF KeepsSignals, WorkerAccepts, mainVars
<1>12. ASSUME NEW w \in Workers, WorkerAnswers(w) PROVE Goal
    <2>1. CASE WorkerKilled(w) /\ prog = "thread"
        BY <2>1 DEF WorkerKilled, Ends, SignalsOwed, HandlersReap, HasHandler
    <2>2. CASE WorkerKilled(w) /\ prog # "thread"
        BY <2>2, ExitOwed DEF WorkerKilled, mainVars
    <2>3. CASE WorkerWrites(w)
        <3>1. Is("zombie")' = Is("zombie")
            BY <2>3 DEF WorkerWrites, Banner, Is, TypeOK, Statuses
        <3> QED BY <2>3, <3>1, SameZombies DEF KeepsSignals, WorkerWrites, Banner, mainVars
    <2> QED BY <1>12, <2>1, <2>2, <2>3 DEF WorkerAnswers
<1>13. ASSUME NEW w \in Workers, WorkerEchoes(w) PROVE Goal
    <2>1. Is("zombie")' = Is("zombie")
        BY <1>13 DEF WorkerEchoes, Is, TypeOK, Free, Statuses
    <2> QED BY <1>13, <2>1, SameZombies DEF KeepsSignals, WorkerEchoes, mainVars
<1>14. ASSUME NEW w \in Workers, WorkerEnds(w) PROVE Goal
    <2>1. CASE prog = "thread"
        BY <1>14, <2>1 DEF WorkerEnds, SignalsOwed, HandlersReap, HasHandler
    <2>2. CASE prog # "thread"
        BY <1>14, <2>2, ExitOwed DEF WorkerEnds
    <2> QED BY <2>1, <2>2
<1>15. ASSUME NEW w \in Workers, WorkerAcceptFails(w) PROVE Goal
    <2>1. Is("zombie")' = Is("zombie")
        BY <1>15 DEF WorkerAcceptFails, Is, TypeOK, Free, Statuses
    <2> QED BY <1>15, <2>1, SameZombies DEF KeepsSignals, WorkerAcceptFails, mainVars
<1>16. ASSUME NEW c \in Clients, Connect(c) PROVE Goal
    <2>1. Is("zombie")' = Is("zombie")
        BY <1>16 DEF Connect, Is, TypeOK, Free, Statuses
    <2> QED BY <1>16, <2>1, SameZombies DEF KeepsSignals, Connect, mainVars
<1>17. ASSUME NEW c \in Clients, Leave(c) PROVE Goal
    <2>1. Is("zombie")' = Is("zombie")
        BY <1>17 DEF Leave, Is, TypeOK, Free, Statuses
    <2> QED BY <1>17, <2>1, SameZombies DEF KeepsSignals, Leave, mainVars
<1>18. CASE UNCHANGED vars
    <2>1. Is("zombie")' = Is("zombie")
        BY <1>18 DEF vars, Is
    <2> QED BY <1>18, <2>1, SameZombies DEF KeepsSignals, vars, mainVars
<1> QED
    BY <1>1, <1>2, <1>3, <1>4, <1>5, <1>6, <1>7, <1>8, <1>9, <1>10, <1>11, <1>12, <1>13, <1>14,
       <1>15, <1>16, <1>17, <1>18
       DEF Next, Main, Worker

-----------------------------------------------------------------------------
(* The pool of server3.c.                                                  *)

\* A child that goes on, or exits, is still there to be waited for.
LEMMA SameChildren ==
    ASSUME TypeOK, PoolCounted, NEW w \in Workers, worker[w].st # "none", NEW r, r.st # "none",
           worker' = [worker EXCEPT ![w] = r], UNCHANGED <<prog, pc, process_count>>
    PROVE  PoolCounted'
<1>1. Busy' = Busy
    BY DEF Busy, Is, TypeOK
<1> QED
    BY <1>1 DEF PoolCounted

\* The parent forks up to PROCESS_NUM children, and then one for each it has waited for.
LEMMA PoolStep == TypeOK /\ Places /\ SignalsOwed /\ PoolCounted /\ [Next]_vars => PoolCounted'
<1> SUFFICES ASSUME TypeOK, Places, SignalsOwed, PoolCounted, [Next]_vars PROVE PoolCounted'
    OBVIOUS
<1>0. IsFiniteSet(Busy) /\ Cardinality(Busy) \in Nat
    BY ServersAssumption, FS_Subset, FS_CardinalityType DEF Busy
<1>1. CASE Accept
    <2>1. prog # "prefork" /\ prog' = prog
        BY <1>1 DEF Accept, Places
    <2> QED BY <2>1 DEF PoolCounted
<1>2. CASE Answer
    <2>1. prog # "prefork" /\ prog' = prog
        BY <1>2 DEF Answer, Banner, Ends, Places
    <2> QED BY <2>1 DEF PoolCounted
<1>3. CASE Dispatch
    <2>1. prog # "prefork" /\ prog' = prog
        BY <1>3 DEF Dispatch, NewWorker, Is, Places
    <2> QED BY <2>1 DEF PoolCounted
<1>4. CASE CloseConn
    <2>1. prog # "prefork" /\ prog' = prog
        BY <1>4 DEF CloseConn, Places
    <2> QED BY <2>1 DEF PoolCounted
<1>5. CASE ForkChild
    <2>1. PICK w \in Workers : worker[w].st = "none" /\ worker' = [worker EXCEPT ![w].st = "accepting"]
        BY <1>5 DEF ForkChild, NewWorker, Is
    <2>2. w \notin Busy /\ Busy' = Busy \cup {w}
        BY <2>1 DEF Busy, Is, TypeOK, Statuses
    <2>3. Cardinality(Busy') = Cardinality(Busy) + 1
        BY <1>0, <2>2, FS_AddElement
    <2>4. prog = "prefork" /\ prog' = prog
        BY <1>5 DEF ForkChild, Places
    <2>5. \/ process_count < PROCESS_NUM /\ Cardinality(Busy) = process_count
          \/ process_count = PROCESS_NUM /\ Cardinality(Busy) = PROCESS_NUM - 1
        BY <1>5, <2>4 DEF ForkChild, PoolCounted
    <2>6. CASE process_count < PROCESS_NUM
        <3>1. process_count' = process_count + 1 /\ Cardinality(Busy') = process_count'
            BY <1>5, <2>3, <2>5, <2>6, ServersAssumption DEF ForkChild, TypeOK
        <3>2. pc' = IF process_count' >= PROCESS_NUM THEN "wait" ELSE "fork"
            BY <1>5 DEF ForkChild
        <3>3. process_count' <= PROCESS_NUM
            BY <2>6, <3>1, ServersAssumption DEF TypeOK
        <3>4. PROCESS_NUM \in Nat /\ process_count' \in Nat
            BY <3>1, ServersAssumption DEF TypeOK
        <3> QED BY <3>1, <3>2, <3>3, <3>4 DEF PoolCounted
    <2>7. CASE process_count = PROCESS_NUM
        <3>1. PROCESS_NUM \in Nat /\ ~(process_count < PROCESS_NUM)
            BY <2>7, ServersAssumption
        <3>2. process_count' = PROCESS_NUM /\ pc' = "wait"
            BY <1>5, <2>7, <3>1 DEF ForkChild
        <3>3. Cardinality(Busy') = PROCESS_NUM
            BY <2>3, <2>5, <2>7, <3>1
        <3> QED BY <3>2, <3>3 DEF PoolCounted
    <2> QED BY <2>5, <2>6, <2>7
<1>6. CASE WaitChild
    <2>1. PICK w \in Is("zombie") : worker' = [worker EXCEPT ![w] = Free]
        BY <1>6 DEF WaitChild
    <2>2. w \in Busy /\ Busy' = Busy \ {w}
        BY <2>1 DEF Busy, Is, TypeOK, Free
    <2>3. Cardinality(Busy') = Cardinality(Busy) - 1
        BY <1>0, <2>2, FS_RemoveElement
    <2>4. prog = "prefork" /\ UNCHANGED <<prog, process_count>> /\ pc' = "fork"
        BY <1>6 DEF WaitChild, Places
    <2>5. process_count = PROCESS_NUM /\ Cardinality(Busy) = PROCESS_NUM
        BY <1>6, <2>4 DEF WaitChild, PoolCounted
    <2> QED BY <2>3, <2>4, <2>5 DEF PoolCounted
<1>7. CASE HandlerStarts
    <2>1. prog # "prefork" /\ prog' = prog
        BY <1>7 DEF HandlerStarts, SignalsOwed, HasHandler
    <2> QED BY <2>1 DEF PoolCounted
<1>8. CASE signal_handler
    <2>1. prog # "prefork" /\ prog' = prog
        BY <1>8 DEF signal_handler, SignalsOwed, HasHandler
    <2> QED BY <2>1 DEF PoolCounted
<1>9. CASE AcceptFails
    <2>1. prog # "prefork" /\ prog' = prog
        BY <1>9 DEF AcceptFails, Ends, Places
    <2> QED BY <2>1 DEF PoolCounted
<1>10. CASE DispatchFails
    <2>1. prog # "prefork" /\ prog' = prog
        BY <1>10 DEF DispatchFails, Ends, Places
    <2> QED BY <2>1 DEF PoolCounted
<1>11. ASSUME NEW w \in Workers, WorkerAccepts(w) PROVE PoolCounted'
    BY <1>11, SameChildren DEF WorkerAccepts, mainVars
<1>12. ASSUME NEW w \in Workers, WorkerAnswers(w) PROVE PoolCounted'
    <2>1. CASE prog = "thread"
        BY <1>12, <2>1 DEF WorkerAnswers, WorkerWrites, WorkerKilled, Banner, Ends, PoolCounted
    <2>2. CASE WorkerKilled(w) /\ prog # "thread"
        BY <2>2, SameChildren DEF WorkerKilled, Exit, mainVars
    <2>3. CASE WorkerWrites(w) /\ prog # "thread"
        <3>1. worker' = [worker EXCEPT ![w] = [worker[w] EXCEPT !.st = "closing"]]
            BY <2>3 DEF WorkerWrites, Banner, TypeOK, Statuses
        <3>2. [worker[w] EXCEPT !.st = "closing"].st = "closing"
            BY DEF TypeOK, Statuses
        <3> QED BY <2>3, <3>1, <3>2, SameChildren DEF WorkerWrites, Banner, mainVars
    <2> QED BY <1>12, <2>1, <2>2, <2>3 DEF WorkerAnswers
<1>13. ASSUME NEW w \in Workers, WorkerEchoes(w) PROVE PoolCounted'
    <2>1. prog # "prefork" /\ prog' = prog
        BY <1>13 DEF WorkerEchoes
    <2> QED BY <2>1 DEF PoolCounted
<1>14. ASSUME NEW w \in Workers, WorkerEnds(w) PROVE PoolCounted'
    <2>1. CASE prog = "thread"
        BY <1>14, <2>1 DEF WorkerEnds, PoolCounted
    <2>2. CASE prog # "thread"
        BY <1>14, <2>2, SameChildren DEF WorkerEnds, Exit
    <2> QED BY <2>1, <2>2
<1>15. ASSUME NEW w \in Workers, WorkerAcceptFails(w) PROVE PoolCounted'
    <2>1. worker' = [worker EXCEPT ![w] = [worker[w] EXCEPT !.st = "closing"]]
        BY <1>15 DEF WorkerAcceptFails, TypeOK, Statuses
    <2>2. [worker[w] EXCEPT !.st = "closing"].st = "closing"
        BY DEF TypeOK, Statuses
    <2> QED BY <1>15, <2>1, <2>2, SameChildren DEF WorkerAcceptFails, mainVars
<1>16. ASSUME NEW c \in Clients, Connect(c) PROVE PoolCounted'
    <2>1. Busy' = Busy
        BY <1>16 DEF Connect, Busy, Is
    <2> QED BY <1>16, <2>1 DEF Connect, mainVars, PoolCounted
<1>17. ASSUME NEW c \in Clients, Leave(c) PROVE PoolCounted'
    <2>1. Busy' = Busy
        BY <1>17 DEF Leave, Busy, Is
    <2> QED BY <1>17, <2>1 DEF Leave, mainVars, PoolCounted
<1>18. CASE UNCHANGED vars
    <2>1. Busy' = Busy
        BY <1>18 DEF vars, Busy, Is
    <2> QED BY <1>18, <2>1 DEF vars, mainVars, PoolCounted
<1> QED
    BY <1>1, <1>2, <1>3, <1>4, <1>5, <1>6, <1>7, <1>8, <1>9, <1>10, <1>11, <1>12, <1>13, <1>14,
       <1>15, <1>16, <1>17, <1>18
       DEF Next, Main, Worker

-----------------------------------------------------------------------------
(* What ends a server.                                                     *)

\* With no call having failed, the main process of a server other than server2.c has
\* nothing open when it is about to accept, so that descriptors do not run out.
LEMMA NothingHeld ==
    ASSUME TypeOK, Places, NoLeak, faults = 0, prog # "thread", pc = "accept"
    PROVE  Cardinality(held) = 0
<1>1. IsFiniteSet(Leaked) /\ Cardinality(Leaked) = 0
    <2>1. IsFiniteSet(Leaked)
        BY ServersAssumption, FS_Subset DEF Leaked, TypeOK
    <2> QED BY <2>1, FS_CardinalityType DEF NoLeak
<1>2. Leaked = {}
    BY <1>1, FS_EmptySet
<1>3. held = {}
    BY <1>2, ServersAssumption DEF Leaked, Places, TypeOK
<1> QED
    BY <1>3, FS_EmptySet

\* The server ends by a failed call, or by a client that resets a server with threads or
\* without workers, or by too many threads.
LEMMA UpStep == TypeOK /\ Places /\ NoLeak /\ StaysUp /\ TypeOK' /\ [Next]_vars => StaysUp'
<1> SUFFICES ASSUME TypeOK, Places, NoLeak, StaysUp, TypeOK', [Next]_vars PROVE StaysUp'
    OBVIOUS
<1> USE DEF StaysUp, InProcess
<1>1. CASE Accept
    BY <1>1 DEF Accept
<1>2. CASE Answer
    <2>1. CASE pc' = "ended"
        <3>1. conn \in Clients
            BY <1>2 DEF Answer, Banner, Places, TypeOK
        <3> QED BY <1>2, <2>1, <3>1 DEF Answer, Banner, Ends
    <2>2. CASE pc' = "close"
        BY <1>2, <2>2 DEF Answer, Banner
    <2> QED BY <1>2, <2>1, <2>2 DEF Answer, Ends
<1>3. CASE Dispatch
    BY <1>3 DEF Dispatch, NewWorker, Is
<1>4. CASE CloseConn
    BY <1>4 DEF CloseConn
<1>5. CASE ForkChild
    BY <1>5 DEF ForkChild, NewWorker, Is
<1>6. CASE WaitChild
    BY <1>6 DEF WaitChild, Is, Free
<1>7. CASE HandlerStarts
    BY <1>7 DEF HandlerStarts, mainVars
<1>8. CASE signal_handler
    BY <1>8 DEF signal_handler, mainVars, Reap, Is, Free
<1>9. CASE AcceptFails
    <2>1. CASE faults < MaxFaults /\ faults' = faults + 1
        <3>1. faults' # 0
            BY <2>1 DEF TypeOK
        <3> QED BY <3>1
    <2>2. CASE Cardinality(held) = MaxHeld /\ UNCHANGED faults
        <3>1. prog = "thread" \/ faults # 0
            BY <1>9, <2>2, NothingHeld, ServersAssumption DEF AcceptFails
        <3> QED BY <1>9, <2>2, <3>1 DEF AcceptFails, Ends
    <2> QED BY <1>9, <2>1, <2>2 DEF AcceptFails
<1>10. CASE DispatchFails
    <2>1. faults' # 0
        BY <1>10 DEF DispatchFails, TypeOK
    <2> QED BY <2>1
<1>11. ASSUME NEW w \in Workers, WorkerAccepts(w) PROVE StaysUp'
    BY <1>11 DEF WorkerAccepts, mainVars
<1>12. ASSUME NEW w \in Workers, WorkerAnswers(w) PROVE StaysUp'
    <2>1. CASE prog = "thread"
        BY <1>12, <2>1 DEF WorkerAnswers, WorkerWrites, WorkerKilled, Banner, Ends, mainVars
    <2>2. CASE prog # "thread"
        BY <1>12, <2>2 DEF WorkerAnswers, WorkerWrites, WorkerKilled, Banner, mainVars
    <2> QED BY <1>12, <2>1, <2>2 DEF WorkerAnswers
<1>13. ASSUME NEW w \in Workers, WorkerEchoes(w) PROVE StaysUp'
    BY <1>13 DEF WorkerEchoes, mainVars
<1>14. ASSUME NEW w \in Workers, WorkerEnds(w) PROVE StaysUp'
    BY <1>14 DEF WorkerEnds, Exit, Free, HasHandler
<1>15. ASSUME NEW w \in Workers, WorkerAcceptFails(w) PROVE StaysUp'
    <2>1. faults' # 0
        BY <1>15 DEF WorkerAcceptFails, TypeOK
    <2> QED BY <2>1
<1>16. ASSUME NEW c \in Clients, Connect(c) PROVE StaysUp'
    BY <1>16 DEF Connect, mainVars, TypeOK
<1>17. ASSUME NEW c \in Clients, Leave(c) PROVE StaysUp'
    BY <1>17 DEF Leave, mainVars, TypeOK
<1>18. CASE UNCHANGED vars
    BY <1>18 DEF vars, mainVars
<1> QED
    BY <1>1, <1>2, <1>3, <1>4, <1>5, <1>6, <1>7, <1>8, <1>9, <1>10, <1>11, <1>12, <1>13, <1>14,
       <1>15, <1>16, <1>17, <1>18
       DEF Next, Main, Worker

-----------------------------------------------------------------------------
\* Every execution of the five servers keeps IndInv.
THEOREM Invariance == Spec => []IndInv
<1>1. IndInv /\ [Next]_vars => IndInv'
    BY TypeStep, PlacesStep, LeakStep, OwedStep, PoolStep, UpStep DEF IndInv
<1> QED
    BY InitInv, <1>1, PTL DEF Spec

\* Each failed fork() or pthread_create() leaves at most one connection open, and nothing
\* else does (server1.c:187-210, server2.c:160-193, tcp/server.c:106).
THEOREM NothingElseLeaks == Spec => []NoLeak
<1>1. IndInv => NoLeak
    BY DEF IndInv
<1> QED
    BY Invariance, <1>1, PTL

\* The wait() in the handler of server1.c never blocks, and tcp/server.c leaves no zombie
\* without a signal or a handler, however signals merge (server1.c:223-231,
\* tcp/server.c:113-120).
THEOREM HandlersAlwaysReap == Spec => []HandlersReap
<1>1. IndInv => HandlersReap
    BY DEF IndInv
<1> QED
    BY Invariance, <1>1, PTL

\* server3.c never has more than PROCESS_NUM children, and waits only with all of them
\* there (server3.c:125-179).
THEOREM PoolAlwaysBounded == Spec => []PoolBounded
<1>1. IndInv => PoolBounded
    <2> SUFFICES ASSUME IndInv, prog = "prefork" PROVE PoolBounded
        BY DEF PoolBounded
    <2>1. pc \in {"fork", "wait"} /\ PROCESS_NUM \in Nat /\ process_count \in Nat
        BY ServersAssumption DEF IndInv, Places, TypeOK
    <2>2. Cardinality(Busy) <= PROCESS_NUM /\ (pc = "wait" => Cardinality(Busy) = PROCESS_NUM)
        BY <2>1 DEF IndInv, PoolCounted
    <2> QED BY <2>2 DEF PoolBounded, Busy
<1> QED
    BY Invariance, <1>1, PTL

\* Without failed calls, clients end only the servers that answer in their own process
\* (server.c:119-151, server2.c:122-190).
THEOREM ServersStayUp == Spec => []StaysUp
<1>1. IndInv => StaysUp
    BY DEF IndInv
<1> QED
    BY Invariance, <1>1, PTL
=============================================================================
