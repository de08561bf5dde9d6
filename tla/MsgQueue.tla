------------------------------ MODULE MsgQueue ------------------------------
(***************************************************************************)
(* The message queue of unpv22e/my_pxmsg_mmap: processes that share a      *)
(* mapped file with a list of messages, a list of free slots, one mutex    *)
(* and one condition variable for senders and receivers alike.             *)
(*                                                                         *)
(* A function locks the mutex first, so a step is what happens up to the   *)
(* unlock or to pthread_cond_wait().  A call that fails (EAGAIN, EMSGSIZE, *)
(* EBUSY, EBADF) changes nothing and is no step.  Each process has one     *)
(* thread and opens the queue once; what it may do is its role.            *)
(***************************************************************************)
EXTENDS Integers, Sequences, FiniteSets

CONSTANTS
    Procs,
    Roles,           \* which processes may send, and which receive
    Priorities,
    MaxMsg,          \* mq_maxmsg
    MaxSends,        \* bound: calls of mymq_send()
    MaxReceives,     \* bound: calls of mymq_receive()
    MaxDeaths,       \* bound: processes that die
    MaxOthers,       \* bound: calls of mymq_setattr(), mymq_notify() and mymq_close()
    NULL

ASSUME QueueAssumption ==
    /\ IsFiniteSet(Procs) /\ NULL \notin Procs
    /\ Roles \subseteq (SUBSET Procs) \X (SUBSET Procs)
    /\ Priorities \subseteq Nat /\ MaxMsg \in Nat \ {0}
    /\ MaxSends \in Nat /\ MaxReceives \in Nat /\ MaxDeaths \in Nat /\ MaxOthers \in Nat

Slots == 1 .. MaxMsg                       \* indexes into the file; 0 ends a list
Messages == 1 .. MaxSends                  \* in the order of the calls

VARIABLES
    senders, receivers,          \* which processes send, and which receive
    head, free, next, slot,      \* mqh_head, mqh_free, msg_next, and [prio, msg] of each slot
    curmsgs, nwait,              \* mq_curmsgs, mqh_nwait
    pid,                         \* mqh_pid: the process registered for notification
    signalled,                   \* processes sent the signal they registered for
    st,                          \* what each process is doing
    arg,                         \* the message a blocked sender holds
    nonblock,                    \* O_NONBLOCK in mqi_flags
    got,                         \* what mymq_receive() last returned
    sends, receives, deaths, others

queueVars == <<head, free, next, slot, curmsgs>>
limits == <<deaths, others>>
vars == <<senders, receivers, queueVars, nwait, pid, signalled, st, arg, nonblock, got,
          sends, receives, limits>>

In(s) == {p \in Procs : st[p] = s}
Alive(p) == st[p] \notin {"dead", "deadrcv"}

\* The slots of the list that starts at index h, in order, with nx for msg_next.
Walk(nx, h) ==
    LET nth[k \in 1 .. (MaxMsg + 1)] ==
            IF k = 1 THEN h ELSE IF nth[k - 1] = 0 THEN 0 ELSE nx[nth[k - 1]]
    IN  [k \in 1 .. Cardinality({j \in 1 .. MaxMsg : nth[j] # 0}) |-> nth[k]]

Chain(h) == Walk(next, h)

\* The messages in the order of their list.
Queue == LET c == Chain(head) IN [k \in DOMAIN c |-> slot[c[k]]]

-----------------------------------------------------------------------------
\* mymq_open() has put all slots on the free list.
Init ==
    /\ \E r \in Roles : senders = r[1] /\ receivers = r[2]
    /\ head = 0 /\ free = 1 /\ next = [s \in Slots |-> IF s < MaxMsg THEN s + 1 ELSE 0]
    /\ slot = [s \in Slots |-> NULL] /\ curmsgs = 0 /\ nwait = 0
    /\ pid = NULL /\ signalled = {}
    /\ st = [p \in Procs |-> "idle"] /\ arg = [p \in Procs |-> NULL]
    /\ nonblock = [p \in Procs |-> FALSE] /\ got = [p \in Procs |-> NULL]
    /\ sends = 0 /\ receives = 0
    /\ deaths = 0 /\ others = 0

\* pthread_cond_signal(&mqh_wait) wakes one process, sender or receiver.
Woken(s) == IF s = "sndsleep" THEN "sndwoken" ELSE "rcvwoken"
Signal(f) == LET S == {q \in Procs : f[q] \in {"sndsleep", "rcvsleep"}} IN
             \/ \E q \in S : st' = [f EXCEPT ![q] = Woken(f[q])]
             \/ S = {} /\ st' = f

\* Mutant: a new message goes in front of those of its own priority.
Place_BeforeEqual(n) ==
    LET e == Queue IN
    CHOOSE k \in 1 .. (Len(e) + 1) :
        /\ k <= Len(e) => n.prio >= e[k].prio
        /\ \A j \in 1 .. (k - 1) : ~(n.prio >= e[j].prio)

\* Where the walk through the list stops: at the first message of lower priority.
Place(n) ==
    LET e == Queue IN
    CHOOSE k \in 1 .. (Len(e) + 1) :
        /\ k <= Len(e) => n.prio > e[k].prio
        /\ \A j \in 1 .. (k - 1) : ~(n.prio > e[j].prio)

\* Message n takes the first free slot and is linked in at its place.
Link(n) ==
    LET c == Chain(head)
        k == Place(n)
        after == IF k <= Len(c) THEN c[k] ELSE 0
    IN  /\ free' = next[free]
        /\ slot' = [slot EXCEPT ![free] = n]
        /\ head' = IF k = 1 THEN free ELSE head
        /\ next' = [s \in Slots |-> IF s = free THEN after
                                    ELSE IF k > 1 /\ s = c[k - 1] THEN free ELSE next[s]]

\* The second half of mymq_send(); free = 0 would dump core, see ListsPartition.
Enqueue(p, n) ==
    /\ free # 0
    /\ Link(n)
    /\ curmsgs' = curmsgs + 1
    /\ IF curmsgs = 0 THEN Signal([st EXCEPT ![p] = "idle"])
                      ELSE st' = [st EXCEPT ![p] = "idle"]
    /\ arg' = [arg EXCEPT ![p] = NULL]

\* The message arrives in an empty queue and nobody waits for it: the registered
\* process is sent its signal and is no longer registered.
Notify ==
    IF curmsgs = 0 /\ pid # NULL /\ nwait = 0
    THEN signalled' = signalled \cup {pid} /\ pid' = NULL
    ELSE UNCHANGED <<signalled, pid>>

mq_send(p, prio) ==
    LET n == [prio |-> prio, msg |-> sends + 1] IN
    /\ p \in senders /\ st[p] = "idle" /\ sends < MaxSends
    /\ sends' = sends + 1
    /\ \/ curmsgs < MaxMsg /\ Notify /\ Enqueue(p, n)
       \/ /\ curmsgs >= MaxMsg /\ ~nonblock[p]
          /\ st' = [st EXCEPT ![p] = "sndsleep"] /\ arg' = [arg EXCEPT ![p] = n]
          /\ UNCHANGED <<queueVars, signalled, pid>>
    /\ UNCHANGED <<senders, receivers, nwait, nonblock, got, receives, limits>>

\* A sender that has waited does not look at the registration again.
mq_send_wakes(p) ==
    /\ st[p] = "sndwoken"
    /\ IF curmsgs >= MaxMsg THEN st' = [st EXCEPT ![p] = "sndsleep"] /\ UNCHANGED <<queueVars, arg>>
                            ELSE Enqueue(p, arg[p])
    /\ UNCHANGED <<senders, receivers, nwait, pid, signalled, nonblock, got, sends, receives, limits>>

\* Mutant: the slot is not put back on the free list.
Unlink_Leaks ==
    /\ head' = next[head] /\ next' = [next EXCEPT ![head] = 0] /\ UNCHANGED <<free, slot>>

\* The first message leaves; its slot goes to the front of the free list, where
\* what it still holds is never read.
Unlink ==
    /\ head' = next[head] /\ next' = [next EXCEPT ![head] = free] /\ free' = head
    /\ slot' = [slot EXCEPT ![head] = NULL]

\* Mutant: a receiver that makes room does not wake a sender.
RoomSignal_Never(f) == st' = f

\* A sender can only be waiting if the queue was full.
RoomSignal(f) == IF curmsgs = MaxMsg THEN Signal(f) ELSE st' = f

\* The second half of mymq_receive().
Dequeue(p) ==
    /\ head # 0
    /\ got' = [got EXCEPT ![p] = slot[head]]
    /\ Unlink
    /\ RoomSignal([st EXCEPT ![p] = "idle"])
    /\ curmsgs' = curmsgs - 1

mq_receive(p) ==
    /\ p \in receivers /\ st[p] = "idle" /\ receives < MaxReceives
    /\ receives' = receives + 1
    /\ \/ curmsgs > 0 /\ Dequeue(p) /\ UNCHANGED nwait
       \/ /\ curmsgs = 0 /\ ~nonblock[p]
          /\ nwait' = nwait + 1 /\ st' = [st EXCEPT ![p] = "rcvsleep"]
          /\ UNCHANGED <<queueVars, got>>
    /\ UNCHANGED <<senders, receivers, pid, signalled, arg, nonblock, sends, limits>>

\* Mutant: mqh_nwait is not decremented after the wait.
mq_receive_wakes_KeepsCount(p) ==
    /\ st[p] = "rcvwoken"
    /\ IF curmsgs = 0 THEN st' = [st EXCEPT ![p] = "rcvsleep"] /\ UNCHANGED <<queueVars, got>>
                      ELSE Dequeue(p)
    /\ UNCHANGED <<senders, receivers, nwait, pid, signalled, arg, nonblock, sends, receives, limits>>

mq_receive_wakes(p) ==
    /\ st[p] = "rcvwoken"
    /\ IF curmsgs = 0
       THEN st' = [st EXCEPT ![p] = "rcvsleep"] /\ UNCHANGED <<queueVars, got, nwait>>
       ELSE nwait' = nwait - 1 /\ Dequeue(p)
    /\ UNCHANGED <<senders, receivers, pid, signalled, arg, nonblock, sends, receives, limits>>

\* Registration succeeds unless a living process is registered.
mq_notify(p) ==
    /\ st[p] = "idle" /\ others < MaxOthers /\ others' = others + 1
    /\ pid \notin {q \in Procs : Alive(q)}
    /\ pid' = p /\ signalled' = signalled \ {p}
    /\ UNCHANGED <<senders, receivers, queueVars, nwait, st, arg, nonblock, got, sends, receives, deaths>>

\* mymq_notify(NULL), and with it mymq_close(), which then unmaps the queue.
Unregistered(p) == IF pid = p THEN NULL ELSE pid

mq_notify_null(p) ==
    /\ st[p] = "idle" /\ others < MaxOthers /\ others' = others + 1
    /\ pid' = Unregistered(p)
    /\ UNCHANGED <<senders, receivers, queueVars, nwait, signalled, st, arg, nonblock, got, sends, receives, deaths>>

mq_close(p) ==
    /\ st[p] = "idle" /\ others < MaxOthers /\ others' = others + 1
    /\ st' = [st EXCEPT ![p] = "closed"] /\ pid' = Unregistered(p)
    /\ UNCHANGED <<senders, receivers, queueVars, nwait, signalled, arg, nonblock, got, sends, receives, deaths>>

mq_setattr(p) ==
    /\ st[p] = "idle" /\ others < MaxOthers /\ others' = others + 1
    /\ nonblock' = [nonblock EXCEPT ![p] = ~@]
    /\ UNCHANGED <<senders, receivers, queueVars, nwait, pid, signalled, st, arg, got, sends, receives, deaths>>

\* A process is killed outside the critical sections: its registration and, if it
\* was waiting in mymq_receive(), its place in mqh_nwait stay behind.
Dies(p) ==
    /\ Alive(p) /\ deaths < MaxDeaths /\ deaths' = deaths + 1
    /\ st' = [st EXCEPT ![p] = IF @ \in {"rcvsleep", "rcvwoken"} THEN "deadrcv" ELSE "dead"]
    /\ UNCHANGED <<senders, receivers, queueVars, nwait, pid, signalled, arg, nonblock, got, sends, receives, others>>

SpuriousWakeup(p) ==
    /\ st[p] \in {"sndsleep", "rcvsleep"} /\ st' = [st EXCEPT ![p] = Woken(@)]
    /\ UNCHANGED <<senders, receivers, queueVars, nwait, pid, signalled, arg, nonblock, got, sends, receives, limits>>

Wakes(p) == mq_send_wakes(p) \/ mq_receive_wakes(p)

Next == \E p \in Procs :
            \/ \E prio \in Priorities : mq_send(p, prio)
            \/ mq_receive(p) \/ Wakes(p) \/ SpuriousWakeup(p)
            \/ mq_notify(p) \/ mq_notify_null(p) \/ mq_setattr(p) \/ mq_close(p) \/ Dies(p)

Spec == Init /\ [][Next]_vars

\* A woken process gets the mutex.
FairSpec == Spec /\ \A p \in Procs : WF_vars(Wakes(p))

-----------------------------------------------------------------------------
Message == [prio : Priorities, msg : Messages]

\* The variables keep to their C types.
TypeOK ==
    /\ senders \subseteq Procs /\ receivers \subseteq Procs
    /\ head \in 0..MaxMsg /\ free \in 0..MaxMsg /\ next \in [Slots -> 0..MaxMsg]
    /\ slot \in [Slots -> Message \cup {NULL}]
    /\ curmsgs \in 0..MaxMsg /\ nwait \in 0..Cardinality(Procs)
    /\ pid \in Procs \cup {NULL} /\ signalled \subseteq Procs
    /\ st \in [Procs -> {"idle", "sndsleep", "sndwoken", "rcvsleep", "rcvwoken", "closed", "dead", "deadrcv"}]
    /\ arg \in [Procs -> Message \cup {NULL}] /\ nonblock \in [Procs -> BOOLEAN]
    /\ got \in [Procs -> Message \cup {NULL}]

\* The two lists share the slots out between them and mq_curmsgs counts one of
\* them: neither err_dump() (mq_send.c:57, mq_receive.c:49) is ever reached, and
\* no slot is lost however long the queue is used.
ListsPartition ==
    LET used == Chain(head)
        unused == Chain(free)
        both == used \o unused
    IN  /\ Len(used) = curmsgs /\ Len(both) = MaxMsg
        /\ {both[k] : k \in DOMAIN both} = Slots

\* A message that arrives in an empty queue while no living process waits in
\* mymq_receive() ends the registration and signals the registered process
\* (mq_send.c:34-42).  Two cases are left out because the code misses them: a
\* receiver that died waiting, still in mqh_nwait, and a sender that had to wait.
ArrivalNotifies ==
    [][curmsgs = 0 /\ curmsgs' = 1 /\ pid # NULL
         /\ In("rcvsleep") \cup In("rcvwoken") \cup In("deadrcv") = {}
         /\ sends' # sends
       => pid' = NULL /\ pid \in signalled']_vars

\* One sender and one receiver, both alive.
Pair == /\ Cardinality(senders) <= 1 /\ Cardinality(receivers) <= 1
        /\ In("dead") \cup In("deadrcv") = {}

\* Between one sender and one receiver the signals at "empty" and "full" suffice: a
\* blocked call returns once there is a message, or room, for it (mq_send.c:82-84,
\* mq_receive.c:62-64).  With two receivers asleep, the second of two messages
\* wakes nobody.
BlockedReturn ==
    \A p \in Procs :
        /\ Pair /\ st[p] \in {"rcvsleep", "rcvwoken"} /\ curmsgs > 0 ~> st[p] = "idle" \/ ~Pair
        /\ Pair /\ st[p] \in {"sndsleep", "sndwoken"} /\ curmsgs < MaxMsg ~> st[p] = "idle" \/ ~Pair

\* The messages of priority q stand together, behind those of higher priority.
Fifo(e, q) ==
    LET before == Cardinality({k \in DOMAIN e : e[k].prio > q})
        those == Cardinality({k \in DOMAIN e : e[k].prio = q})
    IN  [j \in 1 .. those |-> e[before + j].msg]

\* The lists in the mapped file implement one FIFO for each priority.
Abstract == INSTANCE PrioQueue WITH
    Threads <- Procs, Nothing <- NULL, fifo <- [q \in Priorities |-> Fifo(Queue, q)]

RefinesQueue == Abstract!Spec
=============================================================================
