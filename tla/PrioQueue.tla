----------------------------- MODULE PrioQueue ------------------------------
(***************************************************************************)
(* What a POSIX message queue promises about its messages: a bounded queue *)
(* that delivers the highest priority first and, within a priority, the    *)
(* message that was sent first.  One FIFO per priority; no list, no free   *)
(* slots, no waiting.                                                      *)
(***************************************************************************)
EXTENDS Integers, Sequences, FiniteSets

CONSTANTS Threads, Messages, Priorities, MaxMsg, Nothing

VARIABLES
    fifo,     \* for each priority the messages sent and not yet received
    got       \* what each thread has received last: [prio, msg], or Nothing

Waiting == {w \in Priorities \X (1..MaxMsg) : w[2] <= Len(fifo[w[1]])}

Init == fifo = [p \in Priorities |-> <<>>] /\ got = [t \in Threads |-> Nothing]

Send(p, m) ==
    /\ Cardinality(Waiting) < MaxMsg
    /\ fifo' = [fifo EXCEPT ![p] = Append(@, m)]
    /\ UNCHANGED got

Receive(t, p) ==
    /\ fifo[p] # <<>> /\ \A q \in Priorities : q > p => fifo[q] = <<>>
    /\ got' = [got EXCEPT ![t] = [prio |-> p, msg |-> Head(fifo[p])]]
    /\ fifo' = [fifo EXCEPT ![p] = Tail(@)]

Next == \/ \E p \in Priorities, m \in Messages : Send(p, m)
        \/ \E t \in Threads, p \in Priorities : Receive(t, p)

Spec == Init /\ [][Next]_<<fifo, got>>
=============================================================================
