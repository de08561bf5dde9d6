-------------------------------- MODULE Relay --------------------------------
(***************************************************************************)
(* What the chat relay promises: every chunk taken from a member is queued,*)
(* with a header in front, for every other member, once and in the order   *)
(* of taking; queued units are handed over in order; a member that leaves  *)
(* loses what is still queued for it.                                      *)
(***************************************************************************)
EXTENDS Integers, Sequences

CONSTANTS Clients, MaxSend

VARIABLES members,   \* the clients that take part
          taken,     \* how many units have been taken from each client
          queue,     \* the units waiting for each member
          handed     \* the units handed over to each client

rvars == <<members, taken, queue, handed>>

Header(c, n) == [kind |-> "header", src |-> c, num |-> n]
Data(c, k)   == [kind |-> "data", src |-> c, num |-> k]
Sorry(c)     == [kind |-> "error", src |-> c, num |-> 0]

Init == /\ members = {}
        /\ taken = [c \in Clients |-> 0]
        /\ queue = [c \in Clients |-> <<>>]
        /\ handed = [c \in Clients |-> <<>>]

\* A newcomer starts with nothing: what was said before is not for it.
Join(c) ==
    /\ c \notin members /\ handed[c] = <<>>
    /\ members' = members \cup {c}
    /\ UNCHANGED <<taken, queue, handed>>

Refuse(c) ==
    /\ c \notin members /\ handed[c] = <<>>
    /\ handed' = [handed EXCEPT ![c] = <<Sorry(c)>>]
    /\ UNCHANGED <<members, taken, queue>>

Publish(s, n) ==
    LET frame == <<Header(s, n)>> \o [k \in 1..n |-> Data(s, taken[s] + k)] IN
    /\ s \in members
    /\ taken' = [taken EXCEPT ![s] = @ + n]
    /\ queue' = [c \in Clients |-> IF c \in members \ {s} THEN queue[c] \o frame ELSE queue[c]]
    /\ UNCHANGED <<members, handed>>

HandOver(c, n) ==
    /\ c \in members
    /\ handed' = [handed EXCEPT ![c] = @ \o SubSeq(queue[c], 1, n)]
    /\ queue' = [queue EXCEPT ![c] = SubSeq(@, n + 1, Len(@))]
    /\ UNCHANGED <<members, taken>>

Leave(C) ==
    /\ members' = members \ C
    /\ queue' = [c \in Clients |-> IF c \in C THEN <<>> ELSE queue[c]]
    /\ UNCHANGED <<taken, handed>>

Next == \/ \E c \in Clients : Join(c) \/ Refuse(c) \/ Leave({c})
        \/ \E c \in members : \E n \in 1..(MaxSend - taken[c]) : Publish(c, n)
        \/ \E c \in members : \E n \in 1..Len(queue[c]) : HandOver(c, n)
        \/ Leave(Clients)

Spec == Init /\ [][Next]_rvars
=============================================================================
