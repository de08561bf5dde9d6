------------------------------ MODULE CondWait ------------------------------
(***************************************************************************)
(* Threads that wait on a condition variable until there is something to   *)
(* take, in three programs that differ in how the supplier wakes them:     *)
(*   "test3"  2012.04.09/cond/test3.c: one signal, after the unlock;       *)
(*   "test4"  2012.04.09/cond/test4.c: a broadcast, after the unlock;      *)
(*   "mysem"  unpv22e/my_pxsem_mmap: mysem_wait() and mysem_post(), which   *)
(*            signals under the lock, and only if the count was zero.      *)
(* `count' is the length of the list at head, or sem_count: what is told   *)
(* apart is how much there is to take, not which message it is.            *)
(***************************************************************************)
EXTENDS Integers, FiniteSets

CONSTANTS
    Consumers, Producers,
    Programs,       \* the programs considered
    MaxItems,       \* bound: what each producer supplies
    MaxTakes        \* bound: what each consumer takes

ASSUME CondAssumption ==
    /\ IsFiniteSet(Consumers) /\ IsFiniteSet(Producers)
    /\ Programs \subseteq {"test3", "test4", "mysem"}
    /\ MaxItems \in Nat /\ MaxTakes \in Nat

VARIABLES
    prog,
    active,         \* the consumers this run of the program has
    count,
    st,             \* each consumer: "idle", "asleep" or "woken"
    pst,            \* each producer: "idle", or "signal" when its signal is due
    made, taken     \* by each producer and consumer

waitVars == <<prog, active, count, st, pst, made, taken>>

In(s) == {c \in Consumers : st[c] = s}
Due == {p \in Producers : pst[p] = "signal"}

WaitInit ==
    /\ prog \in Programs /\ active \in SUBSET Consumers /\ count = 0
    /\ st = [c \in Consumers |-> "idle"] /\ pst = [p \in Producers |-> "idle"]
    /\ made = [p \in Producers |-> 0] /\ taken = [c \in Consumers |-> 0]

Take(c) ==
    /\ count' = count - 1
    /\ st' = [st EXCEPT ![c] = "idle"] /\ taken' = [taken EXCEPT ![c] = @ + 1]

Sleep(c) == st' = [st EXCEPT ![c] = "asleep"] /\ UNCHANGED <<count, taken>>

\* A consumer locks the mutex; it takes what there is, or sleeps.
Consume(c) ==
    /\ c \in active /\ st[c] = "idle" /\ taken[c] < MaxTakes
    /\ IF count = 0 THEN Sleep(c) ELSE Take(c)
    /\ UNCHANGED <<prog, active, pst, made>>

\* pthread_cond_wait() returns with the mutex locked; the while tests again.
Wakes(c) ==
    /\ st[c] = "woken"
    /\ IF count = 0 THEN Sleep(c) ELSE Take(c)
    /\ UNCHANGED <<prog, active, pst, made>>

\* mysem_trywait(): EAGAIN, without effect, when there is nothing.
mysem_trywait(c) ==
    /\ prog = "mysem" /\ c \in active /\ st[c] = "idle" /\ taken[c] < MaxTakes
    /\ count > 0 /\ Take(c)
    /\ UNCHANGED <<prog, active, pst, made>>

\* pthread_cond_signal()
Signal == \/ \E c \in In("asleep") : st' = [st EXCEPT ![c] = "woken"]
          \/ In("asleep") = {} /\ UNCHANGED st

Supply(p) ==
    /\ pst[p] = "idle" /\ made[p] < MaxItems
    /\ made' = [made EXCEPT ![p] = @ + 1] /\ count' = count + 1

\* The list grows under the lock; the signal comes after the unlock.
Produce(p) ==
    /\ prog \in {"test3", "test4"} /\ Supply(p)
    /\ pst' = [pst EXCEPT ![p] = "signal"]
    /\ UNCHANGED <<prog, active, st, taken>>

\* Mutant: as in mysem_post(), a supplier that finds something there does not signal.
ProducerSignals_OnlyFirst(p) ==
    /\ pst[p] = "signal"
    /\ pst' = [pst EXCEPT ![p] = "idle"]
    /\ IF count <= 1 THEN Signal ELSE UNCHANGED st
    /\ UNCHANGED <<prog, active, count, made, taken>>

ProducerSignals(p) ==
    /\ pst[p] = "signal"
    /\ pst' = [pst EXCEPT ![p] = "idle"]
    /\ IF prog = "test3" THEN Signal
       ELSE st' = [c \in Consumers |-> IF st[c] = "asleep" THEN "woken" ELSE st[c]]
    /\ UNCHANGED <<prog, active, count, made, taken>>

mysem_post(p) ==
    /\ prog = "mysem" /\ Supply(p)
    /\ IF count = 0 THEN Signal ELSE UNCHANGED st
    /\ UNCHANGED <<prog, active, pst, taken>>

\* pthread_cond_wait() may return without a signal.
SpuriousWakeup(c) ==
    /\ st[c] = "asleep" /\ st' = [st EXCEPT ![c] = "woken"]
    /\ UNCHANGED <<prog, active, count, pst, made, taken>>

WaitNext == \/ \E c \in Consumers : Consume(c) \/ Wakes(c) \/ mysem_trywait(c) \/ SpuriousWakeup(c)
        \/ \E p \in Producers : Produce(p) \/ ProducerSignals(p) \/ mysem_post(p)

\* A woken thread gets the mutex, and a producer goes on to its signal.
WaitFairness == /\ \A c \in Consumers : WF_waitVars(Wakes(c))
            /\ \A p \in Producers : WF_waitVars(ProducerSignals(p))

WaitSpec == WaitInit /\ [][WaitNext]_waitVars

WaitFairSpec == WaitSpec /\ WaitFairness

-----------------------------------------------------------------------------
\* The variables keep to their types; in particular a consumer never takes from
\* an empty list (a NULL head) and sem_count, unsigned, never falls below 0.
WaitTypeOK ==
    /\ prog \in Programs /\ active \subseteq Consumers /\ count \in Nat
    /\ st \in [Consumers -> {"idle", "asleep", "woken"}]
    /\ pst \in [Producers -> {"idle", "signal"}]
    /\ made \in [Producers -> Nat] /\ taken \in [Consumers -> Nat]

\* The programs whose signals suffice: the two lists, and the semaphore while
\* only one thread ever waits for it.
Sound == prog # "mysem" \/ Cardinality(active) <= 1

\* While a consumer sleeps, whatever there is to take has a woken consumer or a
\* signal that is still due: signalling after the unlock (test3.c:69-71) loses
\* nothing.  The semaphore's rule "transition from 0 to nonzero" (semaphore.h:5)
\* keeps this for one waiting thread only.
NoLostWakeup ==
    Sound /\ In("asleep") # {} => count <= Cardinality(In("woken")) + Cardinality(Due)

\* Nobody stays asleep beside something to take.
SleepersServed == Sound => []<>(count = 0 \/ In("asleep") = {})
=============================================================================
