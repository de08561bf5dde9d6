------------------------------- MODULE RwLock -------------------------------
(***************************************************************************)
(* The read-write locks of unpv22e: my_rwlock, and my_rwlock_cancel, whose *)
(* waiting threads may be cancelled.  `prog' is the one that runs.         *)
(*                                                                         *)
(* The lock calls and unlock work under rw_mutex, so a step of theirs is   *)
(* what happens up to pthread_cond_wait() or the release of the mutex.  A  *)
(* call that returns EBUSY or EINVAL changes nothing and is no step.  A    *)
(* waiting thread is asleep or has been woken and has to get the mutex     *)
(* again.                                                                  *)
(*                                                                         *)
(* destroy takes no mutex: it reads the three counts one after the other,  *)
(* while the other functions run, in the middle of one of them if need be. *)
(* The test of rw_magic comes before the mutex, too, and a thread that has *)
(* passed it may meet a lock destroyed meanwhile.  What happens then is    *)
(* undefined: `misused' is set and nothing is modelled or claimed any more.*)
(***************************************************************************)
EXTENDS Integers, FiniteSets

CONSTANTS
    Threads,
    Programs,      \* the versions considered: "plain" and "cancel"
    MaxCalls       \* bound: lock calls of all threads together

ASSUME RwAssumption ==
    /\ IsFiniteSet(Threads) /\ Threads # {}
    /\ Programs \subseteq {"plain", "cancel"} /\ MaxCalls \in Nat

VARIABLES
    prog,
    valid,         \* rw_magic = RW_MAGIC
    refcount,      \* rw_refcount: -1 for a writer, else the number of readers
    nwaitreaders, nwaitwriters,
    st,            \* what each thread is doing
    calls,         \* lock calls made
    dpc,           \* "out" of destroy, or what it does next
    steady,        \* history: who has held the lock or slept ever since destroy was called
    misused        \* the lock was destroyed under a thread that used it

vars == <<prog, valid, refcount, nwaitreaders, nwaitwriters, st, calls, dpc, steady, misused>>

States == {"idle", "rdsleep", "rdwoken", "wrsleep", "wrwoken", "reading", "writing", "cancelled"}

In(S) == {t \in Threads : st[t] \in S}

Become(t, s) == st' = [st EXCEPT ![t] = s]

\* What every step of a thread leaves alone; a thread it moves is no longer steady.
Kept ==
    /\ ~misused
    /\ steady' = {t \in steady : st'[t] = st[t]}
    /\ UNCHANGED <<prog, valid, dpc, misused>>

-----------------------------------------------------------------------------
Init ==
    /\ prog \in Programs /\ valid = TRUE /\ refcount = 0
    /\ nwaitreaders = 0 /\ nwaitwriters = 0
    /\ st = [t \in Threads |-> "idle"] /\ calls = 0
    /\ dpc = "out" /\ steady = {} /\ misused = FALSE

\* A thread that holds nothing calls one of the lock functions.  A call that passes the
\* test of rw_magic and is overtaken by destroy is a case of Teardown.
Calls(t) ==
    /\ valid /\ st[t] = "idle" /\ calls < MaxCalls
    /\ calls' = calls + 1

\* Mutant: writers do not count once the lock is free.
ReadersBlocked_NoPreference == refcount < 0

\* Give preference to waiting writers.
ReadersBlocked == refcount < 0 \/ nwaitwriters > 0

rdlock(t) ==
    /\ Calls(t)
    /\ IF ReadersBlocked
       THEN Become(t, "rdsleep") /\ nwaitreaders' = nwaitreaders + 1 /\ UNCHANGED refcount
       ELSE Become(t, "reading") /\ refcount' = refcount + 1 /\ UNCHANGED nwaitreaders
    /\ Kept /\ UNCHANGED nwaitwriters

wrlock(t) ==
    /\ Calls(t)
    /\ IF refcount # 0
       THEN Become(t, "wrsleep") /\ nwaitwriters' = nwaitwriters + 1 /\ UNCHANGED refcount
       ELSE Become(t, "writing") /\ refcount' = -1 /\ UNCHANGED nwaitwriters
    /\ Kept /\ UNCHANGED nwaitreaders

tryrdlock(t) ==
    /\ Calls(t) /\ ~ReadersBlocked
    /\ Become(t, "reading") /\ refcount' = refcount + 1
    /\ Kept /\ UNCHANGED <<nwaitreaders, nwaitwriters>>

trywrlock(t) ==
    /\ Calls(t) /\ refcount = 0
    /\ Become(t, "writing") /\ refcount' = -1
    /\ Kept /\ UNCHANGED <<nwaitreaders, nwaitwriters>>

\* pthread_cond_wait() returns; the count falls, the loop tests again and, if
\* the thread still has to wait, the count rises again before it sleeps.
rdlock_wakes(t) ==
    /\ st[t] = "rdwoken"
    /\ IF ReadersBlocked
       THEN Become(t, "rdsleep") /\ UNCHANGED <<refcount, nwaitreaders>>
       ELSE Become(t, "reading") /\ refcount' = refcount + 1 /\ nwaitreaders' = nwaitreaders - 1
    /\ Kept /\ UNCHANGED <<nwaitwriters, calls>>

wrlock_wakes(t) ==
    /\ st[t] = "wrwoken"
    /\ IF refcount # 0
       THEN Become(t, "wrsleep") /\ UNCHANGED <<refcount, nwaitwriters>>
       ELSE Become(t, "writing") /\ refcount' = -1 /\ nwaitwriters' = nwaitwriters - 1
    /\ Kept /\ UNCHANGED <<nwaitreaders, calls>>

\* pthread_cond_signal(&rw_condwriters): one sleeping writer, if there is one.
SignalWriters(f) ==
    \/ \E w \in Threads : f[w] = "wrsleep" /\ st' = [f EXCEPT ![w] = "wrwoken"]
    \/ (\A w \in Threads : f[w] # "wrsleep") /\ st' = f

\* pthread_cond_broadcast(&rw_condreaders)
WakeReaders(f) == [r \in Threads |-> IF f[r] = "rdsleep" THEN "rdwoken" ELSE f[r]]

\* Mutant: unlock signals waiting writers only, as if readers never waited for readers.
WakeUp_WritersOnly(f, n) == IF nwaitwriters > 0 /\ n = 0 THEN SignalWriters(f) ELSE st' = f

\* Whom unlock wakes: my_rwlock signals the writers once the last reader has
\* left, my_rwlock_cancel at every unlock.
WakeUp(f, n) ==
    IF nwaitwriters > 0
    THEN IF n = 0 \/ prog = "cancel" THEN SignalWriters(f) ELSE st' = f
    ELSE st' = IF nwaitreaders > 0 THEN WakeReaders(f) ELSE f

\* The third branch, err_dump() for a lock nobody holds, is out of reach of a
\* thread that holds it: that is CountsExact.
unlock(t) ==
    LET n == IF refcount > 0 THEN refcount - 1 ELSE 0 IN
    /\ valid /\ st[t] \in {"reading", "writing"} /\ refcount # 0
    /\ refcount' = n
    /\ WakeUp([st EXCEPT ![t] = "idle"], n)
    /\ Kept /\ UNCHANGED <<nwaitreaders, nwaitwriters, calls>>

\* Mutant: the cleanup handler of a writer only unlocks the mutex.
CancelledWriter_NoCleanup == nwaitwriters

\* What rwlock_cancelwrwait() does to the count.
CancelledWriter == nwaitwriters - 1

\* A thread is cancelled in pthread_cond_wait(): it gets the mutex and runs its
\* cleanup handler.  A signal it had been given goes to another sleeper (POSIX).
rwlock_cancelrdwait(t) ==
    /\ prog = "cancel" /\ st[t] \in {"rdsleep", "rdwoken"}
    /\ nwaitreaders' = nwaitreaders - 1
    /\ Become(t, "cancelled")
    /\ Kept /\ UNCHANGED <<refcount, nwaitwriters, calls>>

rwlock_cancelwrwait(t) ==
    /\ prog = "cancel" /\ st[t] \in {"wrsleep", "wrwoken"}
    /\ nwaitwriters' = CancelledWriter
    /\ IF st[t] = "wrwoken" THEN SignalWriters([st EXCEPT ![t] = "cancelled"])
                            ELSE Become(t, "cancelled")
    /\ Kept /\ UNCHANGED <<refcount, nwaitreaders, calls>>

\* pthread_cond_wait() may return without a signal.
SpuriousWakeup(t) ==
    /\ \/ st[t] = "rdsleep" /\ Become(t, "rdwoken")
       \/ st[t] = "wrsleep" /\ Become(t, "wrwoken")
    /\ Kept /\ UNCHANGED <<refcount, nwaitreaders, nwaitwriters, calls>>

\* What destroy may read of a count of waiting threads: a woken thread takes itself off
\* and, before it gives the mutex back, counts itself in again or takes the lock.
Seen(n, woken) == {n} \cup {n - 1 : t \in In({woken})}

\* A count that is not 0 makes destroy fail with EBUSY.
DestroyReads(at, values, then) ==
    /\ ~misused /\ dpc = at
    /\ \E v \in values :
          IF v # 0 THEN dpc' = "out" /\ steady' = {} ELSE dpc' = then /\ UNCHANGED steady
    /\ UNCHANGED <<prog, valid, refcount, nwaitreaders, nwaitwriters, st, calls, misused>>

\* Mutant: destroy does not look at the waiting writers.
InUse_NoWriters ==
    \/ DestroyReads("refcount", {refcount}, "readers")
    \/ DestroyReads("readers", Seen(nwaitreaders, "rdwoken"), "teardown")

\* The three tests, in the order of the ||.
InUse ==
    \/ DestroyReads("refcount", {refcount}, "readers")
    \/ DestroyReads("readers", Seen(nwaitreaders, "rdwoken"), "writers")
    \/ DestroyReads("writers", Seen(nwaitwriters, "wrwoken"), "teardown")

\* The mutex, the condition variables and rw_magic go.  A thread that holds the lock or
\* waits for it uses it on, and so does one that is inside a call, past the test of rw_magic
\* and not yet out of the mutex: this may be any thread at any time.
Teardown ==
    /\ ~misused /\ dpc = "teardown"
    /\ dpc' = "out" /\ valid' = FALSE /\ steady' = {}
    /\ \/ misused' = TRUE
       \/ In(States \ {"idle", "cancelled"}) = {} /\ UNCHANGED misused
    /\ UNCHANGED <<prog, refcount, nwaitreaders, nwaitwriters, st, calls>>

\* destroy is called, and rw_magic is right.
DestroyCalled ==
    /\ ~misused /\ valid /\ dpc = "out"
    /\ dpc' = "refcount" /\ steady' = In({"reading", "writing", "rdsleep", "wrsleep"})
    /\ UNCHANGED <<prog, valid, refcount, nwaitreaders, nwaitwriters, st, calls, misused>>

destroy == DestroyCalled \/ InUse \/ Teardown

\* A destroyed lock is initialised again.
init ==
    /\ ~misused /\ ~valid /\ dpc = "out"
    /\ valid' = TRUE /\ refcount' = 0 /\ nwaitreaders' = 0 /\ nwaitwriters' = 0
    /\ UNCHANGED <<prog, st, calls, dpc, steady, misused>>

Wakes(t) == rdlock_wakes(t) \/ wrlock_wakes(t)

Next == \/ \E t \in Threads :
              \/ rdlock(t) \/ wrlock(t) \/ tryrdlock(t) \/ trywrlock(t)
              \/ Wakes(t) \/ unlock(t) \/ SpuriousWakeup(t)
              \/ rwlock_cancelrdwait(t) \/ rwlock_cancelwrwait(t)
        \/ destroy \/ init

\* A woken thread gets the mutex; a thread that holds the lock gives it back.
Fairness == \A t \in Threads : WF_vars(Wakes(t)) /\ WF_vars(unlock(t))

Spec == Init /\ [][Next]_vars

FairSpec == Spec /\ Fairness

-----------------------------------------------------------------------------
Readers == In({"reading"})
Writers == In({"writing"})
WaitingReaders == In({"rdsleep", "rdwoken"})
WaitingWriters == In({"wrsleep", "wrwoken"})
Cancelled == In({"cancelled"})

\* The variables keep to their types, and the counts to the number of threads.
TypeOK ==
    /\ prog \in Programs /\ valid \in BOOLEAN
    /\ refcount \in -1 .. Cardinality(Threads)
    /\ nwaitreaders \in 0 .. Cardinality(Threads) /\ nwaitwriters \in 0 .. Cardinality(Threads)
    /\ st \in [Threads -> States] /\ calls \in Nat
    /\ dpc \in {"out", "refcount", "readers", "writers", "teardown"}
    /\ steady \subseteq Threads /\ misused \in BOOLEAN

\* rw_refcount is "-1 if writer has the lock, else # readers holding the lock"
\* (pthread_rwlock.h:12-13): a writer excludes every other holder, as test1.c tests at
\* run time.  The wait counts are "the number waiting", through every wake-up, retry
\* and cancellation: unlock never finds a count it dumps core on, and destroy does not
\* return EBUSY for a lock that nobody uses (testcancel.c:31).
CountsExact ==
    ~misused =>
        /\ \/ refcount = -1 /\ Cardinality(Writers) = 1 /\ Readers = {}
           \/ refcount = Cardinality(Readers) /\ Writers = {}
        /\ nwaitreaders = Cardinality(WaitingReaders)
        /\ nwaitwriters = Cardinality(WaitingWriters)

\* A thread that has held the lock, or slept in a lock call, all the while since destroy
\* was called keeps it from being destroyed: reading the counts one by one and without
\* the mutex (pthread_rwlock_destroy.c:10-12) misses only threads that move.
DestroySpares == dpc = "teardown" => steady = {}

\* Every lock call returns once its predecessors have unlocked, however the
\* threads are scheduled; only the cancellation of a waiting thread may leave a
\* reader asleep on a free lock, or its destruction under them.
CallsReturn ==
    \A t \in Threads : st[t] \in {"rdsleep", "rdwoken", "wrsleep", "wrwoken"}
                         ~> (st[t] \in {"reading", "writing"} \/ Cancelled # {} \/ misused)

\* Who holds the lock and who wants it, as RwLockSpec knows them.
Mode ==
    [t \in Threads |->
        CASE st[t] \in {"rdsleep", "rdwoken"} -> "wantR"
          [] st[t] \in {"wrsleep", "wrwoken"} -> "wantW"
          [] st[t] = "reading" -> "read"
          [] st[t] = "writing" -> "write"
          [] st[t] = "cancelled" -> "gone"
          [] OTHER -> "none"]

Abstract == INSTANCE RwLockSpec WITH mode <- Mode

\* The lock implements the abstract read-write lock with writer preference, until it is
\* misused.
RefinesLock == Abstract!Spec
=============================================================================
