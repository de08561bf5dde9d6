---------------------------- MODULE RwLockProofs ----------------------------
(***************************************************************************)
(* Proofs about RwLock for any number of threads and calls: the counts of  *)
(* the lock are exact, and the lock implements RwLockSpec.                 *)
(*                                                                         *)
(* Both rest on Mode, what RwLockSpec sees of a thread: sleeping and woken *)
(* threads look alike, so that wake-ups, retries and signals passed on     *)
(* change nothing, and every other step moves one thread from one mode to  *)
(* another.  CountsExact counts the threads in each mode.                  *)
(*                                                                         *)
(* Exact counts are also what destroy relies on: a count it reads as 0 may *)
(* miss one woken thread, which has taken itself off, but no thread that   *)
(* sleeps or holds the lock.  SteadyOK says what destroy has excluded so   *)
(* far, test by test.                                                      *)
(***************************************************************************)
EXTENDS RwLock, FiniteSetTheorems, TLAPS

Modes == {"none", "wantR", "wantW", "read", "write", "gone"}

Num(f, k) == Cardinality({t \in Threads : f[t] = k})

\* The counts r, nr and nw fit the threads whose modes are f.
Exact(f, r, nr, nw) ==
    /\ \/ r = -1 /\ Num(f, "write") = 1 /\ Num(f, "read") = 0
       \/ r = Num(f, "read") /\ Num(f, "write") = 0
    /\ nr = Num(f, "wantR") /\ nw = Num(f, "wantW")

\* What a thread that has not moved since destroy was called may be doing, before the
\* test that destroy makes next.
NotYetExcluded(at) ==
    CASE at = "refcount" -> {"reading", "writing", "rdsleep", "wrsleep"}
      [] at = "readers" -> {"rdsleep", "wrsleep"}
      [] at = "writers" -> {"wrsleep"}
      [] OTHER -> {}

SteadyOK == \A t \in steady : st[t] \in NotYetExcluded(dpc)

-----------------------------------------------------------------------------
(* Counting.                                                               *)

\* A number of threads is a natural number, 0 if and only if there are none.
LEMMA NumType ==
    ASSUME NEW f, NEW k
    PROVE  /\ Num(f, k) \in Nat /\ Num(f, k) <= Cardinality(Threads)
           /\ Num(f, k) = 0 <=> \A t \in Threads : f[t] # k
<1>1. {t \in Threads : f[t] = k} \subseteq Threads
    OBVIOUS
<1>2. /\ IsFiniteSet({t \in Threads : f[t] = k})
      /\ Cardinality({t \in Threads : f[t] = k}) <= Cardinality(Threads)
    BY <1>1, RwAssumption, FS_Subset
<1>3. Cardinality({t \in Threads : f[t] = k}) = 0 <=> {t \in Threads : f[t] = k} = {}
    BY <1>2, FS_EmptySet
<1> QED
    BY <1>2, <1>3, FS_CardinalityType DEF Num

\* The sets that CountsExact counts, by mode.
LEMMA ByMode ==
    ASSUME TypeOK
    PROVE  /\ Mode \in [Threads -> Modes]
           /\ Readers = {t \in Threads : Mode[t] = "read"}
           /\ Writers = {t \in Threads : Mode[t] = "write"}
           /\ WaitingReaders = {t \in Threads : Mode[t] = "wantR"}
           /\ WaitingWriters = {t \in Threads : Mode[t] = "wantW"}
           /\ In(States \ {"idle", "cancelled"}) = {t \in Threads : Mode[t] \notin {"none", "gone"}}
BY DEF TypeOK, Mode, Modes, Readers, Writers, WaitingReaders, WaitingWriters, In, States

\* The counts are exact, and a lock that was destroyed and not misused is out of use:
\* that is what init relies on when it clears the counts.
ExactByMode ==
    /\ Mode \in [Threads -> Modes]
    /\ Exact(Mode, refcount, nwaitreaders, nwaitwriters)
    /\ ~valid /\ ~misused => \A t \in Threads : Mode[t] \in {"none", "gone"}

IndInv == TypeOK /\ ExactByMode /\ SteadyOK

\* Counts that are exact by mode are what CountsExact asks for.
LEMMA CountsByMode == TypeOK /\ ExactByMode => CountsExact
<1> SUFFICES ASSUME TypeOK, ExactByMode PROVE CountsExact
    OBVIOUS
<1>1. Num(Mode, "read") = 0 <=> Readers = {}
    BY ByMode, NumType
<1>2. Num(Mode, "write") = 0 <=> Writers = {}
    BY ByMode, NumType
<1> QED
    BY <1>1, <1>2, ByMode DEF CountsExact, Exact, Num, ExactByMode

\* A thread that changes its mode leaves one number and joins another: how the counts
\* have to follow.
LEMMA ExactMoved ==
    ASSUME NEW f \in [Threads -> Modes], NEW t \in Threads, NEW m \in Modes, f[t] # m,
           NEW g, g = [f EXCEPT ![t] = m],
           NEW r, NEW nr, NEW nw, Exact(f, r, nr, nw)
    PROVE  /\ f[t] = "none" /\ m = "wantR" => Exact(g, r, nr + 1, nw)
           /\ f[t] = "none" /\ m = "wantW" => Exact(g, r, nr, nw + 1)
           /\ f[t] = "none" /\ m = "read" /\ ~(r < 0) => Exact(g, r + 1, nr, nw)
           /\ f[t] = "none" /\ m = "write" /\ r = 0 => Exact(g, -1, nr, nw)
           /\ f[t] = "wantR" /\ m = "read" /\ ~(r < 0) => Exact(g, r + 1, nr - 1, nw)
           /\ f[t] = "wantW" /\ m = "write" /\ r = 0 => Exact(g, -1, nr, nw - 1)
           /\ f[t] = "read" /\ m = "none" => r > 0 /\ Exact(g, r - 1, nr, nw)
           /\ f[t] = "write" /\ m = "none" => r = -1 /\ Exact(g, 0, nr, nw)
           /\ f[t] = "wantR" /\ m = "gone" => Exact(g, r, nr - 1, nw)
           /\ f[t] = "wantW" /\ m = "gone" => Exact(g, r, nr, nw - 1)
<1>0. g[t] = m /\ \A u \in Threads : u # t => g[u] = f[u]
    OBVIOUS
<1>1. /\ Num(f, "write") \in Nat /\ Num(f, "read") \in Nat
      /\ Num(f, "wantR") \in Nat /\ Num(f, "wantW") \in Nat
      /\ (f[t] = "write" => Num(f, "write") # 0) /\ (f[t] = "read" => Num(f, "read") # 0)
    BY NumType
<1>2. ASSUME NEW k \in Modes
      PROVE  /\ k = m => Num(g, k) = Num(f, k) + 1
             /\ k = f[t] => Num(g, k) = Num(f, k) - 1
             /\ k # m /\ k # f[t] => Num(g, k) = Num(f, k)
    <2> DEFINE S == {u \in Threads : f[u] = k}
               T == {u \in Threads : g[u] = k}
    <2>1. IsFiniteSet(S)
        BY RwAssumption, FS_Subset
    <2>2. ASSUME k = m PROVE Num(g, k) = Num(f, k) + 1
        <3>1. T = S \cup {t} /\ t \notin S
            BY <1>0, <2>2
        <3> QED BY <2>1, <3>1, FS_AddElement DEF Num
    <2>3. ASSUME k = f[t] PROVE Num(g, k) = Num(f, k) - 1
        <3>1. T = S \ {t} /\ t \in S
            BY <1>0, <2>3
        <3> QED BY <2>1, <3>1, FS_RemoveElement DEF Num
    <2>4. ASSUME k # m, k # f[t] PROVE Num(g, k) = Num(f, k)
        <3>1. T = S
            BY <1>0, <2>4
        <3> QED BY <3>1 DEF Num
    <2> QED BY <2>2, <2>3, <2>4
<1>3. /\ Num(g, "write") = (IF m = "write" THEN Num(f, "write") + 1
                            ELSE IF f[t] = "write" THEN Num(f, "write") - 1 ELSE Num(f, "write"))
      /\ Num(g, "read") = (IF m = "read" THEN Num(f, "read") + 1
                           ELSE IF f[t] = "read" THEN Num(f, "read") - 1 ELSE Num(f, "read"))
      /\ Num(g, "wantR") = (IF m = "wantR" THEN Num(f, "wantR") + 1
                            ELSE IF f[t] = "wantR" THEN Num(f, "wantR") - 1 ELSE Num(f, "wantR"))
      /\ Num(g, "wantW") = (IF m = "wantW" THEN Num(f, "wantW") + 1
                            ELSE IF f[t] = "wantW" THEN Num(f, "wantW") - 1 ELSE Num(f, "wantW"))
    BY <1>2 DEF Modes
<1>4. CASE m \in {"wantR", "wantW", "gone"}
    BY <1>1, <1>3, <1>4 DEF Exact
<1>5. CASE m \in {"read", "write"}
    BY <1>1, <1>3, <1>5 DEF Exact
<1>6. CASE m = "none"
    BY <1>1, <1>3, <1>6 DEF Exact
<1> QED
    BY <1>4, <1>5, <1>6 DEF Modes

\* The lock's tests under the mutex say what RwLockSpec asks: who holds it, and whether a
\* writer waits.
LEMMA TestsByMode ==
    ASSUME ExactByMode
    PROVE  /\ ReadersBlocked <=> \E u \in Threads : Mode[u] \in {"write", "wantW"}
           /\ refcount # 0 <=> \E u \in Threads : Mode[u] \in {"read", "write"}
<1>1. \A k \in Modes : Num(Mode, k) \in Nat /\ (Num(Mode, k) = 0 <=> \A t \in Threads : Mode[t] # k)
    BY NumType
<1>2. \A u \in Threads : Mode[u] \in Modes
    BY DEF ExactByMode
<1> QED
    BY <1>1, <1>2 DEF ExactByMode, Exact, ReadersBlocked, Modes

-----------------------------------------------------------------------------
(* What the steps do to the modes.                                         *)

\* Waking threads up changes nobody's mode.
LEMMA WakeUpMode ==
    ASSUME TypeOK, NEW t \in Threads, NEW s \in States, NEW n,
           WakeUp([st EXCEPT ![t] = s], n) \/ SignalWriters([st EXCEPT ![t] = s])
    PROVE  /\ st' \in [Threads -> States]
           /\ s = "idle" => Mode' = [Mode EXCEPT ![t] = "none"]
           /\ s = "cancelled" => Mode' = [Mode EXCEPT ![t] = "gone"]
<1> DEFINE f == [st EXCEPT ![t] = s]
<1>1. f \in [Threads -> States]
    BY DEF TypeOK
<1>2. \/ st' = f
      \/ st' = WakeReaders(f)
      \/ \E w \in Threads : f[w] = "wrsleep" /\ st' = [f EXCEPT ![w] = "wrwoken"]
    BY DEF WakeUp, SignalWriters
<1>3. /\ st' \in [Threads -> States]
      /\ \A u \in Threads : \/ st'[u] = f[u]
                             \/ (f[u] = "rdsleep" /\ st'[u] = "rdwoken")
                             \/ (f[u] = "wrsleep" /\ st'[u] = "wrwoken")
    <2>1. CASE st' = f
        BY <1>1, <2>1
    <2>2. CASE st' = WakeReaders(f)
        BY <1>1, <2>2 DEF WakeReaders, States
    <2>3. ASSUME NEW w \in Threads, f[w] = "wrsleep", st' = [f EXCEPT ![w] = "wrwoken"]
          PROVE  /\ st' \in [Threads -> States]
                 /\ \A u \in Threads : st'[u] = f[u] \/ (f[u] = "wrsleep" /\ st'[u] = "wrwoken")
        <3> HIDE DEF f
        <3> QED BY <1>1, <2>3 DEF States
    <2> QED BY <1>2, <2>1, <2>2, <2>3
<1>4. ASSUME NEW u \in Threads \ {t} PROVE Mode'[u] = Mode[u]
    <2>1. \/ st'[u] = st[u]
          \/ (st[u] = "rdsleep" /\ st'[u] = "rdwoken")
          \/ (st[u] = "wrsleep" /\ st'[u] = "wrwoken")
        BY <1>3 DEF TypeOK
    <2> QED BY <2>1 DEF Mode
<1>5. s \in {"idle", "cancelled"} => st'[t] = s
    BY <1>3 DEF TypeOK
<1>6. /\ s = "idle" => Mode'[t] = "none"
      /\ s = "cancelled" => Mode'[t] = "gone"
    BY <1>5 DEF Mode
<1>7. /\ Mode = [u \in Threads |-> Mode[u]]
      /\ Mode' = [u \in Threads |-> Mode'[u]]
    BY DEF Mode
<1> QED
    BY <1>3, <1>4, <1>6, <1>7

\* A thread that changes its state and wakes nobody.
LEMMA BecomeMode ==
    ASSUME TypeOK, NEW t \in Threads, NEW s \in States, Become(t, s)
    PROVE  /\ st' \in [Threads -> States]
           /\ s = "reading" => Mode' = [Mode EXCEPT ![t] = "read"]
           /\ s = "writing" => Mode' = [Mode EXCEPT ![t] = "write"]
           /\ s \in {"rdsleep", "rdwoken"} => Mode' = [Mode EXCEPT ![t] = "wantR"]
           /\ s \in {"wrsleep", "wrwoken"} => Mode' = [Mode EXCEPT ![t] = "wantW"]
           /\ s = "cancelled" => Mode' = [Mode EXCEPT ![t] = "gone"]
BY DEF TypeOK, Become, Mode, States

-----------------------------------------------------------------------------
(* One step.                                                               *)

\* After a step the counts are exact, and RwLockSpec has made a step or none.
StepOK ==
    /\ st' \in [Threads -> States] /\ ExactByMode'
    /\ Abstract!Next \/ UNCHANGED Mode

\* A thread changes its mode, and the counts follow.
LEMMA MovedOK ==
    ASSUME TypeOK, ExactByMode, NEW t \in Threads, NEW m \in Modes, Mode' = [Mode EXCEPT ![t] = m],
           Exact(Mode', refcount', nwaitreaders', nwaitwriters'),
           Kept, valid \/ Mode[t] \notin {"none", "gone"}
    PROVE  ExactByMode'
BY ByMode DEF ExactByMode, Kept

\* rdlock, wrlock and the try versions (pthread_rwlock_rdlock.c, _wrlock.c, _tryrdlock.c,
\* _trywrlock.c): a thread gets the lock or waits for it.
LEMMA CallOK ==
    ASSUME TypeOK, ExactByMode, NEW t \in Threads,
           rdlock(t) \/ wrlock(t) \/ tryrdlock(t) \/ trywrlock(t)
    PROVE  StepOK
<1>1. /\ valid /\ Kept /\ Mode[t] = "none" /\ Mode \in [Threads -> Modes]
      /\ Exact(Mode, refcount, nwaitreaders, nwaitwriters)
    BY DEF rdlock, wrlock, tryrdlock, trywrlock, Calls, Mode, ExactByMode
<1>2. CASE ReadersBlocked /\ rdlock(t)
    <2>1. Become(t, "rdsleep") /\ UNCHANGED <<refcount, nwaitwriters>> /\ nwaitreaders' = nwaitreaders + 1
        BY <1>2 DEF rdlock
    <2>2. st' \in [Threads -> States] /\ Mode' = [Mode EXCEPT ![t] = "wantR"]
        BY <2>1, BecomeMode DEF States
    <2>3. Exact(Mode', refcount', nwaitreaders', nwaitwriters')
        BY <1>1, <2>1, <2>2, ExactMoved DEF Modes
    <2>4. Abstract!AskRead(t)
        BY <1>1, <1>2, <2>2, TestsByMode DEF Abstract!AskRead, Abstract!Become, Abstract!In
    <2> QED BY <1>1, <2>2, <2>3, <2>4, MovedOK DEF StepOK, Abstract!Next, Modes
<1>3. CASE ~ReadersBlocked /\ (rdlock(t) \/ tryrdlock(t))
    <2>1. Become(t, "reading") /\ UNCHANGED <<nwaitreaders, nwaitwriters>> /\ refcount' = refcount + 1
        BY <1>3 DEF rdlock, tryrdlock
    <2>2. st' \in [Threads -> States] /\ Mode' = [Mode EXCEPT ![t] = "read"]
        BY <2>1, BecomeMode DEF States
    <2>3. ~(refcount < 0)
        BY <1>3 DEF ReadersBlocked
    <2>4. Exact(Mode', refcount', nwaitreaders', nwaitwriters')
        BY <1>1, <2>1, <2>2, <2>3, ExactMoved DEF Modes
    <2>5. Abstract!GrantRead(t)
        BY <1>1, <1>3, <2>2, TestsByMode DEF Abstract!GrantRead, Abstract!Become, Abstract!In
    <2> QED BY <1>1, <2>2, <2>4, <2>5, MovedOK DEF StepOK, Abstract!Next, Modes
<1>4. CASE refcount # 0 /\ wrlock(t)
    <2>1. Become(t, "wrsleep") /\ UNCHANGED <<refcount, nwaitreaders>> /\ nwaitwriters' = nwaitwriters + 1
        BY <1>4 DEF wrlock
    <2>2. st' \in [Threads -> States] /\ Mode' = [Mode EXCEPT ![t] = "wantW"]
        BY <2>1, BecomeMode DEF States
    <2>3. Exact(Mode', refcount', nwaitreaders', nwaitwriters')
        BY <1>1, <2>1, <2>2, ExactMoved DEF Modes
    <2>4. Abstract!AskWrite(t)
        BY <1>1, <1>4, <2>2, TestsByMode DEF Abstract!AskWrite, Abstract!Become, Abstract!In
    <2> QED BY <1>1, <2>2, <2>3, <2>4, MovedOK DEF StepOK, Abstract!Next, Modes
<1>5. CASE refcount = 0 /\ (wrlock(t) \/ trywrlock(t))
    <2>1. Become(t, "writing") /\ UNCHANGED <<nwaitreaders, nwaitwriters>> /\ refcount' = -1
        BY <1>5 DEF wrlock, trywrlock
    <2>2. st' \in [Threads -> States] /\ Mode' = [Mode EXCEPT ![t] = "write"]
        BY <2>1, BecomeMode DEF States
    <2>3. Exact(Mode', refcount', nwaitreaders', nwaitwriters')
        BY <1>1, <1>5, <2>1, <2>2, ExactMoved DEF Modes
    <2>4. Abstract!GrantWrite(t)
        BY <1>1, <1>5, <2>2, TestsByMode DEF Abstract!GrantWrite, Abstract!Become, Abstract!In
    <2> QED BY <1>1, <2>2, <2>3, <2>4, MovedOK DEF StepOK, Abstract!Next, Modes
<1> QED
    BY <1>2, <1>3, <1>4, <1>5 DEF tryrdlock, trywrlock

\* A woken thread gets the lock, or sleeps again without having changed a count.
LEMMA WakesOK ==
    ASSUME TypeOK, ExactByMode, NEW t \in Threads, Wakes(t)
    PROVE  StepOK
<1>1. /\ Kept /\ Mode \in [Threads -> Modes]
      /\ Exact(Mode, refcount, nwaitreaders, nwaitwriters)
    BY DEF Wakes, rdlock_wakes, wrlock_wakes, ExactByMode
<1>2. CASE rdlock_wakes(t)
    <2>1. Mode[t] = "wantR"
        BY <1>2 DEF rdlock_wakes, Mode
    <2>2. CASE ReadersBlocked
        <3>1. Become(t, "rdsleep") /\ UNCHANGED <<refcount, nwaitreaders, nwaitwriters>>
            BY <1>2, <2>2 DEF rdlock_wakes
        <3>2. st' \in [Threads -> States] /\ Mode' = [Mode EXCEPT ![t] = "wantR"]
            BY <3>1, BecomeMode DEF States
        <3>3. Mode' = Mode
            BY <1>1, <2>1, <3>2
        <3> QED BY <1>1, <3>1, <3>2, <3>3 DEF StepOK, ExactByMode, Kept
    <2>3. CASE ~ReadersBlocked
        <3>1. /\ Become(t, "reading") /\ UNCHANGED nwaitwriters
              /\ refcount' = refcount + 1 /\ nwaitreaders' = nwaitreaders - 1
            BY <1>2, <2>3 DEF rdlock_wakes
        <3>2. st' \in [Threads -> States] /\ Mode' = [Mode EXCEPT ![t] = "read"]
            BY <3>1, BecomeMode DEF States
        <3>3. ~(refcount < 0)
            BY <2>3 DEF ReadersBlocked
        <3>4. Exact(Mode', refcount', nwaitreaders', nwaitwriters')
            BY <1>1, <2>1, <3>1, <3>2, <3>3, ExactMoved DEF Modes
        <3>5. Abstract!GrantRead(t)
            BY <2>1, <2>3, <3>2, TestsByMode DEF Abstract!GrantRead, Abstract!Become, Abstract!In
        <3> QED BY <1>1, <2>1, <3>2, <3>4, <3>5, MovedOK DEF StepOK, Abstract!Next, Modes
    <2> QED BY <2>2, <2>3
<1>3. CASE wrlock_wakes(t)
    <2>1. Mode[t] = "wantW"
        BY <1>3 DEF wrlock_wakes, Mode
    <2>2. CASE refcount # 0
        <3>1. Become(t, "wrsleep") /\ UNCHANGED <<refcount, nwaitreaders, nwaitwriters>>
            BY <1>3, <2>2 DEF wrlock_wakes
        <3>2. st' \in [Threads -> States] /\ Mode' = [Mode EXCEPT ![t] = "wantW"]
            BY <3>1, BecomeMode DEF States
        <3>3. Mode' = Mode
            BY <1>1, <2>1, <3>2
        <3> QED BY <1>1, <3>1, <3>2, <3>3 DEF StepOK, ExactByMode, Kept
    <2>3. CASE refcount = 0
        <3>1. /\ Become(t, "writing") /\ UNCHANGED nwaitreaders
              /\ refcount' = -1 /\ nwaitwriters' = nwaitwriters - 1
            BY <1>3, <2>3 DEF wrlock_wakes
        <3>2. st' \in [Threads -> States] /\ Mode' = [Mode EXCEPT ![t] = "write"]
            BY <3>1, BecomeMode DEF States
        <3>3. Exact(Mode', refcount', nwaitreaders', nwaitwriters')
            BY <1>1, <2>1, <2>3, <3>1, <3>2, ExactMoved DEF Modes
        <3>4. Abstract!GrantWrite(t)
            BY <2>1, <2>3, <3>2, TestsByMode DEF Abstract!GrantWrite, Abstract!Become, Abstract!In
        <3> QED BY <1>1, <2>1, <3>2, <3>3, <3>4, MovedOK DEF StepOK, Abstract!Next, Modes
    <2> QED BY <2>2, <2>3
<1> QED
    BY <1>2, <1>3 DEF Wakes

\* unlock (pthread_rwlock_unlock.c): the holder lets go, whoever it wakes.
LEMMA UnlockOK ==
    ASSUME TypeOK, ExactByMode, NEW t \in Threads, unlock(t)
    PROVE  StepOK
<1>1. /\ valid /\ Kept /\ Mode[t] \in {"read", "write"} /\ Mode \in [Threads -> Modes]
      /\ Exact(Mode, refcount, nwaitreaders, nwaitwriters) /\ UNCHANGED <<nwaitreaders, nwaitwriters>>
    BY DEF unlock, Mode, ExactByMode
<1>2. st' \in [Threads -> States] /\ Mode' = [Mode EXCEPT ![t] = "none"]
    <2>1. WakeUp([st EXCEPT ![t] = "idle"], IF refcount > 0 THEN refcount - 1 ELSE 0)
        BY DEF unlock
    <2> QED BY <2>1, WakeUpMode DEF States
<1>3. Exact(Mode', refcount', nwaitreaders', nwaitwriters')
    <2>1. refcount' = IF refcount > 0 THEN refcount - 1 ELSE 0
        BY DEF unlock
    <2>2. CASE Mode[t] = "read"
        BY <1>1, <1>2, <2>1, <2>2, ExactMoved DEF Modes
    <2>3. CASE Mode[t] = "write"
        <3>1. "none" \in Modes /\ Mode[t] # "none"
            BY <2>3 DEF Modes
        <3>2. refcount = -1
            <4>1. Num(Mode, "write") # 0
                BY <2>3, NumType
            <4> QED BY <1>1, <4>1 DEF Exact
        <3>3. refcount' = 0
            BY <2>1, <3>2
        <3>4. Exact(Mode', 0, nwaitreaders, nwaitwriters)
            BY <1>1, <1>2, <2>3, <3>1, ExactMoved
        <3> QED BY <1>1, <3>3, <3>4
    <2> QED BY <1>1, <2>2, <2>3
<1>4. Abstract!Release(t)
    BY <1>1, <1>2 DEF Abstract!Release, Abstract!Become
<1> QED
    BY <1>1, <1>2, <1>3, <1>4, MovedOK DEF StepOK, Abstract!Next, Modes

\* The cleanup handlers of my_rwlock_cancel: a waiting thread is gone, and so is its count.
LEMMA CancelOK ==
    ASSUME TypeOK, ExactByMode, NEW t \in Threads,
           rwlock_cancelrdwait(t) \/ rwlock_cancelwrwait(t)
    PROVE  StepOK
<1>1. /\ Kept /\ Mode \in [Threads -> Modes]
      /\ Exact(Mode, refcount, nwaitreaders, nwaitwriters)
    BY DEF rwlock_cancelrdwait, rwlock_cancelwrwait, ExactByMode
<1>2. Mode[t] \in {"wantR", "wantW"} /\ st' \in [Threads -> States] /\ Mode' = [Mode EXCEPT ![t] = "gone"]
    <2>1. Mode[t] \in {"wantR", "wantW"}
        BY DEF rwlock_cancelrdwait, rwlock_cancelwrwait, Mode
    <2>2. CASE Become(t, "cancelled")
        BY <2>1, <2>2, BecomeMode DEF States
    <2>3. CASE SignalWriters([st EXCEPT ![t] = "cancelled"])
        BY <2>1, <2>3, WakeUpMode DEF States
    <2> QED BY <2>2, <2>3 DEF rwlock_cancelrdwait, rwlock_cancelwrwait
<1>3. Exact(Mode', refcount', nwaitreaders', nwaitwriters')
    <2>1. CASE rwlock_cancelrdwait(t)
        <3>1. Mode[t] = "wantR" /\ UNCHANGED <<refcount, nwaitwriters>> /\ nwaitreaders' = nwaitreaders - 1
            BY <2>1 DEF rwlock_cancelrdwait, Mode
        <3> QED BY <1>1, <1>2, <3>1, ExactMoved DEF Modes
    <2>2. CASE rwlock_cancelwrwait(t)
        <3>1. Mode[t] = "wantW" /\ UNCHANGED <<refcount, nwaitreaders>> /\ nwaitwriters' = nwaitwriters - 1
            BY <2>2 DEF rwlock_cancelwrwait, CancelledWriter, Mode
        <3> QED BY <1>1, <1>2, <3>1, ExactMoved DEF Modes
    <2> QED BY <2>1, <2>2
<1>4. Abstract!GiveUp(t)
    BY <1>2 DEF Abstract!GiveUp, Abstract!Become
<1> QED
    BY <1>1, <1>2, <1>3, <1>4, MovedOK DEF StepOK, Abstract!Next, Modes

\* Spurious wake-ups, destroy, init and stuttering are no steps of RwLockSpec.
LEMMA SilentOK ==
    ASSUME TypeOK, ExactByMode,
           (\E t \in Threads : SpuriousWakeup(t)) \/ destroy \/ init \/ UNCHANGED vars
    PROVE  StepOK
<1>1. ASSUME NEW t \in Threads, SpuriousWakeup(t) PROVE StepOK
    <2>1. st' \in [Threads -> States] /\ Mode' = Mode
        BY <1>1 DEF SpuriousWakeup, Become, Mode, TypeOK, States
    <2> QED BY <1>1, <2>1 DEF SpuriousWakeup, StepOK, ExactByMode, Kept
<1>2. CASE destroy
    <2>1. Mode' = Mode /\ UNCHANGED <<st, refcount, nwaitreaders, nwaitwriters>>
        BY <1>2 DEF destroy, DestroyCalled, InUse, DestroyReads, Teardown, Mode
    <2>2. CASE Teardown
        <3>1. misused' \/ \A t \in Threads : Mode[t] \in {"none", "gone"}
            BY <2>2, ByMode DEF Teardown
        <3> QED BY <2>1, <3>1 DEF StepOK, ExactByMode, TypeOK
    <2>3. CASE DestroyCalled \/ InUse
        <3>1. UNCHANGED <<valid, misused>>
            BY <2>3 DEF DestroyCalled, InUse, DestroyReads
        <3> QED BY <2>1, <3>1 DEF StepOK, ExactByMode, TypeOK
    <2> QED BY <1>2, <2>2, <2>3 DEF destroy
<1>3. CASE init
    <2>1. Mode' = Mode /\ st' = st /\ \A t \in Threads : Mode[t] \in {"none", "gone"}
        BY <1>3 DEF init, Mode, ExactByMode
    <2>2. \A k \in {"read", "write", "wantR", "wantW"} : Num(Mode, k) = 0
        BY <2>1, NumType
    <2> QED BY <1>3, <2>1, <2>2 DEF init, StepOK, ExactByMode, Exact, TypeOK
<1>4. CASE UNCHANGED vars
    <2>1. Mode' = Mode /\ st' = st
        BY <1>4 DEF vars, Mode
    <2> QED BY <1>4, <2>1 DEF vars, StepOK, ExactByMode, TypeOK
<1> QED
    BY <1>1, <1>2, <1>3, <1>4

\* Every action is such a step.
LEMMA EveryStepOK == TypeOK /\ ExactByMode /\ [Next]_vars => StepOK
BY CallOK, WakesOK, UnlockOK, CancelOK, SilentOK DEF Next

-----------------------------------------------------------------------------
\* Nobody holds or wants the lock at the start.
LEMMA InitInv == Init => IndInv /\ Abstract!Init
<1> SUFFICES ASSUME Init PROVE IndInv /\ Abstract!Init
    OBVIOUS
<1>1. Mode = [t \in Threads |-> "none"]
    BY DEF Init, Mode
<1>2. \A k \in {"read", "write", "wantR", "wantW"} : Num(Mode, k) = 0
    BY <1>1, NumType
<1>3. Cardinality(Threads) \in Nat
    BY RwAssumption, FS_CardinalityType
<1>4. valid \in BOOLEAN /\ misused \in BOOLEAN
    BY Zenon DEF Init
<1>5. TypeOK /\ SteadyOK
    BY <1>3, <1>4 DEF Init, TypeOK, SteadyOK, States
<1>6. ExactByMode /\ Abstract!Init
    BY <1>1, <1>2 DEF Init, ExactByMode, Exact, Modes, Abstract!Init
<1> QED
    BY <1>5, <1>6 DEF IndInv

\* The counts keep to the number of threads because they count threads.
LEMMA TypeStep == TypeOK /\ ExactByMode /\ [Next]_vars => TypeOK'
<1> SUFFICES ASSUME TypeOK, ExactByMode, [Next]_vars PROVE TypeOK'
    OBVIOUS
<1>1. st' \in [Threads -> States] /\ Exact(Mode', refcount', nwaitreaders', nwaitwriters')
    BY EveryStepOK DEF StepOK, ExactByMode
<1>2. /\ refcount' \in -1 .. Cardinality(Threads)
      /\ nwaitreaders' \in 0 .. Cardinality(Threads) /\ nwaitwriters' \in 0 .. Cardinality(Threads)
    <2>1. \A k \in Modes : Num(Mode', k) \in Nat /\ Num(Mode', k) <= Cardinality(Threads)
        BY NumType
    <2>2. Cardinality(Threads) \in Nat
        BY RwAssumption, FS_CardinalityType
    <2> QED BY <1>1, <2>1, <2>2 DEF Exact, Modes
<1>3. /\ prog' = prog /\ valid' \in BOOLEAN /\ calls' \in Nat
      /\ dpc' \in {"out", "refcount", "readers", "writers", "teardown"}
      /\ steady' \subseteq Threads /\ misused' \in BOOLEAN
    <2>1. ASSUME NEW t \in Threads, rdlock(t) \/ wrlock(t) \/ tryrdlock(t) \/ trywrlock(t)
          PROVE  Kept /\ calls' \in Nat
        BY <2>1 DEF TypeOK, Calls, rdlock, wrlock, tryrdlock, trywrlock
    <2>2. ASSUME NEW t \in Threads, \/ Wakes(t) \/ unlock(t) \/ SpuriousWakeup(t)
                                    \/ rwlock_cancelrdwait(t) \/ rwlock_cancelwrwait(t)
          PROVE  Kept /\ calls' = calls
        BY <2>2 DEF Wakes, rdlock_wakes, wrlock_wakes, unlock, SpuriousWakeup,
           rwlock_cancelrdwait, rwlock_cancelwrwait
    <2>3. CASE destroy \/ init \/ UNCHANGED vars
        BY <2>3 DEF destroy, DestroyCalled, InUse, DestroyReads, Teardown, init, vars, TypeOK, In
    <2> QED BY <2>1, <2>2, <2>3 DEF Next, TypeOK, Kept
<1> QED
    BY <1>1, <1>2, <1>3 DEF TypeOK

-----------------------------------------------------------------------------
(* What destroy can miss.                                                  *)

\* A count read as 0 is 0, or 1 for the woken thread that has taken itself off: no thread
\* sleeps (pthread_rwlock_rdlock.c:18-20, pthread_rwlock_destroy.c:10-12).
LEMMA SeenNobody ==
    ASSUME NEW k, NEW woken, NEW asleep, woken # asleep,
           \A t \in Threads : st[t] \in {woken, asleep} => Mode[t] = k,
           0 \in Seen(Num(Mode, k), woken)
    PROVE  \A t \in Threads : st[t] # asleep
<1>1. SUFFICES ASSUME NEW t \in Threads, st[t] = asleep PROVE FALSE
    OBVIOUS
<1>2. Num(Mode, k) \in Nat /\ Num(Mode, k) # 0
    BY <1>1, NumType
<1>3. PICK u \in Threads : st[u] = woken /\ Num(Mode, k) = 1
    BY <1>2 DEF Seen, In
<1>4. {t, u} \subseteq {v \in Threads : Mode[v] = k} /\ t # u
    BY <1>1, <1>3
<1>5. \E x : {v \in Threads : Mode[v] = k} = {x}
    <2>1. IsFiniteSet({v \in Threads : Mode[v] = k})
        BY RwAssumption, FS_Subset
    <2> QED BY <2>1, <1>3, FS_Singleton DEF Num
<1> QED
    BY <1>4, <1>5

\* A test that reads 0 excludes the threads that it is about.
LEMMA TestExcludes ==
    ASSUME TypeOK, ExactByMode, SteadyOK, InUse, dpc' # "out"
    PROVE  SteadyOK'
<1> USE DEF NotYetExcluded
<1>1. /\ steady' = steady /\ st' = st /\ steady \subseteq Threads
      /\ Exact(Mode, refcount, nwaitreaders, nwaitwriters)
    BY DEF InUse, DestroyReads, TypeOK, ExactByMode
<1>2. CASE dpc = "refcount"
    <2>1. refcount = 0 /\ dpc' = "readers"
        BY <1>2 DEF InUse, DestroyReads
    <2>2. \A t \in Threads : Mode[t] \notin {"read", "write"}
        BY <2>1, TestsByMode
    <2>3. \A t \in Threads : st[t] \notin {"reading", "writing"}
        BY <2>2 DEF Mode
    <2> QED BY <1>1, <1>2, <2>1, <2>3 DEF SteadyOK
<1>3. CASE dpc = "readers"
    <2>1. 0 \in Seen(Num(Mode, "wantR"), "rdwoken") /\ dpc' = "writers"
        BY <1>1, <1>3 DEF InUse, DestroyReads, Exact
    <2>2. \A t \in Threads : st[t] \in {"rdwoken", "rdsleep"} => Mode[t] = "wantR"
        BY DEF Mode
    <2>3. \A t \in Threads : st[t] # "rdsleep"
        BY <2>1, <2>2, SeenNobody
    <2> QED BY <1>1, <1>3, <2>1, <2>3 DEF SteadyOK
<1>4. CASE dpc = "writers"
    <2>1. 0 \in Seen(Num(Mode, "wantW"), "wrwoken") /\ dpc' = "teardown"
        BY <1>1, <1>4 DEF InUse, DestroyReads, Exact
    <2>2. \A t \in Threads : st[t] \in {"wrwoken", "wrsleep"} => Mode[t] = "wantW"
        BY DEF Mode
    <2>3. \A t \in Threads : st[t] # "wrsleep"
        BY <2>1, <2>2, SeenNobody
    <2> QED BY <1>1, <1>4, <2>1, <2>3 DEF SteadyOK
<1> QED
    BY <1>2, <1>3, <1>4 DEF InUse, DestroyReads

\* The threads' steps only take threads out of steady, destroy's tests exclude them.
LEMMA SteadyStep == TypeOK /\ ExactByMode /\ SteadyOK /\ [Next]_vars => SteadyOK'
<1> SUFFICES ASSUME TypeOK, ExactByMode, SteadyOK, [Next]_vars PROVE SteadyOK'
    OBVIOUS
<1>1. ASSUME Kept PROVE SteadyOK'
    BY <1>1 DEF Kept, SteadyOK
<1>2. ASSUME NEW t \in Threads, \/ rdlock(t) \/ wrlock(t) \/ tryrdlock(t) \/ trywrlock(t)
                                \/ Wakes(t) \/ unlock(t) \/ SpuriousWakeup(t)
                                \/ rwlock_cancelrdwait(t) \/ rwlock_cancelwrwait(t)
      PROVE  SteadyOK'
    BY <1>1, <1>2 DEF rdlock, wrlock, tryrdlock, trywrlock, Wakes, rdlock_wakes, wrlock_wakes,
       unlock, SpuriousWakeup, rwlock_cancelrdwait, rwlock_cancelwrwait
<1>3. CASE DestroyCalled
    BY <1>3 DEF DestroyCalled, SteadyOK, NotYetExcluded, In
<1>4. CASE InUse
    <2>1. CASE dpc' = "out"
        BY <1>4, <2>1 DEF InUse, DestroyReads, SteadyOK
    <2> QED BY <1>4, <2>1, TestExcludes
<1>5. CASE Teardown
    BY <1>5 DEF Teardown, SteadyOK
<1>6. CASE init \/ UNCHANGED vars
    BY <1>6 DEF init, vars, SteadyOK
<1> QED
    BY <1>2, <1>3, <1>4, <1>5, <1>6 DEF Next, destroy

-----------------------------------------------------------------------------
\* Every execution of both locks keeps the types, counts that are exact, and the threads
\* that destroy's tests have excluded.
THEOREM Invariance == Spec => []IndInv
<1>1. Init => IndInv
    BY InitInv
<1>2. IndInv /\ [Next]_vars => IndInv'
    BY TypeStep, EveryStepOK, SteadyStep DEF IndInv, StepOK
<1> QED
    BY <1>1, <1>2, PTL DEF Spec

\* rw_refcount and the wait counts are what pthread_rwlock.h:12-16 says, through every
\* wake-up, retry and cancellation, and init finds them free to be cleared.
THEOREM CountsAlwaysExact == Spec => []CountsExact
<1>1. IndInv => CountsExact
    BY CountsByMode DEF IndInv
<1> QED
    BY Invariance, <1>1, PTL

\* destroy, which reads the counts one by one and takes no mutex, is kept off by every
\* thread that has held the lock or slept since it was called.
THEOREM SteadySpared == Spec => []DestroySpares
<1>1. IndInv => DestroySpares
    BY DEF IndInv, SteadyOK, NotYetExcluded, DestroySpares
<1> QED
    BY Invariance, <1>1, PTL

\* my_rwlock and my_rwlock_cancel implement the abstract lock: many readers or one
\* writer, and no new reader while a writer waits.
THEOREM LockImplemented == Spec => RefinesLock
<1>1. Init => Abstract!Init
    BY InitInv
<1>2. IndInv /\ [Next]_vars => [Abstract!Next]_Mode
    BY EveryStepOK DEF IndInv, StepOK
<1> QED
    BY <1>1, <1>2, Invariance, PTL DEF Spec, RefinesLock, Abstract!Spec
=============================================================================
