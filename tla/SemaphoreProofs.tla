-------------------------- MODULE SemaphoreProofs ---------------------------
(***************************************************************************)
(* Proofs about the named semaphore of my_pxsem_mmap and the programs that *)
(* share its parts: NamedOpen, how it is opened and created, and CondWait, *)
(* how threads wait for something to take, both for any number of          *)
(* processes, threads, calls, files, failures and tries.                   *)
(*                                                                         *)
(* OpenedIsInitialized is not inductive by itself: it must be known that a *)
(* cleared execute bit means finished contents (BitIsTruthful), and that a *)
(* name never goes back to a file it stood for before (CreatedSoFar).      *)
(*                                                                         *)
(* NoLostWakeup compares what there is to take with the consumers woken    *)
(* and the signals due; each step moves one of them at most by one, and    *)
(* the semaphore, which signals at zero only, keeps it because its only    *)
(* waiting thread is either asleep or woken.                               *)
(***************************************************************************)
EXTENDS NamedOpen, CondWait, FiniteSetTheorems, TLAPS

\* Files are numbered in the order of their creation, and only those exist.
CreatedSoFar ==
    /\ name <= created /\ xbit \subseteq 1..created
    /\ \A p \in Procs : fd[p] <= created

\* Only initialised files have lost the execute bit (sem_open.c:50-72).
BitIsTruthful ==
    /\ \A f \in 1..created : f \in xbit \/ f \in inited
    /\ \A p \in Procs : pc[p] = "complete" => fd[p] \in inited

\* The loop around stat() counts its tries (sem_open.c:93-107).
TriesLeft == \A p \in Procs : pc[p] = "stat" => tries[p] < MAX_TRIES

\* As long as nothing is removed there is at most one file, and it has the name.
FirstFile == unlinks = 0 /\ faults = 0 => name = created /\ created <= 1

IndInv == /\ TypeOK /\ CreatedSoFar /\ BitIsTruthful /\ TriesLeft
          /\ FirstFile /\ OpenedIsInitialized

-----------------------------------------------------------------------------
\* At the start there is no file under the name (sem_open.c:20-21).
LEMMA InitInv == Init => IndInv
BY OpenAssumption DEF Init, IndInv, TypeOK, CreatedSoFar, BitIsTruthful, TriesLeft,
   FirstFile, OpenedIsInitialized, Files, None, Oflags

\* Every step of an open call, of its error paths, and of unlink keeps the types.
LEMMA TypeStep == TypeOK /\ CreatedSoFar /\ TriesLeft /\ [Next]_vars => TypeOK'
<1> SUFFICES ASSUME TypeOK, CreatedSoFar, TriesLeft, [Next]_vars PROVE TypeOK'
    OBVIOUS
<1> USE OpenAssumption DEF TypeOK, Files, None, Goto
<1>1. ASSUME NEW p \in Procs, NEW oflag \in Oflags, OpenCall(p, oflag) PROVE TypeOK'
    BY <1>1 DEF OpenCall
<1>2. ASSUME NEW p \in Procs, Create(p) PROVE TypeOK'
    BY <1>2 DEF Create
<1>3. ASSUME NEW p \in Procs, CreateFails(p) PROVE TypeOK'
    BY <1>3 DEF CreateFails
<1>4. ASSUME NEW p \in Procs, Initialize(p) PROVE TypeOK'
    BY <1>4 DEF Initialize
<1>5. ASSUME NEW p \in Procs, Complete(p) PROVE TypeOK'
    BY <1>5 DEF Complete
<1>6. ASSUME NEW p \in Procs, OpenExisting(p) PROVE TypeOK'
    BY <1>6 DEF OpenExisting
<1>7. ASSUME NEW p \in Procs, StatComplete(p) PROVE TypeOK'
    BY <1>7 DEF StatComplete
<1>8. ASSUME NEW p \in Procs, StatGone(p) PROVE TypeOK'
    BY <1>8 DEF StatGone
<1>9. ASSUME NEW p \in Procs, StatPending(p) PROVE TypeOK'
    <2>1. tries[p] + 1 \in 0..MAX_TRIES
        BY <1>9 DEF StatPending, TriesLeft
    <2> QED BY <1>9, <2>1 DEF StatPending
<1>10. ASSUME NEW p \in Procs, InitFails(p) PROVE TypeOK'
    BY <1>10 DEF InitFails
<1>11. ASSUME NEW p \in Procs, Dies(p) PROVE TypeOK'
    BY <1>11 DEF Dies
<1>12. ASSUME NEW p \in Procs, OpenFails(p) PROVE TypeOK'
    BY <1>12 DEF OpenFails
<1>13. ASSUME NEW p \in Procs, Close(p) PROVE TypeOK'
    BY <1>13 DEF Close
<1>14. CASE Unlink
    BY <1>14 DEF Unlink
<1>15. CASE UNCHANGED vars
    BY <1>15 DEF vars
<1> QED
    BY <1>1, <1>2, <1>3, <1>4, <1>5, <1>6, <1>7, <1>8, <1>9, <1>10, <1>11, <1>12, <1>13,
       <1>14, <1>15 DEF Next, Step

\* No step makes a file under an old number or opens one that was not made.
LEMMA CreatedStep == TypeOK /\ CreatedSoFar /\ [Next]_vars => CreatedSoFar'
<1> SUFFICES ASSUME TypeOK, CreatedSoFar, [Next]_vars PROVE CreatedSoFar'
    OBVIOUS
<1> USE OpenAssumption DEF TypeOK, Files, None, Goto, CreatedSoFar
<1>1. ASSUME NEW p \in Procs, NEW oflag \in Oflags, OpenCall(p, oflag) PROVE CreatedSoFar'
    BY <1>1 DEF OpenCall
<1>2. ASSUME NEW p \in Procs, Create(p) PROVE CreatedSoFar'
    BY <1>2 DEF Create
<1>3. ASSUME NEW p \in Procs, CreateFails(p) PROVE CreatedSoFar'
    BY <1>3 DEF CreateFails
<1>4. ASSUME NEW p \in Procs, Initialize(p) PROVE CreatedSoFar'
    BY <1>4 DEF Initialize
<1>5. ASSUME NEW p \in Procs, Complete(p) PROVE CreatedSoFar'
    BY <1>5 DEF Complete
<1>6. ASSUME NEW p \in Procs, OpenExisting(p) PROVE CreatedSoFar'
    BY <1>6 DEF OpenExisting
<1>7. ASSUME NEW p \in Procs, StatComplete(p) PROVE CreatedSoFar'
    BY <1>7 DEF StatComplete
<1>8. ASSUME NEW p \in Procs, StatGone(p) PROVE CreatedSoFar'
    BY <1>8 DEF StatGone
<1>9. ASSUME NEW p \in Procs, StatPending(p) PROVE CreatedSoFar'
    BY <1>9 DEF StatPending
<1>10. ASSUME NEW p \in Procs, InitFails(p) PROVE CreatedSoFar'
    BY <1>10 DEF InitFails
<1>11. ASSUME NEW p \in Procs, Dies(p) PROVE CreatedSoFar'
    BY <1>11 DEF Dies
<1>12. ASSUME NEW p \in Procs, OpenFails(p) PROVE CreatedSoFar'
    BY <1>12 DEF OpenFails
<1>13. ASSUME NEW p \in Procs, Close(p) PROVE CreatedSoFar'
    BY <1>13 DEF Close
<1>14. CASE Unlink
    BY <1>14 DEF Unlink
<1>15. CASE UNCHANGED vars
    BY <1>15 DEF vars
<1> QED
    BY <1>1, <1>2, <1>3, <1>4, <1>5, <1>6, <1>7, <1>8, <1>9, <1>10,
       <1>11, <1>12, <1>13, <1>14, <1>15 DEF Next, Step

\* fchmod() (sem_open.c:72) is the only step that clears a bit, after the contents.
LEMMA BitStep == TypeOK /\ CreatedSoFar /\ BitIsTruthful /\ [Next]_vars => BitIsTruthful'
<1> SUFFICES ASSUME TypeOK, CreatedSoFar, BitIsTruthful, [Next]_vars PROVE BitIsTruthful'
    OBVIOUS
<1> USE OpenAssumption DEF TypeOK, Files, None, Goto, CreatedSoFar, BitIsTruthful
<1>1. ASSUME NEW p \in Procs, NEW oflag \in Oflags, OpenCall(p, oflag) PROVE BitIsTruthful'
    BY <1>1 DEF OpenCall
<1>2. ASSUME NEW p \in Procs, Create(p) PROVE BitIsTruthful'
    BY <1>2 DEF Create
<1>3. ASSUME NEW p \in Procs, CreateFails(p) PROVE BitIsTruthful'
    BY <1>3 DEF CreateFails
<1>4. ASSUME NEW p \in Procs, Initialize(p) PROVE BitIsTruthful'
    BY <1>4 DEF Initialize
<1>5. ASSUME NEW p \in Procs, Complete(p) PROVE BitIsTruthful'
    BY <1>5 DEF Complete
<1>6. ASSUME NEW p \in Procs, OpenExisting(p) PROVE BitIsTruthful'
    BY <1>6 DEF OpenExisting
<1>7. ASSUME NEW p \in Procs, StatComplete(p) PROVE BitIsTruthful'
    BY <1>7 DEF StatComplete
<1>8. ASSUME NEW p \in Procs, StatGone(p) PROVE BitIsTruthful'
    BY <1>8 DEF StatGone
<1>9. ASSUME NEW p \in Procs, StatPending(p) PROVE BitIsTruthful'
    BY <1>9 DEF StatPending
<1>10. ASSUME NEW p \in Procs, InitFails(p) PROVE BitIsTruthful'
    BY <1>10 DEF InitFails
<1>11. ASSUME NEW p \in Procs, Dies(p) PROVE BitIsTruthful'
    BY <1>11 DEF Dies
<1>12. ASSUME NEW p \in Procs, OpenFails(p) PROVE BitIsTruthful'
    BY <1>12 DEF OpenFails
<1>13. ASSUME NEW p \in Procs, Close(p) PROVE BitIsTruthful'
    BY <1>13 DEF Close
<1>14. CASE Unlink
    BY <1>14 DEF Unlink
<1>15. CASE UNCHANGED vars
    BY <1>15 DEF vars
<1> QED
    BY <1>1, <1>2, <1>3, <1>4, <1>5, <1>6, <1>7, <1>8, <1>9, <1>10,
       <1>11, <1>12, <1>13, <1>14, <1>15 DEF Next, Step

\* The last try leaves the loop (sem_open.c:93-109).
LEMMA TriesStep == TypeOK /\ TriesLeft /\ [Next]_vars => TriesLeft'
<1> SUFFICES ASSUME TypeOK, TriesLeft, [Next]_vars PROVE TriesLeft'
    OBVIOUS
<1> USE OpenAssumption DEF TypeOK, Files, None, Goto, TriesLeft
<1>1. ASSUME NEW p \in Procs, NEW oflag \in Oflags, OpenCall(p, oflag) PROVE TriesLeft'
    BY <1>1 DEF OpenCall
<1>2. ASSUME NEW p \in Procs, Create(p) PROVE TriesLeft'
    BY <1>2 DEF Create
<1>3. ASSUME NEW p \in Procs, CreateFails(p) PROVE TriesLeft'
    BY <1>3 DEF CreateFails
<1>4. ASSUME NEW p \in Procs, Initialize(p) PROVE TriesLeft'
    BY <1>4 DEF Initialize
<1>5. ASSUME NEW p \in Procs, Complete(p) PROVE TriesLeft'
    BY <1>5 DEF Complete
<1>6. ASSUME NEW p \in Procs, OpenExisting(p) PROVE TriesLeft'
    BY <1>6 DEF OpenExisting
<1>7. ASSUME NEW p \in Procs, StatComplete(p) PROVE TriesLeft'
    BY <1>7 DEF StatComplete
<1>8. ASSUME NEW p \in Procs, StatGone(p) PROVE TriesLeft'
    BY <1>8 DEF StatGone
<1>9. ASSUME NEW p \in Procs, StatPending(p) PROVE TriesLeft'
    BY <1>9 DEF StatPending
<1>10. ASSUME NEW p \in Procs, InitFails(p) PROVE TriesLeft'
    BY <1>10 DEF InitFails
<1>11. ASSUME NEW p \in Procs, Dies(p) PROVE TriesLeft'
    BY <1>11 DEF Dies
<1>12. ASSUME NEW p \in Procs, OpenFails(p) PROVE TriesLeft'
    BY <1>12 DEF OpenFails
<1>13. ASSUME NEW p \in Procs, Close(p) PROVE TriesLeft'
    BY <1>13 DEF Close
<1>14. CASE Unlink
    BY <1>14 DEF Unlink
<1>15. CASE UNCHANGED vars
    BY <1>15 DEF vars
<1> QED
    BY <1>1, <1>2, <1>3, <1>4, <1>5, <1>6, <1>7, <1>8, <1>9, <1>10,
       <1>11, <1>12, <1>13, <1>14, <1>15 DEF Next, Step

\* Only unlink, or an error path, takes the name from the first file.
LEMMA FirstStep == TypeOK /\ FirstFile /\ [Next]_vars => FirstFile'
<1> SUFFICES ASSUME TypeOK, FirstFile, [Next]_vars PROVE FirstFile'
    OBVIOUS
<1> USE OpenAssumption DEF TypeOK, Files, None, Goto, FirstFile
<1>1. ASSUME NEW p \in Procs, NEW oflag \in Oflags, OpenCall(p, oflag) PROVE FirstFile'
    BY <1>1 DEF OpenCall
<1>2. ASSUME NEW p \in Procs, Create(p) PROVE FirstFile'
    BY <1>2 DEF Create
<1>3. ASSUME NEW p \in Procs, CreateFails(p) PROVE FirstFile'
    BY <1>3 DEF CreateFails
<1>4. ASSUME NEW p \in Procs, Initialize(p) PROVE FirstFile'
    BY <1>4 DEF Initialize
<1>5. ASSUME NEW p \in Procs, Complete(p) PROVE FirstFile'
    BY <1>5 DEF Complete
<1>6. ASSUME NEW p \in Procs, OpenExisting(p) PROVE FirstFile'
    BY <1>6 DEF OpenExisting
<1>7. ASSUME NEW p \in Procs, StatComplete(p) PROVE FirstFile'
    BY <1>7 DEF StatComplete
<1>8. ASSUME NEW p \in Procs, StatGone(p) PROVE FirstFile'
    BY <1>8 DEF StatGone
<1>9. ASSUME NEW p \in Procs, StatPending(p) PROVE FirstFile'
    BY <1>9 DEF StatPending
<1>10. ASSUME NEW p \in Procs, InitFails(p) PROVE FirstFile'
    BY <1>10 DEF InitFails
<1>11. ASSUME NEW p \in Procs, Dies(p) PROVE FirstFile'
    BY <1>11 DEF Dies
<1>12. ASSUME NEW p \in Procs, OpenFails(p) PROVE FirstFile'
    BY <1>12 DEF OpenFails
<1>13. ASSUME NEW p \in Procs, Close(p) PROVE FirstFile'
    BY <1>13 DEF Close
<1>14. CASE Unlink
    BY <1>14 DEF Unlink
<1>15. CASE UNCHANGED vars
    BY <1>15 DEF vars
<1> QED
    BY <1>1, <1>2, <1>3, <1>4, <1>5, <1>6, <1>7, <1>8, <1>9, <1>10,
       <1>11, <1>12, <1>13, <1>14, <1>15 DEF Next, Step

\* Whoever gets out of the wait with the file that has the name got a finished one.
LEMMA OpenedStep == TypeOK /\ CreatedSoFar /\ BitIsTruthful /\ OpenedIsInitialized /\ [Next]_vars
                      => OpenedIsInitialized'
<1> SUFFICES ASSUME TypeOK, CreatedSoFar, BitIsTruthful, OpenedIsInitialized, [Next]_vars
             PROVE  OpenedIsInitialized'
    OBVIOUS
<1> USE OpenAssumption DEF TypeOK, Files, None, Goto, CreatedSoFar, BitIsTruthful,
        OpenedIsInitialized
<1>1. ASSUME NEW p \in Procs, NEW oflag \in Oflags, OpenCall(p, oflag) PROVE OpenedIsInitialized'
    BY <1>1 DEF OpenCall
<1>2. ASSUME NEW p \in Procs, Create(p) PROVE OpenedIsInitialized'
    BY <1>2 DEF Create
<1>3. ASSUME NEW p \in Procs, CreateFails(p) PROVE OpenedIsInitialized'
    BY <1>3 DEF CreateFails
<1>4. ASSUME NEW p \in Procs, Initialize(p) PROVE OpenedIsInitialized'
    BY <1>4 DEF Initialize
<1>5. ASSUME NEW p \in Procs, Complete(p) PROVE OpenedIsInitialized'
    BY <1>5 DEF Complete
<1>6. ASSUME NEW p \in Procs, OpenExisting(p) PROVE OpenedIsInitialized'
    BY <1>6 DEF OpenExisting
<1>7. ASSUME NEW p \in Procs, StatComplete(p) PROVE OpenedIsInitialized'
    BY <1>7 DEF StatComplete
<1>8. ASSUME NEW p \in Procs, StatGone(p) PROVE OpenedIsInitialized'
    BY <1>8 DEF StatGone
<1>9. ASSUME NEW p \in Procs, StatPending(p) PROVE OpenedIsInitialized'
    BY <1>9 DEF StatPending
<1>10. ASSUME NEW p \in Procs, InitFails(p) PROVE OpenedIsInitialized'
    BY <1>10 DEF InitFails
<1>11. ASSUME NEW p \in Procs, Dies(p) PROVE OpenedIsInitialized'
    BY <1>11 DEF Dies
<1>12. ASSUME NEW p \in Procs, OpenFails(p) PROVE OpenedIsInitialized'
    BY <1>12 DEF OpenFails
<1>13. ASSUME NEW p \in Procs, Close(p) PROVE OpenedIsInitialized'
    BY <1>13 DEF Close
<1>14. CASE Unlink
    BY <1>14 DEF Unlink
<1>15. CASE UNCHANGED vars
    BY <1>15 DEF vars
<1> QED
    BY <1>1, <1>2, <1>3, <1>4, <1>5, <1>6, <1>7, <1>8, <1>9, <1>10,
       <1>11, <1>12, <1>13, <1>14, <1>15 DEF Next, Step

\* Every execution keeps IndInv: the types, the truth of the execute bit, and what an
\* open call relies on (sem_open.c:20-122, mq_open.c).
THEOREM Invariance == Spec => []IndInv
<1>1. IndInv /\ [Next]_vars => IndInv'
    BY TypeStep, CreatedStep, BitStep, TriesStep, FirstStep, OpenedStep DEF IndInv
<1> QED
    BY InitInv, <1>1, PTL DEF Spec

\* A process that has opened the semaphore or queue under its present name finds it
\* initialised, whoever fails, dies or unlinks (sem_open.c:92-109).
THEOREM OpenedAlwaysInitialized == Spec => []OpenedIsInitialized
<1>1. IndInv => OpenedIsInitialized
    BY DEF IndInv
<1> QED
    BY Invariance, <1>1, PTL

\* Without unlink and faults all who have the name open share one file
\* (sem_open.c:29-37, 80-90).
THEOREM AllShareOneFile == Spec => []OneFile
<1>1. IndInv => OneFile
    BY DEF IndInv, TypeOK, CreatedSoFar, FirstFile, OneFile, Files, None
<1> QED
    BY Invariance, <1>1, PTL

-----------------------------------------------------------------------------
\* Only the consumers of this run of the program sleep.
OnlyActive == \A c \in Consumers : st[c] # "idle" => c \in active

\* mysem_post() signals before it unlocks: no signal of it is ever due (sem_post.c:16-24).
SignalsAtOnce == prog = "mysem" => Due = {}

WaitIndInv == WaitTypeOK /\ OnlyActive /\ SignalsAtOnce /\ NoLostWakeup

NumWoken == Cardinality(In("woken"))
NumDue == Cardinality(Due)

-----------------------------------------------------------------------------
\* The sets that are counted are finite.
LEMMA Counted ==
    /\ IsFiniteSet(In("woken")) /\ Cardinality(In("woken")) \in Nat
    /\ IsFiniteSet(Due) /\ Cardinality(Due) \in Nat
<1>1. In("woken") \subseteq Consumers /\ Due \subseteq Producers
    BY DEF In, Due
<1> QED
    BY <1>1, CondAssumption, FS_Subset, FS_CardinalityType

\* At the start nobody waits and nothing is due (test4.c:23-25).
LEMMA WaitInitInv == WaitInit => WaitIndInv
<1> SUFFICES ASSUME WaitInit PROVE WaitIndInv
    OBVIOUS
<1>1. In("asleep") = {} /\ Due = {}
    BY DEF WaitInit, In, Due
<1> QED
    BY <1>1, CondAssumption DEF WaitInit, WaitIndInv, WaitTypeOK, OnlyActive, SignalsAtOnce,
       NoLostWakeup

\* The types, the sleepers and the signals due, in one step of any thread.
LEMMA WaitTypeStep == WaitTypeOK /\ OnlyActive /\ SignalsAtOnce /\ [WaitNext]_waitVars
                    => WaitTypeOK' /\ OnlyActive' /\ SignalsAtOnce'
<1> SUFFICES ASSUME WaitTypeOK, OnlyActive, SignalsAtOnce, [WaitNext]_waitVars
             PROVE  WaitTypeOK' /\ OnlyActive' /\ SignalsAtOnce'
    OBVIOUS
<1> USE CondAssumption DEF WaitTypeOK, OnlyActive, SignalsAtOnce, Due, In
<1>1. ASSUME NEW c \in Consumers, Consume(c) \/ Wakes(c) \/ mysem_trywait(c)
      PROVE  WaitTypeOK' /\ OnlyActive' /\ SignalsAtOnce'
    BY <1>1 DEF Consume, Wakes, mysem_trywait, Take, Sleep
<1>2. ASSUME NEW c \in Consumers, SpuriousWakeup(c)
      PROVE  WaitTypeOK' /\ OnlyActive' /\ SignalsAtOnce'
    BY <1>2 DEF SpuriousWakeup
<1>3. ASSUME NEW p \in Producers, Produce(p)
      PROVE  WaitTypeOK' /\ OnlyActive' /\ SignalsAtOnce'
    BY <1>3 DEF Produce, Supply
<1>4. ASSUME NEW p \in Producers, ProducerSignals(p)
      PROVE  WaitTypeOK' /\ OnlyActive' /\ SignalsAtOnce'
    BY <1>4 DEF ProducerSignals, Signal
<1>5. ASSUME NEW p \in Producers, mysem_post(p)
      PROVE  WaitTypeOK' /\ OnlyActive' /\ SignalsAtOnce'
    BY <1>5 DEF mysem_post, Supply, Signal
<1>6. CASE UNCHANGED waitVars
    BY <1>6 DEF waitVars
<1> QED
    BY <1>1, <1>2, <1>3, <1>4, <1>5, <1>6 DEF WaitNext

\* A consumer that is woken is one more to take something.
LEMMA OneMoreWoken ==
    ASSUME WaitTypeOK, NEW c \in Consumers, st[c] # "woken", st' = [st EXCEPT ![c] = "woken"]
    PROVE  Cardinality(In("woken")') = Cardinality(In("woken")) + 1
<1>1. In("woken")' = In("woken") \cup {c} /\ c \notin In("woken")
    BY DEF In, WaitTypeOK
<1> QED
    BY <1>1, Counted, FS_AddElement

\* A consumer that goes on is one less.
LEMMA OneLessWoken ==
    ASSUME WaitTypeOK, NEW c \in Consumers, st[c] = "woken", NEW s, s # "woken",
           st' = [st EXCEPT ![c] = s]
    PROVE  Cardinality(In("woken")') = Cardinality(In("woken")) - 1
<1>1. In("woken")' = In("woken") \ {c} /\ c \in In("woken")
    BY DEF In, WaitTypeOK
<1> QED
    BY <1>1, Counted, FS_RemoveElement

\* A consumer that takes, or falls asleep without having been woken, leaves the woken alone.
LEMMA SameWoken ==
    ASSUME WaitTypeOK, NEW c \in Consumers, st[c] # "woken", NEW s, s # "woken",
           st' = [st EXCEPT ![c] = s]
    PROVE  In("woken")' = In("woken")
BY DEF In, WaitTypeOK

\* pthread_cond_signal() wakes a sleeper, if there is one (test3.c:71, sem_post.c:20).
LEMMA SignalWakes ==
    ASSUME WaitTypeOK, Signal
    PROVE  \/ In("asleep")' = {}
           \/ Cardinality(In("woken")') = Cardinality(In("woken")) + 1
<1>1. ASSUME NEW c \in In("asleep"), st' = [st EXCEPT ![c] = "woken"]
      PROVE  Cardinality(In("woken")') = Cardinality(In("woken")) + 1
    <2>1. c \in Consumers /\ st[c] # "woken"
        BY DEF In
    <2> QED BY <1>1, <2>1, OneMoreWoken
<1>2. CASE In("asleep") = {} /\ UNCHANGED st
    BY <1>2 DEF In
<1> QED
    BY <1>1, <1>2 DEF Signal

\* Whatever there is to take has a woken consumer or a signal due, after every step.
LEMMA WakeupStep == WaitIndInv /\ WaitTypeOK' /\ OnlyActive' /\ [WaitNext]_waitVars => NoLostWakeup'
<1> SUFFICES ASSUME WaitIndInv, WaitTypeOK', OnlyActive', [WaitNext]_waitVars PROVE NoLostWakeup'
    OBVIOUS
<1> USE DEF WaitIndInv
<1>1. /\ NumWoken \in Nat /\ NumDue \in Nat /\ NumWoken' \in Nat /\ NumDue' \in Nat
      /\ count \in Nat /\ count' \in Nat
    <2>1. NumWoken \in Nat /\ NumDue \in Nat
        BY Counted DEF NumWoken, NumDue
    <2>2. NumWoken' \in Nat /\ NumDue' \in Nat
        <3>1. In("woken")' \subseteq Consumers /\ Due' \subseteq Producers
            BY DEF In, Due
        <3> QED BY <3>1, CondAssumption, FS_Subset, FS_CardinalityType DEF NumWoken, NumDue
    <2> QED BY <2>1, <2>2 DEF WaitTypeOK
<1>2. prog' = prog /\ active' = active /\ (Sound' <=> Sound)
    BY DEF WaitNext, waitVars, Sound, Consume, Wakes, mysem_trywait, SpuriousWakeup, Produce,
       ProducerSignals, mysem_post
<1>3. SUFFICES ASSUME Sound, In("asleep")' # {} PROVE count' <= NumWoken' + NumDue'
    BY <1>2 DEF NoLostWakeup, NumWoken, NumDue
<1>4. In("asleep") # {} => count <= NumWoken + NumDue
    BY <1>3 DEF NoLostWakeup, NumWoken, NumDue
<1>5. CASE count' = 0
    <2>1. \A w, d, n \in Nat : n = 0 => n <= w + d
        OBVIOUS
    <2> QED BY <1>1, <1>5, <2>1
<1>6. ASSUME NEW c \in Consumers, Consume(c) \/ Wakes(c) \/ mysem_trywait(c), count' # 0
      PROVE  count' <= NumWoken' + NumDue'
    <2>1. Take(c) /\ pst' = pst /\ count # 0
        BY <1>6 DEF Consume, Wakes, mysem_trywait, Sleep
    <2>2. NumDue' = NumDue /\ count' = count - 1 /\ st' = [st EXCEPT ![c] = "idle"]
        BY <2>1 DEF Take, NumDue, Due
    <2>3. In("asleep") # {}
        BY <1>3, <2>2 DEF In, WaitTypeOK
    <2>4. NumWoken' = NumWoken - 1 \/ NumWoken' = NumWoken
        <3>1. CASE st[c] = "woken"
            BY <3>1, <2>2, OneLessWoken DEF NumWoken
        <3>2. CASE st[c] # "woken"
            BY <3>2, <2>2, SameWoken DEF NumWoken
        <3> QED BY <3>1, <3>2
    <2>5. \A w, w1, d, n \in Nat :
             n # 0 /\ n <= w + d /\ (w1 = w - 1 \/ w1 = w) => n - 1 <= w1 + d
        OBVIOUS
    <2> QED BY <1>1, <1>4, <2>1, <2>2, <2>3, <2>4, <2>5
<1>7. ASSUME NEW c \in Consumers, SpuriousWakeup(c) PROVE count' <= NumWoken' + NumDue'
    <2>1. NumDue' = NumDue /\ count' = count /\ NumWoken' = NumWoken + 1 /\ In("asleep") # {}
        BY <1>7, OneMoreWoken DEF SpuriousWakeup, NumDue, Due, NumWoken, In
    <2> QED BY <1>1, <1>4, <2>1
<1>8. ASSUME NEW p \in Producers, Produce(p) PROVE count' <= NumWoken' + NumDue'
    <2>1. count' = count + 1 /\ st' = st /\ p \notin Due /\ Due' = Due \cup {p}
        BY <1>8 DEF Produce, Supply, Due, WaitTypeOK
    <2>2. NumDue' = NumDue + 1
        BY <2>1, Counted, FS_AddElement DEF NumDue
    <2>3. NumWoken' = NumWoken /\ In("asleep") # {}
        BY <1>3, <2>1 DEF NumWoken, In
    <2> QED BY <1>1, <1>4, <2>1, <2>2, <2>3
<1>9. ASSUME NEW p \in Producers, ProducerSignals(p) PROVE count' <= NumWoken' + NumDue'
    <2>1. count' = count /\ p \in Due /\ Due' = Due \ {p}
        BY <1>9 DEF ProducerSignals, Due, WaitTypeOK
    <2>2. NumDue' = NumDue - 1
        BY <2>1, Counted, FS_RemoveElement DEF NumDue
    <2>3. prog = "test3"
        BY <1>3, <1>9 DEF ProducerSignals, In
    <2>4. Signal
        BY <1>9, <2>3 DEF ProducerSignals
    <2>5. NumWoken' = NumWoken + 1 /\ In("asleep") # {}
        BY <1>3, <2>4, SignalWakes DEF NumWoken, Signal, In
    <2> QED BY <1>1, <1>4, <2>1, <2>2, <2>5
<1>10. ASSUME NEW p \in Producers, mysem_post(p) PROVE count' <= NumWoken' + NumDue'
    <2>1. prog = "mysem" /\ count' = count + 1 /\ pst' = pst
        BY <1>10 DEF mysem_post, Supply
    <2>2. PICK c \in Consumers : st'[c] = "asleep"
        BY <1>3 DEF In
    <2>3. c \in active /\ st[c] = "asleep"
        BY <1>10, <2>2 DEF mysem_post, Signal, In, WaitTypeOK, OnlyActive
    <2>4. active \subseteq {c}
        <3>1. IsFiniteSet(active) /\ Cardinality(active) <= 1
            BY <1>3, <2>1, CondAssumption, FS_Subset DEF Sound, WaitTypeOK
        <3>2. Cardinality(active) = 1 \/ Cardinality(active) = 0
            BY <3>1, FS_CardinalityType
        <3> QED BY <2>3, <3>1, <3>2, FS_EmptySet, FS_Singleton
    <2>5. In("woken") = {} /\ Due = {}
        BY <2>1, <2>3, <2>4 DEF In, OnlyActive, SignalsAtOnce
    <2>6. NumWoken = 0 /\ NumDue = 0
        BY <2>5, FS_EmptySet DEF NumWoken, NumDue
    <2>7. count = 0
        BY <1>1, <1>4, <2>3, <2>6 DEF In
    <2>8. Signal
        BY <1>10, <2>7 DEF mysem_post
    <2>9. In("asleep") = {c}
        BY <2>3, <2>4 DEF In, OnlyActive
    <2>10. st'[c] = "woken"
        BY <2>8, <2>9 DEF Signal, WaitTypeOK
    <2> QED BY <2>2, <2>10
<1>11. CASE UNCHANGED waitVars
    <2>1. count' = count /\ NumWoken' = NumWoken /\ NumDue' = NumDue /\ In("asleep") # {}
        BY <1>3, <1>11 DEF waitVars, NumWoken, NumDue, In, Due
    <2> QED BY <1>1, <1>4, <2>1
<1> QED
    BY <1>5, <1>6, <1>7, <1>8, <1>9, <1>10, <1>11 DEF WaitNext

\* The inductive invariant of the waiting programs, for any number of threads.
THEOREM WaitInvariance == WaitSpec => []WaitIndInv
<1>1. WaitIndInv /\ [WaitNext]_waitVars => WaitIndInv'
    BY WaitTypeStep, WakeupStep DEF WaitIndInv
<1> QED
    BY WaitInitInv, <1>1, PTL DEF WaitSpec

\* Signalling after the unlock (test3.c:69-71, test4.c) loses no wake-up, and neither does
\* the semaphore's rule (sem_post.c:19) with one waiting thread.
THEOREM NoWakeupLost == WaitSpec => []NoLostWakeup
<1>1. WaitIndInv => NoLostWakeup
    BY DEF WaitIndInv
<1> QED
    BY WaitInvariance, <1>1, PTL
=============================================================================
