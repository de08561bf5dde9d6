-------------------------- MODULE ProcessPoolProofs --------------------------
(***************************************************************************)
(* Proofs of ProcessPool's safety properties for every pool size and any   *)
(* number of connections.  One inductive invariant carries them:           *)
(*   - HandlerOK: a pending SIGCHLD and a running handler have an exited   *)
(*     child each, which survives the exits and the reaping in between;    *)
(*   - PoolOK: children that have not posted and semaphore together are    *)
(*     PROCESS_NUM and one for the child forked ahead of sem_wait(), at    *)
(*     most one more for every SIGCHLD delivered and at least, but for the *)
(*     failed accepts.  Only the sum is inductive: a child moves from      *)
(*     accept() to its post, and the post goes to the semaphore.           *)
(* LivingNotLow is inductive as it stands, given TypeOK.                   *)
(***************************************************************************)
EXTENDS ProcessPool, TLAPS

\* 1 for a condition that holds.
One(b) == IF b THEN 1 ELSE 0

HandlerOK == One(handling) + One(sigchld) <= zombie

PoolOK ==
    /\ idle + accepted + sem <= PROCESS_NUM + reaped + One(handling) + One(parent = "wait")
    /\ idle + accepted + sem + failed >= PROCESS_NUM + One(parent = "wait")

IndInv == TypeOK /\ HandlerOK /\ LivingNotLow /\ PoolOK

\* The server starts (server3.new.c:189-222) with no children and a full semaphore.
LEMMA InitInv == Init => IndInv
<1> SUFFICES ASSUME Init PROVE IndInv
    OBVIOUS
<1> USE DEF Init
<1>1. handling \in BOOLEAN /\ sigchld \in BOOLEAN
    BY Zenon
<1>2. TypeOK
    BY <1>1, PoolAssumption DEF TypeOK
<1>3. HandlerOK
    BY DEF HandlerOK, One
<1>4. LivingNotLow
    BY DEF LivingNotLow, Children
<1>5. PoolOK
    BY PoolAssumption DEF PoolOK, One
<1> QED
    BY <1>2, <1>3, <1>4, <1>5 DEF IndInv

\* A step of the parent's loop, the handler, a child or a client keeps every
\* variable in its type: only a positive semaphore is taken, only a child that
\* exists changes its state.
LEMMA TypeStep == ASSUME TypeOK, Next PROVE TypeOK'
<1> USE DEF TypeOK, countVars, childVars, netVars
<1>0. handling' \in BOOLEAN /\ sigchld' \in BOOLEAN
    BY Zenon DEF Next, Loop, Fork, SemWait, LoadLiving, StoreLiving, signal_handler, Reap,
                 Child, Accept, Post, AcceptFails, Exit, Connect
<1>1. CASE Loop
    BY <1>0, <1>1 DEF Loop, Fork, SemWait, LoadLiving, StoreLiving
<1>2. CASE signal_handler
    BY <1>0, <1>2 DEF signal_handler
<1>3. CASE Reap
    BY <1>0, <1>3 DEF Reap
<1>4. CASE Child
    BY <1>0, <1>4 DEF Child, Accept, Post, AcceptFails, Exit
<1>5. CASE Connect
    BY <1>0, <1>5, PoolAssumption DEF Connect
<1> QED
    BY <1>1, <1>2, <1>3, <1>4, <1>5 DEF Next

\* Exits merge into one pending SIGCHLD, the handler takes it and wait() reaps:
\* each of the two keeps an exited child of its own (server3.new.c:333-349).
LEMMA HandlerStep == ASSUME TypeOK, HandlerOK, Next PROVE HandlerOK'
<1> USE DEF TypeOK, HandlerOK, One, countVars, childVars, netVars
<1>1. CASE Loop
    BY <1>1 DEF Loop, Fork, SemWait, LoadLiving, StoreLiving
<1>2. CASE signal_handler
    BY <1>2 DEF signal_handler
<1>3. CASE Reap
    BY <1>3 DEF Reap
<1>4. CASE Child
    BY <1>4 DEF Child, Accept, Post, AcceptFails, Exit
<1>5. CASE Connect
    BY <1>5 DEF Connect
<1> QED
    BY <1>1, <1>2, <1>3, <1>4, <1>5 DEF Next

\* A handler that runs between load and store (server3.new.c:248, 349) lowers
\* the number of children and not the register: the count can only end up high.
LEMMA LivingStep == ASSUME TypeOK, LivingNotLow, Next PROVE LivingNotLow'
<1> USE DEF TypeOK, LivingNotLow, Children, countVars, childVars, netVars
<1>1. CASE Fork
    BY <1>1 DEF Fork
<1>2. CASE SemWait
    BY <1>2 DEF SemWait
<1>3. CASE LoadLiving
    BY <1>3 DEF LoadLiving
<1>4. CASE StoreLiving
    BY <1>4 DEF StoreLiving
<1>5. CASE signal_handler
    BY <1>5 DEF signal_handler
<1>6. CASE Reap
    BY <1>6 DEF Reap
<1>7. CASE Child
    BY <1>7 DEF Child, Accept, Post, AcceptFails, Exit
<1>8. CASE Connect
    BY <1>8 DEF Connect
<1> QED
    BY <1>1, <1>2, <1>3, <1>4, <1>5, <1>6, <1>7, <1>8 DEF Next, Loop

\* Forking ahead of sem_wait() and an interrupted sem_wait() (server3.new.c:232,
\* 246) are the only steps that add to unposted children and semaphore, a failed
\* accept (server3.new.c:279) the only one that takes from both.
LEMMA PoolStep == ASSUME TypeOK, PoolOK, Next PROVE PoolOK'
<1> USE DEF TypeOK, PoolOK, One, countVars, childVars, netVars
<1> USE PoolAssumption
<1>1. CASE Loop
    BY <1>1 DEF Loop, Fork, SemWait, LoadLiving, StoreLiving
<1>2. CASE signal_handler
    BY <1>2 DEF signal_handler
<1>3. CASE Reap
    BY <1>3 DEF Reap
<1>4. CASE Child
    BY <1>4 DEF Child, Accept, Post, AcceptFails, Exit
<1>5. CASE Connect
    BY <1>5 DEF Connect
<1> QED
    BY <1>1, <1>2, <1>3, <1>4, <1>5 DEF Next

\* The inductive invariant holds in every reachable state of the server.
THEOREM Invariance == Spec => []IndInv
<1>1. ASSUME IndInv, [Next]_vars PROVE IndInv'
    <2>1. CASE Next
        BY <1>1, <2>1, TypeStep, HandlerStep, LivingStep, PoolStep DEF IndInv
    <2>2. CASE UNCHANGED vars
        BY <1>1, <2>2 DEF vars, IndInv, TypeOK, HandlerOK, LivingNotLow, PoolOK, One, Children
    <2> QED
        BY <1>1, <2>1, <2>2
<1> QED
    BY InitInv, <1>1, PTL DEF Spec

\* The semaphore and the counters of children stay in their types.
THEOREM TypeCorrect == Spec => []TypeOK
<1>1. IndInv => TypeOK
    BY DEF IndInv
<1> QED
    BY Invariance, <1>1, PTL

\* wait() in signal_handler always finds an exited child, however SIGCHLDs merge.
THEOREM HandlerNeverBlocks == Spec => []HandlerFindsChild
<1>1. IndInv => HandlerFindsChild
    BY DEF IndInv, TypeOK, HandlerOK, One, HandlerFindsChild
<1> QED
    BY Invariance, <1>1, PTL

\* living_process never falls below the children the parent has counted.
THEOREM LivingNeverLow == Spec => []LivingNotLow
<1>1. IndInv => LivingNotLow
    BY DEF IndInv
<1> QED
    BY Invariance, <1>1, PTL

\* The pool outgrows PROCESS_NUM by one child per SIGCHLD and one forked ahead.
THEOREM PoolBounded == Spec => []IdleBound
<1>1. IndInv => IdleBound
    BY PoolAssumption DEF IndInv, TypeOK, PoolOK, One, IdleBound
<1> QED
    BY Invariance, <1>1, PTL

\* Whenever the parent blocks in sem_wait() a child is left that has still to post, in
\* accept() or just out of it, unless more than PROCESS_NUM accepts have failed.
THEOREM PostAlwaysComing == Spec => []PostComing
<1>1. IndInv => PostComing
    BY PoolAssumption DEF IndInv, TypeOK, PoolOK, One, PostComing
<1> QED
    BY Invariance, <1>1, PTL
=============================================================================
