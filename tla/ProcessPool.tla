----------------------------- MODULE ProcessPool -----------------------------
(***************************************************************************)
(* The pre-forking server of 2012.04.13/tcp/server3.new.c.  The parent     *)
(* forks a child, waits on a semaphore that starts at PROCESS_NUM and      *)
(* counts the child in living_process; a child accepts one connection,     *)
(* posts the semaphore, serves and exits; SIGCHLD makes the parent reap.   *)
(* The parent may look at the semaphore between accept and post.           *)
(*                                                                         *)
(* The children are interchangeable, so they are counted by state.  The    *)
(* children's sem_destroy() does nothing in glibc and is left out.         *)
(***************************************************************************)
EXTENDS Integers

CONSTANTS
    PROCESS_NUM,
    MaxConns,       \* bound: connections the clients open
    MaxAcceptErrors \* bound: accepts that fail with another error than EINTR

ASSUME PoolAssumption ==
    PROCESS_NUM \in Nat \ {0} /\ MaxConns \in Nat /\ MaxAcceptErrors \in Nat

VARIABLES
    parent,    \* the parent is at "fork", in sem_wait ("wait"), or in living_process++ ("load", "store")
    handling,  \* the parent is in signal_handler, before wait() has returned
    sem,       \* global_ppcb->sem
    living,    \* global_ppcb->living_process
    reg,       \* the register of living_process++
    idle,      \* children blocked in accept()
    accepted,  \* children that have accepted and not yet posted
    serving,   \* children that have posted and not yet exited
    zombie,    \* children that have exited and are not reaped
    reaped,    \* children reaped by signal_handler
    failed,    \* children whose accept() failed
    sigchld,   \* SIGCHLD is pending: any number of exits makes one pending signal
    conns,     \* established connections nobody has accepted
    opened     \* connections opened so far

countVars == <<sem, living, reg>>
childVars == <<idle, accepted, serving, zombie, reaped, failed>>
netVars == <<conns, opened>>
vars == <<parent, handling, sigchld, sem, living, reg, idle, accepted, serving, zombie,
          reaped, failed, conns, opened>>

Init ==
    /\ parent = "fork" /\ handling = FALSE /\ sem = PROCESS_NUM /\ living = 0 /\ reg = 0
    /\ idle = 0 /\ accepted = 0 /\ serving = 0 /\ zombie = 0 /\ reaped = 0 /\ failed = 0
    /\ sigchld = FALSE
    /\ conns = 0 /\ opened = 0

-----------------------------------------------------------------------------
(* The parent's loop, which stands still while the handler runs.           *)

\* Mutant: the parent trusts living_process and forks up to PROCESS_NUM children.
Fork_UpToLiving ==
    /\ parent = "fork" /\ ~handling /\ living < PROCESS_NUM
    /\ idle' = idle + 1 /\ parent' = "wait"
    /\ UNCHANGED <<handling, sigchld, accepted, serving, zombie, reaped, failed, countVars, netVars>>

\* A fork() that fails is tried again at once.
Fork ==
    /\ parent = "fork" /\ ~handling
    /\ idle' = idle + 1 /\ parent' = "wait"
    /\ UNCHANGED <<handling, sigchld, accepted, serving, zombie, reaped, failed, countVars, netVars>>

SemWait ==
    /\ parent = "wait" /\ ~handling /\ sem > 0
    /\ sem' = sem - 1 /\ parent' = "load"
    /\ UNCHANGED <<handling, sigchld, living, reg, childVars, netVars>>

\* living_process++ is a load and a store; the handler may run between them.
LoadLiving ==
    /\ parent = "load" /\ ~handling
    /\ reg' = living /\ parent' = "store"
    /\ UNCHANGED <<handling, sigchld, sem, living, childVars, netVars>>

StoreLiving ==
    /\ parent = "store" /\ ~handling
    /\ living' = reg + 1 /\ parent' = "fork"
    /\ UNCHANGED <<handling, sigchld, sem, reg, childVars, netVars>>

-----------------------------------------------------------------------------
(* The handler.                                                            *)

\* The handler is installed without SA_RESTART, and the result of sem_wait() is
\* not looked at: a sem_wait() that has blocked returns EINTR and the parent goes
\* on as if it had passed.
signal_handler ==
    /\ sigchld /\ ~handling
    /\ sigchld' = FALSE /\ handling' = TRUE
    /\ \/ parent = "wait" /\ sem = 0 /\ parent' = "load"
       \/ UNCHANGED parent      \* the signal came before sem_wait() blocked
    /\ UNCHANGED <<countVars, childVars, netVars>>

\* Mutant: the child is counted off twice.
Reap_CountsTwice ==
    /\ handling /\ zombie > 0
    /\ zombie' = zombie - 1 /\ reaped' = reaped + 1
    /\ living' = living - 2 /\ handling' = FALSE
    /\ UNCHANGED <<parent, sigchld, sem, reg, idle, accepted, serving, failed, netVars>>

\* Mutant: wait() is called until no exited child is left, after every signal.
Reap_ThenAgain ==
    /\ handling /\ zombie > 0
    /\ zombie' = zombie - 1 /\ reaped' = reaped + 1
    /\ living' = living - 1
    /\ UNCHANGED <<parent, handling, sigchld, sem, reg, idle, accepted, serving, failed, netVars>>

\* One wait() per SIGCHLD; it blocks until a child has exited.
Reap ==
    /\ handling /\ zombie > 0
    /\ zombie' = zombie - 1 /\ reaped' = reaped + 1
    /\ living' = living - 1 /\ handling' = FALSE
    /\ UNCHANGED <<parent, sigchld, sem, reg, idle, accepted, serving, failed, netVars>>

-----------------------------------------------------------------------------
(* The children and the clients.                                           *)

\* Mutant: the child posts the semaphore when it exits, too.
Exit_Posts ==
    /\ serving > 0
    /\ serving' = serving - 1 /\ zombie' = zombie + 1 /\ sigchld' = TRUE
    /\ sem' = sem + 1
    /\ UNCHANGED <<parent, handling, living, reg, idle, accepted, reaped, failed, netVars>>

\* A child gets a connection.
Accept ==
    /\ idle > 0 /\ conns > 0
    /\ idle' = idle - 1 /\ accepted' = accepted + 1 /\ conns' = conns - 1
    /\ UNCHANGED <<parent, handling, sigchld, countVars, serving, zombie, reaped, failed, opened>>

\* Mutant: the child goes on without posting the semaphore.
Post_Forgotten ==
    /\ accepted > 0
    /\ accepted' = accepted - 1 /\ serving' = serving + 1
    /\ UNCHANGED <<parent, handling, sigchld, countVars, idle, zombie, reaped, failed, netVars>>

\* The child posts the semaphore.
Post ==
    /\ accepted > 0
    /\ accepted' = accepted - 1 /\ serving' = serving + 1
    /\ sem' = sem + 1
    /\ UNCHANGED <<parent, handling, sigchld, living, reg, idle, zombie, reaped, failed, netVars>>

\* accept() fails, with the connection (ECONNABORTED) or without it (EMFILE): the
\* child exits without posting.
AcceptFails ==
    /\ failed < MaxAcceptErrors /\ idle > 0 /\ conns > 0
    /\ idle' = idle - 1 /\ conns' \in {conns, conns - 1}
    /\ zombie' = zombie + 1 /\ failed' = failed + 1 /\ sigchld' = TRUE
    /\ UNCHANGED <<parent, handling, accepted, serving, reaped, opened, countVars>>

\* The child has written its banner, closed the connection and slept.
Exit ==
    /\ serving > 0
    /\ serving' = serving - 1 /\ zombie' = zombie + 1 /\ sigchld' = TRUE
    /\ UNCHANGED <<parent, handling, idle, accepted, reaped, failed, countVars, netVars>>

Connect ==
    /\ opened < MaxConns
    /\ opened' = opened + 1 /\ conns' = conns + 1
    /\ UNCHANGED <<parent, handling, sigchld, childVars, countVars>>

Loop == Fork \/ SemWait \/ LoadLiving \/ StoreLiving
Child == Accept \/ Post \/ AcceptFails \/ Exit
Next == Loop \/ signal_handler \/ Reap \/ Child \/ Connect

Spec == Init /\ [][Next]_vars

(* The processes get the processor, and a fork() that fails for want of        *)
(* memory succeeds in the end.                                                 *)
FairSpec == Spec /\ WF_vars(Loop) /\ WF_vars(signal_handler) /\ WF_vars(Reap)
                 /\ WF_vars(Accept) /\ WF_vars(Post) /\ WF_vars(Exit)

-----------------------------------------------------------------------------
\* The counters are counters; sem_wait() never takes the semaphore below zero.
TypeOK ==
    /\ parent \in {"fork", "wait", "load", "store"}
    /\ handling \in BOOLEAN /\ sigchld \in BOOLEAN
    /\ sem \in Nat /\ living \in Int /\ reg \in Int
    /\ idle \in Nat /\ accepted \in Nat /\ serving \in Nat /\ zombie \in Nat
    /\ reaped \in Nat /\ failed \in Nat
    /\ conns \in Nat /\ opened \in 0..MaxConns

Children == idle + accepted + serving + zombie

\* wait() in the handler never blocks the parent: exits merge into one pending
\* SIGCHLD and more may come while the handler runs, but each delivery has an
\* unreaped child of its own (server3.new.c:341).
HandlerFindsChild == handling => zombie > 0

\* living_process is never less than the number of children not yet reaped that
\* the parent has counted: the unprotected increment can lose a decrement of the
\* handler, so the count drifts upwards only (server3.new.c:248, 349).
LivingNotLow ==
    IF parent = "fork" THEN living >= Children
    ELSE IF parent = "store" THEN reg + 1 >= Children ELSE living + 1 >= Children

\* The children waiting in accept() outnumber PROCESS_NUM by one, and by one more
\* for every child reaped or being reaped: each SIGCHLD can cost the semaphore
\* one decrement (server3.new.c:246, 333-372).
IdleBound == idle <= PROCESS_NUM + 1 + reaped + (IF handling THEN 1 ELSE 0)

\* A parent that blocks in sem_wait() can still be woken by a post: some child is in
\* accept() or between accept and post, as long as no more than PROCESS_NUM accepts have
\* failed.  Each failure costs the pool a place for good, for that child exits without
\* posting; children that have posted are of no help (server3.new.c:246, 268-305).
PostComing ==
    parent = "wait" /\ sem = 0 /\ failed <= PROCESS_NUM => idle + accepted > 0

\* Every connection is taken, as long as no more than PROCESS_NUM accepts fail:
\* posts and forks keep children coming.
ConnectionsServed == conns > 0 ~> conns = 0 \/ failed > PROCESS_NUM
=============================================================================
