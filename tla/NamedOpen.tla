----------------------------- MODULE NamedOpen ------------------------------
(***************************************************************************)
(* How processes open a named semaphore (mysem_open() of my_pxsem_mmap) or *)
(* message queue (mymq_open() of my_pxmsg_mmap), create it, and wait for   *)
(* its creator to initialise it.  Both are a mapped file, made with O_EXCL *)
(* and with the user-execute bit, which is turned off once the contents    *)
(* are initialised.  Files are numbered in the order of their creation.    *)
(***************************************************************************)
EXTENDS Integers, FiniteSets

CONSTANTS
    Procs,
    MAX_TRIES,
    MaxFiles,        \* bound: files ever created under the name
    MaxCalls,        \* bound: open calls of all processes
    MaxUnlinks,      \* bound: calls of mysem_unlink() or mymq_unlink()
    MaxFaults        \* bound: failing system calls and processes that die

ASSUME OpenAssumption ==
    /\ MAX_TRIES \in Nat \ {0}
    /\ MaxFiles \in Nat /\ MaxCalls \in Nat /\ MaxUnlinks \in Nat /\ MaxFaults \in Nat

None == 0
Files == 1 .. MaxFiles

VARIABLES
    name,      \* the file the name stands for, or None
    created,   \* how many files there have been
    xbit,      \* files whose user-execute bit is set
    inited,    \* files whose contents are initialised
    pc, fd,    \* each process: where it is, and the file it has open or mapped
    flags,     \* each process: the oflag of its call
    tries, calls, unlinks, faults

vars == <<name, created, xbit, inited, pc, fd, flags, tries, calls, unlinks, faults>>

Oflags == {{}, {"O_CREAT"}, {"O_CREAT", "O_EXCL"}}

Goto(p, l) == pc' = [pc EXCEPT ![p] = l]

Init ==
    /\ name = None /\ created = 0 /\ xbit = {} /\ inited = {}
    /\ pc = [p \in Procs |-> "closed"] /\ fd = [p \in Procs |-> None]
    /\ flags = [p \in Procs |-> {}] /\ tries = [p \in Procs |-> 0]
    /\ calls = 0 /\ unlinks = 0 /\ faults = 0

-----------------------------------------------------------------------------
OpenCall(p, oflag) ==
    /\ pc[p] = "closed" /\ calls < MaxCalls
    /\ calls' = calls + 1 /\ flags' = [flags EXCEPT ![p] = oflag]
    /\ tries' = [tries EXCEPT ![p] = 0]
    /\ Goto(p, IF "O_CREAT" \in oflag THEN "again" ELSE "exists")
    /\ UNCHANGED <<name, created, xbit, inited, fd, unlinks, faults>>

\* open(O_CREAT | O_EXCL): whoever creates the file initialises it.
Create(p) ==
    /\ pc[p] = "again" /\ name = None /\ created < MaxFiles
    /\ created' = created + 1 /\ name' = created + 1
    /\ xbit' = xbit \cup {created + 1}
    /\ fd' = [fd EXCEPT ![p] = created + 1]
    /\ Goto(p, "init")
    /\ UNCHANGED <<inited, flags, tries, calls, unlinks, faults>>

\* EEXIST is an error only if the caller asked for O_EXCL.
CreateFails(p) ==
    /\ pc[p] = "again" /\ name # None
    /\ Goto(p, IF "O_EXCL" \in flags[p] THEN "closed" ELSE "exists")
    /\ UNCHANGED <<name, created, xbit, inited, fd, flags, tries, calls, unlinks, faults>>

\* The mutex, the condition variable and the contents.
Initialize(p) ==
    /\ pc[p] = "init"
    /\ inited' = inited \cup {fd[p]}
    /\ Goto(p, "complete")
    /\ UNCHANGED <<name, created, xbit, fd, flags, tries, calls, unlinks, faults>>

\* fchmod() turns the execute bit off.
Complete(p) ==
    /\ pc[p] = "complete"
    /\ xbit' = xbit \ {fd[p]}
    /\ Goto(p, "open")
    /\ UNCHANGED <<name, created, inited, fd, flags, tries, calls, unlinks, faults>>

\* A step of the initialisation fails: unlink(pathname) takes away whatever has
\* the name by now.
InitFails(p) ==
    /\ pc[p] \in {"init", "complete"} /\ faults < MaxFaults
    /\ faults' = faults + 1
    /\ name' = None /\ fd' = [fd EXCEPT ![p] = None]
    /\ Goto(p, "closed")
    /\ UNCHANGED <<created, xbit, inited, flags, tries, calls, unlinks>>

\* The creator dies before it has finished.
Dies(p) ==
    /\ pc[p] \in {"init", "complete"} /\ faults < MaxFaults
    /\ faults' = faults + 1
    /\ Goto(p, "dead")
    /\ UNCHANGED <<name, created, xbit, inited, fd, flags, tries, calls, unlinks>>

\* open() of the existing file.  Without one, a caller that may create starts again.
OpenExisting(p) ==
    /\ pc[p] = "exists"
    /\ IF name # None
       THEN fd' = [fd EXCEPT ![p] = name] /\ tries' = [tries EXCEPT ![p] = 0] /\ Goto(p, "stat")
       ELSE /\ Goto(p, IF "O_CREAT" \in flags[p] THEN "again" ELSE "closed")
            /\ UNCHANGED <<fd, tries>>
    /\ UNCHANGED <<name, created, xbit, inited, flags, calls, unlinks, faults>>

\* mmap(), or malloc() in mymq_open(), fails: the file was not created here and stays.
OpenFails(p) ==
    /\ pc[p] = "stat" /\ faults < MaxFaults
    /\ faults' = faults + 1
    /\ Goto(p, "closed") /\ fd' = [fd EXCEPT ![p] = None]
    /\ UNCHANGED <<name, created, xbit, inited, flags, tries, calls, unlinks>>

\* Mutant: the opener does not wait for the bit.
StatComplete_NoWait(p) ==
    /\ pc[p] = "stat" /\ name # None
    /\ Goto(p, "open")
    /\ UNCHANGED <<name, created, xbit, inited, fd, flags, tries, calls, unlinks, faults>>

\* The file that has the name is complete: the call succeeds, with the file that
\* was opened before.
StatComplete(p) ==
    /\ pc[p] = "stat" /\ name # None /\ name \notin xbit
    /\ Goto(p, "open")
    /\ UNCHANGED <<name, created, xbit, inited, fd, flags, tries, calls, unlinks, faults>>

StatGone(p) ==
    /\ pc[p] = "stat" /\ name = None
    /\ Goto(p, IF "O_CREAT" \in flags[p] THEN "again" ELSE "closed")
    /\ fd' = [fd EXCEPT ![p] = None]
    /\ UNCHANGED <<name, created, xbit, inited, flags, tries, calls, unlinks, faults>>

\* Mutant: the tries are not counted, so the wait has no end.
StatPending_NoTimeout(p) ==
    /\ pc[p] = "stat" /\ name # None /\ name \in xbit
    /\ UNCHANGED vars

\* Mutant: the error path unlinks although this process has not created the file.
StatPending_Unlinks(p) ==
    /\ pc[p] = "stat" /\ name # None /\ name \in xbit
    /\ tries' = [tries EXCEPT ![p] = @ + 1]
    /\ IF tries[p] + 1 < MAX_TRIES
       THEN UNCHANGED <<pc, fd, name>>
       ELSE Goto(p, "closed") /\ fd' = [fd EXCEPT ![p] = None] /\ name' = None
    /\ UNCHANGED <<created, xbit, inited, flags, calls, unlinks, faults>>

\* Not complete yet: sleep for a second, MAX_TRIES times, then ETIMEDOUT.
StatPending(p) ==
    /\ pc[p] = "stat" /\ name # None /\ name \in xbit
    /\ tries' = [tries EXCEPT ![p] = @ + 1]
    /\ IF tries[p] + 1 < MAX_TRIES
       THEN UNCHANGED <<pc, fd>>
       ELSE Goto(p, "closed") /\ fd' = [fd EXCEPT ![p] = None]
    /\ UNCHANGED <<name, created, xbit, inited, flags, calls, unlinks, faults>>

Close(p) ==
    /\ pc[p] = "open"
    /\ Goto(p, "closed") /\ fd' = [fd EXCEPT ![p] = None]
    /\ UNCHANGED <<name, created, xbit, inited, flags, tries, calls, unlinks, faults>>

Unlink ==
    /\ name # None /\ unlinks < MaxUnlinks
    /\ unlinks' = unlinks + 1 /\ name' = None
    /\ UNCHANGED <<created, xbit, inited, pc, fd, flags, tries, calls, faults>>

\* Inside the call, without a fault.
Step(p) == \/ Create(p) \/ CreateFails(p) \/ Initialize(p) \/ Complete(p) \/ OpenExisting(p)
           \/ StatComplete(p) \/ StatGone(p) \/ StatPending(p)

Next == \/ \E p \in Procs : \/ \E oflag \in Oflags : OpenCall(p, oflag)
                            \/ Step(p) \/ InitFails(p) \/ Dies(p) \/ OpenFails(p) \/ Close(p)
        \/ Unlink

Spec == Init /\ [][Next]_vars

\* A process inside the call goes on.
FairSpec == Spec /\ \A p \in Procs : WF_vars(Step(p))

-----------------------------------------------------------------------------
\* The variables keep to their types, and nobody goes on without a file.
TypeOK ==
    /\ name \in Files \cup {None} /\ created \in 0..MaxFiles
    /\ xbit \subseteq Files /\ inited \subseteq Files
    /\ pc \in [Procs -> {"closed", "again", "init", "complete", "exists", "stat", "open", "dead"}]
    /\ fd \in [Procs -> Files \cup {None}] /\ flags \in [Procs -> Oflags]
    /\ tries \in [Procs -> 0..MAX_TRIES] /\ calls \in Nat
    /\ unlinks \in Nat /\ faults \in Nat
    /\ \A p \in Procs : pc[p] \in {"open", "init", "complete", "stat"} => fd[p] # None

\* "Make certain initialization is complete" (sem_open.c:92): a process that has
\* opened the semaphore or queue finds it initialised, as long as the file keeps its
\* name.  No more is true: stat() looks at the name, and a process that holds the
\* half-made file of a creator that failed may find another, finished one there.
OpenedIsInitialized == \A p \in Procs : pc[p] = "open" /\ fd[p] = name => fd[p] \in inited

\* Without unlink and faults all who have the name open share one file, whoever of
\* them came first and however slow the creator is.
OneFile ==
    unlinks = 0 /\ faults = 0
        => \A p, q \in Procs : pc[p] = "open" /\ pc[q] = "open" => fd[p] = fd[q]

\* Every open call returns, although the creator may fail, die or be slow and the
\* file may vanish between two steps.
OpenReturns ==
    \A p \in Procs : pc[p] \in {"again", "init", "complete", "exists", "stat"}
                       ~> pc[p] \in {"open", "closed", "dead"}
=============================================================================
