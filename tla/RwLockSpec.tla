----------------------------- MODULE RwLockSpec -----------------------------
(***************************************************************************)
(* What the read-write locks of my_rwlock and my_rwlock_cancel promise:    *)
(* many readers or one writer, and no new reader while a writer waits.     *)
(* Only who holds the lock and who wants it is said; counts, condition     *)
(* variables and wake-ups are left to the implementation.                  *)
(***************************************************************************)
CONSTANT Threads

VARIABLE mode   \* "none", "wantR", "wantW", "read", "write" or "gone"

In(m) == {t \in Threads : mode[t] = m}

Init == mode = [t \in Threads |-> "none"]

Become(t, m) == mode' = [mode EXCEPT ![t] = m]

\* A reader waits only for a writer, one that holds the lock or one that wants it.
AskRead(t) == mode[t] = "none" /\ In("write") \cup In("wantW") # {} /\ Become(t, "wantR")

AskWrite(t) == mode[t] = "none" /\ In("read") \cup In("write") # {} /\ Become(t, "wantW")

GrantRead(t) ==
    /\ mode[t] \in {"none", "wantR"}
    /\ In("write") \cup In("wantW") = {}
    /\ Become(t, "read")

GrantWrite(t) ==
    /\ mode[t] \in {"none", "wantW"}
    /\ In("read") \cup In("write") = {}
    /\ Become(t, "write")

Release(t) == mode[t] \in {"read", "write"} /\ Become(t, "none")

\* A thread that waits may be cancelled; it leaves nothing behind.
GiveUp(t) == mode[t] \in {"wantR", "wantW"} /\ Become(t, "gone")

Next == \E t \in Threads : \/ AskRead(t) \/ AskWrite(t) \/ GrantRead(t) \/ GrantWrite(t)
                           \/ Release(t) \/ GiveUp(t)

Spec == Init /\ [][Next]_mode
=============================================================================
