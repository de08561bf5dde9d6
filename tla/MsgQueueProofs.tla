--------------------------- MODULE MsgQueueProofs ---------------------------
(***************************************************************************)
(* Proofs about MsgQueue, for any number of processes, priorities, slots   *)
(* and calls.  The invariant says how the two lists lie in the slots: u    *)
(* holds the messages, by priority, v the free slots, and no slot twice.   *)
(* LinkLayout and UnlinkLayout show that the pointer assignments of        *)
(* mymq_send() and mymq_receive() keep such a layout, InsertFifo and       *)
(* RestFifo what they do to the FIFO of each priority.  Where the walk     *)
(* through a list must be followed to its end, the argument is about the   *)
(* smallest place at which it would go wrong (lemma Smallest).             *)
(***************************************************************************)
EXTENDS MsgQueue, FiniteSetTheorems, FunctionTheorems, SequenceTheorems, WellFoundedInduction,
        TLAPS

\* The n slots of u are linked from the head h to a 0.
Linked(nx, n, u, h) ==
    /\ h = IF n = 0 THEN 0 ELSE u[1]
    /\ \A k \in 1..n : nx[u[k]] = IF k < n THEN u[k + 1] ELSE 0

\* A set of numbers has a smallest element.  (With it, an induction over data is an
\* argument about the smallest counterexample.)
LEMMA Smallest ==
    ASSUME NEW T, T \subseteq Nat, T # {}
    PROVE  \E x \in T : \A y \in T : x <= y
<1>1. IsWellFoundedOn(OpToRel(<,Nat), Nat)
    BY NatLessThanWellFounded, Zenon
<1>2. \E x \in T : \A y \in T : ~ (<<y, x>> \in OpToRel(<,Nat))
    BY <1>1, WFMin, Zenon
<1>3. \A x, y \in Nat : x < y => <<x, y>> \in OpToRel(<,Nat)
    BY DEF OpToRel
<1>4. \E x \in T : \A y \in T : ~ (y < x)
    BY <1>2, <1>3, Zenon
<1> QED
    BY <1>4

\* What the walk through a list (mq_send.c:65-76) meets: exactly the slots that are linked
\* from its head to a 0.
LEMMA WalkIs ==
    ASSUME NEW n \in 0..MaxMsg, NEW u \in [1..n -> Slots], NEW nx, NEW h, Linked(nx, n, u, h)
    PROVE  Walk(nx, h) = u
<1> DEFINE step(f, k) == IF k = 1 THEN h ELSE IF f[k - 1] = 0 THEN 0 ELSE nx[f[k - 1]]
           nth[k \in 1 .. (MaxMsg + 1)] ==
               IF k = 1 THEN h ELSE IF nth[k - 1] = 0 THEN 0 ELSE nx[nth[k - 1]]
           g == [k \in 1 .. (MaxMsg + 1) |-> IF k <= n THEN u[k] ELSE 0]
<1>1. n \in Nat /\ MaxMsg \in Nat /\ n <= MaxMsg /\ \A k \in 1..n : u[k] # 0
    BY QueueAssumption DEF Slots
<1>2. ASSUME NEW k \in 1..(MaxMsg + 1) PROVE g[k] = step(g, k)
    <2>1. CASE k = 1
        BY <1>1, <2>1 DEF Linked
    <2>2. CASE k > 1
        <3>1. k - 1 \in 1..MaxMsg /\ k - 1 \in 1..(MaxMsg + 1) /\ (k - 1) + 1 = k
            BY <1>1, <2>2
        <3>2. CASE k - 1 <= n
            <4>1. k - 1 \in 1..n
                BY <1>1, <3>1, <3>2
            <4>2. g[k - 1] = u[k - 1] /\ g[k - 1] # 0
                BY <1>1, <3>1, <4>1
            <4>3. nx[u[k - 1]] = IF k - 1 < n THEN u[k] ELSE 0
                BY <3>1, <4>1 DEF Linked
            <4>4. k - 1 < n <=> k <= n
                BY <1>1
            <4> QED BY <2>2, <4>2, <4>3, <4>4
        <3>3. CASE ~(k - 1 <= n)
            <4>1. g[k - 1] = 0 /\ ~(k <= n)
                BY <1>1, <3>1, <3>3
            <4> QED BY <2>2, <4>1
        <3> QED BY <3>2, <3>3
    <2> QED BY <2>1, <2>2
<1>3. g = [k \in 1 .. (MaxMsg + 1) |-> step(g, k)]
    BY <1>2, Zenon
<1>4. nth = [k \in 1 .. (MaxMsg + 1) |-> step(nth, k)]
    <2>1. \E f : f = [k \in 1 .. (MaxMsg + 1) |->
                        IF k = 1 THEN h ELSE IF f[k - 1] = 0 THEN 0 ELSE nx[f[k - 1]]]
        <3> HIDE DEF nth, g
        <3> QED BY <1>3
    <2> QED BY <2>1, Zenon
<1>5. Walk(nx, h) = [k \in 1 .. Cardinality({j \in 1 .. MaxMsg : nth[j] # 0}) |-> nth[k]]
    BY DEF Walk
<1>6. \A k \in 1 .. (MaxMsg + 1) : nth[k] = step(nth, k)
    <2> HIDE DEF nth, step
    <2> QED BY <1>4
<1> HIDE DEF nth, g
<1>7. \A k \in 1 .. (MaxMsg + 1) : nth[k] = g[k]
    <2> DEFINE T == {k \in 1 .. (MaxMsg + 1) : nth[k] # g[k]}
    <2>1. SUFFICES ASSUME T # {} PROVE FALSE
        OBVIOUS
    <2>2. T \subseteq Nat
        BY <1>1
    <2>3. PICK x \in T : \A y \in T : x <= y
        BY <2>1, <2>2, Smallest
    <2>4. x \in 1 .. (MaxMsg + 1) /\ nth[x] # g[x]
        OBVIOUS
    <2>5. x # 1
        BY <1>2, <1>6, <2>4
    <2>6. x - 1 \in 1 .. (MaxMsg + 1) /\ ~(x <= x - 1)
        BY <1>1, <2>4, <2>5
    <2>7. x - 1 \notin T
        BY <2>3, <2>6
    <2>8. nth[x - 1] = g[x - 1]
        BY <2>6, <2>7
    <2> QED BY <1>2, <1>6, <2>4, <2>5, <2>8
<1>8. {j \in 1 .. MaxMsg : nth[j] # 0} = 1..n
    <2>1. \A j \in 1..MaxMsg : j \in 1..(MaxMsg + 1) /\ (j <= n <=> j \in 1..n)
        BY <1>1
    <2>2. \A j \in 1..MaxMsg : nth[j] # 0 <=> j \in 1..n
        BY <1>1, <1>7, <2>1 DEF g
    <2>3. 1..n \subseteq 1..MaxMsg
        BY <1>1
    <2> QED BY <2>2, <2>3
<1>9. Cardinality(1..n) = n
    BY <1>1, FS_Interval
<1>10. \A k \in 1..n : nth[k] = u[k]
    <2>1. \A k \in 1..n : k \in 1..(MaxMsg + 1) /\ k <= n
        BY <1>1
    <2> QED BY <1>7, <2>1 DEF g
<1>11. Walk(nx, h) = [k \in 1..n |-> nth[k]]
    BY <1>5, <1>8, <1>9, Zenon
<1>12. [k \in 1..n |-> nth[k]] = [k \in 1..n |-> u[k]]
    BY <1>10, Zenon
<1> QED
    BY <1>11, <1>12

\* A set of positions that has, with each, all those before it is an initial segment.
LEMMA Segment ==
    ASSUME NEW n \in Nat, NEW S, S \subseteq 1..n, \A k \in S : \A j \in 1..k : j \in S
    PROVE  S = 1..Cardinality(S) /\ Cardinality(S) \in 0..n
<1>1. \A m \in Nat : Cardinality(1..m) = m
    BY FS_Interval
<1>2. ASSUME S # 1..n PROVE \E m \in 0..n : S = 1..m
    <2> DEFINE T == (1..n) \ S
    <2>1. T # {}
        BY <1>2, Zenon
    <2>2. T \subseteq Nat
        OBVIOUS
    <2>3. PICK x \in T : \A y \in T : x <= y
        BY <2>1, <2>2, Smallest
    <2>4. x \in 1..n /\ x \notin S
        OBVIOUS
    <2>5. \A k \in 1..n : k \in S <=> k <= x - 1
        <3> TAKE k \in 1..n
        <3>1. CASE k <= x - 1
            BY <2>3, <2>4, <3>1
        <3>2. CASE x <= k
            BY <2>4, <3>2
        <3> QED BY <2>4, <3>1, <3>2
    <2>6. x - 1 \in Nat /\ x - 1 \in 0..n
        BY <2>4
    <2>7. S = 1..(x - 1)
        <3>1. \A k : k \in 1..(x - 1) <=> k \in 1..n /\ k <= x - 1
            BY <2>4
        <3> HIDE DEF T
        <3> QED BY <2>5, <3>1
    <2> WITNESS x - 1 \in 0..n
    <2> QED BY <2>7
<1>3. PICK m \in 0..n : S = 1..m
    <2>1. n \in 0..n
        OBVIOUS
    <2> QED BY <1>2, <2>1, Zenon
<1>4. Cardinality(S) = m
    <2>1. m \in Nat
        OBVIOUS
    <2> QED BY <1>1, <1>3, <2>1, Zenon
<1> QED
    BY <1>3, <1>4, Zenon

\* s with x before its k-th element, and s without its first element.
With(s, n, k, x) == [i \in 1..(n + 1) |-> IF i < k THEN s[i] ELSE IF i = k THEN x ELSE s[i - 1]]
Rest(s, n) == [i \in 1..(n - 1) |-> s[i + 1]]

Distinct(s, n) == \A i, j \in 1..n : s[i] = s[j] => i = j

\* The m messages are in the slots of u, and the slots of v are free.
Layout(nx, h, f, m, u, v) ==
    /\ u \in [1..m -> Slots] /\ v \in [1..(MaxMsg - m) -> Slots]
    /\ Linked(nx, m, u, h) /\ Linked(nx, MaxMsg - m, v, f)
    /\ Distinct(u, m) /\ Distinct(v, MaxMsg - m)
    /\ \A i \in 1..m, j \in 1..(MaxMsg - m) : u[i] # v[j]

\* With, element by element: before the insertion, behind it, and itself.
LEMMA WithElements ==
    ASSUME NEW n \in Nat, NEW k \in 1..(n + 1), NEW s, NEW x
    PROVE  /\ DOMAIN With(s, n, k, x) = 1..(n + 1)
           /\ With(s, n, k, x)[k] = x
           /\ \A i \in 1..n : i < k => With(s, n, k, x)[i] = s[i]
           /\ \A i \in 1..n : k <= i => With(s, n, k, x)[i + 1] = s[i]
<1> DEFINE t == With(s, n, k, x)
<1>1. t = [i \in 1..(n + 1) |-> IF i < k THEN s[i] ELSE IF i = k THEN x ELSE s[i - 1]]
    BY DEF With
<1>2. \A i \in 1..n : /\ i \in 1..(n + 1) /\ i + 1 \in 1..(n + 1) /\ (i + 1) - 1 = i
                      /\ (k <= i => ~(i + 1 < k) /\ i + 1 # k)
    OBVIOUS
<1> HIDE DEF t
<1>3. t[k] = x /\ DOMAIN t = 1..(n + 1)
    BY <1>1
<1>4. \A i \in 1..n : i < k => t[i] = s[i]
    BY <1>1, <1>2
<1>5. \A i \in 1..n : k <= i => t[i + 1] = s[i]
    BY <1>1, <1>2
<1> QED
    BY <1>3, <1>4, <1>5 DEF t

\* Where the i-th element of With comes from.
LEMMA Position ==
    ASSUME NEW n \in Nat, NEW k \in 1..(n + 1), NEW i \in 1..(n + 1)
    PROVE  \/ i = k
           \/ i < k /\ i \in 1..n
           \/ k < i /\ i - 1 \in 1..n /\ k <= i - 1 /\ (i - 1) + 1 = i
OBVIOUS

\* An insertion keeps to the type of the elements.
LEMMA WithType ==
    ASSUME NEW n \in Nat, NEW k \in 1..(n + 1), NEW S, NEW s \in [1..n -> S], NEW x \in S
    PROVE  With(s, n, k, x) \in [1..(n + 1) -> S]
<1> DEFINE t == With(s, n, k, x)
<1>1. t = [i \in 1..(n + 1) |-> t[i]]
    BY DEF With
<1>2. /\ t[k] = x
      /\ \A i \in 1..n : i < k => t[i] = s[i]
      /\ \A i \in 1..n : k <= i => t[i + 1] = s[i]
    BY WithElements
<1> HIDE DEF t
<1>3. \A i \in 1..(n + 1) : t[i] \in S
    <2> TAKE i \in 1..(n + 1)
    <2>1. CASE i = k
        BY <1>2, <2>1
    <2>2. CASE i < k /\ i \in 1..n
        BY <1>2, <2>2
    <2>3. CASE i - 1 \in 1..n /\ k <= i - 1 /\ (i - 1) + 1 = i
        <3>1. t[(i - 1) + 1] = s[i - 1]
            BY <1>2, <2>3
        <3> QED BY <2>3, <3>1
    <2> QED BY <2>1, <2>2, <2>3, Position
<1> QED
    BY <1>1, <1>3 DEF t

\* Without the first element each other one is a place further on.
LEMMA RestElements ==
    ASSUME NEW n \in Nat \ {0}, NEW s
    PROVE  /\ n - 1 \in Nat /\ DOMAIN Rest(s, n) = 1..(n - 1)
           /\ \A i \in 1..(n - 1) : i + 1 \in 1..n /\ Rest(s, n)[i] = s[i + 1]
<1>1. \A i \in 1..(n - 1) : i + 1 \in 1..n
    OBVIOUS
<1> QED
    BY <1>1 DEF Rest

\* A removal keeps to the type of the elements.
LEMMA RestType ==
    ASSUME NEW n \in Nat \ {0}, NEW S, NEW s \in [1..n -> S]
    PROVE  Rest(s, n) \in [1..(n - 1) -> S]
<1>1. \A i \in 1..(n - 1) : i + 1 \in 1..n
    OBVIOUS
<1> QED
    BY <1>1 DEF Rest

\* An insertion of something new keeps the elements apart.
LEMMA WithInjective ==
    ASSUME NEW n \in Nat, NEW k \in 1..(n + 1), NEW s, NEW x,
           Distinct(s, n), \A i \in 1..n : s[i] # x
    PROVE  Distinct(With(s, n, k, x), n + 1)
<1> DEFINE t == With(s, n, k, x)
           from(i) == IF i < k THEN i ELSE i - 1
<1>1. /\ t[k] = x
      /\ \A i \in 1..n : i < k => t[i] = s[i]
      /\ \A i \in 1..n : k <= i => t[i + 1] = s[i]
    BY WithElements
<1> HIDE DEF t
<1>2. ASSUME NEW i \in 1..(n + 1), i # k
      PROVE  from(i) \in 1..n /\ t[i] = s[from(i)]
    <2>1. CASE i < k
        <3>1. i \in 1..n
            BY <2>1
        <3> QED BY <1>1, <2>1, <3>1
    <2>2. CASE k < i
        <3>1. i - 1 \in 1..n /\ k <= i - 1 /\ (i - 1) + 1 = i /\ ~(i < k)
            BY <2>2
        <3>2. t[(i - 1) + 1] = s[i - 1]
            BY <1>1, <3>1
        <3> QED BY <3>1, <3>2
    <2> QED BY <1>2, <2>1, <2>2
<1>3. \A i, j \in 1..(n + 1) : i # k /\ j # k /\ from(i) = from(j) => i = j
    OBVIOUS
<1> HIDE DEF from
<1>4. ASSUME NEW i \in 1..(n + 1), NEW j \in 1..(n + 1), t[i] = t[j] PROVE i = j
    <2>1. CASE i = k
        BY <1>1, <1>2, <1>4, <2>1
    <2>2. CASE j = k
        BY <1>1, <1>2, <1>4, <2>2
    <2>3. CASE i # k /\ j # k
        <3>1. from(i) \in 1..n /\ from(j) \in 1..n /\ s[from(i)] = s[from(j)]
            BY <1>2, <1>4, <2>3
        <3>2. from(i) = from(j)
            BY <3>1 DEF Distinct
        <3> QED BY <1>3, <2>3, <3>2
    <2> QED BY <2>1, <2>2, <2>3
<1> QED
    BY <1>4 DEF t, Distinct

\* msg_next once slot f is the k-th of the list u.
LinkedIn(nx, m, u, k, f) ==
    [s \in Slots |-> IF s = f THEN IF k <= m THEN u[k] ELSE 0
                     ELSE IF k > 1 /\ s = u[k - 1] THEN f ELSE nx[s]]

\* Linking the first free slot in as the k-th of the list (mq_send.c:62-81): the message
\* before it, or mqh_head, leads to it, and it leads to the message that was there.
LEMMA LinkLayout ==
    ASSUME NEW m \in 0..MaxMsg, m < MaxMsg, NEW k \in 1..(m + 1), NEW nx, NEW nx1,
           NEW h, NEW f, NEW u, NEW v,
           nx \in [Slots -> 0..MaxMsg], Layout(nx, h, f, m, u, v),
           nx1 = LinkedIn(nx, m, u, k, f)
    PROVE  /\ f = v[1] /\ f \in Slots /\ nx1 \in [Slots -> 0..MaxMsg]
           /\ Layout(nx1, IF k = 1 THEN f ELSE h, nx[f], m + 1,
                     With(u, m, k, f), Rest(v, MaxMsg - m))
<1> DEFINE r == MaxMsg - m
           u1 == With(u, m, k, f)
           v1 == Rest(v, r)
<1>1. /\ m \in Nat /\ r \in Nat \ {0} /\ 1 \in 1..r /\ MaxMsg - (m + 1) = r - 1 /\ m + 1 \in Nat
      /\ Slots \subseteq 0..MaxMsg /\ 0 \in 0..MaxMsg /\ 0 \notin Slots
    BY QueueAssumption DEF Slots
<1>2. /\ u \in [1..m -> Slots] /\ v \in [1..r -> Slots]
      /\ h = IF m = 0 THEN 0 ELSE u[1]
      /\ \A i \in 1..m : nx[u[i]] = IF i < m THEN u[i + 1] ELSE 0
      /\ f = IF r = 0 THEN 0 ELSE v[1]
      /\ \A i \in 1..r : nx[v[i]] = IF i < r THEN v[i + 1] ELSE 0
      /\ Distinct(u, m) /\ Distinct(v, r)
      /\ \A i \in 1..m, j \in 1..r : u[i] # v[j]
    BY DEF Layout, Linked
<1>3. nx1 = [s \in Slots |-> IF s = f THEN IF k <= m THEN u[k] ELSE 0
                             ELSE IF k > 1 /\ s = u[k - 1] THEN f ELSE nx[s]]
    BY DEF LinkedIn
<1> USE <1>3
<1> HIDE DEF r
<1>4. f = v[1] /\ f \in Slots /\ \A i \in 1..m : u[i] # f
    BY <1>1, <1>2
<1>5. nx1 \in [Slots -> 0..MaxMsg]
    <2>1. \A i \in 1..m : u[i] \in 0..MaxMsg
        BY <1>1, <1>2
    <2>2. k <= m => k \in 1..m
        OBVIOUS
    <2> QED BY <1>1, <1>4, <2>1, <2>2
<1>6. u1 \in [1..(m + 1) -> Slots] /\ v1 \in [1..(r - 1) -> Slots]
    BY <1>1, <1>2, <1>4, WithType, RestType
<1>7. /\ u1[k] = f
      /\ \A i \in 1..m : i < k => u1[i] = u[i]
      /\ \A i \in 1..m : k <= i => u1[i + 1] = u[i]
    BY <1>1, WithElements
<1>8. Distinct(u1, m + 1)
    BY <1>1, <1>2, <1>4, WithInjective
<1>9. \A i \in 1..(r - 1) : i + 1 \in 1..r /\ v1[i] = v[i + 1]
    BY <1>1, RestElements
<1> HIDE DEF u1, v1
<1>10. Distinct(v1, r - 1)
    BY <1>1, <1>2, <1>9 DEF Distinct
<1>11. \A i \in 1..m, j \in 1..(r - 1) : u[i] # v1[j]
    BY <1>2, <1>9
<1>12. \A j \in 1..(r - 1) : f # v1[j] /\ v1[j] \in Slots
    <2> TAKE j \in 1..(r - 1)
    <2>1. j + 1 # 1 /\ v1[j] = v[j + 1] /\ j + 1 \in 1..r
        BY <1>1, <1>9
    <2> QED BY <1>1, <1>2, <1>4, <2>1 DEF Distinct
<1>13. \A i \in 1..(m + 1), j \in 1..(r - 1) : u1[i] # v1[j]
    <2> TAKE i \in 1..(m + 1), j \in 1..(r - 1)
    <2>1. CASE i = k
        BY <1>7, <1>12, <2>1
    <2>2. CASE i < k /\ i \in 1..m
        BY <1>7, <1>11, <2>2
    <2>3. CASE i - 1 \in 1..m /\ k <= i - 1 /\ (i - 1) + 1 = i
        <3>1. u1[(i - 1) + 1] = u[i - 1]
            BY <1>7, <2>3
        <3> QED BY <1>11, <2>3, <3>1
    <2> QED BY <1>1, <2>1, <2>2, <2>3, Position
<1>14. Linked(nx1, m + 1, u1, IF k = 1 THEN f ELSE h)
    <2>1. (IF k = 1 THEN f ELSE h) = (IF m + 1 = 0 THEN 0 ELSE u1[1])
        <3>1. m + 1 # 0 /\ (k # 1 => m # 0 /\ 1 \in 1..m /\ 1 < k)
            BY <1>1
        <3> QED BY <1>2, <1>7, <3>1
    <2>2. ASSUME NEW i \in 1..(m + 1)
          PROVE  nx1[u1[i]] = IF i < m + 1 THEN u1[i + 1] ELSE 0
        <3>1. CASE i = k
            <4>1. nx1[u1[i]] = IF k <= m THEN u[k] ELSE 0
                BY <1>4, <1>7, <3>1
            <4>2. i < m + 1 <=> k <= m
                BY <1>1, <3>1
            <4>3. k <= m => k \in 1..m /\ u1[k + 1] = u[k]
                BY <1>1, <1>7
            <4> QED BY <3>1, <4>1, <4>2, <4>3
        <3>2. CASE i < k /\ i \in 1..m
            <4>1. u1[i] = u[i] /\ u[i] # f /\ u[i] \in Slots
                BY <1>2, <1>4, <1>7, <3>2
            <4>2. CASE i = k - 1
                <5>1. k > 1 /\ i + 1 = k /\ i < m + 1
                    BY <1>1, <3>2, <4>2
                <5>2. nx1[u[i]] = f
                    BY <4>1, <4>2, <5>1
                <5> QED BY <1>7, <4>1, <5>1, <5>2
            <4>3. CASE i # k - 1
                <5>1. i + 1 \in 1..m /\ i + 1 < k /\ i < m /\ i < m + 1
                    BY <1>1, <3>2, <4>3
                <5>2. ~(k > 1 /\ u[i] = u[k - 1])
                    <6>1. k > 1 => k - 1 \in 1..m
                        BY <1>1
                    <6> QED BY <1>2, <3>2, <4>3, <6>1 DEF Distinct
                <5>3. nx1[u[i]] = nx[u[i]]
                    BY <4>1, <5>2
                <5>4. nx[u[i]] = u[i + 1]
                    BY <1>2, <3>2, <5>1
                <5>5. u1[i + 1] = u[i + 1]
                    BY <1>7, <5>1
                <5> QED BY <4>1, <5>1, <5>3, <5>4, <5>5
            <4> QED BY <4>2, <4>3
        <3>3. CASE i - 1 \in 1..m /\ k <= i - 1 /\ (i - 1) + 1 = i
            <4> DEFINE j == i - 1
            <4>1. j \in 1..m /\ k <= j /\ i = j + 1 /\ (i < m + 1 <=> j < m) /\ k - 1 # j
                BY <1>1, <3>3
            <4>2. u1[i] = u[j] /\ u[j] # f /\ u[j] \in Slots
                BY <1>2, <1>4, <1>7, <4>1
            <4>3. ~(k > 1 /\ u[j] = u[k - 1])
                <5>1. k > 1 => k - 1 \in 1..m
                    BY <1>1
                <5> QED BY <1>2, <4>1, <5>1 DEF Distinct
            <4>4. nx1[u[j]] = IF j < m THEN u[j + 1] ELSE 0
                BY <1>2, <4>1, <4>2, <4>3
            <4>5. j < m => j + 1 \in 1..m /\ k <= j + 1 /\ u1[(j + 1) + 1] = u[j + 1]
                BY <1>1, <1>7, <4>1
            <4> HIDE DEF j
            <4> QED BY <4>1, <4>2, <4>4, <4>5
        <3> QED BY <1>1, <3>1, <3>2, <3>3, Position
    <2> QED BY <2>1, <2>2 DEF Linked
<1>15. Linked(nx1, r - 1, v1, nx[f])
    <2>1. nx[f] = IF r - 1 = 0 THEN 0 ELSE v1[1]
        <3>1. (1 < r <=> r - 1 # 0) /\ (1 < r => 1 \in 1..(r - 1) /\ 1 + 1 = 2)
            BY <1>1
        <3>2. nx[f] = IF 1 < r THEN v[1 + 1] ELSE 0
            BY <1>1, <1>2, <1>4
        <3> QED BY <1>9, <3>1, <3>2
    <2>2. ASSUME NEW i \in 1..(r - 1)
          PROVE  nx1[v1[i]] = IF i < r - 1 THEN v1[i + 1] ELSE 0
        <3>1. i + 1 \in 1..r /\ v1[i] = v[i + 1] /\ (i + 1 < r <=> i < r - 1)
            BY <1>1, <1>9
        <3>2. v1[i] # f /\ v1[i] \in Slots /\ ~(k > 1 /\ v1[i] = u[k - 1])
            <4>1. k > 1 => k - 1 \in 1..m
                BY <1>1
            <4> QED BY <1>11, <1>12, <4>1
        <3>3. nx1[v1[i]] = nx[v[i + 1]]
            BY <3>1, <3>2
        <3>4. nx[v[i + 1]] = IF i + 1 < r THEN v[(i + 1) + 1] ELSE 0
            BY <1>2, <3>1
        <3>5. i < r - 1 => i + 1 \in 1..(r - 1) /\ v1[i + 1] = v[(i + 1) + 1]
            BY <1>1, <1>9
        <3> QED BY <3>1, <3>3, <3>4, <3>5
    <2> QED BY <2>1, <2>2 DEF Linked
<1>16. Layout(nx1, IF k = 1 THEN f ELSE h, nx[f], m + 1, u1, v1)
    BY <1>1, <1>6, <1>8, <1>10, <1>13, <1>14, <1>15 DEF Layout
<1> QED
    BY <1>4, <1>5, <1>16 DEF u1, v1, r

\* msg_next once slot h is the first of the free ones.
LinkedOut(nx, h, f) == [nx EXCEPT ![h] = f]

\* Taking the first message out and putting its slot in front of the free ones
\* (mq_receive.c:51-60).
LEMMA UnlinkLayout ==
    ASSUME NEW m \in 1..MaxMsg, NEW nx, NEW nx1, NEW h, NEW f, NEW u, NEW v,
           nx \in [Slots -> 0..MaxMsg], f \in 0..MaxMsg, Layout(nx, h, f, m, u, v),
           nx1 = LinkedOut(nx, h, f)
    PROVE  /\ h = u[1] /\ h \in Slots /\ nx1 \in [Slots -> 0..MaxMsg]
           /\ Layout(nx1, nx[h], h, m - 1, Rest(u, m), With(v, MaxMsg - m, 1, h))
<1> DEFINE r == MaxMsg - m
           u1 == Rest(u, m)
           v1 == With(v, r, 1, h)
<1>1. /\ r \in Nat /\ m \in Nat \ {0} /\ 1 \in 1..m /\ MaxMsg - (m - 1) = r + 1 /\ 1 \in 1..(r + 1)
      /\ 0 \notin Slots /\ m - 1 \in Nat
    BY QueueAssumption DEF Slots
<1>2. /\ u \in [1..m -> Slots] /\ v \in [1..r -> Slots]
      /\ h = IF m = 0 THEN 0 ELSE u[1]
      /\ \A i \in 1..m : nx[u[i]] = IF i < m THEN u[i + 1] ELSE 0
      /\ f = IF r = 0 THEN 0 ELSE v[1]
      /\ \A i \in 1..r : nx[v[i]] = IF i < r THEN v[i + 1] ELSE 0
      /\ Distinct(u, m) /\ Distinct(v, r)
      /\ \A i \in 1..m, j \in 1..r : u[i] # v[j]
    BY DEF Layout, Linked
<1> HIDE DEF r
<1>3. h = u[1] /\ h \in Slots /\ \A i \in 1..r : v[i] # h
    BY <1>1, <1>2
<1>4. /\ nx1 \in [Slots -> 0..MaxMsg] /\ nx1[h] = f
      /\ \A s \in Slots : s # h => nx1[s] = nx[s]
    BY <1>3 DEF LinkedOut
<1>5. u1 \in [1..(m - 1) -> Slots] /\ v1 \in [1..(r + 1) -> Slots]
    BY <1>1, <1>2, <1>3, WithType, RestType
<1>6. v1[1] = h /\ \A i \in 1..r : v1[i + 1] = v[i]
    <2>1. \A i \in 1..r : 1 <= i
        BY <1>1
    <2> QED BY <1>1, <2>1, WithElements
<1>7. Distinct(v1, r + 1)
    BY <1>1, <1>2, <1>3, WithInjective
<1>8. \A i \in 1..(m - 1) : i + 1 \in 1..m /\ u1[i] = u[i + 1]
    BY <1>1, RestElements
<1> HIDE DEF u1, v1
<1>9. Distinct(u1, m - 1)
    BY <1>1, <1>2, <1>8 DEF Distinct
<1>10. \A i \in 1..(m - 1) : u1[i] # h /\ u1[i] \in Slots /\ \A j \in 1..r : u1[i] # v[j]
    <2> TAKE i \in 1..(m - 1)
    <2>1. i + 1 # 1 /\ u1[i] = u[i + 1] /\ i + 1 \in 1..m
        BY <1>1, <1>8
    <2> QED BY <1>1, <1>2, <1>3, <2>1 DEF Distinct
<1>11. \A j \in 1..(r + 1) : j = 1 \/ (j - 1 \in 1..r /\ (j - 1) + 1 = j)
    BY <1>1
<1>12. \A i \in 1..(m - 1), j \in 1..(r + 1) : u1[i] # v1[j]
    <2> TAKE i \in 1..(m - 1), j \in 1..(r + 1)
    <2>1. CASE j = 1
        BY <1>6, <1>10, <2>1
    <2>2. CASE j - 1 \in 1..r /\ (j - 1) + 1 = j
        <3>1. v1[(j - 1) + 1] = v[j - 1]
            BY <1>6, <2>2
        <3> QED BY <1>10, <2>2, <3>1
    <2> QED BY <1>11, <2>1, <2>2
<1>13. Linked(nx1, m - 1, u1, nx[h])
    <2>1. nx[h] = IF m - 1 = 0 THEN 0 ELSE u1[1]
        <3>1. (1 < m <=> m - 1 # 0) /\ (1 < m => 1 \in 1..(m - 1))
            BY <1>1
        <3>2. nx[h] = IF 1 < m THEN u[1 + 1] ELSE 0
            BY <1>1, <1>2, <1>3
        <3> QED BY <1>8, <3>1, <3>2
    <2>2. ASSUME NEW i \in 1..(m - 1)
          PROVE  nx1[u1[i]] = IF i < m - 1 THEN u1[i + 1] ELSE 0
        <3>1. i + 1 \in 1..m /\ u1[i] = u[i + 1] /\ (i + 1 < m <=> i < m - 1)
            BY <1>1, <1>8
        <3>2. nx1[u1[i]] = nx[u[i + 1]]
            BY <1>4, <1>10, <3>1
        <3>3. nx[u[i + 1]] = IF i + 1 < m THEN u[(i + 1) + 1] ELSE 0
            BY <1>2, <3>1
        <3>4. i < m - 1 => i + 1 \in 1..(m - 1) /\ u1[i + 1] = u[(i + 1) + 1]
            BY <1>1, <1>8
        <3> QED BY <3>1, <3>2, <3>3, <3>4
    <2> QED BY <2>1, <2>2 DEF Linked
<1>14. Linked(nx1, r + 1, v1, h)
    <2>1. h = IF r + 1 = 0 THEN 0 ELSE v1[1]
        BY <1>1, <1>6
    <2>2. ASSUME NEW i \in 1..(r + 1)
          PROVE  nx1[v1[i]] = IF i < r + 1 THEN v1[i + 1] ELSE 0
        <3>1. CASE i = 1
            <4>1. 1 < r + 1 <=> r # 0
                BY <1>1
            <4>2. r # 0 => 1 \in 1..r /\ v1[1 + 1] = v[1]
                BY <1>1, <1>6
            <4> QED BY <1>2, <1>4, <1>6, <3>1, <4>1, <4>2
        <3>2. CASE i - 1 \in 1..r /\ (i - 1) + 1 = i
            <4> DEFINE j == i - 1
            <4>1. j \in 1..r /\ i = j + 1 /\ (i < r + 1 <=> j < r)
                BY <1>1, <3>2
            <4> HIDE DEF j
            <4>2. v1[i] = v[j] /\ v[j] # h /\ v[j] \in Slots
                BY <1>2, <1>3, <1>6, <4>1
            <4>3. nx1[v[j]] = IF j < r THEN v[j + 1] ELSE 0
                BY <1>2, <1>4, <4>1, <4>2
            <4>4. j < r => j + 1 \in 1..r /\ v1[(j + 1) + 1] = v[j + 1]
                BY <1>1, <1>6, <4>1
            <4> QED BY <4>1, <4>2, <4>3, <4>4
        <3> QED BY <1>11, <3>1, <3>2
    <2> QED BY <2>1, <2>2 DEF Linked
<1>15. Layout(nx1, nx[h], h, m - 1, u1, v1)
    BY <1>1, <1>5, <1>7, <1>9, <1>12, <1>13, <1>14 DEF Layout
<1> QED
    BY <1>3, <1>4, <1>15 DEF u1, v1, r

\* The m messages of e are in the order of their priorities.
Sorted(e, m) == \A i, j \in 1..m : i < j => e[i].prio >= e[j].prio

\* Those of priority q are the b messages behind the first a.
Span(e, m, q, a, b) ==
    /\ a \in Nat /\ b \in Nat /\ a + b <= m
    /\ \A k \in 1..m : /\ e[k].prio > q <=> k <= a
                       /\ e[k].prio = q <=> a < k /\ k <= a + b

\* s lists what is said by the b messages behind the first a.
Reads(e, m, s, a, b) ==
    /\ s \in Seq(Messages) /\ Len(s) = b
    /\ \A j \in 1..b : a + j \in 1..m /\ s[j] = e[a + j].msg

\* A message is its priority and what it says (mq_send.c:59-61).
LEMMA MessageParts ==
    \A x \in Message : /\ x.prio \in Priorities /\ x.prio \in Nat /\ x.msg \in Messages
                       /\ x = [prio |-> x.prio, msg |-> x.msg]
<1> TAKE x \in Message
<1>1. x.prio \in Priorities /\ x.msg \in Messages /\ x = [prio |-> x.prio, msg |-> x.msg]
    BY DEF Message
<1> QED
    BY <1>1, QueueAssumption

\* In a sorted list each priority has its span.
LEMMA SpanExists ==
    ASSUME NEW m \in Nat, NEW e \in [1..m -> Message], Sorted(e, m), NEW q \in Nat
    PROVE  \E a, b \in Nat : Span(e, m, q, a, b)
<1> DEFINE S == {k \in 1..m : e[k].prio > q}
           T == {k \in 1..m : e[k].prio >= q}
<1>1. \A k \in 1..m : e[k].prio \in Nat
    BY MessageParts
<1>2. \A k \in 1..m : \A j \in 1..k : j \in 1..m /\ e[j].prio >= e[k].prio
    <2> TAKE k \in 1..m
    <2> TAKE j \in 1..k
    <2>1. j \in 1..m /\ (j = k \/ j < k)
        OBVIOUS
    <2> QED BY <1>1, <2>1 DEF Sorted
<1>3. \A k \in S : \A j \in 1..k : j \in S
    BY <1>1, <1>2
<1>4. \A k \in T : \A j \in 1..k : j \in T
    BY <1>1, <1>2
<1>5. S \subseteq 1..m /\ T \subseteq 1..m
    OBVIOUS
<1>6. \E a \in 0..m : S = 1..a
    <2> HIDE DEF S
    <2> QED BY <1>3, <1>5, Segment
<1>7. \E c \in 0..m : T = 1..c
    <2> HIDE DEF T
    <2> QED BY <1>4, <1>5, Segment
<1>8. PICK a \in 0..m : S = 1..a
    BY <1>6
<1>9. PICK c \in 0..m : T = 1..c
    BY <1>7
<1>10. \A k \in 1..m : (e[k].prio > q <=> k <= a) /\ (e[k].prio >= q <=> k <= c)
    <2> TAKE k \in 1..m
    <2>1. (k \in S <=> k \in 1..a) /\ (k \in T <=> k \in 1..c)
        BY <1>8, <1>9, Zenon
    <2>2. (k \in 1..a <=> k <= a) /\ (k \in 1..c <=> k <= c)
        OBVIOUS
    <2> QED BY <2>1, <2>2
<1>11. a <= c
    <2>1. CASE a = 0
        BY <2>1
    <2>2. CASE a # 0
        <3>1. a \in 1..m /\ a <= a
            BY <2>2
        <3> QED BY <1>1, <1>10, <3>1
    <2> QED BY <2>1, <2>2
<1>12. c - a \in Nat /\ a + (c - a) = c
    BY <1>11
<1> HIDE DEF S, T
<1>13. \A k \in 1..m : e[k].prio = q <=> a < k /\ k <= c
    <2> TAKE k \in 1..m
    <2>1. e[k].prio = q <=> e[k].prio >= q /\ ~(e[k].prio > q)
        BY <1>1
    <2> QED BY <1>10, <2>1
<1>14. Span(e, m, q, a, c - a)
    BY <1>10, <1>12, <1>13 DEF Span
<1> QED
    BY <1>12, <1>14

\* What Fifo reads from a span.
LEMMA SpanFifo ==
    ASSUME NEW m \in Nat, NEW e \in [1..m -> Message], NEW q, NEW a, NEW b, Span(e, m, q, a, b)
    PROVE  Reads(e, m, Fifo(e, q), a, b)
<1> DEFINE f == [j \in 1..b |-> e[a + j].msg]
<1>1. a \in Nat /\ b \in Nat /\ a + b <= m
    BY DEF Span
<1>2. {k \in DOMAIN e : e[k].prio > q} = 1..a
    <2>1. \A k : k \in 1..a <=> k \in 1..m /\ k <= a
        BY <1>1
    <2> QED BY <2>1 DEF Span
<1>3. {k \in DOMAIN e : e[k].prio = q} = (a + 1)..(a + b)
    <2>1. \A k : k \in (a + 1)..(a + b) <=> k \in 1..m /\ a < k /\ k <= a + b
        BY <1>1
    <2> QED BY <2>1 DEF Span
<1>4. Cardinality(1..a) = a /\ Cardinality((a + 1)..(a + b)) = b
    <2>1. Cardinality(1..a) = IF 1 > a THEN 0 ELSE a - 1 + 1
        BY <1>1, FS_Interval
    <2>2. Cardinality((a + 1)..(a + b)) = IF a + 1 > a + b THEN 0 ELSE (a + b) - (a + 1) + 1
        BY <1>1, FS_Interval
    <2> QED BY <1>1, <2>1, <2>2
<1>5. Fifo(e, q) = f
    BY <1>2, <1>3, <1>4 DEF Fifo
<1>6. \A j \in 1..b : a + j \in 1..m
    BY <1>1
<1>7. f \in [1..b -> Messages]
    BY <1>6, MessageParts
<1> HIDE DEF f
<1>8. f \in Seq(Messages) /\ Len(f) = b
    BY <1>1, <1>7
<1>9. \A j \in 1..b : f[j] = e[a + j].msg
    BY DEF f
<1> QED
    BY <1>5, <1>6, <1>8, <1>9 DEF Reads

\* The k-th place of the list is where the walk for message n stops.
Goes(e, m, n, k) ==
    \A j \in 1..m : (j < k => e[j].prio >= n.prio) /\ (k <= j => n.prio > e[j].prio)

\* Message n goes behind those of its priority and higher, before the others
\* (mq_send.c:67-81): the order is kept and n is the last of its priority.
LEMMA InsertFifo ==
    ASSUME NEW m \in Nat, NEW e \in [1..m -> Message], Sorted(e, m),
           NEW n \in Message, NEW k \in 1..(m + 1), Goes(e, m, n, k)
    PROVE  /\ With(e, m, k, n) \in [1..(m + 1) -> Message]
           /\ Sorted(With(e, m, k, n), m + 1)
           /\ Fifo(With(e, m, k, n), n.prio) = Append(Fifo(e, n.prio), n.msg)
           /\ \A q \in Nat : q # n.prio => Fifo(With(e, m, k, n), q) = Fifo(e, q)
<1> DEFINE e1 == With(e, m, k, n)
<1>1. e1 \in [1..(m + 1) -> Message] /\ m + 1 \in Nat
    BY WithType
<1>2. /\ e1[k] = n
      /\ \A i \in 1..m : i < k => e1[i] = e[i]
      /\ \A i \in 1..m : k <= i => e1[i + 1] = e[i]
    BY WithElements
<1>3. n.prio \in Nat /\ n.msg \in Messages /\ \A j \in 1..m : e[j].prio \in Nat
    BY MessageParts
<1>4. \A j \in 1..m : (j < k => e[j].prio >= n.prio) /\ (k <= j => n.prio > e[j].prio)
    BY DEF Goes
<1> HIDE DEF e1
<1>5. \A i \in 1..(m + 1) : \/ i = k
                            \/ i < k /\ i \in 1..m /\ e1[i] = e[i] /\ e[i].prio >= n.prio
                            \/ /\ k < i /\ i - 1 \in 1..m /\ ~(i - 1 < k)
                               /\ e1[i] = e[i - 1] /\ n.prio > e[i - 1].prio
    <2> TAKE i \in 1..(m + 1)
    <2>1. CASE i < k /\ i \in 1..m
        BY <1>2, <1>4, <2>1
    <2>2. CASE k < i /\ i - 1 \in 1..m /\ k <= i - 1 /\ (i - 1) + 1 = i
        <3>1. e1[(i - 1) + 1] = e[i - 1]
            BY <1>2, <2>2
        <3>2. ~(i - 1 < k)
            BY <2>2
        <3> QED BY <1>4, <2>2, <3>1, <3>2
    <2> QED BY <2>1, <2>2, Position
<1>6. Sorted(e1, m + 1)
    <2> SUFFICES ASSUME NEW i \in 1..(m + 1), NEW j \in 1..(m + 1), i < j
                 PROVE  e1[i].prio >= e1[j].prio
        BY DEF Sorted
    <2>1. CASE i = k
        <3>1. k < j /\ ~(j < k) /\ j # k
            BY <2>1
        <3>2. e1[j] = e[j - 1] /\ n.prio > e[j - 1].prio /\ j - 1 \in 1..m
            BY <1>5, <3>1
        <3> QED BY <1>2, <1>3, <2>1, <3>2
    <2>2. CASE i < k
        <3>1. i \in 1..m /\ e1[i] = e[i] /\ e[i].prio >= n.prio
            BY <1>5, <2>2
        <3>2. CASE j = k
            BY <1>2, <3>1, <3>2
        <3>3. CASE j < k
            <4>1. j \in 1..m /\ e1[j] = e[j]
                BY <1>5, <3>3
            <4> QED BY <3>1, <4>1 DEF Sorted
        <3>4. CASE k < j
            <4>1. j - 1 \in 1..m /\ e1[j] = e[j - 1] /\ n.prio > e[j - 1].prio
                BY <1>5, <3>4
            <4> QED BY <1>3, <3>1, <4>1
        <3> QED BY <3>2, <3>3, <3>4
    <2>3. CASE k < i
        <3>1. k < j
            BY <2>3
        <3>2. i - 1 \in 1..m /\ j - 1 \in 1..m /\ e1[i] = e[i - 1] /\ e1[j] = e[j - 1]
            BY <1>5, <2>3, <3>1
        <3>3. i - 1 < j - 1
            OBVIOUS
        <3> QED BY <3>2, <3>3 DEF Sorted
    <2> QED BY <2>1, <2>2, <2>3
<1>7. ASSUME NEW q \in Nat, NEW a \in Nat, NEW b \in Nat, Span(e, m, q, a, b), q = n.prio
      PROVE  k = a + b + 1 /\ Span(e1, m + 1, q, a, b + 1)
    <2>1. \A j \in 1..m : e[j].prio >= q <=> j <= a + b
        BY <1>3, <1>7 DEF Span
    <2>2. \A j \in 1..m : e[j].prio >= q <=> j < k
        BY <1>3, <1>7, <1>4
    <2>3. a + b <= m /\ a + b \in Nat
        BY <1>7 DEF Span
    <2>4. k = a + b + 1
        <3>1. a + b + 1 \in 1..m => ~(a + b + 1 < k)
            BY <2>1, <2>2, <2>3
        <3>2. a + b \in 1..m => a + b < k
            BY <2>1, <2>2, <2>3
        <3>3. a + b = 0 \/ a + b \in 1..m
            BY <2>3
        <3>4. a + b + 1 = m + 1 \/ a + b + 1 \in 1..m
            BY <2>3
        <3> QED BY <2>3, <3>1, <3>2, <3>3, <3>4
    <2>5. ASSUME NEW i \in 1..(m + 1)
          PROVE  /\ e1[i].prio > q <=> i <= a
                 /\ e1[i].prio = q <=> a < i /\ i <= a + (b + 1)
        <3>1. CASE i = k
            BY <1>2, <1>3, <1>7, <2>3, <2>4, <3>1
        <3>2. CASE i < k
            <4>1. i \in 1..m /\ e1[i] = e[i]
                BY <1>5, <3>2
            <4>2. /\ e[i].prio > q <=> i <= a
                  /\ e[i].prio = q <=> a < i /\ i <= a + b
                BY <1>7, <4>1 DEF Span
            <4> QED BY <2>3, <2>4, <3>2, <4>1, <4>2
        <3>3. CASE k < i
            <4>1. i - 1 \in 1..m /\ e1[i] = e[i - 1] /\ n.prio > e[i - 1].prio
                BY <1>5, <3>3
            <4> QED BY <1>3, <1>7, <2>3, <2>4, <3>3, <4>1
        <3> QED BY <3>1, <3>2, <3>3
    <2> QED BY <2>3, <2>4, <2>5 DEF Span
<1>8. ASSUME NEW q \in Nat, NEW a \in Nat, NEW b \in Nat, Span(e, m, q, a, b), q > n.prio
      PROVE  a + b < k /\ Span(e1, m + 1, q, a, b)
    <2>1. a + b <= m /\ a + b \in Nat
        BY <1>8 DEF Span
    <2>2. a + b < k
        <3>1. CASE a + b = 0
            BY <3>1
        <3>2. CASE a + b # 0
            <4>1. a + b \in 1..m /\ a + b <= a + b /\ (a + b <= a \/ a < a + b)
                BY <2>1, <3>2
            <4>2. e[a + b].prio > n.prio
                BY <1>3, <1>8, <4>1 DEF Span
            <4> QED BY <1>3, <1>4, <4>1, <4>2
        <3> QED BY <3>1, <3>2
    <2>3. ASSUME NEW i \in 1..(m + 1)
          PROVE  /\ e1[i].prio > q <=> i <= a
                 /\ e1[i].prio = q <=> a < i /\ i <= a + b
        <3>1. CASE i = k
            BY <1>2, <1>3, <1>8, <2>1, <2>2, <3>1
        <3>2. CASE i < k
            <4>1. i \in 1..m /\ e1[i] = e[i]
                BY <1>5, <3>2
            <4> QED BY <1>8, <4>1 DEF Span
        <3>3. CASE k < i
            <4>1. i - 1 \in 1..m /\ e1[i] = e[i - 1] /\ n.prio > e[i - 1].prio
                BY <1>5, <3>3
            <4>2. e1[i].prio \in Nat /\ q > e1[i].prio
                BY <1>3, <1>8, <4>1
            <4> QED BY <2>1, <2>2, <3>3, <4>2
        <3> QED BY <3>1, <3>2, <3>3
    <2> QED BY <2>1, <2>2, <2>3 DEF Span
<1>9. ASSUME NEW q \in Nat, NEW a \in Nat, NEW b \in Nat, Span(e, m, q, a, b), n.prio > q
      PROVE  k <= a + 1 /\ Span(e1, m + 1, q, a + 1, b)
    <2>1. a + b <= m /\ a + b \in Nat
        BY <1>9 DEF Span
    <2>2. k <= a + 1
        <3>1. CASE k = 1
            BY <3>1
        <3>2. CASE k # 1
            <4>1. k - 1 \in 1..m /\ k - 1 < k
                BY <3>2
            <4>2. e[k - 1].prio > q
                BY <1>3, <1>9, <1>4, <4>1
            <4>3. k - 1 <= a
                BY <1>9, <4>1, <4>2 DEF Span
            <4> QED BY <4>3
        <3> QED BY <3>1, <3>2
    <2>3. ASSUME NEW i \in 1..(m + 1)
          PROVE  /\ e1[i].prio > q <=> i <= a + 1
                 /\ e1[i].prio = q <=> a + 1 < i /\ i <= (a + 1) + b
        <3>1. CASE i = k
            BY <1>2, <1>3, <1>9, <2>1, <2>2, <3>1
        <3>2. CASE i < k
            <4>1. i \in 1..m /\ e1[i] = e[i] /\ e[i].prio >= n.prio
                BY <1>5, <3>2
            <4>2. e1[i].prio > q
                BY <1>3, <1>9, <4>1
            <4> QED BY <1>3, <2>1, <2>2, <3>2, <4>1, <4>2
        <3>3. CASE k < i
            <4>1. i - 1 \in 1..m /\ e1[i] = e[i - 1]
                BY <1>5, <3>3
            <4> QED BY <1>3, <1>9, <2>1, <4>1 DEF Span
        <3> QED BY <3>1, <3>2, <3>3
    <2> QED BY <2>1, <2>2, <2>3 DEF Span
<1>10. Fifo(e1, n.prio) = Append(Fifo(e, n.prio), n.msg)
    <2>1. PICK a \in Nat, b \in Nat : Span(e, m, n.prio, a, b)
        BY <1>3, SpanExists
    <2>2. k = a + b + 1 /\ Span(e1, m + 1, n.prio, a, b + 1)
        BY <1>3, <1>7, <2>1
    <2> DEFINE s == Fifo(e, n.prio)
               t == Fifo(e1, n.prio)
    <2>3. Reads(e, m, s, a, b) /\ Reads(e1, m + 1, t, a, b + 1)
        BY <1>1, <2>1, <2>2, SpanFifo
    <2> HIDE DEF s, t
    <2>4. s \in Seq(Messages) /\ Len(s) = b /\ \A j \in 1..b : a + j \in 1..m /\ s[j] = e[a + j].msg
        BY <2>3 DEF Reads
    <2>5. /\ t \in Seq(Messages) /\ Len(t) = b + 1
          /\ \A j \in 1..(b + 1) : a + j \in 1..(m + 1) /\ t[j] = e1[a + j].msg
        BY <2>3 DEF Reads
    <2>6. /\ Append(s, n.msg) \in Seq(Messages) /\ Len(Append(s, n.msg)) = b + 1
          /\ \A j \in 1..b : Append(s, n.msg)[j] = s[j]
          /\ Append(s, n.msg)[b + 1] = n.msg
        BY <1>3, <2>4
    <2>7. ASSUME NEW j \in 1..(b + 1) PROVE t[j] = Append(s, n.msg)[j]
        <3>1. CASE j = b + 1
            <4>1. a + j = k
                BY <2>2, <3>1
            <4> QED BY <1>2, <2>5, <2>6, <3>1, <4>1
        <3>2. CASE j \in 1..b
            <4>1. a + j < k
                BY <2>2, <3>2
            <4> QED BY <1>2, <2>4, <2>5, <2>6, <3>2, <4>1
        <3>3. b \in Nat /\ (j = b + 1 \/ j \in 1..b)
            BY <2>1
        <3> QED BY <3>1, <3>2, <3>3
    <2>8. t = Append(s, n.msg)
        BY <2>5, <2>6, <2>7, SeqEqual
    <2> QED BY <2>8 DEF s, t
<1>11. ASSUME NEW q \in Nat, q # n.prio PROVE Fifo(e1, q) = Fifo(e, q)
    <2>1. PICK a \in Nat, b \in Nat : Span(e, m, q, a, b)
        BY SpanExists
    <2> DEFINE s == Fifo(e, q)
               t == Fifo(e1, q)
    <2>2. Reads(e, m, s, a, b)
        BY <2>1, SpanFifo
    <2>3. s \in Seq(Messages) /\ Len(s) = b /\ \A j \in 1..b : a + j \in 1..m /\ s[j] = e[a + j].msg
        BY <2>2 DEF Reads
    <2>4. CASE q > n.prio
        <3>1. a + b < k /\ Span(e1, m + 1, q, a, b)
            BY <1>8, <2>1, <2>4
        <3>2. Reads(e1, m + 1, t, a, b)
            BY <1>1, <3>1, SpanFifo
        <3> HIDE DEF s, t
        <3>3. /\ t \in Seq(Messages) /\ Len(t) = b
              /\ \A j \in 1..b : a + j \in 1..(m + 1) /\ t[j] = e1[a + j].msg
            BY <3>2 DEF Reads
        <3>4. \A j \in 1..b : t[j] = s[j]
            <4> TAKE j \in 1..b
            <4>1. a + j < k
                BY <3>1
            <4> QED BY <1>2, <2>3, <3>3, <4>1
        <3>5. t = s
            BY <2>3, <3>3, <3>4, SeqEqual
        <3> QED BY <3>5 DEF s, t
    <2>5. CASE n.prio > q
        <3>1. k <= a + 1 /\ Span(e1, m + 1, q, a + 1, b)
            BY <1>9, <2>1, <2>5
        <3>2. Reads(e1, m + 1, t, a + 1, b)
            BY <1>1, <3>1, SpanFifo
        <3> HIDE DEF s, t
        <3>3. /\ t \in Seq(Messages) /\ Len(t) = b
              /\ \A j \in 1..b : (a + 1) + j \in 1..(m + 1) /\ t[j] = e1[(a + 1) + j].msg
            BY <3>2 DEF Reads
        <3>4. \A j \in 1..b : t[j] = s[j]
            <4> TAKE j \in 1..b
            <4>1. k <= a + j /\ (a + j) + 1 = (a + 1) + j
                BY <3>1
            <4>2. e1[(a + j) + 1] = e[a + j]
                BY <1>2, <2>3, <4>1
            <4> QED BY <2>3, <3>3, <4>1, <4>2
        <3>5. t = s
            BY <2>3, <3>3, <3>4, SeqEqual
        <3> QED BY <3>5 DEF s, t
    <2> QED BY <1>3, <1>11, <2>4, <2>5
<1> QED
    BY <1>1, <1>6, <1>10, <1>11 DEF e1

\* The first message leaves (mq_receive.c:48-60): it was the first of its priority, no
\* message has a higher one, and the other priorities keep theirs.
LEMMA RestFifo ==
    ASSUME NEW m \in Nat \ {0}, NEW e \in [1..m -> Message], Sorted(e, m)
    PROVE  /\ Rest(e, m) \in [1..(m - 1) -> Message]
           /\ Sorted(Rest(e, m), m - 1)
           /\ Fifo(e, e[1].prio) # <<>> /\ Head(Fifo(e, e[1].prio)) = e[1].msg
           /\ Fifo(Rest(e, m), e[1].prio) = Tail(Fifo(e, e[1].prio))
           /\ \A q \in Nat : q # e[1].prio => Fifo(Rest(e, m), q) = Fifo(e, q)
           /\ \A q \in Nat : q > e[1].prio => Fifo(e, q) = <<>>
<1> DEFINE e1 == Rest(e, m)
           first == e[1].prio
<1>1. e1 \in [1..(m - 1) -> Message] /\ m - 1 \in Nat /\ 1 \in 1..m
    BY RestType
<1>2. \A i \in 1..(m - 1) : i + 1 \in 1..m /\ e1[i] = e[i + 1]
    BY RestElements
<1> HIDE DEF e1
<1>3. first \in Nat /\ \A j \in 1..m : e[j].prio \in Nat /\ first >= e[j].prio
    <2>1. \A j \in 1..m : e[j].prio \in Nat
        BY MessageParts
    <2>2. \A j \in 1..m : j = 1 \/ 1 < j
        OBVIOUS
    <2> QED BY <1>1, <2>1, <2>2 DEF Sorted
<1>4. Sorted(e1, m - 1)
    <2> SUFFICES ASSUME NEW i \in 1..(m - 1), NEW j \in 1..(m - 1), i < j
                 PROVE  e1[i].prio >= e1[j].prio
        BY DEF Sorted
    <2>1. i + 1 \in 1..m /\ j + 1 \in 1..m /\ i + 1 < j + 1 /\ e1[i] = e[i + 1] /\ e1[j] = e[j + 1]
        BY <1>2
    <2> QED BY <2>1 DEF Sorted
<1>5. /\ Fifo(e, first) # <<>> /\ Head(Fifo(e, first)) = e[1].msg
      /\ Fifo(e1, first) = Tail(Fifo(e, first))
    <2> DEFINE s == Fifo(e, first)
               t == Fifo(e1, first)
    <2>1. PICK a \in Nat, b \in Nat : Span(e, m, first, a, b)
        BY <1>3, SpanExists
    <2>2. a = 0 /\ b >= 1
        <3>1. ~(e[1].prio > first) /\ e[1].prio = first
            BY <1>3
        <3>2. ~(1 <= a) /\ a < 1 /\ 1 <= a + b
            BY <1>1, <2>1, <3>1 DEF Span
        <3> QED BY <3>2
    <2>3. Span(e1, m - 1, first, a, b - 1)
        <3>1. b - 1 \in Nat /\ a + (b - 1) <= m - 1 /\ a \in Nat
            BY <2>1, <2>2 DEF Span
        <3>2. ASSUME NEW k \in 1..(m - 1)
              PROVE  /\ e1[k].prio > first <=> k <= a
                     /\ e1[k].prio = first <=> a < k /\ k <= a + (b - 1)
            <4>1. k + 1 \in 1..m /\ e1[k] = e[k + 1]
                BY <1>2
            <4>2. /\ e[k + 1].prio > first <=> k + 1 <= a
                  /\ e[k + 1].prio = first <=> a < k + 1 /\ k + 1 <= a + b
                BY <2>1, <4>1 DEF Span
            <4> QED BY <2>2, <4>1, <4>2
        <3> QED BY <3>1, <3>2 DEF Span
    <2>4. Reads(e, m, s, a, b) /\ Reads(e1, m - 1, t, a, b - 1)
        BY <1>1, <2>1, <2>3, SpanFifo
    <2> HIDE DEF s, t
    <2>5. s \in Seq(Messages) /\ Len(s) = b /\ \A j \in 1..b : s[j] = e[a + j].msg
        BY <2>4 DEF Reads
    <2>6. /\ t \in Seq(Messages) /\ Len(t) = b - 1
          /\ \A j \in 1..(b - 1) : a + j \in 1..(m - 1) /\ t[j] = e1[a + j].msg
        BY <2>4 DEF Reads
    <2>7. s # <<>> /\ Head(s) = s[1]
        BY <2>2, <2>5
    <2>8. Head(s) = e[1].msg
        BY <2>2, <2>5, <2>7
    <2>9. /\ Tail(s) \in Seq(Messages) /\ Len(Tail(s)) = b - 1
          /\ \A j \in 1..(b - 1) : Tail(s)[j] = s[j + 1]
        BY <2>5, <2>7, HeadTailProperties
    <2>10. ASSUME NEW j \in 1..(b - 1) PROVE t[j] = Tail(s)[j]
        <3>1. a + j = j /\ j + 1 \in 1..b /\ a + (j + 1) = j + 1
            BY <2>2
        <3>2. t[j] = e1[j].msg /\ e1[j] = e[j + 1]
            BY <1>2, <2>6, <3>1
        <3> QED BY <2>5, <2>9, <3>1, <3>2
    <2>11. t = Tail(s)
        BY <2>6, <2>9, <2>10, SeqEqual
    <2> QED BY <2>7, <2>8, <2>11 DEF s, t
<1>6. ASSUME NEW q \in Nat, q > first PROVE Fifo(e, q) = <<>> /\ Fifo(e1, q) = <<>>
    <2>1. Span(e, m, q, 0, 0)
        BY <1>3, <1>6 DEF Span
    <2>2. Span(e1, m - 1, q, 0, 0)
        BY <1>1, <1>2, <1>3, <1>6 DEF Span
    <2>3. Reads(e, m, Fifo(e, q), 0, 0) /\ Reads(e1, m - 1, Fifo(e1, q), 0, 0)
        BY <1>1, <2>1, <2>2, SpanFifo
    <2> QED BY <2>3 DEF Reads
<1>7. ASSUME NEW q \in Nat, first > q PROVE Fifo(e1, q) = Fifo(e, q)
    <2> DEFINE s == Fifo(e, q)
               t == Fifo(e1, q)
    <2>1. PICK a \in Nat, b \in Nat : Span(e, m, q, a, b)
        BY SpanExists
    <2>2. a >= 1
        BY <1>1, <1>7, <2>1 DEF Span
    <2>3. Span(e1, m - 1, q, a - 1, b)
        <3>1. a - 1 \in Nat /\ b \in Nat /\ (a - 1) + b <= m - 1
            BY <2>1, <2>2 DEF Span
        <3>2. ASSUME NEW k \in 1..(m - 1)
              PROVE  /\ e1[k].prio > q <=> k <= a - 1
                     /\ e1[k].prio = q <=> a - 1 < k /\ k <= (a - 1) + b
            <4>1. k + 1 \in 1..m /\ e1[k] = e[k + 1]
                BY <1>2
            <4>2. /\ e[k + 1].prio > q <=> k + 1 <= a
                  /\ e[k + 1].prio = q <=> a < k + 1 /\ k + 1 <= a + b
                BY <2>1, <4>1 DEF Span
            <4> QED BY <2>2, <4>1, <4>2
        <3> QED BY <3>1, <3>2 DEF Span
    <2>4. Reads(e, m, s, a, b) /\ Reads(e1, m - 1, t, a - 1, b)
        BY <1>1, <2>1, <2>3, SpanFifo
    <2> HIDE DEF s, t
    <2>5. s \in Seq(Messages) /\ Len(s) = b /\ \A j \in 1..b : s[j] = e[a + j].msg
        BY <2>4 DEF Reads
    <2>6. /\ t \in Seq(Messages) /\ Len(t) = b
          /\ \A j \in 1..b : (a - 1) + j \in 1..(m - 1) /\ t[j] = e1[(a - 1) + j].msg
        BY <2>4 DEF Reads
    <2>7. ASSUME NEW j \in 1..b PROVE t[j] = s[j]
        <3>1. ((a - 1) + j) + 1 = a + j
            OBVIOUS
        <3>2. e1[(a - 1) + j] = e[((a - 1) + j) + 1]
            BY <1>2, <2>6
        <3> QED BY <2>5, <2>6, <3>1, <3>2
    <2>8. t = s
        BY <2>5, <2>6, <2>7, SeqEqual
    <2> QED BY <2>8 DEF s, t
<1>8. \A q \in Nat : q # first => q > first \/ first > q
    BY <1>3
<1>9. \A q \in Nat : q # first => Fifo(e1, q) = Fifo(e, q)
    BY <1>6, <1>7, <1>8
<1> QED
    BY <1>1, <1>4, <1>5, <1>6, <1>9 DEF e1

\* The FIFOs hold no more than the list does.
LEMMA WaitingBound ==
    ASSUME NEW m \in Nat, NEW e \in [1..m -> Message], Sorted(e, m)
    PROVE  LET f == [q \in Priorities |-> Fifo(e, q)]
               W == {w \in Priorities \X (1..MaxMsg) : w[2] <= Len(f[w[1]])}
           IN  Cardinality(W) \in Nat /\ Cardinality(W) <= m
<1> DEFINE f == [q \in Priorities |-> Fifo(e, q)]
           W == {w \in Priorities \X (1..MaxMsg) : w[2] <= Len(f[w[1]])}
           above(q) == Cardinality({k \in DOMAIN e : e[k].prio > q})
           pos == [w \in W |-> above(w[1]) + w[2]]
<1>1. ASSUME NEW w \in W
      PROVE  above(w[1]) \in Nat /\ pos[w] \in 1..m /\ e[pos[w]].prio = w[1]
    <2> DEFINE q == w[1]
               i == w[2]
    <2>1. q \in Priorities /\ q \in Nat /\ i \in Nat \ {0} /\ i <= Len(Fifo(e, q))
        <3>1. w[1] \in Priorities /\ w[2] \in 1..MaxMsg /\ w[2] <= Len(f[w[1]])
            OBVIOUS
        <3>2. f[w[1]] = Fifo(e, w[1])
            BY <3>1
        <3>3. Priorities \subseteq Nat /\ MaxMsg \in Nat
            BY QueueAssumption
        <3>4. \A j \in 1..MaxMsg : j \in Nat \ {0}
            BY <3>3
        <3> HIDE DEF f, W
        <3> QED BY <3>1, <3>2, <3>3, <3>4, Zenon
    <2>2. pos[w] = above(q) + i
        OBVIOUS
    <2> HIDE DEF q, i, pos
    <2>3. PICK a \in Nat, b \in Nat : Span(e, m, q, a, b)
        BY <2>1, SpanExists
    <2>4. Reads(e, m, Fifo(e, q), a, b)
        BY <2>3, SpanFifo
    <2>5. i <= b
        BY <2>1, <2>4 DEF Reads
    <2>6. {k \in DOMAIN e : e[k].prio > q} = 1..a
        <3>1. \A k : k \in 1..a <=> k \in 1..m /\ k <= a
            BY <2>3 DEF Span
        <3> QED BY <2>3, <3>1 DEF Span
    <2>7. above(q) = a
        <3>1. Cardinality(1..a) = a
            BY <2>3, FS_Interval
        <3> QED BY <2>6, <3>1
    <2> HIDE DEF above
    <2>8. a + i \in 1..m /\ a < a + i /\ a + i <= a + b
        BY <2>1, <2>3, <2>5 DEF Span
    <2>9. e[a + i].prio = q
        BY <2>3, <2>8 DEF Span
    <2> QED BY <2>2, <2>3, <2>7, <2>8, <2>9 DEF q
<1>2. \A w \in W : w = <<w[1], w[2]>> /\ w[2] \in Nat /\ pos[w] = above(w[1]) + w[2]
    OBVIOUS
<1> HIDE DEF W, pos, above
<1>3. \A w, x \in W : pos[w] = pos[x] => w = x
    <2> SUFFICES ASSUME NEW w \in W, NEW x \in W, pos[w] = pos[x] PROVE w = x
        OBVIOUS
    <2>1. w[1] = x[1]
        BY <1>1
    <2>2. w[2] = x[2]
        <3>1. above(w[1]) \in Nat /\ w[2] \in Nat /\ x[2] \in Nat
            BY <1>1, <1>2
        <3>2. above(w[1]) + w[2] = above(w[1]) + x[2]
            BY <1>2, <2>1
        <3> QED BY <3>1, <3>2
    <2> QED BY <1>2, <2>1, <2>2
<1>4. pos \in [W -> 1..m]
    <2>1. pos = [w \in W |-> pos[w]]
        BY DEF pos
    <2> QED BY <1>1, <2>1
<1>5. pos \in Injection(W, 1..m)
    BY <1>3, <1>4, Fun_IsInj
<1>6. IsFiniteSet(1..m) /\ Cardinality(1..m) = m
    BY FS_Interval
<1>7. Cardinality(W) <= m /\ Cardinality(W) \in Nat
    BY <1>5, <1>6, FS_Injection, FS_CardinalityType
<1> QED
    BY <1>7 DEF W

\* What the slots of u hold, in order.
Held(sl, u, m) == [k \in 1..m |-> sl[u[k]]]

\* The lists are laid out in the slots; the used ones hold messages, sorted.
Lists(nx, h, f, sl, m, u, v) ==
    /\ Layout(nx, h, f, m, u, v)
    /\ Held(sl, u, m) \in [1..m -> Message] /\ Sorted(Held(sl, u, m), m)

ListsOK == \E u \in [1..curmsgs -> Slots], v \in [1..(MaxMsg - curmsgs) -> Slots] :
               Lists(next, head, free, slot, curmsgs, u, v)

\* A sender that waits holds its message, and mqh_nwait counts the receivers that wait,
\* the dead ones included.
SendersHold == \A p \in Procs : st[p] \in {"sndsleep", "sndwoken"} => arg[p] \in Message
Receiving == {p \in Procs : st[p] \in {"rcvsleep", "rcvwoken", "deadrcv"}}
WaitersCounted == nwait = Cardinality(Receiving)

\* The inductive invariant.
IndInv == TypeOK /\ sends \in 0..MaxSends /\ ListsOK /\ SendersHold /\ WaitersCounted

\* What the walk through a list reads.
ListOf(nx, sl, h) == LET c == Walk(nx, h) IN [k \in DOMAIN c |-> sl[c[k]]]

\* The queue is what the walk from mqh_head reads, before and after a step.
LEMMA QueueOf == Queue = ListOf(next, slot, head) /\ Queue' = ListOf(next', slot', head')
BY DEF Queue, ListOf, Chain

\* In a layout the walks from the two heads meet the slots of u and of v.
LEMMA ListIs ==
    ASSUME NEW m \in 0..MaxMsg, NEW nx, NEW sl, NEW h, NEW f, NEW u, NEW v, Layout(nx, h, f, m, u, v)
    PROVE  Walk(nx, h) = u /\ Walk(nx, f) = v /\ ListOf(nx, sl, h) = Held(sl, u, m)
<1>1. /\ u \in [1..m -> Slots] /\ v \in [1..(MaxMsg - m) -> Slots]
      /\ Linked(nx, m, u, h) /\ Linked(nx, MaxMsg - m, v, f)
    BY DEF Layout
<1>2. MaxMsg - m \in 0..MaxMsg
    BY QueueAssumption
<1>3. Walk(nx, h) = u
    BY <1>1, WalkIs
<1>4. Walk(nx, f) = v
    BY <1>1, <1>2, WalkIs
<1>5. DOMAIN u = 1..m
    BY <1>1
<1> QED
    BY <1>3, <1>4, <1>5 DEF ListOf, Held

\* Where the walk of mymq_send() stops (mq_send.c:67-76).
LEMMA PlaceIs ==
    ASSUME NEW m \in Nat, Queue \in [1..m -> Message], Sorted(Queue, m), NEW n \in Message
    PROVE  Place(n) \in 1..(m + 1) /\ Goes(Queue, m, n, Place(n))
<1> DEFINE e == Queue
           stops(k) == k <= Len(e) => n.prio > e[k].prio
           P(k) == stops(k) /\ \A j \in 1..(k - 1) : ~(n.prio > e[j].prio)
           T == {k \in 1..(m + 1) : k <= m => n.prio > e[k].prio}
<1>1. Place(n) = CHOOSE k \in 1..(Len(e) + 1) : P(k)
    BY DEF Place
<1>2. Len(e) = m
    BY DEF Queue
<1>3. n.prio \in Nat /\ \A j \in 1..m : e[j].prio \in Nat
    BY MessageParts
<1> HIDE DEF e
<1>4. \E k \in 1..(m + 1) : P(k)
    <2>1. m + 1 \in T /\ T \subseteq Nat
        OBVIOUS
    <2>2. PICK x \in T : \A y \in T : x <= y
        BY <2>1, Smallest
    <2>3. x \in 1..(m + 1) /\ (x <= m => n.prio > e[x].prio)
        OBVIOUS
    <2>4. \A j \in 1..(x - 1) : ~(n.prio > e[j].prio)
        <3> TAKE j \in 1..(x - 1)
        <3>1. j \in 1..(m + 1) /\ j <= m /\ ~(x <= j)
            BY <2>3
        <3>2. j \notin T
            BY <2>2, <3>1
        <3> QED BY <3>1, <3>2
    <2> QED BY <1>2, <2>3, <2>4
<1>5. Place(n) \in 1..(m + 1) /\ P(Place(n))
    <2> HIDE DEF P
    <2> QED BY <1>1, <1>2, <1>4
<1> DEFINE k == Place(n)
<1>6. k \in 1..(m + 1) /\ (k <= m => n.prio > e[k].prio) /\ \A j \in 1..(k - 1) : ~(n.prio > e[j].prio)
    BY <1>2, <1>5
<1> HIDE DEF k, P, stops, T
<1>7. \A j \in 1..m : j < k => e[j].prio >= n.prio
    <2> TAKE j \in 1..m
    <2>1. j < k => j \in 1..(k - 1)
        BY <1>6
    <2> QED BY <1>3, <1>6, <2>1
<1>8. \A j \in 1..m : k <= j => n.prio > e[j].prio
    <2> SUFFICES ASSUME NEW j \in 1..m, k <= j PROVE n.prio > e[j].prio
        OBVIOUS
    <2>1. k \in 1..m /\ (k = j \/ k < j)
        BY <1>6
    <2>2. k < j => e[k].prio >= e[j].prio
        BY <2>1 DEF Sorted, e
    <2> QED BY <1>3, <1>6, <2>1, <2>2
<1>9. Goes(e, m, n, k)
    BY <1>7, <1>8 DEF Goes
<1> QED
    BY <1>6, <1>9 DEF e, k

\* What the second half of mymq_send() does (mq_send.c:55-88): there is room, the lists
\* stay laid out, and the message is behind all others of its priority.
LEMMA EnqueueStep ==
    ASSUME TypeOK, ListsOK, NEW p, NEW n \in Message, Enqueue(p, n)
    PROVE  /\ curmsgs < MaxMsg /\ curmsgs' \in 0..MaxMsg /\ head' \in 0..MaxMsg /\ free' \in 0..MaxMsg
           /\ next' \in [Slots -> 0..MaxMsg] /\ slot' \in [Slots -> Message \cup {NULL}]
           /\ ListsOK'
           /\ Fifo(Queue', n.prio) = Append(Fifo(Queue, n.prio), n.msg)
           /\ \A q \in Nat : q # n.prio => Fifo(Queue', q) = Fifo(Queue, q)
<1> DEFINE m == curmsgs
<1>1. PICK u, v : Lists(next, head, free, slot, m, u, v)
    BY DEF ListsOK
<1>2. /\ m \in 0..MaxMsg /\ head \in 0..MaxMsg /\ free \in 0..MaxMsg
      /\ next \in [Slots -> 0..MaxMsg] /\ slot \in [Slots -> Message \cup {NULL}]
    BY DEF TypeOK
<1> DEFINE e == Held(slot, u, m)
           k == Place(n)
           u1 == With(u, m, k, free)
           v1 == Rest(v, MaxMsg - m)
<1>3. /\ Layout(next, head, free, m, u, v)
      /\ e \in [1..m -> Message] /\ Sorted(e, m)
    BY <1>1 DEF Lists
<1>4. Chain(head) = u /\ Queue = e
    <2>1. Walk(next, head) = u /\ ListOf(next, slot, head) = e
        BY <1>2, <1>3, ListIs
    <2> QED BY <2>1, QueueOf DEF Chain
<1>5. k \in 1..(m + 1) /\ Goes(e, m, n, k) /\ m \in Nat /\ MaxMsg \in Nat
    <2>1. m \in Nat /\ MaxMsg \in Nat
        BY <1>2, QueueAssumption
    <2>2. Queue \in [1..m -> Message] /\ Sorted(Queue, m)
        BY <1>3, <1>4, Zenon
    <2>3. k \in 1..(m + 1) /\ Goes(Queue, m, n, k)
        BY <2>1, <2>2, PlaceIs
    <2> QED BY <1>4, <2>1, <2>3, Zenon
<1>6. m < MaxMsg
    <2>1. free # 0 /\ free = IF MaxMsg - m = 0 THEN 0 ELSE v[1]
        BY <1>3 DEF Enqueue, Layout, Linked
    <2> QED BY <1>2, <1>5, <2>1
<1>7. Len(u) = m
    BY <1>3, <1>5 DEF Layout
<1>8. /\ free' = next[free] /\ slot' = [slot EXCEPT ![free] = n] /\ curmsgs' = m + 1
      /\ head' = IF k = 1 THEN free ELSE head
      /\ next' = [s \in Slots |-> IF s = free THEN IF k <= m THEN u[k] ELSE 0
                                  ELSE IF k > 1 /\ s = u[k - 1] THEN free ELSE next[s]]
    BY <1>4, <1>7 DEF Enqueue, Link
<1> HIDE DEF m, k, e
<1>9. /\ free = v[1] /\ free \in Slots /\ next' \in [Slots -> 0..MaxMsg]
      /\ Layout(next', head', free', m + 1, u1, v1)
    <2>1. /\ free = v[1] /\ free \in Slots /\ next' \in [Slots -> 0..MaxMsg]
          /\ Layout(next', IF k = 1 THEN free ELSE head, next[free], m + 1,
                    With(u, m, k, free), Rest(v, MaxMsg - m))
        <3>1. m \in 0..MaxMsg /\ m < MaxMsg /\ k \in 1..(m + 1) /\ next \in [Slots -> 0..MaxMsg]
            BY <1>2, <1>5, <1>6
        <3>2. Layout(next, head, free, m, u, v)
            BY <1>3
        <3>3. next' = LinkedIn(next, m, u, k, free)
            BY <1>8 DEF LinkedIn
        <3> HIDE DEF u1, v1
        <3> QED BY <3>1, <3>2, <3>3, LinkLayout
    <2> QED BY <1>8, <2>1
<1>10. /\ u1 \in [1..(m + 1) -> Slots] /\ v1 \in [1..(MaxMsg - (m + 1)) -> Slots]
    BY <1>9 DEF Layout
<1>11. \A i \in 1..m : u[i] # free /\ u[i] \in Slots
    <2>1. 1 \in 1..(MaxMsg - m)
        BY <1>5, <1>6
    <2> QED BY <1>3, <1>9, <2>1 DEF Layout
<1>12. /\ DOMAIN u1 = 1..(m + 1) /\ u1[k] = free
       /\ \A i \in 1..m : i < k => u1[i] = u[i]
       /\ \A i \in 1..m : k <= i => u1[i + 1] = u[i]
    <2>1. m \in Nat /\ k \in 1..(m + 1)
        BY <1>5
    <2> QED BY <2>1, WithElements
<1>13. /\ DOMAIN With(e, m, k, n) = 1..(m + 1) /\ With(e, m, k, n)[k] = n
       /\ \A i \in 1..m : i < k => With(e, m, k, n)[i] = e[i]
       /\ \A i \in 1..m : k <= i => With(e, m, k, n)[i + 1] = e[i]
    BY <1>5, WithElements
<1>14. \A i \in 1..m : e[i] = slot[u[i]]
    BY DEF e, Held
<1> DEFINE e1 == With(e, m, k, n)
<1>15. /\ e1 \in [1..(m + 1) -> Message] /\ Sorted(e1, m + 1)
       /\ Fifo(e1, n.prio) = Append(Fifo(e, n.prio), n.msg)
       /\ \A q \in Nat : q # n.prio => Fifo(e1, q) = Fifo(e, q)
    BY <1>3, <1>5, InsertFifo
<1> HIDE DEF u1, v1, e1
<1>16. Held(slot', u1, m + 1) = e1
    <2>1. ASSUME NEW i \in 1..(m + 1) PROVE slot'[u1[i]] = e1[i]
        <3>1. CASE i = k
            BY <1>2, <1>8, <1>9, <1>12, <1>13, <3>1 DEF e1
        <3>2. CASE i < k /\ i \in 1..m
            <4>1. u1[i] = u[i] /\ e1[i] = e[i]
                BY <1>12, <1>13, <3>2 DEF e1
            <4> QED BY <1>2, <1>8, <1>11, <1>14, <3>2, <4>1
        <3>3. CASE i - 1 \in 1..m /\ k <= i - 1 /\ (i - 1) + 1 = i
            <4>1. u1[(i - 1) + 1] = u[i - 1] /\ e1[(i - 1) + 1] = e[i - 1]
                BY <1>12, <1>13, <3>3 DEF e1
            <4> QED BY <1>2, <1>8, <1>11, <1>14, <3>3, <4>1
        <3> QED BY <1>5, <3>1, <3>2, <3>3, Position
    <2>2. e1 = [i \in 1..(m + 1) |-> e1[i]]
        BY <1>15
    <2> QED BY <2>1, <2>2 DEF Held
<1>17. m + 1 \in 0..MaxMsg /\ free' \in 0..MaxMsg /\ head' \in 0..MaxMsg
    BY <1>2, <1>5, <1>6, <1>8, <1>9
<1>18. slot' \in [Slots -> Message \cup {NULL}]
    BY <1>2, <1>8
<1>19. Queue' = e1
    <2>1. ListOf(next', slot', head') = Held(slot', u1, m + 1)
        BY <1>9, <1>17, ListIs
    <2> QED BY <1>16, <2>1, QueueOf
<1>20. ListsOK'
    <2>1. Lists(next', head', free', slot', m + 1, u1, v1)
        BY <1>9, <1>15, <1>16 DEF Lists
    <2> QED BY <1>8, <1>10, <2>1 DEF ListsOK
<1> QED
    BY <1>4, <1>6, <1>8, <1>9, <1>15, <1>17, <1>18, <1>19, <1>20 DEF m

\* What the second half of mymq_receive() does (mq_receive.c:47-66): it takes the first
\* message of the highest priority there is, and the lists stay laid out.
LEMMA DequeueStep ==
    ASSUME TypeOK, ListsOK, NEW p, Dequeue(p)
    PROVE  /\ curmsgs' \in 0..MaxMsg /\ head' \in 0..MaxMsg /\ free' \in 0..MaxMsg
           /\ next' \in [Slots -> 0..MaxMsg] /\ slot' \in [Slots -> Message \cup {NULL}]
           /\ ListsOK' /\ slot[head] \in Message
           /\ Fifo(Queue, slot[head].prio) # <<>>
           /\ Head(Fifo(Queue, slot[head].prio)) = slot[head].msg
           /\ Fifo(Queue', slot[head].prio) = Tail(Fifo(Queue, slot[head].prio))
           /\ \A q \in Nat : q # slot[head].prio => Fifo(Queue', q) = Fifo(Queue, q)
           /\ \A q \in Nat : q > slot[head].prio => Fifo(Queue, q) = <<>>
<1> DEFINE m == curmsgs
<1>1. PICK u, v : Lists(next, head, free, slot, m, u, v)
    BY DEF ListsOK
<1>2. /\ m \in 0..MaxMsg /\ head \in 0..MaxMsg /\ free \in 0..MaxMsg
      /\ next \in [Slots -> 0..MaxMsg] /\ slot \in [Slots -> Message \cup {NULL}]
    BY DEF TypeOK
<1> DEFINE e == Held(slot, u, m)
           r == MaxMsg - m
           u1 == Rest(u, m)
           v1 == With(v, r, 1, head)
           e1 == Rest(e, m)
<1>3. /\ Layout(next, head, free, m, u, v)
      /\ e \in [1..m -> Message] /\ Sorted(e, m)
    BY <1>1 DEF Lists
<1>4. Queue = e
    <2>1. ListOf(next, slot, head) = e
        BY <1>2, <1>3, ListIs
    <2> QED BY <2>1, QueueOf
<1>5. m \in 1..MaxMsg /\ m \in Nat \ {0} /\ MaxMsg \in Nat /\ 1 \in 1..m
    <2>1. head # 0 /\ head = IF m = 0 THEN 0 ELSE u[1]
        BY <1>3 DEF Dequeue, Layout, Linked
    <2> QED BY <1>2, <2>1, QueueAssumption
<1>6. /\ head' = next[head] /\ free' = head /\ curmsgs' = m - 1
      /\ next' = [next EXCEPT ![head] = free] /\ slot' = [slot EXCEPT ![head] = NULL]
    BY DEF Dequeue, Unlink
<1> HIDE DEF m, e, r
<1>7. /\ head = u[1] /\ head \in Slots /\ next' \in [Slots -> 0..MaxMsg]
      /\ Layout(next', head', free', m - 1, u1, v1)
    <2>1. /\ head = u[1] /\ head \in Slots /\ next' \in [Slots -> 0..MaxMsg]
          /\ Layout(next', next[head], head, m - 1, Rest(u, m), With(v, MaxMsg - m, 1, head))
        <3>1. /\ m \in 1..MaxMsg /\ next \in [Slots -> 0..MaxMsg] /\ free \in 0..MaxMsg
              /\ next' = LinkedOut(next, head, free)
            BY <1>2, <1>5, <1>6 DEF LinkedOut
        <3>2. Layout(next, head, free, m, u, v)
            BY <1>3
        <3> QED BY <3>1, <3>2, UnlinkLayout
    <2> QED BY <1>6, <2>1 DEF r
<1>8. u1 \in [1..(m - 1) -> Slots] /\ v1 \in [1..(MaxMsg - (m - 1)) -> Slots]
    BY <1>7 DEF Layout
<1>9. \A i \in 1..(m - 1) : i + 1 \in 1..m /\ u1[i] = u[i + 1]
    BY <1>5, RestElements
<1>10. \A i \in 1..(m - 1) : i + 1 \in 1..m /\ e1[i] = e[i + 1]
    BY <1>5, RestElements
<1>11. \A i \in 1..m : e[i] = slot[u[i]]
    BY DEF e, Held
<1>12. slot[head] = e[1] /\ slot[head] \in Message
    BY <1>3, <1>5, <1>7, <1>11
<1>13. /\ e1 \in [1..(m - 1) -> Message] /\ Sorted(e1, m - 1)
       /\ Fifo(e, e[1].prio) # <<>> /\ Head(Fifo(e, e[1].prio)) = e[1].msg
       /\ Fifo(e1, e[1].prio) = Tail(Fifo(e, e[1].prio))
       /\ \A q \in Nat : q # e[1].prio => Fifo(e1, q) = Fifo(e, q)
       /\ \A q \in Nat : q > e[1].prio => Fifo(e, q) = <<>>
    BY <1>3, <1>5, RestFifo
<1> HIDE DEF u1, v1, e1
<1>14. Held(slot', u1, m - 1) = e1
    <2>1. ASSUME NEW i \in 1..(m - 1) PROVE slot'[u1[i]] = e1[i]
        <3>1. i + 1 \in 1..m /\ i + 1 # 1 /\ u1[i] = u[i + 1] /\ e1[i] = e[i + 1]
            BY <1>5, <1>9, <1>10
        <3>2. u[i + 1] # u[1] /\ u[i + 1] \in Slots
            BY <1>3, <1>5, <3>1 DEF Layout, Distinct
        <3>3. slot'[u[i + 1]] = slot[u[i + 1]]
            BY <1>2, <1>6, <1>7, <3>2
        <3> QED BY <1>11, <3>1, <3>3
    <2>2. e1 = [i \in 1..(m - 1) |-> e1[i]]
        BY <1>13
    <2> QED BY <2>1, <2>2 DEF Held
<1>15. m - 1 \in 0..MaxMsg /\ free' \in 0..MaxMsg /\ head' \in 0..MaxMsg
    BY <1>2, <1>5, <1>6, <1>7
<1>16. slot' \in [Slots -> Message \cup {NULL}]
    BY <1>2, <1>6
<1>17. Queue' = e1
    <2>1. ListOf(next', slot', head') = Held(slot', u1, m - 1)
        BY <1>7, <1>15, ListIs
    <2> QED BY <1>14, <2>1, QueueOf
<1>18. ListsOK'
    <2>1. Lists(next', head', free', slot', m - 1, u1, v1)
        BY <1>7, <1>13, <1>14 DEF Lists
    <2> QED BY <1>6, <1>8, <2>1 DEF ListsOK
<1> QED
    BY <1>4, <1>6, <1>7, <1>12, <1>13, <1>15, <1>16, <1>17, <1>18

\* The FIFOs of the abstract queue, what is in them, and how full it is.
LEMMA QueueBound ==
    ASSUME TypeOK, ListsOK
    PROVE  /\ Cardinality(Abstract!Waiting) \in Nat /\ Cardinality(Abstract!Waiting) <= curmsgs
           /\ curmsgs = 0 => \A q \in Nat : Fifo(Queue, q) = <<>>
<1>1. PICK u, v : Lists(next, head, free, slot, curmsgs, u, v)
    BY DEF ListsOK
<1> DEFINE m == curmsgs
           e == Held(slot, u, m)
<1>2. Layout(next, head, free, m, u, v) /\ e \in [1..m -> Message] /\ Sorted(e, m)
    BY <1>1 DEF Lists
<1>3. m \in 0..MaxMsg /\ m \in Nat
    BY QueueAssumption DEF TypeOK
<1>4. Queue = e
    <2>1. ListOf(next, slot, head) = e
        BY <1>2, <1>3, ListIs
    <2> QED BY <2>1, QueueOf
<1> HIDE DEF m, e
<1>5. Cardinality(Abstract!Waiting) \in Nat /\ Cardinality(Abstract!Waiting) <= m
    <2>1. LET f == [q \in Priorities |-> Fifo(e, q)]
              W == {w \in Priorities \X (1..MaxMsg) : w[2] <= Len(f[w[1]])}
          IN  Cardinality(W) \in Nat /\ Cardinality(W) <= m
        BY <1>2, <1>3, WaitingBound
    <2> QED BY <1>4, <2>1 DEF Abstract!Waiting
<1>6. ASSUME m = 0, NEW q \in Nat PROVE Fifo(e, q) = <<>>
    <2>1. Span(e, m, q, 0, 0)
        BY <1>3, <1>6 DEF Span
    <2>2. Reads(e, m, Fifo(e, q), 0, 0)
        BY <1>2, <1>3, <2>1, SpanFifo
    <2> QED BY <2>2 DEF Reads
<1> QED
    BY <1>4, <1>5, <1>6 DEF m

\* The two lists are disjoint and as long together as there are slots.
LEMMA ListsCover == TypeOK /\ ListsOK => ListsPartition
<1> SUFFICES ASSUME TypeOK, ListsOK PROVE ListsPartition
    OBVIOUS
<1> DEFINE m == curmsgs
           r == MaxMsg - m
<1>1. PICK u, v : Lists(next, head, free, slot, m, u, v)
    BY DEF ListsOK
<1>2. m \in 0..MaxMsg /\ m \in Nat /\ r \in Nat /\ MaxMsg \in Nat /\ m + r = MaxMsg
    BY QueueAssumption DEF TypeOK
<1>3. Layout(next, head, free, m, u, v)
    BY <1>1 DEF Lists
<1>4. Chain(head) = u /\ Chain(free) = v
    BY <1>2, <1>3, ListIs DEF Chain
<1> HIDE DEF m, r
<1>5. /\ u \in [1..m -> Slots] /\ v \in [1..r -> Slots]
      /\ Distinct(u, m) /\ Distinct(v, r) /\ \A i \in 1..m, j \in 1..r : u[i] # v[j]
    BY <1>3 DEF Layout, r
<1> DEFINE both == u \o v
<1>6. u \in Seq(Slots) /\ v \in Seq(Slots) /\ Len(u) = m /\ Len(v) = r
    BY <1>2, <1>5
<1>7. /\ both \in Seq(Slots) /\ Len(both) = MaxMsg
      /\ \A i \in 1..MaxMsg : both[i] = IF i <= m THEN u[i] ELSE v[i - m]
    <2>1. Len(both) = MaxMsg /\ both \in Seq(Slots)
        BY <1>2, <1>6
    <2>2. \A i \in 1..(m + r) : both[i] = IF i <= m THEN u[i] ELSE v[i - m]
        BY <1>6
    <2> QED BY <1>2, <2>1, <2>2
<1> HIDE DEF both
<1>8. both \in [1..MaxMsg -> Slots] /\ DOMAIN both = 1..MaxMsg
    BY <1>7
<1>9. \A i, j \in 1..MaxMsg : both[i] = both[j] => i = j
    <2> SUFFICES ASSUME NEW i \in 1..MaxMsg, NEW j \in 1..MaxMsg, both[i] = both[j] PROVE i = j
        OBVIOUS
    <2>1. \A k \in 1..MaxMsg : (k <= m /\ k \in 1..m) \/ (~(k <= m) /\ k - m \in 1..r)
        BY <1>2
    <2>2. i - m = j - m => i = j
        BY <1>2
    <2> QED BY <1>5, <1>7, <2>1, <2>2 DEF Distinct
<1>10. both \in Injection(1..MaxMsg, Slots)
    BY <1>8, <1>9, Fun_IsInj
<1>11. IsFiniteSet(Slots) /\ Cardinality(1..MaxMsg) = Cardinality(Slots)
    BY <1>2, FS_Interval DEF Slots
<1>12. both \in Surjection(1..MaxMsg, Slots)
    BY <1>10, <1>11, FS_Injection
<1>13. \A s \in Slots : \E k \in 1..MaxMsg : both[k] = s
    BY <1>12 DEF Surjection
<1>14. {both[k] : k \in DOMAIN both} = Slots
    BY <1>8, <1>13
<1> QED
    BY <1>4, <1>6, <1>7, <1>14 DEF ListsPartition, both, m

States == {"idle", "sndsleep", "sndwoken", "rcvsleep", "rcvwoken", "closed", "dead", "deadrcv"}
Sends(s) == s \in {"sndsleep", "sndwoken"}
Receives(s) == s \in {"rcvsleep", "rcvwoken", "deadrcv"}

\* Process p is done with its call, and no other has begun or left one.
Returns(p) ==
    /\ st' \in [Procs -> States]
    /\ \A q \in Procs : /\ Sends(st'[q]) <=> q # p /\ Sends(st[q])
                        /\ Receives(st'[q]) <=> q # p /\ Receives(st[q])

\* The types of what belongs to a process or to the registration, and the message that a
\* blocked sender holds.
Processes ==
    /\ pid \in Procs \cup {NULL} /\ signalled \subseteq Procs
    /\ st \in [Procs -> States]
    /\ arg \in [Procs -> Message \cup {NULL}] /\ nonblock \in [Procs -> BOOLEAN]
    /\ got \in [Procs -> Message \cup {NULL}] /\ sends \in 0..MaxSends
    /\ SendersHold

\* mymq_send() and mymq_receive() return, with or without a signal (mq_send.c:82-88,
\* mq_receive.c:62-66): a signal wakes a sleeper, it ends no call.
LEMMA SignalReturns ==
    ASSUME st \in [Procs -> States], NEW p \in Procs,
           Signal([st EXCEPT ![p] = "idle"]) \/ st' = [st EXCEPT ![p] = "idle"]
    PROVE  Returns(p)
<1> DEFINE f == [st EXCEPT ![p] = "idle"]
<1>1. /\ f \in [Procs -> States]
      /\ \A q \in Procs : /\ Sends(f[q]) <=> q # p /\ Sends(st[q])
                          /\ Receives(f[q]) <=> q # p /\ Receives(st[q])
    BY DEF States, Sends, Receives
<1> HIDE DEF f
<1>2. CASE st' = f
    BY <1>1, <1>2 DEF Returns
<1>3. CASE Signal(f)
    <2>1. CASE \E q \in Procs : f[q] \in {"sndsleep", "rcvsleep"} /\ st' = [f EXCEPT ![q] = Woken(f[q])]
        <3>1. PICK q \in Procs : f[q] \in {"sndsleep", "rcvsleep"} /\ st' = [f EXCEPT ![q] = Woken(f[q])]
            BY <2>1
        <3>2. /\ Woken(f[q]) \in States
              /\ Sends(Woken(f[q])) <=> Sends(f[q])
              /\ Receives(Woken(f[q])) <=> Receives(f[q])
            BY <3>1 DEF Woken, States, Sends, Receives
        <3>3. st' \in [Procs -> States]
            BY <1>1, <3>1, <3>2
        <3>4. \A x \in Procs : (Sends(st'[x]) <=> Sends(f[x])) /\ (Receives(st'[x]) <=> Receives(f[x]))
            BY <1>1, <3>1, <3>2
        <3> QED BY <1>1, <3>3, <3>4 DEF Returns
    <2>2. CASE st' = f
        BY <1>2, <2>2
    <2> QED BY <1>3, <2>1, <2>2 DEF Signal
<1> QED
    BY <1>2, <1>3 DEF f

\* The two functions return through these steps only.
LEMMA CallReturns ==
    ASSUME st \in [Procs -> States], NEW p \in Procs
    PROVE  /\ \A n : Enqueue(p, n) => Returns(p) /\ arg' = [arg EXCEPT ![p] = NULL]
           /\ Dequeue(p) => Returns(p) /\ got' = [got EXCEPT ![p] = slot[head]]
<1>1. ASSUME NEW n, Enqueue(p, n) PROVE Returns(p) /\ arg' = [arg EXCEPT ![p] = NULL]
    BY <1>1, SignalReturns DEF Enqueue
<1>2. ASSUME Dequeue(p) PROVE Returns(p) /\ got' = [got EXCEPT ![p] = slot[head]]
    BY <1>2, SignalReturns DEF Dequeue, RoomSignal
<1> QED
    BY <1>1, <1>2

\* Where a step puts a message in or takes one out, and that no other step touches the lists.
LEMMA QueueSteps ==
    ASSUME Processes, [Next]_vars
    PROVE  \/ \E p \in Procs, n \in Message : Enqueue(p, n) /\ UNCHANGED got
           \/ \E p \in Procs : Dequeue(p)
           \/ UNCHANGED <<queueVars, got>>
<1>1. ASSUME NEW p \in Procs, NEW prio \in Priorities, mq_send(p, prio)
      PROVE  (\E n \in Message : Enqueue(p, n) /\ UNCHANGED got) \/ UNCHANGED <<queueVars, got>>
    <2> DEFINE n == [prio |-> prio, msg |-> sends + 1]
    <2>1. n \in Message
        BY <1>1, QueueAssumption DEF mq_send, Processes, Message, Messages
    <2>2. (Enqueue(p, n) /\ UNCHANGED got) \/ UNCHANGED <<queueVars, got>>
        BY <1>1 DEF mq_send
    <2> HIDE DEF n
    <2> QED BY <2>1, <2>2
<1>2. ASSUME NEW p \in Procs, mq_receive(p)
      PROVE  Dequeue(p) \/ UNCHANGED <<queueVars, got>>
    BY <1>2 DEF mq_receive
<1>3. ASSUME NEW p \in Procs, mq_send_wakes(p)
      PROVE  (\E n \in Message : Enqueue(p, n) /\ UNCHANGED got) \/ UNCHANGED <<queueVars, got>>
    <2>1. arg[p] \in Message
        BY <1>3 DEF mq_send_wakes, Processes, SendersHold
    <2>2. (Enqueue(p, arg[p]) /\ UNCHANGED got) \/ UNCHANGED <<queueVars, got>>
        BY <1>3 DEF mq_send_wakes
    <2> QED BY <2>1, <2>2
<1>4. ASSUME NEW p \in Procs, mq_receive_wakes(p)
      PROVE  Dequeue(p) \/ UNCHANGED <<queueVars, got>>
    BY <1>4 DEF mq_receive_wakes
<1>5. ASSUME NEW p \in Procs, \/ SpuriousWakeup(p) \/ mq_notify(p) \/ mq_notify_null(p)
                              \/ mq_setattr(p) \/ mq_close(p) \/ Dies(p)
      PROVE  UNCHANGED <<queueVars, got>>
    BY <1>5 DEF SpuriousWakeup, mq_notify, mq_notify_null, mq_setattr, mq_close, Dies
<1>6. CASE UNCHANGED vars
    BY <1>6 DEF vars, queueVars
<1>7. CASE \E p \in Procs : \E prio \in Priorities : mq_send(p, prio)
    BY <1>1, <1>7
<1>8. CASE \E p \in Procs : \/ mq_receive(p) \/ Wakes(p) \/ SpuriousWakeup(p) \/ mq_notify(p)
                            \/ mq_notify_null(p) \/ mq_setattr(p) \/ mq_close(p) \/ Dies(p)
    BY <1>2, <1>3, <1>4, <1>5, <1>8 DEF Wakes
<1> QED
    BY <1>6, <1>7, <1>8 DEF Next

\* A blocked sender keeps its message, and the types of the processes' variables.
LEMMA ProcessesStep ==
    ASSUME Processes, [Next]_vars, \A p \in Procs : Dequeue(p) => slot[head] \in Message
    PROVE  Processes'
<1>1. st \in [Procs -> States]
    BY DEF Processes
<1> USE QueueAssumption
<1>2. ASSUME NEW p \in Procs, NEW prio \in Priorities, mq_send(p, prio)
      PROVE  Processes'
    <2> DEFINE n == [prio |-> prio, msg |-> sends + 1]
    <2>1. n \in Message /\ sends' \in 0..MaxSends
        BY <1>2 DEF mq_send, Processes, Message, Messages
    <2>2. pid' \in Procs \cup {NULL} /\ signalled' \subseteq Procs
        BY <1>2 DEF mq_send, Processes, Notify
    <2>3. CASE Enqueue(p, n)
        <3>1. Returns(p) /\ arg' = [arg EXCEPT ![p] = NULL]
            BY <1>1, <2>3, CallReturns
        <3> HIDE DEF n
        <3>2. UNCHANGED <<nonblock, got>>
            BY <1>2 DEF mq_send
        <3> QED BY <2>1, <2>2, <3>1, <3>2 DEF Processes, SendersHold, Returns, Sends
    <2>4. CASE st' = [st EXCEPT ![p] = "sndsleep"] /\ arg' = [arg EXCEPT ![p] = n]
        <3> HIDE DEF n
        <3>1. UNCHANGED <<nonblock, got>>
            BY <1>2 DEF mq_send
        <3> QED BY <2>1, <2>2, <2>4, <3>1 DEF Processes, SendersHold, States
    <2> QED BY <1>2, <2>3, <2>4 DEF mq_send
<1>3. ASSUME NEW p \in Procs, mq_receive(p) PROVE Processes'
    <2>1. CASE Dequeue(p)
        <3>1. Returns(p) /\ got' = [got EXCEPT ![p] = slot[head]] /\ slot[head] \in Message
            BY <1>1, <2>1, CallReturns
        <3>2. UNCHANGED <<nonblock, arg, sends, pid, signalled>>
            BY <1>3 DEF mq_receive
        <3> QED BY <3>1, <3>2 DEF Processes, SendersHold, Returns, Sends
    <2>2. CASE st' = [st EXCEPT ![p] = "rcvsleep"] /\ UNCHANGED got
        BY <1>3, <2>2 DEF mq_receive, Processes, SendersHold, States
    <2> QED BY <1>3, <2>1, <2>2 DEF mq_receive
<1>4. ASSUME NEW p \in Procs, mq_send_wakes(p) PROVE Processes'
    <2>1. CASE Enqueue(p, arg[p])
        <3>1. Returns(p) /\ arg' = [arg EXCEPT ![p] = NULL]
            BY <1>1, <2>1, CallReturns
        <3>2. UNCHANGED <<nonblock, got, sends, pid, signalled>>
            BY <1>4 DEF mq_send_wakes
        <3> QED BY <3>1, <3>2 DEF Processes, SendersHold, Returns, Sends
    <2>2. CASE st' = [st EXCEPT ![p] = "sndsleep"] /\ UNCHANGED arg
        BY <1>4, <2>2 DEF mq_send_wakes, Processes, SendersHold, States
    <2> QED BY <1>4, <2>1, <2>2 DEF mq_send_wakes
<1>5. ASSUME NEW p \in Procs, mq_receive_wakes(p) PROVE Processes'
    <2>1. CASE Dequeue(p)
        <3>1. Returns(p) /\ got' = [got EXCEPT ![p] = slot[head]] /\ slot[head] \in Message
            BY <1>1, <2>1, CallReturns
        <3>2. UNCHANGED <<nonblock, arg, sends, pid, signalled>>
            BY <1>5 DEF mq_receive_wakes
        <3> QED BY <3>1, <3>2 DEF Processes, SendersHold, Returns, Sends
    <2>2. CASE st' = [st EXCEPT ![p] = "rcvsleep"] /\ UNCHANGED got
        BY <1>5, <2>2 DEF mq_receive_wakes, Processes, SendersHold, States
    <2> QED BY <1>5, <2>1, <2>2 DEF mq_receive_wakes
<1>6. ASSUME NEW p \in Procs, SpuriousWakeup(p) PROVE Processes'
    BY <1>6 DEF SpuriousWakeup, Woken, Processes, SendersHold, States
<1>7. ASSUME NEW p \in Procs, mq_notify(p) \/ mq_notify_null(p) PROVE Processes'
    BY <1>7 DEF mq_notify, mq_notify_null, Unregistered, Processes, SendersHold
<1>8. ASSUME NEW p \in Procs, mq_setattr(p) PROVE Processes'
    BY <1>8 DEF mq_setattr, Processes, SendersHold
<1>9. ASSUME NEW p \in Procs, mq_close(p) \/ Dies(p) PROVE Processes'
    BY <1>9 DEF mq_close, Dies, Unregistered, Processes, SendersHold, States
<1>10. CASE UNCHANGED vars
    BY <1>10 DEF vars, Processes, SendersHold
<1> QED
    BY <1>2, <1>3, <1>4, <1>5, <1>6, <1>7, <1>8, <1>9, <1>10 DEF Next, Wakes

\* mqh_nwait counts the processes that wait in mymq_receive(), and those that died there
\* (mq_receive.c:40-43).
LEMMA WaitersStep ==
    ASSUME st \in [Procs -> States], WaitersCounted, [Next]_vars
    PROVE  WaitersCounted'
<1>1. IsFiniteSet(Receiving) /\ Cardinality(Receiving) \in Nat
    BY QueueAssumption, FS_Subset, FS_CardinalityType DEF Receiving
<1>2. ASSUME Receiving' = Receiving, nwait' = nwait PROVE WaitersCounted'
    BY <1>2 DEF WaitersCounted
<1>3. \A q : q \in Receiving <=> q \in Procs /\ Receives(st[q])
    BY DEF Receiving, Receives
<1>4. \A q : q \in Receiving' <=> q \in Procs /\ Receives(st'[q])
    BY DEF Receiving, Receives
<1>5. ASSUME NEW p \in Procs, Returns(p), ~Receives(st[p]) PROVE Receiving' = Receiving
    BY <1>3, <1>4, <1>5 DEF Returns
<1>6. ASSUME NEW p \in Procs, NEW s, st' = [st EXCEPT ![p] = s], Receives(s) <=> Receives(st[p])
      PROVE  Receiving' = Receiving
    BY <1>3, <1>4, <1>6
<1>7. ASSUME NEW p \in Procs, NEW prio \in Priorities, mq_send(p, prio) PROVE WaitersCounted'
    <2>1. ~Receives(st[p]) /\ nwait' = nwait
        BY <1>7 DEF mq_send, Receives
    <2>2. CASE Enqueue(p, [prio |-> prio, msg |-> sends + 1])
        <3>1. Returns(p)
            BY <2>2, CallReturns
        <3> QED BY <1>2, <1>5, <2>1, <3>1
    <2>3. CASE st' = [st EXCEPT ![p] = "sndsleep"]
        <3>1. ~Receives("sndsleep")
            BY DEF Receives
        <3> QED BY <1>2, <1>6, <2>1, <2>3, <3>1
    <2> QED BY <1>7, <2>2, <2>3 DEF mq_send
<1>8. ASSUME NEW p \in Procs, mq_receive(p) PROVE WaitersCounted'
    <2>1. ~Receives(st[p])
        BY <1>8 DEF mq_receive, Receives
    <2>2. CASE Dequeue(p) /\ nwait' = nwait
        <3>1. Returns(p)
            BY <2>2, CallReturns
        <3> QED BY <1>2, <1>5, <2>1, <2>2, <3>1
    <2>3. CASE st' = [st EXCEPT ![p] = "rcvsleep"] /\ nwait' = nwait + 1
        <3>1. Receiving' = Receiving \cup {p} /\ p \notin Receiving
            BY <1>3, <1>4, <2>1, <2>3 DEF Receives
        <3>2. Cardinality(Receiving \cup {p}) = Cardinality(Receiving) + 1
            BY <1>1, <3>1, FS_AddElement
        <3> QED BY <2>3, <3>1, <3>2 DEF WaitersCounted
    <2> QED BY <1>8, <2>2, <2>3 DEF mq_receive
<1>9. ASSUME NEW p \in Procs, mq_send_wakes(p) PROVE WaitersCounted'
    <2>1. ~Receives(st[p]) /\ nwait' = nwait
        BY <1>9 DEF mq_send_wakes, Receives
    <2>2. CASE Enqueue(p, arg[p])
        <3>1. Returns(p)
            BY <2>2, CallReturns
        <3> QED BY <1>2, <1>5, <2>1, <3>1
    <2>3. CASE st' = [st EXCEPT ![p] = "sndsleep"]
        <3>1. ~Receives("sndsleep")
            BY DEF Receives
        <3> QED BY <1>2, <1>6, <2>1, <2>3, <3>1
    <2> QED BY <1>9, <2>2, <2>3 DEF mq_send_wakes
<1>10. ASSUME NEW p \in Procs, mq_receive_wakes(p) PROVE WaitersCounted'
    <2>1. Receives(st[p])
        BY <1>10 DEF mq_receive_wakes, Receives
    <2>2. CASE Dequeue(p) /\ nwait' = nwait - 1
        <3>1. Returns(p)
            BY <2>2, CallReturns
        <3>2. Receiving' = Receiving \ {p} /\ p \in Receiving
            BY <1>3, <1>4, <2>1, <3>1 DEF Returns
        <3>3. Cardinality(Receiving \ {p}) = Cardinality(Receiving) - 1
            BY <1>1, <3>2, FS_RemoveElement
        <3> QED BY <2>2, <3>2, <3>3 DEF WaitersCounted
    <2>3. CASE st' = [st EXCEPT ![p] = "rcvsleep"] /\ nwait' = nwait
        <3>1. Receives("rcvsleep")
            BY DEF Receives
        <3> QED BY <1>2, <1>6, <2>1, <2>3, <3>1
    <2> QED BY <1>10, <2>2, <2>3 DEF mq_receive_wakes
<1>11. ASSUME NEW p \in Procs, SpuriousWakeup(p) PROVE WaitersCounted'
    <2>1. st' = [st EXCEPT ![p] = Woken(st[p])] /\ nwait' = nwait
        BY <1>11 DEF SpuriousWakeup
    <2>2. Receives(Woken(st[p])) <=> Receives(st[p])
        BY <1>11 DEF SpuriousWakeup, Woken, Receives
    <2> QED BY <1>2, <1>6, <2>1, <2>2
<1>12. ASSUME NEW p \in Procs, mq_notify(p) \/ mq_notify_null(p) \/ mq_setattr(p) PROVE WaitersCounted'
    BY <1>12 DEF mq_notify, mq_notify_null, mq_setattr, WaitersCounted, Receiving
<1>13. ASSUME NEW p \in Procs, mq_close(p) PROVE WaitersCounted'
    <2>1. st' = [st EXCEPT ![p] = "closed"] /\ nwait' = nwait
        BY <1>13 DEF mq_close
    <2>2. Receives("closed") <=> Receives(st[p])
        BY <1>13 DEF mq_close, Receives
    <2> QED BY <1>2, <1>6, <2>1, <2>2
<1>14. ASSUME NEW p \in Procs, Dies(p) PROVE WaitersCounted'
    <2> DEFINE s == IF st[p] \in {"rcvsleep", "rcvwoken"} THEN "deadrcv" ELSE "dead"
    <2>1. st' = [st EXCEPT ![p] = s] /\ nwait' = nwait
        BY <1>14 DEF Dies
    <2>2. Receives(s) <=> Receives(st[p])
        BY <1>14 DEF Dies, Alive, Receives
    <2> HIDE DEF s
    <2> QED BY <1>2, <1>6, <2>1, <2>2
<1>15. CASE UNCHANGED vars
    BY <1>15 DEF vars, WaitersCounted, Receiving
<1> QED
    BY <1>7, <1>8, <1>9, <1>10, <1>11, <1>12, <1>13, <1>14, <1>15 DEF Next, Wakes

\* mymq_open() makes one list of free slots (mq_open.c:88-99), and nobody waits.
LEMMA InitInv == Init => IndInv
<1> SUFFICES ASSUME Init PROVE IndInv
    OBVIOUS
<1> USE QueueAssumption
<1>1. TypeOK
    <2>1. /\ head \in 0..MaxMsg /\ free \in 0..MaxMsg /\ next \in [Slots -> 0..MaxMsg]
          /\ slot \in [Slots -> Message \cup {NULL}] /\ curmsgs \in 0..MaxMsg
        BY DEF Init, Slots
    <2>2. nwait \in 0..Cardinality(Procs)
        BY FS_CardinalityType DEF Init
    <2>3. senders \subseteq Procs /\ receivers \subseteq Procs
        BY DEF Init
    <2> QED BY <2>1, <2>2, <2>3 DEF Init, TypeOK
<1>2. ListsOK
    <2> DEFINE u == [k \in 1..0 |-> 1]
               v == [k \in 1..MaxMsg |-> k]
               e == Held(slot, u, 0)
    <2>1. 1..0 = {} /\ MaxMsg - 0 = MaxMsg /\ MaxMsg \in Nat \ {0} /\ curmsgs = 0 /\ 1 \in 1..MaxMsg
        BY DEF Init
    <2>2. u \in [1..0 -> Slots] /\ v \in [1..(MaxMsg - 0) -> Slots]
        BY <2>1 DEF Slots
    <2>3. Linked(next, 0, u, head)
        BY <2>1 DEF Init, Linked
    <2>4. Linked(next, MaxMsg, v, free)
        <3>1. free = v[1]
            BY <2>1 DEF Init
        <3>2. ASSUME NEW k \in 1..MaxMsg PROVE next[v[k]] = IF k < MaxMsg THEN v[k + 1] ELSE 0
            <4>1. v[k] = k /\ next[k] = IF k < MaxMsg THEN k + 1 ELSE 0
                BY DEF Init, Slots
            <4>2. k < MaxMsg => k + 1 \in 1..MaxMsg
                BY <2>1
            <4> QED BY <4>1, <4>2
        <3> HIDE DEF v
        <3> QED BY <2>1, <3>1, <3>2 DEF Linked
    <2>5. Distinct(u, 0) /\ Distinct(v, MaxMsg) /\ \A i \in 1..0, j \in 1..MaxMsg : u[i] # v[j]
        BY <2>1 DEF Distinct
    <2>6. e \in [1..0 -> Message] /\ Sorted(e, 0)
        BY <2>1 DEF Held, Sorted
    <2> HIDE DEF u, v, e
    <2>7. Lists(next, head, free, slot, 0, u, v)
        BY <2>1, <2>2, <2>3, <2>4, <2>5, <2>6 DEF Lists, Layout, e
    <2> QED BY <2>1, <2>2, <2>7 DEF ListsOK
<1>3. SendersHold /\ sends \in 0..MaxSends
    BY DEF Init, SendersHold
<1>4. WaitersCounted
    <2>1. Receiving = {}
        BY DEF Init, Receiving
    <2> QED BY <2>1, FS_EmptySet DEF Init, WaitersCounted
<1> QED
    BY <1>1, <1>2, <1>3, <1>4 DEF IndInv

\* What the invariant says of the processes.
LEMMA InvProcesses == IndInv => Processes
BY DEF IndInv, TypeOK, Processes, States

\* The lists, their types and what they hold, in one step of any process.
LEMMA ListsStep ==
    ASSUME TypeOK, ListsOK, Processes, [Next]_vars
    PROVE  /\ curmsgs' \in 0..MaxMsg /\ head' \in 0..MaxMsg /\ free' \in 0..MaxMsg
           /\ next' \in [Slots -> 0..MaxMsg] /\ slot' \in [Slots -> Message \cup {NULL}]
           /\ ListsOK'
<1>1. CASE \E p \in Procs, n \in Message : Enqueue(p, n) /\ UNCHANGED got
    BY <1>1, EnqueueStep
<1>2. CASE \E p \in Procs : Dequeue(p)
    BY <1>2, DequeueStep
<1>3. CASE UNCHANGED <<queueVars, got>>
    BY <1>3 DEF TypeOK, ListsOK, queueVars
<1> QED
    BY <1>1, <1>2, <1>3, QueueSteps

\* Every step keeps the invariant.
LEMMA InvStep == IndInv /\ [Next]_vars => IndInv'
<1> SUFFICES ASSUME IndInv, [Next]_vars PROVE IndInv'
    OBVIOUS
<1>1. TypeOK /\ ListsOK /\ Processes /\ WaitersCounted /\ st \in [Procs -> States]
    BY InvProcesses DEF IndInv, Processes
<1>2. /\ curmsgs' \in 0..MaxMsg /\ head' \in 0..MaxMsg /\ free' \in 0..MaxMsg
      /\ next' \in [Slots -> 0..MaxMsg] /\ slot' \in [Slots -> Message \cup {NULL}]
      /\ ListsOK'
    BY <1>1, ListsStep
<1>3. \A p \in Procs : Dequeue(p) => slot[head] \in Message
    BY <1>1, DequeueStep
<1>4. Processes'
    BY <1>1, <1>3, ProcessesStep
<1>5. WaitersCounted'
    BY <1>1, WaitersStep
<1>6. nwait' \in 0..Cardinality(Procs)
    <2>1. Receiving' \subseteq Procs
        BY DEF Receiving
    <2>2. Cardinality(Receiving') \in Nat /\ Cardinality(Receiving') <= Cardinality(Procs)
          /\ Cardinality(Procs) \in Nat
        BY <2>1, QueueAssumption, FS_Subset, FS_CardinalityType
    <2> QED BY <1>5, <2>2 DEF WaitersCounted
<1>7. senders' = senders /\ receivers' = receivers
    BY DEF Next, vars, mq_send, mq_receive, Wakes, mq_send_wakes, mq_receive_wakes, SpuriousWakeup,
           mq_notify, mq_notify_null, mq_setattr, mq_close, Dies
<1>8. TypeOK'
    BY <1>1, <1>2, <1>4, <1>6, <1>7 DEF TypeOK, Processes, States
<1> QED
    BY <1>2, <1>4, <1>5, <1>8 DEF IndInv, Processes

\* The lists are laid out, sorted and shared out after any number of calls.
THEOREM Invariance == Spec => []IndInv
BY InitInv, InvStep, PTL DEF Spec

\* The types of the shared file and of the processes.
THEOREM TypeCorrect == Spec => []TypeOK
<1>1. IndInv => TypeOK
    BY DEF IndInv
<1> QED BY <1>1, Invariance, PTL

\* No slot is lost or in both lists, and mq_curmsgs counts one of them: the two err_dump()
\* calls (mq_send.c:57, mq_receive.c:49) are never reached.
THEOREM SlotsPartitioned == Spec => []ListsPartition
<1>1. IndInv => ListsPartition
    BY ListsCover DEF IndInv
<1> QED BY <1>1, Invariance, PTL

\* Nobody waits, and the message comes from a sender that did not have to wait: the
\* registered process is signalled (mq_send.c:34-42).
THEOREM ArrivalSignalled == Spec => ArrivalNotifies
<1> DEFINE A == curmsgs = 0 /\ curmsgs' = 1 /\ pid # NULL
                  /\ In("rcvsleep") \cup In("rcvwoken") \cup In("deadrcv") = {}
                  /\ sends' # sends
                => pid' = NULL /\ pid \in signalled'
<1>1. IndInv /\ [Next]_vars => [A]_vars
    <2> SUFFICES ASSUME IndInv, [Next]_vars, curmsgs = 0, curmsgs' = 1, pid # NULL,
                        In("rcvsleep") \cup In("rcvwoken") \cup In("deadrcv") = {},
                        sends' # sends
                 PROVE  pid' = NULL /\ pid \in signalled'
        OBVIOUS
    <2>1. Receiving = {}
        BY DEF In, Receiving
    <2>2. nwait = 0
        BY <2>1, FS_EmptySet DEF IndInv, WaitersCounted
    <2>3. PICK p \in Procs, prio \in Priorities : mq_send(p, prio)
        BY DEF Next, vars, mq_receive, Wakes, mq_send_wakes, mq_receive_wakes, SpuriousWakeup,
               mq_notify, mq_notify_null, mq_setattr, mq_close, Dies
    <2>4. Notify
        BY <2>3 DEF mq_send, queueVars
    <2> QED BY <2>2, <2>4 DEF Notify
<1> QED
    BY <1>1, Invariance, PTL DEF Spec, ArrivalNotifies

\* A message that is linked in is sent, in PrioQueue.
LEMMA EnqueueSends ==
    ASSUME IndInv, NEW p, NEW n \in Message, Enqueue(p, n), UNCHANGED got
    PROVE  Abstract!Send(n.prio, n.msg)
<1> DEFINE F == [q \in Priorities |-> Fifo(Queue, q)]
           F1 == [q \in Priorities |-> Fifo(Queue', q)]
<1>1. /\ curmsgs < MaxMsg /\ Fifo(Queue', n.prio) = Append(Fifo(Queue, n.prio), n.msg)
      /\ \A q \in Nat : q # n.prio => Fifo(Queue', q) = Fifo(Queue, q)
    BY EnqueueStep DEF IndInv
<1>2. n.prio \in Priorities /\ Priorities \subseteq Nat
    BY MessageParts, QueueAssumption
<1>3. Cardinality(Abstract!Waiting) < MaxMsg
    <2>1. Cardinality(Abstract!Waiting) \in Nat /\ Cardinality(Abstract!Waiting) <= curmsgs
        BY QueueBound DEF IndInv
    <2>2. curmsgs \in Nat /\ MaxMsg \in Nat
        BY QueueAssumption DEF IndInv, TypeOK
    <2> QED BY <1>1, <2>1, <2>2
<1>4. F1 = [F EXCEPT ![n.prio] = Append(@, n.msg)]
    <2>1. \A q \in Priorities : F1[q] = IF q = n.prio THEN Append(F[q], n.msg) ELSE F[q]
        BY <1>1, <1>2
    <2> QED BY <1>2, <2>1
<1>5. Abstract!Cardinality(Abstract!Waiting) = Cardinality(Abstract!Waiting)
    BY Zenon DEF Abstract!Cardinality, Cardinality
<1> QED
    BY <1>3, <1>4, <1>5 DEF Abstract!Send

\* A message that leaves the list is received, in PrioQueue.
LEMMA DequeueReceives ==
    ASSUME IndInv, NEW p \in Procs, Dequeue(p)
    PROVE  Abstract!Receive(p, slot[head].prio) /\ slot[head].prio \in Priorities
<1> DEFINE x == slot[head]
           F == [q \in Priorities |-> Fifo(Queue, q)]
           F1 == [q \in Priorities |-> Fifo(Queue', q)]
<1>1. /\ x \in Message /\ Fifo(Queue, x.prio) # <<>> /\ Head(Fifo(Queue, x.prio)) = x.msg
      /\ Fifo(Queue', x.prio) = Tail(Fifo(Queue, x.prio))
      /\ \A q \in Nat : q # x.prio => Fifo(Queue', q) = Fifo(Queue, q)
      /\ \A q \in Nat : q > x.prio => Fifo(Queue, q) = <<>>
    BY DequeueStep DEF IndInv
<1>2. got' = [got EXCEPT ![p] = x]
    BY DEF Dequeue
<1> HIDE DEF x
<1>3. x.prio \in Priorities /\ Priorities \subseteq Nat /\ x = [prio |-> x.prio, msg |-> x.msg]
    BY <1>1, MessageParts, QueueAssumption
<1>4. F[x.prio] # <<>> /\ \A q \in Priorities : q > x.prio => F[q] = <<>>
    BY <1>1, <1>3
<1>5. got' = [got EXCEPT ![p] = [prio |-> x.prio, msg |-> Head(F[x.prio])]]
    <2>1. Head(F[x.prio]) = x.msg
        BY <1>1, <1>3
    <2> QED BY <1>2, <1>3, <2>1
<1>6. F1 = [F EXCEPT ![x.prio] = Tail(@)]
    <2>1. \A q \in Priorities : F1[q] = IF q = x.prio THEN Tail(F[q]) ELSE F[q]
        BY <1>1, <1>3
    <2> QED BY <1>3, <2>1
<1> HIDE DEF F, F1
<1>7. Abstract!Receive(p, x.prio)
    BY <1>4, <1>5, <1>6 DEF Abstract!Receive, F, F1
<1> QED
    BY <1>3, <1>7 DEF x

\* The lists in the mapped file behave as one bounded FIFO for each priority, and
\* mymq_receive() takes from the highest that is not empty.
THEOREM QueueImplemented == Spec => RefinesQueue
<1> DEFINE F == [q \in Priorities |-> Fifo(Queue, q)]
<1>1. Init => Abstract!Init
    <2> SUFFICES ASSUME Init PROVE Abstract!Init
        OBVIOUS
    <2>1. \A q \in Nat : Fifo(Queue, q) = <<>>
        BY InitInv, QueueBound DEF IndInv, Init
    <2>2. F = [q \in Priorities |-> <<>>]
        BY <2>1, QueueAssumption
    <2> QED BY <2>2 DEF Init, Abstract!Init
<1>2. IndInv /\ [Next]_vars => [Abstract!Next]_<<F, got>>
    <2> SUFFICES ASSUME IndInv, [Next]_vars PROVE [Abstract!Next]_<<F, got>>
        OBVIOUS
    <2>1. CASE \E p \in Procs, n \in Message : Enqueue(p, n) /\ UNCHANGED got
        <3>1. PICK p \in Procs, n \in Message : Enqueue(p, n) /\ UNCHANGED got
            BY <2>1
        <3>2. Abstract!Send(n.prio, n.msg) /\ n.prio \in Priorities /\ n.msg \in Messages
            BY <3>1, EnqueueSends, MessageParts
        <3> QED BY <3>2 DEF Abstract!Next
    <2>2. CASE \E p \in Procs : Dequeue(p)
        <3>1. PICK p \in Procs : Dequeue(p)
            BY <2>2
        <3>2. Abstract!Receive(p, slot[head].prio) /\ slot[head].prio \in Priorities
            BY <3>1, DequeueReceives
        <3> QED BY <3>2 DEF Abstract!Next
    <2>3. CASE UNCHANGED <<queueVars, got>>
        <3>1. Queue' = Queue
            BY <2>3 DEF Queue, Chain, queueVars
        <3> QED BY <2>3, <3>1
    <2> QED BY <2>1, <2>2, <2>3, InvProcesses, QueueSteps
<1> QED
    BY <1>1, <1>2, Invariance, PTL DEF Spec, RefinesQueue, Abstract!Spec
=============================================================================
