---------------------------- MODULE TftpGetProofs ----------------------------
(***************************************************************************)
(* Proofs of TftpGet's safety properties for files of any length and any   *)
(* number of losses and early timeouts.  AckedIsStored is not inductive    *)
(* without SentByServer: the client writes the block it is sent, so to     *)
(* know that the short block completes the file it must be known that the  *)
(* server got there one acknowledged block at a time.                      *)
(***************************************************************************)
EXTENDS TftpGet, TLAPS

\* Only blocks the server has reached are on their way.
SentByServer == \A n \in Blocks : DATA(n) \in net => n <= serving

IndInv == TypeOK /\ AckedIsStored /\ SentByServer /\ NothingMissing

-----------------------------------------------------------------------------
\* A file has at least one block, the short one that ends the transfer
\* (tftpget.c:226), and the bounds on losses and early timeouts are naturals.
LEMMA SizesAreNatural ==
    NumBlocks \in Nat /\ NumBlocks >= 1 /\ MaxLoss \in Nat /\ MaxEarly \in Nat
    BY TftpAssumption, SMTT(30)

\* What read_data's write (tftpget.c:312) adds to the blocks in the file.
LEMMA RangeAppend ==
    ASSUME NEW s \in Seq(Blocks), NEW n \in Blocks
    PROVE  Append(s, n) \in Seq(Blocks) /\ Range(Append(s, n)) = Range(s) \cup {n}
<1> DEFINE t == Append(s, n)
<1>1. /\ t \in Seq(Blocks) /\ Len(t) = Len(s) + 1 /\ Len(s) \in Nat
      /\ \A i \in 1..Len(s) : t[i] = s[i]
      /\ t[Len(s) + 1] = n
    OBVIOUS
<1>2. DOMAIN s = 1..Len(s) /\ DOMAIN t = 1..(Len(s) + 1)
    BY <1>1
<1>3. 1..(Len(s) + 1) = 1..Len(s) \cup {Len(s) + 1}
    BY <1>1
<1>4. \A x : x \in Range(t) <=> x \in Range(s) \/ x = n
    <2> HIDE DEF t
    <2> QED BY <1>1, <1>2, <1>3 DEF Range
<1> QED
    BY <1>1, <1>4

\* The packets of tftpget.c:82-94, 285-296 and 321-331 are told apart by opcode
\* and block number.
LEMMA MessagesDiffer ==
    /\ RRQ \in Messages /\ ERROR \in Messages
    /\ \A n \in Blocks : DATA(n) \in Messages /\ ACK(n) \in Messages
    /\ \A n \in Blocks : RRQ # DATA(n) /\ RRQ # ACK(n) /\ ERROR # DATA(n) /\ ERROR # ACK(n)
    /\ \A n, k \in Blocks : DATA(n) # ACK(k)
    /\ \A n, k \in Blocks : DATA(n) = DATA(k) => n = k
    /\ \A n, k \in Blocks : ACK(n) = ACK(k) => n = k
<1>1. RRQ \in Messages /\ ERROR \in Messages
    BY DEF Messages, RRQ, ERROR
<1>2. \A n \in Blocks : DATA(n) \in Messages /\ ACK(n) \in Messages
    BY DEF Messages, DATA, ACK
<1>3. /\ RRQ.op = "RRQ" /\ ERROR.op = "ERROR"
      /\ \A n : DATA(n).op = "DATA" /\ DATA(n).block = n
      /\ \A n : ACK(n).op = "ACK" /\ ACK(n).block = n
    BY DEF RRQ, ERROR, DATA, ACK
<1>4. "RRQ" # "DATA" /\ "RRQ" # "ACK" /\ "ERROR" # "DATA" /\ "ERROR" # "ACK" /\ "DATA" # "ACK"
    OBVIOUS
<1>5. \A n \in Blocks : RRQ # DATA(n) /\ RRQ # ACK(n) /\ ERROR # DATA(n) /\ ERROR # ACK(n)
    BY <1>3, <1>4, Zenon
<1>6. \A n, k \in Blocks : DATA(n) # ACK(k)
    BY <1>3, <1>4, Zenon
<1>7. \A n, k \in Blocks : (DATA(n) = DATA(k) => n = k) /\ (ACK(n) = ACK(k) => n = k)
    <2> TAKE n, k \in Blocks
    <2>1. DATA(n) = DATA(k) => DATA(n).block = DATA(k).block
        OBVIOUS
    <2>2. ACK(n) = ACK(k) => ACK(n).block = ACK(k).block
        OBVIOUS
    <2> QED
        BY <1>3, <2>1, <2>2, SMT
<1> QED
    BY <1>1, <1>2, <1>5, <1>6, <1>7, Zenon

-----------------------------------------------------------------------------
\* The client starts (tftpget.c:54-64) with nothing received.
LEMMA InitInv == Init => IndInv
<1> SUFFICES ASSUME Init PROVE IndInv
    OBVIOUS
<1> USE DEF Init
<1>1. opened \in BOOLEAN /\ diskOK \in BOOLEAN
    BY Zenon
<1>2. /\ serving \in 0..(NumBlocks + 1) /\ losses \in 0..MaxLoss /\ early \in 0..MaxEarly
    BY SizesAreNatural
<1>3. TypeOK
    BY <1>1, <1>2 DEF TypeOK
<1>4. AckedIsStored /\ SentByServer /\ NothingMissing
    BY DEF AckedIsStored, SentByServer, NothingMissing, Blocks
<1> QED
    BY <1>3, <1>4 DEF IndInv

\* Every step of the client, of the server or of the network keeps the types.
LEMMA TypeStep == ASSUME TypeOK, Next PROVE TypeOK'
<1> USE DEF TypeOK, envVars
<1>1. CASE SendRequest
    BY <1>1, MessagesDiffer DEF SendRequest
<1>2. CASE RecvFails
    BY <1>2 DEF RecvFails
<1>3. CASE ReceiveError
    BY <1>3 DEF ReceiveError
<1>4. ASSUME NEW n \in Blocks, ReceiveData(n) PROVE TypeOK'
    <2>1. opened' \in BOOLEAN /\ diskOK' \in BOOLEAN
        <3>1. (opened' = TRUE \/ opened' = opened) /\ (diskOK' = FALSE \/ diskOK' = diskOK)
            BY <1>4 DEF ReceiveData, read_data, Stored, WriteFails, OpenFails
        <3> QED
            BY <3>1, Zenon
    <2>2. file' \in Seq(Blocks)
        <3>1. file' = file \/ file' = Append(file, n)
            BY <1>4 DEF ReceiveData, read_data, Stored, WriteFails, OpenFails
        <3> QED
            BY <3>1, RangeAppend
    <2>3. pc' \in {"request", "receive", "finished", "failed"}
        BY <1>4 DEF ReceiveData, read_data
    <2>4. net' \subseteq Messages
        BY <1>4, MessagesDiffer DEF ReceiveData, Acknowledged
    <2> QED
        BY <1>4, <2>1, <2>2, <2>3, <2>4 DEF ReceiveData
<1>5. CASE ServeRequest
    <2>1. 1 \in Blocks
        BY SizesAreNatural DEF Blocks
    <2> QED
        <3>1. serving' = 1 \/ serving' = serving
            BY <1>5 DEF ServeRequest
        <3>2. 1 \in 0..(NumBlocks + 1)
            BY SizesAreNatural
        <3>3. net' \subseteq Messages /\ UNCHANGED <<pc, opened, file, diskOK, losses, early>>
            BY <1>5, <2>1, MessagesDiffer DEF ServeRequest
        <3> QED
            BY <3>1, <3>2, <3>3
<1>6. ASSUME NEW n \in Blocks, ServeAck(n) PROVE TypeOK'
    <2>1. n < NumBlocks => n + 1 \in Blocks
        BY SizesAreNatural DEF Blocks
    <2>2. net' \subseteq Messages
        <3>1. net \subseteq Messages
            OBVIOUS
        <3>2. n < NumBlocks => DATA(n + 1) \in Messages
            BY <2>1, MessagesDiffer
        <3> HIDE DEF TypeOK, Messages
        <3>3. net' = (net \ {ACK(n)}) \cup (IF n = serving /\ n < NumBlocks THEN {DATA(n + 1)} ELSE {})
            BY <1>6, Zenon DEF ServeAck
        <3> QED
            BY <3>1, <3>2, <3>3, Zenon
    <2>3. serving' \in 0..(NumBlocks + 1)
        <3>1. n + 1 \in 0..(NumBlocks + 1) /\ serving \in 0..(NumBlocks + 1)
            BY SizesAreNatural DEF Blocks
        <3> HIDE DEF TypeOK
        <3>2. serving' = (IF n = serving THEN n + 1 ELSE serving)
            BY <1>6, Zenon DEF ServeAck
        <3> QED
            BY <3>1, <3>2, Zenon
    <2>4. UNCHANGED <<pc, opened, file, diskOK, losses, early>>
        <3> HIDE DEF TypeOK
        <3> QED
            BY <1>6 DEF ServeAck
    <2> QED
        <3> HIDE DEF Messages, Blocks
        <3> QED
            BY <2>2, <2>3, <2>4
<1>7. CASE Timeout
    <2>1. early' \in 0..MaxEarly
        BY <1>7, SizesAreNatural DEF Timeout
    <2> QED
        BY <1>7, <2>1, MessagesDiffer DEF Timeout
<1>8. ASSUME NEW m \in Messages, Lose(m) PROVE TypeOK'
    <2>1. losses' \in 0..MaxLoss
        BY <1>8, SizesAreNatural DEF Lose
    <2> QED
        BY <1>8, <2>1 DEF Lose
<1> QED
    BY <1>1, <1>2, <1>3, <1>4, <1>5, <1>6, <1>7, <1>8 DEF Next, Client, Environment

\* A block received (tftpget.c:214-226) is written before it is acknowledged, and
\* the short block arrives after all others have been acknowledged.
LEMMA ReceiveStep ==
    ASSUME IndInv, NEW n \in Blocks, ReceiveData(n)
    PROVE  AckedIsStored' /\ SentByServer' /\ NothingMissing'
<1> USE DEF IndInv
<1>1. /\ serving' = serving /\ DATA(n) \in net
      /\ net' = (net \ {DATA(n)}) \cup {ACK(n)}
    BY DEF ReceiveData, envVars, Acknowledged
<1>2. \A k \in Blocks : (ACK(k) \in net' => ACK(k) \in net \/ k = n)
                        /\ (DATA(k) \in net' => DATA(k) \in net)
    BY <1>1, MessagesDiffer
<1>3. SentByServer'
    BY <1>1, <1>2 DEF SentByServer
<1>4. ASSUME diskOK' PROVE AckedIsStored' /\ NothingMissing'
    <2>1. /\ diskOK /\ file' = Append(file, n)
          /\ pc' = (IF n = NumBlocks THEN "finished" ELSE "receive")
        BY <1>4 DEF ReceiveData, read_data, Stored, WriteFails, OpenFails
    <2>2. file' \in Seq(Blocks) /\ Range(file') = Range(file) \cup {n}
        BY <2>1, RangeAppend DEF TypeOK
    <2>3. \A k \in Blocks : ACK(k) \in net' => k \in Range(file')
        BY <1>2, <2>1, <2>2 DEF AckedIsStored
    <2>4. \A k \in Blocks : k < serving' => k \in Range(file')
        BY <1>1, <2>1, <2>2 DEF AckedIsStored
    <2>5. AckedIsStored'
        BY <2>3, <2>4 DEF AckedIsStored
    <2>6. ASSUME n = NumBlocks PROVE Range(file') = Blocks
        <3>1. NumBlocks <= serving
            BY <1>1, <2>6 DEF SentByServer
        <3>2. \A k \in Blocks : k = n \/ k < serving
            BY <2>6, <3>1, SizesAreNatural DEF Blocks, TypeOK
        <3>3. Blocks \subseteq Range(file')
            BY <1>1, <2>2, <2>4, <3>2
        <3>4. (\A i \in 1..Len(file') : file'[i] \in Blocks) /\ DOMAIN file' = 1..Len(file')
            BY <2>2
        <3>5. Range(file') \subseteq Blocks
            BY <3>4 DEF Range
        <3> QED
            BY <3>3, <3>5
    <2>7. NothingMissing'
        BY <2>1, <2>6 DEF NothingMissing
    <2> QED
        BY <2>5, <2>7
<1>5. ASSUME ~diskOK' PROVE AckedIsStored' /\ NothingMissing'
    BY <1>5 DEF AckedIsStored, NothingMissing
<1>6. AckedIsStored' /\ NothingMissing'
    BY <1>4, <1>5, Zenon
<1> QED
    BY <1>3, <1>6

\* The server goes on to the next block only when the last is in the file.
LEMMA ServeAckStep ==
    ASSUME IndInv, NEW n \in Blocks, ServeAck(n)
    PROVE  AckedIsStored' /\ SentByServer' /\ NothingMissing'
<1> USE DEF IndInv
<1>1. /\ ACK(n) \in net /\ file' = file /\ pc' = pc /\ diskOK' = diskOK
      /\ serving' = (IF n = serving THEN n + 1 ELSE serving)
      /\ net' = (net \ {ACK(n)}) \cup (IF n = serving /\ n < NumBlocks THEN {DATA(n + 1)} ELSE {})
    BY DEF ServeAck
<1>2. n < NumBlocks => n + 1 \in Blocks
    BY SizesAreNatural DEF Blocks
<1>3. diskOK => n \in Range(file)
    BY <1>1 DEF AckedIsStored
<1>4. \A k \in Blocks : (ACK(k) \in net' => ACK(k) \in net)
                        /\ (DATA(k) \in net' => DATA(k) \in net \/ (k = n + 1 /\ n = serving))
    BY <1>1, <1>2, MessagesDiffer
<1>5. serving \in 0..(NumBlocks + 1) /\ n \in Int /\ \A k \in Blocks : k \in Int
    BY SizesAreNatural DEF TypeOK, Blocks
<1>6. \A k \in Blocks : k < serving' => k < serving \/ k = n
    BY <1>1, <1>5, SizesAreNatural
<1>7. AckedIsStored'
    BY <1>1, <1>3, <1>4, <1>6 DEF AckedIsStored
<1>8. SentByServer'
    <2> SUFFICES ASSUME NEW k \in Blocks, DATA(k) \in net' PROVE k <= serving'
        BY Zenon DEF SentByServer
    <2>1. DATA(k) \in net \/ (k = n + 1 /\ n = serving)
        BY <1>4, Zenon
    <2>2. DATA(k) \in net => k <= serving
        BY Zenon DEF SentByServer, IndInv
    <2>3. serving' = (IF n = serving THEN n + 1 ELSE serving)
        BY <1>1, Zenon
    <2>4. k \in Int /\ n \in Int /\ serving \in Int
        BY <1>5
    <2> QED
        BY <2>1, <2>2, <2>3, <2>4
<1>9. NothingMissing'
    BY <1>1 DEF NothingMissing
<1> QED
    BY <1>7, <1>8, <1>9

\* The other steps send no acknowledgment and write nothing.
LEMMA OtherStep ==
    ASSUME IndInv, SendRequest \/ RecvFails \/ ReceiveError \/ ServeRequest \/ Timeout
                   \/ \E m \in Messages : Lose(m)
    PROVE  AckedIsStored' /\ SentByServer' /\ NothingMissing'
<1> USE DEF IndInv, envVars
<1>1. /\ file' = file /\ diskOK' = diskOK /\ (pc' = "finished" => pc = "finished")
      /\ \/ serving' = serving /\ \A n \in Blocks : DATA(n) \in net' => DATA(n) \in net \/ n = serving
         \/ serving = 0 /\ serving' = 1 /\ \A n \in Blocks : DATA(n) \in net' => DATA(n) \in net \/ n = 1
      /\ \A n \in Blocks : ACK(n) \in net' => ACK(n) \in net
    <2>1. CASE SendRequest
        BY <2>1, MessagesDiffer DEF SendRequest
    <2>2. CASE RecvFails
        BY <2>2 DEF RecvFails
    <2>3. CASE ReceiveError
        BY <2>3 DEF ReceiveError
    <2>4. CASE ServeRequest
        <3>1. 1 \in Blocks
            BY SizesAreNatural DEF Blocks
        <3> QED
            BY <2>4, <3>1, MessagesDiffer DEF ServeRequest
    <2>5. CASE Timeout
        BY <2>5, MessagesDiffer DEF Timeout
    <2>6. ASSUME NEW m \in Messages, Lose(m)
          PROVE  /\ file' = file /\ diskOK' = diskOK /\ pc' = pc /\ serving' = serving
                 /\ net' \subseteq net
        BY <2>6 DEF Lose
    <2> QED
        BY <2>1, <2>2, <2>3, <2>4, <2>5, <2>6
<1>2. serving \in Int /\ \A n \in Blocks : n \in Int /\ n > 0
    BY SizesAreNatural DEF TypeOK, Blocks
<1>3. \A n \in Blocks : n < serving' => n < serving
    BY <1>1, <1>2
<1>4. AckedIsStored'
    BY <1>1, <1>3 DEF AckedIsStored
<1>5. SentByServer'
    BY <1>1, <1>2 DEF SentByServer
<1>6. NothingMissing'
    BY <1>1 DEF NothingMissing
<1> QED
    BY <1>4, <1>5, <1>6

-----------------------------------------------------------------------------
\* The variables keep their types, whether or not the disk fails.
THEOREM TypeCorrect == Spec => []TypeOK
<1>1. Init => TypeOK
    BY InitInv DEF IndInv
<1>2. ASSUME TypeOK, [Next]_vars PROVE TypeOK'
    <2>1. CASE UNCHANGED vars
        BY <1>2, <2>1 DEF vars, TypeOK
    <2> QED
        BY <1>2, <2>1, TypeStep
<1> QED
    BY <1>1, <1>2, PTL DEF Spec

\* The inductive invariant holds in every reachable state.
THEOREM Invariance == Spec => []IndInv
<1>1. ASSUME IndInv, [Next]_vars PROVE IndInv'
    <2>1. CASE UNCHANGED vars
        BY <1>1, <2>1 DEF vars, IndInv, TypeOK, AckedIsStored, SentByServer, NothingMissing
    <2>2. CASE Next
        <3>1. TypeOK'
            BY <1>1, <2>2, TypeStep DEF IndInv
        <3>2. AckedIsStored' /\ SentByServer' /\ NothingMissing'
            BY <1>1, <2>2, ReceiveStep, ServeAckStep, OtherStep DEF Next, Client, Environment
        <3> QED
            BY <3>1, <3>2 DEF IndInv
    <2> QED
        BY <1>1, <2>1, <2>2
<1> QED
    BY InitInv, <1>1, PTL DEF Spec

\* As long as the disk works the client acknowledges only what it has written,
\* however datagrams are lost, repeated and reordered.
THEOREM AcksAreSafe == Spec => []AckedIsStored
<1>1. IndInv => AckedIsStored
    BY DEF IndInv
<1> QED
    BY Invariance, <1>1, PTL

\* As long as the disk works a client that has finished has every block.
THEOREM FinishedIsComplete == Spec => []NothingMissing
<1>1. IndInv => NothingMissing
    BY DEF IndInv
<1> QED
    BY Invariance, <1>1, PTL
=============================================================================
