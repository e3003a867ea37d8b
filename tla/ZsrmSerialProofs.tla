-------------------------- MODULE ZsrmSerialProofs --------------------------
(***************************************************************************)
(* What holds of ZsrmSerial for every number of callers and every size of  *)
(* the rings, the calls and the batches: the senders' bytes go out in the  *)
(* order in which they were accepted whatever signals come, and the bytes  *)
(* that come in reach the readers in order, and wake them, as long as no   *)
(* signal comes or only one task reads.  The semaphores stay in balance.   *)
(***************************************************************************)
EXTENDS ZsrmSerial, FiniteSetTheorems, TLAPS

-----------------------------------------------------------------------------
(* Counting modulo m.                                                      *)

LEMMA DivMod ==
  ASSUME NEW x \in Int, NEW m \in Nat \ {0}
  PROVE  x = (x \div m) * m + (x % m) /\ x % m \in 0 .. m - 1 /\ x \div m \in Int
OBVIOUS

(* The only multiple of m that is nearer to zero than m is zero. *)
LEMMA SmallMultiple ==
  ASSUME NEW m \in Nat \ {0}, NEW d \in Int, d * m < m, d * m > -m
  PROVE  d = 0
<1>1. CASE d >= 1
  <2>1. d * m >= 1 * m
    BY <1>1
  <2> QED  BY <2>1
<1>2. CASE d <= -1
  <2>1. d * m <= (-1) * m
    BY <1>2
  <2> QED  BY <2>1
<1> QED  BY <1>1, <1>2

(* A remainder is known by its range. *)
LEMMA ModUnique ==
  ASSUME NEW m \in Nat \ {0}, NEW x \in Int, NEW q \in Int, NEW r \in 0 .. m - 1,
         x = q * m + r
  PROVE  x % m = r
<1> DEFINE p == x \div m
           s == x % m
<1>1. p \in Int /\ s \in 0 .. m - 1 /\ x = p * m + s
  BY DivMod
<1> HIDE DEF p, s
<1>2. (p - q) * m = p * m - q * m
  BY <1>1
<1>3. (p - q) * m = r - s
  BY <1>1, <1>2
<1>4. p - q = 0
  BY <1>1, <1>3, SmallMultiple
<1>5. p * m = q * m
  BY <1>1, <1>4
<1> QED  BY <1>1, <1>5 DEF s

(* Counting on from a remainder is counting on from the number. *)
LEMMA ModAdd ==
  ASSUME NEW m \in Nat \ {0}, NEW a \in Nat, NEW k \in Nat
  PROVE  ((a % m) + k) % m = (a + k) % m
<1> DEFINE c == a + k
           p == a \div m
           s == a % m
           b == c \div m
           t == c % m
<1>1. p \in Int /\ s \in 0 .. m - 1 /\ a = p * m + s
  BY DivMod
<1>2. b \in Int /\ t \in 0 .. m - 1 /\ c = b * m + t
  <2>1. c \in Int
    OBVIOUS
  <2> HIDE DEF c
  <2> QED  BY <2>1, DivMod
<1> HIDE DEF p, s, b, t
<1>3. (b - p) * m = b * m - p * m
  BY <1>1, <1>2
<1>4. s + k = (b - p) * m + t
  BY <1>1, <1>2, <1>3
<1>5. s + k \in Int /\ b - p \in Int
  BY <1>1, <1>2
<1>6. (s + k) % m = t
  BY <1>2, <1>4, <1>5, ModUnique
<1> QED  BY <1>6 DEF s, t

-----------------------------------------------------------------------------
(* The rings.                                                              *)

Numbers(size) == 0 .. 2 * size - 1
Succ(x, size) == (x + 1) % (2 * size)
Prev(i, size) == IF i = 0 THEN size - 1 ELSE i - 1

(* i lies on the way round from a to b, a included and b not. *)
Between(i, a, b) == IF a <= b THEN a <= i /\ i < b ELSE a <= i \/ i < b

(* From the byte read last to the byte written last, every one is numbered *)
(* one higher than the one before.                                         *)
RingOK(q, size) ==
  /\ q = [buf |-> q.buf, rd |-> q.rd, wr |-> q.wr]
  /\ q.buf \in [0 .. size - 1 -> Numbers(size)]
  /\ q.rd \in 0 .. size - 1 /\ q.wr \in 0 .. size - 1
  /\ \A i \in 0 .. size - 1 :
       Between(i, Prev(q.rd, size), Prev(q.wr, size)) =>
         q.buf[Inc(i, size)] = Succ(q.buf[i], size)

LEMMA SuccInRange ==
  ASSUME NEW size \in Nat \ {0}, NEW x \in Numbers(size)
  PROVE  Succ(x, size) \in Numbers(size)
<1>1. x + 1 \in Int /\ 2 * size \in Nat \ {0}
  BY DEF Numbers
<1> QED  BY <1>1, DivMod DEF Succ, Numbers

(* SERIAL_..._CIRCULAR_INC goes round. *)
LEMMA IncPrev ==
  ASSUME NEW size \in Nat \ {0}, NEW i \in 0 .. size - 1
  PROVE  /\ Inc(i, size) \in 0 .. size - 1 /\ Prev(i, size) \in 0 .. size - 1
         /\ Inc(Prev(i, size), size) = i /\ Prev(Inc(i, size), size) = i
BY DEF Inc, Prev

(* A new ring holds nothing. *)
LEMMA NewRing ==
  ASSUME NEW size \in Nat \ {0}
  PROVE  /\ RingOK(Ring(size), size)
         /\ Ring(size).rd = 0 /\ Ring(size).buf[Prev(0, size)] = 0
         /\ IsEmpty(Ring(size))
BY DEF Ring, RingOK, Between, Prev, Numbers, IsEmpty

(* The first byte of a ring that is not empty follows the one read last,   *)
(* and is then the one read last.                                          *)
LEMMA TakeOK ==
  ASSUME NEW size \in Nat \ {0}, NEW q, RingOK(q, size), ~ IsEmpty(q)
  PROVE  LET e == [q EXCEPT !.rd = Inc(q.rd, size)]
         IN  /\ RingOK(e, size)
             /\ e.buf = q.buf /\ e.wr = q.wr /\ e.rd = Inc(q.rd, size)
             /\ Prev(e.rd, size) = q.rd
             /\ q.buf[q.rd] = Succ(q.buf[Prev(q.rd, size)], size)
             /\ ~ IsFull(e, size)
<1> DEFINE e == [q EXCEPT !.rd = Inc(q.rd, size)]
           a == Prev(q.rd, size)
           b == Prev(q.wr, size)
<1>1. /\ e = [buf |-> q.buf, rd |-> Inc(q.rd, size), wr |-> q.wr]
      /\ q.rd \in 0 .. size - 1 /\ q.wr \in 0 .. size - 1 /\ q.rd # q.wr
  BY DEF RingOK, IsEmpty
<1>2. /\ a \in 0 .. size - 1 /\ b \in 0 .. size - 1 /\ Inc(a, size) = q.rd
      /\ Inc(q.rd, size) \in 0 .. size - 1 /\ Prev(Inc(q.rd, size), size) = q.rd
  BY <1>1, IncPrev
<1>3. Between(a, a, b) /\ Inc(q.wr, size) # Inc(q.rd, size)
  BY <1>1 DEF Between, Prev, Inc
<1>4. \A i \in 0 .. size - 1 : Between(i, q.rd, b) => Between(i, a, b)
  BY <1>1 DEF Between, Prev
<1>5. q.buf[q.rd] = Succ(q.buf[a], size)
  BY <1>2, <1>3 DEF RingOK
<1>6. RingOK(e, size)
  BY <1>1, <1>2, <1>4 DEF RingOK
<1> QED  BY <1>1, <1>2, <1>3, <1>5, <1>6 DEF IsFull

(* A byte that is put at the free place of a ring that is not full does    *)
(* not touch those in the ring, nor the one read last.                     *)
LEMMA StoreOK ==
  ASSUME NEW size \in Nat \ {0}, NEW q, RingOK(q, size), ~ IsFull(q, size)
  PROVE  LET e == [q EXCEPT !.buf[q.wr] = NextByte(q, size)]
         IN  /\ RingOK(e, size)
             /\ e.rd = q.rd /\ e.wr = q.wr
             /\ e.buf[q.wr] = Succ(e.buf[Prev(q.wr, size)], size)
             /\ e.buf[Prev(q.rd, size)] = q.buf[Prev(q.rd, size)]
             /\ ~ IsEmpty(q) => e.buf[q.rd] = q.buf[q.rd]
<1> DEFINE x == NextByte(q, size)
           e == [q EXCEPT !.buf[q.wr] = x]
           a == Prev(q.rd, size)
           b == Prev(q.wr, size)
<1>1. /\ q.rd \in 0 .. size - 1 /\ q.wr \in 0 .. size - 1
      /\ a \in 0 .. size - 1 /\ b \in 0 .. size - 1
      /\ q.buf \in [0 .. size - 1 -> Numbers(size)]
  BY IncPrev DEF RingOK
<1>2. q.wr # a /\ q.wr # b
  BY <1>1 DEF IsFull, Inc, Prev
<1>3. x = Succ(q.buf[b], size) /\ x \in Numbers(size)
  BY <1>1, SuccInRange DEF NextByte, Succ, Prev
<1> HIDE DEF x
<1>4. /\ e = [buf |-> e.buf, rd |-> q.rd, wr |-> q.wr]
      /\ e.rd = q.rd /\ e.wr = q.wr
      /\ e.buf \in [0 .. size - 1 -> Numbers(size)]
      /\ e.buf[q.wr] = x /\ \A i \in 0 .. size - 1 : i # q.wr => e.buf[i] = q.buf[i]
  <2>1. q = [buf |-> q.buf, rd |-> q.rd, wr |-> q.wr]
    BY DEF RingOK
  <2>2. e = [buf |-> [q.buf EXCEPT ![q.wr] = x], rd |-> q.rd, wr |-> q.wr]
    BY <2>1
  <2> HIDE DEF e
  <2>3. /\ e.buf = [q.buf EXCEPT ![q.wr] = x]
        /\ e.rd = q.rd /\ e.wr = q.wr
    BY <2>2
  <2> QED  BY <1>1, <1>3, <2>2, <2>3
<1>5. ASSUME NEW i \in 0 .. size - 1, Between(i, a, b)
      PROVE  i # q.wr /\ Inc(i, size) # q.wr /\ Inc(i, size) \in 0 .. size - 1
  BY <1>1, <1>2, <1>5 DEF Between, Prev, Inc
<1>6. RingOK(e, size)
  BY <1>1, <1>4, <1>5 DEF RingOK
<1>7. RingOK(e, size) /\ e.buf[q.wr] = Succ(e.buf[b], size) /\ e.buf[a] = q.buf[a]
  BY <1>1, <1>2, <1>3, <1>4, <1>6
<1>8. ~ IsEmpty(q) => e.buf[q.rd] = q.buf[q.rd]
  BY <1>1, <1>4 DEF IsEmpty
<1> QED  BY <1>4, <1>7, <1>8 DEF x

(* It is in the ring when the write index has moved on. *)
LEMMA CommitOK ==
  ASSUME NEW size \in Nat \ {0}, NEW q, RingOK(q, size), ~ IsFull(q, size),
         q.buf[q.wr] = Succ(q.buf[Prev(q.wr, size)], size)
  PROVE  LET e == [q EXCEPT !.wr = Inc(q.wr, size)]
         IN  RingOK(e, size) /\ e.rd = q.rd /\ e.buf = q.buf /\ ~ IsEmpty(e)
<1> DEFINE e == [q EXCEPT !.wr = Inc(q.wr, size)]
           a == Prev(q.rd, size)
           b == Prev(q.wr, size)
<1>1. /\ q.rd \in 0 .. size - 1 /\ q.wr \in 0 .. size - 1
      /\ e = [buf |-> q.buf, rd |-> q.rd, wr |-> Inc(q.wr, size)]
  BY DEF RingOK
<1>2. /\ a \in 0 .. size - 1 /\ b \in 0 .. size - 1 /\ Inc(b, size) = q.wr
      /\ Inc(q.wr, size) \in 0 .. size - 1 /\ Prev(Inc(q.wr, size), size) = q.wr
  BY <1>1, IncPrev
<1>3. \A i \in 0 .. size - 1 : Between(i, a, q.wr) => Between(i, a, b) \/ i = b
  BY <1>1 DEF Between, Prev
<1>4. RingOK(e, size)
  BY <1>1, <1>2, <1>3 DEF RingOK
<1> QED  BY <1>1, <1>4 DEF IsEmpty, IsFull

-----------------------------------------------------------------------------
(* Sending.                                                                *)

Places == {"out", "lock", "leave", "rx_leave", "rx_down", "rx_test", "rx_wait",
           "rx_sleep", "rx_again", "rx_copy", "rx_inc", "rx_enter", "rx_lock",
           "tx_down", "tx_write", "tx_inc"}

(* Callers that hold zsrmlock. *)
Inside == {"leave", "rx_leave", "tx_down", "tx_write", "tx_inc"}

(* Whatever semaphores were not waited for, zsrmlock is held by one caller *)
(* at most.                                                                *)
GateOK ==
  /\ pc \in [Callers -> Places]
  /\ zsrmlock \in BOOLEAN
  /\ \A c \in Callers : pc[c] \in Inside => zsrmlock
  /\ \A c, d \in Callers : pc[c] \in Inside /\ pc[d] \in Inside => c = d

(* The bytes of the sender thread and then those of the ring follow the    *)
(* ones that are out, and a writer puts its byte at their end.             *)
SendingOK ==
  /\ RingOK(tx, TX_SIZE)
  /\ wired = [count |-> wired.count, last |-> wired.last]
  /\ wired.count \in Numbers(TX_SIZE) /\ wired.last = wired.count
  /\ hand \in Seq(Numbers(TX_SIZE))
  /\ \A k \in 1 .. Len(hand) : hand[k] = (wired.count + k) % (2 * TX_SIZE)
  /\ tx.buf[Prev(tx.rd, TX_SIZE)] = (wired.count + Len(hand)) % (2 * TX_SIZE)
  /\ sender = "send" => hand # <<>>
  /\ \A c \in Callers : pc[c] = "tx_inc" =>
       ~ IsFull(tx, TX_SIZE) /\ tx.buf[tx.wr] = Succ(tx.buf[Prev(tx.wr, TX_SIZE)], TX_SIZE)

LEMMA Sizes ==
  /\ RX_SIZE \in Nat \ {0} /\ TX_SIZE \in Nat \ {0}
  /\ MAX_LEN \in Nat \ {0} /\ BATCH \in Nat \ {0}
BY SizesAssumption

(* A caller that moves keeps, takes or gives up zsrmlock: it keeps it, or  *)
(* stays without it; it takes it only when it is free; it gives it up only *)
(* when it holds it.                                                       *)
GateMoves(c, to) ==
  \/ zsrmlock' = zsrmlock /\ (to \in Inside => pc[c] \in Inside)
  \/ ~ zsrmlock /\ zsrmlock' = TRUE
  \/ pc[c] \in Inside /\ to \notin Inside /\ zsrmlock' = FALSE

LEMMA GateMove ==
  ASSUME GateOK, NEW c \in Callers, NEW to \in Places, Goto(c, to), GateMoves(c, to)
  PROVE  GateOK'
<1> USE DEF GateOK, Goto
<1>1. /\ pc' \in [Callers -> Places] /\ pc'[c] = to
      /\ \A d \in Callers : d # c => pc'[d] = pc[d]
  OBVIOUS
<1> HIDE DEF Inside, Places
<1>2. CASE zsrmlock' = zsrmlock /\ (to \in Inside => pc[c] \in Inside)
  <2>1. \A d \in Callers : pc'[d] \in Inside => pc[d] \in Inside
    BY <1>1, <1>2
  <2> QED  BY <1>1, <1>2, <2>1
<1>3. CASE ~ zsrmlock /\ zsrmlock' = TRUE
  <2>1. \A d \in Callers : pc'[d] \in Inside => d = c
    BY <1>1, <1>3
  <2> QED  BY <1>1, <1>3, <2>1
<1>4. CASE pc[c] \in Inside /\ to \notin Inside /\ zsrmlock' = FALSE
  <2>1. \A d \in Callers : pc'[d] \notin Inside
    BY <1>1, <1>4
  <2> QED  BY <1>1, <1>4, <2>1
<1> QED  BY <1>2, <1>3, <1>4 DEF GateMoves

LEMMA GateStep ==
  ASSUME GateOK, [Next]_vars
  PROVE  GateOK'
<1> DEFINE Moves(c) == \E to \in Places : Goto(c, to) /\ GateMoves(c, to)
<1>0. ASSUME NEW c \in Callers, Moves(c)  PROVE GateOK'
  BY <1>0, GateMove
<1>1. CASE UNCHANGED vars
  BY <1>1 DEF vars, callVars, GateOK
<1>2. ASSUME NEW c \in Callers, Enter(c) \/ Lock(c) \/ Leave(c)  PROVE GateOK'
  <2> USE DEF At, Places, Inside, GateMoves
  <2>1. CASE Enter(c)
    <3>1. Goto(c, "lock") /\ GateMoves(c, "lock")
      BY <2>1 DEF Enter
    <3> QED  BY <3>1, <1>0
  <2>2. CASE Lock(c)
    <3>1. PICK to \in {"tx_down", "rx_leave"} : Goto(c, to) /\ GateMoves(c, to)
      BY <2>2 DEF Lock
    <3> QED  BY <3>1, <1>0
  <2>3. CASE Leave(c)
    <3>1. Goto(c, "out") /\ GateMoves(c, "out")
      BY <2>3 DEF Leave
    <3> QED  BY <3>1, <1>0
  <2> QED  BY <1>2, <2>1, <2>2, <2>3
<1>3. ASSUME NEW c \in Callers, Reads(c)  PROVE GateOK'
  <2> USE DEF At, Places, Inside, GateMoves
  <2>1. CASE RxLeave(c)
    <3>1. Goto(c, "rx_down") /\ GateMoves(c, "rx_down")
      BY <2>1 DEF RxLeave
    <3> QED  BY <3>1, <1>0
  <2>2. CASE RxDown(c)
    <3>1. PICK to \in {"rx_test", "rx_copy"} : Goto(c, to) /\ GateMoves(c, to)
      BY <2>2 DEF RxDown
    <3> QED  BY <3>1, <1>0
  <2>3. CASE RxTest(c)
    <3>1. PICK to \in {"rx_wait", "rx_copy"} : Goto(c, to) /\ GateMoves(c, to)
      BY <2>3 DEF RxTest
    <3> QED  BY <3>1, <1>0
  <2>4. CASE RxWait(c)
    <3>1. PICK to \in {"rx_sleep", "rx_again"} : Goto(c, to) /\ GateMoves(c, to)
      BY <2>4 DEF RxWait
    <3> QED  BY <3>1, <1>0
  <2>5. CASE RxCopy(c)
    <3>1. Goto(c, "rx_inc") /\ GateMoves(c, "rx_inc")
      BY <2>5 DEF RxCopy
    <3> QED  BY <3>1, <1>0
  <2>6. CASE RxInc(c)
    <3>1. Goto(c, "rx_copy") /\ GateMoves(c, "rx_copy")
      BY <2>6 DEF RxInc
    <3> QED  BY <3>1, <1>0
  <2>7. CASE RxUp(c)
    <3>1. Goto(c, "rx_enter") /\ GateMoves(c, "rx_enter")
      BY <2>7 DEF RxUp
    <3> QED  BY <3>1, <1>0
  <2>8. CASE RxEnter(c)
    <3>1. Goto(c, "rx_lock") /\ GateMoves(c, "rx_lock")
      BY <2>8 DEF RxEnter
    <3> QED  BY <3>1, <1>0
  <2>9. CASE RxLock(c)
    <3>1. Goto(c, "leave") /\ GateMoves(c, "leave")
      BY <2>9 DEF RxLock
    <3> QED  BY <3>1, <1>0
  <2> QED  BY <1>3, <2>1, <2>2, <2>3, <2>4, <2>5, <2>6, <2>7, <2>8, <2>9 DEF Reads
<1>4. ASSUME NEW c \in Callers, Writes(c)  PROVE GateOK'
  <2> USE DEF At, Places, Inside, GateMoves
  <2>1. CASE TxDown(c)
    <3>1. Goto(c, "tx_write") /\ GateMoves(c, "tx_write")
      BY <2>1 DEF TxDown
    <3> QED  BY <3>1, <1>0
  <2>2. CASE TxWrite(c)
    <3>1. Goto(c, "tx_inc") /\ GateMoves(c, "tx_inc")
      BY <2>2 DEF TxWrite
    <3> QED  BY <3>1, <1>0
  <2>3. CASE TxInc(c)
    <3>1. Goto(c, "tx_write") /\ GateMoves(c, "tx_write")
      BY <2>3 DEF TxInc
    <3> QED  BY <3>1, <1>0
  <2>4. CASE TxUp(c)
    <3>1. Goto(c, "leave") /\ GateMoves(c, "leave")
      BY <2>4 DEF TxUp
    <3> QED  BY <3>1, <1>0
  <2> QED  BY <1>4, <2>1, <2>2, <2>3, <2>4 DEF Writes
<1>5. CASE ReceiverUps
  <2>1. /\ zsrmlock' = zsrmlock
        /\ pc' = [c \in Callers |-> IF c \in Woken THEN "rx_wait" ELSE pc[c]]
    BY <1>5 DEF ReceiverUps
  <2>2. "rx_wait" \in Places /\ "rx_wait" \notin Inside
    BY DEF Places, Inside
  <2>3. pc' \in [Callers -> Places]
    BY <2>1, <2>2 DEF GateOK
  <2>4. \A c \in Callers : pc'[c] \in Inside => pc[c] \in Inside
    BY <2>1, <2>2
  <2> QED  BY <2>1, <2>3, <2>4 DEF GateOK
<1>6. CASE ReceiverDowns \/ ReceiverWrites \/ Sender
  <2>1. UNCHANGED <<pc, zsrmlock>>
    BY <1>6 DEF ReceiverDowns, ReceiverWrites, Sender, SenderDowns, SenderTests,
                SenderReads, SenderUps, SenderSends, SenderSleeps, callVars
  <2> QED  BY <2>1 DEF GateOK
<1> QED  BY <1>1, <1>2, <1>3, <1>4, <1>5, <1>6 DEF Next, Receiver

(* A step that neither touches the ring nor brings a writer to its end. *)
LEMMA SameSending ==
  ASSUME SendingOK, UNCHANGED <<tx, hand, wired>>, sender' = "send" => sender = "send",
         \A c \in Callers : pc'[c] = "tx_inc" => pc[c] = "tx_inc"
  PROVE  SendingOK'
BY DEF SendingOK

LEMMA SendingStep ==
  ASSUME GateOK, SendingOK, [Next]_vars
  PROVE  SendingOK'
<1> DEFINE last == tx.buf[Prev(tx.rd, TX_SIZE)]
<1>1. CASE UNCHANGED vars
  BY <1>1, SameSending DEF vars, callVars, txVars
<1>2. ASSUME NEW c \in Callers,
             Enter(c) \/ Lock(c) \/ Leave(c) \/ Reads(c) \/ TxDown(c) \/ TxUp(c)
      PROVE  SendingOK'
  <2> USE DEF At, Goto, txVars, GateOK
  <2>1. CASE Enter(c) \/ Lock(c) \/ Leave(c)
    BY <2>1, SameSending DEF Enter, Lock, Leave
  <2>2. CASE RxLeave(c) \/ RxDown(c) \/ RxTest(c)
    BY <2>2, SameSending DEF RxLeave, RxDown, RxTest
  <2>3. CASE RxWait(c) \/ RxCopy(c) \/ RxInc(c)
    BY <2>3, SameSending DEF RxWait, RxCopy, RxInc
  <2>4. CASE RxUp(c) \/ RxEnter(c) \/ RxLock(c)
    BY <2>4, SameSending DEF RxUp, RxEnter, RxLock
  <2>5. CASE TxDown(c) \/ TxUp(c)
    BY <2>5, SameSending DEF TxDown, TxUp
  <2> QED  BY <1>2, <2>1, <2>2, <2>3, <2>4, <2>5 DEF Reads
<1>3. ASSUME NEW c \in Callers, TxWrite(c)  PROVE SendingOK'
  <2>1. /\ tx' = [tx EXCEPT !.buf[tx.wr] = NextByte(tx, TX_SIZE)]
        /\ ~ IsFull(tx, TX_SIZE) /\ UNCHANGED <<hand, wired, sender>>
    BY <1>3 DEF TxWrite
  <2>2. /\ RingOK(tx', TX_SIZE) /\ tx'.rd = tx.rd /\ tx'.wr = tx.wr
        /\ tx'.buf[tx'.wr] = Succ(tx'.buf[Prev(tx'.wr, TX_SIZE)], TX_SIZE)
        /\ tx'.buf[Prev(tx'.rd, TX_SIZE)] = last
    <3> DEFINE e == [tx EXCEPT !.buf[tx.wr] = NextByte(tx, TX_SIZE)]
    <3>1. RingOK(tx, TX_SIZE) /\ TX_SIZE \in Nat \ {0}
      BY Sizes DEF SendingOK
    <3>2. /\ RingOK(e, TX_SIZE) /\ e.rd = tx.rd /\ e.wr = tx.wr
          /\ e.buf[tx.wr] = Succ(e.buf[Prev(tx.wr, TX_SIZE)], TX_SIZE)
          /\ e.buf[Prev(tx.rd, TX_SIZE)] = last
      BY <2>1, <3>1, StoreOK
    <3>3. tx' = e
      BY <2>1
    <3> HIDE DEF e
    <3> QED  BY <3>2, <3>3
  <2>3. ~ IsFull(tx', TX_SIZE)
    BY <2>1, <2>2 DEF IsFull
  <2> QED  BY <2>1, <2>2, <2>3 DEF SendingOK
<1>4. ASSUME NEW c \in Callers, TxInc(c)  PROVE SendingOK'
  <2>1. /\ tx' = [tx EXCEPT !.wr = Inc(tx.wr, TX_SIZE)]
        /\ ~ IsFull(tx, TX_SIZE)
        /\ tx.buf[tx.wr] = Succ(tx.buf[Prev(tx.wr, TX_SIZE)], TX_SIZE)
        /\ UNCHANGED <<hand, wired, sender>>
    BY <1>4 DEF TxInc, SendingOK, At
  <2>2. RingOK(tx', TX_SIZE) /\ tx'.rd = tx.rd /\ tx'.buf = tx.buf
    BY <2>1, Sizes, CommitOK DEF SendingOK
  <2>3. \A d \in Callers : pc'[d] # "tx_inc"
    BY <1>4 DEF TxInc, GateOK, Inside, At, Goto
  <2> QED  BY <2>1, <2>2, <2>3 DEF SendingOK
<1>5. CASE Receiver
  BY <1>5, SameSending
  DEF Receiver, ReceiverDowns, ReceiverWrites, ReceiverUps, GateOK, callVars, txVars
<1>6. CASE SenderDowns \/ SenderTests \/ SenderUps \/ SenderSleeps
  BY <1>6 DEF SenderDowns, SenderTests, SenderUps, SenderSleeps, callVars, SendingOK
<1>7. CASE SenderReads
  <2>1. /\ tx' = [tx EXCEPT !.rd = Inc(tx.rd, TX_SIZE)]
        /\ ~ IsEmpty(tx) /\ hand' = Append(hand, tx.buf[tx.rd])
        /\ UNCHANGED <<wired, sender, pc>>
    BY <1>7 DEF SenderReads, callVars
  <2>2. /\ RingOK(tx', TX_SIZE) /\ tx'.buf = tx.buf /\ tx'.wr = tx.wr
        /\ Prev(tx'.rd, TX_SIZE) = tx.rd /\ ~ IsFull(tx', TX_SIZE)
        /\ tx.buf[tx.rd] = Succ(last, TX_SIZE)
        /\ tx.buf[tx.rd] \in Numbers(TX_SIZE)
    <3>1. RingOK(tx, TX_SIZE) /\ TX_SIZE \in Nat \ {0}
      BY Sizes DEF SendingOK
    <3> DEFINE e == [tx EXCEPT !.rd = Inc(tx.rd, TX_SIZE)]
    <3>2. /\ RingOK(e, TX_SIZE) /\ e.buf = tx.buf /\ e.wr = tx.wr
          /\ Prev(e.rd, TX_SIZE) = tx.rd /\ ~ IsFull(e, TX_SIZE)
          /\ tx.buf[tx.rd] = Succ(last, TX_SIZE)
      BY <2>1, <3>1, TakeOK
    <3>3. tx.buf[tx.rd] \in Numbers(TX_SIZE)
      BY <3>1 DEF RingOK
    <3>4. tx' = e
      BY <2>1
    <3> HIDE DEF e
    <3> QED  BY <3>2, <3>3, <3>4
  <2>3. tx.buf[tx.rd] = (wired.count + (Len(hand) + 1)) % (2 * TX_SIZE)
    <3>1. wired.count + Len(hand) \in Nat /\ 2 * TX_SIZE \in Nat \ {0}
      <4>1. wired.count \in Nat /\ 2 * TX_SIZE \in Nat \ {0}
        <5>1. wired.count \in Numbers(TX_SIZE)
          BY DEF SendingOK
        <5> QED  BY <5>1, Sizes DEF Numbers
      <4>2. Len(hand) \in Nat
        BY DEF SendingOK
      <4> QED  BY <4>1, <4>2
    <3>2. (((wired.count + Len(hand)) % (2 * TX_SIZE)) + 1) % (2 * TX_SIZE)
            = ((wired.count + Len(hand)) + 1) % (2 * TX_SIZE)
      BY <3>1, ModAdd
    <3>3. (wired.count + Len(hand)) + 1 = wired.count + (Len(hand) + 1)
      BY DEF SendingOK, Numbers
    <3> QED  BY <2>2, <3>2, <3>3 DEF SendingOK, Succ
  <2>4. /\ hand' \in Seq(Numbers(TX_SIZE)) /\ hand' # <<>> /\ Len(hand') = Len(hand) + 1
        /\ \A k \in 1 .. Len(hand) : hand'[k] = hand[k]
        /\ hand'[Len(hand) + 1] = tx.buf[tx.rd]
    BY <2>1, <2>2 DEF SendingOK
  <2>5. \A k \in 1 .. Len(hand') : hand'[k] = (wired'.count + k) % (2 * TX_SIZE)
    <3> TAKE k \in 1 .. Len(hand')
    <3>1. k \in 1 .. Len(hand) \/ k = Len(hand) + 1
      BY <2>4 DEF SendingOK
    <3> QED  BY <2>1, <2>3, <2>4, <3>1 DEF SendingOK
  <2>6. tx'.buf[Prev(tx'.rd, TX_SIZE)] = (wired'.count + Len(hand')) % (2 * TX_SIZE)
    BY <2>1, <2>2, <2>3, <2>4
  <2> QED  BY <2>1, <2>2, <2>4, <2>5, <2>6 DEF SendingOK
<1>8. CASE SenderSends
  <2> DEFINE n == IF Len(hand) > BATCH THEN BATCH ELSE Len(hand)
             M == 2 * TX_SIZE
  <2>1. /\ wired' = [count |-> (wired.count + n) % M, last |-> hand[n]]
        /\ hand' = SubSeq(hand, n + 1, Len(hand))
        /\ sender' = IF n = Len(hand) THEN "down" ELSE sender
        /\ sender = "send" /\ UNCHANGED <<tx, pc>>
    BY <1>8 DEF SenderSends, Counted, callVars
  <2>2. hand \in Seq(Numbers(TX_SIZE)) /\ Len(hand) \in Nat \ {0}
    BY <2>1 DEF SendingOK
  <2>3. n \in 1 .. Len(hand)
    BY <2>2, Sizes
  <2>4. M \in Nat \ {0} /\ wired.count \in Nat /\ wired.count \in Numbers(TX_SIZE)
    <3>1. wired.count \in Numbers(TX_SIZE)
      BY DEF SendingOK
    <3> HIDE DEF n
    <3> QED  BY <3>1, Sizes DEF Numbers
  <2> HIDE DEF n, M
  <2>5. /\ wired' = [count |-> wired'.count, last |-> wired'.last]
        /\ wired'.count = (wired.count + n) % M
        /\ wired'.last = wired'.count
    BY <2>1, <2>3 DEF SendingOK, M
  <2>6. wired'.count \in Numbers(TX_SIZE)
    <3>1. wired.count + n \in Int
      BY <2>2, <2>3, <2>4
    <3> QED  BY <2>4, <2>5, <3>1, DivMod DEF Numbers, M
  <2>7. /\ hand' \in Seq(Numbers(TX_SIZE)) /\ Len(hand') = Len(hand) - n
        /\ \A k \in 1 .. Len(hand') : hand'[k] = hand[n + k] /\ n + k \in 1 .. Len(hand)
    <3> DEFINE s == hand
               t == SubSeq(s, n + 1, Len(s))
               T == Numbers(TX_SIZE)
    <3>1. s \in Seq(T) /\ Len(s) \in Nat /\ n \in 1 .. Len(s)
      BY <2>2, <2>3
    <3> HIDE DEF s, T
    <3>2. /\ t \in Seq(T) /\ Len(t) = Len(s) - n
          /\ \A k \in 1 .. Len(t) : t[k] = s[n + k] /\ n + k \in 1 .. Len(s)
      <4>1. t \in Seq(T) /\ Len(t) = Len(s) - n
        BY <3>1
      <4>2. \A k \in 1 .. Len(s) - n : t[k] = s[n + k]
        BY <3>1
      <4>3. \A k \in 1 .. Len(s) - n : n + k \in 1 .. Len(s)
        BY <3>1
      <4> QED  BY <4>1, <4>2, <4>3
    <3>3. hand' = t
      BY <2>1 DEF s
    <3> HIDE DEF t
    <3> QED  BY <3>2, <3>3 DEF s, T
  <2>8. \A k \in Nat : (wired'.count + k) % M = (wired.count + (n + k)) % M
    <3> TAKE k \in Nat
    <3>1. wired.count + n \in Nat /\ (wired.count + n) + k = wired.count + (n + k)
      BY <2>2, <2>3, <2>4
    <3>2. (((wired.count + n) % M) + k) % M = ((wired.count + n) + k) % M
      BY <2>4, <3>1, ModAdd
    <3> QED  BY <2>5, <3>1, <3>2
  <2>9. \A k \in 1 .. Len(hand') : hand'[k] = (wired'.count + k) % M
    BY <2>2, <2>7, <2>8 DEF SendingOK, M
  <2>10. last = (wired'.count + Len(hand')) % M
    <3>1. Len(hand') \in Nat /\ n + Len(hand') = Len(hand)
      BY <2>2, <2>3, <2>7
    <3>2. (wired'.count + Len(hand')) % M = (wired.count + (n + Len(hand'))) % M
      BY <2>8, <3>1
    <3> QED  BY <3>1, <3>2 DEF SendingOK, M
  <2>11. sender' = "send" => hand' # <<>>
    <3>1. CASE n = Len(hand)
      BY <2>1, <3>1
    <3>2. CASE n # Len(hand)
      <4>1. Len(hand') # 0
        BY <2>2, <2>3, <2>7, <3>2
      <4> QED  BY <4>1
    <3> QED  BY <3>1, <3>2
  <2> QED  BY <2>1, <2>5, <2>6, <2>7, <2>9, <2>10, <2>11 DEF SendingOK, M
<1> QED
  BY <1>1, <1>2, <1>3, <1>4, <1>5, <1>6, <1>7, <1>8 DEF Next, Writes, Sender

LEMMA SendingHolds == Spec => [](GateOK /\ SendingOK)
<1>1. Init => GateOK /\ SendingOK
  <2> SUFFICES ASSUME Init  PROVE GateOK /\ SendingOK
    OBVIOUS
  <2>1. GateOK
    BY DEF Init, GateOK, Places, Inside
  <2>2. /\ RingOK(tx, TX_SIZE) /\ tx.buf[Prev(tx.rd, TX_SIZE)] = 0
        /\ hand = <<>> /\ wired = [count |-> 0, last |-> 0] /\ sender = "down"
        /\ \A c \in Callers : pc[c] # "tx_inc"
    BY Sizes, NewRing DEF Init, NothingMoved
  <2>3. 0 % (2 * TX_SIZE) = 0 /\ 0 \in Numbers(TX_SIZE)
    BY Sizes DEF Numbers
  <2>4. hand \in Seq(Numbers(TX_SIZE)) /\ Len(hand) = 0
    BY <2>2
  <2> QED  BY <2>1, <2>2, <2>3, <2>4 DEF SendingOK
<1>2. GateOK /\ SendingOK /\ [Next]_vars => (GateOK /\ SendingOK)'
  BY GateStep, SendingStep
<1> QED  BY <1>1, <1>2, PTL DEF Spec

(* Every byte that goes out is the next one that was accepted from a       *)
(* sender, for any number of senders, whatever the sizes of the ring, the  *)
(* calls and the batches, and however many semaphores were not waited for. *)
THEOREM TheWireGetsTheStream == Spec => []WireGetsTheStream
<1>1. SendingOK => WireGetsTheStream
  BY DEF SendingOK, WireGetsTheStream
<1> QED  BY <1>1, SendingHolds, PTL

-----------------------------------------------------------------------------
(* Receiving.                                                              *)

(* No signal comes, or one task reads. *)
Undisturbed ==
  \A u \in Usages : u.interrupted = {} \/ \A c, d \in u.readers : c = d

(* Callers that are at the ring, with serial_buffer_sem or without.        *)
Reading == {"rx_test", "rx_copy", "rx_inc"}
OnlyReaders == Reading \cup {"rx_leave", "rx_down", "rx_wait", "rx_sleep", "rx_again"}

(* One reader at most is at the ring: without signals the semaphore keeps  *)
(* the others away, and the receiver thread as well.                       *)
ReadersOK ==
  /\ usage \in Usages
  /\ receiver = [at |-> receiver.at, todo |-> receiver.todo]
  /\ receiver.at \in {"poll", "write"}
  /\ rxsem \in Nat
  /\ \A c \in Callers : pc[c] \in OnlyReaders => c \in usage.readers
  /\ usage.interrupted = {} =>
       /\ rxsem <= 1
       /\ receiver.at = "write" => rxsem = 0
       /\ \A c \in Callers : pc[c] \in Reading => rxsem = 0 /\ receiver.at = "poll"
  /\ \A c, d \in Callers : pc[c] \in Reading /\ pc[d] \in Reading => c = d

(* The byte copied last is the one before the first of the ring, or this   *)
(* one until the reader has moved the read index.                          *)
ReceivingOK ==
  /\ RingOK(rx, RX_SIZE)
  /\ copied = [count |-> copied.count, last |-> copied.last]
  /\ copied.count \in Numbers(RX_SIZE) /\ copied.last = copied.count
  /\ \A c \in Callers : pc[c] = "rx_inc" =>
       ~ IsEmpty(rx) /\ copied.last = rx.buf[rx.rd]
  /\ (\A c \in Callers : pc[c] # "rx_inc") =>
       copied.last = rx.buf[Prev(rx.rd, RX_SIZE)]
  /\ ReadersAreWoken

LEMMA ReadersStep ==
  ASSUME Undisturbed, GateOK, ReadersOK, [Next]_vars
  PROVE  ReadersOK'
<1> USE DEF ReadersOK, Reading, OnlyReaders, At, Goto, rxVars
<1>1. CASE UNCHANGED vars
  BY <1>1 DEF vars, callVars
<1>2. ASSUME NEW c \in Callers, Enter(c) \/ Lock(c) \/ Leave(c)  PROVE ReadersOK'
  BY <1>2 DEF Enter, Lock, Leave, GateOK, Places
<1>3. ASSUME NEW c \in Callers, Writes(c)  PROVE ReadersOK'
  BY <1>3 DEF Writes, TxDown, TxWrite, TxInc, TxUp, GateOK
<1>4. ASSUME NEW c \in Callers, Reads(c)  PROVE ReadersOK'
  <2> USE DEF GateOK
  <2>1. CASE RxLeave(c)
    BY <2>1 DEF RxLeave
  <2>2. CASE RxDown(c)
    <3>1. /\ c \in usage.readers /\ pc' = [pc EXCEPT ![c] = pc'[c]]
          /\ pc[c] \in {"rx_down", "rx_again"} /\ pc'[c] \in {"rx_test", "rx_copy"}
          /\ UNCHANGED <<usage, receiver>>
          /\ (rxsem > 0 /\ rxsem' = rxsem - 1) \/ (c \in usage.interrupted /\ rxsem' = rxsem)
      BY <2>2 DEF RxDown, Interrupted
    <3>2. CASE usage.interrupted = {}
      BY <3>1, <3>2
    <3>3. CASE usage.interrupted # {}
      <4>1. \A d \in Callers : pc'[d] \in OnlyReaders => d \in usage.readers
        BY <3>1
      <4>2. \A d, e \in usage.readers : d = e
        BY <3>3 DEF Undisturbed
      <4> QED  BY <3>1, <3>3, <4>1, <4>2
    <3> QED  BY <3>2, <3>3
  <2>3. CASE RxTest(c)
    BY <2>3 DEF RxTest
  <2>4. CASE RxWait(c)
    BY <2>4 DEF RxWait
  <2>5. CASE RxCopy(c) \/ RxInc(c)
    BY <2>5 DEF RxCopy, RxInc
  <2>6. CASE RxUp(c)
    BY <2>6 DEF RxUp
  <2>7. CASE RxEnter(c) \/ RxLock(c)
    BY <2>7 DEF RxEnter, RxLock
  <2> QED  BY <1>4, <2>1, <2>2, <2>3, <2>4, <2>5, <2>6, <2>7 DEF Reads
<1>5. CASE ReceiverDowns
  BY <1>5 DEF ReceiverDowns, callVars
<1>6. CASE ReceiverWrites
  BY <1>6 DEF ReceiverWrites, callVars
<1>7. CASE ReceiverUps
  BY <1>7 DEF ReceiverUps, Woken, GateOK
<1>8. CASE Sender
  BY <1>8 DEF Sender, SenderDowns, SenderTests, SenderReads, SenderUps, SenderSends,
              SenderSleeps, callVars
<1> QED
  BY <1>1, <1>2, <1>3, <1>4, <1>5, <1>6, <1>7, <1>8 DEF Next, Receiver

(* A step that leaves the ring alone, and lets no reader sleep or copy. *)
LEMMA SameReceiving ==
  ASSUME ReceivingOK, UNCHANGED <<rx, copied, receiver>>,
         \A c \in Callers : /\ pc'[c] = "rx_inc" <=> pc[c] = "rx_inc"
                            /\ pc'[c] = "rx_sleep" => pc[c] = "rx_sleep"
  PROVE  ReceivingOK'
BY DEF ReceivingOK, ReadersAreWoken, At

LEMMA ReceivingStep ==
  ASSUME GateOK, ReadersOK, ReceivingOK, [Next]_vars
  PROVE  ReceivingOK'
<1> USE DEF At, Goto, GateOK
<1> DEFINE last == rx.buf[Prev(rx.rd, RX_SIZE)]
<1>1. CASE UNCHANGED vars
  BY <1>1, SameReceiving DEF vars, callVars, rxVars
<1>2. ASSUME NEW c \in Callers,
             Enter(c) \/ Lock(c) \/ Leave(c) \/ Writes(c)
      PROVE  ReceivingOK'
  BY <1>2, SameReceiving
  DEF Enter, Lock, Leave, Writes, TxDown, TxWrite, TxInc, TxUp, rxVars
<1>3. ASSUME NEW c \in Callers,
             RxLeave(c) \/ RxDown(c) \/ RxTest(c) \/ RxUp(c) \/ RxEnter(c) \/ RxLock(c)
      PROVE  ReceivingOK'
  <2>1. CASE RxLeave(c) \/ RxDown(c)
    BY <2>1, SameReceiving DEF RxLeave, RxDown, rxVars
  <2>2. CASE RxTest(c) \/ RxUp(c)
    BY <2>2, SameReceiving DEF RxTest, RxUp
  <2>3. CASE RxEnter(c) \/ RxLock(c)
    BY <2>3, SameReceiving DEF RxEnter, RxLock, rxVars
  <2> QED  BY <1>3, <2>1, <2>2, <2>3
<1>4. ASSUME NEW c \in Callers, RxWait(c)  PROVE ReceivingOK'
  BY <1>4 DEF RxWait, rxVars, ReceivingOK, ReadersAreWoken
<1>5. ASSUME NEW c \in Callers, RxCopy(c)  PROVE ReceivingOK'
  <2>1. /\ pc[c] = "rx_copy" /\ ~ IsEmpty(rx) /\ pc' = [pc EXCEPT ![c] = "rx_inc"]
        /\ copied' = [count |-> (copied.count + 1) % (2 * RX_SIZE), last |-> rx.buf[rx.rd]]
        /\ UNCHANGED <<rx, receiver>>
    BY <1>5 DEF RxCopy, Counted
  <2>2. \A d \in Callers : pc[d] # "rx_inc" /\ (pc'[d] = "rx_sleep" => pc[d] = "rx_sleep")
    BY <2>1 DEF ReadersOK, Reading
  <2>3. copied.count = last
    BY <2>2 DEF ReceivingOK
  <2>4. rx.buf[rx.rd] = Succ(last, RX_SIZE) /\ rx.buf[rx.rd] \in Numbers(RX_SIZE)
    BY <2>1, Sizes, TakeOK DEF ReceivingOK, RingOK
  <2>5. /\ copied' = [count |-> copied'.count, last |-> copied'.last]
        /\ copied'.last = rx.buf[rx.rd] /\ copied'.count = copied'.last
        /\ copied'.count \in Numbers(RX_SIZE)
    BY <2>1, <2>3, <2>4 DEF Succ
  <2> QED  BY <2>1, <2>2, <2>5 DEF ReceivingOK, ReadersAreWoken
<1>6. ASSUME NEW c \in Callers, RxInc(c)  PROVE ReceivingOK'
  <2>1. /\ pc[c] = "rx_inc" /\ ~ IsEmpty(rx) /\ pc' = [pc EXCEPT ![c] = "rx_copy"]
        /\ rx' = [rx EXCEPT !.rd = Inc(rx.rd, RX_SIZE)]
        /\ copied.last = rx.buf[rx.rd]
        /\ UNCHANGED <<copied, receiver>>
    BY <1>6 DEF RxInc, ReceivingOK
  <2>2. RingOK(rx', RX_SIZE) /\ rx'.buf = rx.buf /\ Prev(rx'.rd, RX_SIZE) = rx.rd
    BY <2>1, Sizes, TakeOK DEF ReceivingOK
  <2>3. \A d \in Callers : pc'[d] # "rx_inc" /\ (pc'[d] = "rx_sleep" => pc[d] = "rx_sleep")
    BY <2>1 DEF ReadersOK, Reading
  <2> QED  BY <2>1, <2>2, <2>3 DEF ReceivingOK, ReadersAreWoken
<1>7. CASE ReceiverDowns
  BY <1>7 DEF ReceiverDowns, callVars, ReceivingOK, ReadersAreWoken
<1>8. CASE ReceiverWrites
  <2> DEFINE e == [rx EXCEPT !.buf[rx.wr] = NextByte(rx, RX_SIZE)]
             f == [e EXCEPT !.wr = Inc(e.wr, RX_SIZE)]
  <2>1. /\ rx' = Written(rx, RX_SIZE) /\ ~ IsFull(rx, RX_SIZE) /\ receiver.at = "write"
        /\ receiver'.at = "write" /\ UNCHANGED <<pc, copied>>
    BY <1>8 DEF ReceiverWrites, callVars, ReadersOK
  <2>2. RingOK(rx, RX_SIZE) /\ RX_SIZE \in Nat \ {0}
    BY Sizes DEF ReceivingOK
  <2>3. /\ RingOK(e, RX_SIZE) /\ e.rd = rx.rd /\ e.wr = rx.wr
        /\ e.buf[rx.wr] = Succ(e.buf[Prev(rx.wr, RX_SIZE)], RX_SIZE)
        /\ e.buf[Prev(rx.rd, RX_SIZE)] = last
        /\ ~ IsEmpty(rx) => e.buf[rx.rd] = rx.buf[rx.rd]
    BY <2>1, <2>2, StoreOK
  <2>4. rx' = f
    <3>1. rx = [buf |-> rx.buf, rd |-> rx.rd, wr |-> rx.wr]
      BY <2>2 DEF RingOK
    <3> QED  BY <2>1, <3>1 DEF Written
  <2> HIDE DEF e
  <2>5. ~ IsFull(e, RX_SIZE)
    BY <2>1, <2>3 DEF IsFull
  <2>6. RingOK(f, RX_SIZE) /\ f.rd = e.rd /\ f.buf = e.buf /\ ~ IsEmpty(f)
    BY <2>2, <2>3, <2>5, CommitOK
  <2> HIDE DEF f
  <2> QED  BY <2>1, <2>3, <2>4, <2>6 DEF ReceivingOK, ReadersAreWoken
<1>9. CASE ReceiverUps
  BY <1>9 DEF ReceiverUps, Woken, ReceivingOK, ReadersAreWoken
<1>10. CASE Sender
  BY <1>10, SameReceiving
  DEF Sender, SenderDowns, SenderTests, SenderReads, SenderUps, SenderSends,
      SenderSleeps, callVars, rxVars
<1> QED
  BY <1>1, <1>2, <1>3, <1>4, <1>5, <1>6, <1>7, <1>8, <1>9, <1>10
  DEF Next, Reads, Receiver

LEMMA ReceivingHolds == Undisturbed => (Spec => [](ReadersOK /\ ReceivingOK))
<1> SUFFICES ASSUME Undisturbed  PROVE Spec => [](ReadersOK /\ ReceivingOK)
  OBVIOUS
<1>1. Init => GateOK /\ ReadersOK /\ ReceivingOK
  <2> SUFFICES ASSUME Init  PROVE GateOK /\ ReadersOK /\ ReceivingOK
    OBVIOUS
  <2>1. GateOK
    BY DEF Init, GateOK, Places, Inside
  <2>2. ReadersOK
    BY DEF Init, ReadersOK, Reading, OnlyReaders
  <2>3. /\ RingOK(rx, RX_SIZE) /\ rx.buf[Prev(rx.rd, RX_SIZE)] = 0
        /\ copied = [count |-> 0, last |-> 0]
        /\ \A c \in Callers : pc[c] = "out"
    BY Sizes, NewRing DEF Init, NothingMoved
  <2>4. 0 \in Numbers(RX_SIZE)
    BY Sizes DEF Numbers
  <2> QED  BY <2>1, <2>2, <2>3, <2>4 DEF ReceivingOK, ReadersAreWoken, At
<1>2. GateOK /\ ReadersOK /\ ReceivingOK /\ [Next]_vars
        => (GateOK /\ ReadersOK /\ ReceivingOK)'
  BY GateStep, ReadersStep, ReceivingStep
<1> QED  BY <1>1, <1>2, PTL DEF Spec

(* Every byte that is copied to a reader is the next one that came in,     *)
(* whatever the size of the ring and the number of readers, as long as no  *)
(* signal comes or only one task reads.                                    *)
THEOREM TheReadersGetTheStream == Undisturbed => (Spec => []ReadersGetTheStream)
<1>1. ReceivingOK => ReadersGetTheStream
  BY DEF ReceivingOK, ReadersGetTheStream
<1> QED  BY <1>1, ReceivingHolds, PTL

(* No reader sleeps beside data that nobody is about to wake it for.       *)
THEOREM TheReadersAreWoken == Undisturbed => (Spec => []ReadersAreWoken)
<1>1. ReceivingOK => ReadersAreWoken
  BY DEF ReceivingOK
<1> QED  BY <1>1, ReceivingHolds, PTL

-----------------------------------------------------------------------------
(* The balance of the semaphores.                                          *)

(* The callers at one of the places of H, with a semaphore that is held    *)
(* there.                                                                  *)
Standing(H) == {c \in Callers : pc[c] \in H}

WithGate == {"lock", "rx_lock"} \cup Inside
WithTx   == {"tx_write", "tx_inc"}

(* Whether the receiver and the sender thread hold the semaphore of their  *)
(* ring.                                                                   *)
ReceiverHolds == IF receiver.at = "write" THEN 1 ELSE 0
SenderHolds   == IF sender \in {"test", "read"} THEN 1 ELSE 0

(* How often a semaphore may be taken and how often it is: each time that  *)
(* it is not waited for there is one more to raise it.                     *)
BalanceOK ==
  /\ zsrmsem \in Nat /\ rxsem \in Nat /\ txsem \in Nat
  /\ ignored \in 0 .. MaxIgnored
  /\ IsFiniteSet(Standing(WithGate))
  /\ IsFiniteSet(Standing(Reading))
  /\ IsFiniteSet(Standing(WithTx))
  /\ zsrmsem + Cardinality(Standing(WithGate)) <= 1 + ignored
  /\ rxsem + Cardinality(Standing(Reading)) + ReceiverHolds <= 1 + ignored
  /\ txsem + Cardinality(Standing(WithTx)) + SenderHolds <= 1 + ignored

(* A caller that goes from one place to another is counted where it is.    *)
LEMMA Moves ==
  ASSUME pc \in [Callers -> Places], NEW c \in Callers, NEW to,
         pc' = [pc EXCEPT ![c] = to], NEW H, IsFiniteSet(Standing(H))
  PROVE  /\ IsFiniteSet(Standing(H)')
         /\ Cardinality(Standing(H)) \in Nat /\ Cardinality(Standing(H)') \in Nat
         /\ Cardinality(Standing(H)') =
              Cardinality(Standing(H)) + (IF to \in H THEN 1 ELSE 0)
                                       - (IF pc[c] \in H THEN 1 ELSE 0)
<1> DEFINE S == Standing(H)
           T == Standing(H)'
<1>1. T = IF to \in H THEN S \cup {c} ELSE S \ {c}
  BY DEF Standing
<1>2. c \in S <=> pc[c] \in H
  BY DEF Standing
<1>3. IsFiniteSet(S)
  OBVIOUS
<1> HIDE DEF S, T
<1>4. /\ IsFiniteSet(S \cup {c}) /\ IsFiniteSet(S \ {c})
      /\ Cardinality(S \cup {c}) = IF c \in S THEN Cardinality(S) ELSE Cardinality(S) + 1
      /\ Cardinality(S \ {c}) = IF c \in S THEN Cardinality(S) - 1 ELSE Cardinality(S)
  BY <1>3, FS_AddElement, FS_RemoveElement
<1>5. IsFiniteSet(T) /\ Cardinality(S) \in Nat /\ Cardinality(T) \in Nat
  BY <1>1, <1>3, <1>4, FS_CardinalityType
<1>6. Cardinality(T) = Cardinality(S) + (IF to \in H THEN 1 ELSE 0)
                                      - (IF pc[c] \in H THEN 1 ELSE 0)
  BY <1>1, <1>2, <1>4, <1>5
<1> QED  BY <1>5, <1>6 DEF S, T

(* A step of one caller: what it takes it waited for, or it is counted as  *)
(* one that did not.                                                       *)
Adds(to, from, H) == (IF to \in H THEN 1 ELSE 0) - (IF from \in H THEN 1 ELSE 0)

Moving(c) ==
  /\ pc' = [pc EXCEPT ![c] = pc'[c]]
  /\ zsrmsem' \in Nat /\ rxsem' \in Nat /\ txsem' \in Nat
  /\ ignored' \in 0 .. MaxIgnored
  /\ receiver'.at = receiver.at /\ SenderHolds' = SenderHolds
  /\ (zsrmsem' - zsrmsem) + Adds(pc'[c], pc[c], WithGate) <= ignored' - ignored
  /\ (rxsem' - rxsem) + Adds(pc'[c], pc[c], Reading) <= ignored' - ignored
  /\ (txsem' - txsem) + Adds(pc'[c], pc[c], WithTx) <= ignored' - ignored

LEMMA CallerBalance ==
  ASSUME GateOK, BalanceOK, NEW c \in Callers, Moving(c)
  PROVE  BalanceOK'
<1> DEFINE to == pc'[c]
<1>1. /\ pc' = [pc EXCEPT ![c] = to]
      /\ zsrmsem' \in Nat /\ rxsem' \in Nat /\ txsem' \in Nat
      /\ ignored' \in 0 .. MaxIgnored
      /\ receiver'.at = receiver.at /\ SenderHolds' = SenderHolds
      /\ (zsrmsem' - zsrmsem) + Adds(to, pc[c], WithGate) <= ignored' - ignored
      /\ (rxsem' - rxsem) + Adds(to, pc[c], Reading) <= ignored' - ignored
      /\ (txsem' - txsem) + Adds(to, pc[c], WithTx) <= ignored' - ignored
  BY DEF Moving
<1> HIDE DEF to
<1> DEFINE g == Cardinality(Standing(WithGate))
           r == Cardinality(Standing(Reading))
           t == Cardinality(Standing(WithTx))
<1>2. pc \in [Callers -> Places]
  BY DEF GateOK
<1>3. /\ IsFiniteSet(Standing(WithGate)') /\ g \in Nat /\ g' \in Nat
      /\ g' = g + Adds(to, pc[c], WithGate)
  BY <1>1, <1>2, Moves DEF BalanceOK, Adds
<1>4. /\ IsFiniteSet(Standing(Reading)') /\ r \in Nat /\ r' \in Nat
      /\ r' = r + Adds(to, pc[c], Reading)
  BY <1>1, <1>2, Moves DEF BalanceOK, Adds
<1>5. /\ IsFiniteSet(Standing(WithTx)') /\ t \in Nat /\ t' \in Nat
      /\ t' = t + Adds(to, pc[c], WithTx)
  BY <1>1, <1>2, Moves DEF BalanceOK, Adds
<1>6. /\ Adds(to, pc[c], WithGate) \in Int /\ Adds(to, pc[c], Reading) \in Int
      /\ Adds(to, pc[c], WithTx) \in Int
  BY DEF Adds
<1>7. /\ zsrmsem \in Nat /\ rxsem \in Nat /\ txsem \in Nat /\ ignored \in Int
      /\ zsrmsem + g <= 1 + ignored
      /\ rxsem + r + ReceiverHolds <= 1 + ignored
      /\ txsem + t + SenderHolds <= 1 + ignored
      /\ ReceiverHolds \in Int /\ SenderHolds \in Int
  BY DEF BalanceOK, ReceiverHolds, SenderHolds
<1>8. ReceiverHolds' = ReceiverHolds /\ ignored' \in Int
  BY <1>1 DEF ReceiverHolds
<1> HIDE DEF g, r, t
<1>9. zsrmsem' + g' <= 1 + ignored'
  BY <1>1, <1>3, <1>6, <1>7, <1>8
<1>10. rxsem' + r' + ReceiverHolds' <= 1 + ignored'
  BY <1>1, <1>4, <1>6, <1>7, <1>8
<1>11. txsem' + t' + SenderHolds' <= 1 + ignored'
  BY <1>1, <1>5, <1>6, <1>7, <1>8
<1> QED  BY <1>1, <1>3, <1>4, <1>5, <1>9, <1>10, <1>11 DEF BalanceOK, g, r, t

(* A step of the receiver or the sender thread: no caller goes anywhere    *)
(* where it is counted otherwise.                                          *)
LEMMA ThreadBalance ==
  ASSUME BalanceOK,
         \A c \in Callers : /\ pc'[c] \in WithGate <=> pc[c] \in WithGate
                            /\ pc'[c] \in Reading <=> pc[c] \in Reading
                            /\ pc'[c] \in WithTx <=> pc[c] \in WithTx,
         UNCHANGED <<zsrmsem, ignored>>, rxsem' \in Nat, txsem' \in Nat,
         rxsem' + ReceiverHolds' = rxsem + ReceiverHolds,
         txsem' + SenderHolds' = txsem + SenderHolds
  PROVE  BalanceOK'
<1>1. /\ Standing(WithGate)' = Standing(WithGate)
      /\ Standing(Reading)' = Standing(Reading)
      /\ Standing(WithTx)' = Standing(WithTx)
  BY DEF Standing, Reading, WithTx, WithGate, Inside
<1> DEFINE r == Cardinality(Standing(Reading))
           t == Cardinality(Standing(WithTx))
<1>2. r \in Nat /\ t \in Nat
  BY FS_CardinalityType DEF BalanceOK
<1>3. /\ ReceiverHolds \in Int /\ SenderHolds \in Int
      /\ ReceiverHolds' \in Int /\ SenderHolds' \in Int
  BY DEF ReceiverHolds, SenderHolds
<1>4. r' = r /\ t' = t
  BY <1>1
<1>5. /\ rxsem \in Nat /\ txsem \in Nat /\ ignored \in Int /\ ignored' = ignored
      /\ rxsem + r + ReceiverHolds <= 1 + ignored
      /\ txsem + t + SenderHolds <= 1 + ignored
  BY DEF BalanceOK
<1> HIDE DEF r, t
<1> DEFINE v == ReceiverHolds
           w == SenderHolds
<1>6. /\ v \in Int /\ v' \in Int /\ rxsem' \in Nat /\ rxsem' + v' = rxsem + v
      /\ w \in Int /\ w' \in Int /\ txsem' \in Nat /\ txsem' + w' = txsem + w
      /\ rxsem + r + v <= 1 + ignored /\ txsem + t + w <= 1 + ignored
  BY <1>3, <1>5
<1> HIDE DEF v, w
<1>7. ASSUME NEW a \in Nat, NEW b \in Nat, NEW n \in Nat, NEW x \in Int, NEW y \in Int,
             NEW i \in Int, a + x = b + y, b + n + y <= 1 + i
      PROVE  a + n + x <= 1 + i
  BY <1>7
<1>8. rxsem' + r' + v' <= 1 + ignored'
  BY <1>2, <1>4, <1>5, <1>6, <1>7
<1>9. txsem' + t' + w' <= 1 + ignored'
  BY <1>2, <1>4, <1>5, <1>6, <1>7
<1> QED  BY <1>1, <1>8, <1>9 DEF v, w, BalanceOK, r, t

LEMMA BalanceStep ==
  ASSUME GateOK, BalanceOK, [Next]_vars
  PROVE  BalanceOK'
<1> USE DEF At, Goto, Adds, WithGate, Inside, Reading, WithTx
<1>1. /\ pc \in [Callers -> Places] /\ zsrmsem \in Nat /\ rxsem \in Nat /\ txsem \in Nat
      /\ ignored \in 0 .. MaxIgnored /\ MaxIgnored \in Nat
  BY SizesAssumption DEF GateOK, BalanceOK
<1>2. CASE UNCHANGED vars
  BY <1>1, <1>2, ThreadBalance
  DEF vars, callVars, rxVars, txVars, ReceiverHolds, SenderHolds
<1>3. ASSUME NEW c \in Callers, Enter(c) \/ Lock(c) \/ Leave(c)  PROVE Moving(c)
  <2> USE DEF rxVars, txVars, SenderHolds
  <2>1. CASE Enter(c)
    BY <1>1, <2>1 DEF Moving, Enter
  <2>2. CASE Lock(c)
    BY <1>1, <2>2 DEF Moving, Lock
  <2>3. CASE Leave(c)
    BY <1>1, <2>3 DEF Moving, Leave
  <2> QED  BY <1>3, <2>1, <2>2, <2>3
<1>4. ASSUME NEW c \in Callers, Reads(c)  PROVE Moving(c)
  <2> USE DEF rxVars, txVars, SenderHolds
  <2>1. CASE RxLeave(c)
    BY <1>1, <2>1 DEF Moving, RxLeave
  <2>2. CASE RxDown(c)
    BY <1>1, <2>2 DEF Moving, RxDown, Interrupted
  <2>3. CASE RxTest(c)
    BY <1>1, <2>3 DEF Moving, RxTest
  <2>4. CASE RxWait(c)
    BY <1>1, <2>4 DEF Moving, RxWait
  <2>5. CASE RxCopy(c)
    BY <1>1, <2>5 DEF Moving, RxCopy
  <2>6. CASE RxInc(c)
    BY <1>1, <2>6 DEF Moving, RxInc
  <2>7. CASE RxUp(c)
    BY <1>1, <2>7 DEF Moving, RxUp
  <2>8. CASE RxEnter(c)
    BY <1>1, <2>8 DEF Moving, RxEnter, Interrupted
  <2>9. CASE RxLock(c)
    BY <1>1, <2>9 DEF Moving, RxLock
  <2> QED  BY <1>4, <2>1, <2>2, <2>3, <2>4, <2>5, <2>6, <2>7, <2>8, <2>9 DEF Reads
<1>5. ASSUME NEW c \in Callers, Writes(c)  PROVE Moving(c)
  <2> USE DEF rxVars, SenderHolds
  <2>1. CASE TxDown(c)
    BY <1>1, <2>1 DEF Moving, TxDown, Interrupted
  <2>2. CASE TxWrite(c)
    BY <1>1, <2>2 DEF Moving, TxWrite
  <2>3. CASE TxInc(c)
    BY <1>1, <2>3 DEF Moving, TxInc
  <2>4. CASE TxUp(c)
    BY <1>1, <2>4 DEF Moving, TxUp
  <2> QED  BY <1>5, <2>1, <2>2, <2>3, <2>4 DEF Writes
<1>6. CASE Receiver
  <2> USE DEF callVars, txVars, ReceiverHolds, SenderHolds
  <2>1. CASE ReceiverDowns
    BY <1>1, <2>1, ThreadBalance DEF ReceiverDowns
  <2>2. CASE ReceiverWrites
    <3>1. receiver'.at = receiver.at
      BY <2>2 DEF ReceiverWrites
    <3> QED  BY <1>1, <2>2, <3>1, ThreadBalance DEF ReceiverWrites
  <2>3. CASE ReceiverUps
    BY <1>1, <2>3, ThreadBalance DEF ReceiverUps, Woken
  <2> QED  BY <1>6, <2>1, <2>2, <2>3 DEF Receiver
<1>7. CASE Sender
  <2> USE DEF callVars, rxVars, ReceiverHolds, SenderHolds
  <2>1. CASE SenderDowns
    BY <1>1, <2>1, ThreadBalance DEF SenderDowns
  <2>2. CASE SenderTests
    BY <1>1, <2>2, ThreadBalance DEF SenderTests
  <2>3. CASE SenderReads
    BY <1>1, <2>3, ThreadBalance DEF SenderReads
  <2>4. CASE SenderUps
    BY <1>1, <2>4, ThreadBalance DEF SenderUps
  <2>5. CASE SenderSends
    BY <1>1, <2>5, ThreadBalance DEF SenderSends
  <2>6. CASE SenderSleeps
    BY <1>1, <2>6, ThreadBalance DEF SenderSleeps
  <2> QED  BY <1>7, <2>1, <2>2, <2>3, <2>4, <2>5, <2>6 DEF Sender
<1> QED  BY <1>2, <1>3, <1>4, <1>5, <1>6, <1>7, CallerBalance DEF Next

-----------------------------------------------------------------------------
(* The rest of the type invariant.  A caller moves its index only after it *)
(* has moved a byte it still had to move.                                  *)
MovingOK ==
  /\ usage \in Usages
  /\ todo \in [Callers -> 0 .. MAX_LEN]
  /\ \A c \in Callers : pc[c] \in {"rx_inc", "tx_inc"} => todo[c] > 0
  /\ rx = [buf |-> rx.buf, rd |-> rx.rd, wr |-> rx.wr]
  /\ rx.rd \in 0 .. RX_SIZE - 1 /\ rx.wr \in 0 .. RX_SIZE - 1
  /\ Len(hand) <= MAX_LEN

LEMMA MovingStep ==
  ASSUME GateOK, SendingOK, MovingOK, [Next]_vars
  PROVE  MovingOK'
<1> USE DEF MovingOK, At, Goto, ToMove
<1>1. /\ pc \in [Callers -> Places] /\ hand \in Seq(Numbers(TX_SIZE)) /\ Len(hand) \in Nat
      /\ MAX_LEN \in Nat \ {0} /\ BATCH \in Nat \ {0} /\ RX_SIZE \in Nat \ {0}
  BY Sizes DEF GateOK, SendingOK
<1>2. CASE UNCHANGED vars
  BY <1>2 DEF vars, callVars, rxVars, txVars
<1>3. ASSUME NEW c \in Callers, Enter(c) \/ Lock(c) \/ Leave(c)  PROVE MovingOK'
  BY <1>1, <1>3 DEF Enter, Lock, Leave, rxVars, txVars
<1>4. ASSUME NEW c \in Callers, Reads(c)  PROVE MovingOK'
  <2> USE DEF rxVars, txVars
  <2>1. CASE RxLeave(c) \/ RxEnter(c) \/ RxLock(c)
    BY <1>1, <2>1 DEF RxLeave, RxEnter, RxLock
  <2>2. CASE RxDown(c) \/ RxUp(c)
    <3>1. PICK n \in 0 .. MAX_LEN : todo' = [todo EXCEPT ![c] = n]
      <4>1. CASE RxDown(c)
        <5> HIDE DEF MovingOK, At, Goto
        <5>1. PICK n \in 1 .. MAX_LEN : todo' = [todo EXCEPT ![c] = n]
          BY <4>1 DEF RxDown
        <5>2. n \in 0 .. MAX_LEN
          BY <1>1, <5>1
        <5> QED  BY <5>1, <5>2
      <4>2. CASE RxUp(c)
        <5>1. todo' = [todo EXCEPT ![c] = 0] /\ 0 \in 0 .. MAX_LEN
          BY <4>2, <1>1 DEF RxUp
        <5> QED  BY <5>1
      <4> QED  BY <2>2, <4>1, <4>2
    <3>2. PICK to \in {"rx_test", "rx_copy", "rx_enter"} : pc' = [pc EXCEPT ![c] = to]
      BY <2>2 DEF RxDown, RxUp
    <3>3. UNCHANGED <<usage, rx, hand>>
      BY <2>2 DEF RxDown, RxUp
    <3> QED  BY <1>1, <3>1, <3>2, <3>3
  <2>3. CASE RxTest(c) \/ RxWait(c) \/ RxCopy(c)
    BY <1>1, <2>3 DEF RxTest, RxWait, RxCopy
  <2>4. CASE RxInc(c)
    <3>1. /\ rx' = [rx EXCEPT !.rd = Inc(rx.rd, RX_SIZE)] /\ UNCHANGED <<usage, hand>>
          /\ todo' = [todo EXCEPT ![c] = todo[c] - 1] /\ pc[c] = "rx_inc"
          /\ pc' = [pc EXCEPT ![c] = "rx_copy"]
      BY <2>4 DEF RxInc
    <3>2. Inc(rx.rd, RX_SIZE) \in 0 .. RX_SIZE - 1
      BY <1>1, IncPrev
    <3>3. todo[c] - 1 \in 0 .. MAX_LEN
      BY <1>1, <3>1
    <3> DEFINE i == Inc(rx.rd, RX_SIZE)
    <3> HIDE DEF i
    <3>4. rx' = [buf |-> rx.buf, rd |-> i, wr |-> rx.wr]
      BY <3>1 DEF i
    <3> QED  BY <1>1, <3>1, <3>2, <3>3, <3>4 DEF i
  <2> QED  BY <1>4, <2>1, <2>2, <2>3, <2>4 DEF Reads
<1>5. ASSUME NEW c \in Callers, Writes(c)  PROVE MovingOK'
  <2> USE DEF rxVars
  <2>1. CASE TxDown(c)
    <3>1. PICK n \in 1 .. MAX_LEN : todo' = [todo EXCEPT ![c] = n]
      BY <2>1 DEF TxDown
    <3>2. pc' = [pc EXCEPT ![c] = "tx_write"] /\ UNCHANGED <<usage, rx, hand>>
      BY <2>1 DEF TxDown
    <3> QED  BY <1>1, <3>1, <3>2
  <2>2. CASE TxUp(c)
    <3>1. todo' = [todo EXCEPT ![c] = 0] /\ pc' = [pc EXCEPT ![c] = "leave"]
          /\ UNCHANGED <<usage, rx, hand>>
      BY <2>2 DEF TxUp
    <3> QED  BY <1>1, <3>1
  <2>3. CASE TxWrite(c)
    BY <1>1, <2>3 DEF TxWrite
  <2>4. CASE TxInc(c)
    BY <1>1, <2>4 DEF TxInc
  <2> QED  BY <1>5, <2>1, <2>2, <2>3, <2>4 DEF Writes
<1>6. CASE Receiver
  <2> USE DEF callVars, txVars
  <2>1. CASE ReceiverDowns
    BY <2>1 DEF ReceiverDowns
  <2>2. CASE ReceiverWrites
    <3> DEFINE x == NextByte(rx, RX_SIZE)
               i == Inc(rx.wr, RX_SIZE)
               b == [rx.buf EXCEPT ![rx.wr] = x]
    <3>1. rx' = [rx EXCEPT !.buf[rx.wr] = x, !.wr = i]
          /\ UNCHANGED <<usage, pc, todo, hand>>
      BY <2>2 DEF ReceiverWrites, Written
    <3>2. i \in 0 .. RX_SIZE - 1
      BY <1>1, IncPrev
    <3> HIDE DEF x, i
    <3>3. rx' = [buf |-> b, rd |-> rx.rd, wr |-> i]
      BY <3>1
    <3> HIDE DEF b
    <3> QED  BY <3>1, <3>2, <3>3
  <2>3. CASE ReceiverUps
    BY <1>1, <2>3 DEF ReceiverUps, Woken
  <2> QED  BY <1>6, <2>1, <2>2, <2>3 DEF Receiver
<1>7. CASE Sender
  <2> USE DEF callVars, rxVars
  <2>1. CASE SenderDowns \/ SenderTests \/ SenderUps \/ SenderSleeps
    BY <2>1 DEF SenderDowns, SenderTests, SenderUps, SenderSleeps
  <2>2. CASE SenderReads
    BY <1>1, <2>2 DEF SenderReads
  <2>3. CASE SenderSends
    <3> DEFINE n == IF Len(hand) > BATCH THEN BATCH ELSE Len(hand)
    <3>1. hand' = SubSeq(hand, n + 1, Len(hand)) /\ UNCHANGED <<usage, pc, todo, rx>>
      BY <2>3 DEF SenderSends
    <3>2. n \in 0 .. Len(hand)
      BY <1>1
    <3> HIDE DEF n
    <3>3. Len(hand') = Len(hand) - n
      BY <1>1, <3>1, <3>2
    <3>4. Len(hand') <= MAX_LEN
      BY <1>1, <3>2, <3>3
    <3> QED  BY <3>1, <3>4
  <2> QED  BY <1>7, <2>1, <2>2, <2>3 DEF Sender
<1> QED  BY <1>2, <1>3, <1>4, <1>5, <1>6, <1>7 DEF Next

(* Every variable stays in its range, and no semaphore is ever raised      *)
(* higher than one, except once for each time that a signal let somebody   *)
(* go on without it: what is free of it and those who hold it never add up *)
(* to more.                                                                *)
THEOREM SemaphoresAreBalanced == Spec => []TypeOK
<1>1. Init => BalanceOK /\ MovingOK
  <2> SUFFICES ASSUME Init  PROVE BalanceOK /\ MovingOK
    OBVIOUS
  <2>1. /\ Standing(WithGate) = {} /\ Standing(Reading) = {} /\ Standing(WithTx) = {}
        /\ ReceiverHolds = 0 /\ SenderHolds = 0
    BY DEF Init, Standing, WithGate, Inside, Reading, WithTx, ReceiverHolds, SenderHolds
  <2>2. BalanceOK
    BY <2>1, FS_EmptySet, SizesAssumption DEF Init, BalanceOK
  <2>3. MovingOK
    BY Sizes DEF Init, MovingOK, Ring
  <2> QED  BY <2>2, <2>3
<1>2. GateOK /\ SendingOK /\ BalanceOK /\ MovingOK => TypeOK
  <2> SUFFICES ASSUME GateOK, SendingOK, BalanceOK, MovingOK  PROVE TypeOK
    OBVIOUS
  <2>1. ReceiverHolds \in Nat /\ SenderHolds \in Nat
    BY DEF ReceiverHolds, SenderHolds
  <2>2. /\ Cardinality(Standing(WithGate)) \in Nat
        /\ Cardinality(Standing(Reading)) \in Nat
        /\ Cardinality(Standing(WithTx)) \in Nat
    BY FS_CardinalityType DEF BalanceOK
  <2>3. ASSUME NEW a \in Nat, NEW b \in Nat, NEW n \in Nat, NEW i \in Nat,
               a + b + n <= 1 + i
        PROVE  a \in 0 .. 1 + i
    BY <2>3
  <2>4. ignored \in Nat
    BY SizesAssumption DEF BalanceOK
  <2>5. {zsrmsem, rxsem, txsem} \subseteq 0 .. 1 + ignored
    <3>1. zsrmsem \in 0 .. 1 + ignored
      BY <2>2, <2>4 DEF BalanceOK
    <3>2. rxsem \in 0 .. 1 + ignored
      BY <2>1, <2>2, <2>3, <2>4 DEF BalanceOK
    <3>3. txsem \in 0 .. 1 + ignored
      BY <2>1, <2>2, <2>3, <2>4 DEF BalanceOK
    <3> QED  BY <3>1, <3>2, <3>3
  <2> QED  BY <2>5 DEF TypeOK, GateOK, SendingOK, BalanceOK, MovingOK, RingOK, Numbers
<1>3. GateOK /\ BalanceOK /\ [Next]_vars => BalanceOK'
  BY BalanceStep
<1>4. GateOK /\ SendingOK /\ MovingOK /\ [Next]_vars => MovingOK'
  BY MovingStep
<1> QED  BY <1>1, <1>2, <1>3, <1>4, SendingHolds, PTL DEF Spec

=============================================================================
