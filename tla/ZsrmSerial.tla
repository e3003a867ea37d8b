----------------------------- MODULE ZsrmSerial -----------------------------
(***************************************************************************)
(* The serial driver of the kernel module: the receiving and the sending   *)
(* ring, the receiver and the sender thread, and the callers of            *)
(* RECV_SERIAL and SEND_SERIAL, who pass through the gate of the system    *)
(* calls (zsrmsem, then zsrmlock).  RECV_SERIAL leaves the gate while it   *)
(* waits for input.  A thread that is interrupted by a signal while it     *)
(* waits for a semaphore goes on without it, except at the gate; it raises *)
(* the semaphore afterwards all the same.                                  *)
(*                                                                         *)
(* Bytes are told apart by their place in the stream, counted modulo twice *)
(* the size of the ring they go through.                                   *)
(***************************************************************************)
EXTENDS Integers, Sequences

CONSTANTS
  Callers,   \* tasks that use the driver
  Usages,    \* the [readers, interrupted] among them, of an application
  RX_SIZE,   \* SERIAL_RECEIVING_BUFFER_SIZE
  TX_SIZE,   \* SERIAL_SENDING_BUFFER_SIZE
  MAX_LEN,   \* bytes in one call or one hypercall, 100 in the threads
  BATCH,     \* bytes sent to the hypervisor at once, 8 in the code
  MaxIgnored \* a bound on the semaphores that are not waited for

ASSUME SizesAssumption ==
  /\ {RX_SIZE, TX_SIZE, MAX_LEN, BATCH} \subseteq Nat \ {0}
  /\ MaxIgnored \in Nat
ASSUME UsagesAssumption ==
  Usages \subseteq [readers : SUBSET Callers, interrupted : SUBSET Callers]

VARIABLES
  usage,      \* how the driver is used, fixed
  pc, todo,   \* where a caller is, and how many bytes it still has to move
  zsrmsem,    \* the semaphore of the gate
  zsrmlock,   \* whether a system call holds the spin lock
  rx,         \* the receiving ring
  rxsem,      \* serial_buffer_sem
  receiver,   \* the receiver thread: [at, todo]
  tx,         \* the sending ring
  txsem,      \* serial_sending_buffer_sem
  sender,     \* where the sender thread is
  hand,       \* the bytes the sender thread has taken and not yet sent
  copied,     \* bytes copied to readers: how many, and the last one
  wired,      \* bytes sent to the hypervisor: how many, and the last one
  ignored     \* how many semaphores were not waited for

callVars == <<usage, pc, todo, zsrmsem, zsrmlock>>
rxVars   == <<rx, rxsem, receiver, copied>>
txVars   == <<tx, txsem, sender, hand, wired>>
vars == <<callVars, rxVars, txVars, ignored>>

-----------------------------------------------------------------------------
(* The rings.  One place stays free, to tell a full ring from an empty one. *)

Ring(size) == [buf |-> [i \in 0 .. size - 1 |-> 0], rd |-> 0, wr |-> 0]

(* SERIAL_RECEIVING_CIRCULAR_INC, SERIAL_SENDING_CIRCULAR_INC *)
Inc(i, size) == IF i = size - 1 THEN 0 ELSE i + 1

IsEmpty(q) == q.wr = q.rd

(* Faulty: the last free place is written. *)
NeverFull(q, size) == FALSE

IsFull(q, size) == Inc(q.wr, size) = q.rd

(* The number of the byte that is written next. *)
NextByte(q, size) ==
  LET last == IF q.wr = 0 THEN size - 1 ELSE q.wr - 1
  IN  (q.buf[last] + 1) % (2 * size)

Written(q, size) ==
  [q EXCEPT !.buf[q.wr] = NextByte(q, size), !.wr = Inc(q.wr, size)]

NothingMoved == [count |-> 0, last |-> 0]

Counted(moved, n, byte, size) ==
  [count |-> (moved.count + n) % (2 * size), last |-> byte]

-----------------------------------------------------------------------------
Init ==
  /\ usage \in Usages
  /\ pc = [c \in Callers |-> "out"] /\ todo = [c \in Callers |-> 0]
  /\ zsrmsem = 1 /\ zsrmlock = FALSE
  /\ rx = Ring(RX_SIZE) /\ rxsem = 1 /\ receiver = [at |-> "poll", todo |-> 0]
  /\ tx = Ring(TX_SIZE) /\ txsem = 1 /\ sender = "down" /\ hand = <<>>
  /\ copied = NothingMoved /\ wired = NothingMoved
  /\ ignored = 0

At(c, from)   == pc[c] = from
Goto(c, to)   == pc' = [pc EXCEPT ![c] = to]
ToMove(c, n)  == todo' = [todo EXCEPT ![c] = n]

(* A semaphore of value n is not waited for by an interrupted caller. *)
Interrupted(c, n) ==
  n = 0 /\ c \in usage.interrupted /\ ignored < MaxIgnored /\ ignored' = ignored + 1

-----------------------------------------------------------------------------
(* The gate: zsrm_write.                                                   *)

Enter(c) ==
  /\ At(c, "out") /\ zsrmsem > 0
  /\ zsrmsem' = zsrmsem - 1
  /\ Goto(c, "lock")
  /\ UNCHANGED <<usage, todo, zsrmlock, rxVars, txVars, ignored>>

(* Faulty: SEND_SERIAL does not hold the spin lock. *)
LockToReceive(c) ==
  /\ At(c, "lock") /\ ~ zsrmlock
  /\ \/ c \in usage.readers /\ zsrmlock' = TRUE /\ Goto(c, "rx_leave")
     \/ UNCHANGED zsrmlock /\ Goto(c, "tx_down")
  /\ UNCHANGED <<usage, todo, zsrmsem, rxVars, txVars, ignored>>

Lock(c) ==
  /\ At(c, "lock") /\ ~ zsrmlock
  /\ zsrmlock' = TRUE
  /\ \E call \in {"tx_down"} \cup (IF c \in usage.readers THEN {"rx_leave"} ELSE {}) :
       Goto(c, call)
  /\ UNCHANGED <<usage, todo, zsrmsem, rxVars, txVars, ignored>>

Leave(c) ==
  /\ At(c, "leave")
  /\ zsrmlock' = FALSE /\ zsrmsem' = zsrmsem + 1
  /\ Goto(c, "out")
  /\ UNCHANGED <<usage, todo, rxVars, txVars, ignored>>

-----------------------------------------------------------------------------
(* receive and serial_receiving_buffer_read                                *)

(* Everything is released for the time of the read. *)
RxLeave(c) ==
  /\ At(c, "rx_leave")
  /\ zsrmlock' = FALSE /\ zsrmsem' = zsrmsem + 1
  /\ Goto(c, "rx_down")
  /\ UNCHANGED <<usage, todo, rxVars, txVars, ignored>>

(* Faulty: the semaphore is not taken again after the wait. *)
RxDownOnce(c) ==
  /\ \/ At(c, "rx_down") /\ Goto(c, "rx_test") /\ rxsem > 0 /\ rxsem' = rxsem - 1
     \/ At(c, "rx_again") /\ Goto(c, "rx_copy") /\ UNCHANGED rxsem
  /\ \E n \in 1 .. MAX_LEN : ToMove(c, n)
  /\ UNCHANGED <<usage, zsrmsem, zsrmlock, rx, receiver, copied, txVars, ignored>>

RxDown(c) ==
  /\ \/ At(c, "rx_down") /\ Goto(c, "rx_test")
     \/ At(c, "rx_again") /\ Goto(c, "rx_copy")
  /\ \/ rxsem > 0 /\ rxsem' = rxsem - 1 /\ UNCHANGED ignored
     \/ Interrupted(c, rxsem) /\ UNCHANGED rxsem
  /\ \E n \in 1 .. MAX_LEN : ToMove(c, n)
  /\ UNCHANGED <<usage, zsrmsem, zsrmlock, rx, receiver, copied, txVars>>

RxTest(c) ==
  /\ At(c, "rx_test")
  /\ IF IsEmpty(rx) THEN Goto(c, "rx_wait") /\ rxsem' = rxsem + 1
                    ELSE Goto(c, "rx_copy") /\ UNCHANGED rxsem
  /\ UNCHANGED <<usage, todo, zsrmsem, zsrmlock, rx, receiver, copied, txVars, ignored>>

(* wait_event_interruptible: a thread tests the condition after it has put *)
(* itself into the wait queue, without the semaphore.                      *)
RxWait(c) ==
  /\ \/ At(c, "rx_wait") /\ Goto(c, IF IsEmpty(rx) THEN "rx_sleep" ELSE "rx_again")
     \/ /\ At(c, "rx_sleep") /\ c \in usage.interrupted
        /\ Goto(c, "rx_again")
  /\ UNCHANGED <<usage, todo, zsrmsem, zsrmlock, rxVars, txVars, ignored>>

RxCopy(c) ==
  /\ At(c, "rx_copy") /\ ~ IsEmpty(rx) /\ todo[c] > 0
  /\ copied' = Counted(copied, 1, rx.buf[rx.rd], RX_SIZE)
  /\ Goto(c, "rx_inc")
  /\ UNCHANGED <<usage, todo, zsrmsem, zsrmlock, rx, rxsem, receiver, txVars, ignored>>

RxInc(c) ==
  /\ At(c, "rx_inc")
  /\ rx' = [rx EXCEPT !.rd = Inc(@, RX_SIZE)]
  /\ ToMove(c, todo[c] - 1)
  /\ Goto(c, "rx_copy")
  /\ UNCHANGED <<usage, zsrmsem, zsrmlock, rxsem, receiver, copied, txVars, ignored>>

RxUp(c) ==
  /\ At(c, "rx_copy") /\ (IsEmpty(rx) \/ todo[c] = 0)
  /\ rxsem' = rxsem + 1
  /\ ToMove(c, 0)
  /\ Goto(c, "rx_enter")
  /\ UNCHANGED <<usage, zsrmsem, zsrmlock, rx, receiver, copied, txVars, ignored>>

(* The gate once more; a failure is reported and the call goes on. *)
RxEnter(c) ==
  /\ At(c, "rx_enter")
  /\ \/ zsrmsem > 0 /\ zsrmsem' = zsrmsem - 1 /\ UNCHANGED ignored
     \/ Interrupted(c, zsrmsem) /\ UNCHANGED zsrmsem
  /\ Goto(c, "rx_lock")
  /\ UNCHANGED <<usage, todo, zsrmlock, rxVars, txVars>>

RxLock(c) ==
  /\ At(c, "rx_lock") /\ ~ zsrmlock
  /\ zsrmlock' = TRUE
  /\ Goto(c, "leave")
  /\ UNCHANGED <<usage, todo, zsrmsem, rxVars, txVars, ignored>>

-----------------------------------------------------------------------------
(* send and serial_sending_buffer_write                                    *)

TxDown(c) ==
  /\ At(c, "tx_down")
  /\ \/ txsem > 0 /\ txsem' = txsem - 1 /\ UNCHANGED ignored
     \/ Interrupted(c, txsem) /\ UNCHANGED txsem
  /\ \E n \in 1 .. MAX_LEN : ToMove(c, n)
  /\ Goto(c, "tx_write")
  /\ UNCHANGED <<usage, zsrmsem, zsrmlock, rxVars, tx, sender, hand, wired>>

TxWrite(c) ==
  /\ At(c, "tx_write") /\ ~ IsFull(tx, TX_SIZE) /\ todo[c] > 0
  /\ tx' = [tx EXCEPT !.buf[tx.wr] = NextByte(tx, TX_SIZE)]
  /\ Goto(c, "tx_inc")
  /\ UNCHANGED <<usage, todo, zsrmsem, zsrmlock, rxVars, txsem, sender, hand, wired, ignored>>

TxInc(c) ==
  /\ At(c, "tx_inc")
  /\ tx' = [tx EXCEPT !.wr = Inc(@, TX_SIZE)]
  /\ ToMove(c, todo[c] - 1)
  /\ Goto(c, "tx_write")
  /\ UNCHANGED <<usage, zsrmsem, zsrmlock, rxVars, txsem, sender, hand, wired, ignored>>

(* What does not fit is dropped; the sender thread is woken in any case. *)
TxUp(c) ==
  /\ At(c, "tx_write") /\ (IsFull(tx, TX_SIZE) \/ todo[c] = 0)
  /\ sender' = IF sender = "asleep" THEN "down" ELSE sender
  /\ txsem' = txsem + 1
  /\ ToMove(c, 0)
  /\ Goto(c, "leave")
  /\ UNCHANGED <<usage, zsrmsem, zsrmlock, rxVars, tx, hand, wired, ignored>>

-----------------------------------------------------------------------------
(* serial_receiver_task and serial_receiving_buffer_write                  *)

(* The thread has polled n bytes from the hypervisor and waits for the ring. *)
ReceiverDowns ==
  /\ receiver.at = "poll" /\ rxsem > 0
  /\ \E n \in 1 .. MAX_LEN : receiver' = [at |-> "write", todo |-> n]
  /\ rxsem' = rxsem - 1
  /\ UNCHANGED <<callVars, rx, copied, txVars, ignored>>

ReceiverWrites ==
  /\ receiver.at = "write" /\ ~ IsFull(rx, RX_SIZE) /\ receiver.todo > 0
  /\ rx' = Written(rx, RX_SIZE)
  /\ receiver' = [receiver EXCEPT !.todo = @ - 1]
  /\ UNCHANGED <<callVars, rxsem, copied, txVars, ignored>>

(* Faulty: the sleeping readers are not told when the ring is full. *)
WokenUnlessFull ==
  IF IsFull(rx, RX_SIZE) THEN {} ELSE {c \in Callers : At(c, "rx_sleep")}

(* wake_up_interruptible wakes every reader that sleeps. *)
Woken == {c \in Callers : At(c, "rx_sleep")}

ReceiverUps ==
  /\ receiver.at = "write" /\ (IsFull(rx, RX_SIZE) \/ receiver.todo = 0)
  /\ receiver' = [at |-> "poll", todo |-> 0]
  /\ pc' = [c \in Callers |-> IF c \in Woken THEN "rx_wait" ELSE pc[c]]
  /\ rxsem' = rxsem + 1
  /\ UNCHANGED <<usage, todo, zsrmsem, zsrmlock, rx, copied, txVars, ignored>>

-----------------------------------------------------------------------------
(* serial_sending_task and serial_sending_buffer_read                      *)

SenderDowns ==
  /\ sender = "down" /\ txsem > 0
  /\ txsem' = txsem - 1
  /\ sender' = "test"
  /\ UNCHANGED <<callVars, rxVars, tx, hand, wired, ignored>>

SenderTests ==
  /\ sender = "test"
  /\ IF IsEmpty(tx) THEN sender' = "idle" /\ txsem' = txsem + 1
                    ELSE sender' = "read" /\ UNCHANGED txsem
  /\ UNCHANGED <<callVars, rxVars, tx, hand, wired, ignored>>

SenderReads ==
  /\ sender = "read" /\ ~ IsEmpty(tx) /\ Len(hand) < MAX_LEN
  /\ hand' = Append(hand, tx.buf[tx.rd])
  /\ tx' = [tx EXCEPT !.rd = Inc(@, TX_SIZE)]
  /\ UNCHANGED <<callVars, rxVars, txsem, sender, wired, ignored>>

SenderUps ==
  /\ sender = "read" /\ (IsEmpty(tx) \/ Len(hand) = MAX_LEN)
  /\ sender' = (IF hand = <<>> THEN "idle" ELSE "send") /\ txsem' = txsem + 1
  /\ UNCHANGED <<callVars, rxVars, tx, hand, wired, ignored>>

(* One batch, once the hypervisor's side accepts data. *)
SenderSends ==
  /\ sender = "send"
  /\ LET n == IF Len(hand) > BATCH THEN BATCH ELSE Len(hand)
     IN  /\ wired' = Counted(wired, n, hand[n], TX_SIZE)
         /\ hand' = SubSeq(hand, n + 1, Len(hand))
         /\ sender' = IF n = Len(hand) THEN "down" ELSE sender
  /\ UNCHANGED <<callVars, rxVars, tx, txsem, ignored>>

(* set_current_state(TASK_INTERRUPTIBLE), without a look at the ring. *)
SenderSleeps ==
  /\ sender = "idle"
  /\ sender' = "asleep"
  /\ UNCHANGED <<callVars, rxVars, tx, txsem, hand, wired, ignored>>

-----------------------------------------------------------------------------
Reads(c)  == RxLeave(c) \/ RxDown(c) \/ RxTest(c) \/ RxWait(c) \/ RxCopy(c)
               \/ RxInc(c) \/ RxUp(c) \/ RxEnter(c) \/ RxLock(c)
Writes(c) == TxDown(c) \/ TxWrite(c) \/ TxInc(c) \/ TxUp(c)
Receiver  == ReceiverDowns \/ ReceiverWrites \/ ReceiverUps
Sender    == SenderDowns \/ SenderTests \/ SenderReads \/ SenderUps
               \/ SenderSends \/ SenderSleeps

Next == \/ \E c \in Callers : Enter(c) \/ Lock(c) \/ Leave(c) \/ Reads(c) \/ Writes(c)
        \/ Receiver \/ Sender

Spec == Init /\ [][Next]_vars

-----------------------------------------------------------------------------
(* The type invariant, with the balance of the three semaphores: what is   *)
(* free and what is held never adds up to more than one, but for the       *)
(* semaphores that were not waited for.                                    *)
TypeOK ==
  /\ usage \in Usages
  /\ todo \in [Callers -> 0 .. MAX_LEN]
  /\ ignored \in 0 .. MaxIgnored
  /\ zsrmlock \in BOOLEAN
  /\ {zsrmsem, rxsem, txsem} \subseteq 0 .. 1 + ignored
  /\ rx.rd \in 0 .. RX_SIZE - 1 /\ rx.wr \in 0 .. RX_SIZE - 1
  /\ tx.rd \in 0 .. TX_SIZE - 1 /\ tx.wr \in 0 .. TX_SIZE - 1
  /\ hand \in Seq(0 .. 2 * TX_SIZE - 1) /\ Len(hand) <= MAX_LEN

(* The n-th byte copied to a reader is the n-th byte the ring took, with   *)
(* any number of readers as long as none of them is interrupted, and with  *)
(* one reader whatever happens: the two ends of the ring never meet.       *)
ReadersGetTheStream == copied.last = copied.count

(* The n-th byte that goes out is the n-th one that was accepted from any  *)
(* sender: even with semaphores that were not waited for, zsrmlock keeps   *)
(* the writers apart and only one thread reads.                            *)
WireGetsTheStream == wired.last = wired.count

(* A reader sleeps on a ring with data only while the receiver thread is   *)
(* on its way to wake it, although the readers go to sleep without the     *)
(* semaphore.                                                              *)
ReadersAreWoken ==
  (\E c \in Callers : At(c, "rx_sleep")) /\ ~ IsEmpty(rx) => receiver.at = "write"

=============================================================================
