----------------------------- MODULE ZsrmQueues -----------------------------
(***************************************************************************)
(* The two ordered reserve lists of the kernel module, readyq and rm_head, *)
(* as sequences of reserve ids.  Both are searched the same way: from the  *)
(* head to the first reserve that has to stay behind the new one.  Every   *)
(* caller checks that a reserve is not yet in the list it is added to      *)
(* (in_readyq, getreserve), so that the linked lists of the code are       *)
(* sequences without repetitions.                                          *)
(***************************************************************************)
EXTENDS Integers, SequencesExt

(* The place of the first element of s that is in S, or one past the end.  *)
FirstIn(s, S) ==
  CHOOSE i \in 1 .. Len(s) + 1 :
    /\ \A j \in 1 .. i - 1 : s[j] \notin S
    /\ i <= Len(s) => s[i] \in S

InsertBefore(s, r, S) == InsertAt(s, FirstIn(s, S), r)

(* A walk along s from its head that takes what is in S. *)
Among(s, S) ==
  LET upTo[i \in 0 .. Len(s)] ==
        IF i = 0 THEN <<>>
        ELSE IF s[i] \in S THEN Append(upTo[i - 1], s[i]) ELSE upTo[i - 1]
  IN  upTo[Len(s)]

(* Faulty: the element before r is made the last one. *)
UnlinkTruncates(s, r) ==
  IF r \in ToSet(s) THEN SubSeq(s, 1, FirstIn(s, {r}) - 1) ELSE s

Unlink(s, r) == IF r \in ToSet(s) THEN RemoveAt(s, FirstIn(s, {r})) ELSE s

(* Faulty: the place is not searched. *)
AddRmQueueAtTail(s, r, period) == Append(s, r)

(* Faulty: the comparison is the wrong way round. *)
AddRmQueueReversed(s, r, period) ==
  InsertBefore(s, r, {x \in ToSet(s) : period[x] < period[r]})

(* add_rm_queue: behind every reserve whose period is not longer. *)
AddRmQueue(s, r, period) ==
  InsertBefore(s, r, {x \in ToSet(s) : period[x] > period[r]})

(* del_rm_queue *)
DelRmQueue(s, r) == Unlink(s, r)

(* Faulty: first come, first served. *)
AddReadyqAtTail(s, r, prio) == Append(s, r)

(* start(): before the first job of strictly lower priority ("Make sure we *)
(* respect FIFO when same priority").                                      *)
AddReadyq(s, r, prio) ==
  InsertBefore(s, r, {x \in ToSet(s) : prio[x] < prio[r]})

(* Faulty: the reserve at the head gets the lowest priority. *)
CalculateRmPrioritiesAscending(s, prio, minPriority) ==
  [x \in DOMAIN prio |->
     IF x \in ToSet(s) THEN minPriority + FirstIn(s, {x}) ELSE prio[x]]

(* calculate_rm_priorities: the whole RM queue is renumbered from its head *)
(* down, the first reserve getting MIN_PRIORITY + rm_queue_size.           *)
CalculateRmPriorities(s, prio, minPriority) ==
  [x \in DOMAIN prio |->
     IF x \in ToSet(s) THEN minPriority + Len(s) + 1 - FirstIn(s, {x})
                       ELSE prio[x]]

=============================================================================
