--------------------------- MODULE ZsrmCriticality ---------------------------
(***************************************************************************)
(* The criticality stack (critical_reservesq, crit_next) and the queue of  *)
(* criticality-blocked reserves (crit_blockq, crit_block_next).  Nothing   *)
(* keeps a reserve from being added to one of them while it is still       *)
(* linked, which truncates the list or ties it into a cycle; so both are   *)
(* kept as the code keeps them, as a head and a table of next pointers.    *)
(* A list q is [head, next]; Nil is the null pointer.                      *)
(***************************************************************************)
EXTENDS Integers, Sequences

CONSTANT MAX_RESERVES \* size of reserve_table, and the bound of every list walk

ASSUME MaxReservesAssumption == MAX_RESERVES \in Nat \ {0}

Rid == 0 .. MAX_RESERVES - 1
Nil == -1

EmptyChain == [head |-> Nil, next |-> [r \in Rid |-> Nil]]

(* The walk of add_crit_stack and add_crit_blocked: where t stands after   *)
(* i iterations of the loop that looks for the place of r.                 *)
Walk(q, r, crit) ==
  LET goesOn(t) == /\ q.next[t] # Nil
                   /\ crit[q.next[t]] > crit[r]
                   /\ t # r
      at[i \in 0 .. MAX_RESERVES + 1] ==
        IF i = 0 THEN q.head
        ELSE LET t == at[i - 1] IN IF goesOn(t) THEN q.next[t] ELSE t
  IN  [t |-> at[MAX_RESERVES + 1], corrupted |-> goesOn(at[MAX_RESERVES])]

(* Faulty: an empty list stays empty. *)
AddChainButFirst(q, r, crit) ==
  IF q.head = Nil THEN q ELSE [q EXCEPT !.head = r, !.next[r] = q.head]

(* add_crit_stack and add_crit_blocked.  r->next is cleared before the     *)
(* list is searched, and stays cleared when the function gives up.         *)
AddChain(q0, r, crit) ==
  LET q == [q0 EXCEPT !.next[r] = Nil]
      w == Walk(q, r, crit)
  IN  IF q.head = Nil THEN [q EXCEPT !.head = r]
      ELSE IF crit[q.head] < crit[r]
      THEN [q EXCEPT !.head = r, !.next[r] = q.head]
      ELSE IF w.corrupted \/ w.t = r THEN q
      ELSE \* r->next = t->next, then t->next = r
           [q EXCEPT !.next = [[@ EXCEPT ![r] = q.next[w.t]] EXCEPT ![w.t] = r]]

(* The reserves of s are added one after the other. *)
AddChains(q, s, crit) ==
  LET after[i \in 0 .. Len(s)] ==
        IF i = 0 THEN q ELSE AddChain(after[i - 1], s[i], crit)
  IN  after[Len(s)]

(* critical_reservesq = critical_reservesq->crit_next, and the same for    *)
(* crit_blockq.                                                            *)
PopChain(q) == [q EXCEPT !.head = q.next[q.head]]

(* getreserve clears the pointers of the slot it hands out. *)
ClearLink(q, r) == [q EXCEPT !.next[r] = Nil]

=============================================================================
