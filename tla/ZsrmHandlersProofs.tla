------------------------- MODULE ZsrmHandlersProofs -------------------------
(***************************************************************************)
(* What holds of ZsrmHandlers for every number of tasks: the records are   *)
(* one ring at any time, however many registrations overlap, the walk of a *)
(* lookup ends in it, and a lookup that starts from the head there is      *)
(* finds the record of its task.  The signal handler of a task that has    *)
(* registered once finds the record complete.                              *)
(***************************************************************************)
EXTENDS ZsrmHandlers, ZsrmQueueLemmas

Records == [rid : Tasks, next : Nat, prev : Nat, filled : BOOLEAN]
Places  == [at : {"idle", "get", "lock", "walk", "got", "addlock", "add", "fill",
                  "capture"}, tmp : Nat]

TypesOK ==
  /\ recs \in Seq(Records)
  /\ pc \in [Tasks -> [Contexts -> Places]]
  /\ forks \in [Tasks -> Nat]
  /\ captured \subseteq Tasks /\ signals \subseteq Tasks

(* The place after the i-th of n in a ring. *)
Next1(i, n) == IF i = n THEN 1 ELSE i + 1

(* The records that were added are those of s, linked in this order. *)
RingIs(s) ==
  /\ s \in Seq(DOMAIN recs)
  /\ \A i, j \in 1 .. Len(s) : s[i] = s[j] => i = j
  /\ Added = {s[i] : i \in 1 .. Len(s)}
  /\ head = IF s = <<>> THEN 0 ELSE s[1]
  /\ \A i \in 1 .. Len(s) : /\ recs[s[i]].next = s[Next1(i, Len(s))]
                            /\ recs[s[Next1(i, Len(s))]].prev = s[i]

RingOK == \E s : RingIs(s)

-----------------------------------------------------------------------------
(* A ring has no more records than there are.                              *)
LEMMA RingIsShort ==
  ASSUME TypesOK, NEW s, RingIs(s)
  PROVE  Len(s) <= Len(recs) /\ Len(s) \in Nat /\ Len(recs) \in Nat
<1> DEFINE m == Len(s)
           n == Len(recs)
           D == 1 .. n
<1>1. s \in Seq(D) /\ m \in Nat /\ n \in Nat /\ DOMAIN recs = D
  BY DEF RingIs, TypesOK
<1>2. s \in Injection(1 .. m, D)
  BY <1>1 DEF RingIs, Injection, IsInjective
<1> HIDE DEF m, n
<1>3. /\ IsFiniteSet(1 .. m) /\ Cardinality(1 .. m) = m
      /\ IsFiniteSet(D) /\ Cardinality(D) = n
  BY <1>1, FS_Interval
<1>4. Cardinality(1 .. m) <= Cardinality(D)
  <2> HIDE DEF D
  <2> QED  BY <1>2, <1>3, FS_Injection
<1> QED  BY <1>1, <1>3, <1>4 DEF m, n

(* e is l but for the next, the prev or the mark of record r, which is v.  *)
NextSet(e, l, r, v) ==
  /\ e \in Seq(Records) /\ Len(e) = Len(l) /\ DOMAIN e = DOMAIN l
  /\ \A x \in DOMAIN l :
       /\ e[x].rid = l[x].rid /\ e[x].filled = l[x].filled /\ e[x].prev = l[x].prev
       /\ e[x].next = IF x = r THEN v ELSE l[x].next

PrevSet(e, l, r, v) ==
  /\ e \in Seq(Records) /\ Len(e) = Len(l) /\ DOMAIN e = DOMAIN l
  /\ \A x \in DOMAIN l :
       /\ e[x].rid = l[x].rid /\ e[x].filled = l[x].filled /\ e[x].next = l[x].next
       /\ e[x].prev = IF x = r THEN v ELSE l[x].prev

LEMMA NextIsSet ==
  ASSUME NEW l \in Seq(Records), NEW r \in DOMAIN l, NEW v \in Nat,
         NEW e, e = [l EXCEPT ![r].next = v]
  PROVE  NextSet(e, l, r, v)
<1>1. \A x \in DOMAIN l : l[x] \in Records
  OBVIOUS
<1>2. \A x \in DOMAIN l : l[x] = [rid |-> l[x].rid, next |-> l[x].next,
                                 prev |-> l[x].prev, filled |-> l[x].filled]
  BY <1>1 DEF Records
<1>3. \A x \in DOMAIN l :
        e[x] = [rid |-> l[x].rid, next |-> IF x = r THEN v ELSE l[x].next,
                prev |-> l[x].prev, filled |-> l[x].filled]
  BY <1>2
<1>4. \A x \in DOMAIN l : e[x] \in Records
  BY <1>1, <1>3 DEF Records
<1>5. e = [x \in DOMAIN l |-> e[x]]
  OBVIOUS
<1>6. Len(l) \in Nat /\ DOMAIN l = 1 .. Len(l)
  OBVIOUS
<1>7. e \in Seq(Records) /\ Len(e) = Len(l) /\ DOMAIN e = DOMAIN l
  BY <1>4, <1>5, <1>6
<1> QED  BY <1>3, <1>7 DEF NextSet

LEMMA PrevIsSet ==
  ASSUME NEW l \in Seq(Records), NEW r \in DOMAIN l, NEW v \in Nat,
         NEW e, e = [l EXCEPT ![r].prev = v]
  PROVE  PrevSet(e, l, r, v)
<1>1. \A x \in DOMAIN l : l[x] \in Records
  OBVIOUS
<1>2. \A x \in DOMAIN l : l[x] = [rid |-> l[x].rid, next |-> l[x].next,
                                 prev |-> l[x].prev, filled |-> l[x].filled]
  BY <1>1 DEF Records
<1>3. \A x \in DOMAIN l :
        e[x] = [rid |-> l[x].rid, next |-> l[x].next,
                prev |-> IF x = r THEN v ELSE l[x].prev, filled |-> l[x].filled]
  BY <1>2
<1>4. \A x \in DOMAIN l : e[x] \in Records
  BY <1>1, <1>3 DEF Records
<1>5. e = [x \in DOMAIN l |-> e[x]]
  OBVIOUS
<1>6. Len(l) \in Nat /\ DOMAIN l = 1 .. Len(l)
  OBVIOUS
<1>7. e \in Seq(Records) /\ Len(e) = Len(l) /\ DOMAIN e = DOMAIN l
  BY <1>4, <1>5, <1>6
<1> QED  BY <1>3, <1>7 DEF PrevSet

FilledSet(e, l, r, v) ==
  /\ e \in Seq(Records) /\ Len(e) = Len(l) /\ DOMAIN e = DOMAIN l
  /\ \A x \in DOMAIN l :
       /\ e[x].rid = l[x].rid /\ e[x].next = l[x].next /\ e[x].prev = l[x].prev
       /\ e[x].filled = IF x = r THEN v ELSE l[x].filled

LEMMA FilledIsSet ==
  ASSUME NEW l \in Seq(Records), NEW r \in DOMAIN l, NEW v \in BOOLEAN,
         NEW e, e = [l EXCEPT ![r].filled = v]
  PROVE  FilledSet(e, l, r, v)
<1>1. \A x \in DOMAIN l : l[x] \in Records
  OBVIOUS
<1>2. \A x \in DOMAIN l : l[x] = [rid |-> l[x].rid, next |-> l[x].next,
                                 prev |-> l[x].prev, filled |-> l[x].filled]
  BY <1>1 DEF Records
<1>3. \A x \in DOMAIN l :
        e[x] = [rid |-> l[x].rid, next |-> l[x].next, prev |-> l[x].prev,
                filled |-> IF x = r THEN v ELSE l[x].filled]
  BY <1>2
<1>4. \A x \in DOMAIN l : e[x] \in Records
  BY <1>1, <1>3 DEF Records
<1>5. e = [x \in DOMAIN l |-> e[x]]
  OBVIOUS
<1>6. Len(l) \in Nat /\ DOMAIN l = 1 .. Len(l)
  OBVIOUS
<1>7. e \in Seq(Records) /\ Len(e) = Len(l) /\ DOMAIN e = DOMAIN l
  BY <1>4, <1>5, <1>6
<1> QED  BY <1>3, <1>7 DEF FilledSet

(* add_threaded_signal_handler_record, link by link: o is the oldest       *)
(* record, the one after the head.                                         *)
LinkedIn(r, o) ==
  /\ recs' \in Seq(Records) /\ Len(recs') = Len(recs) /\ DOMAIN recs' = DOMAIN recs
  /\ \A x \in DOMAIN recs :
       /\ recs'[x].rid = recs[x].rid /\ recs'[x].filled = recs[x].filled
       /\ recs'[x].next = IF x = r THEN o ELSE IF x = head THEN r ELSE recs[x].next
       /\ recs'[x].prev = IF x = o THEN r ELSE IF x = r THEN head ELSE recs[x].prev

LEMMA LinkedIs ==
  ASSUME TypesOK, NEW r \in DOMAIN recs, head # r, head \in DOMAIN recs,
         NEW o \in DOMAIN recs, o = recs[head].next, Linked(r)
  PROVE  LinkedIn(r, o)
<1> DEFINE e == [recs EXCEPT ![r].next = o]
           f == [e EXCEPT ![r].prev = head]
           g == [f EXCEPT ![o].prev = r]
           h == [g EXCEPT ![head].next = r]
<1>1. recs \in Seq(Records) /\ r \in Nat /\ o \in Nat /\ head \in Nat /\ head # 0
  BY DEF TypesOK
<1>2. recs' = h
  BY <1>1 DEF Linked
<1>3. NextSet(e, recs, r, o)
  BY <1>1, NextIsSet
<1> HIDE DEF e
<1>4. PrevSet(f, e, r, head)
  BY <1>1, <1>3, PrevIsSet DEF NextSet
<1> HIDE DEF f
<1>5. f \in Seq(Records) /\ o \in DOMAIN f
  BY <1>3, <1>4 DEF NextSet, PrevSet
<1>6. PrevSet(g, f, o, r)
  BY <1>1, <1>5, PrevIsSet
<1> HIDE DEF g
<1>7. g \in Seq(Records) /\ head \in DOMAIN g
  BY <1>3, <1>4, <1>6 DEF NextSet, PrevSet
<1>8. NextSet(h, g, head, r)
  BY <1>1, <1>7, NextIsSet
<1> HIDE DEF h
<1> QED  BY <1>2, <1>3, <1>4, <1>6, <1>8 DEF NextSet, PrevSet, LinkedIn

(* The first record is put into an empty list.                             *)
LEMMA FirstOfRing ==
  ASSUME TypesOK, RingIs(<<>>), NEW r \in DOMAIN recs, Linked(r), head' = r
  PROVE  /\ RingIs(<<r>>)'
         /\ recs' \in Seq(Records) /\ DOMAIN recs' = DOMAIN recs
         /\ \A x \in DOMAIN recs :
              /\ recs'[x].rid = recs[x].rid /\ recs'[x].filled = recs[x].filled
              /\ recs'[x].next = IF x = r THEN r ELSE recs[x].next
<1>1. head = 0 /\ Added = {}
  BY DEF RingIs
<1> DEFINE e == [recs EXCEPT ![r].next = r]
<1>2. recs \in Seq(Records) /\ r \in Nat \ {0}
  BY DEF TypesOK
<1>3. recs' = [e EXCEPT ![r].prev = r]
  BY <1>1 DEF Linked
<1>4. NextSet(e, recs, r, r)
  BY <1>2, NextIsSet
<1> HIDE DEF e
<1>7. PrevSet(recs', e, r, r)
  BY <1>2, <1>3, <1>4, PrevIsSet DEF NextSet
<1>5. \A x \in DOMAIN recs : recs[x].next = 0
  BY <1>1 DEF Added, TypesOK
<1>6. Added' = {r}
  BY <1>2, <1>4, <1>5, <1>7 DEF Added, NextSet, PrevSet
<1>8. RingIs(<<r>>)'
  BY <1>2, <1>4, <1>6, <1>7 DEF RingIs, Next1, NextSet, PrevSet
<1> QED  BY <1>4, <1>7, <1>8 DEF NextSet, PrevSet

(* A record is put behind the head of a ring and becomes the new head: seen *)
(* from there the old head is the last one.                                *)
LEMMA NextOfRing ==
  ASSUME TypesOK, NEW s, RingIs(s), s # <<>>, NEW r \in DOMAIN recs \ Added,
         Linked(r), head' = r
  PROVE  /\ LinkedIn(r, recs[head].next)
         /\ RingOK' /\ head \in Added /\ recs[head].next # 0
<1> DEFINE k == Len(s)
           o == recs[head].next
           b == [s EXCEPT ![1] = r]
<1>1. /\ k \in Nat \ {0} /\ 1 \in 1 .. k /\ head = s[1]
      /\ \A i \in 1 .. k : s[i] \in Added /\ s[i] \in DOMAIN recs
      /\ DOMAIN recs \subseteq Nat \ {0}
  BY DEF RingIs, TypesOK
<1>2. /\ \A i, j \in 1 .. k : s[i] = s[j] => i = j
      /\ \A i \in 1 .. k : /\ recs[s[i]].next = s[Next1(i, k)]
                           /\ recs[s[Next1(i, k)]].prev = s[i]
      /\ r \notin Added /\ r \in DOMAIN recs
  BY DEF RingIs
<1>3. s \in Seq(DOMAIN recs)
  BY DEF RingIs
<1> HIDE DEF k
<1>4. /\ head \in DOMAIN recs /\ head \in Added /\ head # r /\ o = s[Next1(1, k)]
      /\ o \in DOMAIN recs /\ o # r /\ Next1(1, k) \in 1 .. k
  <2>1. Next1(1, k) \in 1 .. k
    BY <1>1 DEF Next1
  <2> QED  BY <1>1, <1>2, <2>1
<1> HIDE DEF o
<1>5. LinkedIn(r, o)
  BY <1>4, LinkedIs DEF o
<1>6. /\ b \in Seq(DOMAIN recs) /\ Len(b) = k /\ b[1] = r
      /\ \A i \in 2 .. k : b[i] = s[i]
  BY <1>1, <1>2, <1>3 DEF k
<1> HIDE DEF b
<1>7. PICK z : z = Append(b, head)
  OBVIOUS
<1>8. /\ z \in Seq(DOMAIN recs) /\ Len(z) = k + 1 /\ z[1] = r /\ z[k + 1] = head
      /\ \A i \in 2 .. k : z[i] = s[i]
  BY <1>1, <1>4, <1>6, <1>7
<1>9. \A i, j \in 1 .. k + 1 : z[i] = z[j] => i = j
  <2> TAKE i, j \in 1 .. k + 1
  <2>1. \A m \in 1 .. k + 1 : m = 1 \/ m = k + 1 \/ (m \in 2 .. k /\ m \in 1 .. k)
    BY <1>1
  <2>2. \A m \in 2 .. k : z[m] # r /\ z[m] # head
    <3> TAKE m \in 2 .. k
    <3>1. m \in 1 .. k /\ m # 1 /\ z[m] = s[m]
      BY <1>1, <1>8
    <3> QED  BY <1>1, <1>2, <3>1
  <2>3. \A m, n \in 2 .. k : z[m] = z[n] => m = n
    <3> TAKE m, n \in 2 .. k
    <3>1. m \in 1 .. k /\ z[m] = s[m] /\ n \in 1 .. k /\ z[n] = s[n]
      BY <1>1, <1>8
    <3> QED  BY <1>2, <3>1
  <2> QED  BY <1>4, <1>8, <2>1, <2>2, <2>3
<1>10. Added' = Added \cup {r}
  <2>1. DOMAIN recs' = DOMAIN recs /\ r \in DOMAIN recs /\ o # 0 /\ r # 0
    BY <1>1, <1>2, <1>4, <1>5 DEF LinkedIn
  <2>2. \A x \in DOMAIN recs :
          recs'[x].next = IF x = r THEN o ELSE IF x = head THEN r ELSE recs[x].next
    BY <1>5 DEF LinkedIn
  <2>3. \A x \in DOMAIN recs : recs'[x].next # 0 <=> x = r \/ recs[x].next # 0
    BY <1>4, <2>1, <2>2 DEF Added
  <2> QED  BY <2>1, <2>3 DEF Added
<1>11. Added' = {z[i] : i \in 1 .. k + 1}
  <2>1. ASSUME NEW x \in Added  PROVE \E i \in 1 .. k + 1 : z[i] = x
    <3>1. PICK i \in 1 .. k : x = s[i]
      BY DEF RingIs, k
    <3>2. CASE i = 1
      BY <1>1, <1>8, <3>1, <3>2
    <3>3. CASE i # 1
      BY <1>1, <1>8, <3>1, <3>3
    <3> QED  BY <3>2, <3>3
  <2>2. \E i \in 1 .. k + 1 : z[i] = r
    BY <1>1, <1>8
  <2>3. ASSUME NEW i \in 1 .. k + 1  PROVE z[i] \in Added \cup {r}
    <3>1. i = 1 \/ i = k + 1 \/ (i \in 2 .. k /\ i \in 1 .. k)
      BY <1>1
    <3> QED  BY <1>1, <1>4, <1>8, <3>1
  <2> QED  BY <1>10, <2>1, <2>2, <2>3
<1>12. ASSUME NEW i \in 1 .. k + 1
      PROVE  /\ recs'[z[i]].next = z[Next1(i, k + 1)]
             /\ recs'[z[Next1(i, k + 1)]].prev = z[i]
  <2>1. CASE i = 1
    <3>1. z[Next1(1, k + 1)] = o
      BY <1>1, <1>4, <1>8 DEF Next1
    <3> QED  BY <1>4, <1>5, <1>8, <2>1, <3>1 DEF LinkedIn
  <2>2. CASE i = k + 1
    <3>1. z[i] = head /\ Next1(i, k + 1) = 1
      BY <1>8, <2>2 DEF Next1
    <3> QED  BY <1>4, <1>5, <1>8, <3>1 DEF LinkedIn
  <2>3. CASE i \in 2 .. k
    <3> DEFINE w == s[Next1(i, k)]
    <3>1. i \in 1 .. k /\ i # 1 /\ Next1(i, k) \in 1 .. k /\ Next1(i, k) # Next1(1, k)
      BY <1>1, <2>3 DEF Next1
    <3>2. z[i] = s[i] /\ s[i] # r /\ s[i] # head
      BY <1>1, <1>8, <1>2, <2>3, <3>1
    <3>3. w # o /\ w # r /\ w \in DOMAIN recs
      BY <1>1, <1>4, <1>2, <3>1
    <3>4. recs[s[i]].next = w /\ recs[w].prev = s[i]
      BY <1>2, <3>1
    <3>5. z[Next1(i, k + 1)] = w
      <4>1. CASE i = k
        BY <1>1, <1>8, <4>1 DEF Next1
      <4>2. CASE i # k
        <5>1. i + 1 \in 2 .. k /\ Next1(i, k) = i + 1 /\ Next1(i, k + 1) = i + 1
          BY <1>1, <2>3, <4>2 DEF Next1
        <5> QED  BY <1>8, <5>1
      <4> QED  BY <4>1, <4>2
    <3> HIDE DEF w
    <3> QED  BY <1>1, <1>5, <3>1, <3>2, <3>3, <3>4, <3>5 DEF LinkedIn
  <2> QED  BY <1>1, <2>1, <2>2, <2>3
<1>13. z # <<>>
  BY <1>1, <1>8
<1>14. RingIs(z)'
  <2>1. z \in Seq(DOMAIN recs')
    BY <1>5, <1>8 DEF LinkedIn
  <2>2. head' = z[1] /\ z # <<>> /\ Len(z) = k + 1
    BY <1>8, <1>13
  <2> QED  BY <1>9, <1>11, <1>12, <2>1, <2>2 DEF RingIs
<1>15. head \in Added /\ o # 0
  BY <1>1, <1>4
<1> QED  BY <1>5, <1>14, <1>15 DEF o, RingOK

-----------------------------------------------------------------------------
(* The walk along a ring stays in it, and takes its records in their order. *)
LEMMA AlongIs ==
  ASSUME TypesOK, NEW s, RingIs(s), NEW i \in 1 .. Len(s)
  PROVE  /\ \A m \in 0 .. Len(recs) : Along(s[i])[m] \in Added
         /\ \A m \in 0 .. Len(s) - i : Along(s[i])[m] = s[i + m]
<1> DEFINE k == Len(s)
           n == Len(recs)
           first == s[i]
           step == [p \in (1 .. n) \X Added |-> recs[p[2]].next]
           Is(f) == f = [m \in 0 .. n |-> IF m = 0 THEN first ELSE recs[f[m - 1]].next]
           rec == CHOOSE f : Is(f)
           Good == {m \in 0 .. n : rec[m] \in Added}
           Place == {m \in 0 .. k - i : rec[m] = s[i + m]}
<1>1. /\ k \in Nat /\ n \in Nat /\ k <= n /\ i \in 1 .. k
      /\ \A j \in 1 .. k : s[j] \in Added /\ recs[s[j]].next = s[Next1(j, k)]
      /\ \A x \in Added : \E j \in 1 .. k : x = s[j]
  BY RingIsShort DEF RingIs
<1> HIDE DEF k, n
<1>2. \A x \in Added : recs[x].next \in Added
  BY <1>1 DEF Next1
<1>3. \E f : Is(f)
  <2>1. step \in [(1 .. n) \X Added -> Added]
    BY <1>2
  <2>2. PICK f \in [0 .. n -> Added] :
          f[0] = first /\ \A m \in 1 .. n : f[m] = step[<<m, f[m - 1]>>]
    <3>1. first \in Added
      BY <1>1
    <3> HIDE DEF step, Is, rec, first
    <3>2. Iterates(n, Added, first, step) # {}
      BY <1>1, <2>1, <3>1, RecursionIs
    <3> QED  BY <3>2 DEF Iterates
  <2>3. ASSUME NEW m \in 1 .. n  PROVE f[m] = recs[f[m - 1]].next
    <3>1. <<m, f[m - 1]>> \in (1 .. n) \X Added
      BY <1>1, <2>2
    <3> QED  BY <2>2, <3>1
  <2>4. f = [m \in 0 .. n |-> f[m]]
    BY <2>2
  <2>5. \A m \in 0 .. n : f[m] = IF m = 0 THEN first ELSE recs[f[m - 1]].next
    <3> TAKE m \in 0 .. n
    <3>1. m = 0 \/ m \in 1 .. n
      BY <1>1
    <3> QED  BY <2>2, <2>3, <3>1
  <2>6. Is(f)
    <3> HIDE DEF step, first
    <3> QED  BY <2>4, <2>5
  <2> QED  BY <2>6
<1>4. Is(rec)
  BY <1>3
<1>5. Along(s[i]) = rec
  BY DEF Along, n
<1>6. /\ rec[0] = s[i]
      /\ \A m \in 1 .. n : rec[m] = recs[rec[m - 1]].next
  <2> DEFINE h == rec
  <2>1. h = [m \in 0 .. n |-> IF m = 0 THEN s[i] ELSE recs[h[m - 1]].next]
    BY <1>4
  <2> HIDE DEF h
  <2>2. 0 \in 0 .. n /\ \A m \in 1 .. n : m \in 0 .. n /\ m # 0
    BY <1>1
  <2>3. h[0] = s[i] /\ \A m \in 1 .. n : h[m] = recs[h[m - 1]].next
    BY <2>1, <2>2
  <2> QED  BY <2>3 DEF h
<1> HIDE DEF rec, step, Is
<1>7. 0 .. n \subseteq Good
  <2>1. 0 \in Good
    BY <1>1, <1>6
  <2>2. ASSUME NEW m \in 1 .. n, m - 1 \in Good  PROVE m \in Good
    <3>1. m \in 0 .. n /\ rec[m - 1] \in Added
      BY <1>1, <2>2
    <3> HIDE DEF Good, Place
    <3>2. rec[m] \in Added
      BY <1>2, <1>6, <3>1
    <3> QED  BY <3>1, <3>2 DEF Good
  <2> HIDE DEF Good
  <2> QED  BY <1>1, <2>1, <2>2, IntervalInduction
<1>8. 0 .. k - i \subseteq Place
  <2>1. 0 \in Place
    BY <1>1, <1>6
  <2>2. ASSUME NEW m \in 1 .. k - i, m - 1 \in Place  PROVE m \in Place
    <3>1. /\ m \in 1 .. n /\ m \in 0 .. k - i /\ rec[m - 1] = s[i + (m - 1)]
          /\ i + (m - 1) \in 1 .. k /\ Next1(i + (m - 1), k) = i + m
      BY <1>1, <2>2 DEF Next1
    <3>2. rec[m] = s[i + m]
      <4> HIDE DEF Place, Good
      <4>1. rec[m] = recs[rec[m - 1]].next
        BY <1>6, <3>1
      <4>2. recs[s[i + (m - 1)]].next = s[Next1(i + (m - 1), k)]
        BY <1>1, <3>1
      <4> QED  BY <3>1, <4>1, <4>2
    <3> QED  BY <3>1, <3>2
  <2>3. k - i \in Nat
    BY <1>1
  <2> HIDE DEF Place
  <2> QED  BY <2>1, <2>2, <2>3, IntervalInduction
<1>9. /\ \A m \in 0 .. n : rec[m] \in Added
      /\ \A m \in 0 .. k - i : rec[m] = s[i + m]
  BY <1>7, <1>8
<1> QED  BY <1>5, <1>9 DEF k, n

(* The walk ends at a record of the ring; one that starts from the head    *)
(* ends at the record of its task, if there is one.                        *)
LEMMA WalkEndIs ==
  ASSUME TypesOK, RingOK, NEW first \in Added, NEW t
  PROVE  /\ WalkEnd(first, t) \in Added
         /\ first = head /\ (\E r \in Added : recs[r].rid = t) =>
              recs[WalkEnd(first, t)].rid = t
<1>1. PICK s : RingIs(s)
  BY DEF RingOK
<1>2. PICK i \in 1 .. Len(s) : first = s[i]
  BY <1>1 DEF RingIs
<1> DEFINE k == Len(s)
           n == Len(recs)
           path == Along(first)
           W == {m \in 0 .. n : recs[path[m]].next = head \/ recs[path[m]].rid = t}
<1>3. /\ k \in Nat /\ n \in Nat /\ k <= n /\ i \in 1 .. k
      /\ \A j \in 1 .. k : recs[s[j]].next = s[Next1(j, k)]
      /\ \A x \in Added : \E j \in 1 .. k : x = s[j]
      /\ \A h, j \in 1 .. k : s[h] = s[j] => h = j
      /\ head = s[1]
  <2>1. k \in Nat /\ n \in Nat /\ k <= n
    BY <1>1, RingIsShort
  <2>2. i \in 1 .. k /\ s # <<>>
    BY <1>2
  <2>3. head = s[1]
    BY <1>1, <2>2 DEF RingIs
  <2>4. /\ \A j \in 1 .. k : recs[s[j]].next = s[Next1(j, k)]
        /\ \A x \in Added : \E j \in 1 .. k : x = s[j]
        /\ \A h, j \in 1 .. k : s[h] = s[j] => h = j
    BY <1>1 DEF RingIs
  <2> QED  BY <2>1, <2>2, <2>3, <2>4
<1>4. /\ \A m \in 0 .. n : path[m] \in Added
      /\ \A m \in 0 .. k - i : path[m] = s[i + m]
  BY <1>1, <1>2, AlongIs
<1> HIDE DEF k, n, path
<1>5. k - i \in W
  <2>1. /\ k - i \in 0 .. n /\ k - i \in 0 .. k - i /\ k \in 1 .. k
        /\ i + (k - i) = k /\ Next1(k, k) = 1
    BY <1>3 DEF Next1
  <2> DEFINE e == k - i
  <2> HIDE DEF e
  <2>2. path[e] = s[k] /\ e \in 0 .. n
    BY <1>4, <2>1 DEF e
  <2>3. recs[path[e]].next = head
    BY <1>3, <2>1, <2>2
  <2>4. e \in W
    BY <2>2, <2>3
  <2> HIDE DEF W
  <2> QED  BY <2>4 DEF e
<1>6. PICK m \in W : \A j \in W : m <= j
  <2>1. W \subseteq Nat /\ W # {}
    BY <1>3, <1>5
  <2> HIDE DEF W
  <2> QED  BY <2>1, LeastNat
<1>7. Min(W) \in W /\ \A j \in W : Min(W) <= j
  <2> HIDE DEF W
  <2> QED  BY <1>6 DEF Min
<1>8. WalkEnd(first, t) = path[Min(W)]
  BY DEF WalkEnd, path, n
<1>9. ASSUME first = head, NEW r \in Added, recs[r].rid = t
      PROVE  recs[path[Min(W)]].rid = t
  <2>1. i = 1
    <3>1. 1 \in 1 .. k /\ s[i] = s[1]
      BY <1>2, <1>3, <1>9
    <3> QED  BY <1>3, <3>1
  <2>2. PICK j \in 1 .. k : r = s[j]
    BY <1>3
  <2>3. j - 1 \in W
    BY <1>3, <1>4, <1>9, <2>1, <2>2
  <2> DEFINE x == Min(W)
  <2>4. x \in 0 .. n /\ x \in Nat /\ x <= j - 1
    <3>1. x \in W /\ W \subseteq 0 .. n /\ n \in Nat
      BY <1>3, <1>7
    <3>2. x <= j - 1
      BY <1>7, <2>3
    <3> HIDE DEF x, W
    <3> QED  BY <3>1, <3>2
  <2>5. path[x] = s[x + 1] /\ x + 1 \in 1 .. k
    <3> HIDE DEF x, W
    <3>1. x <= k - 1 /\ x \in 0 .. k - 1
      BY <1>3, <2>2, <2>4
    <3>2. path[x] = s[i + x] /\ i + x = x + 1
      BY <1>4, <2>1, <2>4, <3>1
    <3> QED  BY <1>3, <2>4, <3>1, <3>2
  <2>6. recs[path[x]].next = head \/ recs[path[x]].rid = t
    BY <1>7
  <2> HIDE DEF x
  <2>7. ASSUME recs[path[x]].next = head  PROVE x = j - 1
    <3>1. s[Next1(x + 1, k)] = s[1]
      BY <1>3, <2>5, <2>7
    <3>2. Next1(x + 1, k) \in 1 .. k /\ 1 \in 1 .. k
      BY <1>3, <2>5 DEF Next1
    <3>3. x + 1 = k
      BY <1>3, <2>5, <3>1, <3>2 DEF Next1
    <3> QED  BY <1>3, <2>4, <3>3
  <2>8. recs[path[x]].rid = t
    BY <1>9, <2>2, <2>4, <2>5, <2>6, <2>7
  <2> QED  BY <2>8 DEF x
<1> QED  BY <1>4, <1>7, <1>8, <1>9

(* A lookup returns no record or one of its task in the ring.              *)
LEMMA FoundIs ==
  ASSUME TypesOK, RingOK, NEW first \in Added, NEW t
  PROVE  /\ Found(first, t) = 0
              \/ (Found(first, t) \in Added /\ recs[Found(first, t)].rid = t)
         /\ first = head /\ (\E r \in Added : recs[r].rid = t) => Found(first, t) # 0
<1>1. \A r \in Added : r # 0
  BY DEF Added, TypesOK
<1> QED  BY <1>1, WalkEndIs DEF Found

-----------------------------------------------------------------------------
(* What the local of a thread of control refers to, where it stands.       *)
Fits(t, c, p) ==
  /\ p.at \in {"lock", "walk"} => p.tmp \in Added
  /\ p.at = "got" => p.tmp = 0 \/ (p.tmp \in Added /\ recs[p.tmp].rid = t)
  /\ p.at \in {"fill", "capture"} =>
       c = "main" /\ p.tmp \in Added /\ recs[p.tmp].rid = t
  /\ p.at \in {"addlock", "add"} =>
       /\ c = "main" /\ p.tmp \in DOMAIN recs /\ recs[p.tmp].rid = t
       /\ recs[p.tmp].next = 0

PlacesOK == \A t \in Tasks, c \in Contexts : Fits(t, c, pc[t][c])

(* A signal is sent to tasks that have a record in the ring.               *)
SignalsOK ==
  \A t \in Tasks :
    /\ t \in signals \/ pc[t]["signal"] # Idle => t \in captured
    /\ t \in captured => \E r \in Added : recs[r].rid = t

(* The record that p is about may be incomplete. *)
Filling(p, r) == p.at \in {"addlock", "add", "fill"} /\ p.tmp = r

(* A record that is not filled yet is the one its task is registering.     *)
FillingOK ==
  \A r \in DOMAIN recs : recs[r].filled \/ Filling(pc[recs[r].rid]["main"], r)

HandlersInv == TypesOK /\ RingOK /\ PlacesOK /\ SignalsOK /\ FillingOK

(* A step of t in context c to another place. *)
MovesTo(t, c, p) == p \in Places /\ GoesTo(t, c, p)

LEMMA MovedIs ==
  ASSUME TypesOK, NEW t \in Tasks, NEW c \in Contexts, NEW p, MovesTo(t, c, p)
  PROVE  /\ pc' \in [Tasks -> [Contexts -> Places]]
         /\ pc'[t][c] = p
         /\ \A u \in Tasks, d \in Contexts : u # t \/ d # c => pc'[u][d] = pc[u][d]
<1> HIDE DEF Places, Contexts
<1> QED  BY DEF TypesOK, MovesTo, GoesTo

(* What a step may do to the records: none is unlinked, given to another   *)
(* task, or emptied.                                                       *)
RecordsKept ==
  /\ recs' \in Seq(Records)
  /\ \A x \in DOMAIN recs :
       /\ x \in DOMAIN recs' /\ recs'[x].rid = recs[x].rid
       /\ recs[x].next # 0 => recs'[x].next # 0
       /\ recs[x].filled => recs'[x].filled

(* Nothing that the list is made of changes. *)
RingKept ==
  /\ Added' = Added /\ head' = head
  /\ DOMAIN recs \subseteq DOMAIN recs'
  /\ \A x \in DOMAIN recs : recs'[x].next = recs[x].next /\ recs'[x].prev = recs[x].prev

LEMMA KeptRing ==
  ASSUME RingOK, RingKept  PROVE RingOK'
<1>1. PICK s : RingIs(s)
  BY DEF RingOK
<1>2. /\ s \in Seq(DOMAIN recs) /\ Len(s) \in Nat
      /\ \A i \in 1 .. Len(s) : s[i] \in DOMAIN recs /\ Next1(i, Len(s)) \in 1 .. Len(s)
  BY <1>1 DEF RingIs, Next1
<1>3. s \in Seq(DOMAIN recs')
  BY <1>2 DEF RingKept
<1>4. ASSUME NEW i \in 1 .. Len(s)
      PROVE  /\ recs'[s[i]].next = s[Next1(i, Len(s))]
             /\ recs'[s[Next1(i, Len(s))]].prev = s[i]
  <2>1. s[i] \in DOMAIN recs /\ s[Next1(i, Len(s))] \in DOMAIN recs
    BY <1>2
  <2> QED  BY <1>1, <2>1 DEF RingIs, RingKept
<1>5. RingIs(s)'
  <2>1. Added' = {s[i] : i \in 1 .. Len(s)} /\ head' = IF s = <<>> THEN 0 ELSE s[1]
    BY <1>1 DEF RingIs, RingKept
  <2>2. \A i, j \in 1 .. Len(s) : s[i] = s[j] => i = j
    BY <1>1 DEF RingIs
  <2> QED  BY <1>3, <1>4, <2>1, <2>2 DEF RingIs
<1> QED  BY <1>5 DEF RingOK

(* A step that leaves the records alone.                                   *)
LEMMA StillStep ==
  ASSUME TypesOK, RingOK, PlacesOK, FillingOK, UNCHANGED <<recs, head>>,
         NEW t \in Tasks, NEW c \in Contexts, NEW p, MovesTo(t, c, p), Fits(t, c, p),
         c = "main" => \A r \in Nat : Filling(pc[t]["main"], r) => Filling(p, r)
  PROVE  RecordsKept /\ RingOK' /\ PlacesOK' /\ FillingOK'
<1>1. /\ recs \in Seq(Records) /\ "main" \in Contexts
      /\ \A r \in DOMAIN recs : recs[r].rid \in Tasks /\ r \in Nat
  <2>1. recs \in Seq(Records)
    BY DEF TypesOK
  <2>2. \A r \in DOMAIN recs : recs[r] \in Records /\ r \in Nat
    BY <2>1
  <2> QED  BY <2>1, <2>2 DEF Records, Contexts
<1>2. /\ pc'[t][c] = p
      /\ \A u \in Tasks, d \in Contexts : u # t \/ d # c => pc'[u][d] = pc[u][d]
  BY MovedIs
<1>3. RingOK'
  <2>1. RingKept
    BY DEF RingKept, Added
  <2> QED  BY <2>1, KeptRing
<1>4. PlacesOK'
  <2>1. \A u \in Tasks, d \in Contexts : Fits(u, d, pc'[u][d])
    BY <1>2 DEF PlacesOK
  <2>2. recs' = recs /\ Added' = Added
    BY DEF Added
  <2> QED  BY <2>1, <2>2 DEF PlacesOK, Fits
<1>5. FillingOK'
  <2>1. \A r \in DOMAIN recs : recs[r].filled \/ Filling(pc'[recs[r].rid]["main"], r)
    <3> TAKE r \in DOMAIN recs
    <3>1. recs[r].filled \/ Filling(pc[recs[r].rid]["main"], r)
      BY DEF FillingOK
    <3>2. CASE recs[r].rid = t /\ c = "main"
      BY <1>1, <1>2, <3>1, <3>2
    <3>3. CASE ~ (recs[r].rid = t /\ c = "main")
      BY <1>1, <1>2, <3>1, <3>3
    <3> QED  BY <3>2, <3>3
  <2> QED  BY <2>1 DEF FillingOK, Filling
<1>6. RecordsKept
  BY <1>1 DEF RecordsKept
<1> QED  BY <1>3, <1>4, <1>5, <1>6

(* A step that changes them.                                               *)
LEMMA PlacesKept ==
  ASSUME TypesOK, PlacesOK, RecordsKept,
         NEW t \in Tasks, NEW p, MovesTo(t, "main", p), Fits(t, "main", p)',
         \A x \in DOMAIN recs : recs[x].next = 0 /\ recs[x].rid # t => recs'[x].next = 0
  PROVE  PlacesOK'
<1>1. /\ pc'[t]["main"] = p /\ "main" \in Contexts
      /\ \A u \in Tasks, d \in Contexts : u # t \/ d # "main" => pc'[u][d] = pc[u][d]
  BY MovedIs DEF Contexts
<1>2. \A x \in Added : x \in Added' /\ recs'[x].rid = recs[x].rid
  BY DEF Added, RecordsKept
<1>3. ASSUME NEW u \in Tasks, NEW d \in Contexts, u # t \/ d # "main"
      PROVE  Fits(u, d, pc[u][d])'
  <2>1. Fits(u, d, pc[u][d]) /\ pc'[u][d] = pc[u][d]
    BY <1>1, <1>3 DEF PlacesOK
  <2> QED  BY <1>2, <1>3, <2>1 DEF Fits, RecordsKept
<1> QED  BY <1>1, <1>3 DEF PlacesOK, Fits

-----------------------------------------------------------------------------
(* add_threaded_signal_handler_record leaves a ring of one record more.    *)
LEMMA AddsKeeps ==
  ASSUME HandlersInv, NEW t \in Tasks, Adds(t)
  PROVE  RecordsKept /\ RingOK' /\ PlacesOK' /\ FillingOK'
<1>r. PICK r : r = pc[t]["main"].tmp
  OBVIOUS
<1>p. PICK p : p = At("fill", r)
  OBVIOUS
<1>1. /\ r \in DOMAIN recs /\ recs[r].rid = t /\ recs[r].next = 0 /\ "main" \in Contexts
      /\ Linked(r) /\ head' = r /\ GoesTo(t, "main", p) /\ pc[t]["main"].at = "add"
  BY <1>r, <1>p DEF HandlersInv, PlacesOK, Fits, Adds, Runs, Contexts
<1>2. TypesOK /\ RingOK /\ PlacesOK /\ FillingOK
  BY DEF HandlersInv
<1>3. recs \in Seq(Records) /\ r \in Nat \ {0} /\ r \notin Added
  BY <1>1, <1>2 DEF TypesOK, Added
<1>4. MovesTo(t, "main", p)
  BY <1>1, <1>3, <1>p DEF MovesTo, Places, At
<1>5. /\ RingOK' /\ recs' \in Seq(Records) /\ DOMAIN recs' = DOMAIN recs
      /\ \A x \in DOMAIN recs :
           /\ recs'[x].rid = recs[x].rid /\ recs'[x].filled = recs[x].filled
           /\ recs[x].next # 0 => recs'[x].next # 0
           /\ x # r /\ recs[x].next = 0 => recs'[x].next = 0
      /\ recs'[r].next # 0
  <2>1. PICK s : RingIs(s)
    BY <1>2 DEF RingOK
  <2>2. CASE s = <<>>
    <3>1. RingIs(<<>>)
      BY <2>1, <2>2
    <3> QED  BY <1>1, <1>2, <1>3, <3>1, FirstOfRing DEF RingOK
  <2>3. CASE s # <<>>
    <3>1. LinkedIn(r, recs[head].next) /\ RingOK' /\ head \in Added /\ recs[head].next # 0
      BY <1>1, <1>2, <1>3, <2>1, <2>3, NextOfRing
    <3> QED  BY <1>1, <1>3, <3>1 DEF LinkedIn, Added
  <2> QED  BY <2>2, <2>3
<1>6. RecordsKept
  BY <1>5 DEF RecordsKept
<1>7. PlacesOK'
  <2>1. p.at = "fill" /\ p.tmp = r
    BY <1>p DEF At
  <2>2. r \in Added' /\ recs'[r].rid = t
    BY <1>1, <1>5 DEF Added
  <2>3. Fits(t, "main", p)'
    BY <2>1, <2>2 DEF Fits
  <2>4. \A x \in DOMAIN recs : recs[x].next = 0 /\ recs[x].rid # t => recs'[x].next = 0
    BY <1>1, <1>5
  <2> QED  BY <1>2, <1>4, <1>6, <2>3, <2>4, PlacesKept
<1>8. FillingOK'
  <2>1. /\ pc'[t]["main"] = p
        /\ \A u \in Tasks : u # t => pc'[u]["main"] = pc[u]["main"]
    <3> QED  BY <1>1, <1>2, <1>4, MovedIs
  <2>2. p.at = "fill" /\ p.tmp = r
    BY <1>p DEF At
  <2>3. \A x \in DOMAIN recs : recs[x].filled \/ Filling(pc'[recs[x].rid]["main"], x)
    <3> TAKE x \in DOMAIN recs
    <3>1. recs[x].filled \/ Filling(pc[recs[x].rid]["main"], x)
      BY <1>2 DEF FillingOK
    <3>2. recs[x] \in Records
      BY <1>3
    <3>3. recs[x].rid \in Tasks
      BY <3>2 DEF Records
    <3> QED  BY <2>1, <2>2, <3>1, <3>3, <1>r DEF Filling
  <2> QED  BY <1>5, <2>3 DEF FillingOK, Filling
<1> QED  BY <1>5, <1>6, <1>7, <1>8

(* The handler's fields are filled in.                                     *)
LEMMA FillsKeeps ==
  ASSUME HandlersInv, NEW t \in Tasks, Fills(t)
  PROVE  RecordsKept /\ RingOK' /\ PlacesOK' /\ FillingOK'
<1>r. PICK r : r = pc[t]["main"].tmp
  OBVIOUS
<1>p. PICK p : p = At("capture", r)
  OBVIOUS
<1>1. /\ r \in DOMAIN recs /\ recs[r].rid = t /\ r \in Added /\ "main" \in Contexts
      /\ GoesTo(t, "main", p) /\ pc[t]["main"].at = "fill" /\ head' = head
      /\ recs' = [recs EXCEPT ![r].filled = TRUE]
  BY <1>r, <1>p DEF HandlersInv, PlacesOK, Fits, Fills, Runs, Contexts, Added
<1>2. TypesOK /\ RingOK /\ PlacesOK /\ FillingOK
  BY DEF HandlersInv
<1>3. recs \in Seq(Records) /\ r \in Nat
  BY <1>1, <1>2 DEF TypesOK
<1>4. MovesTo(t, "main", p)
  BY <1>1, <1>3, <1>p DEF MovesTo, Places, At
<1>5. /\ recs' \in Seq(Records) /\ DOMAIN recs' = DOMAIN recs
      /\ \A x \in DOMAIN recs :
           /\ recs'[x].rid = recs[x].rid
           /\ recs'[x].next = recs[x].next /\ recs'[x].prev = recs[x].prev
           /\ recs'[x].filled = IF x = r THEN TRUE ELSE recs[x].filled
  <2>v. PICK v \in BOOLEAN : v = TRUE
    OBVIOUS
  <2>1. recs' = [recs EXCEPT ![r].filled = v]
    BY <1>1, <2>v
  <2>2. FilledSet(recs', recs, r, v)
    BY <1>1, <1>3, <2>1, FilledIsSet
  <2> QED  BY <2>2, <2>v DEF FilledSet
<1>6. RecordsKept
  BY <1>5 DEF RecordsKept
<1>7. Added' = Added
  BY <1>5 DEF Added
<1>8. RingOK'
  <2>1. RingKept
    BY <1>1, <1>5, <1>7 DEF RingKept
  <2> QED  BY <1>2, <2>1, KeptRing
<1>9. PlacesOK'
  <2>1. p.at = "capture" /\ p.tmp = r
    BY <1>p DEF At
  <2>2. r \in Added' /\ recs'[r].rid = t
    BY <1>1, <1>5, <1>7
  <2>3. Fits(t, "main", p)'
    BY <2>1, <2>2 DEF Fits
  <2> QED  BY <1>2, <1>4, <1>5, <1>6, <2>3, PlacesKept
<1>10. FillingOK'
  <2>1. \A u \in Tasks : u # t => pc'[u]["main"] = pc[u]["main"]
    <3> QED  BY <1>1, <1>2, <1>4, MovedIs
  <2>3. \A x \in DOMAIN recs : recs'[x].filled \/ Filling(pc'[recs[x].rid]["main"], x)
    <3> TAKE x \in DOMAIN recs
    <3>1. recs[x].filled \/ Filling(pc[recs[x].rid]["main"], x)
      BY <1>2 DEF FillingOK
    <3>2. recs[x] \in Records
      BY <1>3
    <3>3. recs[x].rid \in Tasks
      BY <3>2 DEF Records
    <3> QED  BY <1>5, <2>1, <3>1, <3>3, <1>r DEF Filling
  <2>4. DOMAIN recs' = DOMAIN recs /\ \A x \in DOMAIN recs : recs'[x].rid = recs[x].rid
    BY <1>5
  <2>5. ASSUME NEW x \in DOMAIN recs'
        PROVE  recs'[x].filled \/ Filling(pc'[recs'[x].rid]["main"], x)
    BY <2>3, <2>4
  <2> QED  BY <2>5 DEF FillingOK, Filling
<1> QED  BY <1>6, <1>8, <1>9, <1>10

(* A new record, that is not in the ring yet.                              *)
Extends(e, l, r) ==
  /\ e \in Seq(Records) /\ DOMAIN e = DOMAIN l \cup {Len(l) + 1}
  /\ \A x \in DOMAIN l : e[x] = l[x]
  /\ e[Len(l) + 1] = r

LEMMA ExtendsIs ==
  ASSUME NEW l \in Seq(Records), NEW r \in Records, NEW e, e = Append(l, r)
  PROVE  Extends(e, l, r)
<1>1. /\ Len(l) \in Nat /\ DOMAIN l = 1 .. Len(l)
      /\ e \in Seq(Records) /\ Len(e) = Len(l) + 1 /\ e[Len(l) + 1] = r
      /\ \A x \in 1 .. Len(l) : e[x] = l[x]
  OBVIOUS
<1>2. DOMAIN e = 1 .. Len(l) + 1
  BY <1>1
<1> QED  BY <1>1, <1>2 DEF Extends

LEMMA AllocatingKeeps ==
  ASSUME HandlersInv, NEW t \in Tasks, Runs(t, "main", "got"),
         recs' = Append(recs, [rid |-> t, next |-> 0, prev |-> 0, filled |-> FALSE]),
         GoesTo(t, "main", At("addlock", Len(recs) + 1)), UNCHANGED head
  PROVE  RecordsKept /\ RingOK' /\ PlacesOK' /\ FillingOK'
<1>1. TypesOK /\ RingOK /\ PlacesOK /\ FillingOK /\ "main" \in Contexts
  BY DEF HandlersInv, Contexts
<1>2. recs \in Seq(Records) /\ Len(recs) \in Nat
  BY <1>1 DEF TypesOK
<1>n. PICK n \in Nat : n = Len(recs) + 1
  BY <1>2
<1>p. PICK p : p = At("addlock", n)
  OBVIOUS
<1>r. PICK r \in Records : r = [rid |-> t, next |-> 0, prev |-> 0, filled |-> FALSE]
  BY DEF Records
<1>3. Extends(recs', recs, r)
  BY <1>2, <1>r, ExtendsIs
<1>4. /\ recs' \in Seq(Records) /\ DOMAIN recs' = DOMAIN recs \cup {n}
      /\ \A x \in DOMAIN recs : recs'[x] = recs[x]
      /\ recs'[n].rid = t /\ recs'[n].next = 0
  BY <1>3, <1>n, <1>r DEF Extends
<1>5. p.at = "addlock" /\ p.tmp = n
  BY <1>p DEF At
<1>6. MovesTo(t, "main", p)
  BY <1>n, <1>p DEF MovesTo, Places, At
<1>7. RecordsKept
  BY <1>4 DEF RecordsKept
<1>8. RingOK'
  <2>1. Added' = Added
    BY <1>4 DEF Added
  <2>2. RingKept
    BY <1>4, <2>1 DEF RingKept
  <2> QED  BY <1>1, <2>2, KeptRing
<1>9. PlacesOK'
  <2>1. Fits(t, "main", p)'
    BY <1>4, <1>5 DEF Fits
  <2> QED  BY <1>1, <1>4, <1>6, <1>7, <2>1, PlacesKept
<1>10. FillingOK'
  <2>1. /\ pc'[t]["main"] = p /\ pc[t]["main"].at = "got"
        /\ \A u \in Tasks : u # t => pc'[u]["main"] = pc[u]["main"]
    BY <1>1, <1>6, MovedIs DEF Runs
  <2>2. \A x \in DOMAIN recs : recs[x].filled \/ Filling(pc'[recs[x].rid]["main"], x)
    <3> TAKE x \in DOMAIN recs
    <3>1. recs[x].filled \/ Filling(pc[recs[x].rid]["main"], x)
      BY <1>1 DEF FillingOK
    <3>2. recs[x] \in Records
      BY <1>2
    <3>3. recs[x].rid \in Tasks
      BY <3>2 DEF Records
    <3> QED  BY <2>1, <3>1, <3>3 DEF Filling
  <2>3. Filling(pc'[recs'[n].rid]["main"], n)
    BY <1>4, <1>5, <2>1 DEF Filling
  <2>4. \A x \in DOMAIN recs' : recs'[x].filled \/ Filling(pc'[recs'[x].rid]["main"], x)
    BY <1>4, <2>2, <2>3
  <2> QED  BY <2>4 DEF FillingOK, Filling
<1> QED  BY <1>7, <1>8, <1>9, <1>10

(* A signal is only sent to, and a capture only recorded for, a task that  *)
(* has its record.                                                         *)
LEMMA SignalsKept ==
  ASSUME SignalsOK, RecordsKept, captured \subseteq captured',
         \A u \in Tasks : u \in signals' \/ pc'[u]["signal"] # Idle =>
           u \in captured \/ u \in signals \/ pc[u]["signal"] # Idle,
         \A u \in captured' \ captured : \E r \in Added : recs[r].rid = u
  PROVE  SignalsOK'
<1>1. \A r \in Added : r \in Added' /\ recs'[r].rid = recs[r].rid
  BY DEF RecordsKept, Added
<1>2. \A u \in Tasks : u \in captured' => \E r \in Added' : recs'[r].rid = u
  BY <1>1 DEF SignalsOK
<1>3. \A u \in Tasks : u \in signals' \/ pc'[u]["signal"] # Idle => u \in captured'
  BY DEF SignalsOK
<1> QED  BY <1>2, <1>3 DEF SignalsOK, Idle, At

(* A step of t that leaves the records alone, as a whole.                  *)
LEMMA StillKeeps ==
  ASSUME HandlersInv, UNCHANGED <<recs, head>>,
         NEW t \in Tasks, NEW c \in Contexts, NEW p, MovesTo(t, c, p), Fits(t, c, p),
         c = "main" => \A r \in Nat : Filling(pc[t]["main"], r) => Filling(p, r),
         c = "signal" => t \in captured,
         forks' \in [Tasks -> Nat],
         captured \subseteq captured', captured' \subseteq Tasks,
         \A u \in captured' \ captured : \E r \in Added : recs[r].rid = u,
         signals' \subseteq signals
  PROVE  HandlersInv'
<1>1. TypesOK /\ RingOK /\ PlacesOK /\ FillingOK /\ SignalsOK
  BY DEF HandlersInv
<1>2. RecordsKept /\ RingOK' /\ PlacesOK' /\ FillingOK'
  BY <1>1, StillStep
<1>3. /\ pc' \in [Tasks -> [Contexts -> Places]]
      /\ \A u \in Tasks, d \in Contexts : u # t \/ d # c => pc'[u][d] = pc[u][d]
  BY <1>1, MovedIs
<1>4. TypesOK'
  BY <1>1, <1>2, <1>3 DEF TypesOK, RecordsKept
<1>5. SignalsOK'
  <2>1. ASSUME NEW u \in Tasks, u \in signals' \/ pc'[u]["signal"] # Idle
        PROVE  u \in captured \/ u \in signals \/ pc[u]["signal"] # Idle
    <3>1. "signal" \in Contexts
      BY DEF Contexts
    <3> QED  BY <1>3, <2>1, <3>1
  <2> QED  BY <1>1, <1>2, <2>1, SignalsKept
<1> QED  BY <1>2, <1>4, <1>5 DEF HandlersInv

(* Whoever runs a signal handler has captured the signal, and then there   *)
(* is a ring that the lookup can start from.                               *)
LEMMA SignalMeansCaptured ==
  ASSUME HandlersInv, NEW t \in Tasks
  PROVE  /\ pc[t]["signal"] # Idle \/ t \in signals => t \in captured
         /\ t \in captured => head # 0 /\ \E r \in Added : recs[r].rid = t
         /\ head # 0 => head \in Added
<1>1. pc[t]["signal"] # Idle \/ t \in signals => t \in captured
  BY DEF HandlersInv, SignalsOK
<1>2. t \in captured => \E r \in Added : recs[r].rid = t
  BY DEF HandlersInv, SignalsOK
<1>3. PICK s : RingIs(s)
  BY DEF HandlersInv, RingOK
<1>4. head = 0 => Added = {}
  <2>1. CASE s = <<>>
    BY <1>3, <2>1 DEF RingIs
  <2>2. CASE s # <<>>
    <3>1. 1 \in 1 .. Len(s) /\ s \in Seq(DOMAIN recs) /\ head = s[1]
      BY <1>3, <2>2 DEF RingIs
    <3>2. head \in Added
      BY <1>3, <3>1 DEF RingIs
    <3>3. head # 0
      BY <3>2 DEF HandlersInv, TypesOK, Added
    <3> QED  BY <3>3
  <2> QED  BY <2>1, <2>2
<1>5. head # 0 => head \in Added
  <2> SUFFICES ASSUME head # 0  PROVE head \in Added
    OBVIOUS
  <2>1. s # <<>> /\ s \in Seq(DOMAIN recs) /\ head = s[1]
    BY <1>3 DEF RingIs
  <2>2. 1 \in 1 .. Len(s)
    BY <2>1
  <2> QED  BY <1>3, <2>1, <2>2 DEF RingIs
<1> QED  BY <1>1, <1>2, <1>4, <1>5

(* The three steps of a lookup.                                            *)
LEMMA LookupKeeps ==
  ASSUME HandlersInv, NEW t \in Tasks, NEW c \in Contexts,
         GetReadsHead(t, c) \/ GetLocks(t, c) \/ GetWalks(t, c)
  PROVE  HandlersInv'
<1>1. TypesOK /\ RingOK /\ PlacesOK /\ forks \in [Tasks -> Nat]
  BY DEF HandlersInv, TypesOK
<1>2. /\ pc[t][c].at \in {"get", "lock", "walk"} /\ pc[t][c].tmp \in Nat
      /\ UNCHANGED <<recs, head, forks, captured, signals>>
  <2>1. pc[t][c] \in Places
    BY <1>1 DEF TypesOK
  <2>2. pc[t][c].tmp \in Nat
    BY <2>1 DEF Places
  <2> QED  BY <2>2 DEF GetReadsHead, GetLocks, GetWalks, Runs
<1>3. \A r \in Nat : ~ Filling(pc[t][c], r)
  BY <1>2 DEF Filling
<1>4. c = "signal" => t \in captured
  <2>1. pc[t][c] # Idle
    BY <1>2 DEF Idle, At
  <2> QED  BY <2>1, SignalMeansCaptured
<1>5. \E p : MovesTo(t, c, p) /\ Fits(t, c, p)
  <2>1. CASE GetReadsHead(t, c)
    <3>p. PICK p : p = At(IF head = 0 THEN "got" ELSE "lock", head)
      OBVIOUS
    <3>1. p.at \in {"got", "lock"} /\ p.tmp = head /\ (p.at = "got" <=> head = 0)
      BY <3>p DEF At
    <3>2. head \in Nat /\ (head # 0 => head \in Added)
      BY <1>1, SignalMeansCaptured DEF Added, TypesOK
    <3>3. p \in Places
      BY <3>p, <3>2 DEF Places, At
    <3>4. Fits(t, c, p)
      BY <3>1, <3>2 DEF Fits
    <3>5. GoesTo(t, c, p)
      BY <2>1, <3>p DEF GetReadsHead
    <3> QED  BY <3>3, <3>4, <3>5 DEF MovesTo
  <2>2. CASE GetLocks(t, c)
    <3>p. PICK p : p = At("walk", pc[t][c].tmp)
      OBVIOUS
    <3>1. p.at = "walk" /\ p.tmp = pc[t][c].tmp
      BY <3>p DEF At
    <3>2. p.tmp \in Added
      BY <1>1, <2>2, <3>1 DEF PlacesOK, Fits, GetLocks, Runs
    <3>3. p \in Places
      BY <1>2, <3>p DEF Places, At
    <3>4. Fits(t, c, p)
      BY <3>1, <3>2 DEF Fits
    <3>5. GoesTo(t, c, p)
      BY <2>2, <3>p DEF GetLocks
    <3> QED  BY <3>3, <3>4, <3>5 DEF MovesTo
  <2>3. CASE GetWalks(t, c)
    <3>f. PICK f : f = Found(pc[t][c].tmp, t)
      OBVIOUS
    <3>p. PICK p : p = At("got", f)
      OBVIOUS
    <3>1. p.at = "got" /\ p.tmp = f
      BY <3>p DEF At
    <3>2. pc[t][c].tmp \in Added
      BY <1>1, <2>3 DEF PlacesOK, Fits, GetWalks, Runs
    <3>3. f = 0 \/ (f \in Added /\ recs[f].rid = t)
      BY <1>1, <3>2, <3>f, FoundIs
    <3>4. f \in Nat
      BY <1>1, <3>3 DEF Added, TypesOK
    <3>5. p \in Places
      BY <3>4, <3>p DEF Places, At
    <3>6. Fits(t, c, p)
      BY <3>1, <3>3 DEF Fits
    <3>7. GoesTo(t, c, p)
      BY <2>3, <3>f, <3>p DEF GetWalks
    <3> QED  BY <3>5, <3>6, <3>7 DEF MovesTo
  <2> QED  BY <2>1, <2>2, <2>3
<1>6. PICK p : MovesTo(t, c, p) /\ Fits(t, c, p)
  BY <1>5
<1>7. captured \subseteq Tasks
  BY <1>1 DEF TypesOK
<1> QED  BY <1>1, <1>2, <1>3, <1>4, <1>6, <1>7, StillKeeps

(* The steps of a registration, and those of the signal handler.           *)
LEMMA ForkKeeps ==
  ASSUME HandlersInv, NEW t \in Tasks, Fork(t)
  PROVE  HandlersInv'
<1>p. PICK p : p = At("get", 0)
  OBVIOUS
<1>1. /\ p \in Places /\ p.at = "get" /\ "main" \in Contexts /\ "main" # "signal"
      /\ captured \subseteq Tasks /\ forks \in [Tasks -> Nat]
  BY <1>p DEF Places, At, Contexts, HandlersInv, TypesOK
<1>2. /\ MovesTo(t, "main", p) /\ UNCHANGED <<recs, head, captured, signals>>
      /\ pc[t]["main"].at = "idle" /\ forks' = [forks EXCEPT ![t] = @ + 1]
  BY <1>1, <1>p DEF Fork, MovesTo, Runs
<1>3. forks' \in [Tasks -> Nat]
  BY <1>1, <1>2
<1>4. Fits(t, "main", p) /\ \A r \in Nat : ~ Filling(pc[t]["main"], r)
  BY <1>1, <1>2 DEF Fits, Filling
<1> QED  BY <1>1, <1>2, <1>3, <1>4, StillKeeps

LEMMA ForkAllocatesKeeps ==
  ASSUME HandlersInv, NEW t \in Tasks, ForkAllocates(t)
  PROVE  HandlersInv'
<1>1. /\ Runs(t, "main", "got") /\ pc[t]["main"].at = "got" /\ "main" \in Contexts
      /\ "main" # "signal" /\ UNCHANGED <<head, forks, captured, signals>>
      /\ captured \subseteq Tasks /\ forks \in [Tasks -> Nat]
  BY DEF ForkAllocates, Runs, Contexts, HandlersInv, TypesOK
<1>2. \A r \in Nat : ~ Filling(pc[t]["main"], r)
  BY <1>1 DEF Filling
<1>3. CASE pc[t]["main"].tmp # 0 /\ GoesTo(t, "main", At("fill", pc[t]["main"].tmp))
           /\ UNCHANGED recs
  <2>p. PICK p : p = At("fill", pc[t]["main"].tmp)
    OBVIOUS
  <2>1. p.at = "fill" /\ p.tmp = pc[t]["main"].tmp
    BY <2>p DEF At
  <2>2. p.tmp \in Added /\ recs[p.tmp].rid = t
    BY <1>1, <1>3, <2>1 DEF HandlersInv, PlacesOK, Fits
  <2>3. p.tmp \in Nat
    BY <2>2 DEF HandlersInv, TypesOK, Added
  <2>4. MovesTo(t, "main", p)
    BY <1>3, <2>1, <2>3, <2>p DEF MovesTo, Places, At
  <2>5. Fits(t, "main", p)
    BY <2>1, <2>2 DEF Fits
  <2> QED  BY <1>1, <1>2, <1>3, <2>4, <2>5, StillKeeps
<1>4. CASE /\ recs' = Append(recs, [rid |-> t, next |-> 0, prev |-> 0, filled |-> FALSE])
           /\ GoesTo(t, "main", At("addlock", Len(recs) + 1))
  <2>1. RecordsKept /\ RingOK' /\ PlacesOK' /\ FillingOK'
    BY <1>1, <1>4, AllocatingKeeps
  <2>n. PICK n : n = Len(recs) + 1
    OBVIOUS
  <2>p. PICK p : p = At("addlock", n)
    OBVIOUS
  <2>2. MovesTo(t, "main", p)
    <3>1. n \in Nat
      BY <2>n DEF HandlersInv, TypesOK
    <3> QED  BY <1>4, <2>n, <2>p, <3>1 DEF MovesTo, Places, At
  <2>3. /\ pc' \in [Tasks -> [Contexts -> Places]]
        /\ \A u \in Tasks, d \in Contexts : u # t \/ d # "main" => pc'[u][d] = pc[u][d]
    BY <1>1, <2>2, MovedIs DEF HandlersInv
  <2>4. TypesOK'
    BY <1>1, <2>1, <2>3 DEF HandlersInv, TypesOK, RecordsKept
  <2>5. SignalsOK'
    <3>1. \A u \in Tasks : pc'[u]["signal"] = pc[u]["signal"]
      BY <1>1, <2>3 DEF Contexts
    <3> QED  BY <1>1, <2>1, <3>1, SignalsKept DEF HandlersInv
  <2> QED  BY <2>1, <2>4, <2>5 DEF HandlersInv
<1>5. CASE GoesTo(t, "main", Idle) /\ UNCHANGED recs
  <2>p. PICK p : p = Idle
    OBVIOUS
  <2>1. MovesTo(t, "main", p) /\ Fits(t, "main", p)
    BY <1>5, <2>p DEF MovesTo, Places, At, Idle, Fits
  <2> QED  BY <1>1, <1>2, <1>5, <2>1, StillKeeps
<1> QED  BY <1>3, <1>4, <1>5 DEF ForkAllocates

LEMMA AddLocksKeeps ==
  ASSUME HandlersInv, NEW t \in Tasks, AddLocks(t)
  PROVE  HandlersInv'
<1>p. PICK p : p = At("add", pc[t]["main"].tmp)
  OBVIOUS
<1>1. /\ p.at = "add" /\ p.tmp = pc[t]["main"].tmp /\ "main" \in Contexts
      /\ "main" # "signal"
      /\ captured \subseteq Tasks /\ forks \in [Tasks -> Nat]
  BY <1>p DEF At, Contexts, HandlersInv, TypesOK
<1>2. /\ GoesTo(t, "main", p) /\ UNCHANGED <<recs, head, forks, captured, signals>>
      /\ pc[t]["main"].at = "addlock"
  BY <1>p DEF AddLocks, Runs
<1>3. /\ p.tmp \in DOMAIN recs /\ recs[p.tmp].rid = t /\ recs[p.tmp].next = 0
  BY <1>1, <1>2 DEF HandlersInv, PlacesOK, Fits
<1>4. Fits(t, "main", p)
  BY <1>1, <1>3 DEF Fits
<1>5. MovesTo(t, "main", p)
  <2>1. p.tmp \in Nat
    BY <1>3 DEF HandlersInv, TypesOK
  <2> QED  BY <1>1, <1>2, <1>p, <2>1 DEF MovesTo, Places, At
<1>6. \A r \in Nat : Filling(pc[t]["main"], r) => Filling(p, r)
  BY <1>1 DEF Filling
<1> QED  BY <1>1, <1>2, <1>4, <1>5, <1>6, StillKeeps

LEMMA AddingKeeps ==
  ASSUME HandlersInv, NEW t \in Tasks, Adds(t) \/ Fills(t)
  PROVE  HandlersInv'
<1>1. RecordsKept /\ RingOK' /\ PlacesOK' /\ FillingOK'
  BY AddsKeeps, FillsKeeps
<1>2. /\ TypesOK /\ "main" \in Contexts /\ pc[t]["main"].at \in {"add", "fill"}
      /\ UNCHANGED <<forks, captured, signals>>
  BY DEF Adds, Fills, Runs, HandlersInv, Contexts
<1>3. \E p : MovesTo(t, "main", p)
  <2>1. pc[t]["main"].tmp \in Nat
    BY <1>2 DEF HandlersInv, PlacesOK, Fits, Added, TypesOK
  <2>2. \E w \in {"fill", "capture"} : GoesTo(t, "main", At(w, pc[t]["main"].tmp))
    BY DEF Adds, Fills
  <2> QED  BY <2>1, <2>2 DEF MovesTo, Places, At
<1>4. PICK p : MovesTo(t, "main", p)
  BY <1>3
<1>5. /\ pc' \in [Tasks -> [Contexts -> Places]]
      /\ \A u \in Tasks, d \in Contexts : u # t \/ d # "main" => pc'[u][d] = pc[u][d]
  BY <1>2, <1>4, MovedIs
<1>6. TypesOK'
  BY <1>1, <1>2, <1>5 DEF TypesOK, RecordsKept
<1>7. SignalsOK'
  <2>1. \A u \in Tasks : pc'[u]["signal"] = pc[u]["signal"]
    BY <1>5 DEF Contexts
  <2> QED  BY <1>1, <1>2, <2>1, SignalsKept DEF HandlersInv
<1> QED  BY <1>1, <1>6, <1>7 DEF HandlersInv

LEMMA CapturesKeeps ==
  ASSUME HandlersInv, NEW t \in Tasks, Captures(t)
  PROVE  HandlersInv'
<1>p. PICK p : p = Idle
  OBVIOUS
<1>1. /\ GoesTo(t, "main", p) /\ UNCHANGED <<recs, head, forks, signals>>
      /\ pc[t]["main"].at = "capture" /\ captured' \in {captured, captured \cup {t}}
      /\ "main" \in Contexts /\ "main" # "signal"
      /\ captured \subseteq Tasks /\ forks \in [Tasks -> Nat]
  BY <1>p DEF Captures, Runs, Contexts, HandlersInv, TypesOK
<1>2. MovesTo(t, "main", p) /\ Fits(t, "main", p)
  BY <1>1, <1>p DEF MovesTo, Places, At, Idle, Fits
<1>3. \A r \in Nat : ~ Filling(pc[t]["main"], r)
  BY <1>1 DEF Filling
<1>4. \E r \in Added : recs[r].rid = t
  BY <1>1 DEF HandlersInv, PlacesOK, Fits
<1>5. /\ captured \subseteq captured' /\ captured' \subseteq Tasks
      /\ \A u \in captured' \ captured : \E r \in Added : recs[r].rid = u
  BY <1>1, <1>4
<1> QED  BY <1>1, <1>2, <1>3, <1>5, StillKeeps

LEMMA SendsSignalKeeps ==
  ASSUME HandlersInv, NEW t \in Tasks, SendsSignal(t)
  PROVE  HandlersInv'
<1>1. /\ t \in captured /\ signals' = signals \cup {t}
      /\ UNCHANGED <<recs, head, pc, forks, captured>>
  BY DEF SendsSignal
<1>2. Added' = Added
  BY <1>1 DEF Added
<1>3. TypesOK'
  BY <1>1 DEF HandlersInv, TypesOK
<1>4. RingOK'
  <2>1. RingKept
    BY <1>1, <1>2 DEF RingKept
  <2> QED  BY <2>1, KeptRing DEF HandlersInv
<1>5. PlacesOK' /\ FillingOK'
  BY <1>1, <1>2 DEF HandlersInv, PlacesOK, Fits, FillingOK, Filling
<1>6. SignalsOK'
  BY <1>1, <1>2 DEF HandlersInv, SignalsOK, Idle, At
<1> QED  BY <1>3, <1>4, <1>5, <1>6 DEF HandlersInv

LEMMA SignalKeeps ==
  ASSUME HandlersInv, NEW t \in Tasks, SignalArrives(t) \/ HandlerReturns(t)
  PROVE  HandlersInv'
<1>1. /\ "signal" \in Contexts /\ "main" # "signal" /\ UNCHANGED <<recs, head, forks, captured>>
      /\ captured \subseteq Tasks /\ forks \in [Tasks -> Nat] /\ signals' \subseteq signals
  BY DEF SignalArrives, HandlerReturns, Contexts, HandlersInv, TypesOK
<1>2. t \in captured
  <2>1. t \in signals \/ pc[t]["signal"] # Idle
    BY DEF SignalArrives, HandlerReturns, Idle, At
  <2> QED  BY <2>1, SignalMeansCaptured
<1>3. \E p : MovesTo(t, "signal", p) /\ Fits(t, "signal", p)
  <2>p. PICK p : /\ p \in {At("get", 0), Idle} /\ GoesTo(t, "signal", p)
    BY DEF SignalArrives, HandlerReturns
  <2> QED  BY <2>p DEF MovesTo, Places, At, Idle, Fits
<1>4. PICK p : MovesTo(t, "signal", p) /\ Fits(t, "signal", p)
  BY <1>3
<1> QED  BY <1>1, <1>2, <1>4, StillKeeps

-----------------------------------------------------------------------------
(* The invariant, from the first state and over every step.                *)
LEMMA HandlersInit ==
  ASSUME Init  PROVE HandlersInv
<1>1. recs \in Seq(Records) /\ DOMAIN recs = {} /\ Added = {} /\ recs = <<>>
  BY DEF Init, Added
<1>2. TypesOK
  <2>1. Idle \in Places
    BY DEF Idle, At, Places
  <2>2. \A t \in Tasks : pc[t] \in [Contexts -> Places]
    BY <2>1 DEF Init
  <2> QED  BY <1>1, <2>2 DEF Init, TypesOK
<1>3. RingIs(<<>>)
  BY <1>1 DEF Init, RingIs
<1>4. \A t \in Tasks, c \in Contexts : pc[t][c] = Idle
  BY DEF Init
<1>5. PlacesOK
  BY <1>4 DEF PlacesOK, Fits, Idle, At
<1>6. SignalsOK
  BY <1>4 DEF Init, SignalsOK, Contexts
<1>7. FillingOK
  BY <1>1 DEF FillingOK
<1> QED  BY <1>2, <1>3, <1>5, <1>6, <1>7 DEF HandlersInv, RingOK

LEMMA HandlersNext ==
  ASSUME HandlersInv, [Next]_vars  PROVE HandlersInv'
<1>1. ASSUME NEW t \in Tasks, Fork(t) \/ Steps(t) \/ SendsSignal(t) \/ SignalArrives(t)
      PROVE  HandlersInv'
  BY <1>1, LookupKeeps, ForkKeeps, ForkAllocatesKeeps, AddLocksKeeps, AddingKeeps,
     CapturesKeeps, SendsSignalKeeps, SignalKeeps DEF Steps
<1>2. CASE UNCHANGED vars
  <2>1. UNCHANGED <<recs, head, pc, forks, captured, signals>>
    BY <1>2 DEF vars
  <2>2. Added' = Added
    BY <2>1 DEF Added
  <2>3. RingOK'
    <3>1. RingKept
      BY <2>1, <2>2 DEF RingKept
    <3> QED  BY <3>1, KeptRing DEF HandlersInv
  <2>4. TypesOK' /\ PlacesOK' /\ FillingOK' /\ SignalsOK'
    BY <2>1, <2>2 DEF HandlersInv, TypesOK, PlacesOK, Fits, FillingOK, Filling,
       SignalsOK, Idle, At
  <2> QED  BY <2>3, <2>4 DEF HandlersInv
<1> QED  BY <1>1, <1>2 DEF Next

LEMMA HandlersAlways == FairSpec => []HandlersInv
BY HandlersInit, HandlersNext, PTL DEF FairSpec

(* The invariant says so with the records in the order of the ring; the    *)
(* walk of TableIsRing takes them in this order.                           *)
LEMMA RingIsTable ==
  ASSUME HandlersInv  PROVE TableIsRing
<1>1. TypesOK /\ recs \in Seq(Records)
  BY DEF HandlersInv, TypesOK
<1>2. PICK s : RingIs(s)
  BY DEF HandlersInv, RingOK
<1> DEFINE k == Len(s)
           n == Len(recs)
<1>3. /\ k \in Nat /\ n \in Nat /\ k <= n
      /\ Added = {s[i] : i \in 1 .. k} /\ head = IF s = <<>> THEN 0 ELSE s[1]
      /\ \A i \in 1 .. k : recs[s[Next1(i, k)]].prev = s[i] /\ recs[s[i]].next = s[Next1(i, k)]
      /\ (s = <<>> <=> k = 0) /\ \A r \in Added : r # 0
  <2>1. k \in Nat /\ n \in Nat /\ k <= n
    BY <1>1, <1>2, RingIsShort
  <2>2. /\ Added = {s[i] : i \in 1 .. k} /\ head = IF s = <<>> THEN 0 ELSE s[1]
        /\ \A i \in 1 .. k : recs[s[Next1(i, k)]].prev = s[i] /\ recs[s[i]].next = s[Next1(i, k)]
    BY <1>2 DEF RingIs
  <2>3. s = <<>> <=> k = 0
    BY <1>2 DEF RingIs
  <2>4. \A r \in Added : r # 0
    BY <1>1 DEF Added
  <2> HIDE DEF k, n
  <2> QED  BY <2>1, <2>2, <2>3, <2>4
<1> HIDE DEF k, n
<1>4. head = 0 <=> Added = {}
  <2>1. CASE k = 0
    BY <1>3, <2>1
  <2>2. CASE k # 0
    <3>1. 1 \in 1 .. k /\ head = s[1]
      BY <1>3, <2>2
    <3> QED  BY <1>3, <3>1
  <2> QED  BY <2>1, <2>2
<1>5. \A r \in Added : recs[recs[r].next].prev = r
  BY <1>3
<1>6. ASSUME head # 0  PROVE Added = {Along(head)[m] : m \in 0 .. n - 1}
  <2>1. 1 \in 1 .. k /\ head = s[1]
    BY <1>3, <1>6
  <2>2. /\ \A m \in 0 .. n : Along(head)[m] \in Added
        /\ \A m \in 0 .. k - 1 : Along(head)[m] = s[1 + m]
    BY <1>1, <1>2, <2>1, AlongIs DEF k, n
  <2>3. ASSUME NEW r \in Added  PROVE \E m \in 0 .. n - 1 : Along(head)[m] = r
    <3>1. PICK i \in 1 .. k : r = s[i]
      BY <1>3
    <3>2. i - 1 \in 0 .. k - 1 /\ i - 1 \in 0 .. n - 1 /\ 1 + (i - 1) = i
      BY <1>3
    <3> QED  BY <2>2, <3>1, <3>2
  <2>4. \A m \in 0 .. n - 1 : m \in 0 .. n
    BY <1>3
  <2> QED  BY <2>2, <2>3, <2>4
<1> QED  BY <1>4, <1>5, <1>6 DEF TableIsRing, n

(* add_threaded_signal_handler_record keeps the list one ring of all the   *)
(* records that were added, linked both ways, in any number of tasks, and  *)
(* whoever holds the mutex.                                                *)
THEOREM TheTableIsARing == FairSpec => []TableIsRing
BY HandlersAlways, RingIsTable, PTL

(* A lookup of a task whose record is in the list misses it only if the    *)
(* head it started from has been replaced.                                 *)
LEMMA MissesAreOvertaken ==
  ASSUME HandlersInv, [Next]_vars, NEW t \in captured, pc'[t]["signal"] = At("got", 0)
  PROVE  pc[t]["signal"].tmp # head
<1>1. /\ t \in Tasks /\ "signal" \in Contexts /\ TypesOK /\ RingOK
      /\ \E r \in Added : recs[r].rid = t
  BY DEF HandlersInv, TypesOK, SignalsOK, Contexts
<1>2. head # 0 /\ head \in Added
  BY <1>1, SignalMeansCaptured
<1>3. At("got", 0).tmp = 0 /\ At("got", 0).at = "got" /\ At("got", 0) # Idle
      /\ At("got", 0) # At("get", 0)
  BY DEF At, Idle
<1>4. CASE pc'[t]["signal"] = pc[t]["signal"]
  BY <1>2, <1>3, <1>4
<1>5. ASSUME NEW u \in Tasks, NEW c \in Contexts, NEW p, GoesTo(u, c, p)
      PROVE  (u = t /\ c = "signal" /\ p = At("got", 0)) \/ pc'[t]["signal"] = pc[t]["signal"]
  BY <1>1, <1>5 DEF TypesOK, GoesTo
<1>6. CASE GetReadsHead(t, "signal")
  <2>1. GoesTo(t, "signal", At("lock", head))
    BY <1>2, <1>6 DEF GetReadsHead
  <2>2. At("lock", head) # At("got", 0)
    BY DEF At
  <2> QED  BY <1>1, <1>4, <1>5, <2>1, <2>2
<1>7. CASE GetLocks(t, "signal")
  <2>1. GoesTo(t, "signal", At("walk", pc[t]["signal"].tmp))
    BY <1>7 DEF GetLocks
  <2>2. At("walk", pc[t]["signal"].tmp) # At("got", 0)
    BY DEF At
  <2> QED  BY <1>1, <1>4, <1>5, <2>1, <2>2
<1>8. CASE GetWalks(t, "signal")
  <2>f. PICK f : f = Found(pc[t]["signal"].tmp, t)
    OBVIOUS
  <2>1. GoesTo(t, "signal", At("got", f)) /\ pc[t]["signal"].at = "walk"
    BY <1>8, <2>f DEF GetWalks, Runs
  <2>2. pc[t]["signal"].tmp \in Added
    BY <1>1, <2>1 DEF HandlersInv, PlacesOK, Fits
  <2>3. pc[t]["signal"].tmp = head => f # 0
    BY <1>1, <2>2, <2>f, FoundIs
  <2>4. f # 0 => At("got", f) # At("got", 0)
    BY DEF At
  <2> QED  BY <1>1, <1>4, <1>5, <2>1, <2>3, <2>4
<1>9. CASE HandlerReturns(t) \/ SignalArrives(t)
  BY <1>1, <1>3, <1>4, <1>5, <1>9 DEF HandlerReturns, SignalArrives
<1>10. CASE UNCHANGED vars
  BY <1>4, <1>10 DEF vars
<1>11. ASSUME NEW u \in Tasks, NEW c \in Contexts, u # t \/ c # "signal",
              \E p : GoesTo(u, c, p)
       PROVE  pc[t]["signal"].tmp # head
  BY <1>4, <1>5, <1>11
<1> QED
  <2>1. "main" \in Contexts /\ "main" # "signal"
    BY DEF Contexts
  <2>2. ASSUME NEW u \in Tasks,
               Fork(u) \/ ForkAllocates(u) \/ AddLocks(u) \/ Adds(u) \/ Fills(u) \/ Captures(u)
        PROVE  \E p : GoesTo(u, "main", p)
    BY <2>2 DEF Fork, ForkAllocates, AddLocks, Adds, Fills, Captures
  <2>3. ASSUME NEW u \in Tasks, NEW c \in Contexts,
               GetReadsHead(u, c) \/ GetLocks(u, c) \/ GetWalks(u, c)
        PROVE  pc[t]["signal"].tmp # head
    <3>1. \E p : GoesTo(u, c, p)
      BY <2>3 DEF GetReadsHead, GetLocks, GetWalks
    <3>2. CASE u # t \/ c # "signal"
      BY <1>11, <3>1, <3>2
    <3>3. CASE u = t /\ c = "signal"
      BY <1>6, <1>7, <1>8, <2>3, <3>3
    <3> QED  BY <3>2, <3>3
  <2>4. ASSUME NEW u \in Tasks, SignalArrives(u) \/ HandlerReturns(u)
        PROVE  pc[t]["signal"].tmp # head
    <3>1. \E p : GoesTo(u, "signal", p)
      BY <2>4 DEF SignalArrives, HandlerReturns
    <3> QED  BY <1>1, <1>9, <1>11, <2>4, <3>1
  <2>5. ASSUME NEW u \in Tasks, SendsSignal(u)  PROVE pc[t]["signal"].tmp # head
    BY <1>4, <2>5 DEF SendsSignal
  <2> QED  BY <1>10, <1>11, <2>1, <2>2, <2>3, <2>4, <2>5 DEF Next, Steps

THEOREM MissedOnlyWhenOvertaken == FairSpec => MissedOnlyIfOvertaken
<1>1. HandlersInv /\ [Next]_vars =>
        [\A t \in captured :
           pc'[t]["signal"] = At("got", 0) => pc[t]["signal"].tmp # head]_vars
  BY MissesAreOvertaken
<1> QED  BY <1>1, HandlersAlways, PTL DEF FairSpec, MissedOnlyIfOvertaken

-----------------------------------------------------------------------------
(* A task that registered once did so before its signals were captured.    *)
OnceOK ==
  \A t \in Tasks : /\ forks[t] <= 1 /\ t \in captured => pc[t]["main"] = Idle
                   /\ t \in captured \/ pc[t]["main"] # Idle => forks[t] >= 1

LEMMA OnceNext ==
  ASSUME TypesOK, OnceOK, [Next]_vars
  PROVE  OnceOK'
<1>1. /\ \A u \in Tasks : forks[u] \in Nat
      /\ pc \in [Tasks -> [Contexts -> Places]] /\ "main" \in Contexts
      /\ "signal" \in Contexts /\ "main" # "signal"
  BY DEF TypesOK, Contexts
<1>2. ASSUME NEW u \in Tasks, NEW c \in Contexts, NEW p, GoesTo(u, c, p)
      PROVE  /\ pc'[u][c] = p
             /\ \A t \in Tasks : t # u \/ c # "main" => pc'[t]["main"] = pc[t]["main"]
  <2> HIDE DEF Contexts, Places
  <2> QED  BY <1>1, <1>2 DEF GoesTo
<1>3. ASSUME NEW u \in Tasks, Fork(u)  PROVE OnceOK'
  <2>p. PICK p : p = At("get", 0)
    OBVIOUS
  <2>1. /\ forks' = [forks EXCEPT ![u] = @ + 1]
        /\ GoesTo(u, "main", p) /\ captured' = captured
    BY <1>3, <2>p DEF Fork
  <2>2. /\ forks'[u] <= 1 => u \notin captured
        /\ forks'[u] \in Nat /\ forks'[u] >= 1
    <3>1. forks \in [Tasks -> Nat] /\ forks'[u] = forks[u] + 1
      BY <2>1 DEF TypesOK
    <3>2. u \in captured => forks[u] >= 1
      BY DEF OnceOK
    <3> QED  BY <1>1, <3>1, <3>2
  <2>3. \A t \in Tasks : t # u => forks'[t] = forks[t]
    BY <2>1 DEF TypesOK
  <2>4. \A t \in Tasks : t # u => pc'[t]["main"] = pc[t]["main"]
    BY <1>1, <1>2, <2>1
  <2>5. \A t \in Tasks : /\ forks'[t] <= 1 /\ t \in captured' => pc'[t]["main"] = Idle
                         /\ t \in captured' \/ pc'[t]["main"] # Idle => forks'[t] >= 1
    BY <2>1, <2>2, <2>3, <2>4 DEF OnceOK
  <2> QED  BY <2>5 DEF OnceOK, Idle, At
<1>4. ASSUME NEW u \in Tasks, NEW c \in Contexts,
             c = "main" => pc[u]["main"] # Idle,
             \E p : GoesTo(u, c, p), UNCHANGED <<forks, captured>>
      PROVE  OnceOK'
  <2>1. forks[u] <= 1 => u \notin captured \/ c # "main"
    BY <1>4 DEF OnceOK
  <2>2. \A t \in Tasks : t # u \/ c # "main" => pc'[t]["main"] = pc[t]["main"]
    BY <1>2, <1>4
  <2>3. \A t \in Tasks : /\ forks'[t] <= 1 /\ t \in captured' => pc'[t]["main"] = Idle
                         /\ t \in captured' \/ pc'[t]["main"] # Idle => forks'[t] >= 1
    BY <1>4, <2>1, <2>2 DEF OnceOK
  <2> QED  BY <2>3 DEF OnceOK, Idle, At
<1>5. ASSUME NEW u \in Tasks,
             ForkAllocates(u) \/ AddLocks(u) \/ Adds(u) \/ Fills(u)
      PROVE  OnceOK'
  <2>1. pc[u]["main"] # Idle /\ UNCHANGED <<forks, captured>>
    BY <1>5 DEF ForkAllocates, AddLocks, Adds, Fills, Runs, Idle, At
  <2>2. \E p : GoesTo(u, "main", p)
    BY <1>5 DEF ForkAllocates, AddLocks, Adds, Fills
  <2> QED  BY <1>1, <1>4, <2>1, <2>2
<1>6. ASSUME NEW u \in Tasks, NEW c \in Contexts,
             GetReadsHead(u, c) \/ GetLocks(u, c) \/ GetWalks(u, c)
      PROVE  OnceOK'
  <2>1. pc[u][c] # Idle /\ UNCHANGED <<forks, captured>>
    BY <1>6 DEF GetReadsHead, GetLocks, GetWalks, Runs, Idle, At
  <2>2. \E p : GoesTo(u, c, p)
    BY <1>6 DEF GetReadsHead, GetLocks, GetWalks
  <2> QED  BY <1>4, <2>1, <2>2
<1>7. ASSUME NEW u \in Tasks, SignalArrives(u) \/ HandlerReturns(u)
      PROVE  OnceOK'
  <2>1. UNCHANGED <<forks, captured>> /\ \E p : GoesTo(u, "signal", p)
    BY <1>7 DEF SignalArrives, HandlerReturns
  <2> QED  BY <1>1, <1>4, <2>1
<1>8. ASSUME NEW u \in Tasks, Captures(u)  PROVE OnceOK'
  <2>1. /\ pc[u]["main"] # Idle /\ forks' = forks /\ GoesTo(u, "main", Idle)
        /\ captured' \subseteq captured \cup {u}
    BY <1>8 DEF Captures, Runs, Idle, At
  <2>2. /\ pc'[u]["main"] = Idle
        /\ \A t \in Tasks : t # u => pc'[t]["main"] = pc[t]["main"]
    <3>i. PICK p : p = Idle
      OBVIOUS
    <3> QED  BY <1>1, <1>2, <2>1, <3>i
  <2>3. \A t \in Tasks : /\ forks'[t] <= 1 /\ t \in captured' => pc'[t]["main"] = Idle
                         /\ t \in captured' \/ pc'[t]["main"] # Idle => forks'[t] >= 1
    BY <2>1, <2>2 DEF OnceOK
  <2> QED  BY <2>3 DEF OnceOK, Idle, At
<1>9. ASSUME NEW u \in Tasks, SendsSignal(u)  PROVE OnceOK'
  BY <1>9 DEF SendsSignal, OnceOK, Idle, At
<1>10. CASE UNCHANGED vars
  BY <1>10 DEF vars, OnceOK, Idle, At
<1> QED  BY <1>3, <1>5, <1>6, <1>7, <1>8, <1>9, <1>10 DEF Next, Steps

(* Whatever record a signal handler finds is its task's, and it says which *)
(* handler to call if the task registered once: it was filled, and only    *)
(* then was the signal captured.  By a second registration a lookup that   *)
(* is overtaken may lead to a second record, which the next signal may     *)
(* find before it is filled.                                               *)
THEOREM TheRecordIsRight == FairSpec => []RightRecord
<1>1. Init => OnceOK
  <2> SUFFICES ASSUME Init  PROVE OnceOK
    OBVIOUS
  <2>1. captured = {} /\ \A t \in Tasks : pc[t]["main"] = Idle
    BY DEF Init, Contexts
  <2> QED  BY <2>1 DEF OnceOK
<1>2. HandlersInv /\ OnceOK /\ [Next]_vars => OnceOK'
  BY OnceNext DEF HandlersInv
<1>3. HandlersInv /\ OnceOK => RightRecord
  <2> SUFFICES ASSUME HandlersInv, OnceOK, NEW t \in Tasks,
                      pc[t]["signal"].at = "got", pc[t]["signal"].tmp # 0
               PROVE  /\ recs[pc[t]["signal"].tmp].rid = t
                      /\ forks[t] <= 1 => recs[pc[t]["signal"].tmp].filled
    BY DEF RightRecord
  <2> DEFINE r == pc[t]["signal"].tmp
  <2>1. "signal" \in Contexts /\ pc[t]["signal"] # Idle
    BY DEF Contexts, Idle, At
  <2>2. r \in Added /\ recs[r].rid = t
    BY <2>1 DEF HandlersInv, PlacesOK, Fits
  <2>3. forks[t] <= 1 => pc[t]["main"] = Idle
    BY <2>1, SignalMeansCaptured DEF OnceOK
  <2>4. forks[t] <= 1 => recs[r].filled
    BY <2>2, <2>3 DEF HandlersInv, FillingOK, Filling, Added, Idle, At
  <2> QED  BY <2>2, <2>4
<1> QED  BY <1>1, <1>2, <1>3, HandlersAlways, PTL DEF FairSpec

=============================================================================
