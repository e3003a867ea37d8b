--------------------------- MODULE ZsrmQueueLemmas ---------------------------
(***************************************************************************)
(* What the list operations of ZsrmQueues do to an ordered list.  An order *)
(* is a set O of pairs, and a sequence is Ordered by O if O holds of every *)
(* two of its elements, in the order in which they occur; it need not be   *)
(* transitive, so that being without repetitions is an order as well.      *)
(***************************************************************************)
EXTENDS ZsrmQueues, SequenceTheorems, FiniteSetTheorems, TLAPS

Ordered(s, O) == \A i, j \in 1 .. Len(s) : i < j => <<s[i], s[j]>> \in O

-----------------------------------------------------------------------------
(* A set of natural numbers that is not empty has a least element.         *)
LEMMA LeastNat ==
  ASSUME NEW T, T \subseteq Nat, T # {}
  PROVE  \E x \in T : \A y \in T : x <= y
<1> DEFINE W == {1 .. i : i \in T}
<1>1. W \subseteq FiniteSubsetsOf(Nat) /\ W # {}
  <2>1. \A i \in T : 1 .. i \subseteq Nat /\ IsFiniteSet(1 .. i)
    BY FS_Interval
  <2> QED  BY <2>1 DEF FiniteSubsetsOf
<1>2. PICK w \in W : \A v \in W : ~ (<<v, w>> \in StrictSubsetOrdering(Nat))
  <2> HIDE DEF W
  <2> QED  BY <1>1, FS_StrictSubsetOrderingWellFounded, WFMin
<1>3. PICK x \in T : w = 1 .. x
  OBVIOUS
<1>4. ASSUME NEW y \in T, y < x  PROVE FALSE
  <2>1. /\ (1 .. y) \in W
        /\ (1 .. y) \in FiniteSubsetsOf(Nat) /\ w \in FiniteSubsetsOf(Nat)
    BY <1>1
  <2>2. (1 .. y) \subseteq w /\ (1 .. y) # w
    BY <1>3, <1>4
  <2>3. <<(1 .. y), w>> \in StrictSubsetOrdering(Nat)
    BY <2>1, <2>2 DEF StrictSubsetOrdering, FiniteSubsetsOf
  <2> QED  BY <2>1, <2>3, <1>2
<1> QED  BY <1>4

(* FirstIn is where the loops of the code stop. *)
LEMMA FirstInIs ==
  ASSUME NEW R, NEW s \in Seq(R), NEW S
  PROVE  /\ FirstIn(s, S) \in 1 .. Len(s) + 1
         /\ \A j \in 1 .. FirstIn(s, S) - 1 : s[j] \notin S
         /\ FirstIn(s, S) <= Len(s) => s[FirstIn(s, S)] \in S
<1> DEFINE T == {i \in 1 .. Len(s) + 1 : i <= Len(s) => s[i] \in S}
<1>1. T \subseteq Nat /\ Len(s) + 1 \in T
  OBVIOUS
<1>2. PICK i \in T : \A j \in T : i <= j
  <2> HIDE DEF T
  <2> QED  BY <1>1, LeastNat
<1>3. \A j \in 1 .. i - 1 : s[j] \notin S
  BY <1>2
<1> QED  BY <1>2, <1>3 DEF FirstIn

(* InsertAt of the library, element by element. *)
LEMMA InsertAtIs ==
  ASSUME NEW R, NEW s \in Seq(R), NEW e \in R, NEW i \in 1 .. Len(s) + 1
  PROVE  /\ InsertAt(s, i, e) \in Seq(R)
         /\ Len(InsertAt(s, i, e)) = Len(s) + 1
         /\ \A j \in 1 .. Len(s) + 1 :
              InsertAt(s, i, e)[j] = IF j < i THEN s[j]
                                     ELSE IF j = i THEN e ELSE s[j - 1]
<1> DEFINE a == SubSeq(s, 1, i - 1)
           b == SubSeq(s, i, Len(s))
           c == a \o <<e>>
<1>1. /\ a \in Seq(R) /\ Len(a) = i - 1
      /\ \A j \in 1 .. i - 1 : a[j] = s[j]
  BY SubSeqProperties
<1>2. /\ b \in Seq(R) /\ Len(b) = Len(s) + 1 - i
      /\ \A j \in 1 .. Len(s) + 1 - i : b[j] = s[i + j - 1]
  BY SubSeqProperties
<1> HIDE DEF a, b
<1>3. /\ c \in Seq(R) /\ Len(c) = i
      /\ \A j \in 1 .. i : c[j] = IF j < i THEN s[j] ELSE e
  BY <1>1
<1> HIDE DEF c
<1>4. /\ c \o b \in Seq(R) /\ Len(c \o b) = Len(c) + Len(b)
      /\ \A j \in 1 .. Len(c) + Len(b) :
           (c \o b)[j] = IF j <= Len(c) THEN c[j] ELSE b[j - Len(c)]
  BY <1>2, <1>3, ConcatProperties
<1>5. Len(c) + Len(b) = Len(s) + 1
  BY <1>2, <1>3
<1>6. ASSUME NEW j \in 1 .. Len(s) + 1
      PROVE (c \o b)[j] = IF j < i THEN s[j] ELSE IF j = i THEN e ELSE s[j - 1]
  <2>1. CASE j <= i
    BY <2>1, <1>3, <1>4, <1>5
  <2>2. CASE i < j
    <3>1. j - i \in 1 .. Len(s) + 1 - i /\ i + (j - i) - 1 = j - 1
      BY <2>2
    <3>2. (c \o b)[j] = b[j - i]
      BY <2>2, <1>3, <1>4, <1>5
    <3>3. b[j - i] = s[j - 1]
      BY <1>2, <3>1
    <3> QED  BY <2>2, <3>2, <3>3
  <2>3. j <= i \/ i < j
    OBVIOUS
  <2> QED  BY <2>1, <2>2, <2>3
<1>7. InsertAt(s, i, e) = c \o b
  BY DEF InsertAt, a, b, c
<1> QED  BY <1>4, <1>5, <1>6, <1>7

(* RemoveAt of the library, element by element. *)
LEMMA RemoveAtIs ==
  ASSUME NEW R, NEW s \in Seq(R), NEW i \in 1 .. Len(s)
  PROVE  /\ RemoveAt(s, i) \in Seq(R)
         /\ Len(RemoveAt(s, i)) = Len(s) - 1
         /\ \A j \in 1 .. Len(s) - 1 :
              RemoveAt(s, i)[j] = IF j < i THEN s[j] ELSE s[j + 1]
<1> DEFINE a == SubSeq(s, 1, i - 1)
           b == SubSeq(s, i + 1, Len(s))
<1>1. /\ a \in Seq(R) /\ Len(a) = i - 1
      /\ \A j \in 1 .. i - 1 : a[j] = s[j]
  BY SubSeqProperties
<1>2. /\ b \in Seq(R) /\ Len(b) = Len(s) - i
      /\ \A j \in 1 .. Len(s) - i : b[j] = s[i + j]
  BY SubSeqProperties
<1> HIDE DEF a, b
<1>3. /\ a \o b \in Seq(R) /\ Len(a \o b) = Len(a) + Len(b)
      /\ \A j \in 1 .. Len(a) + Len(b) :
           (a \o b)[j] = IF j <= Len(a) THEN a[j] ELSE b[j - Len(a)]
  BY <1>1, <1>2, ConcatProperties
<1>4. Len(a) + Len(b) = Len(s) - 1
  BY <1>1, <1>2
<1>5. ASSUME NEW j \in 1 .. Len(s) - 1
      PROVE (a \o b)[j] = IF j < i THEN s[j] ELSE s[j + 1]
  <2>1. CASE j < i
    BY <2>1, <1>1, <1>3, <1>4
  <2>2. CASE i <= j
    <3>1. j - (i - 1) \in 1 .. Len(s) - i /\ i + (j - (i - 1)) = j + 1
      BY <2>2
    <3>2. (a \o b)[j] = b[j - (i - 1)]
      BY <2>2, <1>1, <1>3, <1>4
    <3> QED  BY <2>2, <3>1, <3>2, <1>2
  <2>3. j < i \/ i <= j
    OBVIOUS
  <2> QED  BY <2>1, <2>2, <2>3
<1>6. RemoveAt(s, i) = a \o b
  BY DEF RemoveAt, a, b
<1> QED  BY <1>3, <1>4, <1>5, <1>6

(* ToSet of the library is the set of the elements of a sequence. *)
LEMMA ToSetIs ==
  ASSUME NEW R, NEW s \in Seq(R)
  PROVE  /\ \A x : x \in ToSet(s) <=> \E i \in 1 .. Len(s) : x = s[i]
         /\ ToSet(s) \subseteq R
BY DEF ToSet

-----------------------------------------------------------------------------
(* The new element comes between those that are not in S and the rest.     *)
LEMMA InsertBeforeIs ==
  ASSUME NEW R, NEW s \in Seq(R), NEW r \in R, NEW S
  PROVE  /\ InsertBefore(s, r, S) \in Seq(R)
         /\ ToSet(InsertBefore(s, r, S)) = ToSet(s) \cup {r}
<1> DEFINE k == FirstIn(s, S)
           t == InsertAt(s, k, r)
<1>1. k \in 1 .. Len(s) + 1
  BY FirstInIs
<1> HIDE DEF k
<1>2. /\ t \in Seq(R) /\ Len(t) = Len(s) + 1
      /\ \A j \in 1 .. Len(s) + 1 :
           t[j] = IF j < k THEN s[j] ELSE IF j = k THEN r ELSE s[j - 1]
  BY <1>1, InsertAtIs
<1> HIDE DEF t
<1>3. ASSUME NEW x \in ToSet(t)  PROVE x \in ToSet(s) \cup {r}
  <2>1. PICK j \in 1 .. Len(s) + 1 : x = t[j]
    BY <1>2, <1>3, ToSetIs
  <2>2. CASE j < k
    <3>1. j \in 1 .. Len(s) /\ x = s[j]
      BY <1>1, <1>2, <2>1, <2>2
    <3> QED  BY <3>1, ToSetIs
  <2>3. CASE j = k
    BY <1>2, <2>1, <2>3
  <2>4. CASE j > k
    <3>1. j - 1 \in 1 .. Len(s) /\ x = s[j - 1]
      BY <1>1, <1>2, <2>1, <2>4
    <3> QED  BY <3>1, ToSetIs
  <2> QED  BY <1>1, <2>1, <2>2, <2>3, <2>4
<1>4. r \in ToSet(t)
  <2>1. k \in 1 .. Len(t) /\ t[k] = r
    BY <1>1, <1>2
  <2> QED  BY <1>2, <2>1, ToSetIs
<1>5. ASSUME NEW x \in ToSet(s)  PROVE x \in ToSet(t)
  <2>1. PICK j \in 1 .. Len(s) : x = s[j]
    BY <1>5, ToSetIs
  <2>2. CASE j < k
    <3>1. j \in 1 .. Len(t) /\ t[j] = x
      BY <1>2, <2>1, <2>2
    <3> QED  BY <1>2, <3>1, ToSetIs
  <2>3. CASE j >= k
    <3>1. j + 1 \in 1 .. Len(t) /\ t[j + 1] = x
      BY <1>1, <1>2, <2>1, <2>3
    <3> QED  BY <1>2, <3>1, ToSetIs
  <2> QED  BY <1>1, <2>1, <2>2, <2>3
<1> QED  BY <1>2, <1>3, <1>4, <1>5 DEF InsertBefore, t, k

(* Insertion keeps a list ordered if the new element is in order with what *)
(* comes before it and with what comes behind it.                          *)
LEMMA InsertBeforeOrdered ==
  ASSUME NEW R, NEW s \in Seq(R), NEW r \in R, NEW S, NEW O,
         Ordered(s, O),
         \A j \in 1 .. FirstIn(s, S) - 1 : <<s[j], r>> \in O,
         \A j \in FirstIn(s, S) .. Len(s) : <<r, s[j]>> \in O
  PROVE  Ordered(InsertBefore(s, r, S), O)
<1> DEFINE k == FirstIn(s, S)
           t == InsertAt(s, k, r)
<1>1. k \in 1 .. Len(s) + 1
  BY FirstInIs
<1>a. /\ \A j \in 1 .. k - 1 : <<s[j], r>> \in O
      /\ \A j \in k .. Len(s) : <<r, s[j]>> \in O
  OBVIOUS
<1> HIDE DEF k
<1>2. /\ t \in Seq(R) /\ Len(t) = Len(s) + 1
      /\ \A j \in 1 .. Len(s) + 1 :
           t[j] = IF j < k THEN s[j] ELSE IF j = k THEN r ELSE s[j - 1]
  BY <1>1, InsertAtIs
<1> HIDE DEF t
<1>3. ASSUME NEW i \in 1 .. Len(t), NEW j \in 1 .. Len(t), i < j
      PROVE  <<t[i], t[j]>> \in O
  <2>1. /\ i \in 1 .. Len(s) + 1 /\ j \in 1 .. Len(s) + 1
        /\ \A a, b \in 1 .. Len(s) : a < b => <<s[a], s[b]>> \in O
    BY <1>2 DEF Ordered
  <2>2. CASE j < k
    <3>1. t[i] = s[i] /\ t[j] = s[j] /\ i \in 1 .. Len(s) /\ j \in 1 .. Len(s)
      BY <1>1, <1>2, <1>3, <2>1, <2>2
    <3> QED  BY <1>3, <2>1, <3>1
  <2>3. CASE j = k
    <3>1. t[i] = s[i] /\ t[j] = r /\ i \in 1 .. k - 1
      BY <1>1, <1>2, <1>3, <2>1, <2>3
    <3> QED  BY <1>a, <3>1
  <2>4. CASE j > k /\ i = k
    <3>1. t[i] = r /\ t[j] = s[j - 1] /\ j - 1 \in k .. Len(s)
      BY <1>1, <1>2, <1>3, <2>1, <2>4
    <3> QED  BY <1>a, <3>1
  <2>5. CASE j > k /\ i < k
    <3>1. /\ t[i] = s[i] /\ t[j] = s[j - 1]
          /\ i \in 1 .. Len(s) /\ j - 1 \in 1 .. Len(s) /\ i < j - 1
      BY <1>1, <1>2, <1>3, <2>1, <2>5
    <3> QED  BY <2>1, <3>1
  <2>6. CASE i > k
    <3>1. /\ t[i] = s[i - 1] /\ t[j] = s[j - 1]
          /\ i - 1 \in 1 .. Len(s) /\ j - 1 \in 1 .. Len(s) /\ i - 1 < j - 1
      BY <1>1, <1>2, <1>3, <2>1, <2>6
    <3> QED  BY <2>1, <3>1
  <2>7. \/ j < k
        \/ j = k
        \/ j > k /\ i = k
        \/ j > k /\ i < k
        \/ i > k
    BY <1>1, <1>3, <2>1
  <2> QED  BY <2>2, <2>3, <2>4, <2>5, <2>6, <2>7
<1> QED  BY <1>3 DEF Ordered, InsertBefore, t, k

-----------------------------------------------------------------------------
(* Without repetitions FirstIn finds the only place of an element. *)
LEMMA FirstInUnique ==
  ASSUME NEW R, NEW s \in Seq(R), NEW i \in 1 .. Len(s),
         \A a, b \in 1 .. Len(s) : a < b => s[a] # s[b]
  PROVE  FirstIn(s, {s[i]}) = i
<1> DEFINE k == FirstIn(s, {s[i]})
<1>1. /\ k \in 1 .. Len(s) + 1
      /\ \A j \in 1 .. k - 1 : s[j] \notin {s[i]}
      /\ k <= Len(s) => s[k] \in {s[i]}
  BY FirstInIs
<1> HIDE DEF k
<1>2. k <= i
  BY <1>1
<1>3. k \in 1 .. Len(s) /\ s[k] = s[i]
  BY <1>1, <1>2
<1>4. ~ (k < i)
  BY <1>3
<1>5. k = i
  BY <1>1, <1>2, <1>4
<1> QED  BY <1>5 DEF k

(* What is left after an element is unlinked, in the order it had. *)
LEMMA UnlinkIs ==
  ASSUME NEW R, NEW s \in Seq(R), NEW r
  PROVE  /\ Unlink(s, r) \in Seq(R)
         /\ ToSet(Unlink(s, r)) \subseteq ToSet(s)
         /\ \A O : Ordered(s, O) => Ordered(Unlink(s, r), O)
         /\ (\A a, b \in 1 .. Len(s) : a < b => s[a] # s[b])
              => ToSet(Unlink(s, r)) = ToSet(s) \ {r}
         /\ s # <<>> /\ Head(s) # r
              => Unlink(s, r) # <<>> /\ Head(Unlink(s, r)) = Head(s)
<1>1. CASE r \notin ToSet(s)
  <2>1. Unlink(s, r) = s /\ ToSet(s) = ToSet(s) \ {r}
    BY <1>1 DEF Unlink
  <2> QED  BY <2>1
<1>2. CASE r \in ToSet(s)
  <2> DEFINE k == FirstIn(s, {r})
             t == RemoveAt(s, k)
  <2>1. /\ k \in 1 .. Len(s) + 1
        /\ \A j \in 1 .. k - 1 : s[j] \notin {r}
        /\ k <= Len(s) => s[k] \in {r}
    BY FirstInIs
  <2> HIDE DEF k
  <2>2. PICK n \in 1 .. Len(s) : r = s[n]
    BY <1>2, ToSetIs
  <2>3. k \in 1 .. Len(s) /\ s[k] = r
    BY <2>1, <2>2
  <2>4. /\ t \in Seq(R) /\ Len(t) = Len(s) - 1
        /\ \A j \in 1 .. Len(s) - 1 : t[j] = IF j < k THEN s[j] ELSE s[j + 1]
    BY <2>3, RemoveAtIs
  <2> HIDE DEF t
  <2> DEFINE old(j) == IF j < k THEN j ELSE j + 1
  <2>5. \A j \in 1 .. Len(t) : /\ old(j) \in 1 .. Len(s) /\ old(j) # k
                               /\ t[j] = s[old(j)]
    BY <2>3, <2>4
  <2>6. \A i, j \in 1 .. Len(t) : i < j => old(i) < old(j)
    BY <2>3, <2>4
  <2> HIDE DEF old
  <2>7. ToSet(t) \subseteq ToSet(s)
    <3>1. ASSUME NEW x \in ToSet(t)  PROVE x \in ToSet(s)
      <4>1. PICK j \in 1 .. Len(t) : x = t[j]
        BY <2>4, <3>1, ToSetIs
      <4> QED  BY <2>5, <4>1, ToSetIs
    <3> QED  BY <3>1
  <2>8. ASSUME NEW O, Ordered(s, O)  PROVE Ordered(t, O)
    BY <2>5, <2>6, <2>8 DEF Ordered
  <2>9. ASSUME \A a, b \in 1 .. Len(s) : a < b => s[a] # s[b]
        PROVE  ToSet(t) = ToSet(s) \ {r}
    <3>1. r \notin ToSet(t)
      <4>1. SUFFICES ASSUME NEW j \in 1 .. Len(t), r = t[j]  PROVE FALSE
        BY <2>4, ToSetIs
      <4>2. old(j) \in 1 .. Len(s) /\ old(j) # k /\ s[old(j)] = s[k]
        BY <2>3, <2>5, <4>1
      <4>3. old(j) < k \/ k < old(j)
        BY <2>3, <4>2
      <4> QED  BY <2>3, <2>9, <4>2, <4>3
    <3>2. ASSUME NEW x \in ToSet(s), x # r  PROVE x \in ToSet(t)
      <4>1. PICK i \in 1 .. Len(s) : x = s[i]
        BY <3>2, ToSetIs
      <4>2. i # k
        BY <2>3, <3>2, <4>1
      <4>3. CASE i < k
        <5>1. i \in 1 .. Len(t) /\ t[i] = x
          BY <2>3, <2>4, <4>1, <4>3
        <5> QED  BY <2>4, <5>1, ToSetIs
      <4>4. CASE i > k
        <5>1. i - 1 \in 1 .. Len(t) /\ t[i - 1] = x
          BY <2>3, <2>4, <4>1, <4>4
        <5> QED  BY <2>4, <5>1, ToSetIs
      <4>5. i < k \/ i > k
        BY <2>3, <4>1, <4>2
      <4> QED  BY <4>3, <4>4, <4>5
    <3> QED  BY <2>7, <3>1, <3>2
  <2>10. ASSUME s # <<>>, Head(s) # r
         PROVE  t # <<>> /\ Head(t) = Head(s)
    <3>1. s[1] # r /\ Head(s) = s[1]
      BY <2>10
    <3>2. k > 1 /\ Len(t) \in Nat
      BY <2>3, <2>4, <3>1
    <3>3. Len(t) >= 1 /\ t[1] = s[1]
      BY <2>3, <2>4, <3>2
    <3>4. t # <<>> /\ Head(t) = t[1]
      BY <2>4, <3>3
    <3> QED  BY <3>1, <3>3, <3>4
  <2>11. Unlink(s, r) = t
    BY <1>2 DEF Unlink, t, k
  <2> QED  BY <2>4, <2>7, <2>8, <2>9, <2>10, <2>11
<1> QED  BY <1>1, <1>2

(* The tail of a list is what is left when its head is unlinked. *)
LEMMA TailIs ==
  ASSUME NEW R, NEW s \in Seq(R), s # <<>>
  PROVE  /\ Head(s) \in ToSet(s) /\ Head(s) = s[1] /\ Len(s) \in Nat \ {0}
         /\ Tail(s) \in Seq(R)
         /\ ToSet(Tail(s)) \subseteq ToSet(s)
         /\ \A O : Ordered(s, O) => Ordered(Tail(s), O)
         /\ (\A a, b \in 1 .. Len(s) : a < b => s[a] # s[b])
              => Head(s) \notin ToSet(Tail(s))
<1>1. /\ Len(s) \in Nat \ {0} /\ Head(s) = s[1]
      /\ Tail(s) \in Seq(R) /\ Len(Tail(s)) = Len(s) - 1
      /\ \A j \in 1 .. Len(s) - 1 : Tail(s)[j] = s[j + 1]
  BY HeadTailProperties, EmptySeq
<1>2. Head(s) \in ToSet(s)
  BY <1>1, ToSetIs
<1>3. ASSUME NEW x \in ToSet(Tail(s))
      PROVE  \E j \in 2 .. Len(s) : x = s[j]
  <2>1. PICK j \in 1 .. Len(Tail(s)) : x = Tail(s)[j]
    BY <1>1, <1>3, ToSetIs
  <2>2. j + 1 \in 2 .. Len(s) /\ x = s[j + 1]
    BY <1>1, <2>1
  <2> QED  BY <2>2
<1>4. ToSet(Tail(s)) \subseteq ToSet(s)
  BY <1>1, <1>3, ToSetIs
<1>5. ASSUME NEW O, Ordered(s, O)  PROVE Ordered(Tail(s), O)
  BY <1>1, <1>5 DEF Ordered
<1>6. ASSUME \A a, b \in 1 .. Len(s) : a < b => s[a] # s[b]
      PROVE  Head(s) \notin ToSet(Tail(s))
  BY <1>1, <1>3, <1>6
<1> QED  BY <1>1, <1>2, <1>4, <1>5, <1>6

(* The priorities calculate_rm_priorities gives fall along the RM queue. *)
LEMMA RmPrioritiesAre ==
  ASSUME NEW R, NEW s \in Seq(R), NEW prio, NEW min \in Nat,
         ToSet(s) \subseteq DOMAIN prio,
         \A a, b \in 1 .. Len(s) : a < b => s[a] # s[b]
  PROVE  \A i \in 1 .. Len(s) :
           CalculateRmPriorities(s, prio, min)[s[i]] = min + Len(s) + 1 - i
<1> TAKE i \in 1 .. Len(s)
<1>1. s[i] \in ToSet(s)
  BY ToSetIs
<1>2. FirstIn(s, {s[i]}) = i
  BY FirstInUnique
<1> QED  BY <1>1, <1>2 DEF CalculateRmPriorities

-----------------------------------------------------------------------------
(* Recursive functions.  The library's theorems about them and about       *)
(* induction take operators as parameters; these take sets and functions.  *)

(* One element more.                                                       *)
LEMMA AppendIs ==
  ASSUME NEW R, NEW u \in Seq(R), NEW e \in R
  PROVE  Append(u, e) \in Seq(R) /\ ToSet(Append(u, e)) = ToSet(u) \cup {e}
<1> DEFINE v == Append(u, e)
<1>1. /\ v \in Seq(R) /\ Len(v) = Len(u) + 1 /\ v[Len(u) + 1] = e
      /\ \A i \in 1 .. Len(u) : v[i] = u[i]
  OBVIOUS
<1> HIDE DEF v
<1>2. \A x : x \in ToSet(v) <=> \E i \in 1 .. Len(v) : x = v[i]
  BY <1>1, ToSetIs
<1>3. \A x : x \in ToSet(u) <=> \E i \in 1 .. Len(u) : x = u[i]
  BY ToSetIs
<1>4. 1 .. Len(v) = 1 .. Len(u) \cup {Len(u) + 1}
  BY <1>1
<1> QED  BY <1>1, <1>2, <1>3, <1>4 DEF v

(* One sequence behind another.                                            *)
LEMMA ConcatIs ==
  ASSUME NEW R, NEW s \in Seq(R), NEW q \in Seq(R)
  PROVE  /\ s \o q \in Seq(R) /\ Len(s \o q) = Len(s) + Len(q)
         /\ \A i \in 1 .. Len(s) : (s \o q)[i] = s[i]
         /\ \A i \in 1 .. Len(q) : (s \o q)[Len(s) + i] = q[i]
         /\ ToSet(s \o q) = ToSet(s) \cup ToSet(q)
<1> DEFINE t == s \o q
<1>1. /\ t \in Seq(R) /\ Len(t) = Len(s) + Len(q)
      /\ \A i \in 1 .. Len(s) : t[i] = s[i]
      /\ \A i \in 1 .. Len(q) : t[Len(s) + i] = q[i]
      /\ Len(s) \in Nat /\ Len(q) \in Nat
  OBVIOUS
<1> HIDE DEF t
<1>2. \A x : x \in ToSet(t) <=> \E i \in 1 .. Len(t) : x = t[i]
  BY <1>1, ToSetIs
<1>3. /\ \A x : x \in ToSet(s) <=> \E i \in 1 .. Len(s) : x = s[i]
      /\ \A x : x \in ToSet(q) <=> \E i \in 1 .. Len(q) : x = q[i]
  BY ToSetIs
<1>4. ASSUME NEW x \in ToSet(t)  PROVE x \in ToSet(s) \cup ToSet(q)
  <2>1. PICK i \in 1 .. Len(t) : x = t[i]
    BY <1>2, <1>4
  <2>2. CASE i <= Len(s)
    BY <1>1, <1>3, <2>1, <2>2
  <2>3. CASE i > Len(s)
    <3>1. i - Len(s) \in 1 .. Len(q) /\ i = Len(s) + (i - Len(s))
      BY <1>1, <2>3
    <3> QED  BY <1>1, <1>3, <2>1, <3>1
  <2> QED  BY <1>1, <2>2, <2>3
<1>5. ASSUME NEW x \in ToSet(q)  PROVE x \in ToSet(t)
  <2>1. PICK i \in 1 .. Len(q) : x = q[i]
    BY <1>3
  <2>2. Len(s) + i \in 1 .. Len(t) /\ x = t[Len(s) + i]
    BY <1>1, <2>1
  <2> QED  BY <1>2, <2>2
<1>6. ASSUME NEW x \in ToSet(s)  PROVE x \in ToSet(t)
  <2>1. PICK i \in 1 .. Len(s) : x = s[i]
    BY <1>3
  <2>2. i \in 1 .. Len(t) /\ x = t[i]
    BY <1>1, <2>1
  <2> QED  BY <1>2, <2>2
<1>7. ToSet(t) = ToSet(s) \cup ToSet(q)
  BY <1>4, <1>5, <1>6
<1> QED  BY <1>1, <1>7 DEF t

(* The last element is taken.                                              *)
LEMMA FrontIs ==
  ASSUME NEW R, NEW s \in Seq(R), s # <<>>
  PROVE  /\ Front(s) \in Seq(R) /\ Len(Front(s)) = Len(s) - 1 /\ Last(s) \in R
         /\ \A i \in 1 .. Len(s) - 1 : Front(s)[i] = s[i]
         /\ Last(s) = s[Len(s)] /\ Len(s) >= 1
         /\ ToSet(s) = ToSet(Front(s)) \cup {Last(s)}
<1> DEFINE f == Front(s)
<1>1. /\ f \in Seq(R) /\ Len(f) = Len(s) - 1 /\ Len(s) >= 1
      /\ \A i \in 1 .. Len(s) - 1 : f[i] = s[i]
  <2>1. Len(s) \in Nat \ {0}
    OBVIOUS
  <2> DEFINE n == Len(s) - 1
  <2>2. n \in 0 .. Len(s) /\ Len(s) = n + 1 /\ f = SubSeq(s, 1, n)
    BY <2>1 DEF Front
  <2> HIDE DEF n, f
  <2>3. f \in Seq(R) /\ Len(f) = n /\ \A i \in 1 .. n : f[i] = s[i]
    BY <2>2
  <2> QED  BY <2>1, <2>2, <2>3
<1>2. Last(s) = s[Len(s)] /\ Last(s) \in R
  BY <1>1 DEF Last
<1> HIDE DEF f
<1>3. \A x : x \in ToSet(s) <=> \E i \in 1 .. Len(s) : x = s[i]
  BY ToSetIs
<1>4. \A x : x \in ToSet(f) <=> \E i \in 1 .. Len(f) : x = f[i]
  BY <1>1, ToSetIs
<1>5. 1 .. Len(s) = 1 .. Len(f) \cup {Len(s)}
  BY <1>1
<1>6. ToSet(s) = ToSet(f) \cup {Last(s)}
  BY <1>1, <1>2, <1>3, <1>4, <1>5
<1> QED  BY <1>1, <1>2, <1>6 DEF f

(* The functions on 0 .. n with that first value and that step.            *)
Iterates(n, T, b, step) ==
  {f \in [0 .. n -> T] : f[0] = b /\ \A i \in 1 .. n : f[i] = step[<<i, f[i - 1]>>]}

(* There is one: what a recursive function definition needs.               *)
LEMMA RecursionIs ==
  ASSUME NEW n \in Nat, NEW T, NEW b \in T, NEW step \in [(1 .. n) \X T -> T]
  PROVE  Iterates(n, T, b, step) # {}
<1> DEFINE Upto(m, f) == /\ f \in [0 .. m -> T] /\ f[0] = b
                         /\ \A i \in 1 .. m : f[i] = step[<<i, f[i - 1]>>]
           Without == {m \in 0 .. n : ~ \E f : Upto(m, f)}
<1>1. CASE Without = {}
  <2>1. n \in 0 .. n
    OBVIOUS
  <2>2. \E f : Upto(n, f)
    <3> HIDE DEF Upto
    <3> QED  BY <1>1, <2>1
  <2> QED  BY <2>2 DEF Iterates
<1>2. CASE Without # {}
  <2>1. PICK m \in Without : \A k \in Without : m <= k
    <3>1. Without \subseteq Nat
      OBVIOUS
    <3> HIDE DEF Without
    <3> QED  BY <1>2, <3>1, LeastNat
  <2>2. CASE m = 0
    <3>1. Upto(0, [i \in 0 .. 0 |-> b])
      OBVIOUS
    <3> QED  BY <2>2, <3>1
  <2>3. CASE m # 0
    <3>1. m \in 1 .. n /\ m - 1 \in 0 .. n /\ m - 1 \notin Without
      BY <2>1, <2>3
    <3>2. PICK f : Upto(m - 1, f)
      BY <3>1
    <3> DEFINE g == [i \in 0 .. m |-> IF i < m THEN f[i] ELSE step[<<m, f[m - 1]>>]]
    <3>3. f[m - 1] \in T /\ <<m, f[m - 1]>> \in (1 .. n) \X T
      BY <3>1, <3>2
    <3>4. step[<<m, f[m - 1]>>] \in T
      BY <3>3
    <3>5. g \in [0 .. m -> T] /\ g[0] = b
      BY <3>1, <3>2, <3>4
    <3>6. ASSUME NEW i \in 1 .. m  PROVE g[i] = step[<<i, g[i - 1]>>]
      <4>1. CASE i = m
        <5>1. g[m] = step[<<m, f[m - 1]>>] /\ g[m - 1] = f[m - 1]
          BY <3>1
        <5> QED  BY <4>1, <5>1
      <4>2. CASE i # m
        BY <3>1, <3>2, <4>2
      <4> QED  BY <4>1, <4>2
    <3>7. Upto(m, g)
      BY <3>5, <3>6
    <3> QED  BY <2>1, <3>7
  <2> QED  BY <2>2, <2>3
<1> QED  BY <1>1, <1>2

(* Induction along 0 .. n, for the elements of a set.                      *)
LEMMA IntervalInduction ==
  ASSUME NEW n \in Nat, NEW P, 0 \in P, \A i \in 1 .. n : i - 1 \in P => i \in P
  PROVE  0 .. n \subseteq P
<1> DEFINE Bad == {i \in 0 .. n : i \notin P}
<1>1. CASE Bad = {}
  BY <1>1
<1>2. CASE Bad # {}
  <2>1. PICK i \in Bad : \A k \in Bad : i <= k
    <3>1. Bad \subseteq Nat
      OBVIOUS
    <3> HIDE DEF Bad
    <3> QED  BY <1>2, <3>1, LeastNat
  <2>2. i \in 1 .. n /\ i - 1 \in 0 .. n /\ i - 1 \notin Bad
    BY <2>1
  <2> QED  BY <2>1, <2>2
<1> QED  BY <1>1, <1>2

(* What the walk takes: the elements of s that are in S, in their order.   *)
LEMMA AmongIs ==
  ASSUME NEW R, NEW s \in Seq(R), NEW S
  PROVE  /\ Among(s, S) \in Seq(R) /\ ToSet(Among(s, S)) = ToSet(s) \cap S
         /\ \A O : Ordered(s, O) => Ordered(Among(s, S), O)
<1> DEFINE n == Len(s)
           step == [p \in (1 .. n) \X Seq(R) |->
                      IF s[p[1]] \in S THEN Append(p[2], s[p[1]]) ELSE p[2]]
           Is(f) == f = [i \in 0 .. n |->
                      IF i = 0 THEN <<>>
                      ELSE IF s[i] \in S THEN Append(f[i - 1], s[i]) ELSE f[i - 1]]
           upTo == CHOOSE f : Is(f)
           Taken(i) == {s[j] : j \in 1 .. i} \cap S
<1>1. n \in Nat /\ \A i \in 1 .. n : s[i] \in R
  OBVIOUS
<1>2. \E f : Is(f)
  <2>1. step \in [(1 .. n) \X Seq(R) -> Seq(R)]
    BY <1>1
  <2>2. PICK f \in [0 .. n -> Seq(R)] :
          f[0] = <<>> /\ \A i \in 1 .. n : f[i] = step[<<i, f[i - 1]>>]
    <3> HIDE DEF step, n
    <3>1. <<>> \in Seq(R)
      OBVIOUS
    <3> DEFINE T == Seq(R)
               b == <<>>
    <3>2. n \in Nat /\ b \in T /\ step \in [(1 .. n) \X T -> T]
      BY <1>1, <2>1, <3>1
    <3> HIDE DEF T, b, n, step, Is, upTo, Taken
    <3>3. Iterates(n, T, b, step) # {}
      BY <3>2, RecursionIs
    <3> QED  BY <3>3 DEF T, b, Iterates
  <2>3. ASSUME NEW i \in 1 .. n
        PROVE  f[i] = IF s[i] \in S THEN Append(f[i - 1], s[i]) ELSE f[i - 1]
    <3> HIDE DEF n, Is, upTo, Taken
    <3>1. <<i, f[i - 1]>> \in (1 .. n) \X Seq(R)
      <4> HIDE DEF step
      <4>1. i - 1 \in 0 .. n
        BY <1>1
      <4>2. f[i - 1] \in Seq(R)
        BY <4>1
      <4> QED  BY <4>2
    <3> QED  BY <2>2, <3>1
  <2>4. f = [i \in 0 .. n |-> f[i]]
    BY <2>2
  <2>5. ASSUME NEW i \in 0 .. n
        PROVE  f[i] = IF i = 0 THEN <<>>
                      ELSE IF s[i] \in S THEN Append(f[i - 1], s[i]) ELSE f[i - 1]
    <3>1. i = 0 \/ i \in 1 .. n
      BY <1>1
    <3> QED  BY <2>2, <2>3, <3>1
  <2>6. Is(f)
    <3> HIDE DEF n, step
    <3> QED  BY <2>4, <2>5
  <2> QED  BY <2>6
<1>3. Is(upTo)
  BY <1>2
<1>4. Among(s, S) = upTo[n]
  BY DEF Among
<1>5. upTo[0] = <<>>
  <2>1. 0 \in 0 .. n
    BY <1>1
  <2> HIDE DEF n, upTo
  <2> QED  BY <1>3, <2>1
<1>6. ASSUME NEW i \in 1 .. n
      PROVE  upTo[i] = IF s[i] \in S THEN Append(upTo[i - 1], s[i]) ELSE upTo[i - 1]
  <2>1. i \in 0 .. n /\ i # 0
    BY <1>1
  <2> HIDE DEF n, upTo
  <2> QED  BY <1>3, <2>1
<1> HIDE DEF upTo, step, Is, Taken
<1> DEFINE Good == {i \in 0 .. n : /\ upTo[i] \in Seq(R) /\ ToSet(upTo[i]) = Taken(i)
                                   /\ \A O : Ordered(s, O) => Ordered(upTo[i], O)}
<1>7. 0 \in Good
  <2>1. /\ ToSet(<<>>) = {} /\ Taken(0) = {} /\ <<>> \in Seq(R) /\ 0 \in 0 .. n
        /\ \A O : Ordered(<<>>, O)
    BY <1>1 DEF ToSet, Taken, Ordered
  <2> HIDE DEF n
  <2> QED  BY <1>5, <2>1
<1>8. ASSUME NEW i \in 1 .. n, i - 1 \in Good  PROVE i \in Good
  <2> DEFINE u == upTo[i - 1]
  <2>1. u \in Seq(R) /\ ToSet(u) = Taken(i - 1) /\ s[i] \in R /\ i \in 0 .. n
    BY <1>1, <1>8
  <2>2. Taken(i) = Taken(i - 1) \cup ({s[i]} \cap S)
    BY <1>1 DEF Taken
  <2>3. upTo[i] = IF s[i] \in S THEN Append(u, s[i]) ELSE u
    BY <1>6
  <2> HIDE DEF u, n
  <2>4. Append(u, s[i]) \in Seq(R) /\ ToSet(Append(u, s[i])) = ToSet(u) \cup {s[i]}
    BY <2>1, AppendIs
  <2>5. \A O : Ordered(s, O) => Ordered(u, O)
    BY <1>8 DEF u
  <2>6. ASSUME NEW O, Ordered(s, O)  PROVE Ordered(Append(u, s[i]), O)
    <3> DEFINE v == Append(u, s[i])
               m == Len(u)
    <3>1. /\ m \in Nat /\ Len(v) = m + 1 /\ v[m + 1] = s[i]
          /\ \A k \in 1 .. m : v[k] = u[k]
      BY <2>1
    <3>2. ASSUME NEW k \in 1 .. m  PROVE <<u[k], s[i]>> \in O
      <4>1. u[k] \in Taken(i - 1)
        BY <2>1, ToSetIs
      <4>2. PICK j \in 1 .. i - 1 : u[k] = s[j]
        BY <4>1 DEF Taken
      <4>3. i \in 1 .. Len(s) /\ j \in 1 .. Len(s) /\ j < i
        BY <1>1, <4>2 DEF n
      <4> QED  BY <2>6, <4>2, <4>3 DEF Ordered
    <3> HIDE DEF v
    <3>3. ASSUME NEW a \in 1 .. Len(v), NEW b \in 1 .. Len(v), a < b
          PROVE  <<v[a], v[b]>> \in O
      <4>1. CASE b = m + 1
        <5>1. a \in 1 .. m
          BY <3>1, <3>3, <4>1
        <5> QED  BY <3>1, <3>2, <4>1, <5>1
      <4>2. CASE b # m + 1
        <5>1. a \in 1 .. m /\ b \in 1 .. m
          BY <3>1, <3>3, <4>2
        <5> QED  BY <2>5, <2>6, <3>1, <3>3, <5>1 DEF Ordered
      <4> QED  BY <4>1, <4>2
    <3> QED  BY <3>3 DEF Ordered, v
  <2> QED  BY <2>1, <2>2, <2>3, <2>4, <2>5, <2>6
<1>9. 0 .. n \subseteq Good
  <2> HIDE DEF Good, n
  <2> QED  BY <1>1, <1>7, <1>8, IntervalInduction
<1>10. Taken(n) = ToSet(s) \cap S /\ n \in 0 .. n
  BY <1>1, ToSetIs DEF Taken
<1> QED  BY <1>4, <1>9, <1>10

=============================================================================
