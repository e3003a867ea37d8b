-------------------------- MODULE ZsrmBudgetProofs --------------------------
(***************************************************************************)
(* What ZsrmBudget says of budgets, for any number of reserves, any        *)
(* budgets and periods, and any run of hypertasks, as long as no two       *)
(* reserves have the same priority (calculate_rm_priorities gives each its *)
(* own) and no counter wraps.                                              *)
(***************************************************************************)
EXTENDS ZsrmBudget, ZsrmQueueLemmas, FiniteSetTheorems

Sane == HORIZON < SPAN /\ \A q, r \in Rid : Prio[q] = Prio[r] => q = r

ByPrio == {p \in Rid \X Rid : Prio[p[1]] > Prio[p[2]]}

Job == [current : Nat, start : Int, activation : Int, preemption : Nat,
        started : Int, enforced : BOOLEAN, stop : BOOLEAN]

Dispatchers == [ready : Seq(Rid), job : [Rid -> Job], timer : [Rid -> Int],
                stack : Seq(Rid)]

(* The ready queue is in strict order of priority, at most one request is  *)
(* on the stack, that of a queued job which had its budget, and what is    *)
(* known of preemption is neither too much nor, unless the budget is       *)
(* spent, more than the job's own time.  h is the time held.               *)
Base(b, h) ==
  /\ b \in Dispatchers
  /\ h \in [Rid -> 0 .. now] /\ now \in 0 .. HORIZON
  /\ Ordered(b.ready, ByPrio)
  /\ \A q \in Rid :
       /\ b.job[q].preemption <= h[q] \/ h[q] >= Budget[q]
       /\ b.job[q].preemption <= PreemptionTime(q, b.job[q].activation)
       /\ b.job[q].stop <=> b.stack = <<q>>
       /\ b.job[q].stop => q \in ToSet(b.ready) /\ h[q] >= Budget[q]
  /\ b.stack # <<>> => \E q \in Rid : b.stack = <<q>>

IsHead(b, q) == b.ready # <<>> /\ q = Head(b.ready)

(* Between Suspend and RunHead all time is charged and no timer is armed.  *)
Charged(b, h) ==
  /\ Base(b, h)
  /\ \A q \in Rid : b.job[q].current = h[q] /\ b.timer[q] = Never

(* The timer of q is that of the head, and expires when the budget and the *)
(* preemption that is known are used up.                                   *)
TimerOK(b, q) ==
  b.timer[q] # Never =>
    /\ IsHead(b, q) /\ b.timer[q] >= now
    /\ b.job[q].current + b.timer[q] - b.job[q].start >= Budget[q]
    /\ b.job[q].current + b.timer[q] - b.job[q].start <= Budget[q] + b.job[q].preemption

Counting(b, h) ==
  /\ Base(b, h)
  /\ \A q \in Rid :
       /\ h[q] = b.job[q].current + (IF IsHead(b, q) THEN now - b.job[q].start ELSE 0)
       /\ TimerOK(b, q)

(* The job that runs has a timer, or is asked to stop. *)
HeadTimed(b) ==
  \A q \in Rid : IsHead(b, q) /\ b.stack # <<q>> => b.timer[q] # Never

LogOK == IsFiniteSet(log) /\ log \subseteq [rid : Rid, tick : Int]

(* What a function of the dispatcher leaves as it was. *)
SameTimes(b, c) ==
  \A q \in Rid : /\ c.job[q].activation = b.job[q].activation
                 /\ c.job[q].started = b.job[q].started
                 /\ c.job[q].enforced = b.job[q].enforced
                 /\ ~ IsHead(c, q) => c.job[q].preemption = b.job[q].preemption

-----------------------------------------------------------------------------
(* A counter below SPAN is itself. *)
LEMMA WordIs ==
  ASSUME Sane
  PROVE  /\ \A n \in 0 .. HORIZON : Word(n) = n
         /\ \A n \in Int : Word(n) \in Nat
<1>1. SPAN \in Nat /\ SPAN > 0 /\ HORIZON \in Nat /\ HORIZON < SPAN
  BY BudgetAssumption DEF Sane
<1>2. \A n \in 0 .. HORIZON : n % SPAN = n
  BY <1>1
<1>3. \A n \in Int : n % SPAN \in Nat
  BY <1>1
<1> QED BY <1>2, <1>3 DEF Word

(* What Left takes for used, against what is. *)
LEMMA LeftIs ==
  ASSUME Sane, NEW r \in Rid, NEW j \in Job, j.current <= HORIZON
  PROVE  /\ Left(j, r) \in Nat
         /\ Left(j, r) > 0 => /\ j.current + Left(j, r) <= Budget[r] + j.preemption
                              /\ \/ j.preemption <= j.current
                                 \/ j.current >= Budget[r]
                                 => j.current + Left(j, r) >= Budget[r]
         /\ Left(j, r) = 0 /\ j.preemption <= j.current => j.current >= Budget[r]
         /\ j.current = 0 /\ j.preemption = 0 => Left(j, r) > 0
<1> DEFINE used == Word(j.current - j.preemption)
<1>1. /\ j.current \in Nat /\ j.preemption \in Nat /\ HORIZON \in Nat
      /\ Budget[r] \in Nat /\ Budget[r] > 0
  BY BudgetAssumption DEF Job
<1>2. used \in Nat
  BY WordIs, <1>1
<1>3. j.preemption <= j.current => used = j.current - j.preemption
  BY WordIs, <1>1
<1>4. Left(j, r) = IF Budget[r] > used THEN Budget[r] - used ELSE 0
  BY DEF Left
<1> HIDE DEF used
<1> QED BY <1>1, <1>2, <1>3, <1>4

(* Where a job is inserted. *)
LEMMA AddReadyqIs ==
  ASSUME Sane, NEW s \in Seq(Rid), Ordered(s, ByPrio),
         NEW r \in Rid, r \notin ToSet(s)
  PROVE  /\ AddReadyq(s, r, Prio) \in Seq(Rid)
         /\ Ordered(AddReadyq(s, r, Prio), ByPrio)
         /\ ToSet(AddReadyq(s, r, Prio)) = ToSet(s) \cup {r}
         /\ AddReadyq(s, r, Prio) # <<>>
         /\ (\A x \in ToSet(s) : <<r, x>> \in ByPrio)
              => Head(AddReadyq(s, r, Prio)) = r
<1> DEFINE S == {x \in ToSet(s) : Prio[x] < Prio[r]}
           k == FirstIn(s, S)
<1>1. /\ k \in 1 .. Len(s) + 1
      /\ \A j \in 1 .. k - 1 : s[j] \notin S
      /\ k <= Len(s) => s[k] \in S
  BY FirstInIs
<1>2. \A x : x \in ToSet(s) <=> \E i \in 1 .. Len(s) : x = s[i]
  BY ToSetIs
<1>3. ToSet(s) \subseteq Rid /\ Len(s) \in Nat
  BY ToSetIs
<1>4. \A x \in Rid : Prio[x] \in Nat
  BY BudgetAssumption
<1> HIDE DEF k
<1>5. \A j \in 1 .. k - 1 : <<s[j], r>> \in ByPrio
  <2> TAKE j \in 1 .. k - 1
  <2>1. j \in 1 .. Len(s) /\ s[j] \notin S
    BY <1>1, <1>3
  <2>2. s[j] \in ToSet(s) /\ s[j] \in Rid
    BY <2>1, <1>2, <1>3
  <2>3. ~ Prio[s[j]] < Prio[r] /\ s[j] # r
    BY <2>1, <2>2
  <2> QED BY <2>2, <2>3, <1>4 DEF ByPrio, Sane
<1>6. \A j \in k .. Len(s) : <<r, s[j]>> \in ByPrio
  <2> TAKE j \in k .. Len(s)
  <2>1. k \in 1 .. Len(s) /\ j \in 1 .. Len(s)
    BY <1>1, <1>3
  <2>2. s[k] \in Rid /\ Prio[s[k]] < Prio[r] /\ s[j] \in Rid
    BY <2>1, <1>1, <1>2, <1>3
  <2>3. k < j => Prio[s[k]] > Prio[s[j]]
    BY <2>1 DEF Ordered, ByPrio
  <2>4. Prio[s[j]] < Prio[r]
    BY <2>1, <2>2, <2>3, <1>4
  <2> QED BY <2>2, <2>4 DEF ByPrio
<1>7. AddReadyq(s, r, Prio) = InsertBefore(s, r, S)
  BY DEF AddReadyq
<1>8. Ordered(InsertBefore(s, r, S), ByPrio)
  BY <1>5, <1>6, InsertBeforeOrdered DEF k
<1>9. /\ InsertBefore(s, r, S) \in Seq(Rid)
      /\ ToSet(InsertBefore(s, r, S)) = ToSet(s) \cup {r}
  BY InsertBeforeIs
<1>10. InsertBefore(s, r, S) # <<>>
  <2> DEFINE t == InsertBefore(s, r, S)
  <2>1. t \in Seq(Rid) /\ r \in ToSet(t)
    BY <1>9
  <2> HIDE DEF t
  <2>2. PICK i \in 1 .. Len(t) : r = t[i]
    BY <2>1, ToSetIs
  <2> QED BY <2>1, <2>2 DEF t
<1>11. ASSUME \A x \in ToSet(s) : <<r, x>> \in ByPrio
       PROVE  Head(InsertBefore(s, r, S)) = r
  <2>1. k = 1
    <3> SUFFICES ASSUME k # 1 PROVE FALSE
      OBVIOUS
    <3>1. 1 \in 1 .. k - 1 /\ 1 \in 1 .. Len(s)
      BY <1>1, <1>3
    <3>2. s[1] \notin S /\ s[1] \in ToSet(s)
      BY <3>1, <1>1, <1>2
    <3> QED BY <3>2, <1>4, <1>3, <1>11 DEF ByPrio
  <2>2. InsertAt(s, 1, r)[1] = r
    BY InsertAtIs, <1>3
  <2>3. InsertBefore(s, r, S)[1] = r
    BY <2>1, <2>2 DEF InsertBefore, k
  <2> QED BY <2>3, <1>9, <1>10
<1> QED BY <1>7, <1>8, <1>9, <1>10, <1>11

-----------------------------------------------------------------------------
(* Preemption is a number of ticks, none from now on. *)
LEMMA PreemptionTimeIs ==
  ASSUME LogOK
  PROVE  /\ \A r \in Rid, a \in Int : PreemptionTime(r, a) \in Nat
         /\ \A r \in Rid : now \in Int => PreemptionTime(r, now) = 0
<1>1. ASSUME NEW r \in Rid, NEW a \in Int
      PROVE  PreemptionTime(r, a) \in Nat
  <2>1. IsFiniteSet({e \in log : e.rid # r /\ a <= e.tick /\ e.tick < now})
    BY FS_Subset DEF LogOK
  <2> QED BY <2>1, FS_CardinalityType DEF PreemptionTime
<1>2. ASSUME NEW r \in Rid, now \in Int
      PROVE  PreemptionTime(r, now) = 0
  <2>1. ASSUME NEW e \in log, now <= e.tick, e.tick < now PROVE FALSE
    <3>1. e.tick \in Int
      BY DEF LogOK
    <3> QED BY <2>1, <3>1, <1>2
  <2>2. {e \in log : e.rid # r /\ now <= e.tick /\ e.tick < now} = {}
    BY <2>1
  <2> QED BY <2>2, FS_EmptySet DEF PreemptionTime
<1> QED BY <1>1, <1>2

-----------------------------------------------------------------------------
(* Updates of a record of counters. *)
LEMMA JobStopped ==
  ASSUME NEW j \in Job, NEW x \in BOOLEAN
  PROVE  LET k == [j EXCEPT !.stop = x]
         IN  /\ k \in Job /\ k.preemption = j.preemption /\ k.start = j.start
             /\ k.current = j.current /\ k.stop = x /\ k.enforced = j.enforced
             /\ k.activation = j.activation /\ k.started = j.started
BY DEF Job

-----------------------------------------------------------------------------
(* budget_enforcement of the head, when the budget is spent. *)
LEMMA BudgetEnforcementIs ==
  ASSUME Sane, LogOK, NEW b, NEW h, Base(b, h), b.stack = <<>>,
         NEW r \in Rid, IsHead(b, r), h[r] >= Budget[r],
         h[r] = b.job[r].current + now - b.job[r].start,
         \A q \in Rid : b.timer[q] = Never /\ (q # r => h[q] = b.job[q].current)
  PROVE  LET c == BudgetEnforcement(b, r, TRUE)
         IN  Counting(c, h) /\ HeadTimed(c) /\ SameTimes(b, c) /\ c.ready = b.ready
<1> DEFINE j == b.job[r]
           time == PreemptionTime(r, j.activation)
           word == Word(j.current + now - j.start)
           more == [j EXCEPT !.preemption = time, !.start = now, !.current = word]
           k == IF j.preemption < time THEN more ELSE j
           c == BudgetEnforcement(b, r, TRUE)
<1>1. /\ b \in Dispatchers /\ h \in [Rid -> 0 .. now] /\ now \in 0 .. HORIZON
      /\ j \in Job /\ r = Head(b.ready) /\ HORIZON \in Nat /\ Budget[r] \in Nat
      /\ b.job \in [Rid -> Job] /\ b.timer \in [Rid -> Int]
  BY BudgetAssumption DEF Base, IsHead, Dispatchers
<1>0. h[r] \in 0 .. HORIZON /\ h[r] \in Int /\ now \in Int /\ Budget[r] \in Int
  <2> DEFINE x == h[r]
             y == Budget[r]
  <2> HIDE DEF j, time, word, more, k, c
  <2>1. x \in 0 .. now /\ now \in 0 .. HORIZON /\ HORIZON \in Nat /\ y \in Nat
    BY <1>1
  <2> HIDE DEF x, y
  <2>2. x \in 0 .. HORIZON /\ x \in Int /\ now \in Int /\ y \in Int
    BY <2>1
  <2> QED  BY <2>2 DEF x, y
<1>2. time \in Nat
  <2>1. j.activation \in Int
    BY <1>1 DEF Job
  <2> HIDE DEF j
  <2> QED  BY <2>1, PreemptionTimeIs
<1>3. word = h[r] /\ h[r] \in 0 .. HORIZON
  <2>1. word = Word(h[r])
    OBVIOUS
  <2> HIDE DEF word
  <2> QED BY <1>0, <2>1, WordIs
<1>4. /\ more \in Job /\ more.preemption = time /\ more.start = now
      /\ more.current = h[r] /\ more.stop = j.stop /\ more.enforced = j.enforced
      /\ more.activation = j.activation /\ more.started = j.started
  <2> HIDE DEF j, time, word
  <2>1. now \in Int /\ word \in Nat /\ j \in Job
    <3>1. word \in Nat
      BY <1>0, <1>3
    <3> QED  BY <1>0, <1>1, <3>1
  <2>2. /\ more \in Job /\ more.preemption = time /\ more.start = now
        /\ more.current = word /\ more.stop = j.stop /\ more.enforced = j.enforced
        /\ more.activation = j.activation /\ more.started = j.started
    BY <1>2, <2>1 DEF Job
  <2> QED BY <1>3, <2>2
<1>5. /\ k \in Job /\ k.preemption <= time /\ k.stop = j.stop
      /\ k.enforced = j.enforced /\ k.activation = j.activation
      /\ k.started = j.started /\ k.current + now - k.start = h[r]
  <2>1. j.preemption <= time
    BY <1>1 DEF Base
  <2>2. j.current + now - j.start = h[r]
    OBVIOUS
  <2>3. h[r] + now - now = h[r] /\ time <= time
    <3>1. h[r] \in Int /\ now \in Int /\ time \in Int
      BY <1>0, <1>2
    <3> HIDE DEF time
    <3> QED  BY <3>1
  <2> HIDE DEF more, time, j
  <2> QED BY <1>1, <1>4, <2>1, <2>2, <2>3
<1>6. /\ \A q \in Rid : b.job[q].stop <=> b.stack = <<q>>
      /\ \A q \in Rid : <<q>> # <<>>
  BY DEF Base
<1>7. CASE j.preemption < time /\ Left(k, r) > 0
  <2>1. c = [b EXCEPT !.job[r] = k, !.timer[r] = now + Left(k, r)]
    BY <1>7 DEF BudgetEnforcement
  <2>2. k = more
    BY <1>7
  <2> HIDE DEF c, k, more, time
  <2>3. /\ Left(k, r) \in Nat
        /\ k.current + Left(k, r) <= Budget[r] + k.preemption
        /\ k.current + Left(k, r) >= Budget[r]
    <3>1. /\ k \in Job /\ k.current = h[r]
          /\ h[r] \in 0 .. HORIZON /\ HORIZON \in Nat
      BY <1>1, <1>3, <1>4, <2>2
    <3>2. k.current >= Budget[r] /\ k.current <= HORIZON
      BY <3>1
    <3>3. Left(k, r) > 0
      BY <1>7
    <3> QED  BY <3>1, <3>2, <3>3, LeftIs
  <2>4. now + Left(k, r) \in Int
    BY <2>3, <1>1
  <2>5. /\ c \in Dispatchers /\ c.ready = b.ready /\ c.stack = b.stack
        /\ c.job = [b.job EXCEPT ![r] = k]
        /\ c.timer = [b.timer EXCEPT ![r] = now + Left(k, r)]
    <3>1. b \in Dispatchers /\ k \in Job
      BY <1>1, <1>5
    <3> QED BY <2>1, <2>4, <3>1 DEF Dispatchers
  <2>6. /\ \A q \in Rid : q # r => c.job[q] = b.job[q] /\ c.timer[q] = b.timer[q]
        /\ c.job[r] = k /\ c.timer[r] = now + Left(k, r)
    BY <2>5, <1>1
  <2>7. Base(c, h)
    <3>1. ASSUME NEW q \in Rid
          PROVE  /\ c.job[q].preemption <= h[q] \/ h[q] >= Budget[q]
                 /\ c.job[q].preemption <= PreemptionTime(q, c.job[q].activation)
                 /\ c.job[q].stop <=> c.stack = <<q>>
                 /\ c.job[q].stop => q \in ToSet(c.ready) /\ h[q] >= Budget[q]
      <4>1. CASE q = r
        BY <4>1, <1>5, <2>5, <2>6 DEF Base, time
      <4>2. CASE q # r
        BY <4>2, <2>5, <2>6 DEF Base
      <4> QED  BY <4>1, <4>2
    <3> QED  BY <2>5, <3>1 DEF Base
  <2>8. ASSUME NEW q \in Rid
        PROVE  /\ h[q] = c.job[q].current + (IF IsHead(c, q) THEN now - c.job[q].start ELSE 0)
               /\ TimerOK(c, q)
    <3>1. CASE q = r
      <4>1. IsHead(c, q) /\ c.job[q] = k /\ c.timer[q] = now + Left(k, r)
        BY <3>1, <1>1, <2>5, <2>6 DEF IsHead
      <4>2. /\ k.start = now /\ k.current = h[r]
            /\ h[r] \in Int /\ now \in Int /\ Left(k, r) \in Int
            /\ k.preemption \in Int /\ Budget[r] \in Int
        <5>1. k.preemption \in Int
          BY <1>5 DEF Job
        <5>2. k.start = now /\ k.current = h[r]
          BY <1>4, <2>2
        <5>3. h[r] \in Int /\ Left(k, r) \in Int
          BY <1>0, <2>3
        <5>4. now \in Int /\ Budget[r] \in Int
          BY <1>0
        <5> QED  BY <5>1, <5>2, <5>3, <5>4
      <4>3. h[q] = c.job[q].current + (IF IsHead(c, q) THEN now - c.job[q].start ELSE 0)
        BY <3>1, <4>1, <4>2
      <4>4. /\ c.timer[q] >= now
            /\ c.job[q].current + c.timer[q] - c.job[q].start >= Budget[q]
            /\ c.job[q].current + c.timer[q] - c.job[q].start <= Budget[q] + c.job[q].preemption
        BY <3>1, <4>1, <4>2, <2>3
      <4> QED  BY <4>1, <4>3, <4>4 DEF TimerOK
    <3>2. CASE q # r
      <4>1. ~ IsHead(c, q) /\ c.timer[q] = Never
        BY <3>2, <1>1, <2>5, <2>6 DEF IsHead
      <4>2. h[q] = c.job[q].current /\ h[q] \in Int
        BY <3>2, <1>1, <2>6
      <4> QED BY <4>1, <4>2 DEF TimerOK
    <3> QED BY <3>1, <3>2
  <2>9. HeadTimed(c)
    BY <1>1, <2>3, <2>5, <2>6 DEF HeadTimed, IsHead, Never
  <2>10. SameTimes(b, c)
    <3>1. IsHead(c, r)
      BY <1>1, <2>5 DEF IsHead
    <3>2. /\ c.job[r].activation = b.job[r].activation
          /\ c.job[r].started = b.job[r].started
          /\ c.job[r].enforced = b.job[r].enforced
      BY <1>5, <2>6
    <3> QED  BY <2>6, <3>1, <3>2 DEF SameTimes
  <2> QED BY <2>5, <2>7, <2>8, <2>9, <2>10 DEF Counting, c
<1>8. CASE ~ (j.preemption < time /\ Left(k, r) > 0)
  <2> DEFINE m == [k EXCEPT !.stop = TRUE]
  <2>1. c = [b EXCEPT !.job[r] = m, !.stack = Append(@, r)]
    BY <1>8 DEF BudgetEnforcement
  <2> HIDE DEF k, c, more, time
  <2>2. /\ m \in Job /\ m.preemption = k.preemption /\ m.start = k.start
        /\ m.current = k.current /\ m.stop = TRUE /\ m.enforced = k.enforced
        /\ m.activation = k.activation /\ m.started = k.started
    BY <1>5, JobStopped
  <2> HIDE DEF m
  <2>3. Append(b.stack, r) = <<r>> /\ <<r>> \in Seq(Rid)
    OBVIOUS
  <2>4. /\ c \in Dispatchers /\ c.ready = b.ready /\ c.stack = <<r>>
        /\ c.job = [b.job EXCEPT ![r] = m]
        /\ c.timer = b.timer
    <3>1. b \in Dispatchers /\ m \in Job /\ Append(b.stack, r) \in Seq(Rid)
      BY <1>1, <2>2, <2>3
    <3> QED BY <2>1, <2>3, <3>1 DEF Dispatchers
  <2>5. r \in ToSet(b.ready)
    BY <1>1, TailIs DEF IsHead, Dispatchers
  <2>6. <<r>> # <<>> /\ \A q : <<q>> = <<r>> => q = r
    OBVIOUS
  <2>7. /\ \A q \in Rid : q # r => c.job[q] = b.job[q]
        /\ c.job[r] = m
    BY <2>4, <1>1
  <2>8. Base(c, h)
    <3>1. ASSUME NEW q \in Rid
          PROVE  /\ c.job[q].preemption <= h[q] \/ h[q] >= Budget[q]
                 /\ c.job[q].preemption <= PreemptionTime(q, c.job[q].activation)
                 /\ c.job[q].stop <=> c.stack = <<q>>
                 /\ c.job[q].stop => q \in ToSet(c.ready) /\ h[q] >= Budget[q]
      <4>1. CASE q = r
        BY <4>1, <1>5, <2>2, <2>4, <2>5, <2>7 DEF Base, time
      <4>2. CASE q # r
        <5>1. ~ c.job[q].stop /\ c.stack # <<q>>
          BY <4>2, <1>6, <2>4, <2>6, <2>7
        <5>2. /\ c.job[q].preemption <= h[q] \/ h[q] >= Budget[q]
              /\ c.job[q].preemption <= PreemptionTime(q, c.job[q].activation)
          BY <4>2, <2>7 DEF Base
        <5> QED  BY <5>1, <5>2
      <4> QED  BY <4>1, <4>2
    <3> QED  BY <2>4, <3>1 DEF Base
  <2>9. ASSUME NEW q \in Rid
        PROVE  /\ h[q] = c.job[q].current + (IF IsHead(c, q) THEN now - c.job[q].start ELSE 0)
               /\ TimerOK(c, q)
    <3>1. c.timer[q] = Never
      BY <2>4
    <3>2. CASE q = r
      <4>1. k.current + (now - k.start) = k.current + now - k.start
        BY <1>1, <1>5 DEF Job
      <4> QED BY <3>1, <3>2, <4>1, <1>5, <2>2, <2>4, <2>7 DEF IsHead, TimerOK
    <3>3. CASE q # r
      <4>1. ~ IsHead(c, q)
        BY <3>3, <1>1, <2>4 DEF IsHead
      <4>2. h[q] = c.job[q].current /\ h[q] \in Int
        BY <3>3, <1>1, <2>7
      <4> QED BY <4>1, <4>2, <3>1 DEF TimerOK
    <3> QED BY <3>2, <3>3
  <2>10. HeadTimed(c)
    BY <1>1, <2>4 DEF HeadTimed, IsHead
  <2>11. SameTimes(b, c)
    <3>1. IsHead(c, r)
      BY <1>1, <2>4 DEF IsHead
    <3>2. /\ c.job[r].activation = b.job[r].activation
          /\ c.job[r].started = b.job[r].started
          /\ c.job[r].enforced = b.job[r].enforced
      BY <1>5, <2>2, <2>7
    <3> QED  BY <2>7, <3>1, <3>2 DEF SameTimes
  <2> QED BY <2>4, <2>8, <2>9, <2>10, <2>11 DEF Counting, c
<1> QED BY <1>7, <1>8

-----------------------------------------------------------------------------
(* RunHead: the job at the head gets its timer, or is asked to stop. *)
LEMMA RunHeadIs ==
  ASSUME Sane, LogOK, NEW b, NEW h, Charged(b, h),
         \/ b.stack = <<>>
         \/ \A q \in Rid : IsHead(b, q) => /\ b.job[q].current = 0
                                         /\ b.job[q].preemption = 0
  PROVE  LET c == RunHead(b)
         IN  Counting(c, h) /\ HeadTimed(c) /\ SameTimes(b, c) /\ c.ready = b.ready
<1>1. /\ b \in Dispatchers /\ h \in [Rid -> 0 .. now] /\ now \in 0 .. HORIZON
      /\ HORIZON \in Nat /\ \A q \in Rid : h[q] \in Int
      /\ b.job \in [Rid -> Job] /\ b.timer \in [Rid -> Int]
  <2>1. /\ b \in Dispatchers /\ h \in [Rid -> 0 .. now] /\ now \in 0 .. HORIZON
        /\ HORIZON \in Nat
    BY BudgetAssumption DEF Charged, Base
  <2>2. \A q \in Rid : h[q] \in 0 .. now
    BY <2>1
  <2> QED BY <2>1, <2>2 DEF Dispatchers
<1>2. CASE b.ready = <<>>
  <2>1. RunHead(b) = b /\ \A q : ~ IsHead(b, q)
    BY <1>2 DEF RunHead, IsHead
  <2> QED BY <2>1, <1>1 DEF Charged, Counting, TimerOK, HeadTimed, SameTimes
<1>3. CASE b.ready # <<>>
  <2> DEFINE r == Head(b.ready)
             k == [b.job[r] EXCEPT !.start = now]
             d == [b EXCEPT !.job[r].start = now]
             e == [d EXCEPT !.timer[r] = now + Left(k, r)]
  <2>1. r \in Rid /\ b.job[r] \in Job /\ Budget[r] \in Nat
    <3>1. b.ready \in Seq(Rid)
      BY <1>1 DEF Dispatchers
    <3>2. Head(b.ready) \in Rid
      BY <3>1, <1>3, TailIs, ToSetIs
    <3> QED BY <3>2, <1>1, BudgetAssumption
  <2>2. /\ k \in Job /\ k.preemption = b.job[r].preemption /\ k.start = now
        /\ k.current = h[r] /\ k.stop = b.job[r].stop
        /\ k.enforced = b.job[r].enforced /\ k.activation = b.job[r].activation
        /\ k.started = b.job[r].started
    <3>1. now \in Int /\ b.job[r].current = h[r]
      BY <1>1, <2>1 DEF Charged
    <3> HIDE DEF r
    <3>2. b.job[r] \in Job
      BY <2>1
    <3> QED BY <3>1, <3>2 DEF Job
  <2>3. RunHead(b) = IF Left(k, r) > 0 THEN e ELSE BudgetEnforcement(d, r, TRUE)
    <3>1. RunHead(b) = IF Left(d.job[r], r) > 0
                       THEN [d EXCEPT !.timer[r] = now + Left(d.job[r], r)]
                       ELSE BudgetEnforcement(d, r, TRUE)
      BY <1>3 DEF RunHead
    <3>2. d.job[r] = k
      BY <1>1, <2>1 DEF Dispatchers
    <3> QED BY <3>1, <3>2
  <2> HIDE DEF k
  <2>4. /\ d \in Dispatchers /\ d.ready = b.ready /\ d.stack = b.stack
        /\ d.timer = b.timer /\ d.job = [b.job EXCEPT ![r] = k]
    <3>1. d = [b EXCEPT !.job[r] = k]
      BY DEF k
    <3>2. b \in Dispatchers /\ k \in Job
      BY <1>1, <2>2
    <3> HIDE DEF d, r
    <3> QED BY <2>1, <3>1, <3>2 DEF Dispatchers
  <2> HIDE DEF r
  <2>5. d.job[r] = k /\ \A q \in Rid : q # r => d.job[q] = b.job[q]
    BY <1>1, <2>1, <2>4
  <2>6. r = Head(d.ready) /\ \A q : IsHead(d, q) <=> q = r
    BY <1>3, <2>4 DEF r, IsHead
  <2>7. Base(d, h)
    <3>1. Base(b, h)
      BY DEF Charged
    <3>2. ASSUME NEW q \in Rid
          PROVE  /\ d.job[q].preemption = b.job[q].preemption
                 /\ d.job[q].activation = b.job[q].activation
                 /\ d.job[q].stop = b.job[q].stop
      BY <2>2, <2>5
    <3> HIDE DEF d
    <3> QED  BY <2>4, <3>1, <3>2 DEF Base
  <2>8. \A q \in Rid : d.timer[q] = Never /\ d.job[q].current = h[q]
    BY <2>2, <2>4, <2>5 DEF Charged
  <2>9. SameTimes(b, d)
    BY <2>2, <2>5 DEF SameTimes
  <2>10. /\ Left(k, r) \in Nat
         /\ Left(k, r) > 0 => /\ h[r] + Left(k, r) <= Budget[r] + k.preemption
                              /\ h[r] + Left(k, r) >= Budget[r]
         /\ Left(k, r) = 0 => h[r] >= Budget[r] /\ b.stack = <<>>
    <3>1. k.current <= HORIZON
      BY <1>1, <2>1, <2>2
    <3>2. k.preemption <= k.current \/ k.current >= Budget[r]
      BY <2>1, <2>2, <2>5, <2>7 DEF Base
    <3>3. b.stack = <<>> \/ (k.current = 0 /\ k.preemption = 0)
      BY <2>1, <2>2, <1>3, <1>1 DEF IsHead, r, Charged
    <3> QED BY <2>1, <2>2, <3>1, <3>2, <3>3, LeftIs
  <2>11. CASE Left(k, r) > 0
    <3>1. now + Left(k, r) \in Int /\ now + Left(k, r) >= now
      BY <1>1, <2>10
    <3>2. /\ e \in Dispatchers /\ e.ready = d.ready /\ e.stack = d.stack
          /\ e.job = d.job /\ e.timer = [d.timer EXCEPT ![r] = now + Left(k, r)]
      <4> HIDE DEF d
      <4> QED BY <2>1, <2>4, <3>1 DEF Dispatchers
    <3> HIDE DEF d, e
    <3>3. /\ e.timer[r] = now + Left(k, r) /\ e.timer[r] # Never
          /\ \A q \in Rid : q # r => e.timer[q] = Never
      BY <1>1, <2>1, <2>4, <2>8, <3>1, <3>2 DEF Never
    <3>4. \A q : IsHead(e, q) <=> q = r
      BY <2>6, <3>2 DEF IsHead
    <3>5. Base(e, h)
      BY <2>7, <3>2 DEF Base
    <3>6. ASSUME NEW q \in Rid
          PROVE  /\ h[q] = e.job[q].current + (IF IsHead(e, q) THEN now - e.job[q].start ELSE 0)
                 /\ TimerOK(e, q)
      <4>1. CASE q = r
        BY <4>1, <1>1, <2>1, <2>2, <2>5, <2>10, <2>11, <3>1, <3>2, <3>3, <3>4 DEF TimerOK
      <4>2. CASE q # r
        BY <4>2, <1>1, <2>8, <3>2, <3>3, <3>4 DEF TimerOK
      <4> QED BY <4>1, <4>2
    <3>7. HeadTimed(e) /\ SameTimes(b, e)
      BY <2>9, <2>6, <3>2, <3>3, <3>4 DEF HeadTimed, SameTimes
    <3> QED BY <2>3, <2>4, <2>11, <3>2, <3>5, <3>6, <3>7 DEF Counting
  <2>12. CASE ~ Left(k, r) > 0
    <3> DEFINE c == BudgetEnforcement(d, r, TRUE)
    <3> HIDE DEF d
    <3>1. h[r] >= Budget[r] /\ d.stack = <<>>
      BY <2>4, <2>10, <2>12
    <3>2. h[r] = d.job[r].current + now - d.job[r].start
      BY <1>1, <2>1, <2>2, <2>5
    <3>3. IsHead(d, r)
      BY <2>6
    <3>4. Counting(c, h) /\ HeadTimed(c) /\ SameTimes(d, c) /\ c.ready = d.ready
      BY <2>1, <2>7, <2>8, <3>1, <3>2, <3>3, BudgetEnforcementIs
    <3>5. SameTimes(b, c)
      <4>1. IsHead(c, r)
        BY <2>6, <3>4 DEF IsHead
      <4>2. \A q \in Rid : ~ IsHead(c, q) => d.job[q] = b.job[q]
        BY <2>5, <4>1
      <4> HIDE DEF c
      <4> QED BY <2>9, <3>4, <4>2 DEF SameTimes
    <3> QED BY <2>3, <2>4, <2>12, <3>4, <3>5
  <2> QED BY <2>11, <2>12
<1> QED BY <1>2, <1>3

-----------------------------------------------------------------------------
(* Suspend charges the head, and all time is charged. *)
LEMMA SuspendIs ==
  ASSUME Sane, LogOK, NEW b, NEW h, Counting(b, h), b.ready # <<>>
  PROVE  LET c == Suspend(b)
         IN  /\ Charged(c, h) /\ c.ready = b.ready /\ c.stack = b.stack
             /\ \A q \in Rid : /\ c.job[q].activation = b.job[q].activation
                               /\ c.job[q].started = b.job[q].started
                               /\ c.job[q].enforced = b.job[q].enforced
                               /\ c.job[q].preemption = b.job[q].preemption
<1> DEFINE r == Head(b.ready)
           n == Word(b.job[r].current + now - b.job[r].start)
           k == [b.job[r] EXCEPT !.current = n]
           c == Suspend(b)
<1>1. /\ b \in Dispatchers /\ h \in [Rid -> 0 .. now] /\ now \in 0 .. HORIZON
      /\ b.job \in [Rid -> Job] /\ b.timer \in [Rid -> Int] /\ HORIZON \in Nat
  BY BudgetAssumption DEF Counting, Base, Dispatchers
<1>2. r \in Rid /\ b.job[r] \in Job
  <2>1. b.ready \in Seq(Rid)
    BY <1>1 DEF Dispatchers
  <2>2. Head(b.ready) \in Rid
    BY <2>1, TailIs, ToSetIs
  <2> QED BY <2>2, <1>1
<1>3. \A q : IsHead(b, q) <=> q = r
  BY DEF IsHead
<1>4. n = h[r] /\ n \in Nat
  <2>1. h[r] = b.job[r].current + (now - b.job[r].start)
    BY <1>2, <1>3 DEF Counting
  <2>2. b.job[r].current + now - b.job[r].start \in 0 .. HORIZON
    BY <1>1, <1>2, <2>1 DEF Job
  <2>3. n = b.job[r].current + now - b.job[r].start
    BY <2>2, WordIs
  <2>4. b.job[r].current \in Int /\ b.job[r].start \in Int /\ now \in Int
    BY <1>1, <1>2 DEF Job
  <2> HIDE DEF n, r
  <2> QED BY <2>1, <2>2, <2>3, <2>4
<1>5. c = [b EXCEPT !.job[r] = k, !.timer[r] = Never]
  BY DEF Suspend
<1>6. /\ k \in Job /\ k.preemption = b.job[r].preemption /\ k.current = h[r]
      /\ k.stop = b.job[r].stop /\ k.activation = b.job[r].activation
      /\ k.enforced = b.job[r].enforced /\ k.started = b.job[r].started
  <2> HIDE DEF n, r
  <2> QED BY <1>2, <1>4 DEF Job
<1> HIDE DEF c, k, n, r
<1>7. /\ c \in Dispatchers /\ c.ready = b.ready /\ c.stack = b.stack
      /\ c.job = [b.job EXCEPT ![r] = k] /\ c.timer = [b.timer EXCEPT ![r] = Never]
  <2>1. b \in Dispatchers /\ k \in Job /\ Never \in Int
    BY <1>1, <1>6 DEF Never
  <2> QED BY <1>2, <1>5, <2>1 DEF Dispatchers
<1>8. /\ c.job[r] = k /\ c.timer[r] = Never
      /\ \A q \in Rid : q # r => c.job[q] = b.job[q] /\ c.timer[q] = b.timer[q]
  BY <1>1, <1>2, <1>7
<1>9. ASSUME NEW q \in Rid
      PROVE  c.job[q].current = h[q] /\ c.timer[q] = Never
  <2>1. CASE q = r
    BY <2>1, <1>6, <1>8
  <2>2. CASE q # r
    <3>1. h[q] = b.job[q].current + 0 /\ b.job[q].current \in Nat /\ b.timer[q] = Never
      BY <2>2, <1>1, <1>3 DEF Counting, TimerOK, Job
    <3> QED BY <2>2, <3>1, <1>8
  <2> QED BY <2>1, <2>2
<1>10. Base(c, h)
  BY <1>1, <1>6, <1>7, <1>8, <1>9 DEF Counting, Base
<1> QED BY <1>6, <1>7, <1>8, <1>9, <1>10 DEF Charged, c

-----------------------------------------------------------------------------
(* The queue may change while no job is counted. *)
LEMMA QueueChanges ==
  ASSUME NEW b, NEW h, Base(b, h), NEW t \in Seq(Rid), Ordered(t, ByPrio),
         b.stack = <<>> \/ ToSet(b.ready) \subseteq ToSet(t),
         NEW c, c = [b EXCEPT !.ready = t]
  PROVE  /\ Base(c, h) /\ (Charged(b, h) => Charged(c, h))
         /\ c \in Dispatchers /\ c.ready = t /\ c.stack = b.stack
         /\ c.job = b.job /\ c.timer = b.timer
<1>1. b \in Dispatchers
  BY DEF Base
<1>2. /\ c \in Dispatchers /\ c.ready = t /\ c.stack = b.stack
      /\ c.job = b.job /\ c.timer = b.timer
  BY <1>1 DEF Dispatchers
<1>3. \A q \in Rid : <<q>> # <<>>
  OBVIOUS
<1>4. Base(c, h)
  BY <1>2, <1>3 DEF Base
<1> QED BY <1>2, <1>4 DEF Charged

(* start: the job is queued, and the head, old or new, is counted. *)
LEMMA StartIs ==
  ASSUME Sane, LogOK, NEW b, NEW h, Counting(b, h), NEW r \in Rid, r \notin ToSet(b.ready),
         \/ b.stack = <<>>
         \/ /\ b.job[r].current = 0 /\ b.job[r].preemption = 0
            /\ \A x \in ToSet(b.ready) : <<r, x>> \in ByPrio
  PROVE  LET c == Start(b, r)
         IN  /\ Counting(c, h) /\ HeadTimed(c) /\ SameTimes(b, c)
             /\ ToSet(c.ready) = ToSet(b.ready) \cup {r}
<1>1. b \in Dispatchers /\ b.ready \in Seq(Rid) /\ Base(b, h) /\ Ordered(b.ready, ByPrio)
  BY DEF Counting, Base, Dispatchers
<1>2. CASE b.ready = <<>>
  <2> DEFINE t == <<r>>
             d == [b EXCEPT !.ready = t]
  <2>1. Start(b, r) = RunHead(d)
    BY <1>2 DEF Start
  <2>2. t \in Seq(Rid) /\ Ordered(t, ByPrio) /\ ToSet(t) = {r}
    BY DEF Ordered, ToSet
  <2> HIDE DEF t
  <2>3. b.stack = <<>>
    <3> SUFFICES ASSUME b.stack # <<>> PROVE FALSE
      OBVIOUS
    <3>1. PICK q \in Rid : q \in ToSet(b.ready)
      BY <1>1 DEF Base
    <3> QED BY <3>1, <1>2 DEF ToSet
  <2>4. Charged(b, h)
    BY <1>1, <1>2 DEF Counting, Charged, TimerOK, IsHead, Base, Dispatchers, Job
  <2>5. Charged(d, h) /\ d.ready = t /\ d.stack = b.stack /\ d.job = b.job
    <3>1. d = [b EXCEPT !.ready = t]
      OBVIOUS
    <3> HIDE DEF d
    <3> QED BY <1>1, <2>2, <2>3, <2>4, <3>1, QueueChanges
  <2> HIDE DEF d
  <2>6. LET c == RunHead(d)
        IN  Counting(c, h) /\ HeadTimed(c) /\ SameTimes(d, c) /\ c.ready = d.ready
    BY <2>3, <2>5, RunHeadIs
  <2>7. ToSet(b.ready) = {}
    BY <1>2 DEF ToSet
  <2> QED BY <2>1, <2>2, <2>5, <2>6, <2>7 DEF SameTimes
<1>3. CASE b.ready # <<>>
  <2> DEFINE t == AddReadyq(b.ready, r, Prio)
             e == Suspend(b)
             d == [e EXCEPT !.ready = t]
  <2>1. Start(b, r) = RunHead(d)
    <3>1. e.ready = b.ready
      BY <1>3, SuspendIs
    <3> QED BY <1>3, <3>1 DEF Start
  <2>2. /\ Charged(e, h) /\ e.ready = b.ready /\ e.stack = b.stack
        /\ \A q \in Rid : /\ e.job[q].activation = b.job[q].activation
                          /\ e.job[q].started = b.job[q].started
                          /\ e.job[q].enforced = b.job[q].enforced
                          /\ e.job[q].preemption = b.job[q].preemption
    BY <1>3, SuspendIs
  <2> HIDE DEF e
  <2>3. /\ t \in Seq(Rid) /\ Ordered(t, ByPrio) /\ ToSet(t) = ToSet(b.ready) \cup {r}
        /\ t # <<>>
        /\ (\A x \in ToSet(b.ready) : <<r, x>> \in ByPrio) => Head(t) = r
    BY <1>1, AddReadyqIs
  <2> HIDE DEF t
  <2>4. /\ Charged(d, h) /\ d.ready = t /\ d.stack = b.stack /\ d.job = e.job
    <3>1. d = [e EXCEPT !.ready = t] /\ Base(e, h)
      BY <2>2 DEF Charged
    <3> HIDE DEF d
    <3> QED BY <2>2, <2>3, <3>1, QueueChanges
  <2> HIDE DEF d
  <2>5. \/ d.stack = <<>>
        \/ \A q \in Rid : IsHead(d, q) => d.job[q].current = 0 /\ d.job[q].preemption = 0
    <3>1. b.job[r].current = h[r]
      <4>1. ~ IsHead(b, r)
        BY <1>1, TailIs DEF IsHead
      <4> QED BY <4>1, <1>1 DEF Counting, Dispatchers, Job
    <3>2. d.job[r].current = h[r]
      BY <2>4 DEF Charged
    <3> QED BY <2>2, <2>3, <2>4, <3>1, <3>2 DEF IsHead
  <2>6. LET c == RunHead(d)
        IN  Counting(c, h) /\ HeadTimed(c) /\ SameTimes(d, c) /\ c.ready = d.ready
    BY <2>4, <2>5, RunHeadIs
  <2> QED BY <2>1, <2>2, <2>3, <2>4, <2>6 DEF SameTimes
<1> QED BY <1>2, <1>3

(* stop: the job leaves, and the head, old or new, is counted. *)
LEMMA StopIs ==
  ASSUME Sane, LogOK, NEW b, NEW h, Counting(b, h), NEW r \in Rid, b.stack = <<>>,
         ~ IsHead(b, r) => HeadTimed(b)
  PROVE  LET c == Stop(b, r)
         IN  /\ Counting(c, h) /\ HeadTimed(c) /\ SameTimes(b, c)
             /\ ToSet(c.ready) = ToSet(b.ready) \ {r}
             /\ c.stack = <<>> \/ \A x \in ToSet(c.ready) : <<r, x>> \in ByPrio
<1>1. b \in Dispatchers /\ b.ready \in Seq(Rid) /\ Base(b, h) /\ Ordered(b.ready, ByPrio)
  BY DEF Counting, Base, Dispatchers
<1>2. /\ \A x : x \in ToSet(b.ready) <=> \E i \in 1 .. Len(b.ready) : x = b.ready[i]
      /\ ToSet(b.ready) \subseteq Rid
  BY <1>1, ToSetIs
<1>3. \A i, k \in 1 .. Len(b.ready) : i < k => b.ready[i] # b.ready[k]
  <2> SUFFICES ASSUME NEW i \in 1 .. Len(b.ready), NEW k \in 1 .. Len(b.ready), i < k
               PROVE  b.ready[i] # b.ready[k]
    OBVIOUS
  <2>1. b.ready[i] \in Rid /\ Prio[b.ready[i]] > Prio[b.ready[k]]
    BY <1>1 DEF Ordered, ByPrio
  <2>2. Prio[b.ready[i]] \in Nat
    BY <2>1, BudgetAssumption
  <2> QED BY <2>1, <2>2
<1>4. CASE r \notin ToSet(b.ready)
  <2>1. Stop(b, r) = b
    BY <1>4 DEF Stop
  <2>2. ~ IsHead(b, r)
    BY <1>1, <1>4, TailIs DEF IsHead
  <2> QED BY <1>4, <2>1, <2>2 DEF SameTimes
<1>5. CASE r \in ToSet(b.ready) /\ r = Head(b.ready)
  <2> DEFINE e == Suspend(b)
             t == Tail(b.ready)
             d == [e EXCEPT !.ready = t]
  <2>1. b.ready # <<>>
    BY <1>5 DEF ToSet
  <2>2. /\ Charged(e, h) /\ e.ready = b.ready /\ e.stack = b.stack
        /\ \A q \in Rid : /\ e.job[q].activation = b.job[q].activation
                          /\ e.job[q].started = b.job[q].started
                          /\ e.job[q].enforced = b.job[q].enforced
                          /\ e.job[q].preemption = b.job[q].preemption
    BY <2>1, SuspendIs
  <2>3. Stop(b, r) = RunHead(d)
    BY <1>5, <2>2 DEF Stop
  <2> HIDE DEF e
  <2>4. /\ t \in Seq(Rid) /\ Ordered(t, ByPrio) /\ ToSet(t) \subseteq ToSet(b.ready)
        /\ r \notin ToSet(t)
    BY <1>1, <1>3, <1>5, <2>1, TailIs
  <2>5. \A x \in ToSet(b.ready) : x # r => x \in ToSet(t) /\ <<r, x>> \in ByPrio
    <3> SUFFICES ASSUME NEW x \in ToSet(b.ready), x # r
                 PROVE  x \in ToSet(t) /\ <<r, x>> \in ByPrio
      OBVIOUS
    <3>1. PICK i \in 1 .. Len(b.ready) : x = b.ready[i]
      BY <1>2
    <3>2. b.ready[1] = r /\ Len(b.ready) \in Nat /\ Len(t) = Len(b.ready) - 1
          /\ \A n \in 1 .. Len(t) : t[n] = b.ready[n + 1]
      BY <1>1, <1>5, <2>1, HeadTailProperties
    <3>3. i > 1 /\ i - 1 \in 1 .. Len(t) /\ t[i - 1] = x /\ 1 \in 1 .. Len(b.ready)
      BY <3>1, <3>2
    <3>4. x \in ToSet(t)
      <4>1. \A y : y \in ToSet(t) <=> \E n \in 1 .. Len(t) : y = t[n]
        BY <2>4, ToSetIs
      <4> QED  BY <3>3, <4>1
    <3>5. <<b.ready[1], b.ready[i]>> \in ByPrio
      BY <1>1, <3>3 DEF Ordered
    <3> QED BY <3>1, <3>2, <3>4, <3>5
  <2> HIDE DEF t
  <2>6. Charged(d, h) /\ d.ready = t /\ d.stack = <<>> /\ d.job = e.job
    <3>1. d = [e EXCEPT !.ready = t] /\ Base(e, h) /\ e.stack = <<>>
      BY <2>2 DEF Charged
    <3> HIDE DEF d
    <3> QED BY <2>2, <2>4, <3>1, QueueChanges
  <2> HIDE DEF d
  <2>7. LET c == RunHead(d)
        IN  Counting(c, h) /\ HeadTimed(c) /\ SameTimes(d, c) /\ c.ready = d.ready
    BY <2>6, RunHeadIs
  <2>8. ToSet(t) = ToSet(b.ready) \ {r}
    BY <2>4, <2>5
  <2>9. SameTimes(b, RunHead(d))
    BY <2>2, <2>6, <2>7 DEF SameTimes
  <2>10. \A x \in ToSet(t) : <<r, x>> \in ByPrio
    BY <2>5, <2>8
  <2> QED BY <2>3, <2>6, <2>7, <2>8, <2>9, <2>10
<1>6. CASE r \in ToSet(b.ready) /\ r # Head(b.ready)
  <2> DEFINE t == Unlink(b.ready, r)
             c == [b EXCEPT !.ready = t]
  <2>1. Stop(b, r) = c
    BY <1>6 DEF Stop
  <2>2. b.ready # <<>>
    BY <1>6 DEF ToSet
  <2>3. /\ t \in Seq(Rid) /\ Ordered(t, ByPrio) /\ ToSet(t) = ToSet(b.ready) \ {r}
        /\ t # <<>> /\ Head(t) = Head(b.ready)
    BY <1>1, <1>3, <1>6, <2>2, UnlinkIs
  <2> HIDE DEF t
  <2>4. /\ Base(c, h) /\ c.ready = t /\ c.stack = <<>> /\ c.job = b.job /\ c.timer = b.timer
    <3>1. c = [b EXCEPT !.ready = t]
      OBVIOUS
    <3> HIDE DEF c
    <3> QED BY <1>1, <2>3, <3>1, QueueChanges
  <2> HIDE DEF c
  <2>5. \A q : IsHead(c, q) <=> IsHead(b, q)
    BY <2>2, <2>3, <2>4 DEF IsHead
  <2>6. HeadTimed(b)
    BY <1>6 DEF IsHead
  <2>7. Counting(c, h)
    BY <2>4, <2>5 DEF Counting, TimerOK
  <2>8. HeadTimed(c) /\ SameTimes(b, c)
    BY <2>4, <2>5, <2>6 DEF HeadTimed, SameTimes
  <2> QED BY <2>1, <2>3, <2>4, <2>7, <2>8
<1> QED BY <1>4, <1>5, <1>6

-----------------------------------------------------------------------------
(* A job that is not queued may get new counters. *)
LEMMA FreshJob ==
  ASSUME Sane, LogOK, NEW b, NEW h, Counting(b, h), NEW r \in Rid, r \notin ToSet(b.ready),
         NEW k \in Job, k.preemption = 0, k.current = 0, ~ k.stop,
         NEW c \in Dispatchers, c.ready = b.ready, c.stack = b.stack, c.timer = b.timer,
         c.job = [b.job EXCEPT ![r] = k],
         NEW g \in [Rid -> 0 .. now], g[r] = 0, \A q \in Rid : q # r => g[q] = h[q]
  PROVE  Counting(c, g)
<1>1. /\ b \in Dispatchers /\ h \in [Rid -> 0 .. now] /\ now \in 0 .. HORIZON
      /\ HORIZON \in Nat /\ b.ready \in Seq(Rid)
  BY BudgetAssumption DEF Counting, Base, Dispatchers
<1>2. c.job[r] = k /\ \A q \in Rid : q # r => c.job[q] = b.job[q]
  BY <1>1 DEF Dispatchers
<1>3. PreemptionTime(r, k.activation) \in Nat
  BY PreemptionTimeIs DEF Job
<1>4. ~ IsHead(b, r) /\ \A q : IsHead(c, q) <=> IsHead(b, q)
  BY <1>1, TailIs DEF IsHead
<1>5. ~ b.job[r].stop
  BY DEF Counting, Base
<1>6. Base(c, g)
  <2>1. ASSUME NEW q \in Rid
        PROVE  /\ c.job[q].preemption <= g[q] \/ g[q] >= Budget[q]
               /\ c.job[q].preemption <= PreemptionTime(q, c.job[q].activation)
               /\ c.job[q].stop <=> c.stack = <<q>>
               /\ c.job[q].stop => q \in ToSet(c.ready) /\ g[q] >= Budget[q]
    <3>1. CASE q = r
      BY <3>1, <1>2, <1>3, <1>5 DEF Counting, Base
    <3>2. CASE q # r
      BY <3>2, <1>2 DEF Counting, Base
    <3> QED BY <3>1, <3>2
  <2> QED BY <2>1, <1>1 DEF Counting, Base
<1>7. ASSUME NEW q \in Rid
      PROVE  /\ g[q] = c.job[q].current + (IF IsHead(c, q) THEN now - c.job[q].start ELSE 0)
             /\ TimerOK(c, q)
  <2>1. CASE q = r
    BY <2>1, <1>2, <1>4 DEF Counting, TimerOK
  <2>2. CASE q # r
    BY <2>2, <1>2, <1>4 DEF Counting, TimerOK
  <2> QED BY <2>1, <2>2
<1> QED BY <1>6, <1>7 DEF Counting

(* The variables take the values of a dispatcher record. *)
LEMMA Becoming ==
  ASSUME NEW c, NEW h, Counting(c, h), HeadTimed(c), Becomes(c),
         now' = now, log' = log, held' = h
  PROVE  /\ Counting(State, held)' /\ HeadTimed(State)'
         /\ ready' = c.ready /\ job' = c.job /\ stack' = c.stack
<1>1. /\ c \in Dispatchers /\ ready' = c.ready /\ job' = c.job
      /\ timer' = c.timer /\ stack' = c.stack
  BY DEF Counting, Base, Becomes
<1>2. State' = c
  BY <1>1 DEF State, Dispatchers
<1>3. \A q, a : PreemptionTime(q, a)' = PreemptionTime(q, a)
  BY DEF PreemptionTime
<1>4. Counting(State, held)'
  BY <1>2, <1>3 DEF Counting, Base, TimerOK, IsHead, Dispatchers
<1>5. HeadTimed(State)'
  BY <1>2 DEF HeadTimed, IsHead, Never
<1> QED BY <1>1, <1>4, <1>5

-----------------------------------------------------------------------------
(* The invariant.  Beside what the dispatcher keeps: a queued job has been *)
(* started once and is not enforced, a reserve that is not attached has    *)
(* held nothing, and the time held is within the budget.                   *)
BudgetInv ==
  /\ Counting(State, held) /\ HeadTimed(State) /\ LogOK
  /\ release \in [Rid -> Int]
  /\ \A q \in Rid :
       /\ job[q].started = IF q \in ToSet(ready) THEN 1 ELSE 0
       /\ job[q].enforced => q \notin ToSet(ready)
       /\ release[q] = Never => held[q] = 0 /\ q \notin ToSet(ready)
       /\ held[q] <= Budget[q] + PreemptionTime(q, job[q].activation)

LEMMA Initially == Sane /\ Init => BudgetInv
<1> SUFFICES ASSUME Sane, Init PROVE BudgetInv
  OBVIOUS
<1>1. NewJob \in Job /\ NewJob.stop = FALSE /\ NewJob.preemption = 0
      /\ NewJob.current = 0 /\ NewJob.started = 0 /\ NewJob.enforced = FALSE
      /\ NewJob.activation = 0
  BY DEF NewJob, Job
<1>2. State \in Dispatchers
  BY <1>1 DEF Init, State, Dispatchers, Never
<1>3. LogOK
  BY FS_EmptySet DEF LogOK, Init
<1>4. \A q \in Rid : PreemptionTime(q, 0) \in Nat
  BY <1>3, PreemptionTimeIs
<1>5. ToSet(<<>>) = {} /\ \A q : <<q>> # <<>>
  BY DEF ToSet
<1>6. \A q : ~ IsHead(State, q)
  BY DEF IsHead, State, Init
<1>7. Base(State, held)
  BY <1>1, <1>2, <1>4, <1>5, BudgetAssumption DEF Base, Init, State, Ordered
<1>8. Counting(State, held) /\ HeadTimed(State)
  BY <1>1, <1>6, <1>7 DEF Counting, TimerOK, HeadTimed, Init, State
<1>9. release \in [Rid -> Int]
  BY DEF Init, Never
<1>10. ASSUME NEW q \in Rid
       PROVE  /\ job[q].started = IF q \in ToSet(ready) THEN 1 ELSE 0
              /\ job[q].enforced => q \notin ToSet(ready)
              /\ release[q] = Never => held[q] = 0 /\ q \notin ToSet(ready)
              /\ held[q] <= Budget[q] + PreemptionTime(q, job[q].activation)
  <2>1. job[q] = NewJob /\ held[q] = 0 /\ ready = <<>>
    BY DEF Init
  <2>2. Budget[q] \in Nat
    BY BudgetAssumption
  <2> QED BY <1>1, <1>4, <1>5, <2>1, <2>2
<1> QED BY <1>3, <1>8, <1>9, <1>10 DEF BudgetInv

(* What the invariant says of the variables one by one. *)
LEMMA Unfolded ==
  ASSUME BudgetInv
  PROVE  /\ State \in Dispatchers /\ State.ready = ready /\ State.job = job
         /\ State.timer = timer /\ State.stack = stack
         /\ ready \in Seq(Rid) /\ job \in [Rid -> Job] /\ timer \in [Rid -> Int]
         /\ stack \in Seq(Rid) /\ held \in [Rid -> 0 .. now] /\ now \in 0 .. HORIZON
         /\ HORIZON \in Nat /\ now \in Int
         /\ \A q \in Rid : /\ job[q].stop <=> stack = <<q>>
                           /\ job[q].stop => q \in ToSet(ready) /\ held[q] >= Budget[q]
                           /\ held[q] \in Int
BY BudgetAssumption DEF BudgetInv, Counting, Base, State, Dispatchers

LEMMA AttachKeeps ==
  ASSUME Sane, BudgetInv, NEW r \in Rid, Attach(r)
  PROVE  BudgetInv'
<1> DEFINE k == [NewJob EXCEPT !.activation = now, !.started = 1]
           b == [State EXCEPT !.job[r] = k]
           c == Start(b, r)
<1>1. /\ State \in Dispatchers /\ State.ready = ready /\ State.job = job
      /\ job \in [Rid -> Job] /\ State.stack = stack /\ now \in Int /\ held \in [Rid -> 0 .. now] /\ now >= 0
      /\ \A q \in Rid : held[q] \in Int
  BY Unfolded
<1>2. /\ k \in Job /\ k.preemption = 0 /\ k.current = 0 /\ ~ k.stop
      /\ k.started = 1 /\ ~ k.enforced /\ k.activation = now
  <2>1. NewJob \in Job /\ NewJob.preemption = 0 /\ NewJob.current = 0
        /\ NewJob.stop = FALSE /\ NewJob.enforced = FALSE
    BY DEF NewJob, Job
  <2> DEFINE one == 1
  <2>2. one = 1 /\ one \in Int /\ k = [NewJob EXCEPT !.activation = now, !.started = one]
    OBVIOUS
  <2> HIDE DEF one, k
  <2> QED BY <1>1, <2>1, <2>2 DEF Job
<1>3. /\ LogOK /\ Counting(State, held) /\ r \notin ToSet(ready) /\ held[r] = 0
      /\ stack = <<>>
  BY DEF BudgetInv, Attach
<1>4. /\ Becomes(c) /\ release' = [release EXCEPT ![r] = now + Period[r]]
      /\ UNCHANGED <<now, log, real, held>>
  BY DEF Attach
<1>5. b = [State EXCEPT !.job[r] = k]
  OBVIOUS
<1> HIDE DEF k, b
<1>6. /\ b \in Dispatchers /\ b.ready = ready /\ b.stack = <<>> /\ b.timer = State.timer
      /\ b.job = [job EXCEPT ![r] = k]
  BY <1>1, <1>2, <1>3, <1>5 DEF Dispatchers
<1>7. /\ Counting(b, held) /\ b.job[r] = k
      /\ \A q \in Rid : q # r => b.job[q] = job[q]
  <2>1. b.job[r] = k /\ \A q \in Rid : q # r => b.job[q] = job[q]
    BY <1>1, <1>6
  <2>2. r \notin ToSet(State.ready) /\ b.ready = State.ready /\ b.stack = State.stack
        /\ b.job = [State.job EXCEPT ![r] = k]
    BY <1>1, <1>3, <1>6
  <2>3. Counting(b, held)
    <3>1. /\ k \in Job /\ k.preemption = 0 /\ k.current = 0 /\ ~ k.stop
          /\ b \in Dispatchers /\ b.timer = State.timer
          /\ held \in [Rid -> 0 .. now] /\ held[r] = 0
          /\ LogOK /\ Counting(State, held)
      BY <1>1, <1>2, <1>3, <1>6
    <3> QED BY <2>2, <3>1, FreshJob
  <2> QED BY <2>1, <2>3
<1>8. /\ Counting(c, held) /\ HeadTimed(c) /\ SameTimes(b, c)
      /\ ToSet(c.ready) = ToSet(ready) \cup {r}
  BY <1>3, <1>6, <1>7, StartIs
<1> HIDE DEF c
<1>9. /\ Counting(State, held)' /\ HeadTimed(State)'
      /\ ready' = c.ready /\ job' = c.job
  BY <1>4, <1>8, Becoming
<1>10. /\ LogOK' /\ \A q, a : PreemptionTime(q, a)' = PreemptionTime(q, a)
  BY <1>3, <1>4 DEF LogOK, PreemptionTime
<1>11. release' \in [Rid -> Int] /\ release'[r] # Never
       /\ \A q \in Rid : q # r => release'[q] = release[q]
  <2>1. Period[r] \in Nat /\ now + Period[r] \in Nat
    BY <1>1, BudgetAssumption
  <2> QED BY <2>1, <1>4 DEF BudgetInv, Never
<1>12. ASSUME NEW q \in Rid
       PROVE  (/\ job[q].started = IF q \in ToSet(ready) THEN 1 ELSE 0
               /\ job[q].enforced => q \notin ToSet(ready)
               /\ release[q] = Never => held[q] = 0 /\ q \notin ToSet(ready)
               /\ held[q] <= Budget[q] + PreemptionTime(q, job[q].activation))'
  <2>1. /\ job'[q].started = b.job[q].started /\ job'[q].enforced = b.job[q].enforced
        /\ job'[q].activation = b.job[q].activation
    BY <1>8, <1>9 DEF SameTimes
  <2>2. PreemptionTime(q, job[q].activation)' = PreemptionTime(q, b.job[q].activation)
    BY <2>1, <1>10
  <2>3. held'[q] = held[q]
    BY <1>4
  <2>4. CASE q = r
    <3>1. PreemptionTime(q, b.job[q].activation) = 0 /\ Budget[q] \in Nat
      BY <2>4, <1>1, <1>2, <1>3, <1>7, PreemptionTimeIs, BudgetAssumption
    <3> QED BY <2>1, <2>2, <2>3, <2>4, <3>1, <1>2, <1>3, <1>7, <1>8, <1>9, <1>11
  <2>5. CASE q # r
    BY <2>1, <2>2, <2>3, <2>5, <1>7, <1>8, <1>9, <1>11 DEF BudgetInv
  <2> QED BY <2>4, <2>5
<1> QED BY <1>9, <1>10, <1>11, <1>12 DEF BudgetInv

-----------------------------------------------------------------------------
(* started and enforced are no part of what the dispatcher keeps. *)
LEMMA OtherFields ==
  ASSUME NEW b, NEW h, Counting(b, h), HeadTimed(b),
         NEW c \in Dispatchers, c.ready = b.ready, c.stack = b.stack, c.timer = b.timer,
         \A q \in Rid : /\ c.job[q].current = b.job[q].current
                        /\ c.job[q].start = b.job[q].start
                        /\ c.job[q].activation = b.job[q].activation
                        /\ c.job[q].preemption = b.job[q].preemption
                        /\ c.job[q].stop = b.job[q].stop
  PROVE  Counting(c, h) /\ HeadTimed(c)
<1>1. \A q : IsHead(c, q) <=> IsHead(b, q)
  BY DEF IsHead
<1>2. Base(c, h)
  BY DEF Counting, Base
<1>3. ASSUME NEW q \in Rid
      PROVE  /\ h[q] = c.job[q].current + (IF IsHead(c, q) THEN now - c.job[q].start ELSE 0)
             /\ TimerOK(c, q)
  BY <1>1 DEF Counting, TimerOK
<1> QED BY <1>1, <1>2, <1>3 DEF Counting, HeadTimed

(* The actions that do not begin a job or a tick. *)
LEMMA Keeps ==
  ASSUME BudgetInv, NEW c, Counting(c, held), HeadTimed(c), Becomes(c),
         UNCHANGED <<now, release, log, held>>,
         ToSet(c.ready) \subseteq ToSet(ready),
         \A q \in Rid : /\ c.job[q].activation = job[q].activation
                        /\ c.job[q].started = IF q \in ToSet(c.ready) THEN 1 ELSE 0
                        /\ c.job[q].enforced => q \notin ToSet(c.ready)
  PROVE  BudgetInv'
<1>1. /\ Counting(State, held)' /\ HeadTimed(State)'
      /\ ready' = c.ready /\ job' = c.job
  BY Becoming
<1>2. LogOK' /\ \A q, a : PreemptionTime(q, a)' = PreemptionTime(q, a)
  BY DEF LogOK, PreemptionTime, BudgetInv
<1>3. release' \in [Rid -> Int]
  BY DEF BudgetInv
<1>4. ASSUME NEW q \in Rid
      PROVE  (/\ job[q].started = IF q \in ToSet(ready) THEN 1 ELSE 0
              /\ job[q].enforced => q \notin ToSet(ready)
              /\ release[q] = Never => held[q] = 0 /\ q \notin ToSet(ready)
              /\ held[q] <= Budget[q] + PreemptionTime(q, job[q].activation))'
  <2>1. PreemptionTime(q, job[q].activation)' = PreemptionTime(q, job[q].activation)
    BY <1>1, <1>2
  <2> QED BY <1>1, <2>1 DEF BudgetInv, Never
<1> QED BY <1>1, <1>2, <1>3, <1>4 DEF BudgetInv

LEMMA EnforcementTimerKeeps ==
  ASSUME Sane, BudgetInv, NEW r \in Rid, EnforcementTimer(r)
  PROVE  BudgetInv'
<1> DEFINE b == [State EXCEPT !.timer[r] = Never]
           c == BudgetEnforcement(b, r, TRUE)
<1>1. /\ State \in Dispatchers /\ State.ready = ready /\ State.job = job
      /\ State.timer = timer /\ State.stack = stack /\ now \in Nat
      /\ job \in [Rid -> Job] /\ timer \in [Rid -> Int] /\ held \in [Rid -> 0 .. now]
  BY Unfolded
<1>2. /\ LogOK /\ Counting(State, held) /\ stack = <<>> /\ timer[r] = now
      /\ Becomes(c) /\ UNCHANGED <<now, release, log, held>>
  BY DEF BudgetInv, EnforcementTimer
<1>3. /\ IsHead(State, r) /\ job[r].current + now - job[r].start >= Budget[r]
      /\ held[r] = job[r].current + now - job[r].start
  <2>1. timer[r] # Never
    BY <1>1, <1>2 DEF Never
  <2>2. IsHead(State, r) /\ job[r].current + now - job[r].start >= Budget[r]
    BY <1>1, <1>2, <2>1 DEF Counting, TimerOK
  <2>3. held[r] = job[r].current + (now - job[r].start)
    BY <1>1, <1>2, <2>2 DEF Counting
  <2> QED BY <1>1, <2>2, <2>3 DEF Job
<1>4. /\ b \in Dispatchers /\ b.ready = ready /\ b.job = job /\ b.stack = <<>>
      /\ b.timer = [timer EXCEPT ![r] = Never]
  <2>1. State \in Dispatchers /\ Never \in Int
    BY <1>1 DEF Never
  <2>2. /\ b \in Dispatchers /\ b.ready = State.ready /\ b.job = State.job
        /\ b.stack = State.stack /\ b.timer = [State.timer EXCEPT ![r] = Never]
    BY <2>1 DEF Dispatchers
  <2> QED BY <1>1, <1>2, <2>2
<1> HIDE DEF b
<1>5. Base(b, held) /\ IsHead(b, r)
  BY <1>1, <1>2, <1>3, <1>4 DEF Counting, Base, IsHead
<1>6. ASSUME NEW q \in Rid
      PROVE  b.timer[q] = Never /\ (q # r => held[q] = b.job[q].current)
  <2>1. CASE q = r
    BY <1>1, <1>4, <2>1
  <2>2. CASE q # r
    <3>1. ~ IsHead(State, q) /\ b.timer[q] = timer[q] /\ held[q] \in Int
      BY <1>1, <1>3, <1>4, <2>2 DEF IsHead
    <3>2. held[q] = job[q].current + 0 /\ timer[q] = Never
      BY <1>1, <1>2, <3>1 DEF Counting, TimerOK
    <3> QED BY <1>1, <1>4, <3>1, <3>2 DEF Job
  <2> QED BY <2>1, <2>2
<1>7. Counting(c, held) /\ HeadTimed(c) /\ SameTimes(b, c) /\ c.ready = ready
  <2>1. /\ held[r] >= Budget[r] /\ b.stack = <<>> /\ LogOK
        /\ held[r] = b.job[r].current + now - b.job[r].start
    BY <1>2, <1>3, <1>4
  <2> HIDE DEF c
  <2>2. Counting(c, held) /\ HeadTimed(c) /\ SameTimes(b, c) /\ c.ready = b.ready
    BY <1>5, <1>6, <2>1, BudgetEnforcementIs DEF c
  <2> QED BY <1>4, <2>2
<1> HIDE DEF c
<1>8. \A q \in Rid : /\ c.job[q].activation = job[q].activation
                     /\ c.job[q].started = IF q \in ToSet(c.ready) THEN 1 ELSE 0
                     /\ c.job[q].enforced => q \notin ToSet(c.ready)
  BY <1>4, <1>7 DEF SameTimes, BudgetInv
<1> QED BY <1>2, <1>7, <1>8, Keeps

LEMMA WaitForNextPeriodKeeps ==
  ASSUME Sane, BudgetInv, NEW r \in Rid, WaitForNextPeriod(r)
  PROVE  BudgetInv'
<1> DEFINE d == Stop(State, r)
           c == [d EXCEPT !.job[r].started = @ - 1]
           k == [d.job[r] EXCEPT !.started = @ - 1]
<1>1. State.ready = ready /\ State.job = job /\ State.stack = stack
  BY Unfolded
<1>2. /\ LogOK /\ Counting(State, held) /\ HeadTimed(State) /\ State.stack = <<>>
      /\ Becomes(c) /\ UNCHANGED <<now, release, log, held>>
      /\ r \in ToSet(ready)
  <2>1. ready # <<>> /\ r = Head(ready) /\ ready \in Seq(Rid)
    BY Unfolded DEF WaitForNextPeriod
  <2> QED BY <1>1, <2>1, TailIs DEF BudgetInv, WaitForNextPeriod
<1>3. /\ Counting(d, held) /\ HeadTimed(d) /\ SameTimes(State, d)
      /\ ToSet(d.ready) = ToSet(ready) \ {r}
  BY <1>1, <1>2, StopIs
<1>4. d \in Dispatchers /\ d.job \in [Rid -> Job] /\ d.job[r].started = 1
  BY <1>1, <1>2, <1>3 DEF Counting, Base, Dispatchers, SameTimes, BudgetInv
<1> HIDE DEF d
<1>5. /\ k \in Job /\ k.started = 0 /\ k.current = d.job[r].current
      /\ k.start = d.job[r].start /\ k.activation = d.job[r].activation
      /\ k.preemption = d.job[r].preemption /\ k.stop = d.job[r].stop
      /\ k.enforced = d.job[r].enforced
  <2> DEFINE n == d.job[r].started - 1
  <2>1. n = 0 /\ n \in Int /\ k = [d.job[r] EXCEPT !.started = n] /\ d.job[r] \in Job
    BY <1>4
  <2> HIDE DEF n, k
  <2> QED BY <2>1 DEF Job
<1>6. c = [d EXCEPT !.job[r] = k]
  OBVIOUS
<1> HIDE DEF c, k
<1>7. /\ c \in Dispatchers /\ c.ready = d.ready /\ c.stack = d.stack
      /\ c.timer = d.timer /\ c.job = [d.job EXCEPT ![r] = k]
  <2>1. d \in Dispatchers /\ k \in Job
    BY <1>4, <1>5
  <2> QED BY <1>6, <2>1 DEF Dispatchers
<1>8. c.job[r] = k /\ \A q \in Rid : q # r => c.job[q] = d.job[q]
  BY <1>4, <1>7
<1>9. Counting(c, held) /\ HeadTimed(c)
  <2>1. \A q \in Rid : /\ c.job[q].current = d.job[q].current
                       /\ c.job[q].start = d.job[q].start
                       /\ c.job[q].activation = d.job[q].activation
                       /\ c.job[q].preemption = d.job[q].preemption
                       /\ c.job[q].stop = d.job[q].stop
    BY <1>5, <1>8
  <2> QED BY <1>3, <1>7, <2>1, OtherFields
<1>10. ASSUME NEW q \in Rid
       PROVE  /\ c.job[q].activation = job[q].activation
              /\ c.job[q].started = IF q \in ToSet(c.ready) THEN 1 ELSE 0
              /\ c.job[q].enforced => q \notin ToSet(c.ready)
  <2>1. CASE q = r
    BY <2>1, <1>1, <1>3, <1>5, <1>7, <1>8 DEF SameTimes
  <2>2. CASE q # r
    BY <2>2, <1>1, <1>3, <1>7, <1>8 DEF SameTimes, BudgetInv
  <2> QED BY <2>1, <2>2
<1> QED BY <1>2, <1>3, <1>7, <1>9, <1>10, Keeps

LEMMA SchedulerPopsKeeps ==
  ASSUME Sane, BudgetInv, SchedulerPops
  PROVE  BudgetInv'
<1> DEFINE r == Last(stack)
           b == [State EXCEPT !.stack = Front(@), !.job[r].stop = FALSE]
           e == [b EXCEPT !.job[r] = [b.job[r] EXCEPT !.enforced = TRUE, !.started = @ - 1]]
           c == Stop(e, r)
<1>1. /\ State \in Dispatchers /\ State.ready = ready /\ State.job = job
      /\ State.timer = timer /\ State.stack = stack /\ now \in Nat
      /\ job \in [Rid -> Job]
  BY Unfolded
<1>2. PICK q0 \in Rid : stack = <<q0>>
  BY <1>1 DEF BudgetInv, Counting, Base, SchedulerPops
<1>3. r = q0 /\ Front(stack) = <<>> /\ r \in Rid
  BY <1>2 DEF Last, Front
<1>4. job[r].stop /\ r \in ToSet(ready)
  BY <1>2, <1>3, Unfolded
<1>5. ~ job[r].enforced /\ job[r].started = 1
  BY <1>3, <1>4 DEF BudgetInv
<1>6. /\ Becomes(c) /\ UNCHANGED <<now, release, log, held>>
      /\ LogOK /\ Counting(State, held) /\ HeadTimed(State)
  BY <1>4, <1>5 DEF SchedulerPops, BudgetInv
<1> HIDE DEF r
<1>7. /\ b \in Dispatchers /\ b.ready = ready /\ b.stack = <<>> /\ b.timer = timer
      /\ b.job = [job EXCEPT ![r] = [job[r] EXCEPT !.stop = FALSE]]
  <2> DEFINE x == FALSE
             k == [job[r] EXCEPT !.stop = x]
  <2>1. job[r] \in Job /\ x \in BOOLEAN /\ <<>> \in Seq(Rid) /\ State \in Dispatchers
    BY <1>1, <1>3
  <2> HIDE DEF x
  <2>2. k \in Job
    BY <2>1 DEF Job
  <2>3. b = [State EXCEPT !.stack = <<>>, !.job[r] = k]
    BY <1>1, <1>3 DEF x
  <2> HIDE DEF k, b
  <2>4. /\ b \in Dispatchers /\ b.ready = State.ready /\ b.stack = <<>>
        /\ b.timer = State.timer /\ b.job = [State.job EXCEPT ![r] = k]
    BY <1>3, <2>1, <2>2, <2>3 DEF Dispatchers
  <2> QED BY <1>1, <2>4 DEF k, x
<1>8. /\ e \in Dispatchers /\ e.ready = ready /\ e.stack = <<>> /\ e.timer = timer
      /\ \A q \in Rid : q # r => e.job[q] = job[q]
      /\ e.job[r].current = job[r].current /\ e.job[r].start = job[r].start
      /\ e.job[r].activation = job[r].activation
      /\ e.job[r].preemption = job[r].preemption
      /\ ~ e.job[r].stop /\ e.job[r].started = 0 /\ e.job[r].enforced
  <2> DEFINE j == b.job[r]
             n == j.started - 1
             y == TRUE
             k == [j EXCEPT !.enforced = y, !.started = n]
  <2>1. /\ j \in Job /\ j.stop = FALSE /\ j.started = 1 /\ j.current = job[r].current
        /\ j.start = job[r].start /\ j.activation = job[r].activation
        /\ j.preemption = job[r].preemption
    <3> DEFINE x == FALSE
    <3>1. j = [job[r] EXCEPT !.stop = x] /\ job[r] \in Job /\ x \in BOOLEAN /\ x = FALSE
      BY <1>1, <1>3, <1>7
    <3> HIDE DEF x, j
    <3> QED BY <1>5, <3>1 DEF Job
  <2>2. n = 0 /\ n \in Int /\ y \in BOOLEAN /\ y = TRUE
    BY <2>1
  <2>3. e = [b EXCEPT !.job[r] = k]
    OBVIOUS
  <2> HIDE DEF j, n, y, b, e
  <2>4. /\ k \in Job /\ k.current = j.current /\ k.start = j.start
        /\ k.activation = j.activation /\ k.preemption = j.preemption
        /\ k.stop = j.stop /\ k.started = n /\ k.enforced = y
    BY <2>1, <2>2 DEF Job
  <2> HIDE DEF k
  <2>5. /\ e \in Dispatchers /\ e.ready = b.ready /\ e.stack = b.stack
        /\ e.timer = b.timer /\ e.job = [b.job EXCEPT ![r] = k]
    <3>1. b \in Dispatchers /\ k \in Job
      BY <1>7, <2>4
    <3> QED BY <1>3, <2>3, <3>1 DEF Dispatchers
  <2>6. /\ e.job[r] = k
        /\ \A q \in Rid : q # r => e.job[q] = job[q]
    BY <1>1, <1>3, <1>7, <2>5
  <2> QED BY <1>7, <2>1, <2>2, <2>4, <2>5, <2>6
<1> HIDE DEF b, e
<1>9. Counting(e, held)
  <2>1. \A q : IsHead(e, q) <=> IsHead(State, q)
    BY <1>1, <1>8 DEF IsHead
  <2>2. \A q \in Rid : /\ e.job[q].current = job[q].current
                       /\ e.job[q].start = job[q].start
                       /\ e.job[q].activation = job[q].activation
                       /\ e.job[q].preemption = job[q].preemption
                       /\ ~ e.job[q].stop
    <3> TAKE q \in Rid
    <3>1. q # r => ~ job[q].stop
      <4>1. <<q>> = <<q0>> => q = q0
        OBVIOUS
      <4> QED BY <1>2, <1>3, <4>1, Unfolded
    <3> QED BY <1>8, <3>1
  <2>3. \A q \in Rid : <<q>> # <<>>
    OBVIOUS
  <2>4. Base(e, held)
    BY <1>1, <1>6, <1>8, <2>2, <2>3 DEF Counting, Base
  <2>5. ASSUME NEW q \in Rid
        PROVE  /\ held[q] = e.job[q].current + (IF IsHead(e, q) THEN now - e.job[q].start ELSE 0)
               /\ TimerOK(e, q)
    BY <1>1, <1>6, <1>8, <2>1, <2>2 DEF Counting, TimerOK
  <2> QED BY <2>4, <2>5 DEF Counting
<1>10. ~ IsHead(e, r) => HeadTimed(e)
  <2> SUFFICES ASSUME ~ IsHead(e, r), NEW q \in Rid, IsHead(e, q) PROVE e.timer[q] # Never
    BY DEF HeadTimed
  <2>1. q # r /\ IsHead(State, q)
    BY <1>1, <1>8 DEF IsHead
  <2>2. <<q>> = <<q0>> => q = q0
    OBVIOUS
  <2>3. State.stack # <<q>>
    BY <1>1, <1>2, <1>3, <2>1, <2>2
  <2> QED BY <1>1, <1>6, <1>8, <2>1, <2>3 DEF HeadTimed
<1>11. /\ Counting(c, held) /\ HeadTimed(c) /\ SameTimes(e, c)
       /\ ToSet(c.ready) = ToSet(ready) \ {r}
  BY <1>3, <1>6, <1>8, <1>9, <1>10, StopIs
<1> HIDE DEF c
<1>12. ASSUME NEW q \in Rid
       PROVE  /\ c.job[q].activation = job[q].activation
              /\ c.job[q].started = IF q \in ToSet(c.ready) THEN 1 ELSE 0
              /\ c.job[q].enforced => q \notin ToSet(c.ready)
  <2>1. CASE q = r
    BY <2>1, <1>8, <1>11 DEF SameTimes
  <2>2. CASE q # r
    BY <2>2, <1>8, <1>11 DEF SameTimes, BudgetInv
  <2> QED BY <2>1, <2>2
<1> QED BY <1>6, <1>11, <1>12, Keeps

(* The counters of one reserve are updated. *)
LEMMA JobUpdated ==
  ASSUME NEW d \in Dispatchers, NEW r \in Rid, NEW k \in Job,
         NEW b, b = [d EXCEPT !.job = [@ EXCEPT ![r] = k]]
  PROVE  /\ b \in Dispatchers /\ b.ready = d.ready /\ b.stack = d.stack
         /\ b.timer = d.timer /\ b.job = [d.job EXCEPT ![r] = k]
         /\ b.job[r] = k /\ \A q \in Rid : q # r => b.job[q] = d.job[q]
BY DEF Dispatchers

(* A job that is renewed and started: the end of start_of_period. *)
LEMMA Renewed ==
  ASSUME Sane, BudgetInv, NEW r \in Rid,
         NEW d, Counting(d, held), r \notin ToSet(d.ready),
         ToSet(d.ready) = ToSet(ready) \ {r},
         d.stack = <<>> \/ \A x \in ToSet(d.ready) : <<r, x>> \in ByPrio,
         \A q \in Rid : q # r => /\ d.job[q].activation = job[q].activation
                                 /\ d.job[q].started = job[q].started
                                 /\ d.job[q].enforced = job[q].enforced,
         NEW k \in Job, k.preemption = 0, k.current = 0, ~ k.stop, k.started = 1,
         ~ k.enforced, k.activation = now,
         NEW b \in Dispatchers, b.ready = d.ready, b.stack = d.stack, b.timer = d.timer,
         b.job = [d.job EXCEPT ![r] = k], Becomes(Start(b, r)),
         release' = [release EXCEPT ![r] = now + Period[r]],
         held' = [held EXCEPT ![r] = 0], UNCHANGED <<now, log>>
  PROVE  BudgetInv'
<1> DEFINE c == Start(b, r)
           g == [held EXCEPT ![r] = 0]
<1>1. /\ d \in Dispatchers /\ d.job \in [Rid -> Job] /\ LogOK
      /\ held \in [Rid -> 0 .. now] /\ now \in Nat /\ release \in [Rid -> Int]
  <2>1. d \in Dispatchers /\ d.job \in [Rid -> Job]
    BY DEF Counting, Base, Dispatchers
  <2>2. LogOK /\ release \in [Rid -> Int]
    BY DEF BudgetInv
  <2>3. held \in [Rid -> 0 .. now] /\ now \in Nat
    BY Unfolded
  <2> QED BY <2>1, <2>2, <2>3
<1>2. LogOK /\ Counting(d, held) /\ k \in Job
  BY <1>1
<1>3. b.job[r] = k /\ \A q \in Rid : q # r => b.job[q] = d.job[q]
  BY <1>1
<1>4. /\ g \in [Rid -> 0 .. now] /\ g[r] = 0
      /\ \A q \in Rid : q # r => g[q] = held[q]
  BY <1>1
<1> HIDE DEF g
<1>5. Counting(b, g)
  BY <1>2, <1>4, FreshJob
<1>6. /\ Counting(c, g) /\ HeadTimed(c) /\ SameTimes(b, c)
      /\ ToSet(c.ready) = ToSet(ready) \cup {r}
  <2>1. \/ b.stack = <<>>
        \/ /\ b.job[r].current = 0 /\ b.job[r].preemption = 0
           /\ \A x \in ToSet(b.ready) : <<r, x>> \in ByPrio
    BY <1>3
  <2>2. r \notin ToSet(b.ready) /\ ToSet(b.ready) = ToSet(ready) \ {r}
    OBVIOUS
  <2> HIDE DEF c
  <2>3. /\ Counting(c, g) /\ HeadTimed(c) /\ SameTimes(b, c)
        /\ ToSet(c.ready) = ToSet(b.ready) \cup {r}
    BY <1>1, <1>5, <2>1, <2>2, StartIs DEF c
  <2> QED BY <2>2, <2>3
<1>7. Becomes(c) /\ held' = g
  BY DEF g
<1> HIDE DEF c
<1>8. /\ Counting(State, held)' /\ HeadTimed(State)'
      /\ ready' = c.ready /\ job' = c.job
  BY <1>6, <1>7, Becoming
<1>9. /\ LogOK' /\ \A q, a : PreemptionTime(q, a)' = PreemptionTime(q, a)
  BY <1>1 DEF LogOK, PreemptionTime
<1>10. release' \in [Rid -> Int] /\ release'[r] # Never
       /\ \A q \in Rid : q # r => release'[q] = release[q]
  <2>1. Period[r] \in Nat /\ now + Period[r] \in Nat
    BY <1>1, BudgetAssumption
  <2> QED BY <2>1, <1>1 DEF Never
<1>11. ASSUME NEW q \in Rid
       PROVE  (/\ job[q].started = IF q \in ToSet(ready) THEN 1 ELSE 0
               /\ job[q].enforced => q \notin ToSet(ready)
               /\ release[q] = Never => held[q] = 0 /\ q \notin ToSet(ready)
               /\ held[q] <= Budget[q] + PreemptionTime(q, job[q].activation))'
  <2>1. /\ job'[q].started = b.job[q].started /\ job'[q].enforced = b.job[q].enforced
        /\ job'[q].activation = b.job[q].activation
    BY <1>6, <1>8 DEF SameTimes
  <2>2. PreemptionTime(q, job[q].activation)' = PreemptionTime(q, b.job[q].activation)
    BY <2>1, <1>9
  <2>3. CASE q = r
    <3>1. PreemptionTime(q, now) = 0 /\ Budget[q] \in Nat /\ held'[q] = 0
      BY <2>3, <1>1, <1>4, <1>7, PreemptionTimeIs, BudgetAssumption
    <3> QED BY <2>1, <2>2, <2>3, <3>1, <1>3, <1>6, <1>8, <1>10
  <2>4. CASE q # r
    <3>1. held'[q] = held[q] /\ q \in ToSet(ready') <=> q \in ToSet(ready)
      BY <2>4, <1>4, <1>6, <1>7, <1>8
    <3> QED BY <2>1, <2>2, <2>4, <3>1, <1>3, <1>10 DEF BudgetInv
  <2> QED BY <2>3, <2>4
<1> QED BY <1>8, <1>9, <1>10, <1>11 DEF BudgetInv

-----------------------------------------------------------------------------
(* Preemption grows with the log. *)
LEMMA PreemptionGrows ==
  ASSUME LogOK, LogOK', log \subseteq log', now \in Int, now' = now + 1
  PROVE  \A q \in Rid, a \in Int : /\ PreemptionTime(q, a) <= PreemptionTime(q, a)'
                                   /\ PreemptionTime(q, a)' \in Nat
<1> TAKE q \in Rid, a \in Int
<1> DEFINE S == {e \in log : e.rid # q /\ a <= e.tick /\ e.tick < now}
           T == {e \in log' : e.rid # q /\ a <= e.tick /\ e.tick < now'}
<1>1. IsFiniteSet(T)
  BY FS_Subset DEF LogOK
<1>2. \A e \in log : e.tick < now => e.tick < now'
  BY DEF LogOK
<1>3. S \in SUBSET T
  BY <1>2
<1>4. PreemptionTime(q, a) = Cardinality(S) /\ PreemptionTime(q, a)' = Cardinality(T)
  BY DEF PreemptionTime
<1> HIDE DEF S, T
<1> QED BY <1>1, <1>3, <1>4, FS_Subset, FS_CardinalityType

(* A tick is charged to the head, whose timer is still to come. *)
LEMMA TickKeeps ==
  ASSUME Sane, BudgetInv, Settled, now < HORIZON, now' = now + 1,
         UNCHANGED <<ready, job, timer, release, stack>>,
         held' = [q \in Rid |-> IF ready # <<>> /\ q = Head(ready)
                                THEN held[q] + 1 ELSE held[q]],
         log' = log \/ \E h \in Rid : log' = log \cup {[rid |-> h, tick |-> now]}
  PROVE  BudgetInv'
<1>1. /\ State \in Dispatchers /\ State.ready = ready /\ State.job = job
      /\ State.timer = timer /\ State.stack = stack /\ now \in Nat /\ HORIZON \in Nat
      /\ job \in [Rid -> Job] /\ timer \in [Rid -> Int] /\ held \in [Rid -> 0 .. now]
  BY Unfolded
<1>2. LogOK /\ LogOK' /\ log \subseteq log'
  <2>1. LogOK
    BY DEF BudgetInv
  <2>2. CASE log' = log
    BY <2>1, <2>2 DEF LogOK
  <2>3. ASSUME NEW h \in Rid, log' = log \cup {[rid |-> h, tick |-> now]}
        PROVE  LogOK' /\ log \subseteq log'
    <3> DEFINE e == [rid |-> h, tick |-> now]
    <3>1. e \in [rid : Rid, tick : Int]
      BY <1>1
    <3> HIDE DEF e
    <3>2. IsFiniteSet(log \cup {e})
      BY <2>1, FS_AddElement DEF LogOK
    <3> QED BY <2>1, <2>3, <3>1, <3>2 DEF LogOK, e
  <2> QED BY <2>1, <2>2, <2>3
<1>3. \A q \in Rid : /\ PreemptionTime(q, job[q].activation) \in Nat
                     /\ PreemptionTime(q, job[q].activation)'
                          >= PreemptionTime(q, job[q].activation)
                     /\ PreemptionTime(q, job[q].activation)' \in Nat
  <2> TAKE q \in Rid
  <2> DEFINE a == job[q].activation
  <2>1. a \in Int /\ a' = a
    BY <1>1 DEF Job
  <2>2. PreemptionTime(q, job[q].activation)' = PreemptionTime(q, a)'
    BY <2>1
  <2>3. now \in Int /\ now' = now + 1
    BY <1>1
  <2> HIDE DEF a
  <2>4. /\ PreemptionTime(q, a) \in Nat /\ PreemptionTime(q, a)' \in Nat
        /\ PreemptionTime(q, a) <= PreemptionTime(q, a)'
    BY <1>2, <2>1, <2>3, PreemptionGrows, PreemptionTimeIs
  <2> QED BY <2>2, <2>4 DEF a
<1>4. State' = State
  BY DEF State
<1>5. \A q : IsHead(State, q) <=> ready # <<>> /\ q = Head(ready)
  BY <1>1 DEF IsHead
<1>6. ASSUME NEW q \in Rid
      PROVE  /\ held'[q] = held[q] + (IF IsHead(State, q) THEN 1 ELSE 0)
             /\ held[q] \in 0 .. now
  BY <1>1, <1>5
<1>7. held' \in [Rid -> 0 .. now'] /\ now' \in 0 .. HORIZON
  <2>1. \A q \in Rid : held'[q] \in 0 .. now'
    BY <1>1, <1>6
  <2> QED BY <1>1, <2>1
<1>8. Base(State, held) /\ Base(State, held)'
  <2>1. Base(State, held)
    BY DEF BudgetInv, Counting
  <2>2. ASSUME NEW q \in Rid
        PROVE  (/\ State.job[q].preemption <= held[q] \/ held[q] >= Budget[q]
                /\ State.job[q].preemption <= PreemptionTime(q, State.job[q].activation)
                /\ State.job[q].stop <=> State.stack = <<q>>
                /\ State.job[q].stop => q \in ToSet(State.ready) /\ held[q] >= Budget[q])'
    <3>1. held'[q] >= held[q] /\ held'[q] \in Int /\ held[q] \in Int
      BY <1>1, <1>6
    <3>2. State.job[q].preemption \in Nat /\ Budget[q] \in Nat
      BY <1>1, BudgetAssumption DEF Job
    <3>3. /\ State.job[q].preemption <= PreemptionTime(q, job[q].activation)
          /\ PreemptionTime(q, State.job[q].activation)'
               = PreemptionTime(q, job[q].activation)'
      BY <2>1, <1>1, <1>4 DEF Base
    <3>4. /\ State.job[q].preemption <= held[q] \/ held[q] >= Budget[q]
          /\ State.job[q].stop <=> State.stack = <<q>>
          /\ State.job[q].stop => q \in ToSet(State.ready) /\ held[q] >= Budget[q]
      BY <2>1 DEF Base
    <3> QED BY <1>3, <1>4, <3>1, <3>2, <3>3, <3>4
  <2>3. /\ Ordered(State.ready, ByPrio)
        /\ State.stack # <<>> => \E q \in Rid : State.stack = <<q>>
    BY <2>1 DEF Base
  <2> QED BY <1>1, <1>4, <1>7, <2>1, <2>2, <2>3 DEF Base, Dispatchers
<1>9. ASSUME NEW q \in Rid
      PROVE  (/\ held[q] = State.job[q].current
                           + (IF IsHead(State, q) THEN now - State.job[q].start ELSE 0)
              /\ TimerOK(State, q)
              /\ held[q] <= Budget[q] + PreemptionTime(q, job[q].activation))'
  <2>1. /\ held[q] = job[q].current + (IF IsHead(State, q) THEN now - job[q].start ELSE 0)
        /\ TimerOK(State, q) /\ held[q] <= Budget[q] + PreemptionTime(q, job[q].activation)
        /\ IsHead(State, q) => timer[q] # Never
    BY <1>1 DEF BudgetInv, Counting, HeadTimed, Settled
  <2>2. /\ job[q].current \in Nat /\ job[q].start \in Int /\ job[q].preemption \in Nat
        /\ timer[q] \in Int /\ Budget[q] \in Nat /\ timer[q] # now
    BY <1>1, BudgetAssumption DEF Job, Settled
  <2>3. /\ timer[q] # Never => /\ IsHead(State, q) /\ timer[q] >= now
                               /\ job[q].current + timer[q] - job[q].start >= Budget[q]
                               /\ job[q].current + timer[q] - job[q].start
                                    <= Budget[q] + job[q].preemption
    BY <2>1, <1>1 DEF TimerOK
  <2>4. job[q].preemption <= PreemptionTime(q, job[q].activation)
    BY <1>1, <1>8 DEF Base
  <2>5. /\ IsHead(State, q)' <=> IsHead(State, q)
        /\ State.job[q]' = job[q] /\ State.timer[q]' = timer[q] /\ Never' = Never
    BY <1>1, <1>4 DEF IsHead, Never
  <2>6. TimerOK(State, q)'
    BY <1>1, <2>2, <2>3, <2>5 DEF TimerOK
  <2>7. held'[q] = job[q].current + (IF IsHead(State, q) THEN now' - job[q].start ELSE 0)
    <3>1. CASE IsHead(State, q)
      <4> DEFINE current == job[q].current
                 start == job[q].start
                 was == held[q]
                 is == held'[q]
      <4>1. now' = now + 1
        BY <1>1, <1>6, <3>1
      <4>2. is = was + 1
        BY <1>1, <1>6, <3>1
      <4>3. was = current + (now - start)
        BY <2>1, <3>1
      <4>4. current \in Int /\ start \in Int /\ now \in Int
        BY <1>1, <2>2
      <4>5. is = current + (now' - start)
        <5> HIDE DEF current, start, was, is
        <5> QED  BY <4>1, <4>2, <4>3, <4>4
      <4> QED  BY <3>1, <4>5
    <3>2. CASE ~ IsHead(State, q)
      <4>1. held'[q] = held[q] /\ held[q] = job[q].current + 0
        BY <1>1, <1>6, <2>1, <3>2
      <4> QED  BY <3>2, <4>1
    <3> QED  BY <3>1, <3>2
  <2>8. held'[q] <= Budget[q] + PreemptionTime(q, job[q].activation)'
    <3>1. CASE IsHead(State, q)
      <4>1. held'[q] <= job[q].current + timer[q] - job[q].start
        <5>1. /\ held'[q] = job[q].current + (now' - job[q].start)
              /\ now' = now + 1
          BY <1>1, <1>6, <2>7, <3>1
        <5>2. timer[q] >= now /\ timer[q] # now
          BY <2>1, <2>2, <2>3, <3>1
        <5>3. /\ timer[q] \in Int /\ now \in Int
              /\ job[q].current \in Int /\ job[q].start \in Int
          BY <1>1, <2>2
        <5>4. now' <= timer[q]
          BY <5>1, <5>2, <5>3
        <5> DEFINE current == job[q].current
                   start == job[q].start
                   until == timer[q]
                   is == held'[q]
        <5>5. is <= current + until - start
          <6> HIDE DEF current, start, until, is
          <6>1. is = current + (now' - start) /\ now' \in Int /\ now' <= until
                /\ current \in Int /\ start \in Int /\ until \in Int
            BY <5>1, <5>3, <5>4 DEF current, start, until, is
          <6> QED  BY <6>1
        <5> QED  BY <5>5
      <4>2. job[q].preemption <= PreemptionTime(q, job[q].activation)'
        BY <1>3, <2>2, <2>4
      <4> HIDE DEF Never
      <4>3. held'[q] <= Budget[q] + job[q].preemption
        <5>1. job[q].current + timer[q] - job[q].start <= Budget[q] + job[q].preemption
          BY <2>1, <2>3, <3>1
        <5> DEFINE until == job[q].current + timer[q] - job[q].start
                   most == Budget[q] + job[q].preemption
                   is == held'[q]
        <5>2. is <= until /\ until <= most
          BY <4>1, <5>1
        <5>3. is \in Int /\ until \in Int /\ most \in Int
          <6>1. is \in Int
            BY <1>1, <1>6
          <6>2. until \in Int /\ most \in Int
            BY <2>2
          <6> QED  BY <6>1, <6>2
        <5> HIDE DEF until, most, is
        <5>4. is <= most
          BY <5>2, <5>3
        <5> QED  BY <5>4 DEF is, most
      <4> QED BY <1>1, <1>3, <1>6, <2>2, <3>1, <4>2, <4>3
    <3>2. CASE ~ IsHead(State, q)
      BY <1>1, <1>3, <1>6, <2>1, <2>2, <3>2
    <3> QED BY <3>1, <3>2
  <2> QED BY <2>5, <2>6, <2>7, <2>8
<1>10. Counting(State, held)'
  BY <1>8, <1>9 DEF Counting
<1>11. HeadTimed(State)'
  <2>1. HeadTimed(State)
    BY DEF BudgetInv
  <2> QED BY <2>1, <1>4 DEF HeadTimed, IsHead, Never
<1>12. ASSUME NEW q \in Rid
       PROVE  (/\ job[q].started = IF q \in ToSet(ready) THEN 1 ELSE 0
               /\ job[q].enforced => q \notin ToSet(ready)
               /\ release[q] = Never => held[q] = 0 /\ q \notin ToSet(ready)
               /\ held[q] <= Budget[q] + PreemptionTime(q, job[q].activation))'
  <2>1. /\ job[q].started = IF q \in ToSet(ready) THEN 1 ELSE 0
        /\ job[q].enforced => q \notin ToSet(ready)
        /\ release[q] = Never => held[q] = 0 /\ q \notin ToSet(ready)
    BY DEF BudgetInv
  <2>2. IsHead(State, q) => q \in ToSet(ready)
    <3>1. ready \in Seq(Rid)
      BY Unfolded
    <3> QED BY <1>5, <3>1, TailIs
  <2>3. ~ IsHead(State, q) => held'[q] = held[q]
    <3>1. held[q] \in Int /\ held'[q] = held[q] + (IF IsHead(State, q) THEN 1 ELSE 0)
      BY <1>6
    <3> HIDE DEF IsHead
    <3> QED BY <3>1
  <2> QED BY <1>9, <2>1, <2>2, <2>3 DEF Never
<1>13. (release \in [Rid -> Int])'
  BY DEF BudgetInv
<1> QED BY <1>2, <1>10, <1>11, <1>12, <1>13 DEF BudgetInv

-----------------------------------------------------------------------------
(* budget_enforcement of a job that was just activated changes nothing: no *)
(* hypertask has preempted it yet.                                         *)
LEMMA NothingToEnforce ==
  ASSUME LogOK, now \in Int, NEW b \in Dispatchers, NEW r \in Rid,
         b.job[r].activation = now
  PROVE  BudgetEnforcement(b, r, FALSE) = b
<1>1. PreemptionTime(r, b.job[r].activation) = 0 /\ b.job[r] \in Job
  BY PreemptionTimeIs DEF Dispatchers
<1>2. ~ (b.job[r].preemption < PreemptionTime(r, b.job[r].activation))
  BY <1>1 DEF Job
<1>3. BudgetEnforcement(b, r, FALSE) = [b EXCEPT !.job[r] = b.job[r]]
  BY <1>2 DEF BudgetEnforcement
<1>4. [b EXCEPT !.job[r] = b.job[r]] = b
  BY DEF Dispatchers
<1> QED BY <1>3, <1>4

(* A job that overran its period, without its timer and with new counters. *)
LEMMA OverrunIs ==
  ASSUME Sane, BudgetInv, stack = <<>>, NEW r \in Rid, r \in ToSet(ready),
         NEW j \in Job, j.activation = now, j.preemption = 0, j.current = job[r].current,
         j.start = job[r].start, ~ j.stop,
         NEW e \in Dispatchers, e.ready = ready, e.stack = <<>>,
         e.timer = [timer EXCEPT ![r] = Never], e.job = [job EXCEPT ![r] = j]
  PROVE  Counting(e, held) /\ (~ IsHead(e, r) => HeadTimed(e))
<1>1. /\ State.ready = ready /\ State.job = job /\ State.timer = timer
      /\ State.stack = stack /\ job \in [Rid -> Job] /\ timer \in [Rid -> Int]
      /\ held \in [Rid -> 0 .. now] /\ now \in 0 .. HORIZON /\ now \in Int
  BY Unfolded
<1>2. LogOK /\ Counting(State, held) /\ HeadTimed(State) /\ Base(State, held)
  BY DEF BudgetInv, Counting
<1>3. /\ e.job[r] = j /\ e.timer[r] = Never
      /\ \A q \in Rid : q # r => e.job[q] = job[q] /\ e.timer[q] = timer[q]
  BY <1>1
<1>4. \A q : IsHead(e, q) <=> IsHead(State, q)
  BY <1>1 DEF IsHead
<1>5. PreemptionTime(r, now) = 0 /\ held[r] \in 0 .. now
  BY <1>1, <1>2, PreemptionTimeIs
<1>6. \A q \in Rid : <<q>> # <<>>
  OBVIOUS
<1>7. ASSUME NEW q \in Rid
      PROVE  /\ e.job[q].preemption <= held[q] \/ held[q] >= Budget[q]
             /\ e.job[q].preemption <= PreemptionTime(q, e.job[q].activation)
             /\ e.job[q].stop <=> e.stack = <<q>>
             /\ e.job[q].stop => q \in ToSet(e.ready) /\ held[q] >= Budget[q]
  <2>1. CASE q = r
    BY <2>1, <1>3, <1>5, <1>6
  <2>2. CASE q # r
    BY <2>2, <1>1, <1>2, <1>3 DEF Base
  <2> QED BY <2>1, <2>2
<1>8. Base(e, held)
  BY <1>1, <1>2, <1>7 DEF Base
<1>9. ASSUME NEW q \in Rid
      PROVE  /\ held[q] = e.job[q].current + (IF IsHead(e, q) THEN now - e.job[q].start ELSE 0)
             /\ TimerOK(e, q)
  <2>1. held[q] = job[q].current + (IF IsHead(State, q) THEN now - job[q].start ELSE 0)
    BY <1>1, <1>2 DEF Counting
  <2>2. CASE q = r
    BY <2>1, <2>2, <1>3, <1>4 DEF TimerOK
  <2>3. CASE q # r
    <3>1. TimerOK(State, q)
      BY <1>2 DEF Counting
    <3> QED BY <2>1, <2>3, <3>1, <1>1, <1>3, <1>4 DEF TimerOK
  <2> QED BY <2>2, <2>3
<1>10. ASSUME ~ IsHead(e, r), NEW q \in Rid, IsHead(e, q)
       PROVE  e.timer[q] # Never
  <2>1. q # r /\ IsHead(State, q) /\ State.stack # <<q>>
    BY <1>1, <1>4, <1>6, <1>10
  <2> QED BY <2>1, <1>1, <1>2, <1>3 DEF HeadTimed
<1> QED BY <1>8, <1>9, <1>10 DEF Counting, HeadTimed

LEMMA PeriodTimerKeeps ==
  ASSUME Sane, BudgetInv, NEW r \in Rid, PeriodTimer(r)
  PROVE  BudgetInv'
<1> DEFINE j == [job[r] EXCEPT !.activation = now, !.preemption = 0, !.started = @ + 1]
           b == [State EXCEPT !.job[r] = j]
           e == [b EXCEPT !.timer[r] = Never]
           d == Stop(BudgetEnforcement(e, r, FALSE), r)
           c == [d EXCEPT !.job[r].started = @ - 1]
           b1 == IF j.started > 1 THEN c ELSE b
           b2 == [b1 EXCEPT !.job[r] = [b1.job[r] EXCEPT !.current = 0, !.enforced = FALSE]]
<1>1. /\ State \in Dispatchers /\ State.ready = ready /\ State.job = job
      /\ State.timer = timer /\ State.stack = stack /\ now \in Int /\ job \in [Rid -> Job]
      /\ timer \in [Rid -> Int] /\ LogOK /\ Counting(State, held)
  BY Unfolded DEF BudgetInv
<1>2. /\ stack = <<>> /\ release[r] = now /\ Becomes(Start(b2, r))
      /\ release' = [release EXCEPT ![r] = now + Period[r]]
      /\ held' = [held EXCEPT ![r] = 0] /\ UNCHANGED <<now, log>>
  BY DEF PeriodTimer
<1>3. /\ job[r].started = (IF r \in ToSet(ready) THEN 1 ELSE 0) /\ ~ job[r].stop
      /\ job[r].stop \in BOOLEAN
  <2>1. <<r>> # <<>>
    OBVIOUS
  <2> QED BY <1>1, <1>2, <2>1, Unfolded DEF BudgetInv, Job
<1>4. /\ j \in Job /\ j.activation = now /\ j.preemption = 0
      /\ j.current = job[r].current /\ j.start = job[r].start /\ ~ j.stop
      /\ j.started = (IF r \in ToSet(ready) THEN 2 ELSE 1)
  <2> DEFINE nil == 0
             n == job[r].started + 1
  <2>1. job[r] \in Job /\ n \in Int /\ nil \in Nat /\ nil = 0
        /\ n = (IF r \in ToSet(ready) THEN 2 ELSE 1)
    BY <1>1, <1>3
  <2>2. j = [job[r] EXCEPT !.activation = now, !.preemption = nil, !.started = n]
    OBVIOUS
  <2> HIDE DEF j, n, nil
  <2>3. /\ j \in Job /\ j.activation = now /\ j.preemption = nil /\ j.started = n
        /\ j.current = job[r].current /\ j.start = job[r].start /\ j.stop = job[r].stop
    BY <1>1, <2>1, <2>2 DEF Job
  <2> QED BY <1>3, <2>1, <2>3
<1> HIDE DEF j
<1>5. /\ b \in Dispatchers /\ b.ready = ready /\ b.stack = <<>> /\ b.timer = timer
      /\ b.job = [job EXCEPT ![r] = j] /\ b.job[r] = j
  <2>1. b = [State EXCEPT !.job = [@ EXCEPT ![r] = j]]
    OBVIOUS
  <2> HIDE DEF b, e, d, c, b1, b2
  <2>2. /\ b \in Dispatchers /\ b.ready = State.ready /\ b.stack = State.stack
        /\ b.timer = State.timer /\ b.job = [State.job EXCEPT ![r] = j] /\ b.job[r] = j
    BY <1>1, <1>4, <2>1, JobUpdated
  <2> QED BY <1>1, <1>2, <2>2
<1>6. CASE r \notin ToSet(ready)
  <2> DEFINE k == [j EXCEPT !.current = 0, !.enforced = FALSE]
             x == [State EXCEPT !.job = [@ EXCEPT ![r] = k]]
  <2>1. b1 = b /\ b.job[r] = j
    BY <1>4, <1>5, <1>6
  <2>2. b2 = x
    <3>1. b2 = [b EXCEPT !.job = [@ EXCEPT ![r] = k]]
      BY <2>1
    <3>2. b = [State EXCEPT !.job = [@ EXCEPT ![r] = j]]
      OBVIOUS
    <3> HIDE DEF b, e, d, c, b1, b2, k
    <3> QED BY <1>1, <3>1, <3>2 DEF Dispatchers
  <2>3. /\ k \in Job /\ k.preemption = 0 /\ k.current = 0 /\ ~ k.stop /\ k.started = 1
        /\ ~ k.enforced /\ k.activation = now
    <3> DEFINE nil == 0
               no == FALSE
    <3>1. /\ nil \in Nat /\ nil = 0 /\ no \in BOOLEAN /\ ~ no
          /\ k = [j EXCEPT !.current = nil, !.enforced = no]
      OBVIOUS
    <3> HIDE DEF k, nil, no
    <3>2. /\ k \in Job /\ k.preemption = j.preemption /\ k.current = nil /\ k.stop = j.stop
          /\ k.started = j.started /\ k.enforced = no /\ k.activation = j.activation
      BY <1>4, <3>1 DEF Job
    <3> QED BY <1>4, <1>6, <3>1, <3>2
  <2> HIDE DEF k
  <2>4. /\ x \in Dispatchers /\ x.ready = State.ready /\ x.stack = State.stack
        /\ x.timer = State.timer /\ x.job = [State.job EXCEPT ![r] = k]
    BY <1>1, <2>3, JobUpdated
  <2> HIDE DEF x, b, b1, b2
  <2>5. Becomes(Start(x, r))
    BY <1>2, <2>2
  <2>6. ToSet(State.ready) = ToSet(ready) \ {r} /\ r \notin ToSet(State.ready)
        /\ State.stack = <<>>
    BY <1>1, <1>2, <1>6
  <2> QED BY <1>1, <1>2, <2>3, <2>4, <2>5, <2>6, Renewed
<1>7. CASE r \in ToSet(ready)
  <2>1. b1 = c
    BY <1>4, <1>7
  <2>2. /\ e \in Dispatchers /\ e.ready = ready /\ e.stack = <<>>
        /\ e.timer = [timer EXCEPT ![r] = Never] /\ e.job = [job EXCEPT ![r] = j]
    <3> HIDE DEF b
    <3>1. e = [b EXCEPT !.timer = [@ EXCEPT ![r] = Never]]
      OBVIOUS
    <3>2. [timer EXCEPT ![r] = Never] \in [Rid -> Int]
      BY <1>1 DEF Never
    <3> HIDE DEF e
    <3> QED BY <1>5, <3>1, <3>2 DEF Dispatchers
  <2> HIDE DEF b, e
  <2>3. e.job[r] = j /\ \A q \in Rid : q # r => e.job[q] = job[q]
    BY <1>1, <2>2
  <2>4. d = Stop(e, r)
    BY <1>1, <1>4, <2>2, <2>3, NothingToEnforce
  <2> HIDE DEF d
  <2>5. Counting(e, held) /\ (~ IsHead(e, r) => HeadTimed(e))
    BY <1>2, <1>4, <1>7, <2>2, OverrunIs
  <2>6. /\ Counting(d, held) /\ HeadTimed(d) /\ SameTimes(e, d)
        /\ ToSet(d.ready) = ToSet(ready) \ {r}
        /\ d.stack = <<>> \/ \A x \in ToSet(d.ready) : <<r, x>> \in ByPrio
    BY <1>1, <2>2, <2>4, <2>5, StopIs
  <2>7. /\ d \in Dispatchers /\ d.job \in [Rid -> Job] /\ r \notin ToSet(d.ready)
        /\ ~ d.job[r].stop
    BY <2>6 DEF Counting, Base, Dispatchers
  <2>8. /\ d.job[r].started = 2 /\ d.job[r].activation = now /\ d.job[r].preemption = 0
        /\ \A q \in Rid : q # r => /\ d.job[q].activation = job[q].activation
                                   /\ d.job[q].started = job[q].started
                                   /\ d.job[q].enforced = job[q].enforced
    <3>1. ~ IsHead(d, r)
      BY <2>7, TailIs DEF IsHead, Dispatchers
    <3> QED BY <1>4, <1>7, <2>3, <2>6, <3>1 DEF SameTimes
  <2> DEFINE i == [d.job[r] EXCEPT !.started = @ - 1]
             k == [i EXCEPT !.current = 0, !.enforced = FALSE]
             x == [d EXCEPT !.job = [@ EXCEPT ![r] = k]]
  <2>9. b2 = x
    <3>1. c = [d EXCEPT !.job = [@ EXCEPT ![r] = i]]
      OBVIOUS
    <3> HIDE DEF i
    <3>2. c.job[r] = i
      BY <2>7, <3>1 DEF Dispatchers
    <3> HIDE DEF c
    <3>3. b2 = [c EXCEPT !.job = [@ EXCEPT ![r] = k]]
      BY <2>1, <3>2
    <3> HIDE DEF k, b1, b2
    <3> QED BY <2>7, <3>1, <3>3 DEF Dispatchers
  <2>10. /\ k \in Job /\ k.preemption = 0 /\ k.current = 0 /\ ~ k.stop /\ k.started = 1
         /\ ~ k.enforced /\ k.activation = now
    <3> DEFINE nil == 0
               no == FALSE
               n == d.job[r].started - 1
    <3>1. /\ nil \in Nat /\ nil = 0 /\ no \in BOOLEAN /\ ~ no
          /\ k = [i EXCEPT !.current = nil, !.enforced = no]
          /\ i = [d.job[r] EXCEPT !.started = n]
      OBVIOUS
    <3>2. n = 1 /\ n \in Int /\ d.job[r] \in Job
      BY <2>7, <2>8
    <3> HIDE DEF i, k, nil, no, n
    <3>3. /\ i \in Job /\ i.preemption = d.job[r].preemption /\ i.stop = d.job[r].stop
          /\ i.started = n /\ i.activation = d.job[r].activation
      BY <3>1, <3>2 DEF Job
    <3>4. /\ k \in Job /\ k.preemption = i.preemption /\ k.current = nil /\ k.stop = i.stop
          /\ k.started = i.started /\ k.enforced = no /\ k.activation = i.activation
      BY <3>1, <3>3 DEF Job
    <3> QED BY <2>7, <2>8, <3>1, <3>2, <3>3, <3>4
  <2> HIDE DEF i, k
  <2>11. /\ x \in Dispatchers /\ x.ready = d.ready /\ x.stack = d.stack
         /\ x.timer = d.timer /\ x.job = [d.job EXCEPT ![r] = k]
    BY <2>7, <2>10, JobUpdated
  <2> HIDE DEF x, b1, b2
  <2>12. Becomes(Start(x, r))
    BY <1>2, <2>9
  <2> QED BY <1>2, <2>6, <2>7, <2>8, <2>10, <2>11, <2>12, Renewed
<1> QED BY <1>6, <1>7

-----------------------------------------------------------------------------
LEMMA Steps == Sane /\ BudgetInv /\ [Next]_vars => BudgetInv'
<1> SUFFICES ASSUME Sane, BudgetInv, [Next]_vars PROVE BudgetInv'
  OBVIOUS
<1>1. ASSUME NEW r \in Rid, Attach(r) PROVE BudgetInv'
  BY <1>1, AttachKeeps
<1>2. ASSUME NEW r \in Rid, PeriodTimer(r) PROVE BudgetInv'
  BY <1>2, PeriodTimerKeeps
<1>3. ASSUME NEW r \in Rid, EnforcementTimer(r) PROVE BudgetInv'
  BY <1>3, EnforcementTimerKeeps
<1>4. ASSUME NEW r \in Rid, WaitForNextPeriod(r) PROVE BudgetInv'
  BY <1>4, WaitForNextPeriodKeeps
<1>5. CASE SchedulerPops
  BY <1>5, SchedulerPopsKeeps
<1>6. ASSUME NEW r \in Rid, HypertaskRuns(r) PROVE BudgetInv'
  <2>1. /\ Settled /\ now < HORIZON /\ now' = now + 1
        /\ UNCHANGED <<ready, job, timer, release, stack>>
        /\ held' = [q \in Rid |-> IF ready # <<>> /\ q = Head(ready)
                                  THEN held[q] + 1 ELSE held[q]]
        /\ \E h \in Rid : log' = log \cup {[rid |-> h, tick |-> now]}
    BY <1>6 DEF HypertaskRuns
  <2> QED BY <2>1, TickKeeps
<1>7. CASE TaskRuns
  <2>1. /\ Settled /\ now < HORIZON /\ now' = now + 1
        /\ UNCHANGED <<ready, job, timer, release, stack>>
        /\ held' = [q \in Rid |-> IF ready # <<>> /\ q = Head(ready)
                                  THEN held[q] + 1 ELSE held[q]]
        /\ log' = log
    BY <1>7 DEF TaskRuns
  <2> QED BY <2>1, TickKeeps
<1>8. CASE UNCHANGED vars
  <2>1. UNCHANGED <<State, now, ready, job, release, log, held>>
    BY <1>8 DEF vars, State
  <2>2. \A q, a : PreemptionTime(q, a)' = PreemptionTime(q, a)
    BY <2>1 DEF PreemptionTime
  <2> QED BY <2>1, <2>2 DEF BudgetInv, Counting, Base, TimerOK, HeadTimed, IsHead,
                            LogOK, Never
<1> QED BY <1>1, <1>2, <1>3, <1>4, <1>5, <1>6, <1>7, <1>8 DEF Next

LEMMA Invariance == Sane => (Spec => []BudgetInv)
<1> SUFFICES ASSUME Sane PROVE Spec => []BudgetInv
  OBVIOUS
<1>1. Init => BudgetInv
  BY Initially
<1>2. BudgetInv /\ [Next]_vars => BudgetInv'
  BY Steps
<1> QED BY <1>1, <1>2, PTL DEF Spec

(* zsrm1: every tick the processor belonged to a reserve is charged to it. *)
THEOREM EveryTickIsCharged == Sane => (Spec => []EveryTickCharged)
<1> SUFFICES ASSUME Sane PROVE Spec => []EveryTickCharged
  OBVIOUS
<1>1. BudgetInv => EveryTickCharged
  <2> SUFFICES ASSUME BudgetInv, NEW q \in Rid
               PROVE  held[q] = Word(job[q].current
                                     + (IF Running(q) THEN now - job[q].start ELSE 0))
    BY DEF EveryTickCharged
  <2>1. Running(q) <=> IsHead(State, q)
    BY Unfolded DEF Running, IsHead
  <2>2. held[q] = job[q].current + (IF Running(q) THEN now - job[q].start ELSE 0)
    BY <2>1, Unfolded DEF BudgetInv, Counting
  <2>3. held[q] \in 0 .. HORIZON
    BY Unfolded
  <2> QED BY <2>2, <2>3, WordIs
<1> QED BY <1>1, Invariance, PTL

(* A job keeps the processor for its budget and what hypertasks took.      *)
THEOREM HeldIsWithinBudget == Sane => (Spec => []HeldWithinBudget)
<1> SUFFICES ASSUME Sane PROVE Spec => []HeldWithinBudget
  OBVIOUS
<1>1. BudgetInv => HeldWithinBudget
  BY DEF BudgetInv, HeldWithinBudget
<1> QED BY <1>1, Invariance, PTL

(* Enforcement asks no job to stop that has not had its budget.            *)
THEOREM BudgetIsGranted == Sane => (Spec => []BudgetGranted)
<1> SUFFICES ASSUME Sane PROVE Spec => []BudgetGranted
  OBVIOUS
<1>1. BudgetInv => BudgetGranted
  BY Unfolded DEF BudgetGranted
<1> QED BY <1>1, Invariance, PTL

=============================================================================
