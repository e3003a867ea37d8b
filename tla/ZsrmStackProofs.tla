-------------------------- MODULE ZsrmStackProofs --------------------------
(***************************************************************************)
(* What holds of reschedule_stack and of the criticality stack for every   *)
(* number of reserves and every set of parameters: while the stack has     *)
(* room no request to stop a job is forgotten and no reserve is left       *)
(* without its period timer or the scheduler thread's attention; all       *)
(* variables keep their types; and, if no reserve leaves, sys_criticality  *)
(* is that of the top of the criticality stack.                            *)
(***************************************************************************)
EXTENDS ZsrmSchedulerProofs

SchedStates == {"asleep", "runnable", "running", "leaving"}

(* A dispatcher with the reserves A in its queue and on its stack. *)
StackOK(d, A) ==
  /\ IsDispatcher(d)
  /\ d.ready \in Seq(A) /\ d.stack \in Seq(A)
  /\ Len(d.stack) <= STACK_SIZE
  /\ d.sched \in SchedStates

(* e has what d has on its stack and more; while there is room, a rid for  *)
(* each new request to stop a job is among what was pushed.                *)
Pushes(d, e) ==
  /\ Len(d.stack) <= Len(e.stack)
  /\ \A i \in 1 .. Len(d.stack) : e.stack[i] = d.stack[i]
  /\ Len(e.stack) < STACK_SIZE =>
       \A x \in e.stop \ d.stop :
         \E i \in Len(d.stack) + 1 .. Len(e.stack) : e.stack[i] = x

Reaches(d, e, A) == StackOK(e, A) /\ Pushes(d, e)

-----------------------------------------------------------------------------
(* The dispatcher's functions, seen from the stack.                        *)

(* One function after the other.                                           *)
LEMMA ReachesThrough ==
  ASSUME NEW A, NEW d, NEW e, NEW f, StackOK(d, A), Reaches(d, e, A), Reaches(e, f, A)
  PROVE  Reaches(d, f, A)
<1> DEFINE m == Len(d.stack)
           n == Len(e.stack)
           k == Len(f.stack)
<1>1. m \in Nat /\ n \in Nat /\ k \in Nat /\ m <= n /\ n <= k /\ STACK_SIZE \in Nat
  BY StackSizeAssumption DEF StackOK, Reaches, Pushes
<1>2. /\ \A i \in 1 .. m : e.stack[i] = d.stack[i]
      /\ \A i \in 1 .. n : f.stack[i] = e.stack[i]
      /\ n < STACK_SIZE => \A x \in e.stop \ d.stop : \E i \in m + 1 .. n : e.stack[i] = x
      /\ k < STACK_SIZE => \A x \in f.stop \ e.stop : \E i \in n + 1 .. k : f.stack[i] = x
      /\ StackOK(f, A)
  BY DEF Reaches, Pushes
<1> HIDE DEF m, n, k
<1>3. \A i \in 1 .. m : f.stack[i] = d.stack[i]
  BY <1>1, <1>2
<1>4. ASSUME k < STACK_SIZE, NEW x \in f.stop \ d.stop
      PROVE  \E i \in m + 1 .. k : f.stack[i] = x
  <2>1. CASE x \in e.stop
    <3>1. n < STACK_SIZE
      BY <1>1, <1>4
    <3>2. PICK i \in m + 1 .. n : e.stack[i] = x
      BY <1>2, <2>1, <3>1
    <3>3. i \in 1 .. n /\ i \in m + 1 .. k
      BY <1>1
    <3> QED  BY <1>2, <3>2, <3>3
  <2>2. CASE x \notin e.stop
    <3>1. PICK i \in n + 1 .. k : f.stack[i] = x
      BY <1>2, <1>4, <2>2
    <3>2. i \in m + 1 .. k
      BY <1>1
    <3> QED  BY <3>1, <3>2
  <2> QED  BY <2>1, <2>2
<1>5. m <= k
  BY <1>1
<1> QED  BY <1>2, <1>3, <1>4, <1>5 DEF Reaches, Pushes, m, k

(* Nothing is pushed. *)
Quiet(d, e) ==
  /\ IsDispatcher(e) /\ e.stack = d.stack /\ e.sched = d.sched /\ e.stop \subseteq d.stop

LEMMA QuietReaches ==
  ASSUME NEW A, NEW d, NEW e, StackOK(d, A), Quiet(d, e), e.ready \in Seq(A)
  PROVE  Reaches(d, e, A)
<1>1. Len(d.stack) \in Nat
  BY DEF StackOK
<1> QED  BY <1>1 DEF StackOK, Quiet, Reaches, Pushes

LEMMA QuietFields ==
  ASSUME NEW d, IsDispatcher(d), NEW x
  PROVE  /\ Quiet(d, [d EXCEPT !.enf = x]) /\ [d EXCEPT !.enf = x].ready = d.ready
         /\ Quiet(d, [d EXCEPT !.zs = x]) /\ [d EXCEPT !.zs = x].ready = d.ready
         /\ Quiet(d, [d EXCEPT !.spent = x]) /\ [d EXCEPT !.spent = x].ready = d.ready
         /\ Quiet(d, [d EXCEPT !.ready = x]) /\ [d EXCEPT !.ready = x].ready = x
         /\ x \subseteq d.stop =>
              Quiet(d, [d EXCEPT !.stop = x]) /\ [d EXCEPT !.stop = x].ready = d.ready
BY DEF IsDispatcher, Quiet

LEMMA QuietThrough ==
  ASSUME NEW d, NEW e, NEW f, Quiet(d, e), Quiet(e, f)
  PROVE  Quiet(d, f)
BY DEF Quiet

(* Only the stop flags change. *)
StopsChange(d, e, stop) == e = [d EXCEPT !.stop = stop]

(* push_to_reschedule and wake_up_process. *)
LEMMA PushReaches ==
  ASSUME NEW A, NEW d, StackOK(d, A), NEW r \in A, NEW stop, stop \subseteq d.stop \cup {r},
         NEW d1, StopsChange(d, d1, stop)
  PROVE  /\ Reaches(d, WakeScheduler(Push(d1, r)), A)
         /\ Len(WakeScheduler(Push(d1, r)).stack) < STACK_SIZE =>
              r \in ToSet(WakeScheduler(Push(d1, r)).stack)
         /\ WakeScheduler(Push(d1, r)).ready = d.ready
         /\ WakeScheduler(Push(d1, r)).stop = stop
<1> DEFINE s == IF Len(d.stack) < STACK_SIZE THEN Append(d.stack, r) ELSE d.stack
           c == IF d.sched = "asleep" THEN "runnable" ELSE d.sched
           e == WakeScheduler(Push(d1, r))
<1>1. d1 = [ready |-> d.ready, enf |-> d.enf, zs |-> d.zs, spent |-> d.spent,
            stop |-> stop, stack |-> d.stack, sched |-> d.sched]
  BY DEF StackOK, IsDispatcher, StopsChange
<1>p. Push(d1, r) = [ready |-> d.ready, enf |-> d.enf, zs |-> d.zs, spent |-> d.spent,
                     stop |-> stop, stack |-> s, sched |-> d.sched]
  <2>1. d1.stack = d.stack
    BY <1>1
  <2>2. CASE Len(d.stack) < STACK_SIZE
    BY <1>1, <2>1, <2>2 DEF Push
  <2>3. CASE ~ (Len(d.stack) < STACK_SIZE)
    BY <1>1, <2>1, <2>3 DEF Push
  <2> QED  BY <2>2, <2>3
<1> HIDE DEF s
<1>2. e = [ready |-> d.ready, enf |-> d.enf, zs |-> d.zs, spent |-> d.spent,
           stop |-> stop, stack |-> s, sched |-> c]
  <2>1. Push(d1, r).sched = d.sched
    BY <1>p
  <2>2. e = [Push(d1, r) EXCEPT !.sched = c]
    BY <2>1 DEF WakeScheduler
  <2> HIDE DEF c, e
  <2> QED  BY <1>p, <2>2
<1>3. Len(d.stack) \in Nat /\ STACK_SIZE \in Nat /\ d.stack \in Seq(A)
      /\ Len(d.stack) <= STACK_SIZE /\ d.sched \in SchedStates
  BY StackSizeAssumption DEF StackOK
<1>4. Append(d.stack, r) \in Seq(A) /\ Len(Append(d.stack, r)) = Len(d.stack) + 1
      /\ Append(d.stack, r)[Len(d.stack) + 1] = r
      /\ \A i \in 1 .. Len(d.stack) : Append(d.stack, r)[i] = d.stack[i]
  BY <1>3
<1>5. /\ s \in Seq(A) /\ Len(s) <= STACK_SIZE /\ Len(d.stack) <= Len(s)
      /\ \A i \in 1 .. Len(d.stack) : s[i] = d.stack[i]
      /\ Len(s) < STACK_SIZE => Len(s) = Len(d.stack) + 1 /\ s[Len(d.stack) + 1] = r
  BY <1>3, <1>4 DEF s
<1>6. c \in SchedStates
  BY <1>3 DEF SchedStates
<1> HIDE DEF s, c, e
<1>7. /\ e.stack = s /\ e.sched = c /\ e.ready = d.ready /\ e.stop = stop
      /\ IsDispatcher(e)
  BY <1>2 DEF IsDispatcher
<1>8. StackOK(e, A)
  BY <1>5, <1>6, <1>7 DEF StackOK
<1>9. Pushes(d, e)
  BY <1>3, <1>5, <1>7 DEF Pushes
<1>10. Len(s) < STACK_SIZE => r \in ToSet(s)
  <2> SUFFICES ASSUME Len(s) < STACK_SIZE  PROVE r \in ToSet(s)
    OBVIOUS
  <2>1. Len(d.stack) + 1 \in 1 .. Len(s) /\ s[Len(d.stack) + 1] = r
    BY <1>3, <1>5
  <2> QED  BY <1>5, <2>1, ToSetIs
<1> QED  BY <1>7, <1>8, <1>9, <1>10 DEF e, Reaches

(* budget_enforcement. *)
LEMMA RequestStopReaches ==
  ASSUME NEW A, NEW d, StackOK(d, A), NEW r \in A, NEW defer
  PROVE  /\ Reaches(d, RequestStop(d, r, defer), A)
         /\ RequestStop(d, r, defer).ready = d.ready
<1>0. IsDispatcher(d) /\ d.ready \in Seq(A)
  BY DEF StackOK
<1>1. CASE r \in defer
  <2> DEFINE x == d.enf \cup {r}
             y == d.spent \ {r}
             d1 == [d EXCEPT !.enf = x]
             e == [d1 EXCEPT !.spent = y]
  <2>1. RequestStop(d, r, defer) = e
    BY <1>1 DEF RequestStop, BudgetEnforcement
  <2> HIDE DEF x, y
  <2>2. Quiet(d, d1) /\ d1.ready = d.ready
    BY <1>0, QuietFields
  <2> HIDE DEF d1
  <2>3. Quiet(d1, e) /\ e.ready = d1.ready
    BY <2>2, QuietFields DEF Quiet
  <2> HIDE DEF e
  <2>4. Quiet(d, e) /\ e.ready = d.ready
    BY <2>2, <2>3, QuietThrough
  <2> QED  BY <1>0, <2>1, <2>4, QuietReaches
<1>2. CASE r \notin defer
  <2> DEFINE x == d.zs \ {r}
             d1 == [d EXCEPT !.zs = x]
             d2 == [d1 EXCEPT !.stop = d.stop \cup {r}]
             e == WakeScheduler(Push(d2, r))
  <2>1. RequestStop(d, r, defer) = e
    BY <1>2 DEF RequestStop, BudgetEnforcement
  <2> HIDE DEF x
  <2>2. Quiet(d, d1) /\ d1.ready = d.ready /\ d1.stop = d.stop
    BY <1>0, QuietFields DEF IsDispatcher
  <2> HIDE DEF d1
  <2>3. Reaches(d, d1, A)
    BY <1>0, <2>2, QuietReaches
  <2>4. Reaches(d1, e, A) /\ e.ready = d1.ready
    <3> DEFINE y == d.stop \cup {r}
    <3>1. StackOK(d1, A)
      BY <2>3 DEF Reaches
    <3>2. y \subseteq d1.stop \cup {r} /\ StopsChange(d1, d2, y)
      BY <2>2 DEF StopsChange
    <3> HIDE DEF d2, y
    <3> QED  BY <3>1, <3>2, PushReaches
  <2> HIDE DEF d2, e
  <2> QED  BY <2>1, <2>2, <2>3, <2>4, ReachesThrough
<1> QED  BY <1>1, <1>2

LEMMA SkipStopReaches ==
  ASSUME NEW A, NEW d, StackOK(d, A), NEW r
  PROVE  Reaches(d, SkipStop(d, r), A)
<1> DEFINE x == d.zs \ {r}
<1>1. SkipStop(d, r) = [d EXCEPT !.zs = x]
  BY DEF SkipStop, BudgetEnforcement
<1>2. IsDispatcher(d) /\ d.ready \in Seq(A)
  BY DEF StackOK
<1> HIDE DEF x
<1> QED  BY <1>1, <1>2, QuietFields, QuietReaches

(* start_enforcement_timer of the job at the head. *)
LEMMA RunHeadReaches ==
  ASSUME NEW A, NEW d, StackOK(d, A), NEW defer
  PROVE  Reaches(d, RunHead(d, defer), A) /\ RunHead(d, defer).ready = d.ready
<1>0. IsDispatcher(d) /\ d.ready \in Seq(A)
  BY DEF StackOK
<1>1. CASE d.ready = <<>>
  <2>1. Quiet(d, d)
    BY <1>0 DEF Quiet
  <2> QED  BY <1>0, <1>1, <2>1, QuietReaches DEF RunHead
<1>2. CASE d.ready # <<>>
  <2> DEFINE h == Head(d.ready)
             x == d.enf \cup {h}
  <2>1. h \in A
    BY <1>0, <1>2
  <2>2. CASE h \in d.spent
    <3>1. RunHead(d, defer) = RequestStop(d, h, defer)
      BY <1>2, <2>2 DEF RunHead, RequestStop
    <3> HIDE DEF h
    <3> QED  BY <2>1, <3>1, RequestStopReaches
  <2>3. CASE h \notin d.spent
    <3>1. RunHead(d, defer) = [d EXCEPT !.enf = x]
      BY <1>2, <2>3 DEF RunHead
    <3> HIDE DEF x
    <3> DEFINE e == [d EXCEPT !.enf = x]
    <3>2. Quiet(d, e) /\ e.ready = d.ready
      BY <1>0, QuietFields
    <3> HIDE DEF e
    <3>3. Reaches(d, e, A)
      BY <1>0, <3>2, QuietReaches
    <3> QED  BY <3>1, <3>2, <3>3 DEF e
  <2> QED  BY <2>2, <2>3
<1> QED  BY <1>1, <1>2

LEMMA SuspendQuiet ==
  ASSUME NEW A, NEW d, StackOK(d, A), NEW late
  PROVE  Quiet(d, Suspend(d, late)) /\ Suspend(d, late).ready = d.ready
<1> DEFINE x == d.enf \ {Head(d.ready)}
           y == d.spent \cup ({Head(d.ready)} \cap late)
           d1 == [d EXCEPT !.enf = x]
           e == [d1 EXCEPT !.spent = y]
<1>1. Suspend(d, late) = e
  BY DEF Suspend
<1> HIDE DEF x, y
<1>2. Quiet(d, d1) /\ d1.ready = d.ready
  BY QuietFields DEF StackOK
<1> HIDE DEF d1
<1>3. Quiet(d1, e) /\ e.ready = d1.ready
  BY <1>2, QuietFields DEF Quiet
<1> HIDE DEF e
<1> QED  BY <1>1, <1>2, <1>3, QuietThrough

(* The queue is changed and its head started. *)
LEMMA RequeueReaches ==
  ASSUME NEW A, NEW d, NEW d1, StackOK(d, A), Quiet(d, d1), NEW q \in Seq(A), NEW defer
  PROVE  Reaches(d, RunHead([d1 EXCEPT !.ready = q], defer), A)
<1> DEFINE e == [d1 EXCEPT !.ready = q]
<1>0. IsDispatcher(d1)
  BY DEF Quiet
<1>1. Quiet(d1, e) /\ e.ready = q
  BY <1>0, QuietFields
<1> HIDE DEF e
<1>2. Reaches(d, e, A)
  BY <1>1, QuietThrough, QuietReaches
<1>3. Reaches(e, RunHead(e, defer), A)
  BY <1>2, RunHeadReaches DEF Reaches
<1>4. Reaches(d, RunHead(e, defer), A)
  BY <1>2, <1>3, ReachesThrough
<1> QED  BY <1>4 DEF e

(* start, stop and delete_reserve. *)
LEMMA StartReaches ==
  ASSUME NEW A, A \subseteq Rid, NEW d, StackOK(d, A), NEW r \in A, NEW pr, NEW late, NEW defer
  PROVE  Reaches(d, Start(d, r, pr, late, defer), A)
<1>0. IsDispatcher(d) /\ d.ready \in Seq(A) /\ Quiet(d, d)
  BY DEF StackOK, Quiet
<1>1. CASE r \in ToSet(d.ready)
  BY <1>0, <1>1, QuietReaches DEF Start
<1>2. CASE r \notin ToSet(d.ready) /\ d.ready = <<>>
  <2> DEFINE q == <<r>>
  <2>1. q \in Seq(A)
    OBVIOUS
  <2>2. Start(d, r, pr, late, defer) = RunHead([d EXCEPT !.ready = q], defer)
    BY <1>2 DEF Start
  <2> HIDE DEF q
  <2> QED  BY <1>0, <2>1, <2>2, RequeueReaches
<1>3. CASE r \notin ToSet(d.ready) /\ d.ready # <<>>
  <2> DEFINE d1 == Suspend(d, late)
             q == AddReadyq(d.ready, r, pr)
  <2>1. Quiet(d, d1) /\ d1.ready = d.ready
    BY SuspendQuiet
  <2>2. q \in Seq(A)
    BY <1>0, InsertBeforeIs DEF AddReadyq
  <2>3. Start(d, r, pr, late, defer) = RunHead([d1 EXCEPT !.ready = q], defer)
    BY <1>3, <2>1 DEF Start
  <2> HIDE DEF d1, q
  <2> QED  BY <2>1, <2>2, <2>3, RequeueReaches
<1> QED  BY <1>1, <1>2, <1>3

LEMMA StopReaches ==
  ASSUME NEW A, NEW d, StackOK(d, A), NEW r, NEW late, NEW defer
  PROVE  Reaches(d, Stop(d, r, late, defer), A)
<1>0. IsDispatcher(d) /\ d.ready \in Seq(A) /\ Quiet(d, d)
  BY DEF StackOK, Quiet
<1>1. CASE r \notin ToSet(d.ready)
  BY <1>0, <1>1, QuietReaches DEF Stop
<1>2. CASE r \in ToSet(d.ready) /\ r = Head(d.ready)
  <2> DEFINE d1 == Suspend(d, late)
             q == Tail(d.ready)
  <2>1. Quiet(d, d1) /\ d1.ready = d.ready
    BY SuspendQuiet
  <2>2. q \in Seq(A)
    <3>1. d.ready # <<>>
      BY <1>2 DEF ToSet
    <3> QED  BY <1>0, <3>1, TailIs
  <2>3. Stop(d, r, late, defer) = RunHead([d1 EXCEPT !.ready = q], defer)
    BY <1>2, <2>1 DEF Stop
  <2> HIDE DEF d1, q
  <2> QED  BY <2>1, <2>2, <2>3, RequeueReaches
<1>3. CASE r \in ToSet(d.ready) /\ r # Head(d.ready)
  <2> DEFINE q == Unlink(d.ready, r)
             e == [d EXCEPT !.ready = q]
  <2>1. q \in Seq(A) /\ Stop(d, r, late, defer) = e
    BY <1>0, <1>3, UnlinkIs DEF Stop
  <2> HIDE DEF q
  <2>2. Quiet(d, e) /\ e.ready = q
    BY <1>0, QuietFields
  <2> HIDE DEF e
  <2> QED  BY <2>1, <2>2, QuietReaches
<1> QED  BY <1>1, <1>2, <1>3

LEMMA ForgetReaches ==
  ASSUME NEW A, NEW d, StackOK(d, A), NEW r, NEW live, NEW late, NEW defer
  PROVE  Reaches(d, Forget(d, r, live, late, defer), A)
<1> DEFINE q == Unlink(d.ready, r)
           unlinked == [d EXCEPT !.ready = q]
           restarts == /\ d.ready # <<>> /\ Head(d.ready) = r
                       /\ Len(d.ready) > 1 /\ d.ready[2] \in live
           stopped == IF r \in live THEN Stop(d, r, late, defer)
                      ELSE IF restarts THEN RunHead(unlinked, defer) ELSE unlinked
           x == stopped.enf \ {r}
           y == stopped.zs \ {r}
           d1 == [stopped EXCEPT !.enf = x]
           e == [d1 EXCEPT !.zs = y]
<1>1. Forget(d, r, live, late, defer) = e
  BY DEF Forget
<1>2. IsDispatcher(d) /\ q \in Seq(A)
  BY UnlinkIs DEF StackOK
<1> HIDE DEF q
<1>3. Quiet(d, unlinked) /\ unlinked.ready = q
  BY <1>2, QuietFields
<1> HIDE DEF unlinked
<1>4. Reaches(d, unlinked, A)
  BY <1>2, <1>3, QuietReaches
<1>5. Reaches(d, RunHead(unlinked, defer), A)
  <2>1. Reaches(unlinked, RunHead(unlinked, defer), A)
    BY <1>4, RunHeadReaches DEF Reaches
  <2> QED  BY <1>4, <2>1, ReachesThrough
<1> HIDE DEF restarts
<1>6. Reaches(d, stopped, A)
  BY <1>4, <1>5, StopReaches
<1> HIDE DEF stopped, x, y
<1>7. Quiet(stopped, d1) /\ d1.ready = stopped.ready
  BY <1>6, QuietFields DEF Reaches, StackOK
<1> HIDE DEF d1
<1>8. Quiet(d1, e) /\ e.ready = d1.ready
  BY <1>7, QuietFields DEF Quiet
<1> HIDE DEF e
<1>9. Reaches(stopped, e, A)
  <2>1. Quiet(stopped, e) /\ e.ready = stopped.ready
    BY <1>7, <1>8, QuietThrough
  <2>2. StackOK(stopped, A) /\ stopped.ready \in Seq(A)
    BY <1>6 DEF Reaches, StackOK
  <2> QED  BY <2>1, <2>2, QuietReaches
<1>10. Reaches(d, e, A)
  BY <1>6, <1>9, ReachesThrough
<1> QED  BY <1>1, <1>10

(* zs_enforcement: a stack that has room afterwards has taken every victim. *)
LEMMA StopLessCriticalReaches ==
  ASSUME NEW A, NEW d, StackOK(d, A), NEW r, NEW crit
  PROVE  Reaches(d, StopLessCritical(d, r, crit), A)
<1> DEFINE below == {t \in ToSet(d.ready) : crit[t] < crit[r]}
           victims == LessCritical(d, r, crit)
           pushed == d.stack \o victims
           k == IF Len(pushed) < STACK_SIZE THEN Len(pushed) ELSE STACK_SIZE
           x == d.stop \cup below
           y == SubSeq(pushed, 1, k)
           c == IF d.sched = "asleep" THEN "runnable" ELSE d.sched
           d1 == [d EXCEPT !.stop = x]
           d2 == [d1 EXCEPT !.stack = y]
           e == [d2 EXCEPT !.sched = c]
<1>0. /\ IsDispatcher(d) /\ d.ready \in Seq(A) /\ d.stack \in Seq(A)
      /\ Len(d.stack) <= STACK_SIZE /\ d.sched \in SchedStates
      /\ Len(d.stack) \in Nat /\ STACK_SIZE \in Nat
  BY StackSizeAssumption DEF StackOK
<1>1. victims \in Seq(A) /\ ToSet(victims) = ToSet(d.ready) \cap below
  BY <1>0, AmongIs DEF LessCritical
<1>2. CASE victims = <<>>
  <2>1. Quiet(d, d)
    BY <1>0 DEF Quiet
  <2> QED  BY <1>0, <1>2, <2>1, QuietReaches DEF StopLessCritical
<1>3. CASE victims # <<>>
  <2>1. StopLessCritical(d, r, crit) = WakeScheduler(d2)
    BY <1>3 DEF StopLessCritical
  <2>b. below \subseteq ToSet(victims)
    BY <1>1
  <2> HIDE DEF victims, below
  <2>2. /\ pushed \in Seq(A) /\ Len(pushed) = Len(d.stack) + Len(victims)
        /\ \A i \in 1 .. Len(d.stack) : pushed[i] = d.stack[i]
        /\ \A i \in 1 .. Len(victims) : pushed[Len(d.stack) + i] = victims[i]
        /\ Len(victims) \in Nat
    BY <1>0, <1>1, ConcatIs
  <2> HIDE DEF pushed
  <2>3. k \in Nat /\ k <= Len(pushed) /\ k <= STACK_SIZE /\ Len(d.stack) <= k
        /\ (k < STACK_SIZE => k = Len(pushed))
    BY <1>0, <2>2
  <2> HIDE DEF k
  <2>4. y \in Seq(A) /\ Len(y) = k /\ \A i \in 1 .. k : y[i] = pushed[i]
    <3>1. \A i \in 1 .. k : pushed[i] \in A
      BY <2>2, <2>3
    <3>2. Len(y) = k /\ \A i \in 1 .. k : y[i] = pushed[i]
      BY <2>2, <2>3
    <3>3. y = [i \in 1 .. k |-> pushed[i]]
      BY <2>2, <2>3
    <3> QED  BY <2>3, <3>1, <3>2, <3>3
  <2>5. c \in SchedStates
    BY <1>0 DEF SchedStates
  <2> HIDE DEF x, y, c
  <2>6. d2 = [ready |-> d.ready, enf |-> d.enf, zs |-> d.zs, spent |-> d.spent,
              stop |-> x, stack |-> y, sched |-> d.sched]
    <3>1. d1 = [ready |-> d.ready, enf |-> d.enf, zs |-> d.zs, spent |-> d.spent,
                stop |-> x, stack |-> d.stack, sched |-> d.sched]
      BY <1>0 DEF IsDispatcher
    <3> HIDE DEF d1
    <3> QED  BY <3>1
  <2> HIDE DEF d1, d2
  <2>7. WakeScheduler(d2) = e
    BY <2>6 DEF WakeScheduler, c
  <2>8. /\ IsDispatcher(e) /\ e.ready = d.ready /\ e.stop = x /\ e.stack = y
        /\ e.sched = c
    BY <2>6 DEF IsDispatcher
  <2> HIDE DEF e
  <2>9. StackOK(e, A)
    BY <1>0, <2>3, <2>4, <2>5, <2>8 DEF StackOK
  <2>10. \A i \in 1 .. Len(d.stack) : y[i] = d.stack[i]
    <3>1. \A i \in 1 .. Len(d.stack) : i \in 1 .. k
      BY <1>0, <2>3
    <3> QED  BY <2>2, <2>4, <3>1
  <2>11. ASSUME k < STACK_SIZE, NEW v \in x \ d.stop
         PROVE  \E i \in Len(d.stack) + 1 .. k : y[i] = v
    <3>1. v \in ToSet(victims)
      BY <2>b DEF x
    <3>2. PICK j \in 1 .. Len(victims) : v = victims[j]
      BY <1>1, <3>1, ToSetIs
    <3>3. Len(d.stack) + j \in Len(d.stack) + 1 .. k /\ Len(d.stack) + j \in 1 .. k
      <4>1. k = Len(d.stack) + Len(victims)
        BY <2>2, <2>3, <2>11
      <4>2. Len(d.stack) \in Nat /\ Len(victims) \in Nat
        BY <1>0, <1>1
      <4> QED  BY <3>2, <4>1, <4>2
    <3> QED  BY <2>2, <2>4, <3>2, <3>3
  <2>12. Pushes(d, e)
    BY <2>3, <2>4, <2>8, <2>10, <2>11 DEF Pushes
  <2> QED  BY <2>1, <2>7, <2>9, <2>12 DEF Reaches
<1> QED  BY <1>2, <1>3

(* A handler that finds its task gone pushes the rid. *)
LEMMA TimerOfDeadTaskReaches ==
  ASSUME NEW A, NEW d, StackOK(d, A), NEW r \in A, TimerOfDeadTask(d, r)
  PROVE  /\ Reaches(d, disp', A) /\ disp'.stop \subseteq d.stop
         /\ r \in attached /\ Len(disp'.stack) < STACK_SIZE
              => r \in ToSet(disp'.stack) /\ r \notin disp'.stop
<1>0. IsDispatcher(d) /\ d.ready \in Seq(A) /\ Quiet(d, d)
  BY DEF StackOK, Quiet
<1> DEFINE x == d.stop \ {r}
           d1 == [d EXCEPT !.stop = x]
           e == WakeScheduler(Push(d1, r))
<1>1. \/ disp' = e
      \/ disp' = d /\ r \notin attached
  BY DEF TimerOfDeadTask
<1>2. /\ x \subseteq d.stop \cup {r} /\ x \subseteq d.stop /\ r \notin x
      /\ StopsChange(d, d1, x)
  BY DEF StopsChange
<1> HIDE DEF x, d1
<1>3. /\ Reaches(d, e, A) /\ e.stop = x
      /\ Len(e.stack) < STACK_SIZE => r \in ToSet(e.stack)
  BY <1>2, PushReaches
<1> HIDE DEF e
<1>4. Reaches(d, d, A)
  BY <1>0, QuietReaches
<1> QED  BY <1>1, <1>2, <1>3, <1>4

(* pop_to_reschedule. *)
LEMMA PoppedRequestIs ==
  ASSUME NEW A, NEW d, StackOK(d, A), d.stack # <<>>
  PROVE  /\ StackOK(PoppedRequest(d), A) /\ Last(d.stack) \in A
         /\ PoppedRequest(d).stop = d.stop \ {Last(d.stack)}
         /\ PoppedRequest(d).stack = Front(d.stack)
<1> DEFINE x == Front(d.stack)
           y == d.stop \ {Last(d.stack)}
           e == PoppedRequest(d)
<1>1. /\ d.stack \in Seq(A) /\ IsDispatcher(d) /\ Len(d.stack) <= STACK_SIZE
      /\ STACK_SIZE \in Nat
  BY StackSizeAssumption DEF StackOK
<1>2. x \in Seq(A) /\ Len(x) = Len(d.stack) - 1 /\ Last(d.stack) \in A
  BY <1>1, FrontIs
<1>3. e = [[d EXCEPT !.stack = x] EXCEPT !.stop = y]
  BY DEF PoppedRequest
<1> HIDE DEF x, y, e
<1>4. /\ IsDispatcher(e) /\ e.stack = x /\ e.stop = y
      /\ e.ready = d.ready /\ e.sched = d.sched
  BY <1>1, <1>3 DEF IsDispatcher
<1>5. Len(x) <= STACK_SIZE
  BY <1>1, <1>2
<1>6. StackOK(e, A)
  BY <1>2, <1>4, <1>5 DEF StackOK
<1> QED  BY <1>2, <1>4, <1>6 DEF e, x, y

-----------------------------------------------------------------------------
(* What a step does to the stack.                                          *)

(* The actions start with a timer that expires or is disarmed. *)
LEMMA DisarmedReaches ==
  ASSUME NEW A, NEW d, StackOK(d, A), NEW r
  PROVE  /\ Reaches(d, EnfDisarmed(d, r), A) /\ Reaches(d, ZsDisarmed(d, r), A)
         /\ Reaches(d, Expired(d, r), A)
<1> DEFINE x == d.enf \ {r}
           y == d.zs \ {r}
           z == d.spent \cup {r}
           d1 == [d EXCEPT !.enf = x]
           d2 == [d EXCEPT !.zs = y]
           e == [d1 EXCEPT !.spent = z]
<1>0. IsDispatcher(d) /\ d.ready \in Seq(A)
  BY DEF StackOK
<1>1. EnfDisarmed(d, r) = d1 /\ ZsDisarmed(d, r) = d2 /\ Expired(d, r) = e
  BY DEF EnfDisarmed, ZsDisarmed, Expired
<1> HIDE DEF x, y, z
<1>2. Quiet(d, d1) /\ d1.ready = d.ready /\ Quiet(d, d2) /\ d2.ready = d.ready
  BY <1>0, QuietFields
<1> HIDE DEF d1, d2
<1>3. IsDispatcher(d1)
  BY <1>2 DEF Quiet
<1>4. Quiet(d1, e) /\ e.ready = d1.ready
  BY <1>3, QuietFields
<1> HIDE DEF e
<1>5. Quiet(d, e) /\ e.ready = d.ready
  BY <1>2, <1>4, QuietThrough
<1> QED  BY <1>0, <1>1, <1>2, <1>5, QuietReaches

(* What changes nothing in the dispatcher, or the state of the scheduler   *)
(* thread only.                                                            *)
LEMMA SchedReaches ==
  ASSUME NEW A, NEW d, StackOK(d, A), NEW e,
         e = d \/ \E c \in SchedStates : e = [d EXCEPT !.sched = c]
  PROVE  Reaches(d, e, A)
<1>0. IsDispatcher(d) /\ d.ready \in Seq(A) /\ Quiet(d, d) /\ Len(d.stack) \in Nat
  BY DEF StackOK, Quiet
<1>1. CASE e = d
  BY <1>0, <1>1, QuietReaches
<1>2. ASSUME NEW c \in SchedStates, e = [d EXCEPT !.sched = c]
      PROVE  Reaches(d, e, A)
  <2>1. /\ IsDispatcher(e) /\ e.ready = d.ready /\ e.stack = d.stack /\ e.stop = d.stop
        /\ e.sched = c
    BY <1>0, <1>2 DEF IsDispatcher
  <2> QED  BY <1>0, <2>1 DEF Reaches, StackOK, Pushes
<1> QED  BY <1>1, <1>2

(* start_of_period. *)
LEMMA StartOfPeriodReaches ==
  ASSUME NEW A, A \subseteq Rid, StackOK(disp, A), NEW r \in A, StartOfPeriod(r)
  PROVE  Reaches(disp, disp', A)
<1>1. PICK c \in Outcomes, started \in Incremented(startPeriod[r]) :
        LET overrun == Overrun(started)
            d1 == IF overrun
                  THEN Stop(SkipStop(EnfDisarmed(disp, r), r),
                            r, c.late, c.defer)
                  ELSE disp
            d2 == [d1 EXCEPT !.spent = @ \ {r},
                             !.zs = IF spec[r].zs THEN @ \cup {r} ELSE @]
        IN  disp' = Start(d2, r, prio, c.late, c.defer) \/ disp' = d2
  BY DEF StartOfPeriod, SkipStop, EnfDisarmed
<1> DEFINE d0 == EnfDisarmed(disp, r)
           e0 == SkipStop(d0, r)
           f0 == Stop(e0, r, c.late, c.defer)
           d1 == IF Overrun(started) THEN f0 ELSE disp
           x == d1.spent \ {r}
           y == IF spec[r].zs THEN d1.zs \cup {r} ELSE d1.zs
           s1 == [d1 EXCEPT !.spent = x]
           d2 == [s1 EXCEPT !.zs = y]
<1>2. disp' = Start(d2, r, prio, c.late, c.defer) \/ disp' = d2
  BY <1>1
<1>3. Reaches(disp, d0, A)
  BY DisarmedReaches
<1> HIDE DEF d0
<1>4. Reaches(d0, e0, A)
  BY <1>3, SkipStopReaches DEF Reaches
<1> HIDE DEF e0
<1>5. Reaches(e0, f0, A)
  BY <1>4, StopReaches DEF Reaches
<1> HIDE DEF f0
<1>6. Reaches(disp, e0, A)
  BY <1>3, <1>4, ReachesThrough
<1>7. Reaches(disp, f0, A)
  BY <1>5, <1>6, ReachesThrough
<1>8. Reaches(disp, disp, A)
  BY SchedReaches
<1>9. Reaches(disp, d1, A)
  BY <1>7, <1>8
<1> HIDE DEF d1, x, y
<1>10. StackOK(d1, A) /\ IsDispatcher(d1) /\ d1.ready \in Seq(A)
  BY <1>9 DEF Reaches, StackOK
<1>11. Quiet(d1, s1) /\ s1.ready = d1.ready
  BY <1>10, QuietFields
<1> HIDE DEF s1
<1>12. IsDispatcher(s1)
  BY <1>11 DEF Quiet
<1>13. Quiet(s1, d2) /\ d2.ready = s1.ready
  BY <1>12, QuietFields
<1> HIDE DEF d2
<1>14. Quiet(d1, d2) /\ d2.ready = d1.ready
  BY <1>11, <1>13, QuietThrough
<1>15. Reaches(d1, d2, A)
  BY <1>10, <1>14, QuietReaches
<1>16. Reaches(disp, d2, A) /\ StackOK(d2, A)
  BY <1>9, <1>15, ReachesThrough DEF Reaches
<1>17. Reaches(d2, Start(d2, r, prio, c.late, c.defer), A)
  BY <1>16, StartReaches
<1>18. Reaches(disp, Start(d2, r, prio, c.late, c.defer), A)
  BY <1>16, <1>17, ReachesThrough
<1> QED  BY <1>2, <1>16, <1>18

(* The three timers, and the handler that gives up. *)
LEMMA TimersReach ==
  ASSUME IInv, NEW A, A \subseteq Rid, attached \subseteq A, periodTimer \subseteq A,
         StackOK(disp, A), NEW r \in Rid,
         EnforcementTimer(r) \/ PeriodTimer(r) \/ ZeroSlackTimer(r) \/ TimerAborts(r)
  PROVE  Reaches(disp, disp', A)
<1>0. /\ disp.enf \subseteq attached /\ disp.zs \subseteq attached
      /\ Live \subseteq attached
  BY IInvFacts DEF DispatcherOK, Live
<1>1. Reaches(disp, disp, A)
  BY SchedReaches
<1>2. CASE EnforcementTimer(r)
  <2> DEFINE d == Expired(disp, r)
  <2>1. /\ r \in disp.enf
        /\ \/ \E c \in Outcomes : disp' = RequestStop(d, r, c.defer)
           \/ TimerOfDeadTask(d, r)
    BY <1>2 DEF EnforcementTimer, RequestStop, Expired
  <2>2. Reaches(disp, d, A) /\ r \in A
    BY <1>0, <2>1, DisarmedReaches
  <2> HIDE DEF d
  <2>3. Reaches(d, disp', A)
    BY <2>1, <2>2, RequestStopReaches, TimerOfDeadTaskReaches DEF Reaches
  <2> QED  BY <2>2, <2>3, ReachesThrough
<1>3. CASE PeriodTimer(r)
  <2>1. r \in A /\ (StartOfPeriod(r) \/ TimerOfDeadTask(disp, r))
    BY <1>0, <1>3 DEF PeriodTimer
  <2> QED  BY <2>1, StartOfPeriodReaches, TimerOfDeadTaskReaches
<1>4. CASE ZeroSlackTimer(r)
  <2> DEFINE d == ZsDisarmed(disp, r)
  <2>1. /\ r \in disp.zs
        /\ \/ TimerOfDeadTask(d, r)
           \/ disp' = d
           \/ disp' = StopLessCritical(d, r, Crit)
    BY <1>4 DEF ZeroSlackTimer, ZsEnforcement, ZsDisarmed
  <2>2. Reaches(disp, d, A) /\ r \in A
    BY <1>0, <2>1, DisarmedReaches
  <2> HIDE DEF d
  <2>3. Reaches(d, d, A)
    BY <2>2, SchedReaches DEF Reaches
  <2>4. Reaches(d, StopLessCritical(d, r, Crit), A)
    BY <2>2, StopLessCriticalReaches DEF Reaches
  <2>5. TimerOfDeadTask(d, r) => Reaches(d, disp', A)
    BY <2>2, TimerOfDeadTaskReaches DEF Reaches
  <2>6. Reaches(d, disp', A)
    BY <2>1, <2>3, <2>4, <2>5
  <2> QED  BY <2>2, <2>6, ReachesThrough
<1>5. CASE TimerAborts(r)
  <2>1. disp' = Expired(disp, r) \/ disp' = ZsDisarmed(disp, r) \/ disp' = disp
    BY <1>5 DEF TimerAborts, Expired, ZsDisarmed
  <2> QED  BY <1>1, <2>1, DisarmedReaches
<1> QED  BY <1>2, <1>3, <1>4, <1>5

(* The system calls. *)
LEMMA CallsReach ==
  ASSUME IInv, NEW A, A \subseteq Rid, attached \subseteq A, StackOK(disp, A), NEW r,
         \E call : Departure(r, call) \/ WaitForNextRelease(r) \/ Unblock
                   \/ \E live : FreeSlot(disp, r, live)
  PROVE  Reaches(disp, disp', A)
<1>0. Live \subseteq A /\ Reaches(disp, disp, A)
  BY SchedReaches DEF Live
<1>1. ASSUME NEW call, Departure(r, call)  PROVE Reaches(disp, disp', A)
  <2> DEFINE d == ZsDisarmed(disp, r)
  <2>1. PICK c \in Outcomes : disp' = Stop(d, r, c.late, c.defer)
    BY <1>1 DEF Departure, ZsDisarmed
  <2>2. Reaches(disp, d, A)
    BY DisarmedReaches
  <2> HIDE DEF d
  <2>3. Reaches(d, disp', A)
    BY <2>1, <2>2, StopReaches DEF Reaches
  <2> QED  BY <2>2, <2>3, ReachesThrough
<1>2. CASE WaitForNextRelease(r)
  <2>1. /\ r \in A
        /\ \/ disp' = disp
           \/ \E c \in Outcomes : disp' = Start(disp, r, prio, c.late, c.defer)
    BY <1>0, <1>2 DEF WaitForNextRelease, MayCall
  <2> QED  BY <1>0, <2>1, StartReaches
<1>3. ASSUME NEW t, NEW live, FreeSlot(disp, t, live)  PROVE Reaches(disp, disp', A)
  <2>1. PICK c \in Outcomes : disp' = Forget(disp, t, live, c.late, c.defer)
    BY <1>3 DEF FreeSlot
  <2> QED  BY <2>1, ForgetReaches
<1>4. CASE Unblock
  <2>1. \/ disp' = disp
        \/ \E t \in A, c \in Outcomes : disp' = Start(disp, t, prio, c.late, c.defer)
        \/ \E t : FreeSlot(disp, t, Live)
    BY <1>0, <1>4 DEF Unblock, DeleteReserve
  <2> QED  BY <1>0, <1>3, <2>1, StartReaches
<1> QED  BY <1>1, <1>2, <1>3, <1>4

(* The pass of the scheduler thread. *)
LEMMA PopReaches ==
  ASSUME IInv, NEW A, A \subseteq Rid, attached \subseteq A, StackOK(disp, A), SchedulerPops
  PROVE  Reaches(PoppedRequest(disp), disp', A)
<1> DEFINE r == Last(disp.stack)
           d == PoppedRequest(disp)
<1> SUFFICES Reaches(d, disp', A)
  OBVIOUS
<1>1. /\ disp.stack # <<>>
      /\ \/ disp' = d
         \/ DeleteReserve(d, r)
         \/ \E c \in Outcomes : disp' = Stop(d, r, c.late, c.defer)
         \/ r \in Live /\ \E c \in Outcomes : disp' = Start(d, r, prio, c.late, c.defer)
  BY DEF SchedulerPops
<1>2. StackOK(d, A) /\ Live \subseteq A
  BY <1>1, PoppedRequestIs DEF Live
<1> HIDE DEF d, r
<1>3. CASE disp' = d
  BY <1>2, <1>3, SchedReaches
<1>4. CASE DeleteReserve(d, r)
  <2>1. PICK c \in Outcomes : disp' = Forget(d, r, Live, c.late, c.defer)
    BY <1>4 DEF DeleteReserve, FreeSlot
  <2> QED  BY <1>2, <2>1, ForgetReaches
<1>5. CASE \E c \in Outcomes : disp' = Stop(d, r, c.late, c.defer)
  BY <1>2, <1>5, StopReaches
<1>6. CASE r \in Live /\ \E c \in Outcomes : disp' = Start(d, r, prio, c.late, c.defer)
  BY <1>2, <1>6, StartReaches
<1> QED  BY <1>1, <1>3, <1>4, <1>5, <1>6

(* ATTACH_RSV. *)
LEMMA AttachReaches ==
  ASSUME NEW A, A \subseteq Rid, StackOK(disp, A), NEW r \in A, Attach(r)
  PROVE  Reaches(disp, disp', A)
<1> DEFINE x == disp.spent \ {r}
           y == IF spec[r].zs THEN disp.zs \cup {r} ELSE disp.zs
           d1 == [disp EXCEPT !.spent = x]
           d2 == [d1 EXCEPT !.zs = y]
<1>1. PICK c \in Outcomes : disp' = Start(d2, r, prio', c.late, c.defer)
  BY DEF Attach
<1>2. IsDispatcher(disp) /\ disp.ready \in Seq(A)
  BY DEF StackOK
<1> HIDE DEF x, y
<1>3. Quiet(disp, d1) /\ d1.ready = disp.ready
  BY <1>2, QuietFields
<1> HIDE DEF d1
<1>4. IsDispatcher(d1)
  BY <1>3 DEF Quiet
<1>5. Quiet(d1, d2) /\ d2.ready = d1.ready
  BY <1>4, QuietFields
<1> HIDE DEF d2
<1>6. Quiet(disp, d2) /\ d2.ready = disp.ready
  BY <1>3, <1>5, QuietThrough
<1>7. Reaches(disp, d2, A) /\ StackOK(d2, A)
  BY <1>2, <1>6, QuietReaches DEF Reaches
<1> DEFINE e == Start(d2, r, prio', c.late, c.defer)
<1>8. Reaches(d2, e, A)
  BY <1>7, StartReaches
<1>9. disp' = e
  BY <1>1
<1> HIDE DEF e
<1>10. Reaches(disp, e, A)
  BY <1>7, <1>8, ReachesThrough
<1> QED  BY <1>9, <1>10

(* A step pushes onto the stack, or pops its top first. *)
LEMMA NextReaches ==
  ASSUME IInv, NEW A, A \subseteq Rid, attached \subseteq A, attached' \subseteq A,
         periodTimer \subseteq A, StackOK(disp, A), [Next]_vars
  PROVE  /\ StackOK(disp', A)
         /\ \/ SchedulerPops /\ Reaches(PoppedRequest(disp), disp', A)
            \/ Reaches(disp, disp', A)
<1>0. Reaches(disp, disp, A)
  BY SchedReaches
<1>1. CASE UNCHANGED vars
  BY <1>0, <1>1 DEF vars, Reaches
<1>2. ASSUME NEW r \in Rid, NEW p \in Params, Create(r, p)  PROVE Reaches(disp, disp', A)
  BY <1>0, <1>2 DEF Create
<1>3. ASSUME NEW r \in Rid, Attach(r)  PROVE Reaches(disp, disp', A)
  <2>1. r \in A
    BY <1>3 DEF Attach
  <2> QED  BY <1>3, <2>1, AttachReaches
<1>4. ASSUME NEW r \in Rid, Delete(r)  PROVE Reaches(disp, disp', A)
  BY <1>4, CallsReach DEF Delete, DeleteReserve
<1>5. ASSUME NEW r \in Rid, TaskExit(r)  PROVE Reaches(disp, disp', A)
  BY <1>0, <1>5 DEF TaskExit
<1>6. ASSUME NEW r \in Rid,
             EnforcementTimer(r) \/ PeriodTimer(r) \/ ZeroSlackTimer(r) \/ TimerAborts(r)
      PROVE  Reaches(disp, disp', A)
  BY <1>6, TimersReach
<1>7. ASSUME NEW r \in Rid, WaitForNextPeriod(r) \/ EndOfPeriod(r)
      PROVE  Reaches(disp, disp', A)
  BY <1>7, CallsReach DEF WaitForNextPeriod, EndOfPeriod
<1>8. ASSUME NEW r \in Rid, WaitForNextRelease(r)  PROVE Reaches(disp, disp', A)
  BY <1>8, CallsReach
<1>9. ASSUME Unblock  PROVE Reaches(disp, disp', A)
  BY <1>9, CallsReach
<1>10. CASE ReturnFromCall
  BY <1>0, <1>10 DEF ReturnFromCall
<1>11. ASSUME SchedulerEnters \/ SchedulerUnlocks \/ SchedulerSleeps
       PROVE  Reaches(disp, disp', A)
  <2>1. \E c \in SchedStates : disp' = [disp EXCEPT !.sched = c]
    BY <1>11 DEF SchedulerEnters, SchedulerUnlocks, SchedulerSleeps, SchedStates
  <2> QED  BY <2>1, SchedReaches
<1>12. CASE SchedulerPops
  BY <1>12, PopReaches DEF Reaches
<1>13. ASSUME NEW r \in Rid, PeriodTimerOfDying(r)  PROVE Reaches(disp, disp', A)
  BY <1>13, CallsReach DEF PeriodTimerOfDying
<1>14. CASE Next /\ ~ SchedulerPops
  <2>1. Reaches(disp, disp', A)
    BY <1>2, <1>3, <1>4, <1>5, <1>6, <1>7, <1>8, <1>9, <1>10, <1>11, <1>13, <1>14 DEF Next
  <2> QED  BY <2>1 DEF Reaches
<1> QED  BY <1>1, <1>12, <1>14

(* The stack holds reserves and never more than it has room for. *)
LEMMA InitStackOK == ASSUME NEW A, Init  PROVE StackOK(disp, A)
<1>1. disp = [ready |-> <<>>, enf |-> {}, zs |-> {}, spent |-> {}, stop |-> {},
              stack |-> <<>>, sched |-> "asleep"]
  BY DEF Init, IdleDispatcher
<1>2. IsDispatcher(disp)
  BY <1>1 DEF IsDispatcher
<1>3. <<>> \in Seq(A) /\ Len(<<>>) = 0
  OBVIOUS
<1> QED  BY <1>1, <1>2, <1>3, StackSizeAssumption DEF StackOK, SchedStates

StackInv == IInv /\ StackOK(disp, Rid)

LEMMA NextStackInv == ASSUME StackInv, [Next]_vars  PROVE StackInv'
<1>1. IInv' /\ attached \subseteq Rid /\ periodTimer \subseteq Rid
  BY NextIInv, IInvFacts DEF StackInv
<1>2. attached' \subseteq Rid
  BY <1>1 DEF IInv, TablesOK
<1>3. StackOK(disp', Rid)
  BY <1>1, <1>2, NextReaches DEF StackInv
<1> QED  BY <1>1, <1>3 DEF StackInv, Rid

LEMMA StackHolds == Spec => []StackInv
<1>1. Init => StackInv
  BY InitIInv, InitStackOK DEF StackInv
<1>2. StackInv /\ [Next]_vars => StackInv'
  BY NextStackInv
<1> QED  BY <1>1, <1>2, PTL DEF Spec

-----------------------------------------------------------------------------
(* Requests to stop a job.                                                 *)

(* push_to_reschedule never refuses a rid. *)
RoomOnStack == Len(disp.stack) < STACK_SIZE

(* What is pushed covers what is asked for. *)
LEMMA PushesKeepRequests ==
  ASSUME NEW A, NEW d, NEW e, StackOK(d, A), Reaches(d, e, A),
         Len(e.stack) < STACK_SIZE, d.stop \subseteq ToSet(d.stack)
  PROVE  e.stop \subseteq ToSet(e.stack)
<1>1. /\ d.stack \in Seq(A) /\ e.stack \in Seq(A)
      /\ Len(d.stack) \in Nat /\ Len(e.stack) \in Nat /\ Len(d.stack) <= Len(e.stack)
      /\ \A i \in 1 .. Len(d.stack) : e.stack[i] = d.stack[i]
      /\ \A x \in e.stop \ d.stop : \E i \in Len(d.stack) + 1 .. Len(e.stack) : e.stack[i] = x
  BY DEF StackOK, Reaches, Pushes
<1>2. ASSUME NEW x \in e.stop  PROVE \E i \in 1 .. Len(e.stack) : x = e.stack[i]
  <2>1. CASE x \in d.stop
    <3>1. PICK i \in 1 .. Len(d.stack) : x = d.stack[i]
      BY <1>1, <2>1, ToSetIs
    <3>2. i \in 1 .. Len(e.stack)
      BY <1>1
    <3> QED  BY <1>1, <3>1, <3>2
  <2>2. CASE x \notin d.stop
    <3>1. PICK i \in Len(d.stack) + 1 .. Len(e.stack) : e.stack[i] = x
      BY <1>1, <2>2
    <3>2. i \in 1 .. Len(e.stack)
      BY <1>1
    <3> QED  BY <3>1, <3>2
  <2> QED  BY <2>1, <2>2
<1> QED  BY <1>1, <1>2, ToSetIs

(* While the stack has room no request to stop a job is forgotten: the     *)
(* scheduler thread will pop a rid for each, whichever handler, system     *)
(* call or pass of its own loop set request_stop.                          *)
THEOREM RequestsStayOnStack == Spec /\ []RoomOnStack => []StopPendingOnStack
<1>1. Init => StopPendingOnStack
  BY DEF Init, IdleDispatcher, StopPendingOnStack
<1>2. ASSUME StackInv, StopPendingOnStack, RoomOnStack', [Next]_vars
      PROVE  StopPendingOnStack'
  <2>1. /\ StackOK(disp, Rid) /\ IInv /\ attached \subseteq Rid /\ periodTimer \subseteq Rid
        /\ disp.stop \subseteq ToSet(disp.stack) /\ Len(disp'.stack) < STACK_SIZE
    BY <1>2, IInvFacts DEF StackInv, StopPendingOnStack, RoomOnStack
  <2>2. attached' \subseteq Rid
    BY <1>2, NextStackInv DEF StackInv, IInv, TablesOK
  <2>3. CASE Reaches(disp, disp', Rid)
    BY <2>1, <2>3, PushesKeepRequests DEF StopPendingOnStack
  <2>4. CASE SchedulerPops /\ Reaches(PoppedRequest(disp), disp', Rid)
    <3> DEFINE d == PoppedRequest(disp)
    <3>1. disp.stack # <<>> /\ disp.stack \in Seq(Rid)
      BY <2>1, <2>4 DEF SchedulerPops, StackOK
    <3>2. /\ StackOK(d, Rid)
          /\ d.stop = disp.stop \ {Last(disp.stack)} /\ d.stack = Front(disp.stack)
      BY <2>1, <3>1, PoppedRequestIs
    <3>3. ToSet(disp.stack) = ToSet(Front(disp.stack)) \cup {Last(disp.stack)}
      BY <3>1, FrontIs
    <3>4. d.stop \subseteq ToSet(d.stack)
      BY <2>1, <3>2, <3>3
    <3>5. Reaches(d, disp', Rid)
      BY <2>4
    <3> HIDE DEF d
    <3> QED  BY <2>1, <3>2, <3>4, <3>5, PushesKeepRequests DEF StopPendingOnStack
  <2> QED  BY <1>2, <2>1, <2>2, <2>3, <2>4, NextReaches
<1> QED  BY <1>1, <1>2, StackHolds, PTL DEF Spec

-----------------------------------------------------------------------------
(* Period timers.                                                          *)

(* x is on the stack, and twice if there is a request to stop it: the      *)
(* scheduler thread drops the request of a job it has stopped already,     *)
(* whether or not its task exists, and finds out about the task only at    *)
(* the next pop of the rid.                                                *)
Awaits(d, x) ==
  \E i \in 1 .. Len(d.stack) :
    /\ d.stack[i] = x
    /\ x \in d.stop => \E j \in i + 1 .. Len(d.stack) : d.stack[j] = x

(* Pushes leave it so. *)
LEMMA PushesKeepAwaits ==
  ASSUME NEW A, NEW d, NEW e, StackOK(d, A), Reaches(d, e, A),
         Len(e.stack) < STACK_SIZE, NEW x, Awaits(d, x)
  PROVE  Awaits(e, x)
<1>1. /\ Len(d.stack) \in Nat /\ Len(e.stack) \in Nat /\ Len(d.stack) <= Len(e.stack)
      /\ \A i \in 1 .. Len(d.stack) : e.stack[i] = d.stack[i]
      /\ \A y \in e.stop \ d.stop : \E i \in Len(d.stack) + 1 .. Len(e.stack) : e.stack[i] = y
  BY DEF StackOK, Reaches, Pushes
<1>2. PICK i \in 1 .. Len(d.stack) :
        /\ d.stack[i] = x
        /\ x \in d.stop => \E j \in i + 1 .. Len(d.stack) : d.stack[j] = x
  BY DEF Awaits
<1>3. i \in 1 .. Len(e.stack) /\ e.stack[i] = x
  BY <1>1, <1>2
<1>4. ASSUME x \in e.stop  PROVE \E j \in i + 1 .. Len(e.stack) : e.stack[j] = x
  <2>1. CASE x \in d.stop
    <3>1. PICK j \in i + 1 .. Len(d.stack) : d.stack[j] = x
      BY <1>2, <2>1
    <3>2. j \in i + 1 .. Len(e.stack) /\ j \in 1 .. Len(d.stack)
      BY <1>1
    <3> QED  BY <1>1, <3>1, <3>2
  <2>2. CASE x \notin d.stop
    <3>1. PICK j \in Len(d.stack) + 1 .. Len(e.stack) : e.stack[j] = x
      BY <1>1, <1>4, <2>2
    <3>2. j \in i + 1 .. Len(e.stack)
      BY <1>1
    <3> QED  BY <3>1, <3>2
  <2> QED  BY <2>1, <2>2
<1> QED  BY <1>3, <1>4 DEF Awaits

(* A pop leaves it so for every other reserve, and for the one it pops if  *)
(* there was a request to stop it.                                         *)
LEMMA PopKeepsAwaits ==
  ASSUME NEW A, NEW d, StackOK(d, A), d.stack # <<>>, NEW x, Awaits(d, x),
         x # Last(d.stack) \/ x \in d.stop
  PROVE  Awaits(PoppedRequest(d), x)
<1> DEFINE e == PoppedRequest(d)
           n == Len(d.stack)
<1>1. d.stack \in Seq(A) /\ n \in Nat
  BY DEF StackOK
<1>2. /\ e.stop = d.stop \ {Last(d.stack)} /\ e.stack = Front(d.stack)
      /\ Len(e.stack) = n - 1 /\ Last(d.stack) = d.stack[n] /\ n >= 1
      /\ \A i \in 1 .. n - 1 : e.stack[i] = d.stack[i]
  <2>1. e.stop = d.stop \ {Last(d.stack)} /\ e.stack = Front(d.stack)
    BY PoppedRequestIs
  <2> HIDE DEF e
  <2>2. /\ Len(Front(d.stack)) = n - 1 /\ Last(d.stack) = d.stack[n] /\ n >= 1
        /\ \A i \in 1 .. n - 1 : Front(d.stack)[i] = d.stack[i]
    BY <1>1, FrontIs
  <2> QED  BY <2>1, <2>2
<1> HIDE DEF e
<1>3. PICK i \in 1 .. n :
        /\ d.stack[i] = x
        /\ x \in d.stop => \E j \in i + 1 .. n : d.stack[j] = x
  BY DEF Awaits
<1> HIDE DEF n
<1>4. i \in 1 .. n - 1
  BY <1>1, <1>2, <1>3
<1>5. ASSUME x \in e.stop  PROVE \E j \in i + 1 .. n - 1 : e.stack[j] = x
  <2>1. PICK j \in i + 1 .. n : d.stack[j] = x
    BY <1>2, <1>3, <1>5
  <2>2. j # n
    BY <1>2, <1>5, <2>1
  <2>3. j \in i + 1 .. n - 1 /\ j \in 1 .. n - 1
    BY <1>1, <1>4, <2>2
  <2> QED  BY <1>2, <2>1, <2>3
<1>6. Awaits(e, x)
  BY <1>2, <1>3, <1>4, <1>5 DEF Awaits
<1> QED  BY <1>6 DEF e

(* The timer of a reserve whose task exists is armed; one that is not is   *)
(* waited for by the scheduler thread.                                     *)
TimersInv ==
  /\ Live \subseteq periodTimer
  /\ \A x \in attached \ periodTimer : Awaits(disp, x)

LEMMA LiveAreAttached == Live \subseteq attached
BY DEF Live

(* Only the timer itself goes off; what arms and disarms it are an attach, *)
(* a deletion and the handler.                                             *)
LEMMA PeriodTimerMoves ==
  ASSUME IInv, [Next]_vars, "lost" \notin Features
  PROVE  \/ /\ attached' \subseteq attached /\ Live' \subseteq Live
            /\ attached' \ periodTimer' \subseteq attached \ periodTimer
         \/ \E r \in Rid : Attach(r)
         \/ \E r \in Rid :
              /\ r \in attached /\ r \notin Live /\ TimerOfDeadTask(disp, r)
              /\ attached' = attached /\ Live' = Live /\ periodTimer' = periodTimer \ {r}
<1> DEFINE Kept == /\ attached' \subseteq attached /\ Live' \subseteq Live
                   /\ attached' \ periodTimer' \subseteq attached \ periodTimer
<1>1. ASSUME attached' = attached, alive' \subseteq alive,
             attached \ periodTimer' \subseteq attached \ periodTimer
      PROVE  Kept
  BY <1>1 DEF Live
<1>2. ASSUME NEW d, NEW r, DeleteReserve(d, r)  PROVE Kept
  BY <1>2 DEF DeleteReserve, FreeSlot, Live
<1>3. CASE UNCHANGED vars
  BY <1>1, <1>3 DEF vars, tableVars, taskVars
<1>4. ASSUME NEW r \in Rid, NEW p \in Params, Create(r, p)  PROVE Kept
  <2>1. /\ r \notin attached /\ attached' = attached /\ alive' = alive
        /\ periodTimer \ {r} \subseteq periodTimer'
    BY <1>4 DEF Create, taskVars
  <2> QED  BY <1>1, <2>1
<1>5. ASSUME NEW r \in Rid, Delete(r)  PROVE Kept
  BY <1>2, <1>5 DEF Delete
<1>6. ASSUME NEW r \in Rid, TaskExit(r)  PROVE Kept
  BY <1>1, <1>6 DEF TaskExit, tableVars
<1>7. ASSUME NEW r \in Rid, EnforcementTimer(r) \/ ZeroSlackTimer(r)  PROVE Kept
  BY <1>1, <1>7 DEF EnforcementTimer, ZeroSlackTimer, tableVars, taskVars
<1>8. ASSUME NEW r \in Rid, PeriodTimer(r), r \in Live  PROVE Kept
  BY <1>1, <1>8 DEF PeriodTimer, tableVars
<1>9. ASSUME NEW r \in Rid, PeriodTimer(r), r \notin Live, r \in attached
      PROVE  /\ TimerOfDeadTask(disp, r) /\ attached' = attached /\ Live' = Live
             /\ periodTimer' = periodTimer \ {r}
  BY <1>9 DEF PeriodTimer, tableVars, taskVars, Live
<1>17. ASSUME NEW r \in Rid, PeriodTimer(r), r \notin attached  PROVE Kept
  BY <1>1, <1>17 DEF PeriodTimer, tableVars, taskVars, Live
<1>18. ASSUME NEW r \in Rid, PeriodTimerOfDying(r)  PROVE Kept
  BY <1>18 DEF PeriodTimerOfDying, FreeSlot, Live
<1>10. ASSUME NEW r \in Rid, TimerAborts(r)  PROVE FALSE
  BY <1>10 DEF TimerAborts
<1>11. ASSUME NEW r \in Rid, WaitForNextPeriod(r) \/ EndOfPeriod(r)  PROVE Kept
  BY <1>1, <1>11 DEF WaitForNextPeriod, EndOfPeriod, Departure, tableVars
<1>12. ASSUME NEW r \in Rid, WaitForNextRelease(r)  PROVE Kept
  BY <1>1, <1>12 DEF WaitForNextRelease, tableVars
<1>13. ASSUME Unblock  PROVE Kept
  <2>1. \/ UNCHANGED <<tableVars, periodTimer>> /\ alive' = alive
        \/ \E t : DeleteReserve(disp, t)
    BY <1>13 DEF Unblock, taskVars
  <2> QED  BY <1>1, <1>2, <2>1 DEF tableVars
<1>14. ASSUME ReturnFromCall  PROVE Kept
  BY <1>1, <1>14 DEF ReturnFromCall, tableVars
<1>15. ASSUME SchedulerEnters \/ SchedulerUnlocks \/ SchedulerSleeps  PROVE Kept
  BY <1>1, <1>15 DEF SchedulerEnters, SchedulerUnlocks, SchedulerSleeps, tableVars, taskVars
<1>16. ASSUME SchedulerPops  PROVE Kept
  <2>1. \/ UNCHANGED <<tableVars, periodTimer>> /\ alive' = alive
        \/ \E d, t : DeleteReserve(d, t)
    BY <1>16 DEF SchedulerPops, taskVars
  <2> QED  BY <1>1, <1>2, <2>1 DEF tableVars
<1> HIDE DEF Kept
<1>19. CASE Next
  BY <1>4, <1>5, <1>6, <1>7, <1>8, <1>9, <1>10, <1>11, <1>12, <1>13, <1>14, <1>15,
     <1>16, <1>17, <1>18, <1>19, LiveAreAttached DEF Next, Kept
<1> QED  BY <1>3, <1>19 DEF Kept

(* A pop that leaves a reserve without its timer attached dropped a        *)
(* request to stop it.                                                     *)
LEMMA PopsKeepTimers ==
  ASSUME SchedulerPops, Live \subseteq periodTimer
  PROVE  /\ attached' \subseteq attached /\ Live' \subseteq Live
         /\ attached' \ periodTimer' \subseteq attached \ periodTimer
         /\ Last(disp.stack) \in attached' \ periodTimer' => Last(disp.stack) \in disp.stop
<1> DEFINE r == Last(disp.stack)
<1>1. \/ r \in disp.stop /\ UNCHANGED <<tableVars, periodTimer>> /\ alive' = alive
      \/ DeleteReserve(PoppedRequest(disp), r)
      \/ r \in Live /\ UNCHANGED <<tableVars, periodTimer>> /\ alive' = alive
  BY DEF SchedulerPops, taskVars
<1> HIDE DEF r
<1>2. CASE r \in disp.stop /\ UNCHANGED <<tableVars, periodTimer>> /\ alive' = alive
  BY <1>2 DEF tableVars, Live, r
<1>3. CASE DeleteReserve(PoppedRequest(disp), r)
  BY <1>3 DEF DeleteReserve, FreeSlot, Live, r
<1>4. CASE r \in Live /\ UNCHANGED <<tableVars, periodTimer>> /\ alive' = alive
  BY <1>4 DEF tableVars, Live, r
<1> QED  BY <1>1, <1>2, <1>3, <1>4

LEMMA NextTimersInv ==
  ASSUME "lost" \notin Features, StackInv, TimersInv, RoomOnStack', [Next]_vars
  PROVE  TimersInv'
<1>1. /\ StackOK(disp, Rid) /\ IInv /\ attached \subseteq Rid /\ periodTimer \subseteq Rid
      /\ Len(disp'.stack) < STACK_SIZE /\ Live \subseteq periodTimer
      /\ \A x \in attached \ periodTimer : Awaits(disp, x)
  BY IInvFacts DEF StackInv, RoomOnStack, TimersInv
<1>2. attached' \subseteq Rid
  BY NextStackInv DEF StackInv, IInv, TablesOK
<1>3. CASE SchedulerPops /\ Reaches(PoppedRequest(disp), disp', Rid)
  <2>1. /\ attached' \subseteq attached /\ Live' \subseteq Live
        /\ attached' \ periodTimer' \subseteq attached \ periodTimer
        /\ Last(disp.stack) \in attached' \ periodTimer' => Last(disp.stack) \in disp.stop
    BY <1>1, <1>3, PopsKeepTimers
  <2>2. disp.stack # <<>>
    BY <1>3 DEF SchedulerPops
  <2>3. ASSUME NEW x \in attached' \ periodTimer'  PROVE Awaits(disp', x)
    <3> DEFINE d == PoppedRequest(disp)
    <3>1. Awaits(disp, x) /\ (x # Last(disp.stack) \/ x \in disp.stop)
      BY <1>1, <2>1, <2>3
    <3>2. Awaits(d, x) /\ StackOK(d, Rid) /\ Reaches(d, disp', Rid)
      BY <1>1, <1>3, <2>2, <3>1, PopKeepsAwaits, PoppedRequestIs
    <3> HIDE DEF d
    <3> QED  BY <1>1, <3>2, PushesKeepAwaits
  <2>4. Live' \subseteq periodTimer'
    BY <1>1, <2>1 DEF Live
  <2> QED  BY <2>3, <2>4 DEF TimersInv
<1>4. CASE Reaches(disp, disp', Rid)
  <2>0. \A x : Awaits(disp, x) => Awaits(disp', x)
    BY <1>1, <1>4, PushesKeepAwaits
  <2>1. CASE /\ attached' \subseteq attached /\ Live' \subseteq Live
             /\ attached' \ periodTimer' \subseteq attached \ periodTimer
    <3>1. Live' \subseteq periodTimer'
      BY <1>1, <2>1 DEF Live
    <3> QED  BY <1>1, <2>0, <2>1, <3>1 DEF TimersInv
  <2>2. ASSUME NEW r \in Rid, Attach(r)  PROVE TimersInv'
    <3>1. /\ attached' = attached \cup {r} /\ alive' = alive \cup {r}
          /\ periodTimer' = periodTimer \cup {r}
      BY <2>2 DEF Attach
    <3>2. Live' \subseteq periodTimer'
      BY <1>1, <3>1 DEF Live
    <3> QED  BY <1>1, <2>0, <3>1, <3>2 DEF TimersInv
  <2>3. ASSUME NEW r \in Rid, r \in attached, r \notin Live, TimerOfDeadTask(disp, r),
               attached' = attached, Live' = Live, periodTimer' = periodTimer \ {r}
        PROVE  TimersInv'
    <3>1. r \in ToSet(disp'.stack) /\ r \notin disp'.stop /\ disp'.stack \in Seq(Rid)
      BY <1>1, <1>4, <2>3, TimerOfDeadTaskReaches DEF Reaches, StackOK
    <3>2. Awaits(disp', r)
      BY <3>1, ToSetIs DEF Awaits
    <3>3. Live' \subseteq periodTimer'
      BY <1>1, <2>3
    <3> QED  BY <1>1, <2>0, <2>3, <3>2, <3>3 DEF TimersInv
  <2> QED  BY <1>1, <2>1, <2>2, <2>3, PeriodTimerMoves
<1> QED  BY <1>1, <1>2, <1>3, <1>4, NextReaches

(* "If the reserve was not properly deleted at least the periodic timer    *)
(* will be active": as long as no handler gives up and the stack has room, *)
(* an attached reserve has its period timer armed or its rid on the stack, *)
(* so that a reserve whose task is gone is found out sooner or later.      *)
THEOREM PeriodTimersAreKept ==
  "lost" \notin Features => (Spec /\ []RoomOnStack => []PeriodTimerKept)
<1> SUFFICES ASSUME "lost" \notin Features
             PROVE  Spec /\ []RoomOnStack => []PeriodTimerKept
  OBVIOUS
<1>1. Init => TimersInv
  BY DEF Init, TimersInv, Live
<1>2. StackInv /\ TimersInv /\ RoomOnStack' /\ [Next]_vars => TimersInv'
  BY NextTimersInv
<1>3. StackInv /\ TimersInv => PeriodTimerKept
  <2> SUFFICES ASSUME StackInv, TimersInv, NEW x \in attached \ periodTimer
               PROVE  x \in ToSet(disp.stack)
    BY DEF PeriodTimerKept
  <2>1. disp.stack \in Seq(Rid) /\ Awaits(disp, x)
    BY DEF StackInv, StackOK, TimersInv
  <2> QED  BY <2>1, ToSetIs DEF Awaits
<1> QED  BY <1>1, <1>2, <1>3, StackHolds, PTL DEF Spec

-----------------------------------------------------------------------------
(* The criticality stack and the queue of criticality-blocked reserves.    *)

(* Every link of the list q is to one of the reserves S. *)
LinksIn(q, S) ==
  /\ q = [head |-> q.head, next |-> q.next]
  /\ q.head \in S \cup {Nil}
  /\ q.next \in [Rid -> S \cup {Nil}]

LEMMA ClearLinkIn ==
  ASSUME NEW S, S \subseteq Rid, NEW q, LinksIn(q, S), NEW r \in Rid
  PROVE  /\ LinksIn(ClearLink(q, r), S) /\ ClearLink(q, r).head = q.head
         /\ ClearLink(q, r).next = [q.next EXCEPT ![r] = Nil]
         /\ ClearLink(q, r) = [q EXCEPT !.next[r] = Nil]
<1> DEFINE x == [q.next EXCEPT ![r] = Nil]
<1>1. x \in [Rid -> S \cup {Nil}]
  BY DEF LinksIn
<1>2. ClearLink(q, r) = [q EXCEPT !.next = x]
  BY DEF ClearLink
<1>3. ClearLink(q, r) = [q EXCEPT !.next[r] = Nil]
  BY DEF ClearLink
<1> HIDE DEF x
<1>4. ClearLink(q, r) = [head |-> q.head, next |-> x]
  BY <1>2 DEF LinksIn
<1>5. LinksIn(ClearLink(q, r), S) /\ ClearLink(q, r).head = q.head /\ ClearLink(q, r).next = x
  <2> DEFINE e == ClearLink(q, r)
  <2> HIDE DEF e
  <2>1. e = [head |-> q.head, next |-> x]
    BY <1>4 DEF e
  <2>2. LinksIn(e, S) /\ e.head = q.head /\ e.next = x
    BY <1>1, <2>1 DEF LinksIn
  <2> QED  BY <2>2 DEF e
<1> QED  BY <1>3, <1>5 DEF x

LEMMA PopChainIn ==
  ASSUME NEW S, S \subseteq Rid, NEW q, LinksIn(q, S), q.head \in Rid
  PROVE  LinksIn(PopChain(q), S)
<1> DEFINE x == q.next[q.head]
<1>1. x \in S \cup {Nil}
  BY DEF LinksIn
<1>2. PopChain(q) = [q EXCEPT !.head = x]
  BY DEF PopChain
<1> HIDE DEF x
<1>3. PopChain(q) = [head |-> x, next |-> q.next]
  BY <1>2 DEF LinksIn
<1> DEFINE e == PopChain(q)
<1> HIDE DEF e
<1>4. e = [head |-> x, next |-> q.next]
  BY <1>3 DEF e
<1>5. LinksIn(e, S)
  BY <1>1, <1>4 DEF LinksIn
<1> QED  BY <1>5 DEF e

(* The walk looks for the place of r from t on. *)
GoesOn(q, r, crit, t) == q.next[t] # Nil /\ crit[q.next[t]] > crit[r] /\ t # r

(* A walk stays in a set that it does not lead out of, and unless it gives *)
(* up it ends where it need not go on.                                     *)
LEMMA WalkStays ==
  ASSUME NEW S, NEW q, q.head \in S, NEW r, NEW crit,
         \A t \in S : GoesOn(q, r, crit, t) => q.next[t] \in S
  PROVE  LET w == Walk(q, r, crit)
         IN  w.t \in S /\ (~ w.corrupted => ~ GoesOn(q, r, crit, w.t))
<1> DEFINE n == MAX_RESERVES + 1
           goesOn(t) == /\ q.next[t] # Nil
                        /\ crit[q.next[t]] > crit[r]
                        /\ t # r
           step == [p \in (1 .. n) \X S |-> IF goesOn(p[2]) THEN q.next[p[2]] ELSE p[2]]
           Is(f) == f = [i \in 0 .. n |->
                      IF i = 0 THEN q.head
                      ELSE LET t == f[i - 1] IN IF goesOn(t) THEN q.next[t] ELSE t]
           at == CHOOSE f : Is(f)
           w == Walk(q, r, crit)
<1>1. n \in Nat /\ q.head \in S
  BY MaxReservesAssumption
<1>2. \A t \in S : goesOn(t) => q.next[t] \in S
  BY DEF GoesOn
<1>3. \E f : Is(f)
  <2>1. step \in [(1 .. n) \X S -> S]
    <3> HIDE DEF goesOn, n
    <3> QED  BY <1>2
  <2>2. Iterates(n, S, q.head, step) # {}
    <3> HIDE DEF step, n
    <3> QED  BY <1>1, <2>1, RecursionIs
  <2>3. PICK f \in [0 .. n -> S] :
          f[0] = q.head /\ \A i \in 1 .. n : f[i] = step[<<i, f[i - 1]>>]
    <3> HIDE DEF step, n
    <3> QED  BY <2>2 DEF Iterates
  <2>4. ASSUME NEW i \in 1 .. n
        PROVE  f[i] = IF goesOn(f[i - 1]) THEN q.next[f[i - 1]] ELSE f[i - 1]
    <3>1. i - 1 \in 0 .. n
      BY <1>1
    <3> HIDE DEF n
    <3>2. f[i - 1] \in S /\ <<i, f[i - 1]>> \in (1 .. n) \X S
      BY <2>3, <3>1
    <3>3. f[i] = step[<<i, f[i - 1]>>]
      BY <2>3
    <3> HIDE DEF goesOn
    <3> QED  BY <3>2, <3>3
  <2>5. f = [i \in 0 .. n |-> f[i]]
    BY <2>3
  <2>6. ASSUME NEW i \in 0 .. n
        PROVE  f[i] = IF i = 0 THEN q.head
                      ELSE LET t == f[i - 1] IN IF goesOn(t) THEN q.next[t] ELSE t
    <3>1. i = 0 \/ i \in 1 .. n
      BY <1>1
    <3> HIDE DEF n, goesOn
    <3> QED  BY <2>3, <2>4, <3>1
  <2>7. Is(f)
    <3> HIDE DEF n, step, goesOn
    <3> QED  BY <2>5, <2>6
  <2> QED  BY <2>7
<1>4. Is(at)
  BY <1>3
<1>5. w.t = at[n] /\ w.corrupted = goesOn(at[MAX_RESERVES])
  BY DEF Walk
<1>6. at[0] = q.head
  <2>1. 0 \in 0 .. n
    BY <1>1
  <2> HIDE DEF n, at
  <2> QED  BY <1>4, <2>1
<1>7. ASSUME NEW i \in 1 .. n
      PROVE  at[i] = IF goesOn(at[i - 1]) THEN q.next[at[i - 1]] ELSE at[i - 1]
  <2>1. i \in 0 .. n /\ i # 0
    BY <1>1
  <2> HIDE DEF n, at, goesOn
  <2> QED  BY <1>4, <2>1
<1>12. ASSUME ~ w.corrupted  PROVE ~ goesOn(w.t)
  <2>1. n \in 1 .. n /\ n - 1 = MAX_RESERVES
    BY MaxReservesAssumption
  <2>2. ~ goesOn(at[n - 1])
    <3> HIDE DEF goesOn, at
    <3> QED  BY <1>5, <1>12, <2>1
  <2>3. at[n] = at[n - 1]
    <3> HIDE DEF n, at, goesOn
    <3> QED  BY <1>7, <2>1, <2>2
  <2> HIDE DEF n, at, goesOn, w
  <2> QED  BY <1>5, <2>2, <2>3
<1>13. goesOn(w.t) <=> GoesOn(q, r, crit, w.t)
  BY DEF GoesOn
<1> HIDE DEF at, step, Is, goesOn, w
<1> DEFINE Good == {i \in 0 .. n : at[i] \in S}
<1>8. 0 \in Good
  BY <1>1, <1>6
<1>9. ASSUME NEW i \in 1 .. n, i - 1 \in Good  PROVE i \in Good
  <2>1. at[i - 1] \in S /\ i \in 0 .. n
    BY <1>1, <1>9
  <2> HIDE DEF n
  <2> QED  BY <1>2, <1>7, <2>1
<1>10. 0 .. n \subseteq Good
  <2> HIDE DEF Good, n
  <2> QED  BY <1>1, <1>8, <1>9, IntervalInduction
<1>11. n \in 0 .. n
  BY <1>1
<1> HIDE DEF n
<1> QED  BY <1>5, <1>10, <1>11, <1>12, <1>13 DEF w

(* A walk along a list that is not empty ends at one of its reserves. *)
LEMMA WalkIn ==
  ASSUME NEW S, S \subseteq Rid, NEW q, LinksIn(q, S), q.head \in S, NEW r, NEW crit
  PROVE  Walk(q, r, crit).t \in S
<1>1. \A t \in S : GoesOn(q, r, crit, t) => q.next[t] \in S
  BY DEF LinksIn, GoesOn
<1> QED  BY <1>1, WalkStays

(* The ways add_crit_stack and add_crit_blocked link r: as the only one, in *)
(* front of the head, or after t.                                          *)
PutAlone(q, r) == [head |-> r, next |-> q.next]
PutFirst(q, r) == [head |-> r, next |-> [q.next EXCEPT ![r] = q.head]]
PutAfter(q, t, r) ==
  [head |-> q.head,
   next |-> [[q.next EXCEPT ![r] = q.next[t]] EXCEPT ![t] = r]]

(* One of them, depending on where the walk w along q ended. *)
Linked(q, w, r, crit) ==
  IF q.head = Nil THEN PutAlone(q, r)
  ELSE IF crit[q.head] < crit[r] THEN PutFirst(q, r)
  ELSE IF w.corrupted \/ w.t = r THEN q
  ELSE PutAfter(q, w.t, r)

(* add_crit_stack and add_crit_blocked, by what becomes of head and links. *)
LEMMA AddChainForms ==
  ASSUME NEW S, S \subseteq Rid, NEW q0, LinksIn(q0, S), NEW r \in S, NEW crit,
         NEW q, q = ClearLink(q0, r), NEW w, w = Walk(q, r, crit)
  PROVE  /\ LinksIn(q, S) /\ q.head = q0.head
         /\ q.head \in S => w.t \in S
         /\ AddChain(q0, r, crit) = Linked(q, w, r, crit)
<1> DEFINE x == [q.next EXCEPT ![r] = q.head]
           y == [[q.next EXCEPT ![r] = q.next[w.t]] EXCEPT ![w.t] = r]
           e == AddChain(q0, r, crit)
<1>1. /\ LinksIn(q, S) /\ q.head = q0.head /\ q = [q0 EXCEPT !.next[r] = Nil] /\ r \in Rid
      /\ q.next = [q0.next EXCEPT ![r] = Nil]
  BY ClearLinkIn
<1>2. e = IF q.head = Nil THEN [q EXCEPT !.head = r]
          ELSE IF crit[q.head] < crit[r]
          THEN [q EXCEPT !.head = r, !.next[r] = q.head]
          ELSE IF w.corrupted \/ w.t = r THEN q
          ELSE [q EXCEPT !.next = y]
  <2> DEFINE p == [q0 EXCEPT !.next[r] = Nil]
  <2>1. q = p
    BY <1>1
  <2>2. e = IF p.head = Nil THEN [p EXCEPT !.head = r]
          ELSE IF crit[p.head] < crit[r]
          THEN [p EXCEPT !.head = r, !.next[r] = p.head]
          ELSE IF Walk(p, r, crit).corrupted \/ Walk(p, r, crit).t = r THEN p
          ELSE [p EXCEPT !.next =
                 [[p.next EXCEPT ![r] = p.next[Walk(p, r, crit).t]]
                    EXCEPT ![Walk(p, r, crit).t] = r]]
    BY DEF AddChain
  <2>3. w = Walk(p, r, crit)
    BY <2>1
  <2> HIDE DEF p, e
  <2> QED  BY <2>1, <2>2, <2>3
<1>3. q.head \in S => w.t \in S
  BY <1>1, WalkIn
<1> HIDE DEF e
<1>a. q = [head |-> q.head, next |-> q.next]
  BY <1>1 DEF LinksIn
<1>5. [q EXCEPT !.head = r, !.next[r] = q.head] = [head |-> r, next |-> x]
  <2> DEFINE h == [q EXCEPT !.head = r]
  <2> HIDE DEF x
  <2>1. h = [head |-> r, next |-> q.next]
    BY <1>a
  <2>2. [q EXCEPT !.head = r, !.next[r] = q.head]
          = [h EXCEPT !.next = [h.next EXCEPT ![r] = q.head]]
    OBVIOUS
  <2> HIDE DEF h
  <2>3. [h.next EXCEPT ![r] = q.head] = x
    BY <2>1 DEF x
  <2>4. [h EXCEPT !.next = x] = [head |-> r, next |-> x]
    BY <2>1
  <2> QED  BY <2>2, <2>3, <2>4
<1> HIDE DEF x, y
<1>6. [q EXCEPT !.head = r] = [head |-> r, next |-> q.next]
  BY <1>a
<1>7. [q EXCEPT !.next = y] = [head |-> q.head, next |-> y]
  BY <1>a
<1>8. e = IF q.head = Nil THEN [head |-> r, next |-> q.next]
          ELSE IF crit[q.head] < crit[r] THEN [head |-> r, next |-> x]
          ELSE IF w.corrupted \/ w.t = r THEN q
          ELSE [head |-> q.head, next |-> y]
  BY <1>2, <1>5, <1>6, <1>7
<1>9. /\ PutAlone(q, r) = [head |-> r, next |-> q.next]
      /\ PutFirst(q, r) = [head |-> r, next |-> x]
      /\ PutAfter(q, w.t, r) = [head |-> q.head, next |-> y]
  BY DEF PutAlone, PutFirst, PutAfter, x, y
<1> QED  BY <1>1, <1>3, <1>8, <1>9 DEF e, Linked

(* add_crit_stack and add_crit_blocked link nothing but what they are      *)
(* given, and change the head only for a reserve of higher criticality.    *)
LEMMA AddChainIn ==
  ASSUME NEW S, S \subseteq Rid, NEW q0, LinksIn(q0, S), NEW r \in S, NEW crit
  PROVE  /\ LinksIn(AddChain(q0, r, crit), S)
         /\ AddChain(q0, r, crit).head =
              IF q0.head = Nil \/ crit[q0.head] < crit[r] THEN r ELSE q0.head
<1> DEFINE q == ClearLink(q0, r)
           w == Walk(q, r, crit)
           x == [q.next EXCEPT ![r] = q.head]
           y == [[q.next EXCEPT ![r] = q.next[w.t]] EXCEPT ![w.t] = r]
           e == AddChain(q0, r, crit)
<1>1. /\ LinksIn(q, S) /\ q.head = q0.head
      /\ q.head \in S => w.t \in S
      /\ e = IF q.head = Nil THEN PutAlone(q, r)
             ELSE IF crit[q.head] < crit[r] THEN PutFirst(q, r)
             ELSE IF w.corrupted \/ w.t = r THEN q
             ELSE PutAfter(q, w.t, r)
  <2>1. q = ClearLink(q0, r) /\ w = Walk(q, r, crit)
    OBVIOUS
  <2> HIDE DEF q, w
  <2> QED  BY <2>1, AddChainForms DEF Linked
<1>2. r \in Rid
  OBVIOUS
<1> HIDE DEF q, w, e
<1>4. x \in [Rid -> S \cup {Nil}] /\ (q.head \in S => y \in [Rid -> S \cup {Nil}])
  BY <1>1 DEF LinksIn
<1> HIDE DEF x, y
<1>8. CASE q.head = Nil
  <2>1. e = [head |-> r, next |-> q.next]
    BY <1>1, <1>8 DEF PutAlone
  <2>2. LinksIn(e, S) /\ e.head = r
    BY <1>1, <2>1 DEF LinksIn
  <2> QED  BY <1>1, <1>8, <2>2 DEF e
<1>9. CASE q.head # Nil /\ crit[q.head] < crit[r]
  <2>1. e = [head |-> r, next |-> x]
    BY <1>1, <1>9 DEF PutFirst, x
  <2>2. LinksIn(e, S) /\ e.head = r
    BY <1>1, <1>4, <2>1 DEF LinksIn
  <2> QED  BY <1>1, <1>9, <2>2 DEF e
<1>10. CASE q.head # Nil /\ ~ (crit[q.head] < crit[r])
  <2>1. q.head \in S
    BY <1>1, <1>10 DEF LinksIn
  <2>2. e = q \/ e = [head |-> q.head, next |-> y]
    BY <1>1, <1>10 DEF PutAfter, y
  <2>3. LinksIn(e, S) /\ e.head = q.head
    <3>1. CASE e = q
      BY <1>1, <3>1
    <3>2. CASE e = [head |-> q.head, next |-> y]
      BY <1>1, <1>4, <2>1, <3>2 DEF LinksIn
    <3> QED  BY <2>2, <3>1, <3>2
  <2> QED  BY <1>1, <1>10, <2>3 DEF e
<1> QED  BY <1>8, <1>9, <1>10

(* One after the other. *)
LEMMA AddChainsAre ==
  ASSUME NEW S, S \subseteq Rid, NEW q, LinksIn(q, S), NEW s \in Seq(S), NEW crit
  PROVE  \E f : /\ f[0] = q /\ AddChains(q, s, crit) = f[Len(s)]
                /\ \A i \in 1 .. Len(s) : f[i] = AddChain(f[i - 1], s[i], crit)
                /\ \A i \in 0 .. Len(s) : LinksIn(f[i], S)
<1> DEFINE n == Len(s)
           T == {c \in [head : S \cup {Nil}, next : [Rid -> S \cup {Nil}]] : LinksIn(c, S)}
           step == [p \in (1 .. n) \X T |-> AddChain(p[2], s[p[1]], crit)]
           Is(f) == f = [i \in 0 .. n |->
                          IF i = 0 THEN q ELSE AddChain(f[i - 1], s[i], crit)]
           after == CHOOSE f : Is(f)
<1>1. n \in Nat /\ \A i \in 1 .. n : s[i] \in S
  OBVIOUS
<1>2. \A c : c \in T <=> LinksIn(c, S)
  BY DEF LinksIn
<1> HIDE DEF T
<1>3. \A c \in T, i \in 1 .. n : AddChain(c, s[i], crit) \in T
  BY <1>1, <1>2, AddChainIn
<1>4. \E f : Is(f)
  <2>1. step \in [(1 .. n) \X T -> T]
    <3> HIDE DEF n
    <3> QED  BY <1>3
  <2>2. Iterates(n, T, q, step) # {}
    <3> HIDE DEF step, n
    <3> QED  BY <1>1, <1>2, <2>1, RecursionIs
  <2>3. PICK f \in [0 .. n -> T] :
          f[0] = q /\ \A i \in 1 .. n : f[i] = step[<<i, f[i - 1]>>]
    <3> HIDE DEF step, n
    <3> QED  BY <2>2 DEF Iterates
  <2>4. ASSUME NEW i \in 1 .. n  PROVE f[i] = AddChain(f[i - 1], s[i], crit)
    <3>1. i - 1 \in 0 .. n
      BY <1>1
    <3> HIDE DEF n
    <3>2. <<i, f[i - 1]>> \in (1 .. n) \X T
      BY <2>3, <3>1
    <3> QED  BY <2>3, <3>2
  <2>5. f = [i \in 0 .. n |-> f[i]]
    BY <2>3
  <2>6. ASSUME NEW i \in 0 .. n
        PROVE  f[i] = IF i = 0 THEN q ELSE AddChain(f[i - 1], s[i], crit)
    <3>1. i = 0 \/ i \in 1 .. n
      BY <1>1
    <3> HIDE DEF n
    <3> QED  BY <2>3, <2>4, <3>1
  <2>7. Is(f)
    <3> HIDE DEF n, step
    <3> QED  BY <2>5, <2>6
  <2> QED  BY <2>7
<1>5. Is(after)
  BY <1>4
<1>6. AddChains(q, s, crit) = after[n]
  BY DEF AddChains
<1>7. after[0] = q
  <2>1. 0 \in 0 .. n
    BY <1>1
  <2> HIDE DEF n, after
  <2> QED  BY <1>5, <2>1
<1>8. ASSUME NEW i \in 1 .. n  PROVE after[i] = AddChain(after[i - 1], s[i], crit)
  <2>1. i \in 0 .. n /\ i # 0
    BY <1>1
  <2> HIDE DEF n, after
  <2> QED  BY <1>5, <2>1
<1> HIDE DEF after, step, Is
<1> DEFINE Good == {i \in 0 .. n : after[i] \in T}
<1>9. 0 \in Good
  BY <1>1, <1>2, <1>7
<1>10. ASSUME NEW i \in 1 .. n, i - 1 \in Good  PROVE i \in Good
  <2>1. after[i - 1] \in T /\ i \in 0 .. n
    BY <1>1, <1>10
  <2> HIDE DEF n
  <2> QED  BY <1>3, <1>8, <2>1
<1>11. 0 .. n \subseteq Good
  <2> HIDE DEF Good, n
  <2> QED  BY <1>1, <1>9, <1>10, IntervalInduction
<1>12. \A i \in 0 .. n : LinksIn(after[i], S)
  <2> HIDE DEF n
  <2> QED  BY <1>2, <1>11
<1> QED  BY <1>6, <1>7, <1>8, <1>12

LEMMA AddChainsIn ==
  ASSUME NEW S, S \subseteq Rid, NEW q, LinksIn(q, S), NEW s \in Seq(S), NEW crit
  PROVE  LinksIn(AddChains(q, s, crit), S)
<1>1. Len(s) \in 0 .. Len(s)
  OBVIOUS
<1> QED  BY <1>1, AddChainsAre

-----------------------------------------------------------------------------
(* What the steps do to the two lists. *)

(* A slot is handed out. *)
SlotMoves ==
  \E r \in Rid \ attached, p \in Params :
    /\ spec' = [spec EXCEPT ![r] = p]
    /\ critq' = ClearLink(critq, r) /\ blockq' = ClearLink(blockq, r)
    /\ sysCrit' = sysCrit

(* A zero-slack enforcement. *)
CriticalityRises ==
  \E r \in attached, s \in Seq(attached) :
    /\ spec' = spec
    /\ ~ (spec[r].crit < sysCrit) /\ sysCrit' = spec[r].crit
    /\ critq' = AddChain(critq, r, Crit)
    /\ blockq' = AddChains(blockq, s, Crit)

(* A departure. *)
CriticalityFalls ==
  /\ spec' = spec /\ blockq' = blockq
  /\ critq' = critq \/ (critq.head \in Rid /\ critq' = PopChain(critq))
  /\ sysCrit' = TopCrit(critq')

(* A round over crit_blockq. *)
BlockedLeaves ==
  /\ spec' = spec /\ sysCrit' = sysCrit /\ critq' = critq
  /\ blockq.head \in Rid /\ blockq' = PopChain(blockq)

(* What a step does to the two lists. *)
LEMMA CritMoves ==
  ASSUME IInv, [Next]_vars
  PROVE  \/ UNCHANGED <<spec, critVars>>
         \/ SlotMoves \/ CriticalityRises \/ CriticalityFalls \/ BlockedLeaves
<1> DEFINE Still == UNCHANGED <<spec, critVars>>
           Moves == SlotMoves \/ CriticalityRises \/ CriticalityFalls \/ BlockedLeaves
<1> SUFFICES Still \/ Moves
  OBVIOUS
<1>1. CASE UNCHANGED vars
  BY <1>1 DEF vars, tableVars
<1>2. ASSUME NEW r \in Rid, NEW p \in Params, Create(r, p)  PROVE SlotMoves
  BY <1>2 DEF Create, SlotMoves
<1>3. ASSUME NEW r \in Rid, Attach(r)  PROVE Still
  BY <1>3 DEF Attach
<1>4. ASSUME NEW r \in Rid, Delete(r)  PROVE Still
  BY <1>4 DEF Delete, DeleteReserve, FreeSlot
<1>5. ASSUME NEW r \in Rid, TaskExit(r)  PROVE Still
  BY <1>5 DEF TaskExit, tableVars
<1>6. ASSUME NEW r \in Rid, EnforcementTimer(r) \/ PeriodTimer(r) \/ TimerAborts(r)  PROVE Still
  BY <1>6 DEF EnforcementTimer, PeriodTimer, TimerAborts, tableVars
<1>7. ASSUME NEW r \in Rid, ZeroSlackTimer(r)  PROVE Still \/ CriticalityRises
  <2> DEFINE d == [disp EXCEPT !.zs = @ \ {r}]
             s == LessCritical(d, r, Crit)
  <2>1. \/ Still
        \/ /\ r \in Live /\ ~ (spec[r].crit < sysCrit) /\ spec' = spec
           /\ sysCrit' = spec[r].crit /\ critq' = AddChain(critq, r, Crit)
           /\ blockq' = AddChains(blockq, s, Crit)
    BY <1>7 DEF ZeroSlackTimer, ZsIgnored, ZsEnforcement, tableVars
  <2>2. d.ready = disp.ready /\ disp.ready \in Seq(attached)
    BY IInvFacts DEF DispatcherOK, IsDispatcher
  <2> HIDE DEF d
  <2>3. s \in Seq(attached)
    BY <2>2, AmongIs DEF LessCritical
  <2> HIDE DEF s
  <2> QED  BY <2>1, <2>3 DEF CriticalityRises, Live
<1>8. ASSUME NEW r \in Rid, NEW call, Departure(r, call)  PROVE Still \/ CriticalityFalls
  <2>1. /\ spec' = spec /\ blockq' = blockq
        /\ \/ UNCHANGED <<sysCrit, critq>>
           \/ /\ critq' = critq \/ (critq.head = r /\ critq' = PopChain(critq))
              /\ sysCrit' = TopCrit(critq')
    BY <1>8 DEF Departure, tableVars
  <2> QED  BY <2>1 DEF CriticalityFalls, critVars
<1>9. ASSUME NEW r \in Rid, WaitForNextPeriod(r) \/ EndOfPeriod(r)  PROVE Still \/ Moves
  BY <1>8, <1>9 DEF WaitForNextPeriod, EndOfPeriod
<1>10. ASSUME NEW r \in Rid, WaitForNextRelease(r)  PROVE Still
  BY <1>10 DEF WaitForNextRelease, tableVars
<1>11. ASSUME Unblock  PROVE BlockedLeaves
  BY <1>11 DEF Unblock, UnblockGoesOn, BlockedLeaves, DeleteReserve, FreeSlot, tableVars
<1>12. ASSUME ReturnFromCall  PROVE Still
  BY <1>12 DEF ReturnFromCall, tableVars
<1>13. ASSUME SchedulerEnters \/ SchedulerUnlocks \/ SchedulerSleeps  PROVE Still
  BY <1>13 DEF SchedulerEnters, SchedulerUnlocks, SchedulerSleeps, tableVars
<1>14. ASSUME SchedulerPops  PROVE Still
  BY <1>14 DEF SchedulerPops, DeleteReserve, FreeSlot, tableVars
<1>15. ASSUME NEW r \in Rid, PeriodTimerOfDying(r)  PROVE Still
  BY <1>15 DEF PeriodTimerOfDying, FreeSlot
<1> HIDE DEF Still
<1>16. CASE Next
  BY <1>2, <1>3, <1>4, <1>5, <1>6, <1>7, <1>9, <1>10, <1>11, <1>12, <1>13, <1>14,
     <1>15, <1>16 DEF Next
<1> QED  BY <1>1, <1>16 DEF Still

(* The lists go on linking the reserves S, if S has the attached ones. *)
LEMMA NextChains ==
  ASSUME IInv, NEW S, S \subseteq Rid, attached \subseteq S,
         LinksIn(critq, S), LinksIn(blockq, S), [Next]_vars
  PROVE  LinksIn(critq', S) /\ LinksIn(blockq', S)
<1>1. CASE UNCHANGED <<spec, critVars>>
  BY <1>1 DEF critVars
<1>2. CASE SlotMoves
  <2>1. PICK r \in Rid : critq' = ClearLink(critq, r) /\ blockq' = ClearLink(blockq, r)
    BY <1>2 DEF SlotMoves
  <2> QED  BY <2>1, ClearLinkIn
<1>3. CASE CriticalityRises
  <2>1. PICK r \in attached, s \in Seq(attached) :
          critq' = AddChain(critq, r, Crit) /\ blockq' = AddChains(blockq, s, Crit)
    BY <1>3 DEF CriticalityRises
  <2>2. r \in S /\ s \in Seq(S)
    OBVIOUS
  <2> QED  BY <2>1, <2>2, AddChainIn, AddChainsIn
<1>4. CASE CriticalityFalls
  BY <1>4, PopChainIn DEF CriticalityFalls
<1>5. CASE BlockedLeaves
  BY <1>5, PopChainIn DEF BlockedLeaves
<1> QED  BY <1>1, <1>2, <1>3, <1>4, <1>5, CritMoves

-----------------------------------------------------------------------------
(* The system criticality.                                                 *)

(* No reserve is deleted and no task ends. *)
NoOneLeaves == "delete" \notin Features /\ "exit" \notin Features

(* Then queue, stack and lists have attached reserves with a task only,    *)
(* and sys_criticality is right.                                           *)
CritInv ==
  /\ StackInv
  /\ attached \subseteq alive
  /\ StackOK(disp, attached)
  /\ LinksIn(critq, attached) /\ LinksIn(blockq, attached)
  /\ SysCritIsTop

LEMMA ParamsAreNatural ==
  ASSUME IInv, NEW r \in Rid
  PROVE  spec[r].crit \in Nat /\ Crit[r] = spec[r].crit
<1>1. spec[r] \in Params \cup {NoParams}
  BY IInvFacts
<1> QED  BY <1>1, ParamsAssumption DEF NoParams, Crit

(* Nobody leaves. *)
LEMMA NobodyLeaves ==
  ASSUME NoOneLeaves, CritInv, [Next]_vars
  PROVE  attached \subseteq attached' /\ attached' \subseteq alive'
<1> DEFINE Stay == attached \subseteq attached' /\ attached' \subseteq alive'
<1>0. attached \subseteq alive /\ Live = attached
  BY DEF CritInv, Live
<1>1. ASSUME attached' = attached, alive' = alive  PROVE Stay
  BY <1>0, <1>1
<1>2. CASE UNCHANGED vars
  BY <1>1, <1>2 DEF vars, tableVars, taskVars
<1>3. ASSUME NEW r \in Rid, NEW p \in Params, Create(r, p)  PROVE Stay
  BY <1>1, <1>3 DEF Create, taskVars
<1>4. ASSUME NEW r \in Rid, Attach(r)  PROVE Stay
  BY <1>0, <1>4 DEF Attach
<1>5. ASSUME NEW r \in Rid, Delete(r) \/ TaskExit(r) \/ PeriodTimerOfDying(r)  PROVE FALSE
  BY <1>5 DEF Delete, TaskExit, PeriodTimerOfDying, NoOneLeaves
<1>6. ASSUME NEW r \in Rid,
             EnforcementTimer(r) \/ PeriodTimer(r) \/ ZeroSlackTimer(r) \/ TimerAborts(r)
      PROVE  Stay
  BY <1>1, <1>6 DEF EnforcementTimer, PeriodTimer, ZeroSlackTimer, TimerAborts,
                    tableVars, taskVars
<1>7. ASSUME NEW r \in Rid, WaitForNextPeriod(r) \/ EndOfPeriod(r)  PROVE Stay
  BY <1>1, <1>7 DEF WaitForNextPeriod, EndOfPeriod, Departure, tableVars
<1>8. ASSUME NEW r \in Rid, WaitForNextRelease(r)  PROVE Stay
  BY <1>1, <1>8 DEF WaitForNextRelease, tableVars
<1>9. ASSUME Unblock  PROVE Stay
  <2>1. blockq.head \in Live
    <3>1. blockq.head \in Rid /\ blockq.head \in attached \cup {Nil}
      BY <1>9 DEF Unblock, UnblockGoesOn, CritInv, LinksIn
    <3>2. Nil \notin Rid
      BY DEF Nil, Rid
    <3> QED  BY <1>0, <3>1, <3>2
  <2>2. UNCHANGED tableVars /\ alive' = alive
    BY <1>9, <2>1 DEF Unblock, taskVars
  <2> QED  BY <1>1, <2>2 DEF tableVars
<1>10. ASSUME ReturnFromCall  PROVE Stay
  BY <1>1, <1>10 DEF ReturnFromCall, tableVars
<1>11. ASSUME SchedulerEnters \/ SchedulerUnlocks \/ SchedulerSleeps  PROVE Stay
  BY <1>1, <1>11 DEF SchedulerEnters, SchedulerUnlocks, SchedulerSleeps, tableVars, taskVars
<1>12. ASSUME SchedulerPops  PROVE Stay
  <2>1. Last(disp.stack) \in Live
    <3>1. StackOK(disp, attached) /\ disp.stack # <<>>
      BY <1>12 DEF CritInv, SchedulerPops
    <3> QED  BY <1>0, <3>1, PoppedRequestIs
  <2>2. UNCHANGED tableVars /\ alive' = alive
    BY <1>12, <2>1 DEF SchedulerPops, taskVars
  <2> QED  BY <1>1, <2>2 DEF tableVars
<1> HIDE DEF Stay
<1>13. CASE Next
  BY <1>3, <1>4, <1>5, <1>6, <1>7, <1>8, <1>9, <1>10, <1>11, <1>12, <1>13 DEF Next, Stay
<1> QED  BY <1>2, <1>13 DEF Stay

(* sys_criticality follows the head of the criticality stack. *)
LEMMA NextTop ==
  ASSUME IInv, attached \subseteq Rid, LinksIn(critq, attached), SysCritIsTop, [Next]_vars
  PROVE  SysCritIsTop'
<1>0. Nil \notin Rid /\ critq.head \in attached \cup {Nil}
  BY DEF Nil, Rid, LinksIn
<1>1. CASE UNCHANGED <<spec, critVars>>
  BY <1>1 DEF critVars, SysCritIsTop
<1>2. CASE SlotMoves
  <2>1. PICK r \in Rid \ attached, p \in Params :
          /\ spec' = [spec EXCEPT ![r] = p] /\ critq' = ClearLink(critq, r)
          /\ sysCrit' = sysCrit
    BY <1>2 DEF SlotMoves
  <2>2. critq'.head = critq.head
    BY <2>1, ClearLinkIn
  <2>3. ASSUME critq.head \in Rid  PROVE spec'[critq.head] = spec[critq.head]
    <3>1. critq.head # r /\ spec \in [Rid -> Params \cup {NoParams}]
      BY <1>0, <2>3, IInvFacts
    <3> QED  BY <2>1, <2>3, <3>1
  <2> QED  BY <2>1, <2>2, <2>3 DEF SysCritIsTop
<1>3. CASE CriticalityRises
  <2>1. PICK r \in attached :
          /\ spec' = spec /\ ~ (spec[r].crit < sysCrit) /\ sysCrit' = spec[r].crit
          /\ critq' = AddChain(critq, r, Crit)
    BY <1>3 DEF CriticalityRises
  <2>2. critq'.head = IF critq.head = Nil \/ Crit[critq.head] < Crit[r]
                      THEN r ELSE critq.head
    BY <2>1, AddChainIn
  <2>3. r \in Rid /\ Crit[r] = spec[r].crit /\ spec[r].crit \in Nat
    BY <2>1, ParamsAreNatural
  <2>4. CASE critq.head = Nil
    BY <2>1, <2>2, <2>3, <2>4 DEF SysCritIsTop
  <2>5. CASE critq.head # Nil
    <3>1. /\ critq.head \in Rid /\ Crit[critq.head] = spec[critq.head].crit
          /\ spec[critq.head].crit \in Nat
      BY <1>0, <2>5, ParamsAreNatural
    <3>2. sysCrit = spec[critq.head].crit
      BY <3>1 DEF SysCritIsTop
    <3> QED  BY <2>1, <2>2, <2>3, <2>5, <3>1, <3>2 DEF SysCritIsTop
  <2> QED  BY <2>4, <2>5
<1>4. CASE CriticalityFalls
  BY <1>4 DEF CriticalityFalls, TopCrit, SysCritIsTop
<1>5. CASE BlockedLeaves
  BY <1>5 DEF BlockedLeaves, SysCritIsTop
<1> QED  BY <1>1, <1>2, <1>3, <1>4, <1>5, CritMoves

LEMMA LinksWiden ==
  ASSUME NEW S, NEW T, S \subseteq T, NEW q, LinksIn(q, S)
  PROVE  LinksIn(q, T)
BY DEF LinksIn

LEMMA StackWidens ==
  ASSUME NEW A, NEW B, A \subseteq B, NEW d, StackOK(d, A)
  PROVE  StackOK(d, B)
<1>1. d.ready \in Seq(B) /\ d.stack \in Seq(B)
  BY DEF StackOK
<1> QED  BY <1>1 DEF StackOK

LEMMA NextCritInv ==
  ASSUME NoOneLeaves, CritInv, [Next]_vars
  PROVE  CritInv'
<1>1. StackInv' /\ attached \subseteq attached' /\ attached' \subseteq alive'
  BY NextStackInv, NobodyLeaves DEF CritInv
<1>2. IInv /\ attached \subseteq Rid /\ attached' \subseteq Rid
  BY <1>1, IInvFacts DEF CritInv, StackInv, IInv, TablesOK
<1>3. StackOK(disp, attached')
  BY <1>1, StackWidens DEF CritInv
<1>4. StackOK(disp', attached')
  <2>1. periodTimer \subseteq attached'
    BY <1>1, <1>2 DEF IInv, TablesOK, PeriodTimersOwned, NoOneLeaves
  <2> QED  BY <1>1, <1>2, <1>3, <2>1, NextReaches
<1>5. LinksIn(critq, attached') /\ LinksIn(blockq, attached')
  BY <1>1, LinksWiden DEF CritInv
<1>6. LinksIn(critq', attached') /\ LinksIn(blockq', attached')
  BY <1>1, <1>2, <1>5, NextChains
<1>7. SysCritIsTop'
  BY <1>2, NextTop DEF CritInv
<1> QED  BY <1>1, <1>4, <1>6, <1>7 DEF CritInv

LEMMA InitLinks == ASSUME NEW S, Init  PROVE LinksIn(critq, S) /\ LinksIn(blockq, S)
BY DEF Init, EmptyChain, LinksIn

LEMMA CritHolds == NoOneLeaves => (Spec => []CritInv)
<1> SUFFICES ASSUME NoOneLeaves  PROVE Spec => []CritInv
  OBVIOUS
<1>1. Init => CritInv
  <2> SUFFICES ASSUME Init  PROVE CritInv
    OBVIOUS
  <2>1. StackInv /\ StackOK(disp, attached)
    BY InitIInv, InitStackOK DEF StackInv
  <2>2. SysCritIsTop
    BY DEF Init, EmptyChain, SysCritIsTop, Nil, Rid
  <2> QED  BY <2>1, <2>2, InitLinks DEF CritInv, Init
<1>2. CritInv /\ [Next]_vars => CritInv'
  BY NextCritInv
<1> QED  BY <1>1, <1>2, PTL DEF Spec

(* sys_criticality is that of the top of the criticality stack, through    *)
(* zero-slack enforcement, departures and overruns in critical mode, for   *)
(* systems whose reserves stay: a slot that is handed out again while it   *)
(* is linked would change the criticality of the top.                      *)
THEOREM SystemCriticalityIsTop == NoOneLeaves => (Spec => []SysCritIsTop)
<1>1. CritInv => SysCritIsTop
  BY DEF CritInv
<1> QED  BY <1>1, CritHolds, PTL

-----------------------------------------------------------------------------
(* Types.                                                                  *)

SetsOK == (enforced \cup critical \cup nonPeriodic \cup endMarked \cup waitRelease) \subseteq Rid

CountersOK ==
  /\ startPeriod \in [Rid -> -START_PERIOD_DEPTH .. 1]
  /\ wakeups \in [Rid -> 0 .. UINT_SPAN - 1]

TasksOK == (alive \cup awake) \subseteq attached

Calls == [by : {"task"}, rid : Rid, call : {"WAIT_PERIOD", "END_PERIOD"},
          resume : BOOLEAN, left : 0 .. MAX_RESERVES + 1]

LockOK == lock \in {Free, Scheduler} \cup Calls

CritOK == sysCrit \in Nat /\ LinksIn(critq, Rid) /\ LinksIn(blockq, Rid)

TypesInv == StackInv /\ SetsOK /\ CountersOK /\ TasksOK /\ LockOK /\ CritOK

(* The counters stay in range: start_period is bounded from above by the   *)
(* treatment of overruns, num_period_wakeups wraps around.                 *)
LEMMA Counting ==
  ASSUME NEW n \in -START_PERIOD_DEPTH .. 1, NEW w \in 0 .. UINT_SPAN - 1
  PROVE  /\ Decremented(n) \in -START_PERIOD_DEPTH .. 1
         /\ \A m \in Incremented(n) :
              (IF Overrun(m) THEN m - 1 ELSE m) \in -START_PERIOD_DEPTH .. 1
         /\ (w + UINT_SPAN - 1) % UINT_SPAN \in 0 .. UINT_SPAN - 1
         /\ (IF (w + 1) % UINT_SPAN > 1 THEN 1 ELSE (w + 1) % UINT_SPAN)
              \in 0 .. UINT_SPAN - 1
         /\ 0 \in -START_PERIOD_DEPTH .. 1 /\ 1 \in -START_PERIOD_DEPTH .. 1
         /\ 0 \in 0 .. UINT_SPAN - 1
<1>1. START_PERIOD_DEPTH \in Nat /\ UINT_SPAN \in Nat \ {0}
  BY BoundsAssumption
<1>2. Decremented(n) \in -START_PERIOD_DEPTH .. 1
  BY <1>1 DEF Decremented
<1>3. ASSUME NEW m \in Incremented(n)
      PROVE  (IF Overrun(m) THEN m - 1 ELSE m) \in -START_PERIOD_DEPTH .. 1
  BY <1>1 DEF Incremented, Overrun
<1>4. \A v \in Nat : v % UINT_SPAN \in 0 .. UINT_SPAN - 1
  BY <1>1
<1>5. w + UINT_SPAN - 1 \in Nat /\ w + 1 \in Nat
  BY <1>1
<1>6. (w + UINT_SPAN - 1) % UINT_SPAN \in 0 .. UINT_SPAN - 1
  BY <1>4, <1>5
<1>7. (IF (w + 1) % UINT_SPAN > 1 THEN 1 ELSE (w + 1) % UINT_SPAN) \in 0 .. UINT_SPAN - 1
  <2> DEFINE v == (w + 1) % UINT_SPAN
  <2>1. v \in 0 .. UINT_SPAN - 1
    BY <1>4, <1>5
  <2> HIDE DEF v
  <2>2. (IF v > 1 THEN 1 ELSE v) \in 0 .. UINT_SPAN - 1
    BY <1>1, <2>1
  <2> QED  BY <2>2 DEF v
<1>8. 0 \in -START_PERIOD_DEPTH .. 1 /\ 1 \in -START_PERIOD_DEPTH .. 1
      /\ 0 \in 0 .. UINT_SPAN - 1
  BY <1>1
<1> QED  BY <1>2, <1>3, <1>6, <1>7, <1>8

(* sys_criticality and the two lists. *)
LEMMA NextCritOK ==
  ASSUME TypesInv, [Next]_vars
  PROVE  CritOK'
<1>1. IInv /\ CritOK /\ attached \subseteq Rid
  BY IInvFacts DEF TypesInv, StackInv
<1>2. LinksIn(critq', Rid) /\ LinksIn(blockq', Rid)
  BY <1>1, NextChains DEF CritOK
<1>3. sysCrit' \in Nat
  <2>1. CASE UNCHANGED <<spec, critVars>>
    BY <1>1, <2>1 DEF critVars, CritOK
  <2>2. CASE SlotMoves \/ BlockedLeaves
    BY <1>1, <2>2 DEF SlotMoves, BlockedLeaves, CritOK
  <2>3. CASE CriticalityRises
    BY <1>1, <2>3, ParamsAreNatural DEF CriticalityRises
  <2>4. CASE CriticalityFalls
    BY <1>1, <2>4, ParamsAreNatural DEF CriticalityFalls, TopCrit
  <2> QED  BY <1>1, <2>1, <2>2, <2>3, <2>4, CritMoves
<1> QED  BY <1>2, <1>3 DEF CritOK, LinksIn, Rid

RestOK == SetsOK /\ CountersOK /\ TasksOK /\ LockOK

(* CREATE_RSV, ATTACH_RSV and delete_reserve. *)
LEMMA TableRest ==
  ASSUME TypesInv, NEW r \in Rid,
         \/ (\E p : Create(r, p)) \/ Attach(r) \/ Delete(r) \/ TaskExit(r)
         \/ PeriodTimerOfDying(r)
  PROVE  RestOK'
<1>1. /\ SetsOK /\ CountersOK /\ TasksOK /\ LockOK
      /\ 0 \in -START_PERIOD_DEPTH .. 1 /\ 1 \in -START_PERIOD_DEPTH .. 1
      /\ 0 \in 0 .. UINT_SPAN - 1
  BY BoundsAssumption DEF TypesInv
<1>2. ASSUME NEW p, Create(r, p)  PROVE RestOK'
  <2>1. /\ startPeriod' = [startPeriod EXCEPT ![r] = 0] /\ wakeups' = [wakeups EXCEPT ![r] = 0]
        /\ nonPeriodic' = nonPeriodic \ {r} /\ endMarked' = endMarked \ {r}
        /\ waitRelease' = waitRelease \ {r}
        /\ UNCHANGED <<attached, enforced, critical, taskVars, lock>>
    BY <1>2 DEF Create
  <2>2. CountersOK'
    BY <1>1, <2>1 DEF CountersOK
  <2> QED  BY <1>1, <2>1, <2>2 DEF RestOK, SetsOK, TasksOK, LockOK, taskVars, Rid, Calls
<1>3. CASE Attach(r)
  <2>1. /\ startPeriod' = [startPeriod EXCEPT ![r] = 1]
        /\ attached' = attached \cup {r} /\ alive' = alive \cup {r} /\ awake' = awake \cup {r}
        /\ enforced' = enforced \ {r} /\ critical' = critical \ {r}
        /\ UNCHANGED <<waitVars, lock>>
    BY <1>3 DEF Attach
  <2>2. CountersOK'
    BY <1>1, <2>1 DEF CountersOK, waitVars
  <2> QED  BY <1>1, <2>1, <2>2 DEF RestOK, SetsOK, TasksOK, LockOK, waitVars, Rid, Calls
<1>4. CASE Delete(r) \/ PeriodTimerOfDying(r)
  <2>1. /\ attached' = attached \ {r} /\ alive' = alive \ {r} /\ awake' = awake \ {r}
        /\ UNCHANGED <<jobVars, waitVars, lock>>
    BY <1>4 DEF Delete, PeriodTimerOfDying, DeleteReserve, FreeSlot
  <2> QED  BY <1>1, <2>1 DEF RestOK, SetsOK, TasksOK, LockOK, CountersOK, jobVars, waitVars,
                             Rid, Calls
<1>5. CASE TaskExit(r)
  <2>1. /\ alive' = alive \ {r} /\ awake' = awake \ {r} /\ attached' = attached
        /\ UNCHANGED <<jobVars, waitVars, lock>>
    BY <1>5 DEF TaskExit, tableVars
  <2> QED  BY <1>1, <2>1 DEF RestOK, SetsOK, TasksOK, LockOK, CountersOK, jobVars, waitVars,
                             Rid, Calls
<1> QED  BY <1>2, <1>3, <1>4, <1>5

(* The timers. *)
LEMMA TimersRest ==
  ASSUME TypesInv, NEW r \in Rid,
         EnforcementTimer(r) \/ PeriodTimer(r) \/ ZeroSlackTimer(r) \/ TimerAborts(r)
  PROVE  RestOK'
<1>1. SetsOK /\ CountersOK /\ TasksOK /\ LockOK
  BY DEF TypesInv
<1>2. CASE UNCHANGED <<attached, jobVars, waitVars, taskVars, lock>>
  BY <1>1, <1>2 DEF RestOK, SetsOK, TasksOK, LockOK, CountersOK, jobVars, waitVars, taskVars,
                    Rid, Calls
<1>3. CASE EnforcementTimer(r) \/ TimerAborts(r)
  BY <1>2, <1>3 DEF EnforcementTimer, TimerAborts, tableVars
<1>4. CASE ZeroSlackTimer(r)
  <2>1. /\ critical' \subseteq critical \cup {r}
        /\ UNCHANGED <<attached, enforced, startPeriod, waitVars, taskVars, lock>>
    BY <1>4 DEF ZeroSlackTimer, ZsEnforcement, tableVars
  <2> QED  BY <1>1, <2>1 DEF RestOK, SetsOK, TasksOK, LockOK, CountersOK, waitVars, taskVars,
                             Rid, Calls
<1>5. CASE PeriodTimer(r) /\ r \notin Live
  BY <1>2, <1>5 DEF PeriodTimer, tableVars
<1>6. CASE PeriodTimer(r) /\ r \in Live
  <2>1. StartOfPeriod(r) /\ UNCHANGED <<attached, nonPeriodic, endMarked, alive, lock>>
    BY <1>6 DEF PeriodTimer, tableVars
  <2>2. PICK started \in Incremented(startPeriod[r]) :
          /\ startPeriod' = [startPeriod EXCEPT ![r] = IF Overrun(started) THEN started - 1
                                                                      ELSE started]
          /\ critical' = critical \ {r} /\ enforced' \subseteq enforced
          /\ \/ wakeups' = wakeups
             \/ wakeups' = [wakeups EXCEPT ![r] =
                              IF (wakeups[r] + 1) % UINT_SPAN > 1 THEN 1
                                                       ELSE (wakeups[r] + 1) % UINT_SPAN]
          /\ waitRelease' \subseteq waitRelease /\ awake' \subseteq awake \cup {r}
    BY <2>1 DEF StartOfPeriod
  <2>3. startPeriod[r] \in -START_PERIOD_DEPTH .. 1 /\ wakeups[r] \in 0 .. UINT_SPAN - 1
    BY <1>1 DEF CountersOK
  <2>4. /\ (IF Overrun(started) THEN started - 1 ELSE started) \in -START_PERIOD_DEPTH .. 1
        /\ (IF (wakeups[r] + 1) % UINT_SPAN > 1 THEN 1 ELSE (wakeups[r] + 1) % UINT_SPAN)
              \in 0 .. UINT_SPAN - 1
    BY <2>3, Counting
  <2>5. CountersOK'
    <3> DEFINE x == IF Overrun(started) THEN started - 1 ELSE started
               y == IF (wakeups[r] + 1) % UINT_SPAN > 1 THEN 1
                                                       ELSE (wakeups[r] + 1) % UINT_SPAN
    <3>1. x \in -START_PERIOD_DEPTH .. 1 /\ y \in 0 .. UINT_SPAN - 1
      BY <2>4
    <3>2. /\ startPeriod' = [startPeriod EXCEPT ![r] = x]
          /\ wakeups' = wakeups \/ wakeups' = [wakeups EXCEPT ![r] = y]
      BY <2>2
    <3> HIDE DEF x, y
    <3> QED  BY <1>1, <3>1, <3>2 DEF CountersOK
  <2>6. r \in attached
    BY <1>6 DEF Live
  <2> QED  BY <1>1, <2>1, <2>2, <2>5, <2>6 DEF RestOK, SetsOK, TasksOK, LockOK, Rid, Calls
<1> QED  BY <1>3, <1>4, <1>5, <1>6

(* The end of a call. *)
LEMMA ReturnRest ==
  ASSUME SetsOK, CountersOK, TasksOK, NEW r \in Rid, NEW call, Return(r, call)
  PROVE  /\ wakeups' \in [Rid -> 0 .. UINT_SPAN - 1] /\ awake' \subseteq awake
         /\ lock' = Free
<1> DEFINE x == (wakeups[r] + UINT_SPAN - 1) % UINT_SPAN
<1>1. x \in 0 .. UINT_SPAN - 1
  <2>1. wakeups[r] \in 0 .. UINT_SPAN - 1 /\ 1 \in -START_PERIOD_DEPTH .. 1
    BY BoundsAssumption DEF CountersOK
  <2> QED  BY <2>1, Counting
<1>2. /\ wakeups' = wakeups \/ wakeups' = [wakeups EXCEPT ![r] = x]
      /\ awake' \subseteq awake /\ lock' = Free
  BY DEF Return
<1> HIDE DEF x
<1> QED  BY <1>1, <1>2 DEF CountersOK

(* The system calls. *)
LEMMA CallsRest ==
  ASSUME TypesInv, NEW r \in Rid,
         WaitForNextPeriod(r) \/ EndOfPeriod(r) \/ WaitForNextRelease(r)
  PROVE  RestOK'
<1>1. SetsOK /\ CountersOK /\ TasksOK /\ LockOK /\ IInv
  BY DEF TypesInv, StackInv
<1>2. ASSUME NEW call \in {"WAIT_PERIOD", "END_PERIOD"}, Departure(r, call),
             nonPeriodic' \subseteq nonPeriodic \cup {r}, endMarked' \subseteq endMarked \cup {r}
      PROVE  RestOK'
  <2> DEFINE x == Decremented(startPeriod[r])
  <2>1. /\ startPeriod' = [startPeriod EXCEPT ![r] = x]
        /\ UNCHANGED <<attached, enforced, waitRelease, alive>>
        /\ \/ /\ critical' = critical \ {r} /\ UNCHANGED <<awake, wakeups>>
              /\ \E resume \in BOOLEAN :
                   lock' = Releasing(r, call, resume, MAX_RESERVES + 1)
           \/ critical' = critical /\ Return(r, call)
    BY <1>2 DEF Departure, tableVars
  <2>2. x \in -START_PERIOD_DEPTH .. 1
    <3>1. startPeriod[r] \in -START_PERIOD_DEPTH .. 1 /\ wakeups[r] \in 0 .. UINT_SPAN - 1
      BY <1>1 DEF CountersOK
    <3> QED  BY <3>1, Counting
  <2> HIDE DEF x
  <2>3. startPeriod' \in [Rid -> -START_PERIOD_DEPTH .. 1]
    BY <1>1, <2>1, <2>2 DEF CountersOK
  <2>4. /\ wakeups' \in [Rid -> 0 .. UINT_SPAN - 1] /\ awake' \subseteq awake
        /\ lock' \in {Free} \cup Calls
    <3>1. CASE Return(r, call)
      BY <1>1, <3>1, ReturnRest
    <3>2. ASSUME NEW resume \in BOOLEAN, lock' = Releasing(r, call, resume, MAX_RESERVES + 1)
          PROVE  lock' \in Calls
      BY <1>2, <3>2, MaxReservesAssumption DEF Releasing, Calls
    <3> QED  BY <1>1, <2>1, <3>1, <3>2 DEF CountersOK
  <2>5. critical' \subseteq critical
    BY <2>1
  <2>6. SetsOK' /\ TasksOK'
    BY <1>1, <1>2, <2>1, <2>4, <2>5 DEF SetsOK, TasksOK, Rid
  <2> QED  BY <2>3, <2>4, <2>6 DEF RestOK, CountersOK, LockOK, Rid, Calls
<1>3. CASE WaitForNextPeriod(r) \/ EndOfPeriod(r)
  BY <1>2, <1>3 DEF WaitForNextPeriod, EndOfPeriod
<1>4. CASE WaitForNextRelease(r)
  <2> DEFINE x == (wakeups[r] + UINT_SPAN - 1) % UINT_SPAN
  <2>1. /\ wakeups' = [wakeups EXCEPT ![r] = x]
        /\ endMarked' \subseteq endMarked /\ awake' \subseteq awake
        /\ waitRelease' \subseteq waitRelease \cup {r}
        /\ UNCHANGED <<attached, jobVars, nonPeriodic, alive, lock>>
    BY <1>4 DEF WaitForNextRelease, tableVars
  <2>2. x \in 0 .. UINT_SPAN - 1
    <3>1. wakeups[r] \in 0 .. UINT_SPAN - 1 /\ 1 \in -START_PERIOD_DEPTH .. 1
      BY <1>1, BoundsAssumption DEF CountersOK
    <3> QED  BY <3>1, Counting
  <2> HIDE DEF x
  <2>3. CountersOK'
    BY <1>1, <2>1, <2>2 DEF CountersOK, jobVars
  <2> QED  BY <1>1, <2>1, <2>3 DEF RestOK, SetsOK, TasksOK, LockOK, jobVars, Rid, Calls
<1> QED  BY <1>3, <1>4

(* The loop over crit_blockq. *)
LEMMA LoopRest ==
  ASSUME TypesInv, Unblock \/ ReturnFromCall
  PROVE  RestOK'
<1>1. SetsOK /\ CountersOK /\ TasksOK /\ LockOK
  BY DEF TypesInv
<1>2. ASSUME lock.by = "task"  PROVE lock \in Calls
  BY <1>1, <1>2 DEF LockOK, Free, Scheduler
<1>3. CASE Unblock
  <2>1. /\ lock.by = "task" /\ lock.left > 0 /\ lock' = [lock EXCEPT !.left = @ - 1]
        /\ UNCHANGED <<jobVars, waitVars>>
    BY <1>3 DEF Unblock, UnblockGoesOn
  <2>2. lock' \in Calls
    <3> DEFINE x == lock.left - 1
    <3>1. lock \in Calls /\ lock.left \in 0 .. MAX_RESERVES + 1
      BY <1>2, <2>1 DEF Calls
    <3>2. x \in 0 .. MAX_RESERVES + 1
      BY <2>1, <3>1, MaxReservesAssumption
    <3>3. lock' = [lock EXCEPT !.left = x]
      BY <2>1
    <3> HIDE DEF x
    <3> QED  BY <3>1, <3>2, <3>3 DEF Calls
  <2>3. TasksOK'
    <3> DEFINE t == blockq.head
    <3>1. \/ UNCHANGED <<tableVars, taskVars>>
          \/ t \in Live /\ awake' = awake \cup {t} /\ UNCHANGED <<tableVars, alive>>
          \/ DeleteReserve(disp, t)
      BY <1>3 DEF Unblock
    <3> HIDE DEF t
    <3> QED  BY <1>1, <3>1 DEF TasksOK, tableVars, taskVars, DeleteReserve, FreeSlot, Live
  <2> QED  BY <1>1, <2>1, <2>2, <2>3 DEF RestOK, SetsOK, CountersOK, LockOK, jobVars, waitVars,
                                         Rid, Calls
<1>4. CASE ReturnFromCall
  <2>1. /\ lock.by = "task" /\ Return(lock.rid, lock.call)
        /\ UNCHANGED <<tableVars, jobVars, nonPeriodic, endMarked, waitRelease, alive>>
    BY <1>4 DEF ReturnFromCall
  <2>2. lock.rid \in Rid
    BY <1>2, <2>1 DEF Calls
  <2>3. /\ wakeups' \in [Rid -> 0 .. UINT_SPAN - 1] /\ awake' \subseteq awake
        /\ lock' = Free
    BY <1>1, <2>1, <2>2, ReturnRest
  <2> QED  BY <1>1, <2>1, <2>3 DEF RestOK, SetsOK, CountersOK, TasksOK, LockOK, jobVars,
                                   tableVars, Rid, Calls
<1> QED  BY <1>3, <1>4

(* The scheduler thread. *)
LEMMA SchedulerRest ==
  ASSUME TypesInv,
         SchedulerEnters \/ SchedulerPops \/ SchedulerUnlocks \/ SchedulerSleeps
  PROVE  RestOK'
<1>1. SetsOK /\ CountersOK /\ TasksOK /\ LockOK /\ StackOK(disp, Rid)
  BY DEF TypesInv, StackInv
<1>2. CASE SchedulerEnters \/ SchedulerUnlocks \/ SchedulerSleeps
  <2>1. /\ lock' = lock \/ lock' \in {Free, Scheduler}
        /\ UNCHANGED <<attached, jobVars, waitVars, taskVars>>
    BY <1>2 DEF SchedulerEnters, SchedulerUnlocks, SchedulerSleeps, tableVars
  <2> QED  BY <1>1, <2>1 DEF RestOK, SetsOK, TasksOK, LockOK, CountersOK, jobVars, waitVars,
                             taskVars, Rid, Calls
<1>3. CASE SchedulerPops
  <2> DEFINE r == Last(disp.stack)
             x == Decremented(startPeriod[r])
  <2>1. r \in Rid
    BY <1>1, <1>3, PoppedRequestIs DEF SchedulerPops
  <2>2. /\ enforced' \subseteq enforced \cup {r} /\ critical' = critical
        /\ startPeriod' = startPeriod \/ startPeriod' = [startPeriod EXCEPT ![r] = x]
        /\ UNCHANGED <<waitVars, lock>>
    BY <1>3 DEF SchedulerPops, jobVars
  <2>3. \/ UNCHANGED <<attached, alive>> /\ awake' \subseteq awake
        \/ r \in Live /\ UNCHANGED <<attached, alive>> /\ awake' = awake \cup {r}
        \/ DeleteReserve(PoppedRequest(disp), r)
    BY <1>3 DEF SchedulerPops, tableVars, taskVars
  <2>4. x \in -START_PERIOD_DEPTH .. 1
    <3>1. startPeriod[r] \in -START_PERIOD_DEPTH .. 1 /\ wakeups[r] \in 0 .. UINT_SPAN - 1
      BY <1>1, <2>1 DEF CountersOK
    <3> HIDE DEF r
    <3> QED  BY <3>1, Counting
  <2> HIDE DEF r, x
  <2>5. TasksOK'
    BY <1>1, <2>3 DEF TasksOK, DeleteReserve, FreeSlot, Live
  <2>6. CountersOK'
    BY <1>1, <2>1, <2>2, <2>4 DEF CountersOK, waitVars
  <2> QED  BY <1>1, <2>1, <2>2, <2>5, <2>6 DEF RestOK, SetsOK, LockOK, waitVars, Rid, Calls
<1> QED  BY <1>2, <1>3

LEMMA NextTypes ==
  ASSUME TypesInv, [Next]_vars
  PROVE  TypesInv'
<1>1. StackInv' /\ CritOK'
  BY NextStackInv, NextCritOK DEF TypesInv
<1>2. CASE UNCHANGED vars
  <2>1. UNCHANGED <<attached, jobVars, waitVars, taskVars, lock>>
    BY <1>2 DEF vars, tableVars
  <2>2. RestOK'
    BY <2>1 DEF TypesInv, RestOK, SetsOK, TasksOK, LockOK, CountersOK, jobVars, waitVars,
                taskVars, Rid, Calls
  <2> QED  BY <1>1, <2>2 DEF TypesInv, RestOK
<1>3. CASE Next
  <2>1. RestOK'
    BY <1>3, TableRest, TimersRest, CallsRest, LoopRest, SchedulerRest DEF Next
  <2> QED  BY <1>1, <2>1 DEF TypesInv, RestOK
<1> QED  BY <1>2, <1>3

(* So the types hold in all reachable states. *)
LEMMA TypesHold == Spec => []TypesInv
<1>1. Init => TypesInv
  <2> SUFFICES ASSUME Init  PROVE TypesInv
    OBVIOUS
  <2>1. StackInv /\ LinksIn(critq, Rid) /\ LinksIn(blockq, Rid)
    BY InitIInv, InitStackOK, InitLinks DEF StackInv
  <2>2. 0 \in -START_PERIOD_DEPTH .. 1 /\ 0 \in 0 .. UINT_SPAN - 1
    BY BoundsAssumption
  <2>3. CountersOK
    BY <2>2 DEF Init, CountersOK
  <2>4. SetsOK /\ TasksOK /\ LockOK /\ sysCrit \in Nat
    BY DEF Init, SetsOK, TasksOK, LockOK
  <2> QED  BY <2>1, <2>3, <2>4 DEF TypesInv, CritOK
<1>2. TypesInv /\ [Next]_vars => TypesInv'
  BY NextTypes
<1> QED  BY <1>1, <1>2, PTL DEF Spec

(* The type invariant: num_period_wakeups and start_period stay in range,  *)
(* the two criticality lists link reserves only, whatever is created,      *)
(* deleted and added twice, and no task is known of a free slot.           *)
THEOREM AllTypesCorrect == Spec => []TypeOK
<1>1. TypesInv => TypeOK
  <2> SUFFICES ASSUME TypesInv  PROVE TypeOK
    OBVIOUS
  <2>1. DispatcherTypeOK
    <3>1. IInv /\ attached \subseteq Rid /\ DispatcherOK(disp, attached, prio)
      BY IInvFacts DEF TypesInv, StackInv
    <3>2. disp.ready \in Seq(Rid)
      BY <3>1 DEF DispatcherOK
    <3> QED  BY <3>1, <3>2 DEF IInv, TablesOK, RmQueueOK, DispatcherOK, DispatcherTypeOK
  <2>2. disp.stack \in Seq(Rid) /\ Len(disp.stack) <= STACK_SIZE
        /\ disp.sched \in {"asleep", "runnable", "running", "leaving"}
    BY DEF TypesInv, StackInv, StackOK, SchedStates
  <2>3. ChainTypeOK(critq) /\ ChainTypeOK(blockq) /\ sysCrit \in Nat
    BY DEF TypesInv, CritOK, LinksIn, ChainTypeOK
  <2> QED  BY <2>1, <2>2, <2>3 DEF TypesInv, TypeOK, SetsOK, CountersOK, TasksOK, LockOK, Calls
<1> QED  BY <1>1, TypesHold, PTL

=============================================================================
