------------------------ MODULE ZsrmSchedulerProofs ------------------------
(***************************************************************************)
(* What holds of ZsrmScheduler for every number of reserves, every set of  *)
(* parameters, every stack size and every choice of features: types, the   *)
(* order of the two queues, and that timers follow the head of the ready   *)
(* queue and do not outlive their slots.                                   *)
(***************************************************************************)
EXTENDS ZsrmScheduler, ZsrmQueueLemmas

(* Orders, in the sense of Ordered. *)
Falling(pr) == {p \in Rid \X Rid : pr[p[1]] > pr[p[2]]}
ByPeriod(sp) ==
  {p \in Rid \X Rid : p[1] # p[2] /\ sp[p[1]].period <= sp[p[2]].period}
Ranked(A, pr) == {p \in Rid \X Rid : p[1] \in A /\ p[2] \in A => pr[p[1]] > pr[p[2]]}

HeadSet(q) == IF q = <<>> THEN {} ELSE {Head(q)}

IsDispatcher(d) ==
  d = [ready |-> d.ready, enf |-> d.enf, zs |-> d.zs, spent |-> d.spent,
       stop |-> d.stop, stack |-> d.stack, sched |-> d.sched]

(* A dispatcher whose jobs and timers are those of the reserves A. *)
DispatcherOK(d, A, pr) ==
  /\ IsDispatcher(d)
  /\ d.ready \in Seq(A)
  /\ Ordered(d.ready, Falling(pr))
  /\ d.enf \subseteq A /\ d.zs \subseteq A
  /\ d.spent \subseteq Rid /\ d.stop \subseteq Rid

(* Period timers are those of attached reserves, unless tasks end in the   *)
(* handlers of theirs.                                                     *)
PeriodTimersOwned == "exit" \in Features \/ periodTimer \subseteq attached

(* A slot is created or attached, never both. *)
TablesOK ==
  /\ created \subseteq Rid /\ attached \subseteq Rid /\ created \cap attached = {}
  /\ spec \in [Rid -> Params \cup {NoParams}]
  /\ prio \in [Rid -> Int]
  /\ periodTimer \subseteq Rid /\ PeriodTimersOwned

(* The RM queue is in order of period, and the priorities of the attached  *)
(* reserves, which an attach renumbers, fall along it at any time.         *)
RmQueueOK ==
  /\ rmq \in Seq(Rid)
  /\ ToSet(rmq) = created \cup attached
  /\ Ordered(rmq, ByPeriod(spec))
  /\ Ordered(rmq, Ranked(attached, prio))

(* The inductive invariant. *)
IInv ==
  /\ TablesOK
  /\ RmQueueOK
  /\ DispatcherOK(disp, attached, prio)
  /\ disp.enf \subseteq HeadSet(disp.ready)

-----------------------------------------------------------------------------
(* The dispatcher's functions.                                             *)

(* One field at a time. *)
LEMMA SetEnf ==
  ASSUME NEW A, NEW pr, NEW d, DispatcherOK(d, A, pr), NEW x, x \subseteq A
  PROVE  LET e == [d EXCEPT !.enf = x]
         IN  DispatcherOK(e, A, pr) /\ e.ready = d.ready /\ e.enf = x
BY DEF DispatcherOK, IsDispatcher

(* The zero-slack timers may be those of any attached reserves. *)
LEMMA SetZs ==
  ASSUME NEW A, NEW pr, NEW d, DispatcherOK(d, A, pr), NEW x, x \subseteq A
  PROVE  LET e == [d EXCEPT !.zs = x]
         IN  /\ DispatcherOK(e, A, pr) /\ e.ready = d.ready /\ e.enf = d.enf
             /\ e.zs = x
BY DEF DispatcherOK, IsDispatcher

(* Which budgets are used up does not matter to the queue and the timers. *)
LEMMA SetSpent ==
  ASSUME NEW A, NEW pr, NEW d, DispatcherOK(d, A, pr), NEW x, x \subseteq Rid
  PROVE  LET e == [d EXCEPT !.spent = x]
         IN  DispatcherOK(e, A, pr) /\ e.ready = d.ready /\ e.enf = d.enf
BY DEF DispatcherOK, IsDispatcher

(* Nor do the requests to stop a job. *)
LEMMA SetStop ==
  ASSUME NEW A, NEW pr, NEW d, DispatcherOK(d, A, pr), NEW x, x \subseteq Rid
  PROVE  LET e == [d EXCEPT !.stop = x]
         IN  DispatcherOK(e, A, pr) /\ e.ready = d.ready /\ e.enf = d.enf
BY DEF DispatcherOK, IsDispatcher

(* Nor does the reschedule stack. *)
LEMMA SetStack ==
  ASSUME NEW A, NEW pr, NEW d, DispatcherOK(d, A, pr), NEW x
  PROVE  LET e == [d EXCEPT !.stack = x]
         IN  DispatcherOK(e, A, pr) /\ e.ready = d.ready /\ e.enf = d.enf
BY DEF DispatcherOK, IsDispatcher

(* Nor does the state of the scheduler thread. *)
LEMMA SetSched ==
  ASSUME NEW A, NEW pr, NEW d, DispatcherOK(d, A, pr), NEW x
  PROVE  LET e == [d EXCEPT !.sched = x]
         IN  DispatcherOK(e, A, pr) /\ e.ready = d.ready /\ e.enf = d.enf
BY DEF DispatcherOK, IsDispatcher

(* The ready queue may be replaced by any other that is in order. *)
LEMMA SetReady ==
  ASSUME NEW A, NEW B, B \subseteq Rid, NEW pr, NEW d, DispatcherOK(d, A, pr),
         A \subseteq B,
         NEW q \in Seq(B), Ordered(q, Falling(pr))
  PROVE  LET e == [d EXCEPT !.ready = q]
         IN  DispatcherOK(e, B, pr) /\ e.ready = q /\ e.enf = d.enf
BY DEF DispatcherOK, IsDispatcher

(* push_to_reschedule and wake_up_process leave the queue and the timers   *)
(* alone.                                                                  *)
LEMMA PushOK ==
  ASSUME NEW A, NEW pr, NEW d, DispatcherOK(d, A, pr), NEW r
  PROVE  LET e == WakeScheduler(Push(d, r))
         IN  DispatcherOK(e, A, pr) /\ e.ready = d.ready /\ e.enf = d.enf
<1> DEFINE d1 == Push(d, r)
           e == WakeScheduler(d1)
<1>1. DispatcherOK(d1, A, pr) /\ d1.ready = d.ready /\ d1.enf = d.enf
  BY SetStack DEF Push
<1> HIDE DEF d1
<1>2. DispatcherOK(e, A, pr) /\ e.ready = d1.ready /\ e.enf = d1.enf
  BY <1>1, SetSched DEF WakeScheduler
<1> HIDE DEF e
<1> QED  BY <1>1, <1>2 DEF e, d1

(* budget_enforcement with a request to stop the job, and without. *)
RequestStop(d, r, defer) == BudgetEnforcement(d, r, TRUE, defer)
SkipStop(d, r) == BudgetEnforcement(d, r, FALSE, {})

(* budget_enforcement of the job at the head arms at most its own timer. *)
LEMMA RequestStopOK ==
  ASSUME NEW A, A \subseteq Rid, NEW pr, NEW d, DispatcherOK(d, A, pr),
         NEW r \in A, NEW defer
  PROVE  LET e == RequestStop(d, r, defer)
         IN  /\ DispatcherOK(e, A, pr)
             /\ e.ready = d.ready /\ e.enf \subseteq d.enf \cup {r}
<1> DEFINE e == RequestStop(d, r, defer)
<1>1. CASE r \in defer
  <2> DEFINE x == d.enf \cup {r}
             y == d.spent \ {r}
             d1 == [d EXCEPT !.enf = x]
  <2>1. e = [d1 EXCEPT !.spent = y]
    BY <1>1 DEF BudgetEnforcement, RequestStop
  <2>2. x \subseteq A /\ y \subseteq Rid
    BY DEF DispatcherOK
  <2> HIDE DEF x, y, e
  <2>3. DispatcherOK(d1, A, pr) /\ d1.ready = d.ready /\ d1.enf = x
    BY <2>2, SetEnf
  <2> HIDE DEF d1
  <2>4. DispatcherOK(e, A, pr) /\ e.ready = d.ready /\ e.enf = x
    BY <2>1, <2>2, <2>3, SetSpent
  <2> QED  BY <2>4 DEF e, x
<1>2. CASE r \notin defer
  <2> DEFINE x == d.zs \ {r}
             y == d.stop \cup {r}
             d1 == [d EXCEPT !.zs = x]
             d2 == [d1 EXCEPT !.stop = y]
  <2>1. e = WakeScheduler(Push(d2, r))
    BY <1>2 DEF BudgetEnforcement, RequestStop
  <2>2. x \subseteq A /\ y \subseteq Rid
    BY DEF DispatcherOK
  <2> HIDE DEF x, y, e
  <2>3. DispatcherOK(d1, A, pr) /\ d1.ready = d.ready /\ d1.enf = d.enf
    BY <2>2, SetZs
  <2> HIDE DEF d1
  <2>4. DispatcherOK(d2, A, pr) /\ d2.ready = d.ready /\ d2.enf = d.enf
    BY <2>2, <2>3, SetStop
  <2> HIDE DEF d2
  <2>5. DispatcherOK(e, A, pr) /\ e.ready = d.ready /\ e.enf = d.enf
    BY <2>1, <2>4, PushOK
  <2> QED  BY <2>5 DEF e
<1> QED  BY <1>1, <1>2

(* budget_enforcement at the start of a period only disarms the zero-slack *)
(* timer.                                                                  *)
LEMMA SkipStopOK ==
  ASSUME NEW A, NEW pr, NEW d, DispatcherOK(d, A, pr), NEW r
  PROVE  LET e == SkipStop(d, r)
         IN  DispatcherOK(e, A, pr) /\ e.ready = d.ready /\ e.enf = d.enf
<1> DEFINE x == d.zs \ {r}
<1>1. SkipStop(d, r) = [d EXCEPT !.zs = x]
  BY DEF BudgetEnforcement, SkipStop
<1>2. x \subseteq A
  BY DEF DispatcherOK
<1> HIDE DEF x
<1> QED  BY <1>1, <1>2, SetZs

(* start_enforcement_timer: once no timer is armed, the head's is the only *)
(* one to be armed.                                                        *)
LEMMA RunHeadOK ==
  ASSUME NEW A, A \subseteq Rid, NEW pr, NEW d, DispatcherOK(d, A, pr), NEW defer
  PROVE  LET e == RunHead(d, defer)
         IN  /\ DispatcherOK(e, A, pr)
             /\ e.ready = d.ready
             /\ e.enf \subseteq d.enf \cup HeadSet(d.ready)
<1>1. CASE d.ready = <<>>
  BY <1>1 DEF RunHead
<1>2. CASE d.ready # <<>>
  <2> DEFINE h == Head(d.ready)
  <2>1. h \in A /\ HeadSet(d.ready) = {h}
    BY <1>2, TailIs, ToSetIs DEF DispatcherOK, HeadSet
  <2>2. CASE h \in d.spent
    <3>1. RunHead(d, defer) = RequestStop(d, h, defer)
      BY <1>2, <2>2 DEF RunHead, RequestStop
    <3> HIDE DEF h
    <3> QED  BY <2>1, <3>1, RequestStopOK
  <2>3. CASE h \notin d.spent
    <3> DEFINE x == d.enf \cup {h}
    <3>1. RunHead(d, defer) = [d EXCEPT !.enf = x]
      BY <1>2, <2>3 DEF RunHead
    <3>2. x \subseteq A /\ x = d.enf \cup HeadSet(d.ready)
      BY <2>1 DEF DispatcherOK
    <3> HIDE DEF x
    <3> QED  BY <3>1, <3>2, SetEnf
  <2> QED  BY <2>2, <2>3
<1> QED  BY <1>1, <1>2

(* Suspending the job at the head leaves no enforcement timer armed. *)
LEMMA SuspendOK ==
  ASSUME NEW A, A \subseteq Rid, NEW pr, NEW d, DispatcherOK(d, A, pr),
         d.enf \subseteq HeadSet(d.ready), d.ready # <<>>, NEW late
  PROVE  LET e == Suspend(d, late)
         IN  DispatcherOK(e, A, pr) /\ e.ready = d.ready /\ e.enf = {}
<1> DEFINE h == Head(d.ready)
           x == d.enf \ {h}
           y == d.spent \cup ({h} \cap late)
           d1 == [d EXCEPT !.enf = x]
           e == [d1 EXCEPT !.spent = y]
<1>1. h \in A /\ HeadSet(d.ready) = {h}
  BY TailIs, ToSetIs DEF DispatcherOK, HeadSet
<1>2. Suspend(d, late) = e
  BY DEF Suspend
<1>3. x = {} /\ x \subseteq A /\ y \subseteq Rid
  BY <1>1 DEF DispatcherOK
<1> HIDE DEF x, y
<1>4. DispatcherOK(d1, A, pr) /\ d1.ready = d.ready /\ d1.enf = {}
  BY <1>3, SetEnf
<1> HIDE DEF d1
<1>5. DispatcherOK(e, A, pr) /\ e.ready = d.ready /\ e.enf = {}
  BY <1>3, <1>4, SetSpent
<1> HIDE DEF e
<1> QED  BY <1>2, <1>5

(* Jobs of different priority are different. *)
LEMMA FallingDistinct ==
  ASSUME NEW A, A \subseteq Rid, NEW pr \in [Rid -> Int], NEW q \in Seq(A),
         Ordered(q, Falling(pr))
  PROVE  \A a, b \in 1 .. Len(q) : a < b => q[a] # q[b]
<1> TAKE a, b \in 1 .. Len(q)
<1>1. q[a] \in Rid /\ q[b] \in Rid
  OBVIOUS
<1>2. a < b => pr[q[a]] > pr[q[b]]
  BY DEF Ordered, Falling
<1> QED  BY <1>1, <1>2

(* start_stac: the priorities of the reserves in A are all different. *)
LEMMA StartOK ==
  ASSUME NEW A, A \subseteq Rid, NEW pr \in [Rid -> Int],
         \A x, y \in A : x # y => pr[x] # pr[y],
         NEW d, DispatcherOK(d, A, pr), d.enf \subseteq HeadSet(d.ready),
         NEW r \in A, NEW late, NEW defer
  PROVE  LET e == Start(d, r, pr, late, defer)
         IN  DispatcherOK(e, A, pr) /\ e.enf \subseteq HeadSet(e.ready)
<1> DEFINE e == Start(d, r, pr, late, defer)
<1>1. CASE r \in ToSet(d.ready)
  BY <1>1 DEF Start
<1>2. CASE r \notin ToSet(d.ready) /\ d.ready = <<>>
  <2> DEFINE q == <<r>>
             d1 == [d EXCEPT !.ready = q]
  <2>1. q \in Seq(A) /\ Ordered(q, Falling(pr))
    BY DEF Ordered
  <2> HIDE DEF q
  <2>2. DispatcherOK(d1, A, pr) /\ d1.ready = q /\ d1.enf = d.enf
    BY <2>1, SetReady
  <2>3. d1.enf = {}
    BY <1>2, <2>2 DEF HeadSet
  <2>4. e = RunHead(d1, defer)
    BY <1>2 DEF Start, q
  <2> HIDE DEF d1, e
  <2> QED  BY <2>2, <2>3, <2>4, RunHeadOK DEF e
<1>3. CASE r \notin ToSet(d.ready) /\ d.ready # <<>>
  <2> DEFINE d1 == Suspend(d, late)
             S == {x \in ToSet(d.ready) : pr[x] < pr[r]}
             q == InsertBefore(d.ready, r, S)
             d2 == [d1 EXCEPT !.ready = q]
  <2>1. DispatcherOK(d1, A, pr) /\ d1.ready = d.ready /\ d1.enf = {}
    BY <1>3, SuspendOK
  <2>2. d.ready \in Seq(A) /\ Ordered(d.ready, Falling(pr))
    BY DEF DispatcherOK
  <2>3. q \in Seq(A)
    BY <2>2, InsertBeforeIs
  <2>4. Ordered(q, Falling(pr))
    <3> DEFINE k == FirstIn(d.ready, S)
    <3>1. /\ k \in 1 .. Len(d.ready) + 1
          /\ \A j \in 1 .. k - 1 : d.ready[j] \notin S
          /\ k <= Len(d.ready) => d.ready[k] \in S
      BY <2>2, FirstInIs
    <3> HIDE DEF k
    <3>2. ASSUME NEW j \in 1 .. k - 1  PROVE <<d.ready[j], r>> \in Falling(pr)
      <4>1. j \in 1 .. Len(d.ready)
        BY <2>2, <3>1
      <4>2. d.ready[j] \in A /\ d.ready[j] \in ToSet(d.ready)
        BY <2>2, <4>1, ToSetIs
      <4>3. d.ready[j] # r /\ ~ (pr[d.ready[j]] < pr[r])
        BY <1>3, <3>1, <4>2
      <4> QED  BY <4>2, <4>3 DEF Falling
    <3>3. ASSUME NEW j \in k .. Len(d.ready)  PROVE <<r, d.ready[j]>> \in Falling(pr)
      <4>1. /\ j \in 1 .. Len(d.ready) /\ k \in 1 .. Len(d.ready)
            /\ d.ready[j] \in A /\ d.ready[k] \in A
        BY <2>2, <3>1
      <4>2. pr[d.ready[k]] < pr[r]
        BY <3>1, <4>1
      <4>3. k = j \/ pr[d.ready[k]] > pr[d.ready[j]]
        <5>1. k < j => <<d.ready[k], d.ready[j]>> \in Falling(pr)
          BY <2>2, <4>1 DEF Ordered
        <5>2. k < j \/ k = j
          BY <3>1
        <5> QED  BY <5>1, <5>2 DEF Falling
      <4>4. pr[r] > pr[d.ready[j]]
        BY <4>1, <4>2, <4>3
      <4> QED  BY <4>1, <4>4 DEF Falling
    <3> HIDE DEF S
    <3> QED  BY <2>2, <3>2, <3>3, InsertBeforeOrdered DEF k
  <2> HIDE DEF q
  <2>5. DispatcherOK(d2, A, pr) /\ d2.ready = q /\ d2.enf = d1.enf
    BY <2>1, <2>3, <2>4, SetReady
  <2>6. e = RunHead(d2, defer)
    BY <1>3, <2>1 DEF Start, AddReadyq, q
  <2> HIDE DEF d1, d2, e
  <2>7. d2.enf = {}
    BY <2>1, <2>5
  <2> QED  BY <2>5, <2>6, <2>7, RunHeadOK DEF e
<1> QED  BY <1>1, <1>2, <1>3

(* stop_stac *)
LEMMA StopOK ==
  ASSUME NEW A, A \subseteq Rid, NEW pr \in [Rid -> Int],
         NEW d, DispatcherOK(d, A, pr), d.enf \subseteq HeadSet(d.ready),
         NEW r, NEW late, NEW defer
  PROVE  LET e == Stop(d, r, late, defer)
         IN  /\ DispatcherOK(e, A, pr) /\ e.enf \subseteq HeadSet(e.ready)
             /\ r \notin ToSet(e.ready)
<1> DEFINE e == Stop(d, r, late, defer)
<1>a. /\ d.ready \in Seq(A) /\ Ordered(d.ready, Falling(pr))
      /\ \A a, b \in 1 .. Len(d.ready) : a < b => d.ready[a] # d.ready[b]
  BY FallingDistinct DEF DispatcherOK
<1>1. CASE r \notin ToSet(d.ready)
  BY <1>1 DEF Stop
<1>2. CASE r \in ToSet(d.ready) /\ r = Head(d.ready)
  <2> DEFINE d1 == Suspend(d, late)
             q  == Tail(d.ready)
             d2 == [d1 EXCEPT !.ready = q]
  <2>0. d.ready # <<>>
    BY <1>2 DEF ToSet
  <2>1. DispatcherOK(d1, A, pr) /\ d1.ready = d.ready /\ d1.enf = {}
    BY <2>0, SuspendOK
  <2>2. q \in Seq(A) /\ Ordered(q, Falling(pr)) /\ r \notin ToSet(q)
    BY <1>a, <1>2, <2>0, TailIs
  <2>3. e = RunHead(d2, defer)
    BY <1>2, <2>1 DEF Stop
  <2> HIDE DEF d1, e, q
  <2>4. DispatcherOK(d2, A, pr) /\ d2.ready = q /\ d2.enf = {}
    BY <2>1, <2>2, SetReady
  <2> HIDE DEF d2
  <2> QED  BY <2>2, <2>3, <2>4, RunHeadOK DEF e
<1>3. CASE r \in ToSet(d.ready) /\ r # Head(d.ready)
  <2> DEFINE q == Unlink(d.ready, r)
             d1 == [d EXCEPT !.ready = q]
  <2>0. d.ready # <<>>
    BY <1>3 DEF ToSet
  <2>1. /\ q \in Seq(A) /\ Ordered(q, Falling(pr)) /\ r \notin ToSet(q)
        /\ q # <<>> /\ Head(q) = Head(d.ready)
    BY <1>a, <1>3, <2>0, UnlinkIs
  <2>2. e = d1
    BY <1>3 DEF Stop
  <2> HIDE DEF q, e
  <2>3. DispatcherOK(d1, A, pr) /\ d1.ready = q /\ d1.enf = d.enf
    BY <2>1, SetReady
  <2>4. HeadSet(q) = HeadSet(d.ready)
    BY <2>0, <2>1 DEF HeadSet
  <2> QED  BY <2>1, <2>2, <2>3, <2>4 DEF e
<1> QED  BY <1>1, <1>2, <1>3

(* delete_reserve leaves nothing of the reserve behind. *)
LEMMA ForgetOK ==
  ASSUME NEW A, A \subseteq Rid, NEW pr \in [Rid -> Int],
         NEW d, DispatcherOK(d, A, pr), d.enf \subseteq HeadSet(d.ready),
         NEW r, NEW live, NEW late, NEW defer
  PROVE  LET e == Forget(d, r, live, late, defer)
         IN  DispatcherOK(e, A \ {r}, pr) /\ e.enf \subseteq HeadSet(e.ready)
<1> DEFINE q == Unlink(d.ready, r)
           unlinked == [d EXCEPT !.ready = q]
           restarts == /\ d.ready # <<>> /\ Head(d.ready) = r
                       /\ Len(d.ready) > 1 /\ d.ready[2] \in live
           stopped == IF r \in live THEN Stop(d, r, late, defer)
                      ELSE IF restarts THEN RunHead(unlinked, defer) ELSE unlinked
           x == stopped.enf \ {r}
           y == stopped.zs \ {r}
           d1 == [stopped EXCEPT !.enf = x]
           e == [d1 EXCEPT !.zs = y]
<1>1. Forget(d, r, live, late, defer) = e
  BY DEF Forget
<1>2. /\ d.ready \in Seq(A) /\ Ordered(d.ready, Falling(pr))
      /\ \A a, b \in 1 .. Len(d.ready) : a < b => d.ready[a] # d.ready[b]
  BY FallingDistinct DEF DispatcherOK
<1>3. /\ q \in Seq(A) /\ Ordered(q, Falling(pr)) /\ r \notin ToSet(q)
      /\ d.ready # <<>> /\ Head(d.ready) # r => q # <<>> /\ Head(q) = Head(d.ready)
  <2> HIDE DEF unlinked, restarts, stopped, x, y, d1, e
  <2>1. q \in Seq(A) /\ (Ordered(d.ready, Falling(pr)) => Ordered(q, Falling(pr)))
    BY <1>2, UnlinkIs
  <2>2. ToSet(q) = ToSet(d.ready) \ {r}
    BY <1>2, UnlinkIs
  <2>3. d.ready # <<>> /\ Head(d.ready) # r => q # <<>> /\ Head(q) = Head(d.ready)
    BY <1>2, UnlinkIs
  <2> HIDE DEF q
  <2> QED  BY <1>2, <2>1, <2>2, <2>3
<1> HIDE DEF q
<1>4. DispatcherOK(unlinked, A, pr) /\ unlinked.ready = q /\ unlinked.enf = d.enf
  BY <1>3, SetReady
<1> HIDE DEF unlinked
<1>5. d.enf \ {r} \subseteq HeadSet(q)
  <2>1. CASE d.ready = <<>>
    BY <2>1 DEF HeadSet
  <2>2. CASE d.ready # <<>> /\ Head(d.ready) = r
    <3>1. HeadSet(d.ready) = {r}
      BY <2>2 DEF HeadSet
    <3> QED  BY <3>1
  <2>3. CASE d.ready # <<>> /\ Head(d.ready) # r
    <3>1. HeadSet(d.ready) = HeadSet(q)
      BY <1>3, <2>3 DEF HeadSet
    <3> QED  BY <3>1
  <2> QED  BY <2>1, <2>2, <2>3
<1>6. /\ DispatcherOK(stopped, A, pr) /\ r \notin ToSet(stopped.ready)
      /\ stopped.enf \ {r} \subseteq HeadSet(stopped.ready)
  <2>1. CASE r \in live
    <3> HIDE DEF restarts
    <3>1. stopped = Stop(d, r, late, defer)
      BY <2>1
    <3> HIDE DEF stopped
    <3>2. /\ DispatcherOK(stopped, A, pr) /\ r \notin ToSet(stopped.ready)
          /\ stopped.enf \subseteq HeadSet(stopped.ready)
      BY <3>1, StopOK
    <3> QED  BY <3>2
  <2>2. CASE r \notin live /\ restarts
    <3>1. stopped = RunHead(unlinked, defer)
      BY <2>2
    <3> HIDE DEF stopped, restarts
    <3>2. /\ DispatcherOK(stopped, A, pr) /\ stopped.ready = q
          /\ stopped.enf \subseteq d.enf \cup HeadSet(q)
      BY <1>4, <3>1, RunHeadOK
    <3> QED  BY <1>3, <1>5, <3>2
  <2>3. CASE r \notin live /\ ~ restarts
    <3>1. stopped = unlinked
      BY <2>3
    <3> HIDE DEF stopped, restarts
    <3> QED  BY <1>3, <1>4, <1>5, <3>1
  <2> HIDE DEF stopped, restarts
  <2> QED  BY <2>1, <2>2, <2>3
<1> HIDE DEF stopped
<1>7. /\ x \subseteq A /\ y \subseteq A /\ r \notin x /\ r \notin y
      /\ x \subseteq HeadSet(stopped.ready)
  BY <1>6 DEF DispatcherOK
<1> HIDE DEF x, y
<1>8. DispatcherOK(d1, A, pr) /\ d1.ready = stopped.ready /\ d1.enf = x
  BY <1>6, <1>7, SetEnf
<1> HIDE DEF d1
<1>9. /\ DispatcherOK(e, A, pr) /\ e.ready = stopped.ready /\ e.enf = x /\ e.zs = y
  BY <1>7, <1>8, SetZs
<1> HIDE DEF e
<1>10. e.ready \in Seq(A \ {r})
  <2>1. e.ready \in Seq(A) /\ r \notin ToSet(e.ready)
    BY <1>6, <1>9 DEF DispatcherOK
  <2>2. \A i \in 1 .. Len(e.ready) : e.ready[i] \in A \ {r}
    BY <2>1, ToSetIs
  <2> QED  BY <2>1, <2>2
<1>11. DispatcherOK(e, A \ {r}, pr)
  BY <1>7, <1>9, <1>10 DEF DispatcherOK
<1> QED  BY <1>1, <1>7, <1>9, <1>11

(* zs_enforcement *)
LEMMA StopLessCriticalOK ==
  ASSUME NEW A, A \subseteq Rid, NEW pr, NEW d, DispatcherOK(d, A, pr),
         NEW r, NEW crit
  PROVE  LET e == StopLessCritical(d, r, crit)
         IN  DispatcherOK(e, A, pr) /\ e.ready = d.ready /\ e.enf = d.enf
<1> DEFINE victims == LessCritical(d, r, crit)
           pushed == d.stack \o victims
           x == d.stop \cup {t \in ToSet(d.ready) : crit[t] < crit[r]}
           y == SubSeq(pushed, 1, IF Len(pushed) < STACK_SIZE
                                  THEN Len(pushed) ELSE STACK_SIZE)
           d1 == [d EXCEPT !.stop = x]
           d2 == [d1 EXCEPT !.stack = y]
           e == WakeScheduler(d2)
<1>1. CASE victims = <<>>
  BY <1>1 DEF StopLessCritical
<1>2. CASE victims # <<>>
  <2>1. StopLessCritical(d, r, crit) = e
    BY <1>2 DEF StopLessCritical
  <2>2. x \subseteq Rid
    BY ToSetIs DEF DispatcherOK
  <2> HIDE DEF x, y
  <2>3. DispatcherOK(d1, A, pr) /\ d1.ready = d.ready /\ d1.enf = d.enf
    BY <2>2, SetStop
  <2> HIDE DEF d1
  <2>4. DispatcherOK(d2, A, pr) /\ d2.ready = d.ready /\ d2.enf = d.enf
    BY <2>3, SetStack
  <2> HIDE DEF d2
  <2>5. DispatcherOK(e, A, pr) /\ e.ready = d.ready /\ e.enf = d.enf
    BY <2>4, SetSched DEF WakeScheduler
  <2> HIDE DEF e
  <2> QED  BY <2>1, <2>5
<1> QED  BY <1>1, <1>2

-----------------------------------------------------------------------------
(* The RM queue and the ready queue.                                       *)

(* The ready queue has the order of the RM queue, whatever that is.        *)
LEMMA ReadyFollowsRm ==
  ASSUME NEW A, A \subseteq Rid, NEW pr \in [Rid -> Int],
         NEW q \in Seq(Rid), A \subseteq ToSet(q), Ordered(q, Ranked(A, pr)),
         NEW s \in Seq(A), Ordered(s, Falling(pr)),
         NEW O, Ordered(q, O)
  PROVE  Ordered(s, O)
<1> SUFFICES ASSUME NEW i \in 1 .. Len(s), NEW j \in 1 .. Len(s), i < j
             PROVE  <<s[i], s[j]>> \in O
  BY DEF Ordered
<1>1. s[i] \in A /\ s[j] \in A /\ pr[s[i]] \in Int /\ pr[s[j]] \in Int
  OBVIOUS
<1>2. pr[s[i]] > pr[s[j]]
  BY DEF Ordered, Falling
<1>3. PICK a \in 1 .. Len(q) : s[i] = q[a]
  BY <1>1, ToSetIs
<1>4. PICK b \in 1 .. Len(q) : s[j] = q[b]
  BY <1>1, ToSetIs
<1>5. ~ (b < a)
  <2>1. b < a => <<q[b], q[a]>> \in Ranked(A, pr)
    BY DEF Ordered
  <2>2. b < a => pr[s[j]] > pr[s[i]]
    BY <1>1, <1>3, <1>4, <2>1 DEF Ranked
  <2> QED  BY <1>1, <1>2, <2>2
<1>6. a # b
  BY <1>1, <1>2, <1>3, <1>4
<1>7. a < b
  BY <1>5, <1>6
<1> QED  BY <1>3, <1>4, <1>7 DEF Ordered

(* Attached reserves have different priorities. *)
LEMMA PrioritiesDiffer ==
  ASSUME NEW A, A \subseteq Rid, NEW pr \in [Rid -> Int],
         NEW q \in Seq(Rid), A \subseteq ToSet(q), Ordered(q, Ranked(A, pr))
  PROVE  \A x, y \in A : x # y => pr[x] # pr[y]
<1> SUFFICES ASSUME NEW x \in A, NEW y \in A, x # y  PROVE pr[x] # pr[y]
  OBVIOUS
<1>1. PICK a \in 1 .. Len(q) : x = q[a]
  BY ToSetIs
<1>2. PICK b \in 1 .. Len(q) : y = q[b]
  BY ToSetIs
<1>3. a < b \/ b < a
  BY <1>1, <1>2
<1>4. <<q[a], q[b]>> \in Ranked(A, pr) \/ <<q[b], q[a]>> \in Ranked(A, pr)
  BY <1>3 DEF Ordered
<1>5. pr[x] > pr[y] \/ pr[y] > pr[x]
  BY <1>1, <1>2, <1>4 DEF Ranked
<1>6. pr[x] \in Int /\ pr[y] \in Int
  OBVIOUS
<1> QED  BY <1>5, <1>6

(* A sequence that is in order for one relation is in order for a weaker   *)
(* one.                                                                    *)
LEMMA OrderedWeaken ==
  ASSUME NEW R, NEW s \in Seq(R), NEW O, NEW P, Ordered(s, O), O \subseteq P
  PROVE  Ordered(s, P)
BY DEF Ordered

(* Only the priorities of the reserves in A matter to their dispatcher. *)
LEMMA SamePriorities ==
  ASSUME NEW A, A \subseteq Rid, NEW pr, NEW pr2, \A x \in A : pr2[x] = pr[x],
         NEW d, DispatcherOK(d, A, pr)
  PROVE  DispatcherOK(d, A, pr2)
<1>1. d.ready \in Seq(A) /\ Ordered(d.ready, Falling(pr))
  BY DEF DispatcherOK
<1>2. \A i \in 1 .. Len(d.ready) : d.ready[i] \in A
  BY <1>1
<1>3. Ordered(d.ready, Falling(pr2))
  BY <1>1, <1>2 DEF Ordered, Falling
<1> QED  BY <1>3 DEF DispatcherOK

(* The RM queue stays in order when a slot is added to it. *)
LEMMA AddRmQueueOK ==
  ASSUME NEW q \in Seq(Rid), NEW r \in Rid, r \notin ToSet(q),
         NEW sp, \A x \in Rid : sp[x].period \in Nat,
         Ordered(q, ByPeriod(sp))
  PROVE  /\ AddRmQueue(q, r, [x \in Rid |-> sp[x].period]) \in Seq(Rid)
         /\ ToSet(AddRmQueue(q, r, [x \in Rid |-> sp[x].period])) = ToSet(q) \cup {r}
         /\ Ordered(AddRmQueue(q, r, [x \in Rid |-> sp[x].period]), ByPeriod(sp))
         /\ \A A, pr : r \notin A /\ Ordered(q, Ranked(A, pr))
              => Ordered(AddRmQueue(q, r, [x \in Rid |-> sp[x].period]), Ranked(A, pr))
<1> DEFINE per == [x \in Rid |-> sp[x].period]
           S == {x \in ToSet(q) : per[x] > per[r]}
           t == InsertBefore(q, r, S)
           k == FirstIn(q, S)
<1>1. AddRmQueue(q, r, per) = t
  BY DEF AddRmQueue
<1>2. \A i \in 1 .. Len(q) : q[i] \in Rid /\ q[i] # r /\ q[i] \in ToSet(q)
  BY ToSetIs
<1>3. \A x \in Rid : per[x] = sp[x].period /\ per[x] \in Nat
  OBVIOUS
<1> HIDE DEF per
<1>4. /\ k \in 1 .. Len(q) + 1
      /\ \A j \in 1 .. k - 1 : q[j] \notin S
      /\ k <= Len(q) => q[k] \in S
  BY FirstInIs
<1>5. t \in Seq(Rid) /\ ToSet(t) = ToSet(q) \cup {r}
  BY InsertBeforeIs
<1>6. ASSUME NEW j \in 1 .. k - 1  PROVE <<q[j], r>> \in ByPeriod(sp)
  <2>1. j \in 1 .. Len(q)
    BY <1>4
  <2>2. q[j] \in Rid /\ q[j] # r /\ ~ (per[q[j]] > per[r])
    BY <1>2, <1>4, <2>1
  <2>3. sp[q[j]].period <= sp[r].period
    BY <1>3, <2>2
  <2> QED  BY <2>2, <2>3 DEF ByPeriod
<1>7. ASSUME NEW j \in k .. Len(q)  PROVE <<r, q[j]>> \in ByPeriod(sp)
  <2>1. j \in 1 .. Len(q) /\ k \in 1 .. Len(q)
    BY <1>4
  <2>2. q[j] \in Rid /\ q[j] # r /\ q[k] \in Rid /\ per[q[k]] > per[r]
    BY <1>2, <1>4, <2>1
  <2>3. k < j => <<q[k], q[j]>> \in ByPeriod(sp)
    BY <2>1 DEF Ordered
  <2>4. k < j => sp[q[k]].period <= sp[q[j]].period
    BY <2>3 DEF ByPeriod
  <2>5. k = j \/ k < j
    BY <1>4, <1>7
  <2>6. per[q[j]] \in Nat /\ per[r] \in Nat /\ per[q[k]] \in Nat
    BY <1>3, <2>2
  <2>7. per[q[k]] <= per[q[j]]
    BY <1>3, <2>2, <2>4, <2>5, <2>6
  <2>8. sp[r].period <= sp[q[j]].period
    BY <1>3, <2>2, <2>6, <2>7
  <2> QED  BY <2>2, <2>8 DEF ByPeriod
<1> HIDE DEF S
<1>8. Ordered(t, ByPeriod(sp))
  BY <1>6, <1>7, InsertBeforeOrdered DEF k
<1>9. ASSUME NEW A, NEW pr, r \notin A, Ordered(q, Ranked(A, pr))
      PROVE  Ordered(t, Ranked(A, pr))
  <2>1. \A j \in 1 .. Len(q) : /\ <<q[j], r>> \in Ranked(A, pr)
                               /\ <<r, q[j]>> \in Ranked(A, pr)
    BY <1>2, <1>9 DEF Ranked
  <2>2. /\ \A j \in 1 .. k - 1 : <<q[j], r>> \in Ranked(A, pr)
        /\ \A j \in k .. Len(q) : <<r, q[j]>> \in Ranked(A, pr)
    <3>1. 1 .. k - 1 \subseteq 1 .. Len(q) /\ k .. Len(q) \subseteq 1 .. Len(q)
      BY <1>4
    <3> QED  BY <2>1, <3>1
  <2> QED  BY <1>9, <2>2, InsertBeforeOrdered DEF k
<1> HIDE DEF t
<1> QED  BY <1>1, <1>5, <1>8, <1>9 DEF per

(* What calculate_rm_priorities makes of the priorities. *)
LEMMA RenumberOK ==
  ASSUME NEW q \in Seq(Rid), NEW pr \in [Rid -> Int],
         \A a, b \in 1 .. Len(q) : a < b => q[a] # q[b]
  PROVE  LET pr2 == CalculateRmPriorities(q, pr, MIN_PRIORITY)
         IN  pr2 \in [Rid -> Int] /\ Ordered(q, Falling(pr2))
<1> DEFINE pr2 == CalculateRmPriorities(q, pr, MIN_PRIORITY)
<1>1. MIN_PRIORITY \in Nat /\ ToSet(q) \subseteq Rid
  BY PriorityAssumption, ToSetIs
<1>2. \A i \in 1 .. Len(q) : pr2[q[i]] = MIN_PRIORITY + Len(q) + 1 - i
  BY <1>1, RmPrioritiesAre
<1>3. pr2 \in [Rid -> Int]
  <2>1. \A x \in Rid : FirstIn(q, {x}) \in Int
    <3>1. \A x \in Rid : FirstIn(q, {x}) \in 1 .. Len(q) + 1
      BY FirstInIs
    <3> QED  BY <3>1
  <2> QED  BY <1>1, <2>1 DEF CalculateRmPriorities
<1> HIDE DEF pr2
<1>4. Ordered(q, Falling(pr2))
  <2> SUFFICES ASSUME NEW i \in 1 .. Len(q), NEW j \in 1 .. Len(q), i < j
               PROVE  <<q[i], q[j]>> \in Falling(pr2)
    BY DEF Ordered
  <2>1. pr2[q[i]] > pr2[q[j]]
    BY <1>1, <1>2
  <2> QED  BY <2>1 DEF Falling
<1> QED  BY <1>3, <1>4 DEF pr2

-----------------------------------------------------------------------------
(* The invariant is inductive.                                             *)

(* init() establishes the invariant. *)
LEMMA InitIInv == Init => IInv
<1> SUFFICES ASSUME Init  PROVE IInv
  OBVIOUS
<1>1. <<>> \in Seq(Rid) /\ ToSet(<<>>) = {}
  BY DEF ToSet
<1>2. TablesOK /\ RmQueueOK
  BY <1>1 DEF Init, TablesOK, PeriodTimersOwned, RmQueueOK, Ordered
<1>3. DispatcherOK(disp, attached, prio)
  BY DEF Init, IdleDispatcher, DispatcherOK, IsDispatcher, Ordered
<1>4. disp.enf = {}
  BY DEF Init, IdleDispatcher
<1> QED  BY <1>2, <1>3, <1>4 DEF IInv

(* What the lemmas above need to know of a state. *)
LEMMA IInvFacts ==
  ASSUME IInv
  PROVE  /\ attached \subseteq Rid /\ created \subseteq Rid
         /\ prio \in [Rid -> Int] /\ spec \in [Rid -> Params \cup {NoParams}]
         /\ periodTimer \subseteq Rid
         /\ rmq \in Seq(Rid) /\ attached \subseteq ToSet(rmq)
         /\ \A a, b \in 1 .. Len(rmq) : a < b => rmq[a] # rmq[b]
         /\ \A x, y \in attached : x # y => prio[x] # prio[y]
         /\ DispatcherOK(disp, attached, prio)
         /\ disp.enf \subseteq HeadSet(disp.ready)
<1>1. \A a, b \in 1 .. Len(rmq) : a < b => rmq[a] # rmq[b]
  BY DEF IInv, RmQueueOK, Ordered, ByPeriod
<1>2. \A x, y \in attached : x # y => prio[x] # prio[y]
  BY PrioritiesDiffer DEF IInv, TablesOK, RmQueueOK
<1> QED  BY <1>1, <1>2 DEF IInv, TablesOK, RmQueueOK

(* Most steps only move the dispatcher. *)
DispatcherStep ==
  /\ UNCHANGED tableVars /\ periodTimer' \subseteq periodTimer
  /\ DispatcherOK(disp', attached, prio)
  /\ disp'.enf \subseteq HeadSet(disp'.ready)

(* A step that only changes the dispatcher, and leaves it in order, keeps  *)
(* the invariant.                                                          *)
LEMMA DispatcherStepIInv ==
  ASSUME IInv, DispatcherStep
  PROVE  IInv'
<1>1. TablesOK' /\ RmQueueOK'
  BY DEF IInv, TablesOK, PeriodTimersOwned, RmQueueOK, DispatcherStep, tableVars
<1> QED  BY <1>1 DEF IInv, DispatcherStep, tableVars

(* CREATE_RSV puts a slot without priority among the reserves into the RM  *)
(* queue and touches no job.                                               *)
LEMMA CreateIInv ==
  ASSUME IInv, NEW r \in Rid, NEW p \in Params, Create(r, p)
  PROVE  IInv'
<1>1. /\ r \notin attached /\ r \notin created
      /\ attached' = attached /\ created' = created \cup {r}
      /\ periodTimer' \subseteq periodTimer /\ disp' = disp
      /\ spec' = [spec EXCEPT ![r] = p]
      /\ prio' = [prio EXCEPT ![r] = UserPriority]
      /\ rmq' = AddRmQueue(rmq, r, [Period EXCEPT ![r] = p.period])
  BY DEF Create
<1>2. /\ TablesOK /\ RmQueueOK /\ DispatcherOK(disp, attached, prio)
      /\ disp.enf \subseteq HeadSet(disp.ready)
  BY DEF IInv
<1>3. spec' \in [Rid -> Params \cup {NoParams}] /\ prio' \in [Rid -> Int]
  BY <1>1, <1>2, PriorityAssumption DEF TablesOK
<1>4. TablesOK'
  BY <1>1, <1>2, <1>3 DEF TablesOK, PeriodTimersOwned
<1>5. \A x \in Rid : spec'[x].period \in Nat
  <2>1. \A y \in Params \cup {NoParams} : y.period \in Nat
    BY ParamsAssumption DEF NoParams
  <2> QED  BY <1>3, <2>1
<1>6. [Period EXCEPT ![r] = p.period] = [x \in Rid |-> spec'[x].period]
  BY <1>1, <1>2 DEF Period, TablesOK
<1>7. rmq \in Seq(Rid) /\ ToSet(rmq) = created \cup attached
  BY <1>2 DEF RmQueueOK
<1>8. \A i \in 1 .. Len(rmq) : rmq[i] \in Rid /\ rmq[i] # r
  BY <1>1, <1>7, ToSetIs
<1>9. \A x \in Rid : x # r => spec'[x] = spec[x] /\ prio'[x] = prio[x]
  BY <1>1, <1>2 DEF TablesOK
<1>10. Ordered(rmq, ByPeriod(spec'))
  BY <1>2, <1>7, <1>8, <1>9 DEF RmQueueOK, Ordered, ByPeriod
<1>11. Ordered(rmq, Ranked(attached, prio'))
  BY <1>2, <1>7, <1>8, <1>9 DEF RmQueueOK, Ordered, Ranked
<1>12. /\ rmq' \in Seq(Rid) /\ ToSet(rmq') = ToSet(rmq) \cup {r}
       /\ Ordered(rmq', ByPeriod(spec')) /\ Ordered(rmq', Ranked(attached, prio'))
  <2> DEFINE sp == spec'
             pr == prio'
             t == AddRmQueue(rmq, r, [x \in Rid |-> sp[x].period])
  <2>1. /\ r \notin ToSet(rmq) /\ rmq' = t
        /\ \A x \in Rid : sp[x].period \in Nat
        /\ Ordered(rmq, ByPeriod(sp)) /\ Ordered(rmq, Ranked(attached, pr))
    BY <1>1, <1>5, <1>6, <1>7, <1>10, <1>11
  <2> HIDE DEF sp, pr
  <2>2. /\ t \in Seq(Rid) /\ ToSet(t) = ToSet(rmq) \cup {r}
        /\ Ordered(t, ByPeriod(sp)) /\ Ordered(t, Ranked(attached, pr))
    BY <1>1, <1>7, <2>1, AddRmQueueOK
  <2> HIDE DEF t
  <2> QED  BY <2>1, <2>2 DEF sp, pr
<1>13. RmQueueOK'
  BY <1>1, <1>7, <1>12 DEF RmQueueOK
<1>14. DispatcherOK(disp, attached, prio')
  <2>1. \A x \in attached : prio'[x] = prio[x]
    BY <1>1, <1>2, <1>9 DEF TablesOK
  <2> QED  BY <1>2, <2>1, SamePriorities DEF TablesOK
<1> QED  BY <1>1, <1>2, <1>4, <1>13, <1>14 DEF IInv

(* ATTACH_RSV renumbers the whole RM queue: the ready queue is in order    *)
(* for the new numbers too when the job is started.                        *)
LEMMA AttachRenumbers ==
  ASSUME IInv, NEW r \in Rid, Attach(r)
  PROVE  /\ attached' \subseteq Rid /\ r \in attached' /\ prio' \in [Rid -> Int]
         /\ Ordered(rmq, Ranked(attached', prio'))
         /\ \A x, y \in attached' : x # y => prio'[x] # prio'[y]
         /\ \E d, late, defer :
              /\ DispatcherOK(d, attached', prio')
              /\ d.ready = disp.ready /\ d.enf = disp.enf
              /\ disp' = Start(d, r, prio', late, defer)
<1> DEFINE pr == CalculateRmPriorities(rmq, prio, MIN_PRIORITY)
           A  == attached \cup {r}
<1>1. PICK c \in Outcomes :
        /\ r \in created /\ attached' = A /\ prio' = pr
        /\ disp' = Start([disp EXCEPT !.spent = @ \ {r},
                                      !.zs = IF spec[r].zs THEN @ \cup {r} ELSE @],
                         r, prio', c.late, c.defer)
  BY DEF Attach
<1>2. /\ TablesOK /\ RmQueueOK /\ DispatcherOK(disp, attached, prio)
      /\ disp.enf \subseteq HeadSet(disp.ready)
  BY DEF IInv
<1>3. /\ rmq \in Seq(Rid) /\ attached \subseteq ToSet(rmq)
      /\ \A a, b \in 1 .. Len(rmq) : a < b => rmq[a] # rmq[b]
      /\ A \subseteq Rid /\ A \subseteq ToSet(rmq) /\ attached \subseteq A
      /\ attached \subseteq Rid /\ prio \in [Rid -> Int]
  BY <1>1, IInvFacts DEF IInv, RmQueueOK
<1>4. pr \in [Rid -> Int] /\ Ordered(rmq, Falling(pr))
  BY <1>3, RenumberOK
<1>5. r \in A
  OBVIOUS
<1> HIDE DEF pr, A
<1>6. Ordered(rmq, Ranked(A, pr))
  BY <1>3, <1>4, OrderedWeaken DEF Falling, Ranked
<1>7. \A x, y \in A : x # y => pr[x] # pr[y]
  BY <1>3, <1>4, <1>6, PrioritiesDiffer
<1>8. DispatcherOK(disp, A, pr)
  <2>1. disp.ready \in Seq(attached) /\ Ordered(disp.ready, Falling(prio))
    BY <1>2 DEF DispatcherOK
  <2>2. Ordered(disp.ready, Falling(pr))
    BY <1>2, <1>3, <1>4, <2>1, ReadyFollowsRm DEF RmQueueOK
  <2>3. disp.ready \in Seq(A)
    BY <1>3, <2>1
  <2> QED  BY <1>2, <1>3, <2>2, <2>3 DEF DispatcherOK
<1> DEFINE x == disp.spent \ {r}
           y == IF spec[r].zs THEN disp.zs \cup {r} ELSE disp.zs
           d1 == [disp EXCEPT !.spent = x]
           d2 == [d1 EXCEPT !.zs = y]
<1>9. disp' = Start(d2, r, pr, c.late, c.defer)
  BY <1>1
<1>10. x \subseteq Rid /\ y \subseteq A
  BY <1>5, <1>8 DEF DispatcherOK
<1> HIDE DEF x, y
<1>11. DispatcherOK(d1, A, pr) /\ d1.ready = disp.ready /\ d1.enf = disp.enf
  BY <1>8, <1>10, SetSpent
<1> HIDE DEF d1
<1>12. DispatcherOK(d2, A, pr) /\ d2.ready = disp.ready /\ d2.enf = disp.enf
  BY <1>10, <1>11, SetZs
<1> HIDE DEF d2
<1> QED  BY <1>1, <1>3, <1>4, <1>5, <1>6, <1>7, <1>9, <1>12

(* ATTACH_RSV keeps the invariant. *)
LEMMA AttachIInv ==
  ASSUME IInv, NEW r \in Rid, Attach(r)
  PROVE  IInv'
<1>1. /\ r \in created /\ attached' = attached \cup {r} /\ created' = created \ {r}
      /\ periodTimer' = periodTimer \cup {r} /\ spec' = spec /\ rmq' = rmq
  BY DEF Attach
<1>2. TablesOK /\ RmQueueOK /\ disp.enf \subseteq HeadSet(disp.ready)
  BY DEF IInv
<1>3. prio' \in [Rid -> Int] /\ Ordered(rmq, Ranked(attached', prio'))
  BY AttachRenumbers
<1>4. TablesOK'
  BY <1>1, <1>2, <1>3 DEF TablesOK, PeriodTimersOwned
<1>5. RmQueueOK'
  BY <1>1, <1>2, <1>3 DEF RmQueueOK
<1>6. DispatcherOK(disp', attached', prio') /\ disp'.enf \subseteq HeadSet(disp'.ready)
  <2>1. PICK d, late, defer :
          /\ DispatcherOK(d, attached', prio')
          /\ d.ready = disp.ready /\ d.enf = disp.enf
          /\ disp' = Start(d, r, prio', late, defer)
    BY AttachRenumbers
  <2>2. /\ attached' \subseteq Rid /\ r \in attached' /\ prio' \in [Rid -> Int]
        /\ \A x, y \in attached' : x # y => prio'[x] # prio'[y]
        /\ d.enf \subseteq HeadSet(d.ready)
    BY <1>2, <2>1, AttachRenumbers
  <2> DEFINE A == attached'
             pr == prio'
             e == Start(d, r, pr, late, defer)
  <2>3. DispatcherOK(d, A, pr) /\ disp' = e
    BY <2>1
  <2> HIDE DEF A, pr, e
  <2>4. DispatcherOK(e, A, pr) /\ e.enf \subseteq HeadSet(e.ready)
    BY <2>2, <2>3, StartOK DEF A, pr, e
  <2> QED  BY <2>3, <2>4 DEF A, pr
<1> QED  BY <1>4, <1>5, <1>6 DEF IInv

(* A slot is freed: by delete_reserve, with its period timer, or in the    *)
(* handler of the period timer of a task that has ended.                   *)
LEMMA FreeSlotIInv ==
  ASSUME IInv, NEW d, DispatcherOK(d, attached, prio),
         d.enf \subseteq HeadSet(d.ready), NEW r, NEW live, FreeSlot(d, r, live),
         periodTimer' \subseteq periodTimer,
         "exit" \in Features \/ periodTimer' = periodTimer \ {r}
  PROVE  IInv'
<1> DEFINE A == attached \ {r}
<1>1. PICK c \in Outcomes :
        /\ disp' = Forget(d, r, live, c.late, c.defer)
        /\ attached' = A /\ created' = created \ {r}
        /\ spec' = spec /\ prio' = prio /\ rmq' = Unlink(rmq, r)
  BY DEF FreeSlot, DelRmQueue
<1>2. TablesOK /\ RmQueueOK
  BY DEF IInv
<1>3. DispatcherOK(disp', A, prio) /\ disp'.enf \subseteq HeadSet(disp'.ready)
  BY <1>1, <1>2, ForgetOK DEF TablesOK
<1>4. /\ rmq \in Seq(Rid) /\ Ordered(rmq, ByPeriod(spec))
      /\ Ordered(rmq, Ranked(attached, prio))
      /\ \A a, b \in 1 .. Len(rmq) : a < b => rmq[a] # rmq[b]
      /\ ToSet(rmq) = created \cup attached
  BY <1>2, IInvFacts DEF RmQueueOK
<1>5. /\ rmq' \in Seq(Rid) /\ ToSet(rmq') = ToSet(rmq) \ {r}
      /\ Ordered(rmq', ByPeriod(spec)) /\ Ordered(rmq', Ranked(attached, prio))
  BY <1>1, <1>4, UnlinkIs
<1>6. Ordered(rmq', Ranked(A, prio))
  <2>1. Ranked(attached, prio) \subseteq Ranked(A, prio)
    BY DEF Ranked
  <2> QED  BY <1>5, <2>1, OrderedWeaken
<1>7. TablesOK'
  BY <1>1, <1>2 DEF TablesOK, PeriodTimersOwned
<1>8. ToSet(rmq') = created' \cup attached'
  BY <1>1, <1>4, <1>5
<1>9. RmQueueOK'
  BY <1>1, <1>5, <1>6, <1>8 DEF RmQueueOK
<1> QED  BY <1>1, <1>3, <1>7, <1>9 DEF IInv

(* delete_reserve, by each of its callers. *)
LEMMA DeleteReserveIInv ==
  ASSUME IInv, NEW d, DispatcherOK(d, attached, prio),
         d.enf \subseteq HeadSet(d.ready), NEW r, DeleteReserve(d, r)
  PROVE  IInv'
BY FreeSlotIInv DEF DeleteReserve

(* A timer whose task is gone only asks the scheduler thread. *)
LEMMA TimerOfDeadTaskStep ==
  ASSUME IInv, NEW d, DispatcherOK(d, attached, prio),
         d.enf \subseteq HeadSet(d.ready), NEW r, TimerOfDeadTask(d, r)
  PROVE  DispatcherOK(disp', attached, prio) /\ disp'.enf \subseteq HeadSet(disp'.ready)
<1> DEFINE x == d.stop \ {r}
           d1 == [d EXCEPT !.stop = x]
<1>1. disp' = WakeScheduler(Push(d1, r)) \/ disp' = d
  BY DEF TimerOfDeadTask
<1>2. x \subseteq Rid
  BY DEF DispatcherOK
<1> HIDE DEF x
<1>3. DispatcherOK(d1, attached, prio) /\ d1.ready = d.ready /\ d1.enf = d.enf
  BY <1>2, SetStop
<1> HIDE DEF d1
<1>4. DispatcherOK(WakeScheduler(Push(d1, r)), attached, prio)
  BY <1>3, PushOK
<1>5. /\ WakeScheduler(Push(d1, r)).ready = d.ready
      /\ WakeScheduler(Push(d1, r)).enf = d.enf
  BY <1>3, PushOK
<1> QED  BY <1>1, <1>4, <1>5

(* Disarming the enforcement timer of a reserve, or its zero-slack timer.  *)
EnfDisarmed(d, r) == [d EXCEPT !.enf = @ \ {r}]
ZsDisarmed(d, r)  == [d EXCEPT !.zs = @ \ {r}]

(* An enforcement timer may be disarmed. *)
LEMMA EnfDisarmedOK ==
  ASSUME NEW A, NEW pr, NEW d, DispatcherOK(d, A, pr),
         d.enf \subseteq HeadSet(d.ready), NEW r
  PROVE  LET e == EnfDisarmed(d, r)
         IN  /\ DispatcherOK(e, A, pr) /\ e.enf \subseteq HeadSet(e.ready)
             /\ e.ready = d.ready
<1> DEFINE x == d.enf \ {r}
           e == [d EXCEPT !.enf = x]
<1>1. x \subseteq A /\ x \subseteq HeadSet(d.ready) /\ EnfDisarmed(d, r) = e
  BY DEF DispatcherOK, EnfDisarmed
<1> HIDE DEF x
<1>2. DispatcherOK(e, A, pr) /\ e.ready = d.ready /\ e.enf = x
  BY <1>1, SetEnf
<1> HIDE DEF e
<1> QED  BY <1>1, <1>2

(* A zero-slack timer may be disarmed. *)
LEMMA ZsDisarmedOK ==
  ASSUME NEW A, NEW pr, NEW d, DispatcherOK(d, A, pr),
         d.enf \subseteq HeadSet(d.ready), NEW r
  PROVE  LET e == ZsDisarmed(d, r)
         IN  /\ DispatcherOK(e, A, pr) /\ e.enf \subseteq HeadSet(e.ready)
             /\ e.ready = d.ready
<1> DEFINE x == d.zs \ {r}
           e == [d EXCEPT !.zs = x]
<1>1. x \subseteq A /\ ZsDisarmed(d, r) = e
  BY DEF DispatcherOK, ZsDisarmed
<1> HIDE DEF x
<1>2. DispatcherOK(e, A, pr) /\ e.ready = d.ready /\ e.enf = d.enf
  BY <1>1, SetZs
<1> HIDE DEF e
<1> QED  BY <1>1, <1>2

(* An enforcement timer that expires, or that is given up, is disarmed and *)
(* finds the job's budget used up.                                         *)
Expired(d, r) == [d EXCEPT !.enf = @ \ {r}, !.spent = @ \cup {r}]

(* An enforcement timer may expire. *)
LEMMA ExpiredOK ==
  ASSUME IInv, NEW r \in disp.enf
  PROVE  LET e == Expired(disp, r)
         IN  /\ DispatcherOK(e, attached, prio)
             /\ e.ready = disp.ready /\ e.enf = disp.enf \ {r}
             /\ r \in attached /\ HeadSet(disp.ready) = {r}
<1> DEFINE x == disp.enf \ {r}
           y == disp.spent \cup {r}
           d1 == [disp EXCEPT !.enf = x]
           e == [d1 EXCEPT !.spent = y]
<1>1. /\ DispatcherOK(disp, attached, prio) /\ attached \subseteq Rid
      /\ disp.enf \subseteq HeadSet(disp.ready)
  BY IInvFacts
<1>2. x \subseteq attached /\ y \subseteq Rid /\ r \in attached
  BY <1>1 DEF DispatcherOK
<1>3. HeadSet(disp.ready) = {r}
  BY <1>1 DEF HeadSet
<1>4. Expired(disp, r) = e
  BY DEF Expired
<1>5. DispatcherOK(e, attached, prio) /\ e.ready = disp.ready /\ e.enf = x
  <2> HIDE DEF x, y
  <2>1. /\ DispatcherOK(d1, attached, prio) /\ d1.ready = disp.ready /\ d1.enf = x
    BY <1>1, <1>2, SetEnf
  <2> HIDE DEF d1
  <2>2. DispatcherOK(e, attached, prio) /\ e.ready = d1.ready /\ e.enf = d1.enf
    BY <1>2, <2>1, SetSpent
  <2> QED  BY <2>1, <2>2
<1> HIDE DEF e
<1> QED  BY <1>2, <1>3, <1>4, <1>5

(* TIMER_ENF arms no other timer than the one that expired. *)
LEMMA EnforcementTimerStep ==
  ASSUME IInv, NEW r \in Rid, EnforcementTimer(r)
  PROVE  IInv'
<1> DEFINE d == Expired(disp, r)
<1>1. /\ r \in disp.enf /\ UNCHANGED <<tableVars, periodTimer>>
      /\ r \in Live => \E c \in Outcomes : disp' = RequestStop(d, r, c.defer)
      /\ r \notin Live => TimerOfDeadTask(d, r)
  BY DEF EnforcementTimer, RequestStop, Expired
<1>2. /\ DispatcherOK(d, attached, prio) /\ d.enf \subseteq HeadSet(d.ready)
      /\ d.ready = disp.ready /\ r \in attached /\ HeadSet(disp.ready) = {r}
      /\ d.enf \subseteq {r}
  BY <1>1, ExpiredOK, IInvFacts
<1>4. attached \subseteq Rid
  BY IInvFacts
<1> HIDE DEF d
<1>3. DispatcherOK(disp', attached, prio) /\ disp'.enf \subseteq HeadSet(disp'.ready)
  <2>1. CASE r \in Live
    <3>1. PICK c \in Outcomes : disp' = RequestStop(d, r, c.defer)
      BY <1>1, <2>1
    <3> DEFINE e == RequestStop(d, r, c.defer)
    <3>2. /\ DispatcherOK(e, attached, prio)
          /\ e.ready = d.ready /\ e.enf \subseteq d.enf \cup {r}
      BY <1>2, <1>4, RequestStopOK
    <3> HIDE DEF e
    <3>3. disp' = e
      BY <3>1 DEF e
    <3> QED  BY <1>2, <3>2, <3>3
  <2>2. CASE r \notin Live
    BY <1>1, <1>2, <2>2, TimerOfDeadTaskStep
  <2> QED  BY <2>1, <2>2
<1> QED  BY <1>1, <1>3, DispatcherStepIInv DEF DispatcherStep

(* start_of_period: the overrunning job is taken out, the counters are     *)
(* reset, and the new job is started unless its criticality is too low.    *)
LEMMA StartOfPeriodStep ==
  ASSUME IInv, NEW r \in attached, StartOfPeriod(r)
  PROVE  DispatcherOK(disp', attached, prio) /\ disp'.enf \subseteq HeadSet(disp'.ready)
<1>1. PICK c \in Outcomes, started \in Incremented(startPeriod[r]) :
        LET overrun == Overrun(started)
            d1 == IF overrun
                  THEN Stop(SkipStop(EnfDisarmed(disp, r), r),
                            r, c.late, c.defer)
                  ELSE disp
            d2 == [d1 EXCEPT !.spent = @ \ {r},
                             !.zs = IF spec[r].zs THEN @ \cup {r} ELSE @]
        IN  disp' = Start(d2, r, prio, c.late, c.defer) \/ disp' = d2
  BY DEF StartOfPeriod, SkipStop, EnfDisarmed
<1> DEFINE d0 == EnfDisarmed(disp, r)
           e0 == SkipStop(d0, r)
           d1 == IF Overrun(started) THEN Stop(e0, r, c.late, c.defer) ELSE disp
           x == d1.spent \ {r}
           y == IF spec[r].zs THEN d1.zs \cup {r} ELSE d1.zs
           s1 == [d1 EXCEPT !.spent = x]
           d2 == [s1 EXCEPT !.zs = y]
<1>2. disp' = Start(d2, r, prio, c.late, c.defer) \/ disp' = d2
  BY <1>1
<1>3. /\ DispatcherOK(disp, attached, prio) /\ attached \subseteq Rid
      /\ disp.enf \subseteq HeadSet(disp.ready) /\ prio \in [Rid -> Int]
      /\ \A v, w \in attached : v # w => prio[v] # prio[w]
  BY IInvFacts
<1>4. DispatcherOK(d0, attached, prio) /\ d0.enf \subseteq HeadSet(d0.ready)
  BY <1>3, EnfDisarmedOK
<1> HIDE DEF d0
<1>5. DispatcherOK(e0, attached, prio) /\ e0.enf \subseteq HeadSet(e0.ready)
  BY <1>4, SkipStopOK
<1> HIDE DEF e0
<1>6. DispatcherOK(d1, attached, prio) /\ d1.enf \subseteq HeadSet(d1.ready)
  BY <1>3, <1>5, StopOK
<1> HIDE DEF d1
<1>7. x \subseteq Rid /\ y \subseteq attached
  BY <1>6 DEF DispatcherOK
<1> HIDE DEF x, y
<1>8. DispatcherOK(s1, attached, prio) /\ s1.ready = d1.ready /\ s1.enf = d1.enf
  BY <1>6, <1>7, SetSpent
<1> HIDE DEF s1
<1>9. DispatcherOK(d2, attached, prio) /\ d2.ready = d1.ready /\ d2.enf = d1.enf
  BY <1>7, <1>8, SetZs
<1> HIDE DEF d2
<1>10. DispatcherOK(d2, attached, prio) /\ d2.enf \subseteq HeadSet(d2.ready)
  BY <1>6, <1>9
<1> QED  BY <1>2, <1>3, <1>10, StartOK

(* TIMER_PERIOD keeps the dispatcher in order. *)
LEMMA PeriodTimerStep ==
  ASSUME IInv, NEW r \in Rid, PeriodTimer(r)
  PROVE  IInv'
<1>1. /\ UNCHANGED tableVars /\ periodTimer' \subseteq periodTimer
      /\ r \in Live => StartOfPeriod(r)
      /\ r \notin Live => TimerOfDeadTask(disp, r)
  BY DEF PeriodTimer
<1>2. DispatcherOK(disp', attached, prio) /\ disp'.enf \subseteq HeadSet(disp'.ready)
  BY <1>1, StartOfPeriodStep, TimerOfDeadTaskStep, IInvFacts DEF Live
<1> QED  BY <1>1, <1>2, DispatcherStepIInv DEF DispatcherStep

(* TIMER_ZS_ENF keeps the dispatcher in order. *)
LEMMA ZeroSlackTimerStep ==
  ASSUME IInv, NEW r \in Rid, ZeroSlackTimer(r)
  PROVE  IInv'
<1> DEFINE d == ZsDisarmed(disp, r)
<1>1. /\ UNCHANGED <<tableVars, periodTimer>>
      /\ \/ TimerOfDeadTask(d, r)
         \/ disp' = d
         \/ disp' = StopLessCritical(d, r, Crit)
  BY DEF ZeroSlackTimer, ZsEnforcement, ZsDisarmed
<1>2. DispatcherOK(d, attached, prio) /\ d.enf \subseteq HeadSet(d.ready)
  BY ZsDisarmedOK, IInvFacts
<1> HIDE DEF d
<1>3. DispatcherOK(disp', attached, prio) /\ disp'.enf \subseteq HeadSet(disp'.ready)
  <2>1. CASE TimerOfDeadTask(d, r)
    BY <1>2, <2>1, TimerOfDeadTaskStep
  <2>2. CASE disp' = d
    BY <1>2, <2>2
  <2>3. CASE disp' = StopLessCritical(d, r, Crit)
    BY <1>2, <2>3, StopLessCriticalOK, IInvFacts
  <2> QED  BY <1>1, <2>1, <2>2, <2>3
<1> QED  BY <1>1, <1>3, DispatcherStepIInv DEF DispatcherStep

(* A timer handler that gives up keeps the dispatcher in order. *)
LEMMA TimerAbortsStep ==
  ASSUME IInv, NEW r \in Rid, TimerAborts(r)
  PROVE  IInv'
<1>1. /\ UNCHANGED tableVars /\ periodTimer' \subseteq periodTimer
      /\ \/ r \in disp.enf /\ disp' = Expired(disp, r)
         \/ disp' = ZsDisarmed(disp, r)
         \/ disp' = disp
  BY DEF TimerAborts, Expired, ZsDisarmed
<1>2. DispatcherOK(disp', attached, prio) /\ disp'.enf \subseteq HeadSet(disp'.ready)
  BY <1>1, ExpiredOK, ZsDisarmedOK, IInvFacts
<1> QED  BY <1>1, <1>2, DispatcherStepIInv DEF DispatcherStep

(* wait_for_next_period and end_of_period. *)
LEMMA DepartureStep ==
  ASSUME IInv, NEW r, NEW call, Departure(r, call)
  PROVE  IInv'
<1> DEFINE d == ZsDisarmed(disp, r)
<1>1. PICK c \in Outcomes :
        UNCHANGED <<tableVars, periodTimer>> /\ disp' = Stop(d, r, c.late, c.defer)
  BY DEF Departure, ZsDisarmed
<1>2. DispatcherOK(d, attached, prio) /\ d.enf \subseteq HeadSet(d.ready)
  BY ZsDisarmedOK, IInvFacts
<1> HIDE DEF d
<1>3. DispatcherOK(disp', attached, prio) /\ disp'.enf \subseteq HeadSet(disp'.ready)
  BY <1>1, <1>2, StopOK, IInvFacts
<1> QED  BY <1>1, <1>3, DispatcherStepIInv DEF DispatcherStep

(* wait_for_next_release and the loop over crit_blockq start a job. *)
LEMMA StartStep ==
  ASSUME IInv, NEW d, DispatcherOK(d, attached, prio),
         d.enf \subseteq HeadSet(d.ready), NEW r \in attached,
         NEW late, NEW defer, disp' = Start(d, r, prio, late, defer),
         UNCHANGED <<tableVars, periodTimer>>
  PROVE  IInv'
<1>1. DispatcherOK(disp', attached, prio) /\ disp'.enf \subseteq HeadSet(disp'.ready)
  BY StartOK, IInvFacts
<1> QED  BY <1>1, DispatcherStepIInv DEF DispatcherStep

(* A job that is stopped, by its own departure or by the scheduler thread, *)
(* leaves the dispatcher in order.                                         *)
LEMMA StopStep ==
  ASSUME IInv, NEW d, DispatcherOK(d, attached, prio),
         d.enf \subseteq HeadSet(d.ready), NEW r,
         NEW late, NEW defer, disp' = Stop(d, r, late, defer),
         UNCHANGED <<tableVars, periodTimer>>
  PROVE  IInv'
<1>1. DispatcherOK(disp', attached, prio) /\ disp'.enf \subseteq HeadSet(disp'.ready)
  BY StopOK, IInvFacts
<1> QED  BY <1>1, DispatcherStepIInv DEF DispatcherStep

(* What leaves the dispatcher alone leaves it in order. *)
LEMMA IdleStep ==
  ASSUME IInv, UNCHANGED <<disp, tableVars, periodTimer>>
  PROVE  IInv'
BY IInvFacts, DispatcherStepIInv DEF DispatcherStep

(* WAIT_RELEASE may start a job, and changes nothing else the invariant    *)
(* speaks of.                                                              *)
LEMMA WaitForNextReleaseStep ==
  ASSUME IInv, NEW r \in Rid, WaitForNextRelease(r)
  PROVE  IInv'
<1>1. /\ UNCHANGED <<tableVars, periodTimer>> /\ r \in attached
      /\ \/ disp' = disp
         \/ \E c \in Outcomes : disp' = Start(disp, r, prio, c.late, c.defer)
  BY DEF WaitForNextRelease, MayCall, Live
<1> QED  BY <1>1, IdleStep, StartStep, IInvFacts

(* A round over crit_blockq resumes a job, deletes a reserve or does       *)
(* neither.                                                                *)
LEMMA UnblockStep ==
  ASSUME IInv, Unblock
  PROVE  IInv'
<1>1. \/ UNCHANGED <<disp, tableVars, periodTimer>>
      \/ /\ UNCHANGED <<tableVars, periodTimer>>
         /\ \E t \in attached, c \in Outcomes :
              disp' = Start(disp, t, prio, c.late, c.defer)
      \/ \E t : DeleteReserve(disp, t)
  BY DEF Unblock, Live
<1> QED  BY <1>1, IdleStep, StartStep, DeleteReserveIInv, IInvFacts

(* pop_to_reschedule leaves the queue and the timers alone. *)
LEMMA PoppedRequestOK ==
  ASSUME NEW A, NEW pr, NEW d, DispatcherOK(d, A, pr)
  PROVE  LET e == PoppedRequest(d)
         IN  DispatcherOK(e, A, pr) /\ e.ready = d.ready /\ e.enf = d.enf
<1> DEFINE x == Front(d.stack)
           y == d.stop \ {Last(d.stack)}
           d1 == [d EXCEPT !.stack = x]
           e == [d1 EXCEPT !.stop = y]
<1>1. PoppedRequest(d) = e
  BY DEF PoppedRequest
<1>2. y \subseteq Rid
  BY DEF DispatcherOK
<1> HIDE DEF x, y
<1>3. DispatcherOK(d1, A, pr) /\ d1.ready = d.ready /\ d1.enf = d.enf
  BY SetStack
<1> HIDE DEF d1
<1>4. DispatcherOK(e, A, pr) /\ e.ready = d.ready /\ e.enf = d.enf
  BY <1>2, <1>3, SetStop
<1> HIDE DEF e
<1> QED  BY <1>1, <1>4

(* A pop stops a job, starts one, deletes a reserve or does nothing. *)
LEMMA SchedulerPopsStep ==
  ASSUME IInv, SchedulerPops
  PROVE  IInv'
<1> DEFINE r == Last(disp.stack)
           d == PoppedRequest(disp)
<1>1. \/ disp' = d /\ UNCHANGED <<tableVars, periodTimer>>
      \/ DeleteReserve(d, r)
      \/ /\ UNCHANGED <<tableVars, periodTimer>>
         /\ \E c \in Outcomes : disp' = Stop(d, r, c.late, c.defer)
      \/ /\ UNCHANGED <<tableVars, periodTimer>> /\ r \in attached
         /\ \E c \in Outcomes : disp' = Start(d, r, prio, c.late, c.defer)
  BY DEF SchedulerPops, Live
<1>2. DispatcherOK(d, attached, prio) /\ d.enf \subseteq HeadSet(d.ready)
  BY PoppedRequestOK, IInvFacts
<1> HIDE DEF d, r
<1>3. CASE disp' = d /\ UNCHANGED <<tableVars, periodTimer>>
  BY <1>2, <1>3, DispatcherStepIInv DEF DispatcherStep
<1> QED  BY <1>1, <1>2, <1>3, DeleteReserveIInv, StopStep, StartStep

(* The scheduler thread's other steps change disp.sched only. *)
LEMMA SchedStep ==
  ASSUME IInv, NEW x, disp' = [disp EXCEPT !.sched = x],
         UNCHANGED <<tableVars, periodTimer>>
  PROVE  IInv'
<1> DEFINE e == [disp EXCEPT !.sched = x]
<1>0. DispatcherOK(disp, attached, prio)
  BY IInvFacts
<1>1. DispatcherOK(e, attached, prio) /\ e.ready = disp.ready /\ e.enf = disp.enf
  BY <1>0, SetSched
<1>2. disp' = e
  OBVIOUS
<1> HIDE DEF e
<1>3. DispatcherOK(disp', attached, prio) /\ disp'.enf \subseteq HeadSet(disp'.ready)
  BY <1>1, <1>2, IInvFacts
<1> QED  BY <1>3, DispatcherStepIInv DEF DispatcherStep

(* Each step keeps the invariant. *)
LEMMA NextIInv ==
  ASSUME IInv, [Next]_vars
  PROVE  IInv'
<1>1. CASE UNCHANGED vars
  BY <1>1, IdleStep DEF vars
<1>2. ASSUME NEW r \in Rid, NEW p \in Params, Create(r, p)  PROVE IInv'
  BY <1>2, CreateIInv
<1>3. ASSUME NEW r \in Rid, Attach(r)  PROVE IInv'
  BY <1>3, AttachIInv
<1>4. ASSUME NEW r \in Rid, Delete(r)  PROVE IInv'
  BY <1>4, DeleteReserveIInv, IInvFacts DEF Delete
<1>5. ASSUME NEW r \in Rid, TaskExit(r)  PROVE IInv'
  BY <1>5, IdleStep DEF TaskExit
<1>6. ASSUME NEW r \in Rid, EnforcementTimer(r)  PROVE IInv'
  BY <1>6, EnforcementTimerStep
<1>7. ASSUME NEW r \in Rid, PeriodTimer(r)  PROVE IInv'
  BY <1>7, PeriodTimerStep
<1>8. ASSUME NEW r \in Rid, ZeroSlackTimer(r)  PROVE IInv'
  BY <1>8, ZeroSlackTimerStep
<1>9. ASSUME NEW r \in Rid, TimerAborts(r)  PROVE IInv'
  BY <1>9, TimerAbortsStep
<1>10. ASSUME NEW r \in Rid, WaitForNextPeriod(r) \/ EndOfPeriod(r)  PROVE IInv'
  BY <1>10, DepartureStep DEF WaitForNextPeriod, EndOfPeriod
<1>11. ASSUME NEW r \in Rid, WaitForNextRelease(r)  PROVE IInv'
  BY <1>11, WaitForNextReleaseStep
<1>12. CASE Unblock
  BY <1>12, UnblockStep
<1>13. CASE ReturnFromCall
  BY <1>13, IdleStep DEF ReturnFromCall
<1>14. CASE SchedulerEnters \/ SchedulerUnlocks \/ SchedulerSleeps
  BY <1>14, SchedStep DEF SchedulerEnters, SchedulerUnlocks, SchedulerSleeps
<1>15. CASE SchedulerPops
  BY <1>15, SchedulerPopsStep
<1>16. ASSUME NEW r \in Rid, PeriodTimerOfDying(r)  PROVE IInv'
  BY <1>16, FreeSlotIInv, IInvFacts DEF PeriodTimerOfDying
<1>17. CASE Next
  BY <1>2, <1>3, <1>4, <1>5, <1>6, <1>7, <1>8, <1>9, <1>10, <1>11, <1>12,
     <1>13, <1>14, <1>15, <1>16, <1>17 DEF Next
<1> QED  BY <1>1, <1>17

(* The invariant holds in every reachable state. *)
LEMMA InvariantHolds == Spec => []IInv
<1>1. Init => IInv
  BY InitIInv
<1>2. IInv /\ [Next]_vars => IInv'
  BY NextIInv
<1> QED  BY <1>1, <1>2, PTL DEF Spec

-----------------------------------------------------------------------------
(* The theorems.                                                           *)

(* The dispatcher's queues and sets, the slots and the tables of the       *)
(* reserves always have the types their declarations give them.            *)
THEOREM TypesCorrect == Spec => []DispatcherTypeOK
<1>1. IInv => DispatcherTypeOK
  <2> SUFFICES ASSUME IInv  PROVE DispatcherTypeOK
    OBVIOUS
  <2>1. TablesOK /\ RmQueueOK /\ DispatcherOK(disp, attached, prio)
    BY DEF IInv
  <2>2. disp.ready \in Seq(Rid)
    BY <2>1 DEF TablesOK, DispatcherOK
  <2> QED  BY <2>1, <2>2 DEF DispatcherTypeOK, TablesOK, RmQueueOK, DispatcherOK
<1> QED  BY <1>1, InvariantHolds, PTL

(* readyq is in strictly falling order of priority, although every attach  *)
(* renumbers the priorities of jobs that are queued.                       *)
THEOREM ReadyQueueSorted == Spec => []ReadySorted
<1>1. IInv => ReadySorted
  BY DEF IInv, DispatcherOK, Ordered, Falling, ReadySorted
<1> QED  BY <1>1, InvariantHolds, PTL

(* rm_head lists the slots in use, each once and in order of period,       *)
(* through every interleaving of create, attach and the four ways to       *)
(* delete a reserve.                                                       *)
THEOREM RmQueueSorted == Spec => []RmSorted
<1>1. IInv => RmSorted
  BY DEF IInv, RmQueueOK, Ordered, ByPeriod, RmSorted
<1> QED  BY <1>1, InvariantHolds, PTL

(* No job is queued in front of one with a shorter period.                 *)
THEOREM ReadyQueueRateMonotonic == Spec => []RateMonotonic
<1>1. IInv => RateMonotonic
  <2> SUFFICES ASSUME IInv  PROVE RateMonotonic
    OBVIOUS
  <2>1. TablesOK /\ RmQueueOK /\ attached \subseteq ToSet(rmq)
    BY IInvFacts DEF IInv
  <2>2. disp.ready \in Seq(attached) /\ Ordered(disp.ready, Falling(prio))
    BY DEF IInv, DispatcherOK
  <2>3. Ordered(disp.ready, ByPeriod(spec))
    BY <2>1, <2>2, ReadyFollowsRm DEF TablesOK, RmQueueOK
  <2> QED  BY <2>3 DEF Ordered, ByPeriod, RateMonotonic
<1> QED  BY <1>1, InvariantHolds, PTL

(* Only the job at the head of readyq has its enforcement timer armed.     *)
THEOREM OnlyTheHeadIsTimed == Spec => []OnlyHeadTimed
<1>1. IInv => OnlyHeadTimed
  <2> SUFFICES ASSUME IInv, NEW r \in disp.enf
               PROVE  disp.ready # <<>> /\ Head(disp.ready) = r
    BY DEF OnlyHeadTimed
  <2>1. r \in HeadSet(disp.ready)
    BY DEF IInv
  <2> QED  BY <2>1 DEF HeadSet
<1> QED  BY <1>1, InvariantHolds, PTL

(* Queued jobs, enforcement timers and zero-slack timers are those of      *)
(* attached reserves: none survives delete_reserve, whoever calls it, the  *)
(* handler of the reserve's own period timer included.  That timer is the  *)
(* only one that can be left behind, and only where tasks end.             *)
THEOREM TimersAreOwned == Spec => []TimersOwned
<1>1. IInv => TimersOwned
  <2> SUFFICES ASSUME IInv  PROVE TimersOwned
    OBVIOUS
  <2>1. TablesOK /\ DispatcherOK(disp, attached, prio)
    BY DEF IInv
  <2>2. ToSet(disp.ready) \subseteq attached
    BY <2>1, ToSetIs DEF DispatcherOK
  <2> QED  BY <2>1, <2>2 DEF TablesOK, PeriodTimersOwned, DispatcherOK, TimersOwned
<1> QED  BY <1>1, InvariantHolds, PTL
=============================================================================
