--------------------------- MODULE ZsrmJobsProofs ---------------------------
(***************************************************************************)
(* Which job runs, for every number of reserves and every set of           *)
(* parameters, in three layers.  The scheduler implements fixed-priority   *)
(* scheduling.  Its queued jobs and the tasks that may run are in step,    *)
(* when no reserve has a zero-slack instant and no task calls              *)
(* end_of_period; in general the task of a queued job is awake, or waits   *)
(* for a period or for a release that is noted.  And Linux then runs the   *)
(* task of the job at the head of the queue, once the activator thread has *)
(* nothing left to do.                                                     *)
(***************************************************************************)
EXTENDS ZsrmActivator, ZsrmStackProofs

-----------------------------------------------------------------------------
(* ZsrmFixedPriority: what each function of the dispatcher does to the     *)
(* jobs in the ready queue and to the one at its head is stated with four  *)
(* predicates on two dispatchers, from which the abstract steps follow.    *)

(* The job that runs in e and not in d is timed, asked to stop or in X. *)
Switched(d, e, X) ==
  HeadSet(e.ready) \subseteq HeadSet(d.ready) \cup e.enf \cup e.stop \cup X

SameJobs(d, e) ==
  ToSet(e.ready) = ToSet(d.ready) /\ HeadSet(e.ready) = HeadSet(d.ready)

Added(d, e, r) ==
  /\ r \notin ToSet(d.ready)
  /\ ToSet(e.ready) = ToSet(d.ready) \cup {r}
  /\ HeadSet(e.ready) \subseteq HeadSet(d.ready) \cup {r}

Removed(d, e, r) ==
  /\ r \in ToSet(d.ready)
  /\ ToSet(e.ready) = ToSet(d.ready) \ {r}
  /\ r \notin HeadSet(d.ready) => HeadSet(e.ready) = HeadSet(d.ready)

-----------------------------------------------------------------------------
(* The dispatcher's functions.                                             *)

(* budget_enforcement of the job that runs restarts its timer or asks for  *)
(* it to be stopped.                                                       *)
LEMMA RequestStopTells ==
  ASSUME NEW d, IsDispatcher(d), NEW r, NEW defer
  PROVE  LET e == RequestStop(d, r, defer)
         IN  IsDispatcher(e) /\ e.ready = d.ready /\ r \in e.enf \cup e.stop
<1> DEFINE e == RequestStop(d, r, defer)
<1>1. CASE r \in defer
  BY <1>1 DEF RequestStop, BudgetEnforcement, IsDispatcher
<1>2. CASE r \notin defer
  <2> DEFINE d0 == [d EXCEPT !.zs = @ \ {r}]
             d1 == [d0 EXCEPT !.stop = @ \cup {r}]
             d2 == Push(d1, r)
  <2>1. e = WakeScheduler(d2)
    BY <1>2 DEF RequestStop, BudgetEnforcement
  <2>0. IsDispatcher(d0) /\ d0.ready = d.ready
    BY DEF IsDispatcher
  <2> HIDE DEF d0
  <2>2. IsDispatcher(d1) /\ d1.ready = d.ready /\ r \in d1.stop
    BY <2>0 DEF IsDispatcher
  <2> HIDE DEF d1
  <2>3. IsDispatcher(d2) /\ d2.ready = d.ready /\ r \in d2.stop
    BY <2>2 DEF IsDispatcher, Push
  <2> HIDE DEF d2, e
  <2>4. IsDispatcher(e) /\ e.ready = d.ready /\ r \in e.stop
    BY <2>1, <2>3 DEF IsDispatcher, WakeScheduler
  <2> QED  BY <2>4 DEF e
<1> QED  BY <1>1, <1>2

(* start_enforcement_timer on the job at the head of the queue. *)
LEMMA RunHeadTells ==
  ASSUME NEW d, IsDispatcher(d), NEW defer
  PROVE  LET e == RunHead(d, defer)
         IN  /\ IsDispatcher(e) /\ e.ready = d.ready
             /\ HeadSet(e.ready) \subseteq e.enf \cup e.stop
<1> DEFINE e == RunHead(d, defer)
           h == Head(d.ready)
<1>1. CASE d.ready = <<>>
  BY <1>1 DEF HeadSet, RunHead
<1>2. CASE d.ready # <<>> /\ h \in d.spent
  <2>1. e = RequestStop(d, h, defer)
    BY <1>2 DEF RunHead, RequestStop
  <2>2. HeadSet(d.ready) = {h}
    BY <1>2 DEF HeadSet
  <2> HIDE DEF e, h
  <2>3. IsDispatcher(e) /\ e.ready = d.ready /\ h \in e.enf \cup e.stop
    BY <2>1, RequestStopTells
  <2> QED  BY <2>2, <2>3 DEF e
<1>3. CASE d.ready # <<>> /\ h \notin d.spent
  <2>1. IsDispatcher(e) /\ e.ready = d.ready /\ h \in e.enf
    BY <1>3 DEF RunHead, IsDispatcher
  <2>2. HeadSet(d.ready) = {h}
    BY <1>3 DEF HeadSet
  <2> QED  BY <2>1, <2>2
<1> QED  BY <1>1, <1>2, <1>3

(* The head of a queue after an insertion is the old one or the new job. *)
LEMMA InsertBeforeHead ==
  ASSUME NEW R, NEW s \in Seq(R), NEW r \in R, NEW S
  PROVE  HeadSet(InsertBefore(s, r, S)) \subseteq HeadSet(s) \cup {r}
<1> DEFINE k == FirstIn(s, S)
           t == InsertAt(s, k, r)
<1>1. k \in 1 .. Len(s) + 1
  BY FirstInIs
<1> HIDE DEF k
<1>2. /\ t \in Seq(R) /\ Len(t) = Len(s) + 1
      /\ \A j \in 1 .. Len(s) + 1 :
           t[j] = IF j < k THEN s[j] ELSE IF j = k THEN r ELSE s[j - 1]
  BY <1>1, InsertAtIs
<1> HIDE DEF t
<1>3. Len(s) \in Nat /\ t # <<>> /\ Head(t) = t[1]
  BY <1>2
<1>4. 1 \in 1 .. Len(s) + 1
  BY <1>3
<1>5. t[1] = r \/ (s # <<>> /\ t[1] = s[1])
  BY <1>1, <1>2, <1>3, <1>4
<1>6. HeadSet(t) \subseteq HeadSet(s) \cup {r}
  BY <1>3, <1>5 DEF HeadSet
<1> QED  BY <1>6 DEF InsertBefore, t, k

(* Replacing the ready queue. *)
LEMMA ReadyReplaced ==
  ASSUME NEW d, IsDispatcher(d), NEW q
  PROVE  LET e == [d EXCEPT !.ready = q] IN IsDispatcher(e) /\ e.ready = q
BY DEF IsDispatcher

(* start *)
LEMMA StartTells ==
  ASSUME NEW A, A \subseteq Rid, NEW pr, NEW d, DispatcherOK(d, A, pr),
         d.enf \subseteq HeadSet(d.ready), NEW r \in A, NEW late, NEW defer
  PROVE  LET e == Start(d, r, pr, late, defer)
         IN  /\ (r \in ToSet(d.ready) /\ e = d) \/ Added(d, e, r)
             /\ Switched(d, e, {})
<1> DEFINE e == Start(d, r, pr, late, defer)
<1>1. CASE r \in ToSet(d.ready)
  BY <1>1 DEF Start, Switched
<1>2. CASE r \notin ToSet(d.ready)
  <2> DEFINE S == {x \in ToSet(d.ready) : pr[x] < pr[r]}
             d1 == IF d.ready = <<>> THEN d ELSE Suspend(d, late)
             q == IF d.ready = <<>> THEN <<r>> ELSE InsertBefore(d.ready, r, S)
             d2 == [d1 EXCEPT !.ready = q]
  <2>1. IsDispatcher(d1) /\ d1.ready = d.ready
    BY SuspendOK DEF DispatcherOK
  <2>2. e = RunHead(d2, defer)
    BY <1>2, <2>1 DEF Start, AddReadyq
  <2>3. d.ready \in Seq(A)
    BY DEF DispatcherOK
  <2>4. /\ ToSet(q) = ToSet(d.ready) \cup {r}
        /\ HeadSet(q) \subseteq HeadSet(d.ready) \cup {r}
    <3> HIDE DEF S
    <3>1. CASE d.ready = <<>>
      BY <3>1 DEF ToSet, HeadSet
    <3>2. CASE d.ready # <<>>
      BY <2>3, <3>2, InsertBeforeIs, InsertBeforeHead
    <3> QED  BY <3>1, <3>2
  <2> HIDE DEF d1, q, e
  <2>5. IsDispatcher(d2) /\ d2.ready = q
    BY <2>1, ReadyReplaced
  <2> HIDE DEF d2
  <2>6. e.ready = q /\ HeadSet(e.ready) \subseteq e.enf \cup e.stop
    BY <2>2, <2>5, RunHeadTells
  <2>7. Added(d, e, r) /\ Switched(d, e, {})
    BY <1>2, <2>4, <2>6 DEF Added, Switched
  <2> QED  BY <2>7 DEF e
<1> QED  BY <1>1, <1>2

(* The job after the head is the head of the queue when that is removed. *)
LEMMA TailSet ==
  ASSUME NEW R, NEW s \in Seq(R), s # <<>>,
         \A a, b \in 1 .. Len(s) : a < b => s[a] # s[b]
  PROVE  /\ ToSet(Tail(s)) = ToSet(s) \ {Head(s)}
         /\ HeadSet(Unlink(s, Head(s))) = IF Len(s) > 1 THEN {s[2]} ELSE {}
<1>1. /\ Len(s) \in Nat \ {0} /\ Head(s) = s[1] /\ Head(s) \in ToSet(s)
      /\ Tail(s) \in Seq(R) /\ Len(Tail(s)) = Len(s) - 1
      /\ \A j \in 1 .. Len(s) - 1 : Tail(s)[j] = s[j + 1]
      /\ Head(s) \notin ToSet(Tail(s)) /\ ToSet(Tail(s)) \subseteq ToSet(s)
  BY TailIs
<1>2. ASSUME NEW x \in ToSet(s), x # Head(s)  PROVE x \in ToSet(Tail(s))
  <2>1. PICK i \in 1 .. Len(s) : x = s[i]
    BY ToSetIs
  <2>2. i - 1 \in 1 .. Len(s) - 1 /\ Tail(s)[i - 1] = x
    BY <1>1, <1>2, <2>1
  <2> DEFINE u == Tail(s)
  <2>3. u \in Seq(R) /\ i - 1 \in 1 .. Len(u) /\ x = u[i - 1]
    BY <1>1, <2>2
  <2> HIDE DEF u
  <2>4. x \in ToSet(u)
    BY <2>3, ToSetIs
  <2> QED  BY <2>4 DEF u
<1>3. ToSet(Tail(s)) = ToSet(s) \ {Head(s)}
  BY <1>1, <1>2
<1> DEFINE t == RemoveAt(s, 1)
<1>4. Unlink(s, Head(s)) = t
  <2>1. 1 \in 1 .. Len(s)
    BY <1>1
  <2>2. FirstIn(s, {s[1]}) = 1
    BY <2>1, FirstInUnique
  <2> QED  BY <1>1, <2>2 DEF Unlink
<1>5. /\ t \in Seq(R) /\ Len(t) = Len(s) - 1
      /\ \A j \in 1 .. Len(s) - 1 : t[j] = IF j < 1 THEN s[j] ELSE s[j + 1]
  <2>1. 1 \in 1 .. Len(s)
    BY <1>1
  <2> QED  BY <2>1, RemoveAtIs
<1> HIDE DEF t
<1>6. HeadSet(t) = IF Len(s) > 1 THEN {s[2]} ELSE {}
  <2>1. CASE Len(s) > 1
    <3>1. 1 \in 1 .. Len(s) - 1
      BY <1>1, <2>1
    <3>2. t[1] = s[2] /\ t # <<>> /\ Head(t) = t[1]
      BY <1>1, <1>5, <2>1, <3>1
    <3> QED  BY <2>1, <3>2 DEF HeadSet
  <2>2. CASE ~ (Len(s) > 1)
    <3>1. t = <<>>
      BY <1>1, <1>5, <2>2
    <3> QED  BY <2>2, <3>1 DEF HeadSet
  <2> QED  BY <2>1, <2>2
<1> QED  BY <1>3, <1>4, <1>6

(* stop *)
LEMMA StopTells ==
  ASSUME NEW A, A \subseteq Rid, NEW pr \in [Rid -> Int],
         NEW d, DispatcherOK(d, A, pr), d.enf \subseteq HeadSet(d.ready),
         NEW r, NEW late, NEW defer
  PROVE  LET e == Stop(d, r, late, defer)
         IN  (e = d \/ Removed(d, e, r)) /\ Switched(d, e, {})
<1> DEFINE e == Stop(d, r, late, defer)
<1>0. /\ d.ready \in Seq(A) /\ IsDispatcher(d)
      /\ \A a, b \in 1 .. Len(d.ready) : a < b => d.ready[a] # d.ready[b]
  BY FallingDistinct DEF DispatcherOK
<1>1. CASE r \notin ToSet(d.ready)
  BY <1>1 DEF Stop, Switched
<1>2. CASE r \in ToSet(d.ready) /\ r = Head(d.ready)
  <2> DEFINE d1 == Suspend(d, late)
             q  == Tail(d.ready)
             d2 == [d1 EXCEPT !.ready = q]
  <2>1. d.ready # <<>>
    BY <1>2 DEF ToSet
  <2>2. IsDispatcher(d1) /\ d1.ready = d.ready
    BY <2>1, SuspendOK DEF DispatcherOK
  <2>3. e = RunHead(d2, defer)
    BY <1>2, <2>2 DEF Stop
  <2>4. ToSet(q) = ToSet(d.ready) \ {r} /\ r \in HeadSet(d.ready)
    BY <1>0, <1>2, <2>1, TailSet DEF HeadSet
  <2> HIDE DEF d1, q, e
  <2>5. IsDispatcher(d2) /\ d2.ready = q
    BY <2>2, ReadyReplaced
  <2> HIDE DEF d2
  <2>6. e.ready = q /\ HeadSet(e.ready) \subseteq e.enf \cup e.stop
    BY <2>3, <2>5, RunHeadTells
  <2>7. Removed(d, e, r) /\ Switched(d, e, {})
    BY <1>2, <2>4, <2>6 DEF Removed, Switched
  <2> QED  BY <2>7 DEF e
<1>3. CASE r \in ToSet(d.ready) /\ r # Head(d.ready)
  <2> DEFINE q == Unlink(d.ready, r)
  <2>1. d.ready # <<>>
    BY <1>3 DEF ToSet
  <2>2. /\ ToSet(q) = ToSet(d.ready) \ {r}
        /\ q # <<>> /\ Head(q) = Head(d.ready)
    BY <1>0, <1>3, <2>1, UnlinkIs
  <2> HIDE DEF q
  <2>3. e.ready = q
    BY <1>0, <1>3, ReadyReplaced DEF Stop, q
  <2> HIDE DEF e
  <2>4. HeadSet(e.ready) = HeadSet(d.ready)
    BY <2>1, <2>2, <2>3 DEF HeadSet
  <2>5. Removed(d, e, r) /\ Switched(d, e, {})
    BY <1>3, <2>2, <2>3, <2>4 DEF Removed, Switched
  <2> QED  BY <2>5 DEF e
<1> QED  BY <1>1, <1>2, <1>3

(* The head of a queue is in the queue. *)
LEMMA HeadQueued ==
  ASSUME NEW R, NEW s \in Seq(R)
  PROVE  HeadSet(s) \subseteq ToSet(s)
BY TailIs DEF HeadSet

(* delete_reserve: a job whose task is gone may get the processor untimed. *)
LEMMA ForgetTells ==
  ASSUME NEW A, A \subseteq Rid, NEW pr \in [Rid -> Int],
         NEW d, DispatcherOK(d, A, pr), d.enf \subseteq HeadSet(d.ready),
         NEW r, NEW live, NEW late, NEW defer
  PROVE  LET e == Forget(d, r, live, late, defer)
         IN  (SameJobs(d, e) \/ Removed(d, e, r)) /\ Switched(d, e, A \ live)
<1> DEFINE q == Unlink(d.ready, r)
           unlinked == [d EXCEPT !.ready = q]
           restarts == /\ d.ready # <<>> /\ Head(d.ready) = r
                       /\ Len(d.ready) > 1 /\ d.ready[2] \in live
           stopped == IF r \in live THEN Stop(d, r, late, defer)
                      ELSE IF restarts THEN RunHead(unlinked, defer) ELSE unlinked
           e == Forget(d, r, live, late, defer)
<1>1. /\ d.ready \in Seq(A) /\ IsDispatcher(d)
      /\ \A a, b \in 1 .. Len(d.ready) : a < b => d.ready[a] # d.ready[b]
  BY FallingDistinct DEF DispatcherOK
<1>2. /\ q \in Seq(A) /\ ToSet(q) = ToSet(d.ready) \ {r}
      /\ d.ready # <<>> /\ Head(d.ready) # r => q # <<>> /\ Head(q) = Head(d.ready)
  <2> HIDE DEF unlinked, restarts, stopped, e
  <2>1. q \in Seq(A) /\ ToSet(q) = ToSet(d.ready) \ {r}
    BY <1>1, UnlinkIs
  <2>2. d.ready # <<>> /\ Head(d.ready) # r => q # <<>> /\ Head(q) = Head(d.ready)
    BY <1>1, UnlinkIs
  <2> QED  BY <2>1, <2>2
<1>3. d.ready # <<>> /\ Head(d.ready) = r
        => HeadSet(q) = IF Len(d.ready) > 1 THEN {d.ready[2]} ELSE {}
  <2> HIDE DEF unlinked, restarts, stopped, e
  <2> QED  BY <1>1, TailSet
<1>4. d.ready = <<>> => q = <<>>
  BY DEF Unlink, ToSet
<1> HIDE DEF q
<1>5. IsDispatcher(unlinked) /\ unlinked.ready = q
  BY <1>1, ReadyReplaced
<1> HIDE DEF unlinked
<1>6. HeadSet(q) = HeadSet(d.ready) \/ r \in HeadSet(d.ready)
  BY <1>2, <1>4 DEF HeadSet
<1>7. /\ IsDispatcher(stopped)
      /\ r \notin HeadSet(stopped.ready)
      /\ SameJobs(d, stopped) \/ Removed(d, stopped, r)
      /\ Switched(d, stopped, A \ live)
  <2>1. CASE r \in live
    <3>1. stopped = Stop(d, r, late, defer)
      BY <2>1
    <3> HIDE DEF stopped, restarts
    <3>2. DispatcherOK(stopped, A, pr) /\ r \notin ToSet(stopped.ready)
      BY <3>1, StopOK
    <3>3. (stopped = d \/ Removed(d, stopped, r)) /\ Switched(d, stopped, {})
      BY <3>1, StopTells
    <3>4. r \notin HeadSet(stopped.ready)
      BY <3>2, HeadQueued DEF DispatcherOK
    <3> QED  BY <3>2, <3>3, <3>4 DEF DispatcherOK, SameJobs, Switched
  <2>2. CASE r \notin live
    <3>1. /\ IsDispatcher(stopped) /\ stopped.ready = q
          /\ restarts => HeadSet(q) \subseteq stopped.enf \cup stopped.stop
      <4>1. stopped = IF restarts THEN RunHead(unlinked, defer) ELSE unlinked
        BY <2>2
      <4> HIDE DEF stopped, restarts
      <4> QED  BY <1>5, <4>1, RunHeadTells
    <3> HIDE DEF stopped
    <3>2. r \notin HeadSet(q)
      BY <1>2, HeadQueued
    <3>3. SameJobs(d, stopped) \/ Removed(d, stopped, r)
      <4>1. CASE r \in ToSet(d.ready)
        BY <1>2, <1>6, <3>1, <4>1 DEF Removed
      <4>2. CASE r \notin ToSet(d.ready)
        <5>1. r \notin HeadSet(d.ready)
          BY <1>1, <4>2, HeadQueued
        <5> QED  BY <1>2, <1>6, <3>1, <4>2, <5>1 DEF SameJobs
      <4> QED  BY <4>1, <4>2
    <3>4. HeadSet(q) \subseteq HeadSet(d.ready) \/ restarts
            \/ HeadSet(q) \subseteq A \ live
      <4>1. CASE d.ready # <<>> /\ Head(d.ready) = r
        <5>1. Len(d.ready) > 1 => d.ready[2] \in A
          BY <1>1
        <5> QED  BY <1>3, <4>1, <5>1
      <4>2. CASE ~ (d.ready # <<>> /\ Head(d.ready) = r)
        BY <1>6, <4>2 DEF HeadSet
      <4> QED  BY <4>1, <4>2
    <3> QED  BY <3>1, <3>2, <3>3, <3>4 DEF Switched
  <2> QED  BY <2>1, <2>2
<1>8. e = [[stopped EXCEPT !.enf = @ \ {r}] EXCEPT !.zs = @ \ {r}]
  BY DEF Forget, q, unlinked
<1> HIDE DEF stopped, restarts, e
<1>9. e.ready = stopped.ready /\ e.stop = stopped.stop /\ e.enf = stopped.enf \ {r}
  BY <1>7, <1>8 DEF IsDispatcher
<1>10. Switched(d, e, A \ live)
  BY <1>7, <1>9 DEF Switched
<1> QED  BY <1>7, <1>9, <1>10 DEF SameJobs, Removed, e

-----------------------------------------------------------------------------
(* A step as the abstract specification sees it: the jobs stay the same,   *)
(* or one of them comes or goes.                                           *)
Advances ==
  /\ Switched(disp, disp', Rid \ alive')
  /\ \/ SameJobs(disp, disp') /\ \A x \in attached : spec'[x] = spec[x]
     \/ spec' = spec /\ \E r \in Rid : Added(disp, disp', r) \/ Removed(disp, disp', r)

(* Steps that leave the ready queue alone. *)
LEMMA SameQueueAdvances ==
  ASSUME disp'.ready = disp.ready, \A x \in attached : spec'[x] = spec[x]
  PROVE  Advances
BY DEF Advances, Switched, SameJobs

(* Steps that start or stop one job. *)
LEMMA OneJobAdvances ==
  ASSUME IInv, NEW d, DispatcherOK(d, attached, prio),
         d.enf \subseteq HeadSet(d.ready), d.ready = disp.ready,
         NEW r, NEW late, NEW defer, spec' = spec,
         \/ r \in attached /\ disp' = Start(d, r, prio, late, defer)
         \/ disp' = Stop(d, r, late, defer)
  PROVE  Advances
<1>1. attached \subseteq Rid /\ prio \in [Rid -> Int]
  BY IInvFacts
<1>2. /\ Switched(d, disp', {})
      /\ disp' = d \/ (r \in attached /\ Added(d, disp', r)) \/ Removed(d, disp', r)
  BY <1>1, StartTells, StopTells
<1>3. Switched(disp, disp', Rid \ alive')
  BY <1>2 DEF Switched
<1>4. CASE disp' = d
  BY <1>3, <1>4 DEF Advances, SameJobs
<1>5. CASE r \in attached /\ Added(d, disp', r)
  BY <1>1, <1>3, <1>5 DEF Advances, Added
<1>6. CASE Removed(d, disp', r)
  <2>1. r \in Rid
    BY <1>1, <1>6, ToSetIs DEF Removed, DispatcherOK
  <2> QED  BY <1>3, <1>6, <2>1 DEF Advances, Removed
<1> QED  BY <1>2, <1>4, <1>5, <1>6

(* delete_reserve *)
LEMMA FreeSlotAdvances ==
  ASSUME IInv, NEW d, DispatcherOK(d, attached, prio),
         d.enf \subseteq HeadSet(d.ready), d.ready = disp.ready,
         NEW r, NEW live, FreeSlot(d, r, live), Live \ {r} \subseteq live
  PROVE  Advances
<1>1. attached \subseteq Rid /\ prio \in [Rid -> Int]
  BY IInvFacts
<1>2. PICK c \in Outcomes :
        /\ disp' = Forget(d, r, live, c.late, c.defer)
        /\ alive' = alive \ {r} /\ spec' = spec
  BY DEF FreeSlot
<1>3. /\ SameJobs(d, disp') \/ Removed(d, disp', r)
      /\ Switched(d, disp', attached \ live)
  BY <1>1, <1>2, ForgetTells
<1>4. attached \ live \subseteq Rid \ alive'
  BY <1>1, <1>2 DEF Live
<1>5. Switched(disp, disp', Rid \ alive')
  BY <1>3, <1>4 DEF Switched
<1>6. CASE SameJobs(d, disp')
  BY <1>2, <1>5, <1>6 DEF Advances, SameJobs
<1>7. CASE Removed(d, disp', r)
  <2>1. r \in Rid
    BY <1>1, <1>7, ToSetIs DEF Removed, DispatcherOK
  <2> QED  BY <1>2, <1>5, <1>7, <2>1 DEF Advances, Removed
<1> QED  BY <1>3, <1>6, <1>7

(* attach_reserve starts the first job under the new priorities. *)
LEMMA AttachAdvances ==
  ASSUME IInv, NEW r \in Rid, Attach(r)
  PROVE  Advances
<1>1. disp.enf \subseteq HeadSet(disp.ready) /\ spec' = spec
  BY IInvFacts DEF Attach
<1>2. PICK d, late, defer :
        /\ DispatcherOK(d, attached', prio')
        /\ d.ready = disp.ready /\ d.enf = disp.enf
        /\ disp' = Start(d, r, prio', late, defer)
  BY AttachRenumbers
<1>3. attached' \subseteq Rid /\ r \in attached'
  BY AttachRenumbers
<1> DEFINE A == attached'
           pr == prio'
           e == Start(d, r, pr, late, defer)
<1>4. /\ DispatcherOK(d, A, pr) /\ disp' = e /\ A \subseteq Rid /\ r \in A
      /\ d.enf \subseteq HeadSet(d.ready)
  BY <1>1, <1>2, <1>3
<1> HIDE DEF A, pr, e
<1>5. (e = d \/ Added(d, e, r)) /\ Switched(d, e, {})
  BY <1>4, StartTells DEF e
<1>6. Switched(disp, disp', Rid \ alive')
  BY <1>2, <1>4, <1>5 DEF Switched
<1>7. CASE e = d
  BY <1>1, <1>2, <1>4, <1>6, <1>7 DEF Advances, SameJobs
<1>8. CASE Added(d, e, r)
  BY <1>1, <1>2, <1>4, <1>6, <1>8 DEF Advances, Added
<1> QED  BY <1>5, <1>7, <1>8

(* A timer whose task is gone. *)
LEMMA TimerOfDeadTaskKeeps ==
  ASSUME NEW A, NEW pr, NEW d, DispatcherOK(d, A, pr), NEW r, TimerOfDeadTask(d, r)
  PROVE  disp'.ready = d.ready
<1> DEFINE d1 == [d EXCEPT !.stop = @ \ {r}]
<1>1. disp' = WakeScheduler(Push(d1, r)) \/ disp' = d
  BY DEF TimerOfDeadTask
<1>2. d.stop \ {r} \subseteq Rid
  BY DEF DispatcherOK
<1>3. DispatcherOK(d1, A, pr) /\ d1.ready = d.ready
  BY <1>2, SetStop
<1> HIDE DEF d1
<1>4. WakeScheduler(Push(d1, r)).ready = d.ready
  BY <1>3, PushOK
<1> QED  BY <1>1, <1>4

LEMMA TimerOfDeadTaskAdvances ==
  ASSUME NEW A, NEW pr, NEW d, DispatcherOK(d, A, pr), d.ready = disp.ready,
         NEW r, TimerOfDeadTask(d, r), spec' = spec
  PROVE  Advances
BY TimerOfDeadTaskKeeps, SameQueueAdvances

(* The order of the priorities leaves no choice of the head. *)
LEMMA SameHead ==
  ASSUME NEW A, A \subseteq Rid, NEW pr \in [Rid -> Int],
         NEW s \in Seq(A), Ordered(s, Falling(pr)),
         NEW t \in Seq(A), Ordered(t, Falling(pr)), ToSet(s) = ToSet(t)
  PROVE  HeadSet(s) = HeadSet(t)
<1>1. s = <<>> <=> t = <<>>
  <2>1. s # <<>> => ToSet(s) # {}
    BY TailIs
  <2>2. t # <<>> => ToSet(t) # {}
    BY TailIs
  <2>3. ToSet(<<>>) = {}
    BY DEF ToSet
  <2> QED  BY <2>1, <2>2, <2>3
<1>2. ASSUME s # <<>>, t # <<>>, Head(s) # Head(t)  PROVE FALSE
  <2>1. /\ Head(s) = s[1] /\ Head(t) = t[1] /\ Head(s) \in ToSet(s)
        /\ Head(t) \in ToSet(t) /\ 1 \in 1 .. Len(s) /\ 1 \in 1 .. Len(t)
    BY <1>2, TailIs
  <2>0. /\ \A x : x \in ToSet(t) <=> \E i \in 1 .. Len(t) : x = t[i]
        /\ \A x : x \in ToSet(s) <=> \E j \in 1 .. Len(s) : x = s[j]
    BY ToSetIs
  <2>2. PICK i \in 1 .. Len(t) : s[1] = t[i]
    BY <2>0, <2>1
  <2>3. PICK j \in 1 .. Len(s) : t[1] = s[j]
    BY <2>0, <2>1
  <2>4. 1 < i /\ 1 < j
    BY <1>2, <2>1, <2>2, <2>3
  <2>5. pr[t[1]] > pr[t[i]] /\ pr[s[1]] > pr[s[j]]
    BY <2>1, <2>4 DEF Ordered, Falling
  <2>6. pr[t[1]] \in Int /\ pr[s[1]] \in Int
    BY <2>1
  <2> QED  BY <2>2, <2>3, <2>5, <2>6
<1> QED  BY <1>1, <1>2 DEF HeadSet

(* start_of_period stops the old job, if it has not left, and starts the   *)
(* new one: the jobs may end up the same.                                  *)
LEMMA StartOfPeriodAdvances ==
  ASSUME IInv, NEW r \in attached, StartOfPeriod(r), spec' = spec
  PROVE  Advances
<1> DEFINE d0 == EnfDisarmed(disp, r)
           e0 == SkipStop(d0, r)
<1>1. PICK c \in Outcomes, started \in Incremented(startPeriod[r]) :
        LET d1 == IF Overrun(started) THEN Stop(e0, r, c.late, c.defer) ELSE disp
            d2 == [d1 EXCEPT !.spent = @ \ {r},
                             !.zs = IF spec[r].zs THEN @ \cup {r} ELSE @]
        IN  disp' = Start(d2, r, prio, c.late, c.defer) \/ disp' = d2
  BY DEF StartOfPeriod, SkipStop, EnfDisarmed
<1> DEFINE d1 == IF Overrun(started) THEN Stop(e0, r, c.late, c.defer) ELSE disp
           x == d1.spent \ {r}
           y == IF spec[r].zs THEN d1.zs \cup {r} ELSE d1.zs
           s1 == [d1 EXCEPT !.spent = x]
           d2 == [s1 EXCEPT !.zs = y]
           e == Start(d2, r, prio, c.late, c.defer)
<1>2. disp' = e \/ disp' = d2
  BY <1>1
<1>3. /\ DispatcherOK(disp, attached, prio) /\ attached \subseteq Rid
      /\ disp.enf \subseteq HeadSet(disp.ready) /\ prio \in [Rid -> Int]
      /\ \A v, w \in attached : v # w => prio[v] # prio[w]
  BY IInvFacts
<1>4. /\ DispatcherOK(d0, attached, prio) /\ d0.enf \subseteq HeadSet(d0.ready)
      /\ d0.ready = disp.ready
  BY <1>3, EnfDisarmedOK
<1> HIDE DEF d0
<1>5. /\ DispatcherOK(e0, attached, prio) /\ e0.enf \subseteq HeadSet(e0.ready)
      /\ e0.ready = disp.ready
  BY <1>4, SkipStopOK
<1> HIDE DEF e0
<1>6. /\ DispatcherOK(d1, attached, prio) /\ d1.enf \subseteq HeadSet(d1.ready)
      /\ d1.ready = disp.ready \/ Removed(disp, d1, r)
      /\ Switched(disp, d1, {})
  <2>1. CASE Overrun(started)
    <3>1. d1 = Stop(e0, r, c.late, c.defer)
      BY <2>1
    <3> HIDE DEF d1
    <3>2. DispatcherOK(d1, attached, prio) /\ d1.enf \subseteq HeadSet(d1.ready)
      BY <1>3, <1>5, <3>1, StopOK
    <3>3. (d1 = e0 \/ Removed(e0, d1, r)) /\ Switched(e0, d1, {})
      BY <1>3, <1>5, <3>1, StopTells
    <3> QED  BY <1>5, <3>2, <3>3 DEF Removed, Switched
  <2>2. CASE ~ Overrun(started)
    <3>1. d1 = disp
      BY <2>2
    <3> QED  BY <1>3, <3>1 DEF Switched
  <2> QED  BY <2>1, <2>2
<1> HIDE DEF d1
<1>7. x \subseteq Rid /\ y \subseteq attached
  BY <1>6 DEF DispatcherOK
<1> HIDE DEF x, y
<1>8. DispatcherOK(s1, attached, prio) /\ s1.ready = d1.ready /\ s1.enf = d1.enf
  BY <1>6, <1>7, SetSpent
<1>9. s1.stop = d1.stop
  BY <1>6 DEF DispatcherOK, IsDispatcher
<1> HIDE DEF s1
<1>10. DispatcherOK(d2, attached, prio) /\ d2.ready = d1.ready /\ d2.enf = d1.enf
  BY <1>7, <1>8, SetZs
<1>11. d2.stop = d1.stop
  BY <1>8, <1>9 DEF DispatcherOK, IsDispatcher
<1> HIDE DEF d2
<1>12. CASE disp' = d2
  <2>1. Switched(disp, disp', Rid \ alive')
    BY <1>6, <1>10, <1>11, <1>12 DEF Switched
  <2>2. CASE d1.ready = disp.ready
    BY <1>10, <1>12, <2>1, <2>2 DEF Advances, SameJobs
  <2>3. CASE Removed(disp, d1, r)
    BY <1>3, <1>10, <1>12, <2>1, <2>3 DEF Advances, Removed
  <2> QED  BY <1>6, <2>2, <2>3
<1>13. CASE disp' = e
  <2>1. /\ disp' = d2 \/ Added(d2, disp', r)
        /\ Switched(d2, disp', {})
    BY <1>3, <1>6, <1>10, <1>13, StartTells
  <2>2. DispatcherOK(disp', attached, prio)
    BY <1>3, <1>6, <1>10, <1>13, StartOK
  <2> HIDE DEF e
  <2>3. CASE Added(d2, disp', r) /\ d1.ready = disp.ready
    <3>1. Switched(disp, disp', Rid \ alive')
      BY <1>10, <2>1, <2>3 DEF Switched
    <3> QED  BY <1>3, <1>10, <2>3, <3>1 DEF Advances, Added
  <2>4. CASE Added(d2, disp', r) /\ Removed(disp, d1, r)
    <3>1. ToSet(disp'.ready) = ToSet(disp.ready)
      BY <1>10, <2>4 DEF Added, Removed
    <3>2. HeadSet(disp'.ready) = HeadSet(disp.ready)
      BY <1>3, <2>2, <3>1, SameHead DEF DispatcherOK
    <3> QED  BY <3>1, <3>2 DEF Advances, SameJobs, Switched
  <2> QED  BY <1>6, <1>12, <2>1, <2>3, <2>4
<1> QED  BY <1>2, <1>12, <1>13

(* Every step of the scheduler advances the jobs by at most one. *)
LEMMA NextAdvances ==
  ASSUME IInv, [Next]_vars
  PROVE  Advances
<1>0. /\ DispatcherOK(disp, attached, prio) /\ attached \subseteq Rid
      /\ disp.enf \subseteq HeadSet(disp.ready) /\ spec \in [Rid -> Params \cup {NoParams}]
  BY IInvFacts
<1>1. CASE UNCHANGED vars
  BY <1>1, SameQueueAdvances DEF vars, tableVars
<1>2. ASSUME NEW r \in Rid, NEW p \in Params, Create(r, p)  PROVE Advances
  <2>1. disp' = disp /\ \A x \in attached : spec'[x] = spec[x]
    BY <1>0, <1>2 DEF Create
  <2> QED  BY <2>1, SameQueueAdvances
<1>3. ASSUME NEW r \in Rid, Attach(r)  PROVE Advances
  BY <1>3, AttachAdvances
<1>17. ASSUME NEW d, DispatcherOK(d, attached, prio), d.enf \subseteq HeadSet(d.ready),
              d.ready = disp.ready, NEW t, DeleteReserve(d, t)
       PROVE  Advances
  BY <1>17, FreeSlotAdvances DEF DeleteReserve
<1>4. ASSUME NEW r \in Rid, Delete(r) \/ PeriodTimerOfDying(r)  PROVE Advances
  BY <1>0, <1>4, <1>17, FreeSlotAdvances DEF Delete, PeriodTimerOfDying
<1>5. ASSUME NEW r \in Rid, TaskExit(r)  PROVE Advances
  BY <1>5, SameQueueAdvances DEF TaskExit, tableVars
<1>6. ASSUME NEW r \in Rid, EnforcementTimer(r)  PROVE Advances
  <2> DEFINE d == Expired(disp, r)
  <2>1. /\ r \in disp.enf /\ spec' = spec
        /\ \/ \E c \in Outcomes : disp' = RequestStop(d, r, c.defer)
           \/ TimerOfDeadTask(d, r)
    BY <1>6 DEF EnforcementTimer, RequestStop, Expired, tableVars
  <2>2. DispatcherOK(d, attached, prio) /\ d.ready = disp.ready
    BY <2>1, ExpiredOK
  <2> HIDE DEF d
  <2>3. CASE \E c \in Outcomes : disp' = RequestStop(d, r, c.defer)
    <3>1. disp'.ready = disp.ready
      BY <2>2, <2>3, RequestStopTells DEF DispatcherOK
    <3> QED  BY <2>1, <3>1, SameQueueAdvances
  <2>4. CASE TimerOfDeadTask(d, r)
    BY <2>1, <2>2, <2>4, TimerOfDeadTaskAdvances
  <2> QED  BY <2>1, <2>3, <2>4
<1>7. ASSUME NEW r \in Rid, PeriodTimer(r)  PROVE Advances
  <2>1. /\ spec' = spec
        /\ (r \in attached /\ StartOfPeriod(r)) \/ TimerOfDeadTask(disp, r)
    BY <1>7 DEF PeriodTimer, tableVars, Live
  <2> QED  BY <1>0, <2>1, StartOfPeriodAdvances, TimerOfDeadTaskAdvances
<1>8. ASSUME NEW r \in Rid, ZeroSlackTimer(r)  PROVE Advances
  <2> DEFINE d == ZsDisarmed(disp, r)
  <2>1. /\ spec' = spec
        /\ \/ TimerOfDeadTask(d, r)
           \/ disp' = d
           \/ disp' = StopLessCritical(d, r, Crit)
    BY <1>8 DEF ZeroSlackTimer, ZsEnforcement, ZsDisarmed, tableVars
  <2>2. DispatcherOK(d, attached, prio) /\ d.ready = disp.ready
    BY <1>0, ZsDisarmedOK
  <2> HIDE DEF d
  <2>3. CASE TimerOfDeadTask(d, r)
    BY <2>1, <2>2, <2>3, TimerOfDeadTaskAdvances
  <2>4. CASE disp' = d
    BY <2>1, <2>2, <2>4, SameQueueAdvances
  <2>5. CASE disp' = StopLessCritical(d, r, Crit)
    <3>1. disp'.ready = disp.ready
      BY <1>0, <2>2, <2>5, StopLessCriticalOK
    <3> QED  BY <2>1, <3>1, SameQueueAdvances
  <2> QED  BY <2>1, <2>3, <2>4, <2>5
<1>9. ASSUME NEW r \in Rid, TimerAborts(r)  PROVE Advances
  <2>1. disp'.ready = disp.ready /\ spec' = spec
    BY <1>0, <1>9 DEF TimerAborts, DispatcherOK, IsDispatcher, tableVars
  <2> QED  BY <2>1, SameQueueAdvances
<1>10. ASSUME NEW r \in Rid, NEW call, Departure(r, call)  PROVE Advances
  <2> DEFINE d == ZsDisarmed(disp, r)
  <2>1. PICK c \in Outcomes : spec' = spec /\ disp' = Stop(d, r, c.late, c.defer)
    BY <1>10 DEF Departure, ZsDisarmed, tableVars
  <2>2. /\ DispatcherOK(d, attached, prio) /\ d.enf \subseteq HeadSet(d.ready)
        /\ d.ready = disp.ready
    BY <1>0, ZsDisarmedOK
  <2> HIDE DEF d
  <2> QED  BY <2>1, <2>2, OneJobAdvances
<1>11. ASSUME NEW r \in Rid, WaitForNextRelease(r)  PROVE Advances
  <2>1. /\ spec' = spec /\ r \in attached
        /\ \/ disp' = disp
           \/ \E c \in Outcomes : disp' = Start(disp, r, prio, c.late, c.defer)
    BY <1>11 DEF WaitForNextRelease, MayCall, Live, tableVars
  <2> QED  BY <1>0, <2>1, OneJobAdvances, SameQueueAdvances
<1>12. CASE Unblock
  <2>1. \/ disp' = disp /\ spec' = spec
        \/ /\ spec' = spec
           /\ \E t \in attached, c \in Outcomes :
                disp' = Start(disp, t, prio, c.late, c.defer)
        \/ \E t : DeleteReserve(disp, t)
    BY <1>12 DEF Unblock, Live, tableVars
  <2> QED  BY <1>0, <1>17, <2>1, OneJobAdvances, SameQueueAdvances
<1>13. CASE ReturnFromCall
  BY <1>13, SameQueueAdvances DEF ReturnFromCall, tableVars
<1>14. CASE SchedulerEnters \/ SchedulerUnlocks \/ SchedulerSleeps
  <2>1. disp'.ready = disp.ready /\ spec' = spec
    BY <1>0, <1>14 DEF SchedulerEnters, SchedulerUnlocks, SchedulerSleeps,
       DispatcherOK, IsDispatcher, tableVars
  <2> QED  BY <2>1, SameQueueAdvances
<1>15. CASE SchedulerPops
  <2> DEFINE r == Last(disp.stack)
             d == PoppedRequest(disp)
  <2>1. \/ disp' = d /\ spec' = spec
        \/ DeleteReserve(d, r)
        \/ /\ spec' = spec
           /\ \E c \in Outcomes :
                \/ disp' = Stop(d, r, c.late, c.defer)
                \/ r \in attached /\ disp' = Start(d, r, prio, c.late, c.defer)
    BY <1>15 DEF SchedulerPops, Live, tableVars
  <2>2. /\ DispatcherOK(d, attached, prio) /\ d.enf \subseteq HeadSet(d.ready)
        /\ d.ready = disp.ready
    BY <1>0, PoppedRequestOK
  <2> HIDE DEF d, r
  <2> QED  BY <1>17, <2>1, <2>2, OneJobAdvances, SameQueueAdvances
<1>16. CASE Next
  BY <1>2, <1>3, <1>4, <1>5, <1>6, <1>7, <1>8, <1>9, <1>10, <1>11, <1>12,
     <1>13, <1>14, <1>15, <1>16 DEF Next, WaitForNextPeriod, EndOfPeriod
<1> QED  BY <1>1, <1>16

-----------------------------------------------------------------------------
(* The mapping.                                                            *)

(* What a state of the scheduler promises of the abstract state. *)
StateMaps ==
  LET running == IF disp.ready = <<>> THEN Nil ELSE Head(disp.ready)
  IN  /\ ToSet(disp.ready) \subseteq attached /\ attached \subseteq Rid
      /\ disp.ready = <<>> <=> ToSet(disp.ready) = {}
      /\ disp.ready # <<>>
           => /\ running \in ToSet(disp.ready) /\ running # Nil
              /\ \A x \in ToSet(disp.ready) : Period[running] <= Period[x]
      /\ HeadSet(disp.ready) = IF disp.ready = <<>> THEN {} ELSE {running}
      /\ disp.enf \subseteq HeadSet(disp.ready)

(* The job at the head of readyq has the shortest period. *)
LEMMA IInvMaps == IInv => StateMaps
<1> SUFFICES ASSUME IInv  PROVE StateMaps
  OBVIOUS
<1> DEFINE q == disp.ready
           h == Head(q)
<1>1. /\ q \in Seq(attached) /\ attached \subseteq Rid /\ disp.enf \subseteq HeadSet(q)
      /\ spec \in [Rid -> Params \cup {NoParams}] /\ Ordered(q, Falling(prio))
  BY IInvFacts DEF DispatcherOK
<1>2. ToSet(q) \subseteq attached
  BY <1>1, ToSetIs
<1>3. q = <<>> => ToSet(q) = {}
  BY DEF ToSet
<1>4. q # <<>> => h \in ToSet(q) /\ h = q[1] /\ Len(q) \in Nat \ {0}
  BY <1>1, TailIs
<1>5. h \in Rid => h # Nil
  BY MaxReservesAssumption DEF Rid, Nil
<1>6. Ordered(q, ByPeriod(spec))
  <2>1. TablesOK /\ RmQueueOK /\ attached \subseteq ToSet(rmq)
    BY IInvFacts DEF IInv
  <2> QED  BY <1>1, <2>1, ReadyFollowsRm DEF TablesOK, RmQueueOK
<1>7. ASSUME q # <<>>, NEW x \in ToSet(q)  PROVE Period[h] <= Period[x]
  <2>1. PICK i \in 1 .. Len(q) : x = q[i]
    BY <1>1, ToSetIs
  <2>2. x \in Rid /\ h \in Rid
    BY <1>1, <1>2, <1>4, <1>7
  <2>3. \A z \in Rid : Period[z] = spec[z].period /\ spec[z].period \in Nat
    BY <1>1, ParamsAssumption DEF Period, NoParams
  <2>4. CASE i = 1
    BY <1>4, <1>7, <2>1, <2>2, <2>3, <2>4
  <2>5. CASE i # 1
    <3>1. 1 \in 1 .. Len(q) /\ 1 < i
      BY <1>4, <1>7, <2>1, <2>5
    <3>2. <<q[1], q[i]>> \in ByPeriod(spec)
      BY <1>6, <2>1, <3>1 DEF Ordered
    <3> QED  BY <1>4, <1>7, <2>1, <2>2, <2>3, <3>2 DEF ByPeriod
  <2> QED  BY <2>4, <2>5
<1>8. HeadSet(q) = IF q = <<>> THEN {} ELSE {h}
  BY DEF HeadSet
<1> QED  BY <1>1, <1>2, <1>3, <1>4, <1>5, <1>7, <1>8 DEF StateMaps

(* The initial state maps to an initial state. *)
LEMMA InitMaps == Init => FixedPriority!Init
<1> SUFFICES ASSUME Init  PROVE FixedPriority!Init
  OBVIOUS
<1>1. disp.ready = <<>> /\ disp.enf = {} /\ disp.stop = {} /\ alive = {}
  BY DEF Init, IdleDispatcher
<1>2. ToSet(disp.ready) = {}
  BY <1>1 DEF ToSet
<1>3. Period \in [Rid -> Nat]
  BY DEF Init, Period, NoParams
<1> QED  BY <1>1, <1>2, <1>3 DEF FixedPriority!Init

(* Every step maps to a step. *)
LEMMA NextMaps ==
  ASSUME StateMaps, StateMaps', Advances
  PROVE  FixedPriority!Next
<1> DEFINE active  == ToSet(disp.ready)
           running == IF disp.ready = <<>> THEN Nil ELSE Head(disp.ready)
           heads   == HeadSet(disp.ready)
           excused == disp.stop \cup (Rid \ alive)
           Comes(r) == /\ r \notin active /\ active' = active \cup {r}
                       /\ heads' \subseteq heads \cup {r}
           Goes(r)  == /\ r \in active /\ active' = active \ {r}
                       /\ r \notin heads => heads' = heads
<1>1. /\ active \subseteq attached /\ attached \subseteq Rid
      /\ active = {} => running = Nil /\ heads = {}
      /\ active # {} => running \in active /\ running # Nil /\ heads = {running}
  BY DEF StateMaps
<1>2. /\ active' \subseteq Rid
      /\ active' = {} => running' = Nil /\ heads' = {}
      /\ active' # {} => /\ running' \in active' /\ running' # Nil /\ heads' = {running'}
                         /\ \A x \in active' : Period'[running'] <= Period'[x]
      /\ disp.enf' \subseteq heads'
  BY DEF StateMaps
<1>3. spec' = spec => Period' = Period
  BY DEF Period
<1>4. \A x \in Rid : spec'[x] = spec[x] => Period'[x] = Period[x]
  BY DEF Period
<1>5. heads' \subseteq heads \cup disp.enf' \cup excused'
  BY DEF Advances, Switched
<1>6. \/ /\ active' = active /\ heads' = heads
         /\ \A x \in attached : spec'[x] = spec[x]
      \/ spec' = spec /\ \E r \in Rid : Comes(r) \/ Goes(r)
  BY DEF Advances, SameJobs, Added, Removed
<1>7. FixedPriority!Dispatched
  <2> HIDE DEF heads, excused
  <2> QED  BY <1>2 DEF FixedPriority!Dispatched, active, running
<1>8. FixedPriority!Counted
  <2>1. disp.enf' \subseteq active' \cap {running'}
    <3> HIDE DEF active, running, heads, excused
    <3> QED  BY <1>2
  <2>2. running' \notin {running, Nil} => running' \in disp.enf' \cup excused'
    <3> HIDE DEF active, running, heads, excused
    <3>1. running' \notin {running, Nil} => running' \in heads' /\ running' \notin heads
      BY <1>1, <1>2
    <3> QED  BY <1>5, <3>1
  <2> QED  BY <2>1, <2>2 DEF FixedPriority!Counted
<1>9. \/ \E r \in Rid \ active : FixedPriority!Release(r)
      \/ \E r \in active : FixedPriority!End(r)
      \/ FixedPriority!Continue
  <2>1. CASE /\ active' = active /\ heads' = heads
             /\ \A x \in attached : spec'[x] = spec[x]
    <3>1. running' = running /\ \A x \in active : Period'[x] = Period[x]
      <4> HIDE DEF active, running, heads, excused
      <4> QED  BY <1>1, <1>2, <1>4, <2>1
    <3> QED  BY <2>1, <3>1 DEF FixedPriority!Continue
  <2>2. ASSUME spec' = spec, NEW r \in Rid, Comes(r)
        PROVE  r \in Rid \ active /\ FixedPriority!Release(r)
    <3>1. running' \in {running, r}
      <4> HIDE DEF active, running, heads, excused
      <4> QED  BY <1>1, <1>2, <2>2
    <3> QED  BY <1>3, <2>2, <3>1 DEF FixedPriority!Release
  <2>3. ASSUME spec' = spec, NEW r \in Rid, Goes(r)
        PROVE  r \in active /\ FixedPriority!End(r)
    <3>1. running # r => running' = running
      <4> HIDE DEF active, running, heads, excused
      <4> QED  BY <1>1, <1>2, <2>3
    <3> QED  BY <1>3, <2>3, <3>1 DEF FixedPriority!End
  <2>4. ASSUME spec' = spec, NEW r \in Rid, Comes(r) \/ Goes(r)
        PROVE  (\E x \in Rid \ active : FixedPriority!Release(x))
                 \/ \E x \in active : FixedPriority!End(x)
    <3>1. CASE Comes(r)
      BY <2>2, <2>4, <3>1
    <3>2. CASE Goes(r)
      BY <2>3, <2>4, <3>2
    <3> QED  BY <2>4, <3>1, <3>2
  <2> HIDE DEF active, running, heads, excused, Comes, Goes
  <2> QED  BY <1>6, <2>1, <2>4
<1> QED  BY <1>7, <1>8, <1>9 DEF FixedPriority!Next

(* The scheduler implements fixed-priority scheduling: for any number of   *)
(* reserves, any parameters and any stack size, jobs come and go one at a  *)
(* time, the shortest period runs, and each switch to a job arms its       *)
(* enforcement timer or asks it to stop, unless its task is gone.          *)
THEOREM SchedulerImplementsFixedPriority == Spec => ImplementsFixedPriority
<1>1. Init => FixedPriority!Init
  BY InitMaps
<1>2. IInv /\ IInv' /\ [Next]_vars => [FixedPriority!Next]_(FixedPriority!vars)
  <2> SUFFICES ASSUME IInv, IInv', [Next]_vars  PROVE FixedPriority!Next
    OBVIOUS
  <2>1. StateMaps /\ StateMaps'
    BY IInvMaps, PTL
  <2>2. Advances
    BY NextAdvances
  <2> QED  BY <2>1, <2>2, NextMaps
<1> QED  BY <1>1, <1>2, InvariantHolds, PTL
      DEF Spec, ImplementsFixedPriority, FixedPriority!Spec

-----------------------------------------------------------------------------
(* Jobs and tasks.                                                         *)

Plain == (\A p \in Params : p.zs = FALSE) /\ "nonperiodic" \notin Features

(* The tasks that may run are the living ones of the queued jobs. *)
InStep ==
  /\ awake \subseteq ToSet(disp.ready)
  /\ (ToSet(disp.ready) \cap alive) \subseteq awake

(* Without zero-slack instants the system stays in its lowest criticality, *)
(* and without end_of_period every period timer starts its job.            *)
NoCriticality ==
  /\ \A r \in Rid : spec[r].zs = FALSE
  /\ critical = {} /\ sysCrit = 0
  /\ nonPeriodic = {} /\ endMarked = {}
  /\ lock \in {Free, Scheduler}

(* The inductive invariant, beside IInv. *)
AwakeInv == NoCriticality /\ disp.zs = {} /\ InStep

-----------------------------------------------------------------------------
(* What the dispatcher's functions do to the set of queued jobs, and that  *)
(* they arm no zero-slack timer.                                           *)

(* budget_enforcement *)
LEMMA BudgetEnforcementZs ==
  ASSUME NEW d, IsDispatcher(d), NEW r, NEW stop \in BOOLEAN, NEW defer
  PROVE  BudgetEnforcement(d, r, stop, defer).zs \subseteq d.zs
<1> DEFINE d0 == [d EXCEPT !.zs = @ \ {r}]
           d1 == [d0 EXCEPT !.stop = @ \cup {r}]
           d2 == Push(d1, r)
<1>1. CASE r \in defer
  BY <1>1 DEF BudgetEnforcement, IsDispatcher
<1>2. CASE r \notin defer /\ ~ stop
  BY <1>2 DEF BudgetEnforcement, IsDispatcher
<1>3. CASE r \notin defer /\ stop
  <2>1. BudgetEnforcement(d, r, stop, defer) = WakeScheduler(d2)
    BY <1>3 DEF BudgetEnforcement
  <2>2. IsDispatcher(d0) /\ d0.zs \subseteq d.zs
    BY DEF IsDispatcher
  <2> HIDE DEF d0
  <2>3. IsDispatcher(d1) /\ d1.zs = d0.zs
    BY <2>2 DEF IsDispatcher
  <2> HIDE DEF d1
  <2>4. IsDispatcher(d2) /\ d2.zs = d1.zs
    BY <2>3 DEF Push, IsDispatcher
  <2> HIDE DEF d2
  <2>5. WakeScheduler(d2).zs = d2.zs
    BY <2>4 DEF WakeScheduler, IsDispatcher
  <2> QED  BY <2>1, <2>2, <2>3, <2>4, <2>5
<1> QED  BY <1>1, <1>2, <1>3

(* start_enforcement_timer *)
LEMMA RunHeadZs ==
  ASSUME NEW d, IsDispatcher(d), NEW defer
  PROVE  RunHead(d, defer).zs \subseteq d.zs
<1>1. CASE d.ready # <<>> /\ Head(d.ready) \in d.spent
  <2>1. RunHead(d, defer) = BudgetEnforcement(d, Head(d.ready), TRUE, defer)
    BY <1>1 DEF RunHead
  <2> QED  BY <2>1, BudgetEnforcementZs
<1>2. CASE d.ready = <<>> \/ Head(d.ready) \notin d.spent
  BY <1>2 DEF RunHead, IsDispatcher
<1> QED  BY <1>1, <1>2

(* The job at the head is suspended and another queue put in place. *)
LEMMA RequeuedZs ==
  ASSUME NEW d, IsDispatcher(d), NEW late, NEW q
  PROVE  LET e == [Suspend(d, late) EXCEPT !.ready = q]
         IN  IsDispatcher(e) /\ e.zs = d.zs
<1> DEFINE x == d.enf \ {Head(d.ready)}
           y == d.spent \cup ({Head(d.ready)} \cap late)
           d1 == [d EXCEPT !.enf = x]
           e == Suspend(d, late)
<1>1. IsDispatcher(e) /\ e.zs = d.zs
  <2>1. e = [d1 EXCEPT !.spent = y]
    BY DEF Suspend
  <2> HIDE DEF x, y, e
  <2>2. IsDispatcher(d1) /\ d1.zs = d.zs
    BY DEF IsDispatcher
  <2> HIDE DEF d1
  <2> QED  BY <2>1, <2>2 DEF IsDispatcher
<1> HIDE DEF e
<1>2. IsDispatcher([e EXCEPT !.ready = q]) /\ [e EXCEPT !.ready = q].zs = e.zs
  BY <1>1 DEF IsDispatcher
<1> QED  BY <1>1, <1>2 DEF e

(* start_stac: the job is queued. *)
LEMMA StartJoins ==
  ASSUME NEW A, A \subseteq Rid, NEW pr, NEW d, DispatcherOK(d, A, pr),
         d.enf \subseteq HeadSet(d.ready), NEW r \in A, NEW late, NEW defer
  PROVE  LET e == Start(d, r, pr, late, defer)
         IN  ToSet(e.ready) = ToSet(d.ready) \cup {r} /\ e.zs \subseteq d.zs
<1> DEFINE e == Start(d, r, pr, late, defer)
           q == AddReadyq(d.ready, r, pr)
           d1 == [d EXCEPT !.ready = <<r>>]
           d2 == [Suspend(d, late) EXCEPT !.ready = q]
<1>1. (r \in ToSet(d.ready) /\ e = d) \/ Added(d, e, r)
  BY StartTells
<1>2. IsDispatcher(d) /\ IsDispatcher(d1) /\ d1.zs = d.zs
  BY DEF DispatcherOK, IsDispatcher
<1>3. IsDispatcher(d2) /\ d2.zs = d.zs
  BY <1>2, RequeuedZs
<1>4. e = d \/ e = RunHead(d1, defer) \/ e = RunHead(d2, defer)
  <2>1. Suspend(d, late).ready = d.ready
    BY <1>2 DEF Suspend, IsDispatcher
  <2> QED  BY <2>1 DEF Start
<1> HIDE DEF d1, d2, e
<1>5. e.zs \subseteq d.zs
  BY <1>2, <1>3, <1>4, RunHeadZs
<1> QED  BY <1>1, <1>5 DEF Added, e

(* stop_stac: the job is queued no more. *)
LEMMA StopLeaves ==
  ASSUME NEW A, A \subseteq Rid, NEW pr \in [Rid -> Int],
         NEW d, DispatcherOK(d, A, pr), d.enf \subseteq HeadSet(d.ready),
         NEW r, NEW late, NEW defer
  PROVE  LET e == Stop(d, r, late, defer)
         IN  ToSet(e.ready) = ToSet(d.ready) \ {r} /\ e.zs \subseteq d.zs
<1> DEFINE e == Stop(d, r, late, defer)
           d1 == [d EXCEPT !.ready = Unlink(d.ready, r)]
           d2 == [Suspend(d, late) EXCEPT !.ready = Tail(d.ready)]
<1>1. (e = d \/ Removed(d, e, r)) /\ r \notin ToSet(e.ready)
  BY StopTells, StopOK
<1>2. IsDispatcher(d) /\ d1.zs = d.zs
  BY DEF DispatcherOK, IsDispatcher
<1>3. IsDispatcher(d2) /\ d2.zs = d.zs
  BY <1>2, RequeuedZs
<1>4. e = d \/ e = d1 \/ e = RunHead(d2, defer)
  <2>1. Suspend(d, late).ready = d.ready
    BY <1>2 DEF Suspend, IsDispatcher
  <2> QED  BY <2>1 DEF Stop
<1> HIDE DEF d1, d2, e
<1>5. e.zs \subseteq d.zs
  BY <1>2, <1>3, <1>4, RunHeadZs
<1> QED  BY <1>1, <1>5 DEF Removed, e

(* delete_reserve: the same, whether the task lives or not. *)
LEMMA ForgetLeaves ==
  ASSUME NEW A, A \subseteq Rid, NEW pr \in [Rid -> Int],
         NEW d, DispatcherOK(d, A, pr), d.enf \subseteq HeadSet(d.ready),
         NEW r, NEW live, NEW late, NEW defer
  PROVE  LET e == Forget(d, r, live, late, defer)
         IN  ToSet(e.ready) = ToSet(d.ready) \ {r} /\ e.zs \subseteq d.zs
<1> DEFINE e == Forget(d, r, live, late, defer)
           unlinked == [d EXCEPT !.ready = Unlink(d.ready, r)]
           restarts == /\ d.ready # <<>> /\ Head(d.ready) = r
                       /\ Len(d.ready) > 1 /\ d.ready[2] \in live
           stopped == IF r \in live THEN Stop(d, r, late, defer)
                      ELSE IF restarts THEN RunHead(unlinked, defer) ELSE unlinked
<1>1. SameJobs(d, e) \/ Removed(d, e, r)
  BY ForgetTells
<1>2. r \notin ToSet(e.ready)
  <2>1. DispatcherOK(e, A \ {r}, pr)
    BY ForgetOK
  <2> HIDE DEF e
  <2> QED  BY <2>1, ToSetIs DEF DispatcherOK
<1>3. IsDispatcher(unlinked) /\ unlinked.zs = d.zs
  <2>1. IsDispatcher(d)
    BY DEF DispatcherOK
  <2> DEFINE q == Unlink(d.ready, r)
  <2> HIDE DEF q, e, stopped, restarts
  <2> QED  BY <2>1 DEF IsDispatcher
<1> HIDE DEF unlinked
<1>4. IsDispatcher(stopped) /\ stopped.zs \subseteq d.zs
  <2>1. DispatcherOK(Stop(d, r, late, defer), A, pr)
    BY StopOK
  <2> QED  BY <1>3, <2>1, StopLeaves, RunHeadZs, RunHeadTells DEF DispatcherOK
<1>5. e = [stopped EXCEPT !.enf = @ \ {r}, !.zs = @ \ {r}]
  BY DEF Forget, unlinked
<1> HIDE DEF stopped, e
<1>6. e.zs \subseteq d.zs
  BY <1>4, <1>5 DEF IsDispatcher
<1> QED  BY <1>1, <1>2, <1>6 DEF SameJobs, Removed, e

-----------------------------------------------------------------------------
(* The steps.                                                              *)

Stays == InStep' /\ disp'.zs = {}

(* A job is started and its task woken. *)
LEMMA JoinsStays ==
  ASSUME IInv, AwakeInv, NEW pr, NEW A, A \subseteq Rid,
         NEW d, DispatcherOK(d, A, pr), d.enf \subseteq HeadSet(d.ready),
         NEW r \in A, NEW late, NEW defer,
         ToSet(d.ready) \subseteq ToSet(disp.ready),
         ToSet(disp.ready) \subseteq ToSet(d.ready) \cup {r}, d.zs = {},
         disp' = Start(d, r, pr, late, defer),
         awake' = awake \cup {r}, alive' \subseteq alive \cup {r}
  PROVE  Stays
<1> DEFINE e == Start(d, r, pr, late, defer)
<1>1. ToSet(e.ready) = ToSet(d.ready) \cup {r} /\ e.zs \subseteq d.zs
  BY StartJoins
<1>2. disp' = e
  OBVIOUS
<1> HIDE DEF e
<1> QED  BY <1>1, <1>2 DEF Stays, InStep, AwakeInv

(* A job is stopped and its task put to sleep. *)
LEMMA LeavesStays ==
  ASSUME IInv, AwakeInv,
         NEW d, DispatcherOK(d, attached, prio), d.enf \subseteq HeadSet(d.ready),
         d.ready = disp.ready, d.zs = {},
         NEW r, NEW late, NEW defer, disp' = Stop(d, r, late, defer),
         awake' = awake \ {r}, alive' = alive
  PROVE  Stays
<1> DEFINE e == Stop(d, r, late, defer)
<1>0. attached \subseteq Rid /\ prio \in [Rid -> Int]
  BY IInvFacts
<1>1. ToSet(e.ready) = ToSet(d.ready) \ {r} /\ e.zs \subseteq d.zs
  BY <1>0, StopLeaves
<1>2. disp' = e
  OBVIOUS
<1> HIDE DEF e
<1> QED  BY <1>1, <1>2 DEF Stays, InStep, AwakeInv

(* A reserve is deleted. *)
LEMMA DeletedStays ==
  ASSUME IInv, AwakeInv,
         NEW d, DispatcherOK(d, attached, prio), d.enf \subseteq HeadSet(d.ready),
         d.ready = disp.ready, d.zs = {}, NEW r, NEW live, FreeSlot(d, r, live)
  PROVE  Stays
<1>1. PICK c \in Outcomes : /\ disp' = Forget(d, r, live, c.late, c.defer)
                           /\ awake' = awake \ {r} /\ alive' = alive \ {r}
  BY DEF FreeSlot
<1> DEFINE e == Forget(d, r, live, c.late, c.defer)
<1>0. attached \subseteq Rid /\ prio \in [Rid -> Int]
  BY IInvFacts
<1>2. ToSet(e.ready) = ToSet(d.ready) \ {r} /\ e.zs \subseteq d.zs
  BY <1>0, ForgetLeaves
<1>3. disp' = e
  BY <1>1
<1> HIDE DEF e
<1> QED  BY <1>1, <1>2, <1>3 DEF Stays, InStep, AwakeInv

(* The queue stays as it is; a task may end. *)
LEMMA SameQueueStays ==
  ASSUME AwakeInv, disp'.ready = disp.ready, disp'.zs = {},
         NEW X, awake' = awake \ X, alive' = alive \ X
  PROVE  Stays
BY DEF Stays, InStep, AwakeInv

(* A timer whose task is gone. *)
LEMMA TimerOfDeadTaskStays ==
  ASSUME AwakeInv, NEW d, DispatcherOK(d, attached, prio),
         d.ready = disp.ready, d.zs = {},
         NEW r, TimerOfDeadTask(d, r), awake' = awake, alive' = alive
  PROVE  Stays
<1> DEFINE x == d.stop \ {r}
           d1 == [d EXCEPT !.stop = x]
           d2 == Push(d1, r)
<1>1. disp' = WakeScheduler(d2) \/ disp' = d
  BY DEF TimerOfDeadTask
<1>0. IsDispatcher(d)
  BY DEF DispatcherOK
<1> HIDE DEF x
<1>2. IsDispatcher(d1) /\ d1.ready = d.ready /\ d1.zs = d.zs
  BY <1>0 DEF IsDispatcher
<1> HIDE DEF d1
<1>3. IsDispatcher(d2) /\ d2.ready = d1.ready /\ d2.zs = d1.zs
  BY <1>2 DEF Push, IsDispatcher
<1> HIDE DEF d2
<1>4. WakeScheduler(d2).ready = d2.ready /\ WakeScheduler(d2).zs = d2.zs
  BY <1>3 DEF WakeScheduler, IsDispatcher
<1>5. disp'.ready = disp.ready /\ disp'.zs = {}
  BY <1>1, <1>2, <1>3, <1>4
<1> QED  BY <1>5, SameQueueStays

(* start_of_period: a job that overruns is taken out, and then started     *)
(* again in any case, since no criticality keeps it from it.               *)
LEMMA StartOfPeriodStays ==
  ASSUME IInv, AwakeInv, NEW r \in Live, StartOfPeriod(r), alive' = alive
  PROVE  Stays
<1> DEFINE d0 == EnfDisarmed(disp, r)
           e0 == SkipStop(d0, r)
<1>0. r \in attached /\ attached \subseteq Rid /\ prio \in [Rid -> Int]
  BY IInvFacts DEF Live
<1>1. spec[r].zs = FALSE /\ ~ (spec[r].crit < sysCrit) /\ r \notin nonPeriodic
  <2>1. spec[r].crit \in Nat
    BY <1>0, IInvFacts, ParamsAssumption DEF NoParams
  <2> QED  BY <1>0, <2>1 DEF AwakeInv, NoCriticality
<1>2. PICK c \in Outcomes, started \in Incremented(startPeriod[r]) :
        LET d1 == IF Overrun(started) THEN Stop(e0, r, c.late, c.defer) ELSE disp
            d2 == [d1 EXCEPT !.spent = @ \ {r}, !.zs = @]
        IN  /\ disp' = Start(d2, r, prio, c.late, c.defer)
            /\ awake' = awake \cup {r}
  BY <1>1 DEF StartOfPeriod, SkipStop, EnfDisarmed
<1> DEFINE d1 == IF Overrun(started) THEN Stop(e0, r, c.late, c.defer) ELSE disp
           x == d1.spent \ {r}
           y == d1.zs
           s1 == [d1 EXCEPT !.spent = x]
           d2 == [s1 EXCEPT !.zs = y]
<1>3. disp' = Start(d2, r, prio, c.late, c.defer) /\ awake' = awake \cup {r}
  BY <1>2
<1>4. /\ DispatcherOK(disp, attached, prio) /\ disp.zs = {}
      /\ disp.enf \subseteq HeadSet(disp.ready)
  BY IInvFacts DEF AwakeInv
<1>5. /\ DispatcherOK(d0, attached, prio) /\ d0.enf \subseteq HeadSet(d0.ready)
      /\ d0.ready = disp.ready /\ d0.zs = {}
  <2>1. IsDispatcher(disp)
    BY <1>4 DEF DispatcherOK
  <2>2. d0.zs = disp.zs
    BY <2>1 DEF EnfDisarmed, IsDispatcher
  <2> HIDE DEF d0
  <2>3. /\ DispatcherOK(d0, attached, prio) /\ d0.enf \subseteq HeadSet(d0.ready)
        /\ d0.ready = disp.ready
    BY <1>4, EnfDisarmedOK DEF d0
  <2> QED  BY <1>4, <2>2, <2>3
<1> HIDE DEF d0
<1>6. /\ DispatcherOK(e0, attached, prio) /\ e0.enf \subseteq HeadSet(e0.ready)
      /\ e0.ready = d0.ready /\ e0.zs = {}
  <2>1. e0.zs \subseteq d0.zs
    BY <1>5, BudgetEnforcementZs DEF SkipStop, DispatcherOK
  <2> QED  BY <1>5, <2>1, SkipStopOK
<1> HIDE DEF e0
<1>7. /\ DispatcherOK(d1, attached, prio) /\ d1.enf \subseteq HeadSet(d1.ready)
      /\ ToSet(d1.ready) \subseteq ToSet(disp.ready)
      /\ ToSet(disp.ready) \subseteq ToSet(d1.ready) \cup {r} /\ d1.zs = {}
  <2>1. CASE Overrun(started)
    <3> DEFINE e == Stop(e0, r, c.late, c.defer)
    <3>0. DispatcherOK(e, attached, prio) /\ e.enf \subseteq HeadSet(e.ready)
      BY <1>0, <1>6, StopOK
    <3>1. ToSet(e.ready) = ToSet(e0.ready) \ {r} /\ e.zs \subseteq e0.zs
      BY <1>0, <1>6, StopLeaves
    <3> HIDE DEF e
    <3>2. d1 = e
      BY <2>1 DEF e
    <3> QED  BY <1>5, <1>6, <3>0, <3>1, <3>2
  <2>2. CASE ~ Overrun(started)
    BY <1>4, <2>2
  <2> QED  BY <2>1, <2>2
<1> HIDE DEF d1
<1>8. x \subseteq Rid /\ y \subseteq attached
  BY <1>7 DEF DispatcherOK
<1> HIDE DEF x
<1>9. /\ DispatcherOK(s1, attached, prio) /\ s1.ready = d1.ready /\ s1.enf = d1.enf
  BY <1>7, <1>8, SetSpent
<1> HIDE DEF s1, y
<1>10. /\ DispatcherOK(d2, attached, prio) /\ d2.ready = d1.ready /\ d2.enf = d1.enf
       /\ d2.zs = y
  BY <1>8, <1>9, SetZs
<1> HIDE DEF d2
<1> QED  BY <1>0, <1>3, <1>7, <1>10, JoinsStays DEF y

(* attach_reserve starts the first job of its task. *)
LEMMA AttachStays ==
  ASSUME IInv, AwakeInv, NEW r \in Rid, Attach(r)
  PROVE  Stays
<1> DEFINE A == attached'
           pr == prio'
           x == disp.spent \ {r}
           d1 == [disp EXCEPT !.spent = x]
           y == disp.zs
           d2 == [d1 EXCEPT !.zs = y]
<1>1. spec[r].zs = FALSE /\ disp.zs = {}
  BY DEF AwakeInv, NoCriticality
<1>2. PICK c \in Outcomes : disp' = Start(d2, r, pr, c.late, c.defer)
  BY <1>1 DEF Attach
<1>3. awake' = awake \cup {r} /\ alive' = alive \cup {r}
  BY DEF Attach
<1>4. A \subseteq Rid /\ r \in A /\ disp.enf \subseteq HeadSet(disp.ready)
  BY AttachRenumbers, IInvFacts
<1>5. PICK d : DispatcherOK(d, A, pr) /\ d.ready = disp.ready /\ d.enf = disp.enf
  BY AttachRenumbers
<1>6. DispatcherOK(d2, A, pr) /\ d2.ready = disp.ready /\ d2.enf = disp.enf /\ d2.zs = {}
  <2>1. IsDispatcher(disp) /\ disp.spent \subseteq Rid /\ disp.stop \subseteq Rid
    BY IInvFacts DEF DispatcherOK
  <2>2. x \subseteq Rid /\ y = {}
    BY <1>1, <2>1
  <2> HIDE DEF x, y, A, pr
  <2>3. DispatcherOK(disp, A, pr)
    BY <1>1, <1>5, <2>1 DEF DispatcherOK
  <2>4. DispatcherOK(d1, A, pr) /\ d1.ready = disp.ready /\ d1.enf = disp.enf
    BY <2>2, <2>3, SetSpent
  <2> HIDE DEF d1
  <2> QED  BY <2>2, <2>4, SetZs
<1> HIDE DEF A, pr, d2
<1> QED  BY <1>2, <1>3, <1>4, <1>6, JoinsStays

(* Criticality never rises. *)
LEMMA CriticalityStays ==
  ASSUME Plain, IInv, AwakeInv, [Next]_vars
  PROVE  NoCriticality'
<1>0. /\ \A r \in Rid : spec[r].zs = FALSE
      /\ critical = {} /\ sysCrit = 0 /\ nonPeriodic = {} /\ endMarked = {}
      /\ lock \in {Free, Scheduler} /\ disp.zs = {}
      /\ spec \in [Rid -> Params \cup {NoParams}]
      /\ \A p \in Params : p.zs = FALSE
      /\ "nonperiodic" \notin Features
      /\ lock.by # "task"
  BY IInvFacts DEF AwakeInv, NoCriticality, Plain, Free, Scheduler
<1>1. CASE UNCHANGED vars
  BY <1>0, <1>1 DEF vars, tableVars, jobVars, waitVars, critVars, NoCriticality
<1>2. ASSUME NEW r \in Rid, NEW p \in Params, Create(r, p)  PROVE NoCriticality'
  <2>1. \A x \in Rid : spec'[x].zs = FALSE
    BY <1>0, <1>2 DEF Create
  <2>2. /\ critical' = critical /\ sysCrit' = sysCrit /\ lock' = lock
        /\ nonPeriodic' = nonPeriodic \ {r} /\ endMarked' = endMarked \ {r}
    BY <1>2 DEF Create
  <2> QED  BY <1>0, <2>1, <2>2 DEF NoCriticality
<1>3. ASSUME /\ spec' = spec /\ critical' \subseteq critical /\ sysCrit' = sysCrit
             /\ nonPeriodic' \subseteq nonPeriodic /\ endMarked' = endMarked
             /\ lock' \in {lock, Free, Scheduler}
      PROVE  NoCriticality'
  BY <1>0, <1>3 DEF NoCriticality
<1>4. ASSUME NEW r \in Rid,
             Attach(r) \/ Delete(r) \/ PeriodTimerOfDying(r) \/ TaskExit(r)
      PROVE  NoCriticality'
  BY <1>3, <1>4 DEF Attach, Delete, PeriodTimerOfDying, DeleteReserve, FreeSlot, TaskExit,
     tableVars, jobVars, waitVars, critVars
<1>5. ASSUME NEW r \in Rid, EnforcementTimer(r) \/ PeriodTimer(r) \/ TimerAborts(r)
      PROVE  NoCriticality'
  BY <1>3, <1>5 DEF EnforcementTimer, PeriodTimer, StartOfPeriod, TimerAborts,
     tableVars, jobVars, waitVars, critVars
<1>6. ASSUME NEW r \in Rid, ZeroSlackTimer(r)  PROVE FALSE
  BY <1>0, <1>6 DEF ZeroSlackTimer
<1>7. ASSUME NEW r \in Rid, WaitForNextPeriod(r)  PROVE NoCriticality'
  BY <1>0, <1>3, <1>7 DEF WaitForNextPeriod, Departure, Return, tableVars
<1>8. ASSUME NEW r \in Rid, EndOfPeriod(r) \/ WaitForNextRelease(r)  PROVE FALSE
  BY <1>0, <1>8 DEF EndOfPeriod, WaitForNextRelease
<1>9. CASE Unblock \/ ReturnFromCall
  BY <1>0, <1>9 DEF Unblock, ReturnFromCall
<1>10. CASE SchedulerEnters \/ SchedulerUnlocks \/ SchedulerSleeps
  BY <1>3, <1>10 DEF SchedulerEnters, SchedulerUnlocks, SchedulerSleeps,
     tableVars, jobVars, waitVars, critVars
<1>11. CASE SchedulerPops
  BY <1>3, <1>11 DEF SchedulerPops, DeleteReserve, FreeSlot, tableVars, jobVars,
     waitVars, critVars
<1> QED  BY <1>1, <1>2, <1>4, <1>5, <1>6, <1>7, <1>8, <1>9, <1>10, <1>11 DEF Next

(* Each step leaves jobs and tasks in step. *)
LEMMA NextStays ==
  ASSUME Plain, IInv, AwakeInv, [Next]_vars
  PROVE  Stays
<1>0. /\ DispatcherOK(disp, attached, prio) /\ attached \subseteq Rid
      /\ disp.enf \subseteq HeadSet(disp.ready) /\ disp.zs = {}
      /\ critical = {} /\ IsDispatcher(disp) /\ "nonperiodic" \notin Features
      /\ lock.by # "task"
  BY IInvFacts DEF AwakeInv, NoCriticality, Plain, DispatcherOK, Free, Scheduler
<1>1. ASSUME disp'.ready = disp.ready, disp'.zs = {}, UNCHANGED taskVars
      PROVE  Stays
  BY <1>1, SameQueueStays, awake' = awake \ {}, alive' = alive \ {} DEF taskVars
<1>2. CASE UNCHANGED vars
  BY <1>0, <1>1, <1>2 DEF vars
<1>3. ASSUME NEW r \in Rid, NEW p \in Params, Create(r, p)  PROVE Stays
  BY <1>0, <1>1, <1>3 DEF Create
<1>4. ASSUME NEW r \in Rid, Attach(r)  PROVE Stays
  BY <1>4, AttachStays
<1>5. ASSUME NEW r \in Rid, Delete(r) \/ PeriodTimerOfDying(r)  PROVE Stays
  BY <1>0, <1>5, DeletedStays DEF Delete, DeleteReserve, PeriodTimerOfDying
<1>6. ASSUME NEW r \in Rid, TaskExit(r)  PROVE Stays
  BY <1>0, <1>6, SameQueueStays DEF TaskExit
<1>7. ASSUME NEW r \in Rid, EnforcementTimer(r)  PROVE Stays
  <2> DEFINE d == Expired(disp, r)
  <2>1. /\ r \in disp.enf /\ UNCHANGED taskVars
        /\ \/ \E c \in Outcomes : disp' = RequestStop(d, r, c.defer)
           \/ TimerOfDeadTask(d, r)
    BY <1>7 DEF EnforcementTimer, RequestStop, Expired
  <2>2. DispatcherOK(d, attached, prio) /\ d.ready = disp.ready
    BY <2>1, ExpiredOK
  <2>3. d.zs = {}
    BY <1>0 DEF Expired, IsDispatcher
  <2> HIDE DEF d
  <2>4. CASE TimerOfDeadTask(d, r)
    BY <2>1, <2>2, <2>3, <2>4, TimerOfDeadTaskStays DEF taskVars
  <2>5. ASSUME NEW c \in Outcomes, disp' = RequestStop(d, r, c.defer)  PROVE Stays
    <3> DEFINE e == RequestStop(d, r, c.defer)
    <3>1. IsDispatcher(d)
      BY <2>2 DEF DispatcherOK
    <3>2. e.ready = d.ready
      BY <3>1, RequestStopTells
    <3>3. e.zs \subseteq d.zs
      BY <3>1, BudgetEnforcementZs DEF RequestStop
    <3> HIDE DEF e
    <3>4. disp' = e
      BY <2>5 DEF e
    <3> QED  BY <1>1, <2>1, <2>2, <2>3, <3>2, <3>3, <3>4
  <2> QED  BY <2>1, <2>4, <2>5
<1>8. ASSUME NEW r \in Rid, PeriodTimer(r)  PROVE Stays
  <2>1. CASE r \in Live
    BY <1>8, <2>1, StartOfPeriodStays DEF PeriodTimer
  <2>2. CASE r \notin Live
    BY <1>0, <1>8, <2>2, TimerOfDeadTaskStays DEF PeriodTimer, taskVars
  <2> QED  BY <2>1, <2>2
<1>9. ASSUME NEW r \in Rid, ZeroSlackTimer(r)  PROVE FALSE
  BY <1>0, <1>9 DEF ZeroSlackTimer
<1>10. ASSUME NEW r \in Rid, TimerAborts(r)  PROVE Stays
  <2>1. disp'.ready = disp.ready /\ disp'.zs = {} /\ UNCHANGED taskVars
    BY <1>0, <1>10 DEF TimerAborts, IsDispatcher
  <2> QED  BY <1>1, <2>1
<1>11. ASSUME NEW r \in Rid, WaitForNextPeriod(r)  PROVE Stays
  <2> DEFINE d == ZsDisarmed(disp, r)
  <2>1. /\ \E c \in Outcomes : disp' = Stop(d, r, c.late, c.defer)
        /\ awake' = awake \ {r} /\ alive' = alive
    BY <1>0, <1>11 DEF WaitForNextPeriod, Departure, Return, ZsDisarmed
  <2>2. /\ DispatcherOK(d, attached, prio) /\ d.enf \subseteq HeadSet(d.ready)
        /\ d.ready = disp.ready
    BY <1>0, ZsDisarmedOK
  <2>3. d.zs = {}
    BY <1>0 DEF ZsDisarmed, IsDispatcher
  <2> HIDE DEF d
  <2> QED  BY <2>1, <2>2, <2>3, LeavesStays
<1>12. ASSUME NEW r \in Rid, EndOfPeriod(r) \/ WaitForNextRelease(r)  PROVE FALSE
  BY <1>0, <1>12 DEF EndOfPeriod, WaitForNextRelease
<1>13. CASE Unblock \/ ReturnFromCall
  BY <1>0, <1>13 DEF Unblock, ReturnFromCall
<1>14. CASE SchedulerEnters \/ SchedulerUnlocks \/ SchedulerSleeps
  <2>1. disp'.ready = disp.ready /\ disp'.zs = {} /\ UNCHANGED taskVars
    BY <1>0, <1>14 DEF SchedulerEnters, SchedulerUnlocks, SchedulerSleeps, IsDispatcher
  <2> QED  BY <1>1, <2>1
<1>15. CASE SchedulerPops
  <2> DEFINE r == Last(disp.stack)
             d == PoppedRequest(disp)
  <2>1. \/ disp' = d /\ UNCHANGED taskVars
        \/ FreeSlot(d, r, Live)
        \/ /\ \E c \in Outcomes : disp' = Stop(d, r, c.late, c.defer)
           /\ awake' = awake \ {r} /\ alive' = alive
        \/ /\ \E c \in Outcomes : disp' = Start(d, r, prio, c.late, c.defer)
           /\ r \in attached /\ awake' = awake \cup {r} /\ alive' = alive
    BY <1>15 DEF SchedulerPops, DeleteReserve, Live
  <2>2. /\ DispatcherOK(d, attached, prio) /\ d.enf \subseteq HeadSet(d.ready)
        /\ d.ready = disp.ready
    BY <1>0, PoppedRequestOK
  <2>3. d.zs = {}
    BY <1>0 DEF PoppedRequest, IsDispatcher
  <2> HIDE DEF d, r
  <2>4. CASE disp' = d /\ UNCHANGED taskVars
    BY <1>1, <2>2, <2>3, <2>4
  <2> QED  BY <1>0, <2>1, <2>2, <2>3, <2>4, DeletedStays, LeavesStays, JoinsStays
<1> QED  BY <1>2, <1>3, <1>4, <1>5, <1>6, <1>7, <1>8, <1>9, <1>10, <1>11, <1>12,
            <1>13, <1>14, <1>15 DEF Next

(* Initially nothing is queued and no task is there. *)
LEMMA InitAwake == Init => AwakeInv
BY DEF Init, AwakeInv, NoCriticality, InStep, IdleDispatcher, NoParams, ToSet

-----------------------------------------------------------------------------
(* The theorems.                                                           *)

(* The invariants hold together. *)
LEMMA AwakeInvHolds == Plain => (Spec => [](IInv /\ AwakeInv))
<1> SUFFICES ASSUME Plain  PROVE Spec => [](IInv /\ AwakeInv)
  OBVIOUS
<1>1. Init => IInv /\ AwakeInv
  BY InitIInv, InitAwake
<1>2. IInv /\ AwakeInv /\ [Next]_vars => (IInv /\ AwakeInv)'
  <2> SUFFICES ASSUME IInv, AwakeInv, [Next]_vars  PROVE (IInv /\ AwakeInv)'
    OBVIOUS
  <2>1. IInv' /\ Stays /\ NoCriticality'
    BY NextIInv, NextStays, CriticalityStays
  <2> QED  BY <2>1 DEF Stays, AwakeInv
<1> QED  BY <1>1, <1>2, PTL DEF Spec

(* No time is charged to a job whose task sleeps: the living tasks of the  *)
(* queued jobs are runnable, whatever dies or is deleted or lost.          *)
THEOREM QueuedJobsAreAwake == Plain => (Spec => []QueuedAreAwake)
<1> SUFFICES ASSUME Plain  PROVE Spec => []QueuedAreAwake
  OBVIOUS
<1>1. AwakeInv => QueuedAreAwake
  BY DEF AwakeInv, InStep, QueuedAreAwake
<1> QED  BY <1>1, AwakeInvHolds, PTL

(* No task runs without its budget being counted: runnable tasks are those *)
(* of queued jobs.                                                         *)
THEOREM AwakeTasksAreQueued == Plain => (Spec => []AwakeAreQueued)
<1> SUFFICES ASSUME Plain  PROVE Spec => []AwakeAreQueued
  OBVIOUS
<1>1. AwakeInv => AwakeAreQueued
  BY DEF AwakeInv, InStep, AwakeAreQueued
<1> QED  BY <1>1, AwakeInvHolds, PTL

-----------------------------------------------------------------------------
(* Jobs whose tasks sleep.  With zero-slack instants and end_of_period a   *)
(* job may be in the queue while its task sleeps.  What follows holds for  *)
(* every set of parameters and features: the task waits for something that *)
(* the handler of its period timer looks at.                               *)

(* The task of x is awake, or waits for a period, or for a noted release. *)
Covered(x) == x \in awake \/ x \notin nonPeriodic \/ x \in waitRelease

Woken == \A x \in ToSet(disp.ready) \cap alive : Covered(x)

(* wait_for_next_period puts its caller to sleep only when it has let the  *)
(* lock go, and nobody else takes non_periodic_wait back until then.       *)
WaiterIsPeriodic ==
  (lock.by = "task" /\ lock.call = "WAIT_PERIOD") => lock.rid \notin nonPeriodic

WokenInv == Woken /\ WaiterIsPeriodic

(* A step that queues no job and puts no task to sleep. *)
LEMMA NoneQueuedWoken ==
  ASSUME Woken, ToSet(disp'.ready) \subseteq ToSet(disp.ready), alive' = alive,
         awake \subseteq awake', nonPeriodic' = nonPeriodic, waitRelease' = waitRelease
  PROVE  Woken'
BY DEF Woken, Covered

(* A step that concerns one reserve. *)
LEMMA OneJobWoken ==
  ASSUME Woken, NEW r, ToSet(disp'.ready) \subseteq ToSet(disp.ready) \cup {r},
         alive' \subseteq alive \cup {r}, awake \subseteq awake' \cup {r},
         nonPeriodic' \subseteq nonPeriodic \cup {r},
         waitRelease \subseteq waitRelease' \cup {r},
         \/ r \notin ToSet(disp'.ready) \cap alive'
         \/ r \in awake' \/ r \notin nonPeriodic' \/ r \in waitRelease'
  PROVE  Woken'
BY DEF Woken, Covered

LEMMA StartAdds ==
  ASSUME NEW A, A \subseteq Rid, NEW pr, NEW d, DispatcherOK(d, A, pr),
         d.enf \subseteq HeadSet(d.ready), NEW r \in A, NEW late, NEW defer,
         disp' = Start(d, r, pr, late, defer)
  PROVE  ToSet(disp'.ready) = ToSet(d.ready) \cup {r}
<1> DEFINE e == Start(d, r, pr, late, defer)
<1>1. ToSet(e.ready) = ToSet(d.ready) \cup {r} /\ e.zs \subseteq d.zs
  BY StartJoins
<1>2. disp' = e
  OBVIOUS
<1> HIDE DEF e
<1> QED  BY <1>1, <1>2

LEMMA StopTakes ==
  ASSUME NEW A, A \subseteq Rid, NEW pr \in [Rid -> Int], NEW d, DispatcherOK(d, A, pr),
         d.enf \subseteq HeadSet(d.ready), NEW r, NEW late, NEW defer,
         disp' = Stop(d, r, late, defer)
  PROVE  ToSet(disp'.ready) = ToSet(d.ready) \ {r}
<1> DEFINE e == Stop(d, r, late, defer)
<1>1. ToSet(e.ready) = ToSet(d.ready) \ {r} /\ e.zs \subseteq d.zs
  BY StopLeaves
<1>2. disp' = e
  OBVIOUS
<1> HIDE DEF e
<1> QED  BY <1>1, <1>2

(* attach_reserve starts the first job of its task. *)
LEMMA AttachAdds ==
  ASSUME IInv, NEW r \in Rid, Attach(r)
  PROVE  ToSet(disp'.ready) = ToSet(disp.ready) \cup {r}
<1>1. PICK d, late, defer :
        /\ DispatcherOK(d, attached', prio') /\ d.ready = disp.ready /\ d.enf = disp.enf
        /\ disp' = Start(d, r, prio', late, defer)
  BY AttachRenumbers
<1>2. attached' \subseteq Rid /\ r \in attached' /\ disp.enf \subseteq HeadSet(disp.ready)
  BY AttachRenumbers, IInvFacts
<1> DEFINE A == attached'
           p == prio'
<1>3. /\ A \subseteq Rid /\ r \in A /\ DispatcherOK(d, A, p)
      /\ d.enf \subseteq HeadSet(d.ready) /\ disp' = Start(d, r, p, late, defer)
  BY <1>1, <1>2
<1> HIDE DEF A, p
<1>4. ToSet(disp'.ready) = ToSet(d.ready) \cup {r}
  BY <1>3, StartAdds
<1> QED  BY <1>1, <1>4

(* delete_reserve takes the job out with the task. *)
LEMMA FreeSlotWoken ==
  ASSUME IInv, Woken, NEW d, DispatcherOK(d, attached, prio),
         d.enf \subseteq HeadSet(d.ready), d.ready = disp.ready,
         NEW r, NEW live, FreeSlot(d, r, live), UNCHANGED <<nonPeriodic, waitRelease>>
  PROVE  Woken'
<1>1. PICK c \in Outcomes : /\ disp' = Forget(d, r, live, c.late, c.defer)
                            /\ awake' = awake \ {r} /\ alive' = alive \ {r}
  BY DEF FreeSlot
<1> DEFINE e == Forget(d, r, live, c.late, c.defer)
<1>2. attached \subseteq Rid /\ prio \in [Rid -> Int]
  BY IInvFacts
<1>3. ToSet(e.ready) = ToSet(d.ready) \ {r} /\ e.zs \subseteq d.zs
  BY <1>2, ForgetLeaves
<1>4. disp' = e
  BY <1>1
<1> HIDE DEF e
<1> QED  BY <1>1, <1>3, <1>4, OneJobWoken

(* start_of_period: the job is started and its task woken; or it stays     *)
(* blocked; or its task has not called wait_for_next_release.              *)
LEMMA StartOfPeriodWoken ==
  ASSUME IInv, Woken, NEW r \in Live, StartOfPeriod(r),
         UNCHANGED <<alive, nonPeriodic>>
  PROVE  Woken'
<1> DEFINE d0 == EnfDisarmed(disp, r)
           e0 == SkipStop(d0, r)
           blocked == spec[r].crit < sysCrit
           released == ~ blocked /\ (r \in nonPeriodic => r \in waitRelease)
<1>0. r \in attached /\ attached \subseteq Rid /\ prio \in [Rid -> Int]
  BY IInvFacts DEF Live
<1>1. waitRelease' = IF ~ blocked /\ r \in nonPeriodic THEN waitRelease \ {r} ELSE waitRelease
  BY DEF StartOfPeriod
<1>2. PICK c \in Outcomes, started \in Incremented(startPeriod[r]) :
        LET d1 == IF Overrun(started) THEN Stop(e0, r, c.late, c.defer) ELSE disp
            d2 == [d1 EXCEPT !.spent = @ \ {r},
                             !.zs = IF spec[r].zs THEN @ \cup {r} ELSE @]
        IN  /\ disp' = IF released THEN Start(d2, r, prio, c.late, c.defer) ELSE d2
            /\ awake' = IF released THEN awake \cup {r} ELSE awake
  BY DEF StartOfPeriod, SkipStop, EnfDisarmed
<1> DEFINE d1 == IF Overrun(started) THEN Stop(e0, r, c.late, c.defer) ELSE disp
           x == d1.spent \ {r}
           y == IF spec[r].zs THEN d1.zs \cup {r} ELSE d1.zs
           s1 == [d1 EXCEPT !.spent = x]
           d2 == [s1 EXCEPT !.zs = y]
<1>3. /\ disp' = IF released THEN Start(d2, r, prio, c.late, c.defer) ELSE d2
      /\ awake' = IF released THEN awake \cup {r} ELSE awake
  BY <1>2
<1>4. DispatcherOK(disp, attached, prio) /\ disp.enf \subseteq HeadSet(disp.ready)
  BY IInvFacts
<1>5. /\ DispatcherOK(d0, attached, prio) /\ d0.enf \subseteq HeadSet(d0.ready)
      /\ d0.ready = disp.ready
  BY <1>4, EnfDisarmedOK
<1> HIDE DEF d0
<1>6. /\ DispatcherOK(e0, attached, prio) /\ e0.enf \subseteq HeadSet(e0.ready)
      /\ e0.ready = d0.ready
  BY <1>5, SkipStopOK
<1> HIDE DEF e0
<1>7. /\ DispatcherOK(d1, attached, prio) /\ d1.enf \subseteq HeadSet(d1.ready)
      /\ ToSet(d1.ready) \subseteq ToSet(disp.ready)
  <2>1. CASE Overrun(started)
    <3> DEFINE e == Stop(e0, r, c.late, c.defer)
    <3>0. DispatcherOK(e, attached, prio) /\ e.enf \subseteq HeadSet(e.ready)
      BY <1>0, <1>6, StopOK
    <3>1. ToSet(e.ready) = ToSet(e0.ready) \ {r} /\ e.zs \subseteq e0.zs
      BY <1>0, <1>6, StopLeaves
    <3> HIDE DEF e
    <3>2. d1 = e
      BY <2>1 DEF e
    <3> QED  BY <1>5, <1>6, <3>0, <3>1, <3>2
  <2>2. CASE ~ Overrun(started)
    BY <1>4, <2>2
  <2> QED  BY <2>1, <2>2
<1> HIDE DEF d1
<1>8. x \subseteq Rid /\ y \subseteq attached
  BY <1>0, <1>7 DEF DispatcherOK
<1> HIDE DEF x, y
<1>9. DispatcherOK(s1, attached, prio) /\ s1.ready = d1.ready /\ s1.enf = d1.enf
  BY <1>7, <1>8, SetSpent
<1> HIDE DEF s1
<1>10. DispatcherOK(d2, attached, prio) /\ d2.ready = d1.ready /\ d2.enf = d1.enf
  BY <1>8, <1>9, SetZs
<1> HIDE DEF d2, blocked
<1>11. CASE released
  <2>1. ToSet(disp'.ready) = ToSet(d2.ready) \cup {r}
    BY <1>0, <1>3, <1>7, <1>10, <1>11, StartAdds
  <2>2. /\ ToSet(disp'.ready) \subseteq ToSet(disp.ready) \cup {r}
        /\ awake' = awake \cup {r} /\ waitRelease \subseteq waitRelease' \cup {r}
    BY <1>1, <1>3, <1>7, <1>10, <1>11, <2>1
  <2> HIDE DEF released
  <2> QED  BY <2>2, OneJobWoken
<1>12. CASE ~ released
  <2>1. /\ ToSet(disp'.ready) \subseteq ToSet(disp.ready)
        /\ awake' = awake /\ waitRelease' = waitRelease
    BY <1>1, <1>3, <1>7, <1>10, <1>12
  <2> HIDE DEF released
  <2> QED  BY <2>1, NoneQueuedWoken
<1> QED  BY <1>11, <1>12

(* Each step: what queues a job wakes its task, except wait_for_next_      *)
(* period, which takes its caller's job out first and may queue it again   *)
(* before it puts the task to sleep; that task waits for a period.         *)
LEMMA NextWoken ==
  ASSUME IInv, LockOK, WokenInv, [Next]_vars
  PROVE  Woken'
<1>0. /\ DispatcherOK(disp, attached, prio) /\ IsDispatcher(disp)
      /\ attached \subseteq Rid /\ prio \in [Rid -> Int]
      /\ disp.enf \subseteq HeadSet(disp.ready)
      /\ ToSet(disp.ready) \subseteq attached /\ Woken
  BY IInvFacts, ToSetIs DEF DispatcherOK, WokenInv
<1>1. ASSUME disp'.ready = disp.ready, UNCHANGED taskVars,
             UNCHANGED <<nonPeriodic, waitRelease>>
      PROVE  Woken'
  BY <1>0, <1>1, NoneQueuedWoken DEF taskVars
<1>2. CASE UNCHANGED vars
  BY <1>1, <1>2 DEF vars, waitVars
<1>3. ASSUME NEW r \in Rid, NEW p \in Params, Create(r, p)  PROVE Woken'
  <2>1. /\ disp' = disp /\ UNCHANGED taskVars /\ r \notin attached
        /\ nonPeriodic' = nonPeriodic \ {r} /\ waitRelease' = waitRelease \ {r}
    BY <1>3 DEF Create
  <2> QED  BY <1>0, <2>1, OneJobWoken DEF taskVars
<1>4. ASSUME NEW r \in Rid, Attach(r)  PROVE Woken'
  <2>1. ToSet(disp'.ready) = ToSet(disp.ready) \cup {r}
    BY <1>0, <1>4, AttachAdds
  <2>2. /\ alive' = alive \cup {r} /\ awake' = awake \cup {r}
        /\ nonPeriodic' = nonPeriodic /\ waitRelease' = waitRelease
    BY <1>4 DEF Attach, waitVars
  <2> QED  BY <1>0, <2>1, <2>2, OneJobWoken
<1>5. ASSUME NEW r \in Rid, Delete(r) \/ PeriodTimerOfDying(r)  PROVE Woken'
  BY <1>0, <1>5, FreeSlotWoken DEF Delete, DeleteReserve, PeriodTimerOfDying, waitVars
<1>6. ASSUME NEW r \in Rid, TaskExit(r)  PROVE Woken'
  <2>1. /\ disp' = disp /\ alive' = alive \ {r} /\ awake' = awake \ {r}
        /\ nonPeriodic' = nonPeriodic /\ waitRelease' = waitRelease
    BY <1>6 DEF TaskExit, waitVars
  <2> QED  BY <1>0, <2>1, OneJobWoken
<1>7. ASSUME NEW r \in Rid, EnforcementTimer(r)  PROVE Woken'
  <2> DEFINE d == Expired(disp, r)
  <2>1. /\ r \in disp.enf /\ UNCHANGED taskVars /\ UNCHANGED <<nonPeriodic, waitRelease>>
        /\ \/ \E c \in Outcomes : disp' = RequestStop(d, r, c.defer)
           \/ TimerOfDeadTask(d, r)
    BY <1>7 DEF EnforcementTimer, RequestStop, Expired, waitVars
  <2>2. DispatcherOK(d, attached, prio) /\ d.ready = disp.ready
    BY <1>0, <2>1, ExpiredOK
  <2> HIDE DEF d
  <2>3. CASE TimerOfDeadTask(d, r)
    BY <1>1, <2>1, <2>2, <2>3, TimerOfDeadTaskKeeps
  <2>4. ASSUME NEW c \in Outcomes, disp' = RequestStop(d, r, c.defer)  PROVE Woken'
    <3> DEFINE e == RequestStop(d, r, c.defer)
    <3>1. e.ready = d.ready
      BY <2>2, RequestStopTells DEF DispatcherOK
    <3> HIDE DEF e
    <3>2. disp' = e
      BY <2>4 DEF e
    <3> QED  BY <1>1, <2>1, <2>2, <3>1, <3>2
  <2> QED  BY <2>1, <2>3, <2>4
<1>8. ASSUME NEW r \in Rid, PeriodTimer(r)  PROVE Woken'
  <2>1. CASE r \in Live
    BY <1>0, <1>8, <2>1, StartOfPeriodWoken DEF PeriodTimer
  <2>2. CASE r \notin Live
    <3>1. /\ TimerOfDeadTask(disp, r)
          /\ UNCHANGED taskVars /\ UNCHANGED <<nonPeriodic, waitRelease>>
      BY <1>8, <2>2 DEF PeriodTimer, waitVars
    <3> QED  BY <1>0, <1>1, <3>1, TimerOfDeadTaskKeeps
  <2> QED  BY <2>1, <2>2
<1>9. ASSUME NEW r \in Rid, ZeroSlackTimer(r)  PROVE Woken'
  <2> DEFINE d == ZsDisarmed(disp, r)
             e == StopLessCritical(d, r, Crit)
  <2>1. /\ UNCHANGED taskVars /\ UNCHANGED <<nonPeriodic, waitRelease>>
        /\ TimerOfDeadTask(d, r) \/ disp' = d \/ disp' = e
    BY <1>9 DEF ZeroSlackTimer, ZsEnforcement, ZsDisarmed, waitVars
  <2>2. DispatcherOK(d, attached, prio) /\ d.ready = disp.ready
    BY <1>0, ZsDisarmedOK
  <2> HIDE DEF d
  <2>3. e.ready = d.ready
    BY <1>0, <2>2, StopLessCriticalOK
  <2> HIDE DEF e
  <2>4. disp'.ready = disp.ready
    BY <2>1, <2>2, <2>3, TimerOfDeadTaskKeeps
  <2> QED  BY <1>1, <2>1, <2>4
<1>10. ASSUME NEW r \in Rid, TimerAborts(r)  PROVE Woken'
  <2>1. /\ disp'.ready = disp.ready /\ UNCHANGED taskVars
        /\ UNCHANGED <<nonPeriodic, waitRelease>>
    BY <1>0, <1>10 DEF TimerAborts, IsDispatcher, waitVars
  <2> QED  BY <1>1, <2>1
<1>11. ASSUME NEW r \in Rid, WaitForNextPeriod(r) \/ EndOfPeriod(r)  PROVE Woken'
  <2> DEFINE d == ZsDisarmed(disp, r)
  <2>1. /\ \E c \in Outcomes : disp' = Stop(d, r, c.late, c.defer)
        /\ awake \subseteq awake' \cup {r} /\ UNCHANGED <<alive, waitRelease>>
        /\ nonPeriodic' \subseteq nonPeriodic \cup {r}
    BY <1>11 DEF WaitForNextPeriod, EndOfPeriod, Departure, Return, ZsDisarmed
  <2>2. /\ DispatcherOK(d, attached, prio) /\ d.enf \subseteq HeadSet(d.ready)
        /\ d.ready = disp.ready
    BY <1>0, ZsDisarmedOK
  <2> HIDE DEF d
  <2>3. ToSet(disp'.ready) = ToSet(d.ready) \ {r}
    BY <1>0, <2>1, <2>2, StopTakes
  <2> QED  BY <1>0, <2>1, <2>2, <2>3, OneJobWoken
<1>12. ASSUME NEW r \in Rid, WaitForNextRelease(r)  PROVE Woken'
  <2>1. r \in attached /\ r \in awake /\ UNCHANGED <<alive, nonPeriodic>>
    BY <1>12 DEF WaitForNextRelease, MayCall, Live
  <2>2. CASE /\ disp' = disp /\ awake' = awake \ {r} /\ waitRelease' = waitRelease \cup {r}
    BY <1>0, <2>1, <2>2, OneJobWoken
  <2>3. CASE /\ \E c \in Outcomes : disp' = Start(disp, r, prio, c.late, c.defer)
             /\ UNCHANGED <<awake, waitRelease>>
    <3>1. ToSet(disp'.ready) = ToSet(disp.ready) \cup {r}
      BY <1>0, <2>1, <2>3, StartAdds
    <3> QED  BY <1>0, <2>1, <2>3, <3>1, OneJobWoken
  <2> QED  BY <1>12, <2>2, <2>3 DEF WaitForNextRelease
<1>13. ASSUME Unblock  PROVE Woken'
  <2>1. PICK t : t = blockq.head
    OBVIOUS
  <2>2. /\ UNCHANGED <<nonPeriodic, waitRelease>>
        /\ \/ UNCHANGED <<disp, taskVars>>
           \/ /\ t \in attached /\ awake' = awake \cup {t} /\ alive' = alive
              /\ \E c \in Outcomes : disp' = Start(disp, t, prio, c.late, c.defer)
           \/ FreeSlot(disp, t, Live)
    BY <1>13, <2>1 DEF Unblock, DeleteReserve, Live, waitVars
  <2>3. CASE UNCHANGED <<disp, taskVars>>
    BY <1>1, <2>2, <2>3
  <2>4. CASE /\ t \in attached /\ awake' = awake \cup {t} /\ alive' = alive
             /\ \E c \in Outcomes : disp' = Start(disp, t, prio, c.late, c.defer)
    <3>1. ToSet(disp'.ready) = ToSet(disp.ready) \cup {t}
      BY <1>0, <2>4, StartAdds
    <3> QED  BY <1>0, <2>2, <2>4, <3>1, OneJobWoken
  <2>5. CASE FreeSlot(disp, t, Live)
    BY <1>0, <2>2, <2>5, FreeSlotWoken
  <2> QED  BY <2>2, <2>3, <2>4, <2>5
<1>14. ASSUME ReturnFromCall  PROVE Woken'
  <2>1. PICK r : r = lock.rid
    OBVIOUS
  <2>2. /\ disp' = disp /\ UNCHANGED <<alive, nonPeriodic, waitRelease>>
        /\ \/ awake' = awake
           \/ awake' = awake \ {r} /\ r \notin nonPeriodic
    BY <1>14, <2>1 DEF ReturnFromCall, Return, WokenInv, WaiterIsPeriodic
  <2> QED  BY <1>0, <2>2, OneJobWoken, NoneQueuedWoken
<1>15. ASSUME SchedulerEnters \/ SchedulerUnlocks \/ SchedulerSleeps  PROVE Woken'
  <2>1. /\ disp'.ready = disp.ready /\ UNCHANGED taskVars
        /\ UNCHANGED <<nonPeriodic, waitRelease>>
    BY <1>0, <1>15 DEF SchedulerEnters, SchedulerUnlocks, SchedulerSleeps, IsDispatcher,
                       waitVars
  <2> QED  BY <1>1, <2>1
<1>16. ASSUME SchedulerPops  PROVE Woken'
  <2> DEFINE d == PoppedRequest(disp)
  <2>1. PICK r : r = Last(disp.stack)
    OBVIOUS
  <2>2. /\ UNCHANGED <<nonPeriodic, waitRelease>>
        /\ \/ disp' = d /\ UNCHANGED taskVars
           \/ FreeSlot(d, r, Live)
           \/ /\ \E c \in Outcomes : disp' = Stop(d, r, c.late, c.defer)
              /\ awake' = awake \ {r} /\ alive' = alive
           \/ /\ \E c \in Outcomes : disp' = Start(d, r, prio, c.late, c.defer)
              /\ r \in attached /\ awake' = awake \cup {r} /\ alive' = alive
    BY <1>16, <2>1 DEF SchedulerPops, DeleteReserve, Live, waitVars
  <2>3. /\ DispatcherOK(d, attached, prio) /\ d.enf \subseteq HeadSet(d.ready)
        /\ d.ready = disp.ready
    BY <1>0, PoppedRequestOK
  <2> HIDE DEF d
  <2>4. CASE disp' = d /\ UNCHANGED taskVars
    BY <1>1, <2>2, <2>3, <2>4
  <2>5. CASE FreeSlot(d, r, Live)
    BY <1>0, <2>2, <2>3, <2>5, FreeSlotWoken
  <2>6. CASE /\ \E c \in Outcomes : disp' = Stop(d, r, c.late, c.defer)
             /\ awake' = awake \ {r} /\ alive' = alive
    <3>1. ToSet(disp'.ready) = ToSet(d.ready) \ {r}
      BY <1>0, <2>3, <2>6, StopTakes
    <3> QED  BY <1>0, <2>2, <2>3, <2>6, <3>1, OneJobWoken
  <2>7. CASE /\ \E c \in Outcomes : disp' = Start(d, r, prio, c.late, c.defer)
             /\ r \in attached /\ awake' = awake \cup {r} /\ alive' = alive
    <3>1. ToSet(disp'.ready) = ToSet(d.ready) \cup {r}
      BY <1>0, <2>3, <2>7, StartAdds
    <3> QED  BY <1>0, <2>2, <2>3, <2>7, <3>1, OneJobWoken
  <2> QED  BY <2>2, <2>4, <2>5, <2>6, <2>7
<1> QED  BY <1>2, <1>3, <1>4, <1>5, <1>6, <1>7, <1>8, <1>9, <1>10, <1>11, <1>12,
            <1>13, <1>14, <1>15, <1>16 DEF Next

(* end_of_period is the only call that sets non_periodic_wait, and it is   *)
(* not served while another call has the lock.                             *)
LEMMA NextWaiter ==
  ASSUME LockOK, WokenInv, [Next]_vars
  PROVE  WaiterIsPeriodic'
<1>1. ASSUME lock' = lock, nonPeriodic' \subseteq nonPeriodic  PROVE WaiterIsPeriodic'
  BY <1>1 DEF WokenInv, WaiterIsPeriodic
<1>2. ASSUME lock' \in {Free, Scheduler}  PROVE WaiterIsPeriodic'
  BY <1>2 DEF WaiterIsPeriodic, Free, Scheduler
<1>3. CASE UNCHANGED vars
  BY <1>1, <1>3 DEF vars, waitVars
<1>4. ASSUME NEW r \in Rid, NEW p \in Params, Create(r, p)  PROVE WaiterIsPeriodic'
  BY <1>1, <1>4 DEF Create
<1>5. ASSUME NEW r \in Rid,
             Attach(r) \/ Delete(r) \/ PeriodTimerOfDying(r) \/ TaskExit(r)
             \/ EnforcementTimer(r) \/ PeriodTimer(r) \/ ZeroSlackTimer(r) \/ TimerAborts(r)
             \/ WaitForNextRelease(r)
      PROVE  WaiterIsPeriodic'
  BY <1>1, <1>5 DEF Attach, Delete, PeriodTimerOfDying, TaskExit, EnforcementTimer,
     PeriodTimer, ZeroSlackTimer, TimerAborts, WaitForNextRelease, waitVars
<1>6. ASSUME NEW r \in Rid, WaitForNextPeriod(r) \/ EndOfPeriod(r)
      PROVE  WaiterIsPeriodic'
  <2>1. /\ WaitForNextPeriod(r) => nonPeriodic' = nonPeriodic \ {r}
        /\ \/ lock' = Free
           \/ WaitForNextPeriod(r) /\ \E x, n : lock' = Releasing(r, "WAIT_PERIOD", x, n)
           \/ \E x, n : lock' = Releasing(r, "END_PERIOD", x, n)
    BY <1>6 DEF WaitForNextPeriod, EndOfPeriod, Departure, Return
  <2> QED  BY <1>2, <2>1 DEF WaiterIsPeriodic, Releasing
<1>7. ASSUME Unblock  PROVE WaiterIsPeriodic'
  <2>1. lock \in Calls /\ lock' = [lock EXCEPT !.left = @ - 1] /\ nonPeriodic' = nonPeriodic
    BY <1>7 DEF Unblock, LockOK, Free, Scheduler, waitVars
  <2>2. lock'.by = lock.by /\ lock'.call = lock.call /\ lock'.rid = lock.rid
    BY <2>1 DEF Calls
  <2> QED  BY <2>1, <2>2 DEF WokenInv, WaiterIsPeriodic
<1>8. ASSUME ReturnFromCall \/ SchedulerEnters \/ SchedulerUnlocks  PROVE WaiterIsPeriodic'
  BY <1>2, <1>8 DEF ReturnFromCall, Return, SchedulerEnters, SchedulerUnlocks
<1>9. ASSUME SchedulerPops \/ SchedulerSleeps  PROVE WaiterIsPeriodic'
  BY <1>1, <1>9 DEF SchedulerPops, SchedulerSleeps, waitVars
<1> QED  BY <1>3, <1>4, <1>5, <1>6, <1>7, <1>8, <1>9 DEF Next

(* No job holds the processor asleep for good, with any zero-slack         *)
(* instants, calls in any order, deaths, deletions and lost timers: the    *)
(* task of a job that is queued while it sleeps waits for a period, or for *)
(* a release that the period's timer handler knows of.                     *)
THEOREM QueuedSleepersWake == Spec => []QueuedSleepersAreWoken
<1>1. Init => WokenInv
  <2> SUFFICES ASSUME Init  PROVE WokenInv
    OBVIOUS
  <2>1. nonPeriodic = {}
    BY DEF Init
  <2> QED  BY <2>1 DEF WokenInv, Woken, Covered, WaiterIsPeriodic
<1>2. TypesInv /\ WokenInv /\ [Next]_vars => WokenInv'
  <2> SUFFICES ASSUME TypesInv, WokenInv, [Next]_vars  PROVE WokenInv'
    OBVIOUS
  <2>1. IInv /\ LockOK
    BY DEF TypesInv, StackInv
  <2> QED  BY <2>1, NextWoken, NextWaiter DEF WokenInv
<1>3. WokenInv => QueuedSleepersAreWoken
  BY DEF WokenInv, Woken, Covered, QueuedSleepersAreWoken
<1> QED  BY <1>1, <1>2, <1>3, TypesHold, PTL DEF Spec

-----------------------------------------------------------------------------
(* Linux priorities.                                                       *)

(* The activator thread reads the reserve table without the lock and       *)
(* writes none of it: beside it the scheduler does what it does alone, so  *)
(* that all its theorems hold here too.                                    *)
THEOREM ActivatorKeepsTheScheduler == ActivatorSpec => Spec
<1>1. ActivatorInit => Init
  BY DEF ActivatorInit
<1>2. [ActivatorNext]_allVars => [Next]_vars
  <2> SUFFICES ASSUME [ActivatorNext]_allVars  PROVE [Next]_vars
    OBVIOUS
  <2>1. CASE UNCHANGED allVars
    BY <2>1 DEF allVars
  <2>2. ASSUME NEW r \in Rid, AttachAndActivate(r) \/ DeleteAndDemote(r)  PROVE Next
    BY <2>2 DEF AttachAndActivate, DeleteAndDemote, Next
  <2>3. CASE SchedulerPopsRid
    BY <2>3 DEF SchedulerPopsRid, Next
  <2>4. CASE SchedulerOnly
    BY <2>4 DEF SchedulerOnly, Next
  <2>5. CASE ActivatorPops \/ ActivatorFindsTask \/ ActivatorSetsPriority
               \/ ActivatorLeaves \/ ActivatorSleeps
    BY <2>5 DEF ActivatorPops, ActivatorFindsTask, ActivatorSetsPriority,
                ActivatorLeaves, ActivatorSleeps
  <2> QED  BY <2>1, <2>2, <2>3, <2>4, <2>5 DEF ActivatorNext
<1> QED  BY <1>1, <1>2, PTL DEF ActivatorSpec, Spec

(* No push on activate_stack is refused. *)
ActivateHasRoom ==
  \A r \in Rid :
    AttachAndActivate(r) =>
      Len(activate) + Len(Among(rmq, attached \cup {r})) <= ACTIVATE_STACK_SIZE

(* The activator thread is about to set the priority of the task of r. *)
Hands(r) ==
  /\ activator.rid = r
  /\ activator.at = "popped" \/ (activator.at = "found" /\ activator.current)

(* The priority of an attached reserve is that of its task, or is in the   *)
(* hands of the activator thread, or the thread has the rid to pop.        *)
Handed ==
  \A r \in attached \ ToSet(activate) :
    IF Hands(r) THEN activator.prio = prio[r] ELSE linux[r] = prio[r]

ActivatorTypeOK ==
  /\ linux \in [Rid -> Int]
  /\ activate \in Seq(Rid)
  /\ activator \in [at : {"asleep", "runnable", "popped", "found", "leaving"},
                    rid : Rid \cup {Nil}, prio : Int, current : BOOLEAN]
  /\ activator.at \in {"popped", "found"} => activator.rid \in Rid

ActivatorInv == ActivatorTypeOK /\ Handed

(* Then no task of an attached reserve is gone. *)
TasksLive == attached \subseteq alive

(* A task exits only if the features say so, and takes no other along. *)
LEMMA NextTasksLive ==
  ASSUME "exit" \notin Features, TasksLive, [Next]_vars
  PROVE  TasksLive'
<1>1. ASSUME UNCHANGED <<attached, alive>>  PROVE TasksLive'
  BY <1>1 DEF TasksLive
<1>2. ASSUME NEW d, NEW r, DeleteReserve(d, r)  PROVE TasksLive'
  BY <1>2 DEF DeleteReserve, FreeSlot, TasksLive
<1>3. CASE UNCHANGED vars
  BY <1>1, <1>3 DEF vars, tableVars, taskVars
<1>4. ASSUME NEW r \in Rid, NEW p \in Params, Create(r, p)  PROVE TasksLive'
  BY <1>1, <1>4 DEF Create, taskVars
<1>5. ASSUME NEW r \in Rid, Attach(r)  PROVE TasksLive'
  BY <1>5 DEF Attach, TasksLive
<1>6. ASSUME NEW r \in Rid, Delete(r) \/ PeriodTimerOfDying(r) \/ TaskExit(r)
      PROVE  TasksLive'
  BY <1>2, <1>6 DEF Delete, PeriodTimerOfDying, TaskExit
<1>7. ASSUME NEW r \in Rid,
             EnforcementTimer(r) \/ PeriodTimer(r) \/ ZeroSlackTimer(r) \/ TimerAborts(r)
      PROVE  TasksLive'
  BY <1>1, <1>7 DEF EnforcementTimer, PeriodTimer, ZeroSlackTimer, TimerAborts,
                    tableVars, taskVars
<1>8. ASSUME NEW r \in Rid,
             WaitForNextPeriod(r) \/ EndOfPeriod(r) \/ WaitForNextRelease(r)
      PROVE  TasksLive'
  BY <1>1, <1>8 DEF WaitForNextPeriod, EndOfPeriod, WaitForNextRelease, Departure, tableVars
<1>9. ASSUME Unblock  PROVE TasksLive'
  <2>1. UNCHANGED <<attached, alive>> \/ \E t : DeleteReserve(disp, t)
    BY <1>9 DEF Unblock, tableVars, taskVars
  <2> QED  BY <1>1, <1>2, <2>1
<1>10. ASSUME SchedulerPops  PROVE TasksLive'
  <2>1. UNCHANGED <<attached, alive>> \/ \E d, t : DeleteReserve(d, t)
    BY <1>10 DEF SchedulerPops, tableVars, taskVars
  <2> QED  BY <1>1, <1>2, <2>1
<1>11. ASSUME ReturnFromCall \/ SchedulerEnters \/ SchedulerUnlocks \/ SchedulerSleeps
       PROVE  TasksLive'
  BY <1>1, <1>11 DEF ReturnFromCall, SchedulerEnters, SchedulerUnlocks, SchedulerSleeps,
                     tableVars, taskVars
<1>12. CASE Next
  BY <1>4, <1>5, <1>6, <1>7, <1>8, <1>9, <1>10, <1>11, <1>12 DEF Next
<1> QED  BY <1>3, <1>12

(* An attach has the activator thread look at every attached reserve.      *)
LEMMA AttachHands ==
  ASSUME IInv, ActivatorInv, NEW r \in Rid, AttachAndActivate(r), ActivateHasRoom
  PROVE  ActivatorInv'
<1> DEFINE A == attached \cup {r}
           rids == Among(rmq, A)
           pushed == activate \o rids
<1>1. /\ rmq \in Seq(Rid) /\ ToSet(rmq) = created \cup attached
      /\ linux \in [Rid -> Int] /\ activate \in Seq(Rid)
  BY DEF IInv, RmQueueOK, ActivatorInv, ActivatorTypeOK
<1>2. /\ r \in created /\ attached' = A /\ linux' = [linux EXCEPT ![r] = SCHED_NORMAL]
      /\ activate' = PushToActivate(activate, rids)
      /\ activator' = activator \/ activator' = Idle("runnable")
      /\ Len(activate) + Len(rids) <= ACTIVATE_STACK_SIZE
  BY DEF AttachAndActivate, Attach, ActivateHasRoom
<1>3. rids \in Seq(Rid) /\ ToSet(rids) = ToSet(rmq) \cap A
  BY <1>1, AmongIs
<1> HIDE DEF rids
<1>4. /\ pushed \in Seq(Rid) /\ Len(pushed) = Len(activate) + Len(rids)
      /\ ToSet(pushed) = ToSet(activate) \cup ToSet(rids)
  BY <1>1, <1>3, ConcatIs
<1>5. activate' = pushed
  <2>1. activate' = SubSeq(pushed, 1, IF Len(pushed) < ACTIVATE_STACK_SIZE
                                      THEN Len(pushed) ELSE ACTIVATE_STACK_SIZE)
    BY <1>2 DEF PushToActivate
  <2> HIDE DEF pushed
  <2>2. (IF Len(pushed) < ACTIVATE_STACK_SIZE
         THEN Len(pushed) ELSE ACTIVATE_STACK_SIZE) = Len(pushed)
    BY <1>1, <1>2, <1>3, <1>4, ActivateStackSizeAssumption
  <2> DEFINE n == Len(pushed)
  <2>3. activate' = SubSeq(pushed, 1, n) /\ n \in Nat
    BY <1>4, <2>1, <2>2
  <2>4. SubSeq(pushed, 1, n) = pushed
    BY <1>4
  <2> QED  BY <2>3, <2>4
<1> HIDE DEF pushed
<1>6. attached' \subseteq ToSet(activate')
  BY <1>1, <1>2, <1>3, <1>4, <1>5
<1>7. Handed'
  BY <1>6 DEF Handed
<1>8. linux' \in [Rid -> Int] /\ activate' \in Seq(Rid)
  BY <1>1, <1>2, <1>4, <1>5 DEF SCHED_NORMAL
<1>9. activator' \in [at : {"asleep", "runnable", "popped", "found", "leaving"},
                      rid : Rid \cup {Nil}, prio : Int, current : BOOLEAN]
      /\ (activator'.at \in {"popped", "found"} => activator'.rid \in Rid)
  <2>1. CASE activator' = activator
    BY <2>1 DEF ActivatorInv, ActivatorTypeOK
  <2>2. CASE activator' = Idle("runnable")
    BY <2>2 DEF Idle, Thread
  <2> QED  BY <1>2, <2>1, <2>2
<1> QED  BY <1>7, <1>8, <1>9 DEF ActivatorInv, ActivatorTypeOK, Rid

(* Where nobody changes a priority, the reserves that stay attached stay   *)
(* as they were handed over.                                               *)
LEMMA SameHands ==
  ASSUME ActivatorInv, UNCHANGED activatorVars, attached' \subseteq attached,
         \A r \in attached' : prio'[r] = prio[r]
  PROVE  ActivatorInv'
<1>1. ActivatorTypeOK'
  BY DEF ActivatorInv, ActivatorTypeOK, activatorVars, Rid
<1>2. Handed'
  BY DEF ActivatorInv, Handed, Hands, activatorVars
<1> QED  BY <1>1, <1>2 DEF ActivatorInv

(* delete_reserve. *)
LEMMA DemoteHands ==
  ASSUME IInv, TasksLive, ActivatorInv, NEW r, Demote(r, Live),
         attached' = attached \ {r}, prio' = prio
  PROVE  ActivatorInv'
<1>1. Live = attached /\ disp.ready \in Seq(attached)
  BY IInvFacts DEF TasksLive, Live, DispatcherOK
<1>2. LeftTask(r, Live) \subseteq {r}
  <2>1. CASE r \in Live
    BY <2>1 DEF LeftTask
  <2>2. CASE r \notin Live
    <3>1. ASSUME Len(disp.ready) > 1  PROVE Head(disp.ready) # r
      <4>1. Head(disp.ready) \in attached
        BY <1>1, <3>1
      <4> QED  BY <1>1, <2>2, <4>1
    <3> QED  BY <2>2, <3>1 DEF LeftTask
  <2> QED  BY <2>1, <2>2
<1>3. /\ linux' \in [Rid -> Int] /\ \A x \in Rid \ {r} : linux'[x] = linux[x]
      /\ activate' = activate
      /\ \/ activator' = activator
         \/ (activator.rid = r /\ activator' = [activator EXCEPT !.current = FALSE])
  BY <1>2 DEF Demote, ActivatorInv, ActivatorTypeOK, SCHED_NORMAL
<1>4. ActivatorTypeOK'
  BY <1>3 DEF ActivatorInv, ActivatorTypeOK, Rid
<1>5. ASSUME NEW x \in attached' \ ToSet(activate')
      PROVE  IF Hands(x)' THEN activator'.prio = prio'[x] ELSE linux'[x] = prio'[x]
  <2>1. x \in attached \ ToSet(activate) /\ x # r /\ x \in Rid
    BY <1>3, <1>5, IInvFacts
  <2>2. Hands(x)' = Hands(x) /\ activator'.prio = activator.prio
    BY <1>3, <2>1 DEF Hands, ActivatorInv, ActivatorTypeOK
  <2> QED  BY <1>3, <2>1, <2>2 DEF ActivatorInv, Handed
<1>6. Handed'
  BY <1>5 DEF Handed
<1> QED  BY <1>4, <1>6 DEF ActivatorInv

(* activator_task: from one priority to the next. *)
LEMMA PopsHands ==
  ASSUME IInv, ActivatorInv, ActivatorPops
  PROVE  ActivatorInv'
<1> DEFINE l == Last(activate)
<1>1. /\ linux' = linux /\ activate' = Front(activate)
      /\ activator' = Thread("popped", l, prio[l], FALSE)
      /\ attached' = attached /\ prio' = prio
      /\ activate # <<>> /\ activate \in Seq(Rid) /\ activator.at = "runnable"
      /\ linux \in [Rid -> Int] /\ Handed
  BY DEF ActivatorPops, ActivatorInv, ActivatorTypeOK, vars, tableVars
<1>2. Front(activate) \in Seq(Rid) /\ l \in Rid
      /\ ToSet(activate) = ToSet(Front(activate)) \cup {l}
  BY <1>1, FrontIs
<1>3. prio \in [Rid -> Int] /\ attached \subseteq Rid
  BY IInvFacts
<1> HIDE DEF l
<1>4. activator' = [at |-> "popped", rid |-> l, prio |-> prio[l], current |-> FALSE]
      /\ prio[l] \in Int
  BY <1>1, <1>2, <1>3 DEF Thread
<1>5. ActivatorTypeOK'
  <2>1. linux' \in [Rid -> Int] /\ activate' \in Seq(Rid)
    BY <1>1, <1>2
  <2>2. /\ activator' \in [at : {"asleep", "runnable", "popped", "found", "leaving"},
                            rid : Rid \cup {Nil}, prio : Int, current : BOOLEAN]
        /\ activator'.rid \in Rid
    BY <1>2, <1>4
  <2> QED  BY <2>1, <2>2 DEF ActivatorTypeOK, Rid
<1>6. ASSUME NEW x \in attached' \ ToSet(activate')
      PROVE  IF Hands(x)' THEN activator'.prio = prio'[x] ELSE linux'[x] = prio'[x]
  <2>0. activator'.rid = l /\ activator'.prio = prio[l] /\ activator'.at = "popped"
    BY <1>4
  <2>1. CASE x = l
    <3>1. Hands(x)'
      BY <2>0, <2>1 DEF Hands
    <3> QED  BY <1>1, <2>0, <2>1, <3>1
  <2>2. CASE x # l
    <3>1. x \in attached \ ToSet(activate)
      BY <1>1, <1>2, <1>6, <2>2
    <3>2. ~ Hands(x)
      BY <1>1 DEF Hands
    <3>3. ~ Hands(x)'
      BY <2>0, <2>2 DEF Hands
    <3> QED  BY <1>1, <3>1, <3>2, <3>3 DEF Handed
  <2> QED  BY <2>1, <2>2
<1>7. Handed'
  BY <1>6 DEF Handed
<1> QED  BY <1>5, <1>7 DEF ActivatorInv

(* A reserve whose task is not found is not attached any more. *)
LEMMA FindsHands ==
  ASSUME IInv, TasksLive, ActivatorInv, ActivatorFindsTask
  PROVE  ActivatorInv'
<1>1. /\ linux' = linux /\ activate' = activate
      /\ activator.at = "popped" /\ activator.rid \in Rid
      /\ attached' = attached /\ prio' = prio /\ attached \subseteq Rid
      /\ linux \in [Rid -> Int] /\ activate \in Seq(Rid) /\ Handed
  BY IInvFacts DEF ActivatorFindsTask, ActivatorInv, ActivatorTypeOK, vars, tableVars
<1>2. Live = attached
  BY DEF TasksLive, Live
<1>3. CASE activator.rid \in attached
  <2>1. activator' = [activator EXCEPT !.at = "found", !.current = TRUE]
    BY <1>2, <1>3 DEF ActivatorFindsTask
  <2>2. ActivatorTypeOK'
    BY <1>1, <2>1 DEF ActivatorInv, ActivatorTypeOK, Rid
  <2>3. \A x : Hands(x)' <=> Hands(x)
    BY <1>1, <2>1 DEF Hands, ActivatorInv, ActivatorTypeOK
  <2>4. activator'.prio = activator.prio
    BY <2>1 DEF ActivatorInv, ActivatorTypeOK
  <2>5. Handed'
    BY <1>1, <2>3, <2>4 DEF Handed
  <2> QED  BY <2>2, <2>5 DEF ActivatorInv
<1>4. CASE activator.rid \notin attached
  <2>1. activator' = [at |-> "runnable", rid |-> Nil, prio |-> 0, current |-> FALSE]
    BY <1>2, <1>4 DEF ActivatorFindsTask, Idle, Thread
  <2>2. ActivatorTypeOK'
    BY <1>1, <2>1 DEF ActivatorTypeOK, Rid
  <2>3. \A x \in attached : ~ Hands(x)' /\ ~ Hands(x)
    BY <1>4, <2>1 DEF Hands
  <2>4. Handed'
    BY <1>1, <2>3 DEF Handed
  <2> QED  BY <2>2, <2>4 DEF ActivatorInv
<1> QED  BY <1>3, <1>4

(* sched_setscheduler *)
LEMMA SetsHands ==
  ASSUME IInv, ActivatorInv, ActivatorSetsPriority
  PROVE  ActivatorInv'
<1> DEFINE g == activator.rid
<1>1. /\ linux' = (IF activator.current
                   THEN [linux EXCEPT ![g] = activator.prio] ELSE linux)
      /\ activate' = activate /\ activator' = Idle("runnable")
      /\ activator.at = "found" /\ g \in Rid /\ activator.prio \in Int
      /\ attached' = attached /\ prio' = prio /\ attached \subseteq Rid
      /\ linux \in [Rid -> Int] /\ activate \in Seq(Rid) /\ Handed
  BY IInvFacts
     DEF ActivatorSetsPriority, ActivatorInv, ActivatorTypeOK, vars, tableVars
<1>2. activator' = [at |-> "runnable", rid |-> Nil, prio |-> 0, current |-> FALSE]
  BY <1>1 DEF Idle, Thread
<1>3. ActivatorTypeOK'
  <2>1. linux' \in [Rid -> Int]
    BY <1>1
  <2>2. activate' \in Seq(Rid)
    BY <1>1
  <2>3. /\ activator' \in [at : {"asleep", "runnable", "popped", "found", "leaving"},
                            rid : Rid \cup {Nil}, prio : Int, current : BOOLEAN]
        /\ activator'.at = "runnable"
    BY <1>2
  <2> QED  BY <2>1, <2>2, <2>3 DEF ActivatorTypeOK, Rid
<1>4. ASSUME NEW x \in attached' \ ToSet(activate')
      PROVE  IF Hands(x)' THEN activator'.prio = prio'[x] ELSE linux'[x] = prio'[x]
  <2>1. x \in attached \ ToSet(activate) /\ x \in Rid /\ ~ Hands(x)'
    BY <1>1, <1>2, <1>4 DEF Hands
  <2>2. CASE x = g /\ activator.current
    <3>1. Hands(x)
      BY <1>1, <2>2 DEF Hands
    <3> QED  BY <1>1, <2>1, <2>2, <3>1 DEF Handed
  <2>3. CASE ~ (x = g /\ activator.current)
    <3>1. ~ Hands(x) /\ linux'[x] = linux[x]
      BY <1>1, <2>1, <2>3 DEF Hands
    <3> QED  BY <1>1, <2>1, <3>1 DEF Handed
  <2> QED  BY <2>2, <2>3
<1>5. Handed'
  BY <1>4 DEF Handed
<1> QED  BY <1>3, <1>5 DEF ActivatorInv

(* The thread finds nothing to do. *)
LEMMA IdlesHands ==
  ASSUME IInv, ActivatorInv, ActivatorLeaves \/ ActivatorSleeps
  PROVE  ActivatorInv'
<1>1. /\ linux' = linux /\ activate' = activate
      /\ activator.at \in {"runnable", "leaving"}
      /\ activator' = Idle("leaving") \/ activator' = Idle("asleep")
      /\ attached' = attached /\ prio' = prio
      /\ linux \in [Rid -> Int] /\ activate \in Seq(Rid) /\ Handed
  BY DEF ActivatorLeaves, ActivatorSleeps, ActivatorInv, ActivatorTypeOK, vars, tableVars
<1>2. \E a \in {"leaving", "asleep"} :
        activator' = [at |-> a, rid |-> Nil, prio |-> 0, current |-> FALSE]
  BY <1>1 DEF Idle, Thread
<1>3. ActivatorTypeOK'
  BY <1>1, <1>2 DEF ActivatorTypeOK, Rid
<1>4. Handed'
  BY <1>1, <1>2 DEF Handed, Hands
<1> QED  BY <1>3, <1>4 DEF ActivatorInv

(* The scheduler thread deletes a reserve, or starts or stops its job.     *)
LEMMA SchedulerPopsHands ==
  ASSUME IInv, TasksLive, ActivatorInv, SchedulerPopsRid
  PROVE  ActivatorInv'
<1> DEFINE r == Last(disp.stack)
<1>1. Live = attached
  BY DEF TasksLive, Live
<1>2. CASE UNCHANGED activatorVars /\ r \in disp.stop /\ (r \in enforced \/ r \in Live)
  <2>1. attached' = attached /\ prio' = prio
    BY <1>2 DEF SchedulerPopsRid, SchedulerPops, tableVars
  <2> QED  BY <1>2, <2>1, SameHands
<1>3. CASE r \notin Live /\ Demote(r, Live) /\ ~ (r \in disp.stop /\ r \in enforced)
  <2>1. attached' = attached \ {r} /\ prio' = prio
    BY <1>3 DEF SchedulerPopsRid, SchedulerPops, DeleteReserve, FreeSlot
  <2> HIDE DEF r
  <2> QED  BY <1>3, <2>1, DemoteHands
<1>4. CASE /\ r \in Live /\ r \notin disp.stop
           /\ linux' = [linux EXCEPT ![r] = prio[r]]
           /\ UNCHANGED <<activate, activator>>
  <2>1. /\ attached' = attached /\ prio' = prio
        /\ activate' = activate /\ activator' = activator
    BY <1>4 DEF SchedulerPopsRid, SchedulerPops, tableVars
  <2>2. /\ linux \in [Rid -> Int] /\ activate \in Seq(Rid) /\ Handed
        /\ prio \in [Rid -> Int] /\ attached \subseteq Rid /\ r \in attached
    BY <1>1, <1>4, IInvFacts DEF ActivatorInv, ActivatorTypeOK
  <2> HIDE DEF r
  <2>3. linux' \in [Rid -> Int] /\ linux'[r] = prio[r]
        /\ \A x \in Rid \ {r} : linux'[x] = linux[x]
    BY <1>4, <2>2
  <2>4. ActivatorTypeOK'
    BY <2>1, <2>3 DEF ActivatorInv, ActivatorTypeOK, Rid
  <2>5. \A x : Hands(x)' <=> Hands(x)
    BY <2>1 DEF Hands
  <2>6. Handed'
    BY <2>1, <2>2, <2>3, <2>5 DEF Handed
  <2> QED  BY <2>4, <2>6 DEF ActivatorInv
<1> QED  BY <1>2, <1>3, <1>4 DEF SchedulerPopsRid

(* Everything else the scheduler does. *)
LEMMA SchedulerOnlyHands ==
  ASSUME IInv, ActivatorInv, SchedulerOnly
  PROVE  ActivatorInv'
<1>0. UNCHANGED activatorVars
  BY DEF SchedulerOnly
<1>1. ASSUME UNCHANGED <<attached, prio>>  PROVE ActivatorInv'
  BY <1>0, <1>1, SameHands
<1>2. ASSUME NEW d, NEW t, DeleteReserve(d, t)  PROVE ActivatorInv'
  BY <1>0, <1>2, SameHands DEF DeleteReserve, FreeSlot
<1>3. ASSUME NEW r \in Rid, NEW p \in Params, Create(r, p)  PROVE ActivatorInv'
  <2>1. attached' = attached /\ r \notin attached /\ prio' = [prio EXCEPT ![r] = UserPriority]
    BY <1>3 DEF Create
  <2>2. \A x \in attached' : prio'[x] = prio[x]
    BY <2>1, IInvFacts
  <2> QED  BY <1>0, <2>1, <2>2, SameHands
<1>4. ASSUME NEW r \in Rid,
             TaskExit(r) \/ EnforcementTimer(r) \/ PeriodTimer(r) \/ ZeroSlackTimer(r)
             \/ WaitForNextPeriod(r) \/ EndOfPeriod(r) \/ WaitForNextRelease(r)
      PROVE  ActivatorInv'
  BY <1>1, <1>4 DEF TaskExit, EnforcementTimer, PeriodTimer, ZeroSlackTimer,
                    WaitForNextPeriod, EndOfPeriod, WaitForNextRelease, Departure, tableVars
<1>5. ASSUME Unblock  PROVE ActivatorInv'
  <2>1. UNCHANGED <<attached, prio>> \/ \E t : DeleteReserve(disp, t)
    BY <1>5 DEF Unblock, tableVars
  <2> QED  BY <1>1, <1>2, <2>1
<1>6. ASSUME ReturnFromCall \/ SchedulerEnters \/ SchedulerUnlocks \/ SchedulerSleeps
      PROVE  ActivatorInv'
  BY <1>1, <1>6 DEF ReturnFromCall, SchedulerEnters, SchedulerUnlocks, SchedulerSleeps,
                    tableVars
<1> QED  BY <1>3, <1>4, <1>5, <1>6 DEF SchedulerOnly

(* The inductive step. *)
LEMMA NextActivatorInv ==
  ASSUME "exit" \notin Features, IInv, TasksLive, ActivatorInv, [ActivatorNext]_allVars, ActivateHasRoom
  PROVE  ActivatorInv'
<1>1. CASE UNCHANGED allVars
  <2>1. UNCHANGED activatorVars /\ attached' = attached /\ prio' = prio
    BY <1>1 DEF allVars, vars, tableVars
  <2> QED  BY <2>1, SameHands
<1>2. ASSUME NEW r \in Rid, AttachAndActivate(r)  PROVE ActivatorInv'
  BY <1>2, AttachHands
<1>3. ASSUME NEW r \in Rid, DeleteAndDemote(r)  PROVE ActivatorInv'
  <2>1. Demote(r, Live) /\ Delete(r)
    BY <1>3 DEF DeleteAndDemote, PeriodTimerOfDying
  <2>2. attached' = attached \ {r} /\ prio' = prio
    BY <2>1 DEF Delete, DeleteReserve, FreeSlot
  <2> QED  BY <2>1, <2>2, DemoteHands
<1>4. CASE ActivatorNext
  BY <1>2, <1>3, <1>4, SchedulerPopsHands, SchedulerOnlyHands, PopsHands, FindsHands,
     SetsHands, IdlesHands
     DEF ActivatorNext
<1> QED  BY <1>1, <1>4

(* Initially nothing is attached. *)
LEMMA InitActivatorInv == ActivatorInit => ActivatorInv /\ TasksLive
<1> SUFFICES ASSUME ActivatorInit  PROVE ActivatorInv /\ TasksLive
  OBVIOUS
<1>1. /\ attached = {} /\ linux = [r \in Rid |-> 0] /\ activate = <<>>
      /\ activator = [at |-> "asleep", rid |-> Nil, prio |-> 0, current |-> FALSE]
  BY DEF ActivatorInit, Init, SCHED_NORMAL, Idle, Thread
<1>2. linux \in [Rid -> Int] /\ activate \in Seq(Rid)
  BY <1>1
<1>3. /\ activator \in [at : {"asleep", "runnable", "popped", "found", "leaving"},
                        rid : Rid \cup {Nil}, prio : Int, current : BOOLEAN]
      /\ activator.at = "asleep"
  BY <1>1
<1>4. ActivatorTypeOK
  BY <1>2, <1>3 DEF ActivatorTypeOK
<1> QED  BY <1>1, <1>4 DEF ActivatorInv, Handed, TasksLive

(* Once the thread is done the Linux priorities are those of the reserves, *)
(* which fall along the ready queue, and every task that may run is the    *)
(* task of a queued job.                                                   *)
LEMMA HandedRuns ==
  ASSUME IInv, AwakeInv, ActivatorInv
  PROVE  HeadRuns
<1> SUFFICES ASSUME Settled, disp.ready # <<>>,
                    NEW r \in awake \ {Head(disp.ready)}
             PROVE  linux[r] < linux[Head(disp.ready)]
  BY DEF HeadRuns
<1> DEFINE q == disp.ready
<1>1. /\ q \in Seq(attached) /\ Ordered(q, Falling(prio)) /\ attached \subseteq Rid
      /\ prio \in [Rid -> Int] /\ awake \subseteq ToSet(q)
  BY IInvFacts DEF DispatcherOK, AwakeInv, InStep
<1>2. \A x \in attached : linux[x] = prio[x]
  <2>1. activate = <<>> /\ activator.rid \notin Rid
    BY DEF Settled, Nil, Rid
  <2>2. ToSet(activate) = {}
    BY <2>1 DEF ToSet
  <2>3. \A x \in attached : ~ Hands(x)
    BY <1>1, <2>1 DEF Hands
  <2> QED  BY <2>2, <2>3 DEF ActivatorInv, Handed
<1>3. PICK i \in 1 .. Len(q) : q[i] = r
  BY <1>1 DEF ToSet
<1> HIDE DEF q
<1>4. 1 \in 1 .. Len(q) /\ Head(q) = q[1] /\ i # 1 /\ i > 1
  BY <1>1, <1>3 DEF q
<1>5. <<q[1], q[i]>> \in Falling(prio) /\ q[1] \in attached /\ q[i] \in attached
  BY <1>1, <1>3, <1>4 DEF Ordered
<1>6. prio[q[1]] > prio[q[i]] /\ prio[q[1]] \in Int /\ prio[q[i]] \in Int
  BY <1>1, <1>5 DEF Falling
<1> QED  BY <1>2, <1>3, <1>4, <1>5, <1>6 DEF q

(* Linux runs the job whose budget is counted: once the activator thread   *)
(* is done, the task of the head of the ready queue is ahead of every      *)
(* other task that may run.  Tasks stay for as long as their reserves, and *)
(* activate_stack has room for what an attach pushes.                      *)
THEOREM TheHeadRuns ==
  Plain /\ "exit" \notin Features =>
    (ActivatorSpec /\ [][ActivateHasRoom]_allVars => []HeadRuns)
<1> SUFFICES ASSUME Plain, "exit" \notin Features
             PROVE  ActivatorSpec /\ [][ActivateHasRoom]_allVars => []HeadRuns
  OBVIOUS
<1> DEFINE J == TasksLive /\ ActivatorInv
<1>1. ActivatorInit => J
  BY InitActivatorInv
<1>2. IInv /\ J /\ [ActivatorNext]_allVars /\ [Next]_vars /\ [ActivateHasRoom]_allVars => J'
  <2> SUFFICES ASSUME IInv, J, [ActivatorNext]_allVars, [Next]_vars,
                      [ActivateHasRoom]_allVars
               PROVE  J'
    OBVIOUS
  <2>1. TasksLive'
    BY NextTasksLive
  <2>2. CASE ActivateHasRoom
    BY <2>1, <2>2, NextActivatorInv
  <2>3. CASE UNCHANGED allVars
    <3>1. UNCHANGED activatorVars /\ attached' = attached /\ prio' = prio
      BY <2>3 DEF allVars, vars, tableVars
    <3> QED  BY <2>1, <3>1, SameHands
  <2> QED  BY <2>2, <2>3
<1>3. IInv /\ AwakeInv /\ J => HeadRuns
  BY HandedRuns
<1> QED  BY <1>1, <1>2, <1>3, ActivatorKeepsTheScheduler, AwakeInvHolds, PTL
            DEF ActivatorSpec, Spec

=============================================================================
