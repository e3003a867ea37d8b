---------------------------- MODULE ZsrmDispatch ----------------------------
(***************************************************************************)
(* What the kernel module's dispatcher does to its own state, as functions *)
(* on a record d:                                                          *)
(*   ready   readyq; its head is the running job                           *)
(*   enf     the reserves whose enforcement timer is armed                 *)
(*   zs      the reserves whose zero-slack timer is armed                  *)
(*   spent   the reserves whose job has used up its budget                 *)
(*   stop    the reserves with request_stop set                            *)
(*   stack   reschedule_stack[0 .. top]                                    *)
(*   sched   the state of the scheduler thread                             *)
(* A function of the code that calls others is one function here, so that  *)
(* a whole handler is one step.  Time is abstracted: `late' is the set of  *)
(* reserves whose job is found to have used up its budget when the time it *)
(* ran is accounted, `defer' the set of those whose enforcement is put off *)
(* because the hypervisor's log shows that hypertasks took the time.       *)
(***************************************************************************)
EXTENDS ZsrmQueues, ZsrmCriticality

CONSTANT STACK_SIZE \* capacity of reschedule_stack

ASSUME StackSizeAssumption == STACK_SIZE \in Nat

IdleDispatcher ==
  [ready |-> <<>>, enf |-> {}, zs |-> {}, spent |-> {}, stop |-> {},
   stack |-> <<>>, sched |-> "asleep"]

(* Faulty: the last place of the stack is not used. *)
PushOffByOne(d, r) ==
  IF Len(d.stack) + 1 < STACK_SIZE THEN [d EXCEPT !.stack = Append(@, r)] ELSE d

(* push_to_reschedule: a full stack refuses the rid and nobody looks. *)
Push(d, r) ==
  IF Len(d.stack) < STACK_SIZE THEN [d EXCEPT !.stack = Append(@, r)] ELSE d

(* wake_up_process(sched_task) has no effect on a thread that has not set  *)
(* its state to TASK_INTERRUPTIBLE.                                        *)
WakeScheduler(d) ==
  [d EXCEPT !.sched = IF @ = "asleep" THEN "runnable" ELSE @]

(* budget_enforcement *)
BudgetEnforcement(d, r, request_stop, defer) ==
  IF r \in defer
  THEN [d EXCEPT !.enf = @ \cup {r}, !.spent = @ \ {r}]
  ELSE IF request_stop
  THEN WakeScheduler(Push([d EXCEPT !.zs = @ \ {r}, !.stop = @ \cup {r}], r))
  ELSE [d EXCEPT !.zs = @ \ {r}]

(* Faulty: nobody looks whether the timer could be started. *)
RunHeadUnenforced(d, defer) ==
  IF d.ready = <<>> \/ Head(d.ready) \in d.spent THEN d
  ELSE [d EXCEPT !.enf = @ \cup {Head(d.ready)}]

(* The end of start and stop: start_enforcement_timer on the job at the    *)
(* head, budget_enforcement at once if it has no budget left.              *)
RunHead(d, defer) ==
  IF d.ready = <<>> THEN d
  ELSE LET h == Head(d.ready)
       IN  IF h \in d.spent THEN BudgetEnforcement(d, h, TRUE, defer)
           ELSE [d EXCEPT !.enf = @ \cup {h}]

(* Faulty: the timer is not cancelled. *)
SuspendUntimed(d, late) == [d EXCEPT !.spent = @ \cup ({Head(d.ready)} \cap late)]

(* The time the head ran is accounted and its enforcement timer cancelled. *)
Suspend(d, late) ==
  LET h == Head(d.ready)
  IN  [d EXCEPT !.enf = @ \ {h}, !.spent = @ \cup ({h} \cap late)]

(* start_stac / start *)
Start(d, r, prio, late, defer) ==
  IF r \in ToSet(d.ready) THEN d
  ELSE IF d.ready = <<>>
  THEN RunHead([d EXCEPT !.ready = <<r>>], defer)
  ELSE RunHead([Suspend(d, late) EXCEPT !.ready = AddReadyq(@, r, prio)], defer)

(* Faulty: a job that is not running is left in the queue. *)
StopRunningJob(d, r, late, defer) ==
  IF d.ready # <<>> /\ r = Head(d.ready)
  THEN RunHead([Suspend(d, late) EXCEPT !.ready = Tail(@)], defer)
  ELSE d

(* stop_stac / stop *)
Stop(d, r, late, defer) ==
  IF r \notin ToSet(d.ready) THEN d
  ELSE IF r = Head(d.ready)
  THEN RunHead([Suspend(d, late) EXCEPT !.ready = Tail(@)], defer)
  ELSE [d EXCEPT !.ready = Unlink(@, r)]

(* Faulty: the timers are left to the dispatcher. *)
ForgetTimers(d, r, live, late, defer) ==
  IF r \in live THEN Stop(d, r, late, defer) ELSE [d EXCEPT !.ready = Unlink(@, r)]

(* The dispatcher's part of delete_reserve.  A reserve whose task is gone  *)
(* is unlinked without accounting, and the job that becomes the head is    *)
(* started only if its own task still exists.                              *)
Forget(d, r, live, late, defer) ==
  LET unlinked == [d EXCEPT !.ready = Unlink(@, r)]
      stopped  == IF r \in live THEN Stop(d, r, late, defer)
                  ELSE IF /\ d.ready # <<>> /\ Head(d.ready) = r
                          /\ Len(d.ready) > 1 /\ d.ready[2] \in live
                  THEN RunHead(unlinked, defer)
                  ELSE unlinked
  IN  [stopped EXCEPT !.enf = @ \ {r}, !.zs = @ \ {r}]

(* zs_enforcement: every job in the ready queue of lower criticality is    *)
(* asked to stop.                                                          *)
LessCritical(d, r, crit) ==
  Among(d.ready, {x \in ToSet(d.ready) : crit[x] < crit[r]})

StopLessCritical(d, r, crit) ==
  LET victims == LessCritical(d, r, crit)
      pushed  == d.stack \o victims
      d1 == [d EXCEPT !.stop = @ \cup {x \in ToSet(d.ready) : crit[x] < crit[r]},
                      !.stack = SubSeq(pushed, 1,
                                  IF Len(pushed) < STACK_SIZE
                                  THEN Len(pushed) ELSE STACK_SIZE)]
  IN  IF victims = <<>> THEN d ELSE WakeScheduler(d1)

=============================================================================
