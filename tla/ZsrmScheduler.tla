---------------------------- MODULE ZsrmScheduler ----------------------------
(***************************************************************************)
(* The scheduler of the kernel module: reserves, their timers, the system  *)
(* calls of their tasks and the scheduler thread that carries out what the *)
(* timer handlers ask for.  Handlers, system calls and the scheduler       *)
(* thread's loop run under zsrmlock with interrupts off; an action is what *)
(* one of them does while it holds the lock, except that the two loops     *)
(* that act on several reserves (the scheduler thread's, and the one that  *)
(* resumes criticality-blocked reserves) keep the lock over several steps. *)
(***************************************************************************)
EXTENDS ZsrmDispatch

CONSTANTS
  Params,             \* the [period, crit, zs] a reserve may be created with
  UserPriority,       \* call.priority of CREATE_RSV, replaced at the next attach
  MIN_PRIORITY,
  UINT_SPAN,          \* values of num_period_wakeups, 2^32 in the code
  START_PERIOD_DEPTH, \* start_period is not told apart below minus this
  Features            \* which of the optional behaviours below can happen

ASSUME ParamsAssumption ==
  Params \subseteq [period : Nat \ {0}, crit : Nat, zs : BOOLEAN]
ASSUME PriorityAssumption == UserPriority \in Int /\ MIN_PRIORITY \in Nat
ASSUME BoundsAssumption ==
  /\ UINT_SPAN \in Nat \ {0}
  /\ START_PERIOD_DEPTH \in Nat
ASSUME FeaturesAssumption ==
  Features \subseteq {"delete", "exit", "nonperiodic", "unpaired",
                "hypertask", "lost"}

VARIABLES
  disp,         \* the dispatcher, see ZsrmDispatch
  created,      \* slots handed out and not attached (pid = 0)
  attached,     \* slots with a task (pid > 0); every other slot has pid = -1
  spec,         \* period_ns, criticality, has_zsenforcement of a slot
  prio,         \* priority
  rmq,          \* the list at rm_head
  periodTimer,  \* slots whose period timer is armed
  enforced,     \* slots with enforced set
  critical,     \* slots with in_critical_mode set
  startPeriod,  \* start_period
  wakeups,      \* num_period_wakeups
  nonPeriodic,  \* slots with non_periodic_wait set
  endMarked,    \* slots with end_of_period_marked set
  waitRelease,  \* slots with num_wait_release > 0
  sysCrit,      \* sys_criticality
  critq,        \* the list at critical_reservesq
  blockq,       \* the list at crit_blockq
  alive,        \* attached slots whose task exists (gettask is not NULL)
  awake,        \* attached slots whose task is not in TASK_INTERRUPTIBLE
  lock          \* who holds zsrmlock across several steps, and why

tableVars == <<created, attached, spec, prio, rmq>>
jobVars   == <<enforced, critical, startPeriod>>
waitVars  == <<wakeups, nonPeriodic, endMarked, waitRelease>>
critVars  == <<sysCrit, critq, blockq>>
taskVars  == <<alive, awake>>
vars == <<disp, tableVars, periodTimer, jobVars, waitVars, critVars, taskVars, lock>>

NoParams == [period |-> 0, crit |-> 0, zs |-> FALSE]
Period == [r \in Rid |-> spec[r].period]
Crit   == [r \in Rid |-> spec[r].crit]

Live == attached \cap alive   \* gettask(pid) finds a task

Free      == [by |-> "nobody"]
Scheduler == [by |-> "scheduler"]
Releasing(r, call, resume, left) ==
  [by |-> "task", rid |-> r, call |-> call, resume |-> resume, left |-> left]

(* What the clock and the hypervisor's log may say in one handler. *)
Outcomes == [late : SUBSET ToSet(disp.ready),
            defer : IF "hypertask" \in Features THEN SUBSET Rid ELSE {{}}]

Decremented(n) == IF n > -START_PERIOD_DEPTH THEN n - 1 ELSE n
Incremented(n) == {n + 1} \cup (IF n = -START_PERIOD_DEPTH THEN {n} ELSE {})

(* Faulty: one overrun is tolerated. *)
SecondOverrun(started) == started > 2

(* start_of_period without wait_for_next_period since the last one. *)
Overrun(started) == started > 1

(* The criticality to return to: that of the top of the stack. *)
TopCrit(q) == IF q.head \in Rid THEN spec[q.head].crit ELSE 0

(* Faulty: the timer of a less critical job is taken seriously. *)
ZsIgnoredIfEnforced(r) == r \in enforced

(* A zero-slack timer is ignored if its job was stopped already or the     *)
(* system is in a higher criticality.                                      *)
ZsIgnored(r) == r \in enforced \/ spec[r].crit < sysCrit

(* Faulty: the rid stays on the stack. *)
PeekedRequest(d) == [d EXCEPT !.stop = @ \ {Last(d.stack)}]

(* Faulty: request_stop is not reset. *)
PoppedRid(d) == [d EXCEPT !.stack = Front(@)]

(* pop_to_reschedule, and the request_stop of the rid it returns is reset. *)
PoppedRequest(d) == [d EXCEPT !.stack = Front(@), !.stop = @ \ {Last(d.stack)}]

-----------------------------------------------------------------------------
(* init() *)
Init ==
  /\ disp = IdleDispatcher
  /\ created = {} /\ attached = {}
  /\ spec = [r \in Rid |-> NoParams]
  /\ prio = [r \in Rid |-> 0]
  /\ rmq = <<>>
  /\ periodTimer = {}
  /\ enforced = {} /\ critical = {}
  /\ startPeriod = [r \in Rid |-> 0]
  /\ wakeups = [r \in Rid |-> 0]
  /\ nonPeriodic = {} /\ endMarked = {} /\ waitRelease = {}
  /\ sysCrit = 0 /\ critq = EmptyChain /\ blockq = EmptyChain
  /\ alive = {} /\ awake = {}
  /\ lock = Free

-----------------------------------------------------------------------------
(* CREATE_RSV: getreserve and init_reserve on the first free slot, then    *)
(* add_rm_queue.  hrtimer_init on a timer that is still armed may or may   *)
(* not lose it.                                                            *)
Create(r, p) ==
  /\ lock = Free
  /\ r \notin created \cup attached
  /\ 0 .. r - 1 \subseteq created \cup attached
  /\ created' = created \cup {r}
  /\ spec' = [spec EXCEPT ![r] = p]
  /\ prio' = [prio EXCEPT ![r] = UserPriority]
  /\ rmq' = AddRmQueue(rmq, r, [Period EXCEPT ![r] = p.period])
  /\ startPeriod' = [startPeriod EXCEPT ![r] = 0]
  /\ wakeups' = [wakeups EXCEPT ![r] = 0]
  /\ nonPeriodic' = nonPeriodic \ {r}
  /\ endMarked' = endMarked \ {r}
  /\ waitRelease' = waitRelease \ {r}
  /\ critq' = ClearLink(critq, r)
  /\ blockq' = ClearLink(blockq, r)
  /\ periodTimer' \in {periodTimer, periodTimer \ {r}}
  /\ UNCHANGED <<disp, attached, enforced, critical, sysCrit, taskVars, lock>>

(* ATTACH_RSV: attach_reserve, with calculate_rm_priorities over the whole *)
(* RM queue.                                                               *)
Attach(r) ==
  /\ lock = Free
  /\ r \in created
  /\ created' = created \ {r}
  /\ attached' = attached \cup {r}
  /\ alive' = alive \cup {r}
  /\ awake' = awake \cup {r}
  /\ prio' = CalculateRmPriorities(rmq, prio, MIN_PRIORITY)
  /\ startPeriod' = [startPeriod EXCEPT ![r] = 1]
  /\ enforced' = enforced \ {r}
  /\ critical' = critical \ {r}
  /\ periodTimer' = periodTimer \cup {r}
  /\ \E c \in Outcomes :
       disp' = Start([disp EXCEPT !.spent = @ \ {r},
                                  !.zs = IF spec[r].zs THEN @ \cup {r} ELSE @],
                     r, prio', c.late, c.defer)
  /\ UNCHANGED <<spec, rmq, waitVars, critVars, lock>>

(* delete_reserve but for the period timer, called with the dispatcher in  *)
(* state d when the tasks of `live' exist.                                 *)
FreeSlot(d, r, live) ==
  /\ \E c \in Outcomes : disp' = Forget(d, r, live, c.late, c.defer)
  /\ created' = created \ {r}
  /\ attached' = attached \ {r}
  /\ alive' = alive \ {r}
  /\ awake' = awake \ {r}
  /\ rmq' = DelRmQueue(rmq, r)
  /\ UNCHANGED <<spec, prio>>

(* Faulty: the period timer is not cancelled. *)
DeleteReserveUntimed(d, r) == FreeSlot(d, r, Live) /\ UNCHANGED periodTimer

(* delete_reserve *)
DeleteReserve(d, r) ==
  /\ FreeSlot(d, r, Live)
  /\ periodTimer' = periodTimer \ {r}

(* DELETE_RSV: any valid rid is accepted. *)
Delete(r) ==
  /\ lock = Free
  /\ "delete" \in Features
  /\ DeleteReserve(disp, r)
  /\ UNCHANGED <<jobVars, waitVars, critVars, lock>>

-----------------------------------------------------------------------------
(* Faulty: the timer is reported and nobody is told. *)
TimerOfDeadTaskReported(d, r) == disp' = d

(* timer_handler for a timer whose task is gone: the scheduler thread will *)
(* delete the reserve.  The timer is not restarted; that of a free slot is *)
(* only reported.                                                          *)
TimerOfDeadTask(d, r) ==
  disp' = IF r \in created \cup attached
          THEN WakeScheduler(Push([d EXCEPT !.stop = @ \ {r}], r))
          ELSE d

(* TIMER_ENF *)
EnforcementTimer(r) ==
  LET d == [disp EXCEPT !.enf = @ \ {r}, !.spent = @ \cup {r}]
  IN  /\ lock = Free
      /\ r \in disp.enf
      /\ IF r \in Live
         THEN \E c \in Outcomes : disp' = BudgetEnforcement(d, r, TRUE, c.defer)
         ELSE TimerOfDeadTask(d, r)
      /\ UNCHANGED <<tableVars, periodTimer, jobVars, waitVars, critVars,
                     taskVars, lock>>

(* start_of_period of a reserve whose task still exists. *)
StartOfPeriod(r) ==
  \E c \in Outcomes, started \in Incremented(startPeriod[r]) :
    LET overrun == Overrun(started)
        d1 == IF overrun
              THEN Stop(BudgetEnforcement([disp EXCEPT !.enf = @ \ {r}],
                                          r, FALSE, {}),
                        r, c.late, c.defer)
              ELSE disp
        d2 == [d1 EXCEPT !.spent = @ \ {r},
                         !.zs = IF spec[r].zs THEN @ \cup {r} ELSE @]
        blocked  == spec[r].crit < sysCrit
        released == ~ blocked /\ (r \in nonPeriodic => r \in waitRelease)
    IN  /\ startPeriod' = [startPeriod EXCEPT ![r] = IF overrun THEN started - 1
                                                                ELSE started]
        /\ critical' = critical \ {r}
        /\ enforced' = IF blocked THEN enforced ELSE enforced \ {r}
        /\ wakeups' = IF blocked THEN wakeups
                      ELSE LET w == (wakeups[r] + 1) % UINT_SPAN
                           IN  [wakeups EXCEPT ![r] = IF w > 1 THEN 1 ELSE w]
        /\ waitRelease' = IF ~ blocked /\ r \in nonPeriodic
                          THEN waitRelease \ {r} ELSE waitRelease
        /\ awake' = IF released THEN awake \cup {r} ELSE awake
        /\ disp' = IF released THEN Start(d2, r, prio, c.late, c.defer) ELSE d2

(* TIMER_PERIOD; kernel_timer_handler programs the timer again. *)
PeriodTimer(r) ==
  /\ lock = Free
  /\ r \in periodTimer
  /\ IF r \in Live
     THEN /\ StartOfPeriod(r)
          /\ UNCHANGED <<periodTimer, nonPeriodic, endMarked, alive>>
     ELSE /\ TimerOfDeadTask(disp, r)
          /\ periodTimer' = periodTimer \ {r}
          /\ UNCHANGED <<jobVars, waitVars, taskVars>>
  /\ UNCHANGED <<tableVars, critVars, lock>>

(* TIMER_PERIOD of a task that is gone when start_of_period looks for it   *)
(* again: delete_reserve cancels the timer whose handler this is, and      *)
(* kernel_timer_handler programs it again, for a slot that is free by now. *)
PeriodTimerOfDying(r) ==
  /\ lock = Free
  /\ "exit" \in Features
  /\ r \in periodTimer \cap Live
  /\ FreeSlot(disp, r, Live \ {r})
  /\ UNCHANGED <<periodTimer, jobVars, waitVars, critVars, lock>>

(* zs_enforcement: r takes the system to its own criticality and asks for  *)
(* every less critical job in the ready queue to be stopped.               *)
ZsEnforcement(d, r) ==
  /\ sysCrit' = spec[r].crit
  /\ critical' = critical \cup {r}
  /\ critq' = AddChain(critq, r, Crit)
  /\ blockq' = AddChains(blockq, LessCritical(d, r, Crit), Crit)
  /\ disp' = StopLessCritical(d, r, Crit)

(* TIMER_ZS_ENF *)
ZeroSlackTimer(r) ==
  LET d == [disp EXCEPT !.zs = @ \ {r}]
  IN  /\ lock = Free
      /\ r \in disp.zs
      /\ IF r \notin Live
         THEN TimerOfDeadTask(d, r) /\ UNCHANGED <<critVars, critical>>
         ELSE IF ZsIgnored(r)
         THEN disp' = d /\ UNCHANGED <<critVars, critical>>
         ELSE ZsEnforcement(d, r)
      /\ UNCHANGED <<tableVars, periodTimer, enforced, startPeriod, waitVars,
                     taskVars, lock>>

(* kernel_timer_handler gives up after 1000000 tries when zsrmlock is held *)
(* for long, and the timer is not programmed again.                        *)
TimerAborts(r) ==
  /\ lock # Free
  /\ "lost" \in Features
  /\ \/ /\ r \in disp.enf
        /\ disp' = [disp EXCEPT !.enf = @ \ {r}, !.spent = @ \cup {r}]
        /\ UNCHANGED periodTimer
     \/ /\ r \in disp.zs
        /\ disp' = [disp EXCEPT !.zs = @ \ {r}]
        /\ UNCHANGED periodTimer
     \/ /\ r \in periodTimer
        /\ periodTimer' = periodTimer \ {r}
        /\ UNCHANGED disp
  /\ UNCHANGED <<tableVars, jobVars, waitVars, critVars, taskVars, lock>>

-----------------------------------------------------------------------------
(* The end of wait_for_next_period and end_of_period: the former puts the  *)
(* caller to sleep and takes note of the wake-up it expects.               *)
Return(r, call) ==
  /\ lock' = Free
  /\ IF call = "WAIT_PERIOD"
     THEN /\ awake' = awake \ {r}
          /\ wakeups' = [wakeups EXCEPT ![r] = (@ + UINT_SPAN - 1) % UINT_SPAN]
     ELSE UNCHANGED <<awake, wakeups>>

(* What wait_for_next_period and end_of_period share.  A job in critical   *)
(* mode leaves the criticality stack if it is at the top, and then holds   *)
(* the lock while it takes reserves out of crit_blockq: to resume them if  *)
(* it stayed within its nominal execution time, else to drop them.         *)
Departure(r, call) ==
  /\ \E c \in Outcomes : disp' = Stop([disp EXCEPT !.zs = @ \ {r}], r, c.late, c.defer)
  /\ startPeriod' = [startPeriod EXCEPT ![r] = Decremented(@)]
  /\ IF r \in critical
     THEN \E exceeded \in BOOLEAN :
            /\ critical' = critical \ {r}
            /\ critq' = IF critq.head = r THEN PopChain(critq) ELSE critq
            /\ sysCrit' = TopCrit(critq')
            /\ lock' = Releasing(r, call, ~ exceeded, MAX_RESERVES + 1)
            /\ UNCHANGED <<awake, wakeups>>
     ELSE Return(r, call) /\ UNCHANGED <<critical, sysCrit, critq>>
  /\ UNCHANGED <<tableVars, periodTimer, enforced, waitRelease, blockq, alive>>

MayCall(r) == lock = Free /\ r \in Live /\ r \in awake

(* A task that has called end_of_period calls wait_for_next_release next,  *)
(* as the two are meant to be used; nothing in the code checks it.         *)
InOrder(r) == r \in endMarked => "unpaired" \in Features

(* WAIT_PERIOD: wait_for_next_period *)
WaitForNextPeriod(r) ==
  /\ MayCall(r) /\ InOrder(r)
  /\ Departure(r, "WAIT_PERIOD")
  /\ nonPeriodic' = nonPeriodic \ {r}
  /\ UNCHANGED endMarked

(* END_PERIOD: end_of_period *)
EndOfPeriod(r) ==
  /\ MayCall(r) /\ InOrder(r)
  /\ "nonperiodic" \in Features
  /\ Departure(r, "END_PERIOD")
  /\ nonPeriodic' = nonPeriodic \cup {r}
  /\ endMarked' = endMarked \cup {r}

(* Faulty: num_wait_release is not incremented. *)
WaitForNextReleaseUnnoted(r) ==
  /\ MayCall(r)
  /\ "nonperiodic" \in Features
  /\ r \in endMarked
  /\ endMarked' = endMarked \ {r}
  /\ wakeups' = [wakeups EXCEPT ![r] = (@ + UINT_SPAN - 1) % UINT_SPAN]
  /\ IF wakeups[r] = 0
     THEN awake' = awake \ {r} /\ UNCHANGED disp
     ELSE /\ \E c \in Outcomes : disp' = Start(disp, r, prio, c.late, c.defer)
          /\ UNCHANGED awake
  /\ UNCHANGED <<tableVars, periodTimer, jobVars, nonPeriodic, waitRelease,
                 critVars, alive, lock>>

(* WAIT_RELEASE: wait_for_next_release.  Without the mark of end_of_period *)
(* it is a wait_for_next_period.                                           *)
WaitForNextRelease(r) ==
  /\ MayCall(r)
  /\ "nonperiodic" \in Features
  /\ r \in endMarked
  /\ endMarked' = endMarked \ {r}
  /\ wakeups' = [wakeups EXCEPT ![r] = (@ + UINT_SPAN - 1) % UINT_SPAN]
  /\ IF wakeups[r] = 0
     THEN /\ awake' = awake \ {r}
          /\ waitRelease' = waitRelease \cup {r}
          /\ UNCHANGED disp
     ELSE /\ \E c \in Outcomes : disp' = Start(disp, r, prio, c.late, c.defer)
          /\ UNCHANGED <<awake, waitRelease>>
  /\ UNCHANGED <<tableVars, periodTimer, jobVars, nonPeriodic, critVars, alive, lock>>

(* One round of the loop over crit_blockq. *)
UnblockGoesOn ==
  /\ lock.left > 0
  /\ blockq.head \in Rid
  /\ spec[blockq.head].crit >= sysCrit

Unblock ==
  /\ lock.by = "task" /\ UnblockGoesOn
  /\ LET t == blockq.head
     IN  IF ~ lock.resume
         THEN UNCHANGED <<disp, tableVars, periodTimer, taskVars>>
         ELSE IF t \in Live
         THEN /\ awake' = awake \cup {t}
              /\ \E c \in Outcomes : disp' = Start(disp, t, prio, c.late, c.defer)
              /\ UNCHANGED <<tableVars, periodTimer, alive>>
         ELSE DeleteReserve(disp, t)
  /\ blockq' = PopChain(blockq)
  /\ lock' = [lock EXCEPT !.left = @ - 1]
  /\ UNCHANGED <<jobVars, waitVars, sysCrit, critq>>

ReturnFromCall ==
  /\ lock.by = "task" /\ ~ UnblockGoesOn
  /\ Return(lock.rid, lock.call)
  /\ UNCHANGED <<disp, tableVars, periodTimer, jobVars, nonPeriodic, endMarked,
                 waitRelease, critVars, alive>>

-----------------------------------------------------------------------------
(* scheduler_task *)
SchedulerEnters ==
  /\ lock = Free
  /\ disp.sched = "runnable"
  /\ disp' = [disp EXCEPT !.sched = "running"]
  /\ lock' = Scheduler
  /\ UNCHANGED <<tableVars, periodTimer, jobVars, waitVars, critVars, taskVars>>

SchedulerPops ==
  /\ lock = Scheduler
  /\ disp.stack # <<>>
  /\ LET r == Last(disp.stack)
         d == PoppedRequest(disp)
     IN  IF r \in disp.stop /\ r \in enforced
         THEN /\ disp' = d
              /\ UNCHANGED <<tableVars, periodTimer, jobVars, taskVars>>
         ELSE IF r \notin Live
         THEN /\ DeleteReserve(d, r)
              /\ enforced' = IF r \in disp.stop THEN enforced \cup {r} ELSE enforced
              /\ UNCHANGED <<critical, startPeriod>>
         ELSE /\ IF r \in disp.stop
                 THEN /\ enforced' = enforced \cup {r}
                      /\ awake' = awake \ {r}
                      /\ startPeriod' = [startPeriod EXCEPT ![r] = Decremented(@)]
                      /\ \E c \in Outcomes : disp' = Stop(d, r, c.late, c.defer)
                 ELSE /\ awake' = awake \cup {r}
                      /\ \E c \in Outcomes : disp' = Start(d, r, prio, c.late, c.defer)
                      /\ UNCHANGED <<enforced, startPeriod>>
              /\ UNCHANGED <<tableVars, periodTimer, critical, alive>>
  /\ UNCHANGED <<waitVars, critVars, lock>>

(* The lock is released before the thread's state is set for sleeping. *)
SchedulerUnlocks ==
  /\ lock = Scheduler
  /\ disp.stack = <<>>
  /\ disp' = [disp EXCEPT !.sched = "leaving"]
  /\ lock' = Free
  /\ UNCHANGED <<tableVars, periodTimer, jobVars, waitVars, critVars, taskVars>>

SchedulerSleeps ==
  /\ disp.sched = "leaving"
  /\ disp' = [disp EXCEPT !.sched = "asleep"]
  /\ UNCHANGED <<tableVars, periodTimer, jobVars, waitVars, critVars, taskVars, lock>>

-----------------------------------------------------------------------------
(* The task of r ends; a task in a system call ends after the call. *)
TaskExit(r) ==
  /\ "exit" \in Features
  /\ r \in Live
  /\ ~ (lock.by = "task" /\ lock.rid = r)
  /\ alive' = alive \ {r}
  /\ awake' = awake \ {r}
  /\ UNCHANGED <<disp, tableVars, periodTimer, jobVars, waitVars, critVars, lock>>

Next ==
  \/ \E r \in Rid, p \in Params : Create(r, p)
  \/ \E r \in Rid :
       \/ Attach(r) \/ Delete(r) \/ TaskExit(r)
       \/ EnforcementTimer(r) \/ PeriodTimer(r) \/ PeriodTimerOfDying(r)
       \/ ZeroSlackTimer(r) \/ TimerAborts(r)
       \/ WaitForNextPeriod(r) \/ EndOfPeriod(r) \/ WaitForNextRelease(r)
  \/ Unblock \/ ReturnFromCall
  \/ SchedulerEnters \/ SchedulerPops \/ SchedulerUnlocks \/ SchedulerSleeps

Spec == Init /\ [][Next]_vars

(* What holds zsrmlock runs with interrupts off until it lets it go; the   *)
(* scheduler thread has a higher priority (DAEMON_PRIORITY) than every     *)
(* task it schedules, so that it gets the lock if it keeps asking for it.  *)
SchedulerFairness ==
  /\ WF_vars(Unblock) /\ WF_vars(ReturnFromCall)
  /\ WF_vars(SchedulerPops) /\ WF_vars(SchedulerUnlocks)
  /\ WF_vars(SchedulerSleeps) /\ SF_vars(SchedulerEnters)

(* Armed timers expire. *)
TimerFairness ==
  \A r \in Rid : /\ SF_vars(PeriodTimer(r))
                 /\ SF_vars(EnforcementTimer(r))

(* Every job that keeps running ends and waits for its next period. *)
JobFairness == \A r \in Rid : SF_vars(WaitForNextPeriod(r))

SchedulerSpec == Spec /\ SchedulerFairness
FairSpec == Spec /\ SchedulerFairness /\ TimerFairness /\ JobFairness

-----------------------------------------------------------------------------
DispatcherTypeOK ==
  /\ disp.ready \in Seq(Rid)
  /\ disp.enf \subseteq Rid /\ disp.zs \subseteq Rid
  /\ disp.spent \subseteq Rid /\ disp.stop \subseteq Rid
  /\ created \subseteq Rid /\ attached \subseteq Rid
  /\ spec \in [Rid -> Params \cup {NoParams}]
  /\ prio \in [Rid -> Int]
  /\ rmq \in Seq(Rid)
  /\ periodTimer \subseteq Rid

ChainTypeOK(q) == q.head \in Rid \cup {Nil} /\ q.next \in [Rid -> Rid \cup {Nil}]

(* The type invariant: every variable holds values its declaration in the  *)
(* code can hold, and num_period_wakeups and start_period stay in range.   *)
TypeOK ==
  /\ DispatcherTypeOK
  /\ disp.stack \in Seq(Rid) /\ Len(disp.stack) <= STACK_SIZE
  /\ disp.sched \in {"asleep", "runnable", "running", "leaving"}
  /\ (enforced \cup critical \cup nonPeriodic \cup endMarked \cup waitRelease) \subseteq Rid
  /\ startPeriod \in [Rid -> -START_PERIOD_DEPTH .. 1]
  /\ wakeups \in [Rid -> 0 .. UINT_SPAN - 1]
  /\ sysCrit \in Nat
  /\ ChainTypeOK(critq) /\ ChainTypeOK(blockq)
  /\ (alive \cup awake) \subseteq attached
  /\ lock \in {Free, Scheduler} \cup
       [by : {"task"}, rid : Rid, call : {"WAIT_PERIOD", "END_PERIOD"},
        resume : BOOLEAN, left : 0 .. MAX_RESERVES + 1]

(* fp31 of the source: the ready queue is ordered by priority, and no two  *)
(* of its jobs have the same one, although every attach renumbers the      *)
(* priorities of the jobs that are queued (calculate_rm_priorities, which  *)
(* the source leaves unverified: "the priorities are changed globally").   *)
ReadySorted ==
  \A i, j \in 1 .. Len(disp.ready) :
    i < j => prio[disp.ready[i]] > prio[disp.ready[j]]

(* fp32 of the source: the RM queue is ordered by period, and it holds     *)
(* every slot that is in use once, whatever is created and deleted.        *)
RmSorted ==
  /\ \A i, j \in 1 .. Len(rmq) :
       i < j => rmq[i] # rmq[j] /\ spec[rmq[i]].period <= spec[rmq[j]].period
  /\ ToSet(rmq) = created \cup attached

(* No job runs ahead of a queued job of a shorter period: what start,      *)
(* stop, attach and delete do to the ready queue one at a time keeps it in *)
(* rate-monotonic order.                                                   *)
RateMonotonic ==
  \A i, j \in 1 .. Len(disp.ready) :
    i < j => spec[disp.ready[i]].period <= spec[disp.ready[j]].period

(* Only the running job's budget is counted down: start, stop and          *)
(* delete_reserve move the enforcement timer with the head of the queue.   *)
OnlyHeadTimed ==
  \A r \in disp.enf : disp.ready # <<>> /\ Head(disp.ready) = r

(* No budget is counted and no zero-slack instant comes for a slot that is *)
(* not attached, and no such slot is queued: delete_reserve, called by     *)
(* DELETE_RSV, the scheduler thread, the unwinding of crit_blockq or       *)
(* start_of_period, leaves nothing behind.  (A period timer it does leave: *)
(* that of a task which ends in its own handler, see PeriodTimerOfDying.)  *)
TimersOwned ==
  /\ (disp.enf \cup disp.zs \cup ToSet(disp.ready)) \subseteq attached
  /\ "exit" \in Features \/ periodTimer \subseteq attached

(* No time is charged to a job whose task sleeps: wait_for_next_period and *)
(* the scheduler thread take a job out of the queue before they put its    *)
(* task to sleep, and what queues a job again wakes its task.              *)
QueuedAreAwake == lock = Free => (ToSet(disp.ready) \cap alive) \subseteq awake

(* No task runs without its budget being counted: a task that may run is   *)
(* the task of a queued job, once the system call it is in has returned.   *)
AwakeAreQueued == lock = Free => awake \subseteq ToSet(disp.ready)

(* No job holds the processor asleep for good: a job that is queued while  *)
(* its task sleeps (a reserve taken out of crit_blockq after its job ended *)
(* is, once it calls WAIT_RELEASE) waits for a period, or for a release    *)
(* that is noted, and so is woken by the next period that its criticality  *)
(* lets begin.                                                             *)
QueuedSleepersAreWoken ==
  \A r \in (ToSet(disp.ready) \cap alive) \ awake :
    r \in nonPeriodic => r \in waitRelease

(* request_stop is never set without the scheduler thread having the rid   *)
(* to pop, so that a request cannot be forgotten between two pops.         *)
StopPendingOnStack == disp.stop \subseteq ToSet(disp.stack)

(* delete_reserve: "if the reserve was not properly deleted at least the   *)
(* periodic timer will be active" -- or the scheduler thread has the rid.  *)
PeriodTimerKept == attached \subseteq periodTimer \cup ToSet(disp.stack)

(* sys_criticality is that of the top of the criticality stack, through    *)
(* zero-slack enforcement, departures and jobs that overrun in critical    *)
(* mode.                                                                   *)
SysCritIsTop ==
  sysCrit = IF critq.head \in Rid THEN spec[critq.head].crit ELSE 0

StopPending(r) == r \in disp.stop /\ r \in ToSet(disp.stack)

(* Every pass of the scheduler thread over its stack ends, although        *)
(* stopping a job may ask for the next one to be stopped; so does every    *)
(* system call's pass over crit_blockq.                                    *)
LockReleased == (lock # Free) ~> (lock = Free)

(* A request to stop a job is carried out once the scheduler thread has    *)
(* been woken for it.                                                      *)
RequestServed ==
  \A r \in Rid :
    (StopPending(r) /\ disp.sched \in {"runnable", "running"}) ~> (r \notin disp.stop)

-----------------------------------------------------------------------------
(* Queues, timers and requests to stop seen as fixed-priority scheduling. *)
FixedPriority ==
  INSTANCE ZsrmFixedPriority
    WITH Jobs    <- Rid,
         Nobody  <- Nil,
         active  <- ToSet(disp.ready),
         running <- IF disp.ready = <<>> THEN Nil ELSE Head(disp.ready),
         counted <- disp.enf,
         excused <- disp.stop \cup (Rid \ alive),
         period  <- Period

(* The scheduler implements ZsrmFixedPriority: whatever the timer          *)
(* handlers, system calls and the scheduler thread do to the ready queue,  *)
(* jobs come and go one at a time, the shortest period runs, and each      *)
(* switch to a job arms its enforcement timer or asks it to stop.          *)
ImplementsFixedPriority == FixedPriority!Spec

-----------------------------------------------------------------------------
(* What the source says and the code does not do.                          *)

(* zsrm2, zsrm6: "the active job must have a timer set to enforce its      *)
(* execution time" (or be on its way to be stopped, or be dead).           *)
ActiveJobIsTimed ==
  disp.ready # <<>> =>
    \/ Head(disp.ready) \in disp.enf
    \/ StopPending(Head(disp.ready))
    \/ Head(disp.ready) \notin Live

(* wait_for_next_period, of the reserves it takes out of crit_blockq: "do  *)
(* not wake them up -- let their period timers wake them up".              *)
PeriodTimersWake ==
  \A r \in Rid : (r \in Live \ awake) ~> (r \notin Live \ awake)

=============================================================================
