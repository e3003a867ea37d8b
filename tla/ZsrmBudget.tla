----------------------------- MODULE ZsrmBudget -----------------------------
(***************************************************************************)
(* Budgets in time: what ZsrmDispatch leaves to chance (has the running    *)
(* job used up its budget, is its enforcement deferred) follows here from  *)
(* the tick counters of the reserves and from the hypervisor's log of its  *)
(* hypertasks.  Timers expire on time, the scheduler thread runs at once,  *)
(* and what the kernel does takes no time; the reserves are of one         *)
(* criticality and their tasks live.                                       *)
(***************************************************************************)
EXTENDS ZsrmQueues, FiniteSets

CONSTANTS
  Rid,     \* the reserves
  Budget,  \* exectime_ticks
  Period,  \* period_ticks
  Prio,    \* priority, as it is once all reserves are attached
  SPAN,    \* values of a tick counter, 2^64 in the code
  HORIZON  \* the last tick that is looked at

ASSUME BudgetAssumption ==
  /\ Budget \in [Rid -> Nat \ {0}] /\ Period \in [Rid -> Nat \ {0}]
  /\ Prio \in [Rid -> Nat]
  /\ SPAN \in Nat \ {0} /\ HORIZON \in Nat

VARIABLES
  now,      \* the tick counter
  ready,    \* the list at readyq
  job,      \* the counters of a reserve
  timer,    \* when the enforcement timer expires, or Never
  release,  \* when the period timer expires, or Never
  stack,    \* reschedule_stack
  log,      \* the ticks in which hypertasks ran, and their handles
  real,     \* real_exectime_ns: how long the task of a reserve ran ...
  held      \* ... and how long the processor was its own, hypertasks
            \* included, since the start of its period

vars == <<now, ready, job, timer, release, stack, log, real, held>>

Never == -1
Word(n) == n % SPAN

NewJob == [current |-> 0, start |-> 0, activation |-> 0, preemption |-> 0,
           started |-> 0, enforced |-> FALSE, stop |-> FALSE]

Init ==
  /\ now = 0
  /\ ready = <<>>
  /\ job = [r \in Rid |-> NewJob]
  /\ timer = [r \in Rid |-> Never] /\ release = [r \in Rid |-> Never]
  /\ stack = <<>>
  /\ log = {}
  /\ real = [r \in Rid |-> 0] /\ held = [r \in Rid |-> 0]

-----------------------------------------------------------------------------
(* The dispatcher's functions map the variables it may change.             *)
State == [ready |-> ready, job |-> job, timer |-> timer, stack |-> stack]

Becomes(b) ==
  ready' = b.ready /\ job' = b.job /\ timer' = b.timer /\ stack' = b.stack

(* What start_enforcement_timer finds left of the budget, 0 if it is spent *)
(* (the difference is one of unsigned words).                              *)
Left(j, r) ==
  LET used == Word(j.current - j.preemption)
  IN  IF Budget[r] > used THEN Budget[r] - used ELSE 0

(* calculate_hypertask_preemption_time_ticks over the log, which has just  *)
(* been copied to trace_table: the time that hypertasks took since the     *)
(* job was activated.  Those whose handle in the hypervisor is the number  *)
(* of the reserve are left out, whoever they belong to.                    *)
PreemptionTime(r, activation) ==
  Cardinality({e \in log : e.rid # r /\ activation <= e.tick /\ e.tick < now})

(* budget_enforcement: more preemption than is known defers the timer, if  *)
(* that leaves anything of the budget.                                     *)
BudgetEnforcement(b, r, request_stop) ==
  LET j    == b.job[r]
      time == PreemptionTime(r, j.activation)
      k    == IF j.preemption < time
              THEN [j EXCEPT !.preemption = time, !.start = now,
                             !.current = Word(@ + now - j.start)]
              ELSE j
  IN  IF j.preemption < time /\ Left(k, r) > 0
      THEN [b EXCEPT !.job[r] = k, !.timer[r] = now + Left(k, r)]
      ELSE IF request_stop
      THEN [b EXCEPT !.job[r] = [k EXCEPT !.stop = TRUE], !.stack = Append(@, r)]
      ELSE [b EXCEPT !.job[r] = k]

(* Faulty: the clock of the job goes on from where it was stopped. *)
RunHeadLate(b) ==
  IF b.ready = <<>> THEN b
  ELSE LET h == Head(b.ready)
       IN  IF Left(b.job[h], h) > 0
           THEN [b EXCEPT !.timer[h] = now + Left(b.job[h], h)]
           ELSE BudgetEnforcement(b, h, TRUE)

(* The end of start and stop: the accounting of the job at the head begins *)
(* and its enforcement timer is set.                                       *)
RunHead(b) ==
  IF b.ready = <<>> THEN b
  ELSE LET h == Head(b.ready)
           c == [b EXCEPT !.job[h].start = now]
       IN  IF Left(c.job[h], h) > 0
           THEN [c EXCEPT !.timer[h] = now + Left(c.job[h], h)]
           ELSE BudgetEnforcement(c, h, TRUE)

(* Faulty: the time the head ran is forgotten. *)
SuspendUncharged(b) == [b EXCEPT !.timer[Head(b.ready)] = Never]

(* The time the head ran is accounted and its timer cancelled. *)
Suspend(b) ==
  LET h == Head(b.ready)
  IN  [b EXCEPT !.job[h].current = Word(@ + now - b.job[h].start), !.timer[h] = Never]

Start(b, r) ==
  IF r \in ToSet(b.ready) THEN b
  ELSE IF b.ready = <<>> THEN RunHead([b EXCEPT !.ready = <<r>>])
  ELSE RunHead([Suspend(b) EXCEPT !.ready = AddReadyq(@, r, Prio)])

Stop(b, r) ==
  IF r \notin ToSet(b.ready) THEN b
  ELSE IF r = Head(b.ready) THEN RunHead([Suspend(b) EXCEPT !.ready = Tail(@)])
  ELSE [b EXCEPT !.ready = Unlink(@, r)]

-----------------------------------------------------------------------------
(* attach_reserve *)
Attach(r) ==
  /\ stack = <<>> /\ release[r] = Never /\ now < HORIZON
  /\ release' = [release EXCEPT ![r] = now + Period[r]]
  /\ Becomes(Start([State EXCEPT !.job[r] = [NewJob EXCEPT !.activation = now,
                                                          !.started = 1]], r))
  /\ UNCHANGED <<now, log, real, held>>

(* start_of_period *)
PeriodTimer(r) ==
  LET j  == [job[r] EXCEPT !.activation = now, !.preemption = 0, !.started = @ + 1]
      b  == [State EXCEPT !.job[r] = j]
      b1 == IF j.started > 1
            THEN LET c == Stop(BudgetEnforcement([b EXCEPT !.timer[r] = Never],
                                                 r, FALSE), r)
                 IN  [c EXCEPT !.job[r].started = @ - 1]
            ELSE b
      b2 == [b1 EXCEPT !.job[r] = [b1.job[r] EXCEPT !.current = 0, !.enforced = FALSE]]
  IN  /\ stack = <<>> /\ release[r] = now
      /\ release' = [release EXCEPT ![r] = now + Period[r]]
      /\ Becomes(Start(b2, r))
      /\ real' = [real EXCEPT ![r] = 0]
      /\ held' = [held EXCEPT ![r] = 0]
      /\ UNCHANGED <<now, log>>

EnforcementTimer(r) ==
  /\ stack = <<>> /\ timer[r] = now
  /\ Becomes(BudgetEnforcement([State EXCEPT !.timer[r] = Never], r, TRUE))
  /\ UNCHANGED <<now, release, log, real, held>>

(* wait_for_next_period, by the running task *)
WaitForNextPeriod(r) ==
  /\ stack = <<>> /\ ready # <<>> /\ r = Head(ready)
  /\ Becomes([Stop(State, r) EXCEPT !.job[r].started = @ - 1])
  /\ UNCHANGED <<now, release, log, real, held>>

(* scheduler_task: the last rid that was pushed; a stop of a job that was  *)
(* stopped already is refused, and a rid without a request is started.     *)
SchedulerPops ==
  /\ stack # <<>>
  /\ LET r == Last(stack)
         b == [State EXCEPT !.stack = Front(@), !.job[r].stop = FALSE]
     IN  Becomes(IF ~ job[r].stop THEN Start(b, r)
                 ELSE IF job[r].enforced THEN b
                 ELSE Stop([b EXCEPT !.job[r] = [b.job[r] EXCEPT !.enforced = TRUE,
                                                                !.started = @ - 1]], r))
  /\ UNCHANGED <<now, release, log, real, held>>

(* Nothing is due at this tick any more. *)
Settled ==
  stack = <<>> /\ \A r \in Rid : timer[r] # now /\ release[r] # now

(* One tick in which the task at the head runs, or the processor idles ... *)
TaskRuns ==
  /\ Settled /\ now < HORIZON
  /\ now' = now + 1
  /\ real' = [r \in Rid |-> IF ready # <<>> /\ r = Head(ready) THEN real[r] + 1 ELSE real[r]]
  /\ held' = [r \in Rid |-> IF ready # <<>> /\ r = Head(ready) THEN held[r] + 1 ELSE held[r]]
  /\ UNCHANGED <<ready, job, timer, release, stack, log>>

(* ... and one in which the hypertask with the handle h runs.              *)
HypertaskRuns(h) ==
  /\ Settled /\ now < HORIZON
  /\ now' = now + 1
  /\ log' = log \cup {[rid |-> h, tick |-> now]}
  /\ held' = [r \in Rid |-> IF ready # <<>> /\ r = Head(ready) THEN held[r] + 1 ELSE held[r]]
  /\ UNCHANGED <<ready, job, timer, release, stack, real>>

Next ==
  \/ \E r \in Rid :
       \/ Attach(r) \/ PeriodTimer(r) \/ EnforcementTimer(r)
       \/ WaitForNextPeriod(r) \/ HypertaskRuns(r)
  \/ SchedulerPops
  \/ TaskRuns

Spec == Init /\ [][Next]_vars

-----------------------------------------------------------------------------
Running(r) == ready # <<>> /\ r = Head(ready)

(* zsrm1, made an equation: every tick the processor belonged to a reserve *)
(* since the start of its period is charged to it, and no other, although  *)
(* the charging is spread over start, stop and the deferral of budget      *)
(* enforcement, with counters that are read before the head changes.       *)
EveryTickCharged ==
  \A r \in Rid : held[r] = Word(job[r].current
                                + (IF Running(r) THEN now - job[r].start ELSE 0))

(* A job keeps the processor for its budget, and for as long again as      *)
(* hypertasks ran since it was activated, whatever preempts it.            *)
HeldWithinBudget ==
  \A r \in Rid : held[r] <= Budget[r] + PreemptionTime(r, job[r].activation)

(* A job is asked to stop only when the processor was its own for all of   *)
(* its budget in this period.                                              *)
BudgetGranted == \A r \in Rid : job[r].stop => held[r] >= Budget[r]

(* zsrm3: "current_exec_time <= exec_time", and budget_enforcement: "double *)
(* check if we were preempted by a hypertask": what a task itself runs in a *)
(* period stays within its budget.                                          *)
RunsWithinBudget == \A r \in Rid : real[r] <= Budget[r]

=============================================================================
