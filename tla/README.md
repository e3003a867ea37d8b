# Verification of the ZSRMV scheduler

TLA+ models, TLC model checking and TLAPS proofs for the mixed-trust zero-slack
rate-monotonic scheduler (ZSRMV): the Linux kernel module `src/src/zsrmv.c`, the
user library `src/lib/libzsv.c` and what goes with them. Line numbers below are
those of `src/src/zsrmv.c` unless a file is named.

## 1. The system

Tasks ask the kernel module for *reserves*: a period, a budget, a priority, a
criticality and a zero-slack instant. The module orders jobs by rate-monotonic
priority in a ready queue of its own, counts the running job's budget with a high
resolution timer, stops jobs that overrun, and raises the system's criticality at
a zero-slack instant, which stops less critical jobs. A hypervisor (not in the
repository) runs *hypertasks* beside Linux: if a job does not send its command to
the actuator in time, the reserve's hypertask sends a safe default.

### 1.1 Components

| component | state | operations | source |
|---|---|---|---|
| Ready queue dispatcher | `readyq` and `next`; per reserve the enforcement and zero-slack timer, execution counters, `request_stop`, `enforced` | `start`, `stop`, `start_enforcement_timer`, `budget_enforcement`, `push_to_reschedule` | 1339-1422, 1983-2340, 2879-2906 |
| RM queue and priorities | `rm_head`, `rm_next`, `rm_queue_size`, `priority` | `add_rm_queue`, `del_rm_queue`, `calculate_rm_priorities` | 941-1069 |
| Reserve table | `reserve_table[]`: `pid` (-1 free, 0 created, >0 attached) and the parameters | `getreserve`, `init_reserve`, `attach_reserve`, `delete_reserve` | 1754-1948, 2707-2799 |
| Timer handlers | armed `hrtimer`s | `kernel_timer_handler`, `timer_handler`, `start_of_period`, `zs_enforcement` | 1459-1750, 2820-2875 |
| Zero-slack criticality | `sys_criticality`, `critical_reservesq`, `crit_blockq`, `in_critical_mode` | `add_crit_stack`, `add_crit_blocked`, the unwinding in `wait_for_next_period` and `end_of_period` | 862-928, 1623-1680, 2380-2440 |
| Period and release protocol | `start_period`, `num_period_wakeups`, `non_periodic_wait`, `end_of_period_marked`, `num_wait_release` | `wait_for_next_period`, `end_of_period`, `wait_for_next_release` | 2345-2602 |
| Scheduler thread | `reschedule_stack[100]`, `top`, the thread's state | `scheduler_task` | 2879-2999 |
| Activator thread | `activate_stack`, Linux priorities and CPU affinities | `activator_task`, `set_rm_priorities` | 1079-1130, 3000-3120 |
| Mixed-trust deadlines | `current_job_deadline_ticks`, `job_completed`, `hypertask_active`, `hyptask_handle` | `create_hypertask`, `send` with `finished`, parts of `start_of_period`, `wait_for_next_period` and `delete_reserve` | 1459-1490, 3036-3065, 3696-3716 |
| Captured enforcement signal | `enforcement_signal_captured` | `capture_enforcement_signal`, part of `budget_enforcement` | 1203-1230, 1394-1410 |
| User library | ring of enforcement signal handlers and its mutex | registration, lookup, `zsv_user_enforcement_handler_wrapper`, one wrapper per system call | `src/lib/libzsv.c` |
| Time and budget accounting | tick counters | the accounting in `start` and `stop`, `ns2ticks`, `ticks2ns` | 1983-2340, 3124-3200 |
| Trace buffer | `trace_table`, `trace_index` | `add_trace_record`, `calculate_hypertask_preemption_time_ticks` | 740-800, 1252-1337 |
| System call gate | `zsrmsem`, `zsrmlock` | `zsrm_write`, `receive` | 3833-4128, 3724-3762 |
| Serial receive side | receiving ring, `serial_buffer_sem`, wait queue | `serial_receiving_buffer_write`, `serial_receiving_buffer_read`, `serial_receiver_task`, `receive` | 3381-3561, 3724-3762 |
| Serial send side | sending ring, `serial_sending_buffer_sem` | `serial_sending_buffer_write`, `serial_sending_buffer_read`, `serial_sending_task`, `send` | 3564-3668, 3693-3722 |
| Admission test | none | response time and zero-slack instants | `src/src/admission.c` |
| Hypercall clients | one page per call | one function per hypercall | `src/src/*_kmodlib.c` |

### 1.2 How they interact

Everything that touches the scheduler's state runs under the spin lock `zsrmlock`
with interrupts off: system calls take it after the semaphore `zsrmsem`, timer
handlers try it up to 1 000 000 times and then give up without programming their
timer again (2834), the scheduler thread takes it for one pass over its stack. The
activator thread reads the reserve table *without* it (3078-3107).

Handlers run in interrupt context and may not stop a task themselves. They push
the reserve id on `reschedule_stack`, set `request_stop`, and wake the scheduler
thread, which pops the ids and stops, starts or deletes. Between the request and
its execution anything may happen: the job departs, its next period starts, its
task dies, its slot is reused, its id is pushed again. `attach_reserve` pushes every
attached reserve on `activate_stack` in the same manner, for the activator thread
to hand the new priorities to Linux.

Tasks call in through `write()` on the device. Their sleep is cooperative: the
module sets the task's state and the call ends in `schedule()`.

A hypertask is created at the attach, told of each guest job at its period (1476),
disabled when the job's command was accepted in time or the job has none, and
deleted with the reserve. Hypertasks take processor time from Linux; when a budget
is used up the module reads the hypervisor's log and puts the enforcement off by
what they took (1348-1375).

The serial driver has a thread on each side of each ring: callers fill the
sending ring and the sender thread empties it; the receiver thread polls the
hypervisor and fills the receiving ring, which callers empty. `receive` gives up
both the lock and the gate while it waits; `send` keeps both.

### 1.3 What is hard here

* Four kinds of actors (timer handlers, system calls, scheduler thread, task
  death) in any order, each able to move the same job; a fifth, the activator,
  that reads what they change without the lock.
* Requests that are carried out later, on stacks of limited size whose
  overflow nobody notices (2883, 3007).
* Linked lists (`readyq`, `rm_head`, `critical_reservesq`, `crit_blockq`) whose
  links are in the reserves, reserves that are in several lists at once, and slots
  that are reused while still linked.
* Priorities that are renumbered while jobs are queued by the old ones.
* Deadlines kept twice, in the kernel and in the hypervisor, and cancelled by
  calls that may fail.
* Unsigned tick counters, read and charged in different functions.
* Threads that test, unlock and then go to sleep; signal handlers that read a
  list before they lock it.
* Semaphores whose interrupted `down` is ignored and whose `up` is not.

The full list, line by line, is `hazards` in `PROJECT.json`.

### 1.4 What makes each component correct

* *Dispatcher*: the queue is in order of priority; a budget is counted exactly for
  the running job; queued jobs have runnable tasks and runnable tasks queued jobs.
* *RM queue*: in order of period, each slot in use once; the ready queue agrees.
* *Reserve table*: nothing of a deleted reserve survives; a dead task's reserve is
  deleted in the end.
* *Criticality*: `sys_criticality` is that of the most critical reserve in critical
  mode; no less critical job runs; the less critical tasks come back.
* *Protocol*: one start per period; counters stay in their range.
* *Scheduler thread*: each request is carried out, each pass ends.
* *Activator*: Linux runs the job the module accounts for.
* *Mixed trust*: every deadline is answered, by the job or by the default, and not
  by the default after the job; no hypertask outlives its reserve.
* *Captured signal*: a handler gets its own, complete record.
* *Accounting*: every tick of the processor is charged once, to who had it.
* *Gate*: one system call at a time.
* *Serial rings*: what comes out is what went in, in order; nobody sleeps on data.

## 2. The modules

| module | models | uses |
|---|---|---|
| `ZsrmQueues` | `readyq` and `rm_head` as sequences; the insertions, removals and the renumbering as operators | |
| `ZsrmCriticality` | the two criticality lists as a head and a table of next pointers, as the code has them | |
| `ZsrmDispatch` | `start`, `stop`, `budget_enforcement`, `delete_reserve`'s part, `push_to_reschedule`, as functions on a dispatcher record | the two above |
| `ZsrmScheduler` | the state machine: reserve table, timers, system calls, criticality, scheduler thread; its properties | `ZsrmDispatch` |
| `ZsrmFixedPriority` | what the scheduler promises: fixed-priority scheduling with enforcement | |
| `ZsrmActivator` | the activator thread, composed with the scheduler | `ZsrmScheduler` |
| `ZsrmHypertask` | deadlines, hypertasks and actuation, composed with the scheduler | `ZsrmScheduler` |
| `ZsrmBudget` | the tick counters and the hypervisor's log, in discrete time | `ZsrmQueues` |
| `ZsrmHandlers` | the captured enforcement signal and the library's table of handlers | |
| `ZsrmSerial` | both rings, their threads, `send`, `receive` and the gate | |
| `MCScheduler`, `MCActivator`, `MCHypertask`, `MCBudget`, `MCHandlers`, `MCSerial` | instances for TLC | the module of the name |
| `ZsrmQueueLemmas` | lemmas about the operators of `ZsrmQueues` | `ZsrmQueues` |
| `ZsrmSchedulerProofs` | the invariant of the scheduler and what follows from it | `ZsrmScheduler`, `ZsrmQueueLemmas` |
| `ZsrmStackProofs` | the reschedule stack, the criticality stack and all types | `ZsrmSchedulerProofs` |
| `ZsrmJobsProofs` | which job runs: the refinement, tasks and jobs, Linux priorities | `ZsrmActivator`, `ZsrmStackProofs` |
| `ZsrmHypertaskProofs` | hypertasks and commands | `ZsrmHypertask`, `ZsrmSchedulerProofs` |
| `ZsrmBudgetProofs`, `ZsrmSerialProofs`, `ZsrmHandlersProofs` | theorems about budgets, the serial driver and captured signals | the module of the name |

Operators whose comment begins with "Faulty:" are deliberately wrong variants of
the definition below them. No specification uses them: they are put in its place
to see that a property notices.

### 2.1 The scheduler

`readyq` and `rm_head` are sequences, because every caller checks that a reserve
is not linked yet. The two criticality lists are not: nothing keeps a reserve from
being added while it is still linked, which truncates the list or ties a cycle, so
`ZsrmCriticality` keeps `head` and `next`, and `Walk` counts iterations as
the code does and gives up where the code gives up.

A *handler is one action*. What it calls is composed inside the action as functions
on the record `disp` (for instance `PeriodTimer` is `kernel_timer_handler`,
`timer_handler`, `start_of_period`, `budget_enforcement`, `stop`,
`reset_exectime_counters` and `start`). Two loops act on several reserves and hold
the lock meanwhile; they are several actions with `lock` held: the scheduler
thread (`SchedulerEnters`, `SchedulerPops`, `SchedulerUnlocks`, and after the
lock is released `SchedulerSleeps`), and the loop over `crit_blockq` (`Departure`,
`Unblock`, `ReturnFromCall`). Nothing else runs while the lock is held, except that
a timer handler may give up (`TimerAborts`), a task may die (`TaskExit`), and the
scheduler thread may go to sleep.

| code | model |
|---|---|
| `pid == 0`, `pid > 0`, `pid == -1` | `created`, `attached`, neither |
| `gettask(pid) != NULL`; the task's state | `alive`; `awake` |
| `readyq`, armed timers, `request_stop`, `reschedule_stack` | fields of `disp`, and `periodTimer` |
| outcome of comparing counters with the budget | `spent`, chosen by `late` where time is accounted |
| `hypertask preemption` puts enforcement off | `defer` |
| `num_period_wakeups` (unsigned) | `wakeups`, modulo `UINT_SPAN` |
| `start_period` | `startPeriod`, not told apart below `-START_PERIOD_DEPTH` |

A period timer's handler looks for the task twice: `timer_handler` asks the scheduler
thread to delete the reserve of a task that is gone (`TimerOfDeadTask`), and
`start_of_period` looks again (1494) and then calls `delete_reserve` itself, from the
handler of a timer that `delete_reserve` cancels (1917) and `kernel_timer_handler`
programs again (2855-2860), for a slot that is free by then. `PeriodTimerOfDying` is
this handler with the task's end between the two looks: everything of the reserve goes
but its period timer. The next expiry finds no task and, since the slot is free, only
reports; if the slot is used again before, the new reserve's attach programs the same
timer. Two things are assumed: that `hrtimer_cancel` returns there, as the code
after it takes it to (Linux's would wait for the handler it is called from, with
`zsrmlock` held), and that initialising the timer again (`hrtimer_init` in the attach)
does no harm while it is armed. `exit` in `Features` lets it happen.

*Time is abstracted.* A timer that is armed may expire at any later step, in any
order with others. This is what the code has to live with for the zero-slack timer
in any case: `CREATE_RSV` computes its instant from a variable that is never
initialised (3995). When the running job is suspended, either outcome of its
budget comparison is possible. `ZsrmBudget` replaces the choice by arithmetic.

*Left out of this model:* attaching an attached reserve again, the start timer of
the secure bootstrap (compiled out, 69), and a captured enforcement signal (a job
is stopped, as without a handler). One task has one reserve. System calls are
serialised by the gate; what breaks the gate is the subject of `ZsrmSerial`.

`ZsrmFixedPriority` has no queue, timer, stack or lock: jobs become active and end
one at a time, the one that runs has the shortest period, only an arrival preempts
it, and a job that gets the processor is counted from then on unless it has been
asked to stop or is dead. `FixedPriority` in `ZsrmScheduler` instantiates it: the
active jobs are the members of the ready queue, the running one is its head, the
counted ones have an enforcement timer. `ImplementsFixedPriority` is a property of
two runs and a theorem.

### 2.2 The activator

`attach_reserve` pushes every attached reserve on `activate_stack` and wakes the
activator, which pops a rid, reads the reserve's priority, looks for its task, and
calls `sched_setscheduler`. It does this without `zsrmlock`, so each of these is a
step (`ActivatorPops`, `ActivatorFindsTask`, `ActivatorSetsPriority`), and anything
the scheduler does falls in between; `current` remembers whether the `task` pointer
still is the task of the slot. `linux` is the priority Linux knows. The composition
joins the steps of the scheduler with their effect on Linux priorities:
`AttachAndActivate`, `DeleteAndDemote`, `SchedulerPopsRid`; `DeleteAndDemote` is
`DELETE_RSV` and the deletion by `start_of_period`; `LeftTask` is the task
`delete_reserve` demotes, which is the wrong one if the reserve of a dead task was
at the head (1941). *Left out:* binding the task to CPU 0 (there is one processor
here) and, as in 2.3, timer handlers that give up. `activation` and `actuation` have no
task that ends; what the compositions do when one ends in its own timer's handler
(the `dying` case of `DeleteAndDemote`, `DyingGuestAtPeriod`) is covered by the
theorems about them (4.1, 4.2) and not by these runs.

### 2.3 Hypertasks

`ZsrmHypertask` adds to the scheduler the kernel's copy of the deadline (`missed`:
it is over), `job_completed`, `hypertask_active` and `hyptask_handle`, the
hypervisor's hypertasks and which of them are armed, and what the actuator got
(`commands`). The hypervisor is not in the repository: `hyp` is what the calls in
`hypmtscheduler_kmodlib.c` require of it. A send that finishes the job takes the
time first and waits for the ring's semaphore with the spin lock held, so it is two
steps (`SendFinishEnters`, `SendFinish`) with `sending` held in between: the
deadline may pass there, and nothing else of the scheduler runs. A hypertask acts
no sooner than the kernel's deadline is over, since the hypervisor counts from a
call made after the deadline was computed. `Mishaps` says which hypercalls may fail
and whether the ring may be full.

### 2.4 Captured signals

`ZsrmHandlers` is the ring of handler records of `libzsv.c` for a process of several
tasks. A lookup reads the head, *then* locks, and then walks to the record before
the head there is by then; registration links a record under the mutex and fills it
in after. Each is a step, for the task's own thread of control and for its signal
handler, which interrupts it (`Runs`). A task may register again; its record is then
found and filled once more. A signal can now come while its own task holds the mutex,
which is not recursive: the task then waits for itself, in the code and in the model
(`WaitsForItself`). From the kernel it has
`capture_enforcement_signal` (`Captures`) and the signal `budget_enforcement` sends
(`SendsSignal`). `malloc`, `sigaction` and the call may fail. *Left out:* what the
user's handler does, `zsv_stop_enforcement_handler`, and what the handler's own
system call does to the scheduler.

### 2.5 Budgets

`ZsrmBudget` follows what 2.1 leaves to chance. Time is discrete; what the kernel
does takes none; timers expire in their tick and the scheduler thread runs at once
(`Settled` must hold for time to pass). The counters are those of the code:
`current` (exectime), `start`, `preemption`, `activation`, with unsigned
differences modulo `SPAN`; `Left` is the test in `start_enforcement_timer`,
`BudgetEnforcement` the reading of the hypervisor's log and the deferral. In each
tick the head's task runs, or a hypertask does, which goes into `log`. Two ghost
variables count what happened really: `held`, the ticks the processor belonged to
a job, hypertasks included, and `real`, those in which its task ran. *Left out:*
criticality, deaths and deletions (2.1 has them), the limit of the trace table and the
record past the last one that the sum reads when the log ends with the beginning of a
hypertask (1316), the conversion of nanoseconds to ticks. A hypertask in `log` has its
handle in the hypervisor, as in the code (1361), and `PreemptionTime` compares it with
the number of the reserve, as the code does (1314): what is left out of the sum is the
hypertask whose handle happens to be that number.

### 2.6 The serial driver

`ZsrmSerial` is as fine as the interleaving needs: a byte is read from the buffer
in one step and the index moves in another where two threads may do it, each
semaphore operation is a step, the test of an empty ring and the sleep that
follows are different steps. Bytes carry their number in the stream, modulo twice
the ring's size, so that `copied.last = copied.count` says that the bytes which
came out are the bytes that went in, in order, none lost and none twice; data
dropped at a full ring is never numbered.

An interrupted `down_interruptible` goes on without the semaphore, except in
`zsrm_write`. A task is interrupted only when it would have to wait and has a
signal pending; kernel threads get no signals. How an application uses the driver
(who reads, who gets signals) is fixed by `usage`. The code itself says that
several threads need more care (3740), so two readers are combined with no signals
and signals with one reader. *Left out:* the hypervisor's side, hardware flow
control, and the weak memory order of the processor. `SEND_SERIAL_FINISH` is in 2.3.

## 3. What is checked

### 3.1 Runs that pass

| run | instance | question |
|---|---|---|
| `dispatch` | 3 reserves, 2 periods, no criticality | the ready queue under every interleaving of calls, timers and the scheduler thread; the refinement |
| `lifecycle` | 2 reserves with zero slack, two criticalities, tasks die, reserves are deleted, enforcement is put off | both queues and all timers while slots are deleted, also by a timer's own handler, and reused; the refinement |
| `waiting` | 2 reserves, `END_PERIOD` and `WAIT_RELEASE` in any order, a counter of 4 values | which jobs are queued asleep outside the intended protocol, with counters that wrap and are cut; the criticality and the stack there |
| `serving` | 2 reserves of mixed criticality, handlers give up, the stack may overflow | liveness of the scheduler thread and of the unwinding, `sys_criticality` |
| `budget` | 2 reserves with budgets 1 and 2 and periods 3 and 5, 8 ticks, any hypertasks | every tick is charged, nobody holds the processor too long or too short |
| `activation` | 2 reserves, the second of shorter period, an activation stack of 3 | Linux runs the job at the head of the ready queue; no timer, period timers included, outlives its slot |
| `actuation` | 2 reserves with hypertasks, 2 handles | every deadline is answered, once |
| `handlers` | 2 tasks that register up to twice each, any signals | the table, the records found, the end of every handler |
| `serial` | 2 tasks, rings of 3 and 2, calls of up to 2 bytes, up to 2 interrupted waits | the streams, the wake-up of readers, the balance of the semaphores |

*Scheduler.* `ReadySorted` and `RmSorted` are the source's own `fp31` and `fp32`
(440-443), the former exactly where the source gives up on it ("SC: TBD. this is
challenging because the priorities are changed globally", 1034). `RateMonotonic`
ties the ready queue to periods. `OnlyHeadTimed`, `TimersOwned` and
`PeriodTimerKept` tie timers to queue, table and stack (`TimersOwned` has the period
timers only where no task ends: `PeriodTimerOfDying` leaves one behind); `QueuedAreAwake`
and `AwakeAreQueued` tie tasks to jobs; `QueuedSleepersAreWoken` is what is left of them
when calls come out of order: a job that is queued asleep waits for a period, or for a
release that is noted, so that its next period wakes it (if its criticality lets that
begin); `StopPendingOnStack` ties flags to the stack;
`SysCritIsTop` ties a variable to the top of a linked list that may be damaged;
`LockReleased` and `RequestServed` say that loops under the lock end and that a
request is carried out once the thread has been woken. `TypeOK` includes the range
of `start_period` (it never exceeds 1) and of the unsigned counters.

*Beside it.* `HeadRuns`: once the activator is done, the task at the head has the
highest Linux priority of all that may run. `HypertasksOwned`: no hypertask
outlives its reserve, none is shared. `EveryDeadlineAnswered` and
`NoDefaultAfterCommand` are the two halves of the comment on `send`: a default if
the job was late, none if it was not. `TableIsRing`, `RightRecord`: a handler finds
its own record, complete if its task registered once. `MissedOnlyIfOvertaken`: it finds none only if another
task replaced the head between its reading and its locking. `HandlersEnd`: nobody waits
for the mutex for ever unless some task waits for itself.

*Budgets.* `EveryTickCharged` is an equation between `held` and the counters in
every state. `HeldWithinBudget` and `BudgetGranted` bound it from both sides.

*Serial.* `ReadersGetTheStream`, `WireGetsTheStream`, `ReadersAreWoken`; `TypeOK`
includes the balance of the semaphores.

### 3.2 Bounds

* `MAX_RESERVES` 2 or 3: a running job, a job behind it, and one being inserted.
  Two slots with reuse show everything about criticality that pairs can do; three
  criticality levels at once are not covered.
* `STACK_SIZE` 2. The code has 100 entries and a thread of higher priority than
  every task to empty them, so runs about the stack's content have the constraint
  `StackHasRoom` (states with a full stack are not extended). It matters:
  `StopPendingOnStack` is *not* true of a stack that overflows, since
  `request_stop` stays set when the push is refused. `serving` does not have it,
  so that its properties cover the overflow.
* `CriticalityIsSlot`: slot 0 has the lower criticality and slot 1 the higher;
  `LowThenHigh` is both.
* `START_PERIOD_DEPTH` 0, or 1 in `dispatch`: lower values are merged, and counting up from a
  merged value may or may not leave it, so no behaviour is lost.
* `UINT_SPAN` 1 removes `num_period_wakeups` where only `WAIT_RELEASE` would read
  it; with 4 the values are 0, 1, one that is cut (1574-1576), and `UINT_MAX`.
* `Features` switches what a run adds: `delete`, `exit`, `nonperiodic`,
  `unpaired` (calls out of order), `hypertask` (enforcement put off), `lost`
  (handlers that give up).
* `RoomAndShorterSecond` of `activation`: the second slot has the shorter period, so
  that its attachment renumbers the first, and neither stack is full (the code has
  room for as many rids as there are reserves). A stack of 3 holds what the
  attachment of both reserves pushes.
* `HORIZON` 8: two periods of 3, one of 5, with an overrun and deferrals; `SPAN`
  64 is above it.
* Two tasks that register twice in `handlers`: one looks up while the other replaces
  the head, is between linking and filling, or registers again under its own signals;
  a lookup that is overtaken makes a second record of a task.
* Rings of 3 and 2 with calls of up to 2 bytes: empty, part full, full, wrap-around
  and calls that move less than they were asked to.

Some properties are claimed only where they hold, and the parameter that breaks
them is there to be tried:

| property | not with | because |
|---|---|---|
| `QueuedAreAwake` | `nonperiodic` | `END_PERIOD` jobs are taken from `crit_blockq`, resumed, and then go to sleep while queued; `QueuedSleepersAreWoken` says what holds then |
| `QueuedAreAwake` | a third reserve, all with zero-slack instants | a second zero-slack instant before the scheduler thread has run puts a job into `crit_blockq` again; behind a more critical one it is linked to itself, never leaves the list, and its own next call resumes it before it goes to sleep (`zs_enforcement` looks at `readyq` only) |
| `TimersOwned`, for period timers | `exit` | a task that ends in its own period timer's handler leaves the timer armed for the free slot (2.1) |
| `SysCritIsTop` | `delete` | `delete_reserve` leaves the reserve on the criticality stack, and the slot's new owner inherits the place |
| `HeadRuns` | `exit` | the wrong task is demoted (1941) |
| `HeadRuns` | a full activation stack | the push is refused, and the task keeps its priority |
| `EveryDeadlineAnswered` | mishap `full` | the hypertask is disabled although the output did not fit |
| `NoDefaultAfterCommand` | mishap `create` | the handle of a reserve without a hypertask is another's |
| `HypertasksOwned` | mishap `start` | a hypertask that exists but is not active is never deleted |
| `HandlersEnd`, without `SomeoneWaitsForItself` | a second registration | a signal comes while its own task holds `handler_table_lock` (`libzsv.c` 54, 85), which everybody then waits for |
| `RightRecord`, complete | a second registration | a task may have two records after a lookup that was overtaken, and a signal find the one that is not filled yet |

Deadlock is not checked in `serving`, where handlers that gave up may have lost
every timer; in `activation` and `actuation`, where reserves may all be deleted or
blocked with the stack full; in `budget`, which ends at its horizon; and in
`handlers`, where all registrations may be done.

### 3.3 Fairness

`SchedulerFairness` is all that `serving` assumes: whoever holds `zsrmlock` runs
with interrupts off and so goes on (weak fairness of its steps), and the scheduler
thread, with a priority above every task it schedules, gets the lock if it is
available again and again (strong fairness). Nothing is assumed of tasks or timers.
`starved_low_crit` assumes more, since it shows that not even that helps: its
`FairSpec` adds that armed timers expire and jobs end. In `ZsrmHandlers` every task
gets the processor, and the mutex if it keeps asking for it (strong fairness of its
steps): the C library's mutex is not held across anything that blocks. The other
modules have safety properties only.

### 3.4 Runs that find the code at odds with its comments

Each checks one sentence of the source and TLC finds a behaviour that breaks it.

| run | sentence | what happens |
|---|---|---|
| `untimed_job` | "the active job must have a timer set to enforce its execution time" (487, 513) | the rid is on the stack twice; the first pop stops the job, the second starts it again, with `enforced` set and without a timer |
| `starved_low_crit` | "do not wake them up -- let their period timers wake them up" (2419) | (of the reserves a departure takes out of `crit_blockq`) an overrun in critical mode clears `in_critical_mode` but not the stack; the departure then takes nobody out, `sys_criticality` stays up, and the period timers of less critical reserves, which the sentence relies on, return early |
| `budget_extended` | "current_exec_time <= exec_time" (496), "double check if we were preempted by a hypertask" (1347) | hypertasks that ran while *another* job had the processor, whose time was never charged to this one, are taken off its consumption, and its timer is set again |

The passing properties are stated around these: `ActiveJobIsTimed` already allows
for a job that is on its way to be stopped, and `HeldWithinBudget` allows for all
hypertasks since the activation.

## 4. What is proved

For every number of reserves, every stack size, every set of parameters and
features, in the assumptions on constants that the modules declare (sizes are
positive naturals, periods positive, priorities integers):

| theorem | module | says | hypothesis |
|---|---|---|---|
| `ReadyQueueSorted` | `ZsrmSchedulerProofs` | `ReadySorted` | |
| `RmQueueSorted` | | `RmSorted` | |
| `ReadyQueueRateMonotonic` | | `RateMonotonic` | |
| `OnlyTheHeadIsTimed` | | `OnlyHeadTimed` | |
| `TimersAreOwned` | | `TimersOwned` | |
| `TypesCorrect` | | `DispatcherTypeOK` | |
| `AllTypesCorrect` | `ZsrmStackProofs` | `TypeOK` of the scheduler | |
| `RequestsStayOnStack` | | `StopPendingOnStack` | `RoomOnStack` |
| `PeriodTimersAreKept` | | `PeriodTimerKept` | `RoomOnStack`, no `lost` |
| `SystemCriticalityIsTop` | | `SysCritIsTop` | `NoOneLeaves` |
| `SchedulerImplementsFixedPriority` | `ZsrmJobsProofs` | `ImplementsFixedPriority` | |
| `QueuedJobsAreAwake` | | `QueuedAreAwake` | `Plain` |
| `AwakeTasksAreQueued` | | `AwakeAreQueued` | `Plain` |
| `QueuedSleepersWake` | | `QueuedSleepersAreWoken` | |
| `ActivatorKeepsTheScheduler` | | the composition implements `ZsrmScheduler` | |
| `TheHeadRuns` | | `HeadRuns` | `Plain`, no `exit`, `ActivateHasRoom` |
| `HypertasksKeepTheScheduler` | `ZsrmHypertaskProofs` | the composition implements `ZsrmScheduler` | |
| `HypertasksAreOwned` | | `HypertasksOwned` | `Answers` |
| `DeadlinesAreAnswered` | | `EveryDeadlineAnswered` | `Answers`, no `full` |
| `NoDefaultFollowsACommand` | | `NoDefaultAfterCommand` | `EveryoneHasOne` |
| `EveryTickIsCharged` | `ZsrmBudgetProofs` | `EveryTickCharged` | `Sane` |
| `HeldIsWithinBudget` | | `HeldWithinBudget` | `Sane` |
| `BudgetIsGranted` | | `BudgetGranted` | `Sane` |
| `TheWireGetsTheStream` | `ZsrmSerialProofs` | `WireGetsTheStream` | |
| `TheReadersGetTheStream` | | `ReadersGetTheStream` | `Undisturbed` |
| `TheReadersAreWoken` | | `ReadersAreWoken` | `Undisturbed` |
| `SemaphoresAreBalanced` | | `TypeOK` of the serial driver | |
| `TheTableIsARing` | `ZsrmHandlersProofs` | `TableIsRing` | |
| `MissedOnlyWhenOvertaken` | | `MissedOnlyIfOvertaken` | |
| `TheRecordIsRight` | | `RightRecord` | |

The hypotheses are conditions without which the property fails, or which the code
or its use guarantees. Two are about behaviours, the others about constants:

* `RoomOnStack`, in every state: `reschedule_stack` is not full. The code has 100
  entries, a thread of higher priority than every task to empty them, and nothing
  but a message when a push is refused (3.2);
* `ActivateHasRoom`, in every step: an attach finds room on `activate_stack` for what
  it pushes, as many rids as there are attached reserves; it holds 100 as well and the
  thread that empties it has the highest priority (3.2);
* no `lost`: no timer handler gives up waiting for the lock. The one that does has
  lost its timer, which nothing arms again;
* `NoOneLeaves`: no task ends and no reserve is deleted. `delete_reserve` does not take
  a reserve off the criticality stack, so that a slot that is handed out again while it
  is linked changes the criticality of the top. TLC finds it with `delete`;
* no `exit`, for `HeadRuns`: no task ends before its reserve is deleted; if it does, the
  wrong task is demoted (1941);
* `Plain`: no zero-slack instants, and no `END_PERIOD` calls (3.2);
* `Answers`: creating and disabling hypertasks may fail, but not starting or
  deleting them; for deadlines (no `full`) the sending ring has room (3.2);
* `EveryoneHasOne`: every reserve asks for a hypertask, the hypervisor has a handle for
  each, and of the mishaps only a full ring may happen. A reserve without a hypertask
  may use the handle of another (3.2);
* `Sane`: no two reserves have the same priority, which
  `calculate_rm_priorities` sees to, and the 64 bit tick counter does not wrap
  within the horizon;
* `Undisturbed`: no signals, or one reader. With signals an interrupted reader goes
  on without the semaphore (3454), beside any other.

### 4.1 The scheduler

None of the invariants is inductive. `ReadySorted` alone breaks at an attach:
priorities are renumbered along the RM queue, so one has to know that the ready
queue was in the RM queue's order, which for attached reserves is the order of the
*old* priorities. The inductive invariant `IInv` therefore joins

* `TablesOK`: created and attached slots are disjoint, period timers are owned if no
  task ends in the handler of its own;
* `RmQueueOK`: the RM queue holds exactly the slots in use, in order of period,
  and the priorities of *attached* reserves fall strictly along it (those of created
  ones are whatever the caller asked for until the next attach);
* `DispatcherOK`: queue and timers are those of attached reserves, and the queue
  falls strictly in priority;
* the enforcement timers are at most the head's.

The order of the ready queue in the RM queue then follows (`ReadyFollowsRm`), which
carries the step of `Attach` and gives `RateMonotonic`. The proof goes bottom up:
`ZsrmQueueLemmas` says what inserting and removing do to a sequence that is
`Ordered` by a relation; one lemma per dispatcher function says that it keeps
`DispatcherOK`; one lemma per action says that it keeps `IInv`; `InvariantHolds`
combines them.

*Refinement.* `ZsrmJobsProofs` classifies what a function of the dispatcher may
do to queue, enforcement timers and requests: the members are the same, one was
added, or one was removed (`SameJobs`, `Added`, `Removed`), and if the head is
another one it is timed or asked to stop (`Switched`). Each action of the scheduler
is one of them (`Advances`), which is a step of `ZsrmFixedPriority` (`NextMaps`);
that the head has the shortest period is `RateMonotonic`. Death of a task only
excuses its job.

*Tasks and jobs.* `AwakeInv` stands beside `IInv`: without zero-slack instants the
system stays in its lowest criticality, no job is taken from `crit_blockq`, and the
living queued jobs and the runnable tasks are the same at every step.

*Reschedule stack.* A second view of the dispatcher's functions, `Reaches`: whatever
they do to the queue, what was on the stack stays in its place, and a rid for each new
request to stop is among what was pushed on top, if there was room. `NextReaches` says
it once for every action; pops are the only other thing that happens to the stack. With
that `StopPendingOnStack` is inductive. `PeriodTimerKept` is not: the scheduler thread
drops the request of a job that is stopped already *without* looking whether its task
is alive, and then the rid would be gone and nobody would delete the reserve. It is
saved by the handler, which resets `request_stop` before it pushes: a request made
later comes with a push of its own. `TimersInv` says so: a reserve without
a timer is dead, has its rid on the stack, and, if there is a request for it, has it
there a second time above (`Awaits`).

*Criticality stack.* `LinksIn`: head and next pointers lead to reserves of a given set
or nowhere, which holds of any damaged list. The walk that looks for the end of the
list gets no further than that set, so that adding keeps it (recursion over the
iterations, by induction over the bound). `CritInv` takes the attached reserves for
the set; what the walk returns beyond that does not matter to the top.

*Jobs that sleep in the queue.* `Woken`: a living task whose job is queued is awake,
or waits for a period, or for a release that is noted. What could break it is a task
that goes to sleep (`wait_for_next_period` makes it one that waits for a period,
`wait_for_next_release` notes that it waits), a period that takes the note back (and then
wakes the task), and `end_of_period`, which makes a task one that waits for releases but
leaves it awake until the loop over `crit_blockq` is over. That loop may resume its own
caller, which then goes to sleep in the queue. If the call was `wait_for_next_period`,
the caller waits for a period: `WaiterIsPeriodic` says so of the call that holds the
lock, and makes `WokenInv` inductive beside `IInv` and the types of the lock.

*All types.* `TypesInv` adds the counters: `start_period` is at most 1 since an overrun
takes it back, and `num_period_wakeups` wraps around below 0 and is cut to 1 above.

*Linux priorities.* `Handed`: an attached reserve whose rid is not on the activation
stack has its priority set, or the activator thread has it in hands with the right
value. A rid that is handed out again while the thread holds its old priority is on the
stack again. When the stack is empty and the thread has nothing in hands, Linux
priorities are those of the table, which fall along the ready queue, and every task
that may run has a job in it (`AwakeInv`).

*Compositions.* Every step of the activator's and of the hypertasks' composition is a
step of `ZsrmScheduler` or leaves its variables alone. So the theorems about the
scheduler hold there too.

### 4.2 Hypertasks

`HInv`: active hypertasks are those of attached reserves, each with a handle of its
own, the hypervisor has no others, and an active one is armed or its job has been
answered for. That `CREATE_RSV` leaves `hyptask_handle` as it was, and that
`start_of_period` uses the handle of reserves that have none, makes it necessary to
speak of handles and not of reserves. `ActuationInv` adds, for `NoDefaultAfterCommand`,
that every reserve has its hypertask, so that no call is made with the handle of another,
and that the hypertask of a job that gave its command is not armed; that a handle is
free whenever a reserve is attached is a matter of counting them.

### 4.3 Budgets

`BudgetInv` relates the counters to `held`. Its parts are those of the argument:
between `Suspend` and `RunHead` all time is charged and no timer is armed
(`Charged`); otherwise `held` is `current` plus the time since `start` of the head,
and the head's timer expires when the budget *and* the preemption known so far are
used up (`Counting`, `TimerOK`); known preemption is at most the hypertasks' time,
and exceeds the job's own time only when the budget is spent anyway, which is what
keeps the unsigned difference harmless (`Base`); the head is timed unless asked to
stop (`HeadTimed`). One lemma per function of the dispatcher takes one form to the
other. A job that is activated has no preemption yet, so that the enforcement of an
overrun never defers (`NothingToEnforce`). A tick then stays below the timer.

### 4.4 The serial driver

`SendingOK` and `ReceivingOK` say which numbered bytes are in a ring, and what a
thread holds between reading a byte and moving the index. The sending side needs no
semaphore: callers write under `zsrmlock` (`GateOK`), so that there is one writer and
one reader. The receiving side does need it, since readers copy without the lock.
`BalanceOK` counts, for each of the three semaphores: what it has and those who stand
where it is held are at most one and the waits that were interrupted. A step of one
caller moves the count of those who stand somewhere by its own move (`Moving`).

### 4.5 Captured signals

The table is described by a sequence: `RingIs(s)` says that the records that were added
are those of `s`, each once, linked to their neighbours both ways, and that its first is
the head. Adding a record puts it at the front (`LinkedIn`). The length of `s` is bounded
by the number of records, so that walking that many steps from the head comes round
all of them: the walk is a recursive function of the number of steps and its place in
`s` follows by induction over the steps. A lookup that starts from the present head
therefore finds its task's record if there is one. `OnceOK` ties a task's only record to
where the task stands in its first registration: the signal is captured after it was
filled. From the second registration on it says nothing.

### 4.6 Only model-checked

* `LockReleased`, `RequestServed` and `HandlersEnd`: liveness under fairness, which the
  prover does not do.
* What is outside of the hypotheses above is neither proved nor, where it is false,
  checked: 3.2 says which parameters break which property.

## 5. Not modelled, and the plan

| part | why, or when |
|---|---|
| Pointer-level ready queue | next: attaching a queued reserve clears its `next` (1774) and truncates the queue; the sequences here cannot lose their tail |
| Gate under all system calls | next: `ZsrmSerial` composed with an abstract gate ("binary", 4320) |
| `zsv_stop_enforcement_handler`, the handler's own system call | next: `ZsrmHandlers` composed with the scheduler |
| Attaching in critical mode | the scheduler model does it; the comment at 359 is not what the code does, so that nothing is claimed |
| Lost wake-ups of the scheduler thread, the activator and the serial sender (2995, 3111, 3664) | the models have them; nothing is claimed of what they delay |
| Linux priorities from 40 reserves on (1044), CPU affinity (3087) | the kernel threads run at will in the models |
| Tick conversion, reading the trace, `calculate_start_time` | arithmetic without state; the last is used by the secure bootstrap only, which is compiled out (69) |
| Reserves without a hypertask that send with `finished` (3982) | their deadline is computed from a negative instant |
| Admission test | a sequential program of its own; `CREATE_RSV` has it switched off (`if (1)`, 3994) |
| Hypercall clients | each fills a page and issues one call; the other side is not in the repository |
| Module start and exit, `/proc` output, statistics, build, generated tables | set-up, output and constants |

Order of what is left: (1) the pointer-level ready queue as a refinement of the
sequences; (2) the gate under all calls; (3) the handler's system call; (4) the admission
test against a reference definition.

## 6. Running it

    tlc -workers 2 -config Dispatch.cfg   MCScheduler.tla   # Lifecycle, Waiting, Serving too
    tlc -workers 2 -config Budget.cfg     MCBudget.tla
    tlc -workers 2 -config Activation.cfg MCActivator.tla
    tlc -workers 2 -config Actuation.cfg  MCHypertask.tla
    tlc -workers 2 -config Handlers.cfg   MCHandlers.tla
    tlc -workers 2 -config Serial.cfg     MCSerial.tla
    for m in *Proofs.tla ZsrmQueueLemmas.tla; do tlapm $m; done

Every `.cfg` whose name begins with `V` (`VActiveJob` and `VBlocked` with
`MCScheduler`, `VBudget` with `MCBudget`) ends with a counterexample; the others end
without an error, each within three minutes on two cores.
