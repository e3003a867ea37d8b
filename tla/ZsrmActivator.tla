---------------------------- MODULE ZsrmActivator ----------------------------
(***************************************************************************)
(* The activator thread beside the scheduler: attach_reserve pushes every  *)
(* attached reserve on activate_stack, and the thread gives their tasks    *)
(* the Linux priority of the reserve.  (It also binds them to CPU 0, which *)
(* is not modelled: there is one processor here.)  The thread reads the    *)
(* reserve table without zsrmlock, so that every access of it is a step    *)
(* here, and whatever runs under the lock falls in between.  activate_lock *)
(* only makes a push or a pop one step.                                    *)
(***************************************************************************)
EXTENDS ZsrmScheduler

CONSTANT ACTIVATE_STACK_SIZE \* capacity of activate_stack, MAX_RESERVES in the code

ASSUME ActivateStackSizeAssumption == ACTIVATE_STACK_SIZE \in Nat

VARIABLES
  linux,     \* the task of a slot: its SCHED_FIFO priority, or SCHED_NORMAL
  activate,  \* activate_stack[0 .. activate_top]
  activator  \* where the thread stands: its rid, p.sched_priority and
             \* whether `task' is (still) the task of that slot

activatorVars == <<linux, activate, activator>>
allVars == <<vars, activatorVars>>

SCHED_NORMAL == 0

Thread(at, r, p, current) == [at |-> at, rid |-> r, prio |-> p, current |-> current]
Idle(at) == Thread(at, Nil, 0, FALSE)

ActivatorInit ==
  /\ Init
  /\ linux = [r \in Rid |-> SCHED_NORMAL]
  /\ activate = <<>>
  /\ activator = Idle("asleep")

-----------------------------------------------------------------------------
(* Faulty: only the reserve that is attached is pushed. *)
PushNewest(s, rids) == IF rids = <<>> THEN s ELSE Append(s, Last(rids))

(* push_to_activate of one rid after the other: a full stack refuses the   *)
(* rest, and set_rm_priorities does not look.                              *)
PushToActivate(s, rids) ==
  LET pushed == s \o rids
  IN  SubSeq(pushed, 1, IF Len(pushed) < ACTIVATE_STACK_SIZE
                        THEN Len(pushed) ELSE ACTIVATE_STACK_SIZE)

(* ATTACH_RSV with set_rm_priorities, which pushes in the order of the RM  *)
(* queue and wakes the activator; a task that gets a reserve comes with    *)
(* SCHED_NORMAL.                                                           *)
AttachAndActivate(r) ==
  /\ Attach(r)
  /\ linux' = [linux EXCEPT ![r] = SCHED_NORMAL]
  /\ activate' = PushToActivate(activate, Among(rmq, attached \cup {r}))
  /\ activator' = IF activator.at = "asleep" THEN Idle("runnable") ELSE activator

(* The end of delete_reserve: `task' goes back to SCHED_NORMAL.  By then   *)
(* it is the task of the new head if the reserve of a dead task was at the *)
(* head of the ready queue.                                                *)
LeftTask(r, live) ==
  IF r \in live THEN {r}
  ELSE IF Len(disp.ready) > 1 /\ Head(disp.ready) = r
  THEN {disp.ready[2]} \cap live
  ELSE {}

Demote(r, live) ==
  /\ linux' = [x \in Rid |-> IF x \in LeftTask(r, live) THEN SCHED_NORMAL ELSE linux[x]]
  /\ activator' = IF activator.rid = r THEN [activator EXCEPT !.current = FALSE]
                                       ELSE activator
  /\ UNCHANGED activate

(* DELETE_RSV, or the period timer of a task that ends in the meantime.    *)
DeleteAndDemote(r) ==
  \E dying \in BOOLEAN :
    /\ IF dying THEN PeriodTimerOfDying(r) ELSE Delete(r)
    /\ Demote(r, IF dying THEN Live \ {r} ELSE Live)

(* The scheduler thread deletes a reserve, or sets the priority of a task  *)
(* it starts again, or does neither.                                       *)
SchedulerPopsRid ==
  /\ SchedulerPops
  /\ LET r == Last(disp.stack)
     IN  IF r \in disp.stop /\ (r \in enforced \/ r \in Live)
         THEN UNCHANGED activatorVars
         ELSE IF r \notin Live THEN Demote(r, Live)
         ELSE /\ linux' = [linux EXCEPT ![r] = prio[r]]
              /\ UNCHANGED <<activate, activator>>

-----------------------------------------------------------------------------
(* pop_to_activate and the priority of the reserve.  (To read it later can *)
(* only find a newer value.)                                               *)
ActivatorPops ==
  /\ activator.at = "runnable"
  /\ activate # <<>>
  /\ activate' = Front(activate)
  /\ activator' = Thread("popped", Last(activate), prio[Last(activate)], FALSE)
  /\ UNCHANGED <<vars, linux>>

(* gettask; a reserve without a task is skipped. *)
ActivatorFindsTask ==
  /\ activator.at = "popped"
  /\ activator' = IF activator.rid \in Live
                  THEN [activator EXCEPT !.at = "found", !.current = TRUE]
                  ELSE Idle("runnable")
  /\ UNCHANGED <<vars, linux, activate>>

(* sched_setscheduler, with the priority read before. *)
ActivatorSetsPriority ==
  /\ activator.at = "found"
  /\ linux' = IF activator.current
              THEN [linux EXCEPT ![activator.rid] = activator.prio] ELSE linux
  /\ activator' = Idle("runnable")
  /\ UNCHANGED <<vars, activate>>

(* The stack is found empty; the thread sets its state in a later step and *)
(* is still running when a wake-up comes in between.                       *)
ActivatorLeaves ==
  /\ activator.at = "runnable"
  /\ activate = <<>>
  /\ activator' = Idle("leaving")
  /\ UNCHANGED <<vars, linux, activate>>

ActivatorSleeps ==
  /\ activator.at = "leaving"
  /\ activator' = Idle("asleep")
  /\ UNCHANGED <<vars, linux, activate>>

-----------------------------------------------------------------------------
(* Everything else the scheduler does leaves Linux priorities alone.       *)
SchedulerOnly ==
  /\ \/ \E r \in Rid, p \in Params : Create(r, p)
     \/ \E r \in Rid :
          \/ TaskExit(r)
          \/ EnforcementTimer(r) \/ PeriodTimer(r) \/ ZeroSlackTimer(r)
          \/ WaitForNextPeriod(r) \/ EndOfPeriod(r) \/ WaitForNextRelease(r)
     \/ Unblock /\ (lock.resume => blockq.head \in Live)
     \/ ReturnFromCall
     \/ SchedulerEnters \/ SchedulerUnlocks \/ SchedulerSleeps
  /\ UNCHANGED activatorVars

ActivatorNext ==
  \/ \E r \in Rid : AttachAndActivate(r) \/ DeleteAndDemote(r)
  \/ SchedulerPopsRid
  \/ SchedulerOnly
  \/ ActivatorPops \/ ActivatorFindsTask \/ ActivatorSetsPriority
  \/ ActivatorLeaves \/ ActivatorSleeps

ActivatorSpec == ActivatorInit /\ [][ActivatorNext]_allVars

-----------------------------------------------------------------------------
(* The activator has done what it was asked to. *)
Settled == activate = <<>> /\ activator.rid = Nil

(* Linux runs the job whose budget is counted: once the activator is done, *)
(* the task at the head of the ready queue has a higher Linux priority     *)
(* than every other task that may run, although priorities are renumbered  *)
(* at every attach and handed over one at a time, without the lock.        *)
HeadRuns ==
  (Settled /\ lock = Free /\ disp.ready # <<>>) =>
    \A r \in awake \ {Head(disp.ready)} : linux[r] < linux[Head(disp.ready)]

=============================================================================
