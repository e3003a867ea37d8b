---------------------------- MODULE ZsrmHypertask ----------------------------
(***************************************************************************)
(* Mixed-trust deadlines beside the scheduler.  A reserve may have a       *)
(* hypertask, which runs in the hypervisor and gives the actuator a safe   *)
(* default command at the enforcement instant of every job, unless it was  *)
(* disabled because the job gave its own command in time.  The kernel      *)
(* module creates it, tells the hypervisor when a job starts, disables it  *)
(* and deletes it; it keeps its own copy of the deadline.  The hypervisor  *)
(* and the actuator are not in the repository: they are what the calls     *)
(* made here require.                                                      *)
(***************************************************************************)
EXTENDS ZsrmScheduler

CONSTANTS
  Handles,   \* the hypervisor's names for hypertasks
  HasHyptask, \* the values of has_hyptask a reserve may be created with
  Mishaps    \* what can go wrong: "create", "start", "disable", "delete" (the
             \* hypercall fails), "full" (no room in the sending ring)

ASSUME HypertaskAssumption ==
  /\ 0 \in Handles
  /\ HasHyptask \subseteq BOOLEAN
  /\ Mishaps \subseteq {"create", "start", "disable", "delete", "full"}

VARIABLES
  hyp,        \* the hypervisor: the hypertasks there are, and those that are
              \* armed for the job of their guest task
  hasHyptask, \* slots with has_hyptask set
  hypActive,  \* slots with hypertask_active set
  handle,     \* hyptask_handle
  completed,  \* slots with job_completed set
  missed,     \* slots whose current_job_deadline_ticks is over
  sending,    \* a finishing send that holds zsrmlock, and whether it is in time
  commands    \* what the actuator got since the last start of a guest job

hypVars == <<hyp, hasHyptask, hypActive, handle, completed, missed, sending, commands>>
allVars == <<vars, hypVars>>

NoSend == [rid |-> Nil, inTime |-> FALSE]

HypertaskInit ==
  /\ Init
  /\ hyp = [tasks |-> {}, armed |-> {}]
  /\ hasHyptask = {} /\ hypActive = {}
  /\ handle = [r \in Rid |-> 0]
  /\ completed = {} /\ missed = {}
  /\ sending = NoSend
  /\ commands = [r \in Rid |-> {}]

(* What a call returns: each client gives up without a page for its        *)
(* parameters, and reports the status the hypervisor left in it.           *)
Results(call) == IF call \in Mishaps THEN BOOLEAN ELSE {TRUE}

(* hypmtscheduler_guestjobstart; the hypervisor refuses an unused handle.  *)
GuestJobStart(y, h, ok) ==
  [y EXCEPT !.armed = IF ok /\ h \in y.tasks THEN @ \cup {h} ELSE @]

(* hypmtscheduler_disablehyptask *)
DisableHyptask(y, h, ok) == [y EXCEPT !.armed = IF ok THEN @ \ {h} ELSE @]

(* hypmtscheduler_deletehyptask *)
DeleteHyptask(y, h, ok) ==
  IF ok THEN [y EXCEPT !.tasks = @ \ {h}, !.armed = @ \ {h}] ELSE y

-----------------------------------------------------------------------------
(* CREATE_RSV and init_reserve.  hyptask_handle keeps its old value. *)
CreateReserve(r, p) ==
  /\ sending = NoSend
  /\ Create(r, p)
  /\ \E has \in HasHyptask :
       hasHyptask' = IF has THEN hasHyptask \cup {r} ELSE hasHyptask \ {r}
  /\ hypActive' = hypActive \ {r}
  /\ UNCHANGED <<hyp, handle, completed, missed, sending, commands>>

(* create_hypertask: a hypertask that cannot be created, or whose first    *)
(* job cannot be started, does not become active.                          *)
CreateHypertask(r) ==
  IF r \in hypActive \/ r \notin hasHyptask
  THEN UNCHANGED <<hyp, hypActive, handle>>
  ELSE \/ /\ "create" \in Mishaps \/ Handles \subseteq hyp.tasks
          /\ UNCHANGED <<hyp, hypActive, handle>>
       \/ \E h \in Handles \ hyp.tasks, ok \in Results("start") :
            /\ hyp' = GuestJobStart([hyp EXCEPT !.tasks = @ \cup {h}], h, ok)
            /\ handle' = [handle EXCEPT ![r] = h]
            /\ hypActive' = IF ok THEN hypActive \cup {r} ELSE hypActive

(* ATTACH_RSV *)
AttachWithHypertask(r) ==
  /\ sending = NoSend
  /\ Attach(r)
  /\ CreateHypertask(r)
  /\ completed' = completed \cup {r}
  /\ missed' = missed \ {r}
  /\ commands' = [commands EXCEPT ![r] = {}]
  /\ UNCHANGED <<hasHyptask, sending>>

(* The first part of start_of_period.  The hypercall is made for every     *)
(* reserve, with whatever is in hyptask_handle.                            *)
GuestJobAtPeriod(r) ==
  /\ completed' = completed \ {r}
  /\ IF r \in completed
     THEN /\ missed' = missed \ {r}
          /\ commands' = [commands EXCEPT ![r] = {}]
          /\ \E ok \in Results("start") : hyp' = GuestJobStart(hyp, handle[r], ok)
     ELSE UNCHANGED <<missed, commands, hyp>>

(* ... of a task that is gone by the end of it: delete_reserve then takes  *)
(* the hypertask away.                                                     *)
DyingGuestAtPeriod(r) ==
  /\ completed' = completed \ {r}
  /\ missed'   = IF r \in completed THEN missed \ {r} ELSE missed
  /\ commands' = IF r \in completed THEN [commands EXCEPT ![r] = {}] ELSE commands
  /\ \E started \in Results("start"), deleted \in Results("delete") :
       LET told == IF r \in completed THEN GuestJobStart(hyp, handle[r], started) ELSE hyp
           gone == r \in hypActive /\ deleted
       IN  /\ hyp' = DeleteHyptask(told, handle[r], gone)
           /\ hypActive' = IF gone THEN hypActive \ {r} ELSE hypActive

PeriodOfGuestJob(r) ==
  /\ sending = NoSend
  /\ \/ /\ PeriodTimer(r)
        /\ IF r \in Live THEN GuestJobAtPeriod(r)
                         ELSE UNCHANGED <<completed, missed, commands, hyp>>
        /\ UNCHANGED hypActive
     \/ /\ PeriodTimerOfDying(r)
        /\ DyingGuestAtPeriod(r)
  /\ UNCHANGED <<hasHyptask, handle, sending>>

(* Faulty: the hypertask stays. *)
HypertaskKept(r) == UNCHANGED <<hyp, hypActive>>

(* The hypertask's part of delete_reserve. *)
DeleteHypertask(r) ==
  IF r \in hypActive
  THEN \E ok \in Results("delete") :
         /\ hyp' = DeleteHyptask(hyp, handle[r], ok)
         /\ hypActive' = IF ok THEN hypActive \ {r} ELSE hypActive
  ELSE UNCHANGED <<hyp, hypActive>>

(* DELETE_RSV *)
DeleteWithHypertask(r) ==
  /\ sending = NoSend
  /\ Delete(r)
  /\ DeleteHypertask(r)
  /\ UNCHANGED <<hasHyptask, handle, completed, missed, sending, commands>>

-----------------------------------------------------------------------------
(* The hypertask's part of wait_for_next_period. *)
CompleteJob(r, disableHypertask) ==
  /\ completed' = completed \cup {r}
  /\ IF r \in hypActive /\ disableHypertask
     THEN \E ok \in Results("disable") : hyp' = DisableHyptask(hyp, handle[r], ok)
     ELSE UNCHANGED hyp

(* WAIT_PERIOD: a job that has no command to give. *)
WaitWithHypertask(r) ==
  /\ sending = NoSend
  /\ WaitForNextPeriod(r)
  /\ CompleteJob(r, TRUE)
  /\ commands' = [commands EXCEPT ![r] = @ \cup {"none"}]
  /\ UNCHANGED <<hasHyptask, hypActive, handle, missed, sending>>

(* SEND_SERIAL_FINISH takes the time when it enters the kernel, and then   *)
(* waits for the ring's semaphore with zsrmlock held.                      *)
SendFinishEnters(r) ==
  /\ MayCall(r) /\ InOrder(r)
  /\ sending = NoSend
  /\ sending' = [rid |-> r, inTime |-> r \notin missed]
  /\ UNCHANGED <<vars, hyp, hasHyptask, hypActive, handle, completed, missed, commands>>

(* Faulty: the hypertask is disabled after a late send as well. *)
SendFinishDisables(r) ==
  /\ sending.rid = r
  /\ WaitForNextPeriod(r)
  /\ commands' = IF sending.inTime THEN [commands EXCEPT ![r] = @ \cup {"task"}]
                                   ELSE commands
  /\ CompleteJob(r, TRUE)
  /\ sending' = NoSend
  /\ UNCHANGED <<hasHyptask, hypActive, handle, missed>>

(* Faulty: the hypertask stays enabled after a send in time. *)
SendFinishKeeps(r) ==
  /\ sending.rid = r
  /\ WaitForNextPeriod(r)
  /\ commands' = IF sending.inTime THEN [commands EXCEPT ![r] = @ \cup {"task"}]
                                   ELSE commands
  /\ CompleteJob(r, FALSE)
  /\ sending' = NoSend
  /\ UNCHANGED <<hasHyptask, hypActive, handle, missed>>

(* send: in time, the output goes into the sending ring, as far as there   *)
(* is room, and the hypertask is disabled; too late, nothing is sent and   *)
(* the hypertask may act.  Either way the job waits for its next period.   *)
SendFinish(r) ==
  /\ sending.rid = r
  /\ WaitForNextPeriod(r)
  /\ \E sent \in (IF "full" \in Mishaps THEN BOOLEAN ELSE {TRUE}) :
       commands' = IF sending.inTime /\ sent
                   THEN [commands EXCEPT ![r] = @ \cup {"task"}] ELSE commands
  /\ CompleteJob(r, sending.inTime)
  /\ sending' = NoSend
  /\ UNCHANGED <<hasHyptask, hypActive, handle, missed>>

-----------------------------------------------------------------------------
(* Time passes for the guest ... *)
DeadlinePasses(r) ==
  /\ r \in attached \ missed
  /\ missed' = missed \cup {r}
  /\ UNCHANGED <<vars, hyp, hasHyptask, hypActive, handle, completed, sending, commands>>

(* ... and for the hypervisor, later: it counts from the hypercall, which  *)
(* is made after the deadline has been computed.                           *)
HypertaskActs(r) ==
  /\ r \in hypActive \cap missed
  /\ handle[r] \in hyp.armed
  /\ hyp' = [hyp EXCEPT !.armed = @ \ {handle[r]}]
  /\ commands' = [commands EXCEPT ![r] = @ \cup {"default"}]
  /\ UNCHANGED <<vars, hasHyptask, hypActive, handle, completed, missed, sending>>

(* The scheduler thread, which deletes the reserve of a task that is gone. *)
SchedulerPopsRid ==
  /\ sending = NoSend
  /\ SchedulerPops
  /\ LET r == Last(disp.stack)
     IN  IF r \in Live \/ (r \in disp.stop /\ r \in enforced)
         THEN UNCHANGED <<hyp, hypActive>>
         ELSE DeleteHypertask(r)
  /\ UNCHANGED <<hasHyptask, handle, completed, missed, sending, commands>>

(* What the scheduler does without a thought for hypertasks: END_PERIOD    *)
(* neither completes the job nor disables its hypertask.                   *)
SchedulerOnly ==
  /\ sending = NoSend
  /\ \/ \E r \in Rid :
          \/ EnforcementTimer(r) \/ ZeroSlackTimer(r)
          \/ EndOfPeriod(r) \/ WaitForNextRelease(r) \/ TaskExit(r)
     \/ Unblock /\ (lock.resume => blockq.head \in Live)
     \/ ReturnFromCall
     \/ SchedulerEnters \/ SchedulerUnlocks \/ SchedulerSleeps
  /\ UNCHANGED hypVars

HypertaskNext ==
  \/ \E r \in Rid, p \in Params : CreateReserve(r, p)
  \/ \E r \in Rid :
       \/ AttachWithHypertask(r) \/ DeleteWithHypertask(r)
       \/ PeriodOfGuestJob(r) \/ WaitWithHypertask(r)
       \/ SendFinishEnters(r) \/ SendFinish(r)
       \/ DeadlinePasses(r) \/ HypertaskActs(r)
  \/ SchedulerPopsRid \/ SchedulerOnly

HypertaskSpec == HypertaskInit /\ [][HypertaskNext]_allVars

-----------------------------------------------------------------------------
(* The hypertasks in the hypervisor are those of the attached reserves,    *)
(* one each, whatever is created, attached and deleted in whatever order:  *)
(* delete_reserve leaves none behind, whichever of its callers it has.     *)
HypertasksOwned ==
  /\ hyp.tasks = {handle[r] : r \in hypActive \cap attached}
  /\ \A q, r \in hypActive : handle[q] = handle[r] => q = r

(* "if normal actuation was not sent then allow hypertask to send default  *)
(* safe actuation": when the deadline of a job is over the actuator has    *)
(* its command, or the job has said that there is none, or the hypertask   *)
(* is about to act.                                                        *)
EveryDeadlineAnswered ==
  \A r \in (hypActive \cap missed) \ {sending.rid} :
    commands[r] # {} \/ handle[r] \in hyp.armed

(* "disableHypertask -- normal actuation sent on time": the hypertask does *)
(* not act for a job whose own command was accepted before.                *)
NoDefaultAfterCommand ==
  [][\A r \in Rid : "task" \in commands[r] /\ "default" \in commands'[r]
                      => "default" \in commands[r]]_allVars

=============================================================================
