------------------------ MODULE ZsrmHypertaskProofs ------------------------
(***************************************************************************)
(* What holds of ZsrmHypertask for every number of reserves and of the     *)
(* hypervisor's handles: beside hypertasks the scheduler still does what   *)
(* it did without.  As long as the hypervisor neither refuses to start nor *)
(* to delete a hypertask, those it has are the attached reserves' and      *)
(* every deadline is answered; and if every reserve has a hypertask, none  *)
(* acts after its task has given a command.                                *)
(***************************************************************************)
EXTENDS ZsrmHypertask, ZsrmSchedulerProofs, FiniteSetTheorems

(* Hypertasks, the sending of commands and the passing of deadlines do not *)
(* disturb the scheduler: what it does with them is what it does alone, so *)
(* that all its theorems hold here too.                                    *)
THEOREM HypertasksKeepTheScheduler == HypertaskSpec => Spec
<1>1. HypertaskInit => Init
  BY DEF HypertaskInit
<1>2. [HypertaskNext]_allVars => [Next]_vars
  <2> SUFFICES ASSUME [HypertaskNext]_allVars  PROVE [Next]_vars
    OBVIOUS
  <2>1. CASE UNCHANGED allVars
    BY <2>1 DEF allVars
  <2>2. ASSUME NEW r \in Rid, NEW p \in Params, CreateReserve(r, p)  PROVE Next
    BY <2>2 DEF CreateReserve, Next
  <2>3. ASSUME NEW r \in Rid,
               \/ AttachWithHypertask(r) \/ DeleteWithHypertask(r)
               \/ PeriodOfGuestJob(r) \/ WaitWithHypertask(r) \/ SendFinish(r)
        PROVE  Next
    BY <2>3 DEF AttachWithHypertask, DeleteWithHypertask, PeriodOfGuestJob,
                WaitWithHypertask, SendFinish, Next
  <2>4. ASSUME NEW r \in Rid,
               SendFinishEnters(r) \/ DeadlinePasses(r) \/ HypertaskActs(r)
        PROVE  UNCHANGED vars
    BY <2>4 DEF SendFinishEnters, DeadlinePasses, HypertaskActs
  <2>5. CASE SchedulerPopsRid
    BY <2>5 DEF SchedulerPopsRid, Next
  <2>6. CASE SchedulerOnly
    BY <2>6 DEF SchedulerOnly, Next
  <2> QED  BY <2>1, <2>2, <2>3, <2>4, <2>5, <2>6 DEF HypertaskNext
<1> QED  BY <1>1, <1>2, PTL DEF HypertaskSpec, Spec

-----------------------------------------------------------------------------
(* The hypervisor starts and deletes what it is asked to.                  *)
Answers == Mishaps \subseteq {"create", "disable", "full"}

(* Only attached reserves have an active hypertask, each one of its own,   *)
(* and one that is not armed any more has been answered for, provided that *)
(* what a job gives the sending ring gets into it.                         *)
HInv ==
  /\ hypActive \subseteq attached
  /\ hyp = [tasks |-> hyp.tasks, armed |-> hyp.armed]
  /\ handle \in [Rid -> Handles]
  /\ commands \in [Rid -> SUBSET {"task", "none", "default"}]
  /\ hyp.tasks = {handle[r] : r \in hypActive}
  /\ \A q, r \in hypActive : handle[q] = handle[r] => q = r
  /\ "full" \in Mishaps \/
       \A r \in hypActive : commands[r] # {} \/ handle[r] \in hyp.armed

(* A step that leaves the hypertasks alone. *)
LEMMA SameHypertasks ==
  ASSUME HInv, hypActive \subseteq attached', UNCHANGED <<hyp, hypActive, handle>>,
         \A r \in hypActive : commands[r] # {} => commands'[r] # {},
         commands' \in [Rid -> SUBSET {"task", "none", "default"}]
  PROVE  HInv'
BY DEF HInv

(* delete_reserve takes the hypertask with it. *)
LEMMA DeleteHypertaskHInv ==
  ASSUME Answers, HInv, attached \subseteq Rid, NEW r, DeleteHypertask(r),
         attached' = attached \ {r}, UNCHANGED <<handle, commands>>
  PROVE  HInv'
<1>1. CASE r \notin hypActive
  BY <1>1 DEF DeleteHypertask, HInv
<1>2. CASE r \in hypActive
  <2>1. hyp' = DeleteHyptask(hyp, handle[r], TRUE) /\ hypActive' = hypActive \ {r}
    BY <1>2 DEF DeleteHypertask, Results, Answers
  <2>2. /\ hyp' = [tasks |-> hyp'.tasks, armed |-> hyp'.armed]
        /\ hyp'.tasks = hyp.tasks \ {handle[r]}
        /\ hyp'.armed = hyp.armed \ {handle[r]}
    BY <2>1 DEF DeleteHyptask, HInv
  <2>3. \A q \in hypActive' : q \in hypActive /\ handle[q] # handle[r]
    BY <1>2, <2>1 DEF HInv
  <2>4. hyp'.tasks = {handle'[q] : q \in hypActive'}
    <3>1. hyp.tasks = {handle[q] : q \in hypActive} /\ handle' = handle
      BY <1>2 DEF HInv, DeleteHypertask
    <3> QED  BY <1>2, <2>1, <2>2, <2>3, <3>1
  <2>5. "full" \in Mishaps \/
         \A q \in hypActive' : commands'[q] # {} \/ handle'[q] \in hyp'.armed
    BY <2>2, <2>3 DEF HInv
  <2> QED  BY <2>1, <2>2, <2>3, <2>4, <2>5 DEF HInv
<1> QED  BY <1>1, <1>2

(* attach_reserve *)
LEMMA AttachHInv ==
  ASSUME Answers, HInv, NEW r \in Rid, r \notin attached, attached' = attached \cup {r},
         CreateHypertask(r), commands' = [commands EXCEPT ![r] = {}]
  PROVE  HInv'
<1>1. /\ commands' \in [Rid -> SUBSET {"task", "none", "default"}]
      /\ \A q \in hypActive : commands'[q] = commands[q]
  BY DEF HInv
<1>2. CASE UNCHANGED <<hyp, hypActive, handle>>
  BY <1>1, <1>2, SameHypertasks DEF HInv
<1>3. ASSUME NEW h \in Handles \ hyp.tasks,
             hyp' = GuestJobStart([hyp EXCEPT !.tasks = @ \cup {h}], h, TRUE),
             handle' = [handle EXCEPT ![r] = h], hypActive' = hypActive \cup {r}
      PROVE  HInv'
  <2>1. /\ hyp' = [tasks |-> hyp'.tasks, armed |-> hyp'.armed]
        /\ hyp'.tasks = hyp.tasks \cup {h}
        /\ hyp'.armed = hyp.armed \cup {h}
    BY <1>3 DEF GuestJobStart, HInv
  <2>2. handle' \in [Rid -> Handles] /\ handle'[r] = h
    BY <1>3 DEF HInv
  <2>3. \A q \in hypActive : handle'[q] = handle[q] /\ handle[q] \in hyp.tasks
    BY <1>3 DEF HInv
  <2>4. hyp'.tasks = {handle'[q] : q \in hypActive'}
    <3>1. ASSUME NEW t \in hyp'.tasks  PROVE \E q \in hypActive' : t = handle'[q]
      <4>1. CASE t = h
        BY <1>3, <2>2, <4>1
      <4>2. CASE t \in hyp.tasks
        BY <1>3, <2>3, <4>2 DEF HInv
      <4> QED  BY <2>1, <4>1, <4>2
    <3>2. ASSUME NEW q \in hypActive'  PROVE handle'[q] \in hyp'.tasks
      BY <1>3, <2>1, <2>2, <2>3
    <3> QED  BY <3>1, <3>2
  <2>5. \A p, q \in hypActive' : handle'[p] = handle'[q] => p = q
    BY <1>3, <2>2, <2>3 DEF HInv
  <2>6. "full" \in Mishaps \/
         \A q \in hypActive' : commands'[q] # {} \/ handle'[q] \in hyp'.armed
    BY <1>1, <1>3, <2>1, <2>2, <2>3 DEF HInv
  <2> QED  BY <1>1, <1>3, <2>1, <2>2, <2>4, <2>5, <2>6 DEF HInv
<1> QED  BY <1>2, <1>3 DEF CreateHypertask, Results, Answers

(* start_of_period, for a reserve whose task exists. *)
LEMMA GuestJobHInv ==
  ASSUME Answers, HInv, attached \subseteq Rid, NEW r \in Rid,
         GuestJobAtPeriod(r), attached' = attached,
         UNCHANGED <<hypActive, handle>>
  PROVE  HInv'
<1>1. CASE r \notin completed
  BY <1>1, SameHypertasks DEF GuestJobAtPeriod, HInv
<1>2. CASE r \in completed
  <2>1. hyp' = GuestJobStart(hyp, handle[r], TRUE) /\ commands' = [commands EXCEPT ![r] = {}]
    BY <1>2 DEF GuestJobAtPeriod, Results, Answers
  <2>2. /\ hyp' = [tasks |-> hyp'.tasks, armed |-> hyp'.armed]
        /\ hyp'.tasks = hyp.tasks
        /\ hyp'.armed = IF handle[r] \in hyp.tasks THEN hyp.armed \cup {handle[r]}
                                                   ELSE hyp.armed
    BY <2>1 DEF GuestJobStart, HInv
  <2>3. commands' \in [Rid -> SUBSET {"task", "none", "default"}]
    BY <2>1 DEF HInv
  <2>4. ASSUME NEW q \in hypActive, "full" \notin Mishaps
      PROVE  commands'[q] # {} \/ handle[q] \in hyp'.armed
    <3>1. CASE q = r
      BY <2>2, <3>1 DEF HInv
    <3>2. CASE q # r
      BY <2>1, <2>2, <2>4, <3>2 DEF HInv
    <3> QED  BY <3>1, <3>2
  <2> QED  BY <2>2, <2>3, <2>4 DEF HInv
<1> QED  BY <1>1, <1>2

(* start_of_period, for a reserve whose task is gone by the end of it:     *)
(* whatever the hypercall arms does not outlive the deletion.              *)
LEMMA DyingGuestIs ==
  ASSUME Answers, HInv, NEW r, DyingGuestAtPeriod(r)
  PROVE  /\ hypActive' = hypActive \ {r}
         /\ hyp' = [tasks |-> hyp'.tasks, armed |-> hyp'.armed]
         /\ hyp'.tasks = hyp.tasks \ (IF r \in hypActive THEN {handle[r]} ELSE {})
         /\ r \in hypActive => hyp'.armed = hyp.armed \ {handle[r]}
         /\ r \notin hypActive => hyp.armed \subseteq hyp'.armed
         /\ commands' = commands \/ commands' = [commands EXCEPT ![r] = {}]
<1> DEFINE told == IF r \in completed THEN GuestJobStart(hyp, handle[r], TRUE) ELSE hyp
<1>1. /\ hyp' = DeleteHyptask(told, handle[r], r \in hypActive)
      /\ hypActive' = hypActive \ {r}
      /\ commands' = commands \/ commands' = [commands EXCEPT ![r] = {}]
  <2>1. Results("start") = {TRUE} /\ Results("delete") = {TRUE}
    BY DEF Results, Answers
  <2>2. commands' = IF r \in completed THEN [commands EXCEPT ![r] = {}] ELSE commands
    BY DEF DyingGuestAtPeriod
  <2>3. LET gone == r \in hypActive /\ TRUE
        IN  /\ hyp' = DeleteHyptask(told, handle[r], gone)
            /\ hypActive' = IF gone THEN hypActive \ {r} ELSE hypActive
    BY <2>1, Zenon DEF DyingGuestAtPeriod
  <2>4. (r \in hypActive /\ TRUE) = (r \in hypActive)
    OBVIOUS
  <2> HIDE DEF told
  <2> QED  BY <2>2, <2>3, <2>4
<1>2. /\ told = [tasks |-> told.tasks, armed |-> told.armed] /\ told.tasks = hyp.tasks
      /\ hyp.armed \subseteq told.armed /\ told.armed \subseteq hyp.armed \cup {handle[r]}
  BY DEF GuestJobStart, HInv
<1> HIDE DEF told
<1>3. CASE r \in hypActive
  <2>1. hyp' = [tasks |-> told.tasks \ {handle[r]}, armed |-> told.armed \ {handle[r]}]
    BY <1>1, <1>2, <1>3 DEF DeleteHyptask
  <2> QED  BY <1>1, <1>2, <1>3, <2>1
<1>4. CASE r \notin hypActive
  BY <1>1, <1>2, <1>4 DEF DeleteHyptask
<1> QED  BY <1>1, <1>3, <1>4

LEMMA DyingGuestHInv ==
  ASSUME Answers, HInv, attached \subseteq Rid, NEW r \in Rid,
         DyingGuestAtPeriod(r), attached' = attached \ {r}, handle' = handle
  PROVE  HInv'
<1>1. /\ hypActive' = hypActive \ {r}
      /\ hyp' = [tasks |-> hyp'.tasks, armed |-> hyp'.armed]
      /\ hyp'.tasks = hyp.tasks \ (IF r \in hypActive THEN {handle[r]} ELSE {})
      /\ r \in hypActive => hyp'.armed = hyp.armed \ {handle[r]}
      /\ r \notin hypActive => hyp.armed \subseteq hyp'.armed
      /\ commands' = commands \/ commands' = [commands EXCEPT ![r] = {}]
  BY DyingGuestIs
<1>2. /\ commands' \in [Rid -> SUBSET {"task", "none", "default"}]
      /\ \A q \in hypActive' : commands'[q] = commands[q]
  BY <1>1 DEF HInv
<1>3. \A q \in hypActive' : q \in hypActive /\ (r \in hypActive => handle[q] # handle[r])
  BY <1>1 DEF HInv
<1>4. hyp'.tasks = {handle'[q] : q \in hypActive'}
  <2>1. hyp.tasks = {handle[q] : q \in hypActive}
    BY DEF HInv
  <2> QED  BY <1>1, <1>3, <2>1
<1>5. "full" \in Mishaps \/
        \A q \in hypActive' : commands'[q] # {} \/ handle'[q] \in hyp'.armed
  BY <1>1, <1>2, <1>3 DEF HInv
<1> QED  BY <1>1, <1>2, <1>3, <1>4, <1>5 DEF HInv

(* wait_for_next_period disables the hypertask of a job that has answered. *)
LEMMA CompleteJobHInv ==
  ASSUME HInv, NEW r \in Rid, NEW disables \in BOOLEAN, CompleteJob(r, disables),
         attached' = attached, UNCHANGED <<hypActive, handle>>,
         NEW C \in SUBSET {"task", "none", "default"},
         commands' = [commands EXCEPT ![r] = commands[r] \cup C],
         disables => C # {} \/ "full" \in Mishaps
  PROVE  HInv'
<1>1. /\ commands' \in [Rid -> SUBSET {"task", "none", "default"}]
      /\ commands'[r] = commands[r] \cup C
      /\ \A q \in hypActive : commands[q] # {} => commands'[q] # {}
  BY DEF HInv
<1>2. CASE hyp' = hyp
  BY <1>1, <1>2, SameHypertasks DEF HInv
<1>3. CASE disables /\ r \in hypActive /\ hyp' = DisableHyptask(hyp, handle[r], TRUE)
  <2>1. /\ hyp' = [tasks |-> hyp'.tasks, armed |-> hyp'.armed]
        /\ hyp'.tasks = hyp.tasks
        /\ hyp'.armed = hyp.armed \ {handle[r]}
    BY <1>3 DEF DisableHyptask, HInv
  <2>2. ASSUME NEW q \in hypActive, "full" \notin Mishaps
      PROVE  commands'[q] # {} \/ handle[q] \in hyp'.armed
    <3>1. CASE q = r
      BY <1>1, <1>3, <2>2, <3>1
    <3>2. CASE q # r
      BY <1>1, <1>3, <2>1, <2>2, <3>2 DEF HInv
    <3> QED  BY <3>1, <3>2
  <2> QED  BY <1>1, <2>1, <2>2 DEF HInv
<1>4. hyp' = hyp \/ (disables /\ r \in hypActive /\ hyp' = DisableHyptask(hyp, handle[r], TRUE))
  <2>1. DisableHyptask(hyp, handle[r], FALSE) = hyp
    BY DEF DisableHyptask, HInv
  <2> QED  BY <2>1 DEF CompleteJob, Results
<1> QED  BY <1>2, <1>3, <1>4

(* The hypertask acts once, and its command is the answer. *)
LEMMA HypertaskActsHInv ==
  ASSUME HInv, attached \subseteq Rid, NEW r \in Rid, HypertaskActs(r)
  PROVE  HInv'
<1>1. /\ hyp' = [tasks |-> hyp'.tasks, armed |-> hyp'.armed]
      /\ hyp'.tasks = hyp.tasks
      /\ hyp'.armed = hyp.armed \ {handle[r]}
  BY DEF HypertaskActs, HInv
<1>2. /\ commands' \in [Rid -> SUBSET {"task", "none", "default"}]
      /\ commands'[r] # {}
      /\ \A q \in hypActive : commands[q] # {} => commands'[q] # {}
  BY DEF HypertaskActs, HInv
<1>3. ASSUME NEW q \in hypActive, "full" \notin Mishaps
      PROVE  commands'[q] # {} \/ handle[q] \in hyp'.armed
  <2>1. CASE q = r
    BY <1>2, <2>1
  <2>2. CASE q # r
    BY <1>1, <1>2, <1>3, <2>2 DEF HInv, HypertaskActs
  <2> QED  BY <2>1, <2>2
<1>4. UNCHANGED <<attached, hypActive, handle>>
  BY DEF HypertaskActs, vars, tableVars
<1> QED  BY <1>1, <1>2, <1>3, <1>4 DEF HInv

-----------------------------------------------------------------------------
(* No other step adds or takes off a reserve: those of the scheduler that  *)
(* delete one are named.                                                   *)
LEMMA SchedulerKeepsTheReserves ==
  ASSUME SchedulerOnly
  PROVE  attached' = attached /\ created' = created
<1> USE DEF tableVars
<1>1. ASSUME NEW r \in Rid, EnforcementTimer(r) \/ ZeroSlackTimer(r) \/ TaskExit(r)
      PROVE  attached' = attached /\ created' = created
  BY <1>1 DEF EnforcementTimer, ZeroSlackTimer, TaskExit
<1>2. ASSUME NEW r \in Rid, EndOfPeriod(r) \/ WaitForNextRelease(r)
      PROVE  attached' = attached /\ created' = created
  BY <1>2 DEF EndOfPeriod, Departure, WaitForNextRelease
<1>3. ASSUME Unblock, lock.resume => blockq.head \in Live  PROVE attached' = attached /\ created' = created
  BY <1>3 DEF Unblock
<1>4. CASE ReturnFromCall \/ SchedulerEnters \/ SchedulerUnlocks \/ SchedulerSleeps
  BY <1>4 DEF ReturnFromCall, SchedulerEnters, SchedulerUnlocks, SchedulerSleeps
<1> QED  BY <1>1, <1>2, <1>3, <1>4 DEF SchedulerOnly

LEMMA HypertaskStepHInv ==
  ASSUME Answers, IInv, HInv, [HypertaskNext]_allVars
  PROVE  HInv'
<1> USE DEF tableVars
<1>1. attached \subseteq Rid /\ created \cap attached = {}
  BY DEF IInv, TablesOK
<1>2. CASE UNCHANGED allVars
  BY <1>2, SameHypertasks DEF allVars, vars, hypVars, HInv
<1>3. ASSUME NEW r \in Rid, NEW p \in Params, CreateReserve(r, p)  PROVE HInv'
  <2>1. r \notin attached /\ attached' = attached
    BY <1>3 DEF CreateReserve, Create
  <2>2. hypActive' = hypActive /\ UNCHANGED <<hyp, handle, commands>>
    BY <1>3, <2>1 DEF CreateReserve, HInv
  <2> QED  BY <2>1, <2>2, SameHypertasks DEF HInv
<1>4. ASSUME NEW r \in Rid, AttachWithHypertask(r)  PROVE HInv'
  BY <1>1, <1>4, AttachHInv DEF AttachWithHypertask, Attach
<1>5. ASSUME NEW r \in Rid, DeleteWithHypertask(r)  PROVE HInv'
  BY <1>1, <1>5, DeleteHypertaskHInv DEF DeleteWithHypertask, Delete, DeleteReserve, FreeSlot
<1>6. ASSUME NEW r \in Rid, PeriodOfGuestJob(r)  PROVE HInv'
  <2>1. CASE PeriodTimerOfDying(r) /\ DyingGuestAtPeriod(r)
    <3>1. attached' = attached \ {r} /\ handle' = handle
      BY <1>6, <2>1 DEF PeriodOfGuestJob, PeriodTimerOfDying, FreeSlot
    <3> QED  BY <1>1, <2>1, <3>1, DyingGuestHInv
  <2>2. CASE /\ PeriodTimer(r) /\ UNCHANGED <<hypActive, handle>>
             /\ IF r \in Live THEN GuestJobAtPeriod(r)
                              ELSE UNCHANGED <<completed, missed, commands, hyp>>
    <3>1. attached' = attached
      BY <2>2 DEF PeriodTimer
    <3>2. CASE r \in Live
      BY <1>1, <2>2, <3>1, <3>2, GuestJobHInv
    <3>3. CASE r \notin Live
      BY <2>2, <3>1, <3>3, SameHypertasks DEF HInv
    <3> QED  BY <3>2, <3>3
  <2> QED  BY <1>6, <2>1, <2>2 DEF PeriodOfGuestJob
<1>7. ASSUME NEW r \in Rid, WaitWithHypertask(r)  PROVE HInv'
  <2>1. attached' = attached
    BY <1>7 DEF WaitWithHypertask, WaitForNextPeriod, Departure
  <2> QED  BY <1>7, <2>1, CompleteJobHInv DEF WaitWithHypertask
<1>8. ASSUME NEW r \in Rid, SendFinish(r)  PROVE HInv'
  <2>1. attached' = attached /\ UNCHANGED <<hypActive, handle>>
    BY <1>8 DEF SendFinish, WaitForNextPeriod, Departure
  <2>2. CASE sending.inTime = TRUE /\ commands' = [commands EXCEPT ![r] = @ \cup {"task"}]
    BY <1>8, <2>1, <2>2, CompleteJobHInv DEF SendFinish
  <2>3. CASE sending.inTime = TRUE /\ commands' = commands /\ "full" \in Mishaps
    <3>1. commands' = [commands EXCEPT ![r] = commands[r] \cup {}]
      BY <2>3 DEF HInv
    <3> QED  BY <1>8, <2>1, <2>3, <3>1, CompleteJobHInv DEF SendFinish
  <2>4. CASE sending.inTime # TRUE
    BY <1>8, <2>1, <2>4, SameHypertasks DEF SendFinish, CompleteJob, HInv
  <2> QED  BY <1>8, <2>2, <2>3, <2>4 DEF SendFinish
<1>9. ASSUME NEW r \in Rid, SendFinishEnters(r) \/ DeadlinePasses(r)  PROVE HInv'
  BY <1>9, SameHypertasks DEF SendFinishEnters, DeadlinePasses, vars, HInv
<1>10. ASSUME NEW r \in Rid, HypertaskActs(r)  PROVE HInv'
  BY <1>1, <1>10, HypertaskActsHInv
<1>11. CASE SchedulerPopsRid
  <2> DEFINE r == Last(disp.stack)
  <2>1. UNCHANGED <<handle, commands>>
    BY <1>11 DEF SchedulerPopsRid
  <2>2. CASE r \in Live \/ (r \in disp.stop /\ r \in enforced)
    <3>1. attached' = attached /\ UNCHANGED <<hyp, hypActive>>
      BY <1>11, <2>2 DEF SchedulerPopsRid, SchedulerPops
    <3> QED  BY <2>1, <3>1, SameHypertasks DEF HInv
  <2>3. CASE ~ (r \in Live \/ (r \in disp.stop /\ r \in enforced))
    <3>1. attached' = attached \ {r} /\ DeleteHypertask(r)
      BY <1>11, <2>3 DEF SchedulerPopsRid, SchedulerPops, DeleteReserve, FreeSlot
    <3> QED  BY <1>1, <2>1, <3>1, DeleteHypertaskHInv
  <2> QED  BY <2>2, <2>3
<1>12. CASE SchedulerOnly
  <2>1. attached' = attached /\ UNCHANGED hypVars
    BY <1>12, SchedulerKeepsTheReserves DEF SchedulerOnly
  <2> QED  BY <2>1, SameHypertasks DEF hypVars, HInv
<1> QED
  BY <1>2, <1>3, <1>4, <1>5, <1>6, <1>7, <1>8, <1>9, <1>10, <1>11, <1>12
  DEF HypertaskNext

LEMMA HInvHolds == Answers => (HypertaskSpec => []HInv)
<1> SUFFICES ASSUME Answers  PROVE HypertaskSpec => []HInv
  OBVIOUS
<1>1. HypertaskInit => HInv
  BY HypertaskAssumption DEF HypertaskInit, Init, HInv
<1>2. HypertaskSpec => []IInv
  BY HypertasksKeepTheScheduler, InvariantHolds, PTL
<1>3. IInv /\ HInv /\ [HypertaskNext]_allVars => HInv'
  BY HypertaskStepHInv
<1> QED  BY <1>1, <1>2, <1>3, PTL DEF HypertaskSpec

(* The hypertasks in the hypervisor are those of the attached reserves,    *)
(* one each: attach_reserve, init_reserve and the three ways to            *)
(* delete_reserve neither leave one behind nor let two reserves share one, *)
(* however many there are.                                                 *)
THEOREM HypertasksAreOwned == Answers => (HypertaskSpec => []HypertasksOwned)
<1>1. HInv => HypertasksOwned
  <2> SUFFICES ASSUME HInv  PROVE HypertasksOwned
    OBVIOUS
  <2>1. hypActive \cap attached = hypActive
    BY DEF HInv
  <2> QED  BY <2>1 DEF HInv, HypertasksOwned
<1> QED  BY <1>1, HInvHolds, PTL

(* When the deadline of a job is over, the actuator has its command, or    *)
(* the job said there is none, or the hypertask is armed and about to act, *)
(* even when the hypervisor refuses to disable it.                         *)
THEOREM DeadlinesAreAnswered ==
  Answers /\ "full" \notin Mishaps => (HypertaskSpec => []EveryDeadlineAnswered)
<1> SUFFICES ASSUME Answers, "full" \notin Mishaps
             PROVE  HypertaskSpec => []EveryDeadlineAnswered
  OBVIOUS
<1>1. HInv => EveryDeadlineAnswered
  BY DEF HInv, EveryDeadlineAnswered
<1> QED  BY <1>1, HInvHolds, PTL

-----------------------------------------------------------------------------
(* Every reserve has a hypertask: all ask for one, the hypervisor has a    *)
(* name for each of them and does what it is asked to.  The sending ring   *)
(* may be full.                                                            *)
EveryoneHasOne ==
  /\ HasHyptask = {TRUE}
  /\ Mishaps \subseteq {"full"}
  /\ IsFiniteSet(Handles) => Cardinality(Handles) >= MAX_RESERVES

(* Every attached reserve has its hypertask, so that no hypercall is made  *)
(* with the handle of another one; and a hypertask whose job gave its own  *)
(* command is not armed.                                                   *)
ActuationInv ==
  /\ HInv
  /\ created \cup attached \subseteq hasHyptask
  /\ attached \subseteq hypActive
  /\ \A r \in hypActive : "task" \in commands[r] => handle[r] \notin hyp.armed

(* While a reserve is not attached a name for its hypertask is free.       *)
LEMMA AHandleIsFree ==
  ASSUME EveryoneHasOne, HInv, attached \subseteq Rid, NEW r \in Rid, r \notin attached
  PROVE  ~ (Handles \subseteq hyp.tasks)
<1> DEFINE f == [q \in hypActive |-> handle[q]]
<1>1. f \in Bijection(hypActive, hyp.tasks)
  BY DEF HInv, Bijection, Injection, IsInjective, Surjection
<1>2. ExistsBijection(hypActive, hyp.tasks)
  BY <1>1 DEF ExistsBijection
<1>3. IsFiniteSet(Rid) /\ Cardinality(Rid) = MAX_RESERVES /\ MAX_RESERVES \in Nat
  BY FS_Interval, MaxReservesAssumption DEF Rid
<1>4. IsFiniteSet(Rid \ {r}) /\ Cardinality(Rid \ {r}) = MAX_RESERVES - 1
  BY <1>3, FS_RemoveElement
<1>5. hypActive \subseteq Rid \ {r}
  BY DEF HInv
<1>6. IsFiniteSet(hypActive) /\ Cardinality(hypActive) <= MAX_RESERVES - 1
  BY <1>4, <1>5, FS_Subset
<1>7. IsFiniteSet(hyp.tasks) /\ Cardinality(hyp.tasks) <= MAX_RESERVES - 1
  BY <1>2, <1>6, FS_Bijection
<1> SUFFICES ASSUME Handles \subseteq hyp.tasks  PROVE FALSE
  OBVIOUS
<1>8. IsFiniteSet(Handles) /\ Cardinality(Handles) <= Cardinality(hyp.tasks)
  BY <1>7, FS_Subset
<1>9. Cardinality(Handles) \in Nat /\ Cardinality(hyp.tasks) \in Nat
  BY <1>7, <1>8, FS_CardinalityType
<1> QED  BY <1>3, <1>7, <1>8, <1>9 DEF EveryoneHasOne

(* A step that arms nothing and gives no command of a task. *)
LEMMA SameActuation ==
  ASSUME ActuationInv, HInv', UNCHANGED <<hypActive, handle>>, attached' = attached,
         created' = created, hasHyptask' = hasHyptask,
         hyp'.armed \subseteq hyp.armed,
         \A r \in hypActive : "task" \in commands'[r] => "task" \in commands[r]
  PROVE  ActuationInv'
BY DEF ActuationInv

(* delete_reserve *)
LEMMA DeleteActuation ==
  ASSUME EveryoneHasOne, ActuationInv, HInv', NEW r, DeleteHypertask(r),
         attached' = attached \ {r}, created' = created \ {r},
         UNCHANGED <<handle, commands, hasHyptask>>
  PROVE  ActuationInv'
<1>1. CASE r \notin hypActive
  BY <1>1 DEF DeleteHypertask, ActuationInv
<1>2. CASE r \in hypActive
  <2>1. hyp' = DeleteHyptask(hyp, handle[r], TRUE) /\ hypActive' = hypActive \ {r}
    BY <1>2 DEF DeleteHypertask, Results, EveryoneHasOne
  <2>2. hyp'.armed = hyp.armed \ {handle[r]}
    BY <2>1 DEF DeleteHyptask, ActuationInv, HInv
  <2> QED  BY <2>1, <2>2 DEF ActuationInv
<1> QED  BY <1>1, <1>2

(* attach_reserve: the reserve's hypertask is new. *)
LEMMA AttachActuation ==
  ASSUME EveryoneHasOne, ActuationInv, HInv', attached \subseteq Rid,
         NEW r \in Rid, r \in created, r \notin attached,
         attached' = attached \cup {r}, created' = created \ {r},
         CreateHypertask(r), commands' = [commands EXCEPT ![r] = {}],
         hasHyptask' = hasHyptask
  PROVE  ActuationInv'
<1>1. r \notin hypActive /\ r \in hasHyptask
  BY DEF ActuationInv, HInv
<1>2. PICK h \in Handles \ hyp.tasks :
        /\ hyp' = GuestJobStart([hyp EXCEPT !.tasks = @ \cup {h}], h, TRUE)
        /\ handle' = [handle EXCEPT ![r] = h]
        /\ hypActive' = hypActive \cup {r}
  BY <1>1, AHandleIsFree DEF CreateHypertask, Results, EveryoneHasOne, ActuationInv
<1>3. hyp'.armed = hyp.armed \cup {h}
  BY <1>2 DEF GuestJobStart, ActuationInv, HInv
<1>4. \A q \in hypActive : /\ q # r /\ handle'[q] = handle[q] /\ handle[q] # h
                           /\ commands'[q] = commands[q]
  BY <1>1, <1>2 DEF ActuationInv, HInv
<1>5. commands'[r] = {}
  BY DEF ActuationInv, HInv
<1> QED  BY <1>2, <1>3, <1>4, <1>5 DEF ActuationInv

(* start_of_period: the commands of the job before are forgotten. *)
LEMMA GuestJobActuation ==
  ASSUME EveryoneHasOne, ActuationInv, HInv', attached \subseteq Rid, NEW r \in attached,
         GuestJobAtPeriod(r), attached' = attached, created' = created,
         UNCHANGED <<hypActive, handle, hasHyptask>>
  PROVE  ActuationInv'
<1>1. CASE r \notin completed
  BY <1>1, SameActuation DEF GuestJobAtPeriod
<1>2. CASE r \in completed
  <2>1. hyp' = GuestJobStart(hyp, handle[r], TRUE) /\ commands' = [commands EXCEPT ![r] = {}]
    BY <1>2 DEF GuestJobAtPeriod, Results, EveryoneHasOne
  <2>2. hyp'.armed \subseteq hyp.armed \cup {handle[r]}
    BY <2>1 DEF GuestJobStart, ActuationInv, HInv
  <2>3. \A q \in hypActive : q # r => handle[q] # handle[r] /\ commands'[q] = commands[q]
    BY <2>1 DEF ActuationInv, HInv
  <2>4. commands'[r] = {}
    BY <2>1 DEF ActuationInv, HInv
  <2> QED  BY <2>2, <2>3, <2>4 DEF ActuationInv
<1> QED  BY <1>1, <1>2

(* wait_for_next_period: a job that gave its command disables its          *)
(* hypertask.                                                              *)
LEMMA CompleteJobActuation ==
  ASSUME EveryoneHasOne, ActuationInv, HInv', NEW r \in Rid, NEW disables,
         CompleteJob(r, disables),
         attached' = attached, created' = created,
         UNCHANGED <<hypActive, handle, hasHyptask>>,
         \A q \in hypActive : "task" \in commands'[q] =>
           "task" \in commands[q] \/ (q = r /\ disables)
  PROVE  ActuationInv'
<1>1. CASE r \in hypActive /\ disables
  <2>1. hyp' = DisableHyptask(hyp, handle[r], TRUE)
    BY <1>1 DEF CompleteJob, Results, EveryoneHasOne
  <2>2. hyp'.armed = hyp.armed \ {handle[r]}
    BY <2>1 DEF DisableHyptask, ActuationInv, HInv
  <2> QED  BY <2>2 DEF ActuationInv
<1>2. CASE ~ (r \in hypActive /\ disables)
  <2>1. hyp' = hyp
    BY <1>2 DEF CompleteJob
  <2> QED  BY <1>2, <2>1 DEF ActuationInv
<1> QED  BY <1>1, <1>2

(* ... and a reserve that goes takes its own hypertask along.              *)
LEMMA DyingGuestActuation ==
  ASSUME EveryoneHasOne, ActuationInv, HInv', attached \subseteq Rid, NEW r \in attached,
         DyingGuestAtPeriod(r), attached' = attached \ {r}, created' = created \ {r},
         UNCHANGED <<handle, hasHyptask>>
  PROVE  ActuationInv'
<1>1. Answers /\ HInv /\ r \in hypActive
  BY DEF EveryoneHasOne, Answers, ActuationInv
<1>2. /\ hypActive' = hypActive \ {r} /\ hyp'.armed = hyp.armed \ {handle[r]}
      /\ commands' = commands \/ commands' = [commands EXCEPT ![r] = {}]
  BY <1>1, DyingGuestIs
<1>3. \A q \in hypActive' : commands'[q] = commands[q]
  BY <1>1, <1>2 DEF HInv
<1> QED  BY <1>1, <1>2, <1>3 DEF ActuationInv

LEMMA ActuationStep ==
  ASSUME EveryoneHasOne, IInv, ActuationInv, HInv', [HypertaskNext]_allVars
  PROVE  ActuationInv'
<1> USE DEF tableVars
<1>1. attached \subseteq Rid /\ created \cap attached = {}
  BY DEF IInv, TablesOK
<1>2. CASE UNCHANGED allVars
  BY <1>2 DEF allVars, vars, hypVars, ActuationInv
<1>3. ASSUME NEW r \in Rid, NEW p \in Params, CreateReserve(r, p)  PROVE ActuationInv'
  <2>1. r \notin attached /\ attached' = attached /\ created' = created \cup {r}
    BY <1>3 DEF CreateReserve, Create
  <2>2. hypActive' = hypActive /\ UNCHANGED <<hyp, handle, commands>>
    BY <1>3, <2>1 DEF CreateReserve, ActuationInv, HInv
  <2>3. hasHyptask' = hasHyptask \cup {r}
    BY <1>3 DEF CreateReserve, EveryoneHasOne
  <2> QED  BY <2>1, <2>2, <2>3 DEF ActuationInv
<1>4. ASSUME NEW r \in Rid, AttachWithHypertask(r)  PROVE ActuationInv'
  BY <1>1, <1>4, AttachActuation DEF AttachWithHypertask, Attach
<1>5. ASSUME NEW r \in Rid, DeleteWithHypertask(r)  PROVE ActuationInv'
  BY <1>5, DeleteActuation DEF DeleteWithHypertask, Delete, DeleteReserve, FreeSlot
<1>6. ASSUME NEW r \in Rid, PeriodOfGuestJob(r)  PROVE ActuationInv'
  <2>1. CASE PeriodTimerOfDying(r) /\ DyingGuestAtPeriod(r)
    <3>1. /\ r \in attached /\ attached' = attached \ {r} /\ created' = created \ {r}
          /\ UNCHANGED <<handle, hasHyptask>>
      BY <1>6, <2>1 DEF PeriodOfGuestJob, PeriodTimerOfDying, FreeSlot, Live
    <3> QED  BY <1>1, <2>1, <3>1, DyingGuestActuation
  <2>2. CASE /\ PeriodTimer(r) /\ UNCHANGED <<hypActive, handle, hasHyptask>>
             /\ IF r \in Live THEN GuestJobAtPeriod(r)
                              ELSE UNCHANGED <<completed, missed, commands, hyp>>
    <3>1. attached' = attached /\ created' = created
      BY <2>2 DEF PeriodTimer
    <3>2. CASE r \in Live
      BY <1>1, <2>2, <3>1, <3>2, GuestJobActuation DEF Live
    <3>3. CASE r \notin Live
      BY <2>2, <3>1, <3>3, SameActuation
    <3> QED  BY <3>2, <3>3
  <2> QED  BY <1>6, <2>1, <2>2 DEF PeriodOfGuestJob
<1>7. ASSUME NEW r \in Rid, WaitWithHypertask(r)  PROVE ActuationInv'
  <2>1. attached' = attached /\ created' = created
    BY <1>7 DEF WaitWithHypertask, WaitForNextPeriod, Departure
  <2>2. \A q \in Rid : "task" \in commands'[q] => "task" \in commands[q]
    BY <1>7 DEF WaitWithHypertask, ActuationInv, HInv
  <2>3. CompleteJob(r, TRUE) /\ UNCHANGED <<hypActive, handle, hasHyptask>>
    BY <1>7 DEF WaitWithHypertask
  <2>4. hypActive \subseteq Rid
    BY <1>1 DEF ActuationInv, HInv
  <2> QED  BY <2>1, <2>2, <2>3, <2>4, CompleteJobActuation
<1>8. ASSUME NEW r \in Rid, SendFinish(r)  PROVE ActuationInv'
  <2>1. attached' = attached /\ created' = created
    BY <1>8 DEF SendFinish, WaitForNextPeriod, Departure
  <2>2. \A q \in Rid : "task" \in commands'[q] =>
                         "task" \in commands[q] \/ (q = r /\ sending.inTime)
    BY <1>8 DEF SendFinish, ActuationInv, HInv
  <2>3. CompleteJob(r, sending.inTime) /\ UNCHANGED <<hypActive, handle, hasHyptask>>
    BY <1>8 DEF SendFinish
  <2>4. hypActive \subseteq Rid
    BY <1>1 DEF ActuationInv, HInv
  <2> QED  BY <2>1, <2>2, <2>3, <2>4, CompleteJobActuation
<1>9. ASSUME NEW r \in Rid, SendFinishEnters(r) \/ DeadlinePasses(r)  PROVE ActuationInv'
  BY <1>9, SameActuation DEF SendFinishEnters, DeadlinePasses, vars
<1>10. ASSUME NEW r \in Rid, HypertaskActs(r)  PROVE ActuationInv'
  <2>1. hyp'.armed = hyp.armed \ {handle[r]}
    BY <1>10 DEF HypertaskActs, ActuationInv, HInv
  <2>2. \A q \in Rid : "task" \in commands'[q] => "task" \in commands[q]
    BY <1>10 DEF HypertaskActs, ActuationInv, HInv
  <2>3. hypActive \subseteq Rid
    BY <1>1 DEF ActuationInv, HInv
  <2>4. UNCHANGED <<attached, created, hypActive, handle, hasHyptask>>
    BY <1>10 DEF HypertaskActs, vars
  <2> QED  BY <2>1, <2>2, <2>3, <2>4, SameActuation
<1>11. CASE SchedulerPopsRid
  <2> DEFINE r == Last(disp.stack)
  <2>1. UNCHANGED <<handle, commands, hasHyptask>>
    BY <1>11 DEF SchedulerPopsRid
  <2>2. CASE r \in Live \/ (r \in disp.stop /\ r \in enforced)
    <3>1. attached' = attached /\ created' = created /\ UNCHANGED <<hyp, hypActive>>
      BY <1>11, <2>2 DEF SchedulerPopsRid, SchedulerPops
    <3> QED  BY <2>1, <3>1, SameActuation
  <2>3. CASE ~ (r \in Live \/ (r \in disp.stop /\ r \in enforced))
    <3>1. /\ attached' = attached \ {r} /\ created' = created \ {r}
          /\ DeleteHypertask(r)
      BY <1>11, <2>3 DEF SchedulerPopsRid, SchedulerPops, DeleteReserve, FreeSlot
    <3> HIDE DEF r
    <3> QED  BY <2>1, <3>1, DeleteActuation
  <2> QED  BY <2>2, <2>3
<1>12. CASE SchedulerOnly
  <2>1. attached' = attached /\ created' = created /\ UNCHANGED hypVars
    BY <1>12, SchedulerKeepsTheReserves DEF SchedulerOnly
  <2> QED  BY <2>1, SameActuation DEF hypVars
<1> QED
  BY <1>2, <1>3, <1>4, <1>5, <1>6, <1>7, <1>8, <1>9, <1>10, <1>11, <1>12
  DEF HypertaskNext

(* The hypertask's command after the task's: only a hypertask that acts    *)
(* gives one, and that is armed.                                           *)
LEMMA DefaultStep ==
  ASSUME ActuationInv, attached \subseteq Rid, [HypertaskNext]_allVars, NEW q \in Rid,
         "task" \in commands[q], "default" \in commands'[q]
  PROVE  "default" \in commands[q]
<1> SUFFICES ASSUME "default" \notin commands[q]  PROVE FALSE
  OBVIOUS
<1>1. commands \in [Rid -> SUBSET {"task", "none", "default"}]
  BY DEF ActuationInv, HInv
<1>2. CASE UNCHANGED commands
  BY <1>2
<1>3. ASSUME NEW r \in Rid, NEW C \in SUBSET {"task", "none"},
             \/ commands' = [commands EXCEPT ![r] = {}]
             \/ commands' = [commands EXCEPT ![r] = @ \cup C]
      PROVE  FALSE
  BY <1>1, <1>3
<1>4. ASSUME NEW r \in Rid, AttachWithHypertask(r) \/ PeriodOfGuestJob(r)  PROVE FALSE
  BY <1>2, <1>3, <1>4
  DEF AttachWithHypertask, PeriodOfGuestJob, GuestJobAtPeriod, DyingGuestAtPeriod
<1>5. ASSUME NEW r \in Rid, WaitWithHypertask(r) \/ SendFinish(r)  PROVE FALSE
  <2>1. \/ commands' = [commands EXCEPT ![r] = @ \cup {"none"}]
        \/ commands' = [commands EXCEPT ![r] = @ \cup {"task"}]
        \/ UNCHANGED commands
    BY <1>5 DEF WaitWithHypertask, SendFinish
  <2>2. {"none"} \in SUBSET {"task", "none"} /\ {"task"} \in SUBSET {"task", "none"}
    OBVIOUS
  <2>3. CASE commands' = [commands EXCEPT ![r] = @ \cup {"none"}]
    BY <1>3, <2>2, <2>3
  <2>4. CASE commands' = [commands EXCEPT ![r] = @ \cup {"task"}]
    BY <1>3, <2>2, <2>4
  <2> QED  BY <1>2, <2>1, <2>3, <2>4
<1>6. ASSUME NEW r \in Rid, HypertaskActs(r)  PROVE FALSE
  <2>1. r \in hypActive /\ handle[r] \in hyp.armed
        /\ commands' = [commands EXCEPT ![r] = @ \cup {"default"}]
    BY <1>6 DEF HypertaskActs
  <2> QED  BY <1>1, <2>1 DEF ActuationInv
<1>7. ASSUME NEW r \in Rid,
             \/ \E p \in Params : CreateReserve(r, p)
             \/ DeleteWithHypertask(r) \/ SendFinishEnters(r) \/ DeadlinePasses(r)
      PROVE  FALSE
  BY <1>2, <1>7
  DEF CreateReserve, DeleteWithHypertask, SendFinishEnters, DeadlinePasses
<1>8. CASE SchedulerPopsRid \/ SchedulerOnly
  BY <1>2, <1>8 DEF SchedulerPopsRid, SchedulerOnly, hypVars
<1>9. CASE UNCHANGED allVars
  BY <1>2, <1>9 DEF allVars, hypVars
<1> QED
  BY <1>4, <1>5, <1>6, <1>7, <1>8, <1>9 DEF HypertaskNext

(* A default command is not given after the task's own: neither while the  *)
(* send waits for the ring, nor after a deletion or a creation that uses   *)
(* the slot or the handle again, as long as the hypervisor does what it is *)
(* asked to and every reserve has its own hypertask.                       *)
THEOREM NoDefaultFollowsACommand ==
  EveryoneHasOne => (HypertaskSpec => NoDefaultAfterCommand)
<1> SUFFICES ASSUME EveryoneHasOne  PROVE HypertaskSpec => NoDefaultAfterCommand
  OBVIOUS
<1>1. HypertaskSpec => []HInv
  BY HInvHolds DEF EveryoneHasOne, Answers
<1>2. HypertaskInit => (HInv => ActuationInv)
  BY DEF HypertaskInit, Init, ActuationInv
<1>3. HypertaskSpec => []IInv
  BY HypertasksKeepTheScheduler, InvariantHolds, PTL
<1>4. IInv /\ ActuationInv /\ HInv' /\ [HypertaskNext]_allVars => ActuationInv'
  BY ActuationStep
<1>5. IInv /\ ActuationInv /\ [HypertaskNext]_allVars =>
        [\A r \in Rid : "task" \in commands[r] /\ "default" \in commands'[r]
                          => "default" \in commands[r]]_allVars
  BY DefaultStep DEF IInv, TablesOK
<1> QED  BY <1>1, <1>2, <1>3, <1>4, <1>5, PTL DEF HypertaskSpec, NoDefaultAfterCommand

=============================================================================
