------------------------- MODULE ZsrmFixedPriority -------------------------
(***************************************************************************)
(* What the scheduler promises: preemptive fixed-priority scheduling of    *)
(* one processor with temporal enforcement, without queues, timers, stacks *)
(* or locks.  Jobs become active and end one at a time; the job that runs  *)
(* has the shortest period; only a job that arrives preempts it, never a   *)
(* third one; and a job that gets the processor has its budget counted     *)
(* down from then on, unless it is excused: it has been asked to stop, or  *)
(* its task is gone.                                                       *)
(***************************************************************************)
EXTENDS Integers

CONSTANTS
  Jobs,
  Nobody  \* not a job: the processor is left to tasks without reserves

VARIABLES
  active,   \* the jobs that want the processor
  running,  \* the job that has it, or Nobody
  counted,  \* the jobs whose budget is counted down
  excused,  \* the jobs that may run without that
  period

vars == <<active, running, counted, excused, period>>

Init ==
  /\ active = {}
  /\ running = Nobody
  /\ counted = {}
  /\ period \in [Jobs -> Nat]
  /\ excused \in SUBSET Jobs

(* The job that gets the processor has the shortest period of all. *)
Dispatched ==
  /\ active' = {} => running' = Nobody
  /\ active' # {} => /\ running' \in active'
                     /\ \A x \in active' : period'[running'] <= period'[x]

(* Nobody else's budget is counted, and a job's from its first moment. *)
Counted ==
  /\ counted' \subseteq active' \cap {running'}
  /\ running' \notin {running, Nobody} => running' \in counted' \cup excused'

Release(r) ==
  /\ active' = active \cup {r}
  /\ running' \in {running, r}
  /\ period' = period

End(r) ==
  /\ active' = active \ {r}
  /\ running # r => running' = running
  /\ period' = period

(* Neither a new job nor the end of one; parameters change out of use. *)
Continue ==
  /\ active' = active
  /\ running' = running
  /\ \A r \in active : period'[r] = period[r]

Next ==
  /\ \/ \E r \in Jobs \ active : Release(r)
     \/ \E r \in active : End(r)
     \/ Continue
  /\ Dispatched
  /\ Counted

Spec == Init /\ [][Next]_vars

=============================================================================
