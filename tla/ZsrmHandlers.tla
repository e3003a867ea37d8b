---------------------------- MODULE ZsrmHandlers ----------------------------
(***************************************************************************)
(* The enforcement signal: a task of libzsv registers a handler for the    *)
(* budget enforcement of its reserve, the kernel module then sends the     *)
(* task a signal instead of stopping it, and the handler ends the job.     *)
(* The records of all the tasks of a process are in one circular list,     *)
(* under a mutex -- except that a lookup reads the head before it locks.   *)
(* A task that runs its signal handler does nothing else until that        *)
(* returns.                                                                *)
(***************************************************************************)
EXTENDS Naturals, Sequences, FiniteSetsExt

CONSTANTS
  Tasks,     \* the tasks of the process, each with the reserve it is named for
  MaxForks   \* how often a task registers its handler

ASSUME HandlersAssumption == MaxForks \in Nat

VARIABLES
  recs,     \* the records that were allocated; 0 stands for NULL
  head,     \* tsignal_handler_head
  mutex,    \* handler_table_lock: the task that holds it, or {}
  pc,       \* where a task and its signal handler stand, with their locals
  forks,    \* how often a task called zsv_fork_enforcement_handler
  captured, \* reserves with enforcement_signal_captured set
  signals   \* tasks with an enforcement signal pending

vars == <<recs, head, mutex, pc, forks, captured, signals>>

Contexts == {"main", "signal"}

(* tmp is the head a lookup started from, then the record it returned. *)
At(where, tmp) == [at |-> where, tmp |-> tmp]
Idle == At("idle", 0)

(* A task runs its signal handler first. *)
Runs(t, c, where) ==
  /\ pc[t][c].at = where
  /\ c = "main" => pc[t]["signal"] = Idle

GoesTo(t, c, p) == pc' = [pc EXCEPT ![t][c] = p]

Init ==
  /\ recs = <<>> /\ head = 0
  /\ mutex = {}
  /\ pc = [t \in Tasks |-> [c \in Contexts |-> Idle]]
  /\ forks = [t \in Tasks |-> 0]
  /\ captured = {} /\ signals = {}

-----------------------------------------------------------------------------
(* get_threaded_signal_handler_record(t): the head is read ...             *)
GetReadsHead(t, c) ==
  /\ Runs(t, c, "get")
  /\ GoesTo(t, c, At(IF head = 0 THEN "got" ELSE "lock", head))
  /\ UNCHANGED <<recs, head, mutex, forks, captured, signals>>

(* ... and then the mutex is taken.                                        *)
GetLocks(t, c) ==
  /\ Runs(t, c, "lock")
  /\ mutex = {}
  /\ mutex' = {t}
  /\ GoesTo(t, c, At("walk", pc[t][c].tmp))
  /\ UNCHANGED <<recs, head, forks, captured, signals>>

(* The n-th record after `first'. *)
Along(first) ==
  LET rec[n \in 0 .. Len(recs)] == IF n = 0 THEN first ELSE recs[rec[n - 1]].next
  IN  rec

(* The walk: from the head that was read to the record before the head     *)
(* there is now, or to the record that is looked for.                      *)
WalkEnd(first, t) ==
  Along(first)[Min({n \in 0 .. Len(recs) :
                      LET r == Along(first)[n]
                      IN  recs[r].next = head \/ recs[r].rid = t})]

(* Faulty: the record before the head is not looked at. *)
FoundBeforeLast(first, t) ==
  LET r == WalkEnd(first, t)
  IN  IF recs[r].rid = t /\ recs[r].next # head THEN r ELSE 0

(* Faulty: whatever the walk ends at is returned. *)
FoundLast(first, t) == WalkEnd(first, t)

Found(first, t) ==
  LET r == WalkEnd(first, t) IN IF recs[r].rid = t THEN r ELSE 0

(* Faulty: the mutex stays locked when there is no record. *)
GetWalksAndKeeps(t, c) ==
  /\ Runs(t, c, "walk")
  /\ mutex' = IF Found(pc[t][c].tmp, t) = 0 THEN mutex ELSE {}
  /\ GoesTo(t, c, At("got", Found(pc[t][c].tmp, t)))
  /\ UNCHANGED <<recs, head, forks, captured, signals>>

GetWalks(t, c) ==
  /\ Runs(t, c, "walk")
  /\ mutex' = {}
  /\ GoesTo(t, c, At("got", Found(pc[t][c].tmp, t)))
  /\ UNCHANGED <<recs, head, forks, captured, signals>>

-----------------------------------------------------------------------------
(* zsv_fork_enforcement_handler *)
Fork(t) ==
  /\ Runs(t, "main", "idle")
  /\ forks[t] < MaxForks
  /\ forks' = [forks EXCEPT ![t] = @ + 1]
  /\ GoesTo(t, "main", At("get", 0))
  /\ UNCHANGED <<recs, head, mutex, captured, signals>>

(* A new record, unless there is one or malloc fails.                      *)
ForkAllocates(t) ==
  /\ Runs(t, "main", "got")
  /\ \/ /\ pc[t]["main"].tmp # 0
        /\ GoesTo(t, "main", At("fill", pc[t]["main"].tmp))
        /\ UNCHANGED recs
     \/ /\ pc[t]["main"].tmp = 0
        /\ recs' = Append(recs, [rid |-> t, next |-> 0, prev |-> 0, filled |-> FALSE])
        /\ GoesTo(t, "main", At("addlock", Len(recs) + 1))
     \/ /\ pc[t]["main"].tmp = 0
        /\ GoesTo(t, "main", Idle)
        /\ UNCHANGED recs
  /\ UNCHANGED <<head, mutex, forks, captured, signals>>

AddLocks(t) ==
  /\ Runs(t, "main", "addlock")
  /\ mutex = {}
  /\ mutex' = {t}
  /\ GoesTo(t, "main", At("add", pc[t]["main"].tmp))
  /\ UNCHANGED <<recs, head, forks, captured, signals>>

(* Faulty: the old head's next record does not learn of the new one. *)
LinkedForward(r) ==
  IF head = 0
  THEN recs' = [recs EXCEPT ![r].next = r, ![r].prev = r]
  ELSE recs' = [recs EXCEPT ![r].next = recs[head].next,
                            ![r].prev = head,
                            ![head].next = r]

(* add_threaded_signal_handler_record: behind the head, and the new head.  *)
Linked(r) ==
  IF head = 0
  THEN recs' = [recs EXCEPT ![r].next = r, ![r].prev = r]
  ELSE recs' = [recs EXCEPT ![r].next = recs[head].next,
                            ![r].prev = head,
                            ![recs[head].next].prev = r,
                            ![head].next = r]

Adds(t) ==
  /\ Runs(t, "main", "add")
  /\ Linked(pc[t]["main"].tmp)
  /\ head' = pc[t]["main"].tmp
  /\ mutex' = {}
  /\ GoesTo(t, "main", At("fill", pc[t]["main"].tmp))
  /\ UNCHANGED <<forks, captured, signals>>

(* The handler, its parameter and the device, outside the mutex.           *)
Fills(t) ==
  /\ Runs(t, "main", "fill")
  /\ recs' = [recs EXCEPT ![pc[t]["main"].tmp].filled = TRUE]
  /\ GoesTo(t, "main", At("capture", pc[t]["main"].tmp))
  /\ UNCHANGED <<head, mutex, forks, captured, signals>>

(* sigaction and CAPTURE_ENFORCEMENT_SIGNAL, either of which may fail; the *)
(* record stays.                                                           *)
Captures(t) ==
  /\ Runs(t, "main", "capture")
  /\ captured' \in {captured, captured \cup {t}}
  /\ GoesTo(t, "main", Idle)
  /\ UNCHANGED <<recs, head, mutex, forks, signals>>

-----------------------------------------------------------------------------
(* budget_enforcement of a captured reserve. *)
SendsSignal(t) ==
  /\ t \in captured \ signals
  /\ signals' = signals \cup {t}
  /\ UNCHANGED <<recs, head, mutex, pc, forks, captured>>

(* zsv_user_enforcement_handler_wrapper; it blocks all signals.            *)
SignalArrives(t) ==
  /\ t \in signals
  /\ pc[t]["signal"] = Idle
  /\ signals' = signals \ {t}
  /\ GoesTo(t, "signal", At("get", 0))
  /\ UNCHANGED <<recs, head, mutex, forks, captured>>

(* With a record the user's handler is called, and the job waits for its   *)
(* next period or release; without one an error is printed and the job     *)
(* goes on.                                                                *)
HandlerReturns(t) ==
  /\ pc[t]["signal"].at = "got"
  /\ GoesTo(t, "signal", Idle)
  /\ UNCHANGED <<recs, head, mutex, forks, captured, signals>>

Steps(t) ==
  \/ \E c \in Contexts : GetReadsHead(t, c) \/ GetLocks(t, c) \/ GetWalks(t, c)
  \/ ForkAllocates(t) \/ AddLocks(t) \/ Adds(t) \/ Fills(t) \/ Captures(t)
  \/ HandlerReturns(t)

Next ==
  \E t \in Tasks : Fork(t) \/ Steps(t) \/ SendsSignal(t) \/ SignalArrives(t)

(* Every task gets the processor, and the mutex if it keeps asking for it. *)
FairSpec == Init /\ [][Next]_vars /\ \A t \in Tasks : SF_vars(Steps(t))

-----------------------------------------------------------------------------
Added == {r \in DOMAIN recs : recs[r].next # 0}

(* Whenever nobody changes it, the list is one ring of all the records     *)
(* that were added, and prev is the inverse of next.                       *)
TableIsRing ==
  mutex = {} =>
    /\ head = 0 <=> Added = {}
    /\ head # 0 => Added = {Along(head)[n] : n \in 0 .. Len(recs) - 1}
    /\ \A r \in Added : recs[recs[r].next].prev = r

(* The record a signal handler finds is that of its reserve, and complete  *)
(* with the handler to call if its task registered once, although records  *)
(* are linked before they are filled and are filled without the mutex.     *)
RightRecord ==
  \A t \in Tasks :
    LET p == pc[t]["signal"]
    IN  p.at = "got" /\ p.tmp # 0 =>
          recs[p.tmp].rid = t /\ (forks[t] <= 1 => recs[p.tmp].filled)

(* A task that looked for its record in vain, although it was there, had   *)
(* read a head that another task has replaced: nothing else makes          *)
(* zsv_user_enforcement_handler_wrapper report "no signal handler record". *)
MissedOnlyIfOvertaken ==
  [][\A t \in captured :
       pc'[t]["signal"] = At("got", 0) => pc[t]["signal"].tmp # head]_vars

(* handler_table_lock is not recursive: the signal came while t itself     *)
(* held it, in a repeated registration (a first one has no signal yet).    *)
WaitsForItself(t) == mutex = {t} /\ pc[t]["signal"].at = "lock"

SomeoneWaitsForItself == \E t \in Tasks : WaitsForItself(t)

(* Nobody waits for the mutex for ever unless a task has interrupted       *)
(* itself holding it: until then every signal handler ends, and every      *)
(* registration ends or is interrupted by a signal.                        *)
HandlersEnd ==
  \A t \in Tasks :
    LET main == pc[t]["main"]  signal == pc[t]["signal"]
    IN  /\ (signal # Idle) ~> (signal = Idle \/ SomeoneWaitsForItself)
        /\ (main # Idle) ~> (main = Idle \/ signal # Idle \/ SomeoneWaitsForItself)

=============================================================================
