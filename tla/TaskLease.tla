----------------------------- MODULE TaskLease -----------------------------
(***************************************************************************)
(* One worker task from the queue to its terminal state: the row of        *)
(* task_execution in PostgreSQL, and the slots of the worker processes     *)
(* that claim it, keep its lease alive, run its Skill and write the        *)
(* conclusion back.  Source: agent-worker's worker/claimer.py,             *)
(* worker/service.py, application/terminal_tasks.py,                       *)
(* application/task_service.py (cancel) and the deadline sweeper of        *)
(* scheduler/service.py.                                                   *)
(*                                                                         *)
(* Every action is one database transaction or one local step of a slot.   *)
(* A conclusion takes two: the slot reads the database clock, waits for    *)
(* the locks of the task tree, and only then compares the lease with the   *)
(* clock it read.  All tasks here are roots without children; BatchTree    *)
(* adds the parent-child protocol.                                         *)
(***************************************************************************)
EXTENDS Naturals, FiniteSets

CONSTANTS
  Task,          \* rows of task_execution
  Instance,      \* lease_owner values: one per worker process, host:pid
  Exec,          \* the asyncio slots the model may have alive at one time
  None,          \* SQL NULL
  AttemptLimit,  \* the largest max_attempts in use
  MaxAttempts,   \* [Task -> 1..AttemptLimit], frozen when the row is inserted
  Deadline,      \* [Task -> Nat], deadline_at
  LeaseLen,      \* task_lease_sec
  BackoffBase,   \* RETRY_BACKOFF_BASE_SEC
  WaitDelays,    \* how far ahead a Skill may ask to be polled again
  SlotLimit,     \* worker_execution_concurrency
  MaxTime        \* bound of the model: the database clock stops here

\* RETRY_BACKOFF_BASE_SEC * 2 ** (attempt - 1)
Backoff == [a \in 1..AttemptLimit |-> BackoffBase * 2^(a - 1)]

ASSUME ConstantsAssumption ==
  /\ None \notin Instance /\ None \notin Task
  /\ IsFiniteSet(Task)
  /\ AttemptLimit \in Nat
  /\ MaxAttempts \in [Task -> 1..AttemptLimit]
  /\ Deadline \in [Task -> Nat]
  /\ LeaseLen \in Nat \ {0}
  /\ WaitDelays \subseteq Nat
  /\ SlotLimit \in Nat \ {0}
  /\ MaxTime \in Nat

ASSUME BackoffAssumption == \A a \in 1..AttemptLimit : Backoff[a] \in Nat

VARIABLES
  now,         \* the clock of PostgreSQL, the only one that decides a lease
  status,      \* task_execution.status
  owner,       \* lease_owner
  leaseUntil,  \* lease_until, 0 while there is no lease
  attempt,     \* attempt
  notBefore,   \* not_before
  cancelReq,   \* cancel_requested
  code,        \* error_code, by its class
  retrySafe,   \* tasks whose frozen retry_safety allows another attempt
  exec,        \* the supervised execution in each slot
  slots,       \* TaskSlotSupervisor._tasks of each process: keys are task ids
  asked,       \* history: tasks somebody (a caller or the Skill) cancelled
  again,       \* history: <<i, t>>, process i claimed t while it still ran it
  strayed      \* history: tasks whose row an earlier attempt has decided

row    == <<status, owner, leaseUntil, attempt, notBefore, cancelReq, code>>
traces == <<again, strayed>>
vars   == <<now, row, retrySafe, exec, slots, asked, traces>>

Idle     == {"QUEUED", "WAITING"}
Terminal == {"COMPLETED", "FAILED", "CANCELLED"}
Codes    == {"none", "error", "unverified", "exhausted", "deadline"}

(* How an execution ends.  "ok", "wait", "cancelled" and "softfail" are    *)
(* returned by the Skill, "raise" and "fatal" are exceptions with and      *)
(* without a retryable code (a lost heartbeat raises a retryable one),     *)
(* "stopped" is the heartbeat's verdict, "overdue" replaces a returned     *)
(* outcome that came after the deadline.                                   *)
Returned == {"ok", "wait", "cancelled", "softfail"}
Results  == Returned \cup {"raise", "fatal", "stopped", "overdue"}

NoRun == [phase |-> "idle", inst |-> None, task |-> None, att |-> 0,
          res |-> "none", moment |-> 0]
Live(e) == exec[e].phase # "idle"
RunsOn(e, i, t) == Live(e) /\ exec[e].inst = i /\ exec[e].task = t

Init ==
  /\ now = 0
  /\ status = [t \in Task |-> "QUEUED"]
  /\ owner = [t \in Task |-> None]
  /\ leaseUntil = [t \in Task |-> 0]
  /\ attempt = [t \in Task |-> 0]
  /\ notBefore = [t \in Task |-> 0]
  /\ cancelReq = [t \in Task |-> FALSE]
  /\ code = [t \in Task |-> "none"]
  /\ exec = [e \in Exec |-> NoRun]
  /\ slots = [i \in Instance |-> {}]
  /\ retrySafe \in SUBSET Task
  /\ asked = {}
  /\ again = {}
  /\ strayed = {}

Tick ==
  /\ now < MaxTime
  /\ now' = now + 1
  /\ UNCHANGED <<row, exec, slots, asked, traces, retrySafe>>

-----------------------------------------------------------------------------
(* Transactions on the row. *)

Claimable(t) ==
  /\ status[t] \in Idle
  /\ notBefore[t] <= now
  /\ Deadline[t] > now
  /\ ~cancelReq[t]

FreeSlot(i) == Cardinality(slots[i]) < SlotLimit

(* A free slot takes a claimable task; only a queued one costs an attempt, *)
(* a waiting one continues the attempt it had.  Nothing looks whether a    *)
(* slot of this process still runs the task: a process that stalled past   *)
(* its lease and the requeue delay may run it twice, under one owner name  *)
(* and one key of its slots.                                               *)
Claim(i, e, t) ==
  /\ FreeSlot(i)
  /\ ~Live(e)
  /\ Claimable(t)
  /\ again' = IF \E f \in Exec : RunsOn(f, i, t) THEN again \cup {<<i, t>>} ELSE again
  /\ LET a == IF status[t] = "WAITING" THEN attempt[t] ELSE attempt[t] + 1
     IN  /\ attempt' = [attempt EXCEPT ![t] = a]
         /\ exec' = [exec EXCEPT ![e] = [phase |-> "run", inst |-> i, task |-> t,
                                         att |-> a, res |-> "none", moment |-> 0]]
  /\ status' = [status EXCEPT ![t] = "RUNNING"]
  /\ owner' = [owner EXCEPT ![t] = i]
  /\ leaseUntil' = [leaseUntil EXCEPT ![t] = now + LeaseLen]
  /\ slots' = [slots EXCEPT ![i] = @ \cup {t}]
  /\ UNCHANGED <<now, notBefore, cancelReq, code, asked, strayed, retrySafe>>

\* mutant: the terminal statuses are not excluded
WriteTerminal_Overwrites(t, s, c, cancel) ==
  /\ status' = [status EXCEPT ![t] = s]
  /\ code' = [code EXCEPT ![t] = c]
  /\ cancelReq' = [cancelReq EXCEPT ![t] = @ \/ cancel]
  /\ owner' = [owner EXCEPT ![t] = None]
  /\ leaseUntil' = [leaseUntil EXCEPT ![t] = 0]
  /\ UNCHANGED <<attempt, notBefore>>

\* write_terminal: any row that is not terminal yet, and the lease goes
WriteTerminal(t, s, c, cancel) ==
  /\ status[t] \notin Terminal
  /\ status' = [status EXCEPT ![t] = s]
  /\ code' = [code EXCEPT ![t] = c]
  /\ cancelReq' = [cancelReq EXCEPT ![t] = @ \/ cancel]
  /\ owner' = [owner EXCEPT ![t] = None]
  /\ leaseUntil' = [leaseUntil EXCEPT ![t] = 0]
  /\ UNCHANGED <<attempt, notBefore>>

\* Back to an idle status with its lease released
Release(t, s, nb, c) ==
  /\ status' = [status EXCEPT ![t] = s]
  /\ notBefore' = [notBefore EXCEPT ![t] = nb]
  /\ code' = [code EXCEPT ![t] = c]
  /\ owner' = [owner EXCEPT ![t] = None]
  /\ leaseUntil' = [leaseUntil EXCEPT ![t] = 0]
  /\ UNCHANGED <<attempt, cancelReq>>

CancelIdle(t) ==
  /\ status[t] \in Idle
  /\ WriteTerminal(t, "CANCELLED", "none", TRUE)

FlagRunning(t) ==
  /\ status[t] = "RUNNING"
  /\ cancelReq' = [cancelReq EXCEPT ![t] = TRUE]
  /\ UNCHANGED <<status, owner, leaseUntil, attempt, notBefore, code>>

\* TaskService.cancel: an idle task ends here, a running one is only told
Cancel(t) ==
  /\ CancelIdle(t) \/ FlagRunning(t)
  /\ asked' = asked \cup {t}
  /\ UNCHANGED <<now, exec, slots, traces, retrySafe>>

\* mutant: the sweep leaves running tasks to their leases
Sweep_IdleOnly(t) ==
  /\ Deadline[t] < now /\ status[t] \in Idle
  /\ WriteTerminal(t, "FAILED", "deadline", FALSE)
  /\ UNCHANGED <<now, exec, slots, asked, traces, retrySafe>>

\* DeadlineSweeper.sweep: whatever its lease says, an overdue task fails
Sweep(t) ==
  /\ Deadline[t] < now
  /\ WriteTerminal(t, "FAILED", "deadline", FALSE)
  /\ UNCHANGED <<now, exec, slots, asked, traces, retrySafe>>

\* mutant: the lease is given away in its last instant
Expired_AtLimit(t) == status[t] = "RUNNING" /\ leaseUntil[t] <= now

Expired(t) == status[t] = "RUNNING" /\ leaseUntil[t] < now

(* _reclaim_terminal_change: the cancel request first, then the budget,    *)
(* then the safety of another attempt.                                     *)
ReclaimCancelled(t) ==
  /\ cancelReq[t]
  /\ WriteTerminal(t, "CANCELLED", "none", TRUE)

\* mutant: the cancel request is not looked at first
ReclaimExhausted_First(t) ==
  /\ attempt[t] >= MaxAttempts[t]
  /\ WriteTerminal(t, "FAILED", "exhausted", FALSE)

ReclaimExhausted(t) ==
  /\ ~cancelReq[t] /\ attempt[t] >= MaxAttempts[t]
  /\ WriteTerminal(t, "FAILED", "exhausted", FALSE)

ReclaimUnverified(t) ==
  /\ ~cancelReq[t] /\ attempt[t] < MaxAttempts[t] /\ t \notin retrySafe
  /\ WriteTerminal(t, "FAILED", "unverified", FALSE)

\* mutant: retry_safety is not looked at
Requeue_AnySafety(t) ==
  /\ ~cancelReq[t] /\ attempt[t] < MaxAttempts[t]
  /\ Release(t, "QUEUED", now + Backoff[attempt[t]], code[t])

Requeue(t) ==
  /\ ~cancelReq[t] /\ attempt[t] < MaxAttempts[t] /\ t \in retrySafe
  /\ Release(t, "QUEUED", now + Backoff[attempt[t]], code[t])

ReclaimOutcome(t) ==
  ReclaimCancelled(t) \/ ReclaimExhausted(t) \/ ReclaimUnverified(t) \/ Requeue(t)

\* mutant: rows with a cancel request are excluded
Reclaim_SkipsCancelled(t) ==
  /\ Expired(t) /\ ~cancelReq[t]
  /\ ReclaimOutcome(t)
  /\ UNCHANGED <<now, exec, slots, asked, traces, retrySafe>>

(* The maintenance loop of any process; the row is looked at again under   *)
(* its lock, so an older scan can only find less.                          *)
Reclaim(t) ==
  /\ Expired(t)
  /\ ReclaimOutcome(t)
  /\ UNCHANGED <<now, exec, slots, asked, traces, retrySafe>>

-----------------------------------------------------------------------------
(* A slot: _supervise_task. *)

\* mutant: any process may write a row whose lease is running
Holds_AnyOwner(i, t, m) == status[t] = "RUNNING" /\ leaseUntil[t] > m

(* What the row must be for a slot of process i to write it, when the slot *)
(* read the clock at m.  The owner is the process, not the claim.          *)
Holds(i, t, m) ==
  /\ status[t] = "RUNNING"
  /\ owner[t] = i
  /\ leaseUntil[t] > m

Enter(e, phase, res, m) ==
  exec' = [exec EXCEPT ![e] = [@ EXCEPT !.phase = phase, !.res = res, !.moment = m]]

\* The execution ends by itself, or its heartbeat cannot reach the database
Finish(e) ==
  /\ exec[e].phase = "run"
  /\ \E r \in Returned \cup {"raise", "fatal"} :
       /\ Enter(e, "done", r, 0)
       /\ asked' = IF r = "cancelled" THEN asked \cup {exec[e].task} ELSE asked
  /\ UNCHANGED <<now, row, slots, traces, retrySafe>>

\* _renew_lease says the lease is ours and nobody asked to stop
Renew(e) ==
  LET t == exec[e].task IN
  /\ exec[e].phase = "run"
  /\ Holds(exec[e].inst, t, now)
  /\ ~cancelReq[t]
  /\ leaseUntil' = [leaseUntil EXCEPT ![t] = now + LeaseLen]
  /\ UNCHANGED <<now, status, owner, attempt, notBefore, cancelReq, code, exec, slots,
                 asked, traces, retrySafe>>

(* _renew_lease says the lease is gone or a stop was asked for: the        *)
(* heartbeat stops the execution.  A lease that is still held was renewed. *)
StopExecution(e) ==
  LET t == exec[e].task
      held == Holds(exec[e].inst, t, now)
  IN  /\ exec[e].phase = "run"
      /\ cancelReq[t] \/ ~held
      /\ leaseUntil' = IF held THEN [leaseUntil EXCEPT ![t] = now + LeaseLen] ELSE leaseUntil
      /\ Enter(e, "done", "stopped", 0)
      /\ UNCHANGED <<now, status, owner, attempt, notBefore, cancelReq, code, slots,
                     asked, traces, retrySafe>>

(* The heartbeat is stopped and the clock read; an outcome the Skill       *)
(* returned counts only before the deadline.  The code reads the clock     *)
(* once more when its transaction begins; a lease that is good at that     *)
(* second reading is good at this one, so one reading loses no write.      *)
ReadClock(e) ==
  /\ exec[e].phase = "done"
  /\ Enter(e, "write",
           IF exec[e].res \in Returned /\ now >= Deadline[exec[e].task]
           THEN "overdue" ELSE exec[e].res,
           now)
  /\ UNCHANGED <<now, row, slots, asked, traces, retrySafe>>

Retries(e) ==
  /\ exec[e].res \in {"softfail", "raise"}
  /\ exec[e].task \in retrySafe
  /\ exec[e].att < MaxAttempts[exec[e].task]

FailureCode(e) ==
  IF exec[e].res # "fatal" /\ exec[e].task \notin retrySafe THEN "unverified" ELSE "error"

(* What the slot wants to write, tried with cancel_requested = false. *)
WriteOutcome(e) ==
  LET t == exec[e].task IN
  \/ exec[e].res = "ok" /\ WriteTerminal(t, "COMPLETED", "none", FALSE)
  \/ /\ exec[e].res = "wait"
     /\ \E d \in WaitDelays : Release(t, "WAITING", exec[e].moment + d, code[t])
  \/ exec[e].res = "overdue" /\ WriteTerminal(t, "FAILED", "deadline", FALSE)
  \/ Retries(e) /\ Release(t, "QUEUED", exec[e].moment + Backoff[exec[e].att], "error")
  \/ /\ exec[e].res \in {"softfail", "raise", "fatal"}
     /\ ~Retries(e)
     /\ WriteTerminal(t, "FAILED", FailureCode(e), FALSE)

(* The slot's transaction, under the locks of the tree.  With the lease    *)
(* held the outcome is written; when that is refused by a cancel request,  *)
(* and for the two cancelling results, CANCELLED is (never for an overdue  *)
(* one); without the lease nothing is.                                     *)
Conclude(e) ==
  LET t == exec[e].task
      held == Holds(exec[e].inst, t, exec[e].moment)
      cancels == exec[e].res \in {"cancelled", "stopped"}
  IN  \/ held /\ ~cancelReq[t] /\ ~cancels /\ WriteOutcome(e)
      \/ /\ held
         /\ cancels \/ (cancelReq[t] /\ exec[e].res # "overdue")
         /\ WriteTerminal(t, "CANCELLED", "none", TRUE)
      \/ ~held /\ UNCHANGED row
      \/ held /\ cancelReq[t] /\ exec[e].res = "overdue" /\ UNCHANGED row

\* mutant: only an execution that got to its transaction gives its slot back
Vacate_OnlyWhenWritten(e) ==
  /\ exec' = [exec EXCEPT ![e] = NoRun]
  /\ slots' = IF exec[e].phase = "write"
              THEN [slots EXCEPT ![exec[e].inst] = @ \ {exec[e].task}] ELSE slots

\* The done callback of a slot pops the task id, whoever registered it
Vacate(e) ==
  /\ exec' = [exec EXCEPT ![e] = NoRun]
  /\ slots' = [slots EXCEPT ![exec[e].inst] = @ \ {exec[e].task}]

\* The row has moved on to another attempt since this slot claimed it
Stale(e) == exec[e].att # attempt[exec[e].task]

Settle(e) ==
  /\ exec[e].phase = "write"
  /\ Conclude(e)
  /\ Vacate(e)
  /\ strayed' = IF Stale(e) /\ status' # status THEN strayed \cup {exec[e].task} ELSE strayed
  /\ UNCHANGED <<now, asked, again, retrySafe>>

\* A database error or a shutdown ends the slot before it wrote anything
Abandon(e) ==
  /\ Live(e)
  /\ Vacate(e)
  /\ UNCHANGED <<now, row, asked, traces, retrySafe>>

\* The process dies with all its slots; its successor may reuse its name
Crash(i) ==
  /\ \E e \in Exec : Live(e) /\ exec[e].inst = i
  /\ exec' = [e \in Exec |-> IF exec[e].inst = i THEN NoRun ELSE exec[e]]
  /\ slots' = [slots EXCEPT ![i] = {}]
  /\ UNCHANGED <<now, row, asked, traces, retrySafe>>

-----------------------------------------------------------------------------
Slot(e) ==
  Finish(e) \/ Renew(e) \/ StopExecution(e) \/ ReadClock(e) \/ Settle(e) \/ Abandon(e)

Next ==
  \/ Tick
  \/ \E i \in Instance, e \in Exec, t \in Task : Claim(i, e, t)
  \/ \E t \in Task : Cancel(t) \/ Sweep(t) \/ Reclaim(t)
  \/ \E e \in Exec : Slot(e)
  \/ \E i \in Instance : Crash(i)

Spec == Init /\ [][Next]_vars

(* The maintenance loop runs for ever and time passes; nothing is assumed  *)
(* of the slots, which may hang or die.  What needs the deadline sweeper   *)
(* too says so.                                                            *)
FairSpec ==
  /\ Spec
  /\ WF_vars(Tick)
  /\ \A t \in Task : WF_vars(Reclaim(t))
-----------------------------------------------------------------------------
(* Properties. *)

Running(t) == status[t] = "RUNNING"

TypeOK ==
  /\ now \in Nat
  /\ status \in [Task -> Idle \cup {"RUNNING"} \cup Terminal]
  /\ owner \in [Task -> Instance \cup {None}]
  /\ leaseUntil \in [Task -> Nat]
  /\ attempt \in [Task -> Nat]
  /\ notBefore \in [Task -> Nat]
  /\ cancelReq \in [Task -> BOOLEAN]
  /\ code \in [Task -> Codes]
  /\ retrySafe \in SUBSET Task
  /\ exec \in [Exec -> [phase : {"idle", "run", "done", "write"},
                        inst : Instance \cup {None}, task : Task \cup {None},
                        att : Nat, res : Results \cup {"none"}, moment : Nat]]
  /\ slots \in [Instance -> SUBSET Task]
  /\ asked \in SUBSET Task
  /\ again \in SUBSET (Instance \X Task)
  /\ strayed \in SUBSET Task

(* A task never starts more attempts than it was given: not through a      *)
(* retry, a reclaimed crash, or both for one attempt.  Only after an       *)
(* earlier attempt has decided its row is the budget not promised.         *)
AttemptBudget == \A t \in Task \ strayed : attempt[t] <= MaxAttempts[t]

(* What worker/service.py:756-758 says of the claim: an execution that     *)
(* lost its lease and wakes up late cannot put its old result (or its old  *)
(* retry) on the attempt that replaced it.  The claim is told apart by     *)
(* host:pid alone, so a process that claimed its own task again does.      *)
OnlyCurrentAttemptWrites ==
  [][\A e \in Exec :
       LET t == exec[e].task IN
       Live(e) /\ ~Live(e)' /\ status'[t] # status[t] => exec[e].att = attempt[t]]_vars

(* The lease fences off all the others: an earlier attempt decides a row   *)
(* only where its own process took the task a second time while it still   *)
(* ran it, and never a task whose effect may not be repeated.              *)
StraysAreReentries ==
  \A t \in strayed : t \in retrySafe /\ \E i \in Instance : <<i, t>> \in again

(* No task ends CANCELLED unless its user or its Skill cancelled it, even  *)
(* though a heartbeat that lost its lease also takes the cancelling path.  *)
NoUnrequestedCancel == \A t \in Task \ strayed : status[t] = "CANCELLED" => t \in asked

(* The ids a process counts are those of the tasks it runs, although two   *)
(* executions of one task share an id and the callback of the first pops   *)
(* it for both: no id stays behind and takes a slot for good, and but for  *)
(* a task it took twice a process counts every task it runs, once.         *)
SlotsAreCounted ==
  \A i \in Instance, t \in Task :
    LET working == {e \in Exec : RunsOn(e, i, t)} IN
    /\ t \in slots[i] => working # {}
    /\ <<i, t>> \notin again => Cardinality(working) = IF t \in slots[i] THEN 1 ELSE 0

(* A process never runs more Skills at a time than it has slots, but for   *)
(* the tasks it took twice.                                                *)
SlotBound ==
  \A i \in Instance :
    Cardinality({e \in Exec : Live(e) /\ exec[e].inst = i /\ <<i, exec[e].task>> \notin again})
      <= SlotLimit

(* A task whose external effect may not be repeated is never attempted a   *)
(* second time, nor run by two slots at once, whatever crashes.            *)
UnsafeRunsOnce ==
  \A t \in Task \ retrySafe :
    /\ attempt[t] <= 1
    /\ \A e, f \in Exec : Live(e) /\ Live(f) /\ exec[e].task = t /\ exec[f].task = t => e = f

(* An accepted cancel is never lost to a finishing, retrying, waiting or   *)
(* reclaimed execution: the task stays RUNNING until it is CANCELLED, or   *)
(* until its deadline fails it.                                            *)
CancelSticks ==
  \A t \in Task : cancelReq[t] =>
    \/ status[t] \in {"RUNNING", "CANCELLED"}
    \/ status[t] = "FAILED" /\ code[t] = "deadline"

(* Every variable keeps its type; attempts stay within their budget, an    *)
(* accepted cancel is never lost, and none is made up, whatever retries,   *)
(* crashes, reclaims, re-entries and lapsed heartbeats come together.      *)
Inv == TypeOK /\ AttemptBudget /\ NoUnrequestedCancel /\ CancelSticks

(* Up to and including its last instant a lease protects the task: only a  *)
(* slot of the owning process, or the deadline, takes it out of RUNNING.   *)
OwnerRulesItsLease ==
  [][\A t \in Task :
       Running(t) /\ now <= leaseUntil[t] /\ status'[t] # "RUNNING" =>
         \/ Deadline[t] < now
         \/ \E e \in Exec : RunsOn(e, owner[t], t) /\ ~Live(e)']_vars

Lifecycle == INSTANCE TaskLifecycle
\* The lifecycle every other component relies on
ImplementsLifecycle == Lifecycle!Spec

(* Where the sweeper runs, a task with a deadline reaches a terminal       *)
(* state, whatever its slots do.                                           *)
EventuallySettled ==
  \A t \in Task :
    WF_vars(Sweep(t)) => (Deadline[t] < MaxTime => <>(status[t] \in Terminal))

(* No task stays RUNNING under a lapsed lease, cancelled or not: reclaim   *)
(* does not leave it to the deadline.                                      *)
LapsedLeaseRecovers == \A t \in Task : Expired(t) ~> ~Expired(t)
=============================================================================
