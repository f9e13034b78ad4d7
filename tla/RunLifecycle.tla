---------------------------- MODULE RunLifecycle ----------------------------
(***************************************************************************)
(* A run of an agent, from admission to its end: the row in PostgreSQL,    *)
(* the counter of the user, and the execution slots of the Runtime         *)
(* processes.  Source: agent-runtime's run_service.py, run_admission.py,   *)
(* run_deadline.py, run_resume.py, checkpoint.py, and in async_tools       *)
(* continuation_service.py, continuation_pump.py and supervisor.py.        *)
(*                                                                         *)
(* A step is one transaction, or what a process does between two awaits.   *)
(* The sweeps lock a row and look again before they write it, so choosing  *)
(* the row and ending it are one step.  What makes a waiting run ready is  *)
(* the subject of ToolOperation.                                           *)
(***************************************************************************)
EXTENDS Naturals, FiniteSets

CONSTANTS
  Process,   \* Runtime processes; one that died comes back under another name
  Run,       \* runs of one user, each in a conversation of its own
  UserCap,   \* max_open_runs_per_user
  Slots,     \* execution slots of a process
  MaxEpoch,  \* bound: claims of one run
  Upsets,    \* bound: crashes, shutdowns, lapses under a live heartbeat
  Pump,      \* the continuation pump of a process; its other claimers are launches
  None

ASSUME BoundsAssumption ==
  UserCap \in Nat /\ Slots \in Nat /\ MaxEpoch \in Nat /\ Upsets \in Nat
ASSUME NamesAssumption == None \notin Process \cup Run /\ Pump \notin Run /\ IsFiniteSet(Run)

VARIABLES
  row,       \* run_record
  late,      \* deadlines that are past: none, the one of the queue, the run's own
  ready,     \* waiting runs with a result to consume
  depends,   \* runs with an operation to wait for: unsubmitted, or JOIN and not over
  released,  \* admission_released_at is set
  count,     \* open_run_count of the user
  told,      \* runs whose end was written as a notification
  mode,      \* of a process: up, closing or down
  tasks,     \* _tasks: the segment of each run that holds a slot
  claim,     \* claims under way in each process
  sweep,     \* reclaim_stale_executions of each process
  upsets

admission == <<released, count>>
slots     == <<tasks, claim, sweep>>
vars      == <<row, late, ready, depends, admission, told, mode, slots, upsets>>

Claimer  == Run \cup {Pump}
Open     == {"CREATED", "RUNNING", "WAITING_TOOL", "WAITING_INPUT"}
Terminal == {"COMPLETED", "FAILED", "CANCELLED"}

NoRow     == [status |-> "NONE", why |-> "", epoch |-> 0, owner |-> None,
              lease |-> FALSE, cancel |-> FALSE]
NoSegment == [at |-> "none", epoch |-> 0, cancelled |-> FALSE]
Idle      == [at |-> "idle", excluded |-> {}, run |-> None, epoch |-> 0]
Asleep    == [at |-> "asleep", found |-> {}]

Init ==
  /\ row = [r \in Run |-> NoRow]
  /\ late = [r \in Run |-> "none"]
  /\ ready = {} /\ depends = {} /\ released = {} /\ told = {}
  /\ count = 0
  /\ mode = [p \in Process |-> "up"]
  /\ tasks = [p \in Process |-> [r \in Run |-> NoSegment]]
  /\ claim = [p \in Process |-> [c \in Claimer |-> Idle]]
  /\ sweep = [p \in Process |-> Asleep]
  /\ upsets = 0

Active(p)  == {r \in Run : tasks[p][r].at # "none"}
Pending(p) == {c \in Claimer : claim[p][c].at \in {"seeking", "has"}}

HasFreeSlot(p) == mode[p] = "up" /\ Cardinality(Active(p)) + Cardinality(Pending(p)) < Slots

\* mutant: the process is compared, the epoch is not
Current_OfProcess(p, r) ==
  row[r].status = "RUNNING" /\ row[r].lease /\ late[r] # "run"

\* ensure_execution, with the identity a segment took from its claim
Current(p, r) ==
  /\ row[r].status = "RUNNING" /\ row[r].lease /\ late[r] # "run"
  /\ row[r].owner = p /\ row[r].epoch = tasks[p][r].epoch

\* Somebody renews the lease: the heartbeat of the segment that was claimed
Held(r) ==
  \E p \in Process :
    /\ mode[p] # "down" /\ row[r].owner = p
    /\ tasks[p][r].at # "none" /\ tasks[p][r].epoch = row[r].epoch

Upset == upsets < Upsets /\ upsets' = upsets + 1

-----------------------------------------------------------------------------
(* The user: admission, answers, stop. *)

\* release_admission_in
Release(r) ==
  IF r \in released THEN UNCHANGED admission
  ELSE released' = released \cup {r} /\ count' = IF count = 0 THEN 0 ELSE count - 1

(* A transaction that ends the run, as every path writes it; silent is the *)
(* one path that writes no notification.                                   *)
End(r, status, why, silent) ==
  /\ row' = [row EXCEPT ![r] = [@ EXCEPT !.status = status, !.why = why,
                                         !.owner = None, !.lease = FALSE,
                                         !.cancel = row[r].cancel \/ status = "CANCELLED"]]
  /\ Release(r)
  /\ told' = IF silent THEN told ELSE told \cup {r}

\* _create_run: the row, the counter and, after the commit, a launch here
Admit(p, r) ==
  /\ mode[p] = "up" /\ row[r] = NoRow /\ count < UserCap
  /\ row' = [row EXCEPT ![r].status = "CREATED"]
  /\ count' = count + 1
  /\ claim' = [claim EXCEPT ![p][r].at = "asked"]
  /\ UNCHANGED <<late, ready, depends, released, told, mode, tasks, sweep, upsets>>

\* transition_human_resume: queued again, and the queue deadline becomes the run's
HumanResume(p, r) ==
  /\ mode[p] = "up" /\ claim[p][r] = Idle
  /\ row[r].status = "WAITING_INPUT" /\ ~row[r].cancel /\ late[r] # "run"
  /\ row' = [row EXCEPT ![r].status = "CREATED"]
  /\ late' = [late EXCEPT ![r] = "none"]
  /\ claim' = [claim EXCEPT ![p][r].at = "asked"]
  /\ UNCHANGED <<ready, depends, admission, told, mode, tasks, sweep, upsets>>

(* _cancel: what the run depends on is cancelled; a run that nobody        *)
(* executes ends at once, a running one is asked to.                       *)
Cancel(r) ==
  /\ row[r].status \in Open
  /\ depends' = depends \ {r}
  /\ IF row[r].status = "RUNNING"
     THEN /\ ~row[r].cancel
          /\ row' = [row EXCEPT ![r].cancel = TRUE]
          /\ UNCHANGED <<admission, told>>
     ELSE End(r, "CANCELLED", "", FALSE)
  /\ UNCHANGED <<late, ready, mode, slots, upsets>>

\* A result that counts reaches the inbox of a waiting run
ResultArrives(r) ==
  /\ row[r].status = "WAITING_TOOL" /\ ~row[r].cancel /\ r \notin ready
  /\ ready' = ready \cup {r}
  /\ UNCHANGED <<row, late, depends, admission, told, mode, slots, upsets>>

\* The clock passes the deadline of the queue, or the one of the run
PassDeadline(r) ==
  /\ row[r].status \in Open /\ late[r] # "run"
  /\ \E l \in {"queue", "run"} :
       /\ l = "queue" => row[r].epoch = 0 /\ late[r] = "none"
       /\ late' = [late EXCEPT ![r] = l]
  /\ UNCHANGED <<row, ready, depends, admission, told, mode, slots, upsets>>

-----------------------------------------------------------------------------
(* Claims. *)

\* claim_and_submit: a place among the slots, and the runs that hold one now
Begin(p, c) ==
  /\ mode[p] # "down" /\ claim[p][c].at = IF c = Pump THEN "idle" ELSE "asked"
  /\ HasFreeSlot(p) \/ c # Pump
  /\ claim' = [claim EXCEPT ![p][c] =
                 IF HasFreeSlot(p) THEN [Idle EXCEPT !.at = "seeking", !.excluded = Active(p)]
                 ELSE Idle]
  /\ UNCHANGED <<row, late, ready, depends, admission, told, mode, tasks, sweep, upsets>>

\* _claim_one, under the lock of the row
Claimable(r) ==
  /\ ~row[r].cancel /\ late[r] # "run"
  /\ \/ row[r].status = "CREATED" /\ ~(row[r].epoch = 0 /\ late[r] = "queue")
     \/ row[r].status = "WAITING_TOOL" /\ r \in ready

Take(p, c, r) ==
  /\ claim[p][c].at = "seeking" /\ r \notin claim[p][c].excluded /\ c \in {Pump, r}
  /\ Claimable(r) /\ row[r].epoch < MaxEpoch
  /\ row' = [row EXCEPT ![r] = [@ EXCEPT !.status = "RUNNING", !.epoch = row[r].epoch + 1,
                                         !.owner = p, !.lease = TRUE]]
  /\ ready' = ready \ {r}
  /\ claim' = [claim EXCEPT ![p][c] = [@ EXCEPT !.at = "has", !.run = r,
                                                  !.epoch = row[r].epoch + 1]]
  /\ UNCHANGED <<late, depends, admission, told, mode, tasks, sweep, upsets>>

FindNone(p, c) ==
  /\ claim[p][c].at = "seeking"
  /\ claim' = [claim EXCEPT ![p][c] = Idle]
  /\ UNCHANGED <<row, late, ready, depends, admission, told, mode, tasks, sweep, upsets>>

(* Back under the lock of the supervisor: the claimed run is started,      *)
(* unless the process closes or an older segment still holds its slot.     *)
Register(p, c) ==
  LET r == claim[p][c].run IN
  /\ claim[p][c].at = "has"
  /\ claim' = [claim EXCEPT ![p][c] = Idle]
  /\ tasks' = IF mode[p] = "up" /\ r \notin Active(p)
              THEN [tasks EXCEPT ![p][r] = [NoSegment EXCEPT !.at = "prep", !.epoch = claim[p][c].epoch]]
              ELSE tasks
  /\ UNCHANGED <<row, late, ready, depends, admission, told, mode, sweep, upsets>>

-----------------------------------------------------------------------------
(* Segments: _stream_run, from the preparation to the end of the task.     *)

Segment(p, r, at) == mode[p] # "down" /\ tasks[p][r].at = at

Move(p, r, at) == tasks' = [tasks EXCEPT ![p][r].at = at]

Gone(p, r) == tasks' = [tasks EXCEPT ![p][r] = NoSegment]

\* History, credentials and the executor are there
Prepared(p, r) ==
  /\ Segment(p, r, "prep") /\ ~tasks[p][r].cancelled
  /\ Move(p, r, "exec")
  /\ UNCHANGED <<row, late, ready, depends, admission, told, mode, claim, sweep, upsets>>

\* An error before _run_segment, of a launch: nothing is written
PreparationFails(p, r) ==
  /\ Segment(p, r, "prep")
  /\ Gone(p, r)
  /\ UNCHANGED <<row, late, ready, depends, admission, told, mode, claim, sweep, upsets>>

(* reserve_operation, in a tool call of whatever segment: refused once the *)
(* run is to be cancelled.                                                 *)
Reserve(p, r) ==
  /\ Segment(p, r, "exec")
  /\ row[r].status = "RUNNING" /\ ~row[r].cancel /\ late[r] # "run"
  /\ depends' = depends \cup {r}
  /\ UNCHANGED <<row, late, ready, admission, told, mode, slots, upsets>>

\* The checkpoint behind the last result the run depended on
Consume(p, r) ==
  /\ Segment(p, r, "exec") /\ Current(p, r) /\ r \in depends
  /\ depends' = depends \ {r}
  /\ UNCHANGED <<row, late, ready, admission, told, mode, slots, upsets>>

(* try_wait, which waits for what the run depends on and has not come, or  *)
(* suspend_memory_confirmation with a question to the user.  Neither looks *)
(* at cancel_requested.                                                    *)
Wait(p, r) ==
  /\ Segment(p, r, "exec") /\ Current(p, r)
  /\ \E s \in {"WAITING_TOOL", "WAITING_INPUT"} :
       /\ s = "WAITING_TOOL" => r \in depends
       /\ row' = [row EXCEPT ![r] = [@ EXCEPT !.status = s, !.owner = None, !.lease = FALSE]]
  /\ Move(p, r, "leaving")
  /\ UNCHANGED <<late, ready, depends, admission, told, mode, claim, sweep, upsets>>

\* mutant: the cancellation is looked up before the lock, too early
Verdict_Early(r) == "COMPLETED"

\* _finalize_run reads cancel_requested under the lock
Verdict(r) == IF row[r].cancel THEN "CANCELLED" ELSE "COMPLETED"

\* After try_wait found nothing to wait for; _finalize_run does not look again
Complete(p, r) ==
  /\ Segment(p, r, "exec") /\ Current(p, r)
  /\ End(r, Verdict(r), "", FALSE)
  /\ Move(p, r, "leaving")
  /\ UNCHANGED <<late, ready, depends, mode, claim, sweep, upsets>>

\* _finalize_failed, for an error of the executor or of a pump's preparation
Fail(p, r) ==
  /\ \/ Segment(p, r, "exec")
     \/ Segment(p, r, "prep")
  /\ Current(p, r)
  /\ End(r, "FAILED", "ERROR", FALSE)
  /\ Move(p, r, "leaving")
  /\ UNCHANGED <<late, ready, depends, mode, claim, sweep, upsets>>

\* ExecutionLeaseLost, or the terminal event somebody else wrote
Lose(p, r) ==
  /\ Segment(p, r, "exec") /\ ~Current(p, r)
  /\ Move(p, r, "leaving")
  /\ UNCHANGED <<row, late, ready, depends, admission, told, mode, claim, sweep, upsets>>

\* _finished
Leave(p, r) ==
  /\ Segment(p, r, "leaving")
  /\ Gone(p, r)
  /\ UNCHANGED <<row, late, ready, depends, admission, told, mode, claim, sweep, upsets>>

(* CancelledError: before _run_segment nobody handles it, and the row      *)
(* stays; inside, _finalize_failed writes RUN_SHUTDOWN if it still may.    *)
StopSegment(p, r) ==
  /\ tasks[p][r].cancelled /\ mode[p] # "down"
  /\ Gone(p, r)
  /\ IF tasks[p][r].at # "prep" /\ Current(p, r)
     THEN End(r, "FAILED", "SHUTDOWN", FALSE)
     ELSE UNCHANGED <<row, admission, told>>
  /\ UNCHANGED <<late, ready, depends, mode, claim, sweep, upsets>>

-----------------------------------------------------------------------------
(* Sweeps: of the database, by any live process, and of a process's slots. *)

SomeUp == \E p \in Process : mode[p] = "up"

\* Nobody renews the lease, or its holder does not in time
Lapse(r) ==
  /\ row[r].lease
  /\ IF Held(r) THEN Upset ELSE UNCHANGED upsets
  /\ row' = [row EXCEPT ![r].lease = FALSE]
  /\ UNCHANGED <<late, ready, depends, admission, told, mode, slots>>

\* mutant: as the Worker's reclaim, leaves a run alone that is to be cancelled
Reap_NotCancelled(r) ==
  /\ SomeUp /\ row[r].status = "RUNNING" /\ ~row[r].lease /\ ~row[r].cancel
  /\ End(r, "FAILED", "ABANDONED", FALSE)
  /\ UNCHANGED <<late, ready, depends, mode, slots, upsets>>

\* _reap_one
Reap(r) ==
  /\ SomeUp /\ row[r].status = "RUNNING" /\ ~row[r].lease
  /\ End(r, "FAILED", "ABANDONED", FALSE)
  /\ UNCHANGED <<late, ready, depends, mode, slots, upsets>>

\* _expire_queued_one, _close_queued_run
ExpireQueued(r) ==
  /\ SomeUp /\ row[r].status = "CREATED" /\ row[r].epoch = 0 /\ late[r] # "none"
  /\ End(r, "FAILED", "QUEUE_TIMEOUT", FALSE)
  /\ UNCHANGED <<late, ready, depends, mode, slots, upsets>>

\* mutant: the status is not looked at again under the lock
Expire_Unchecked(r) ==
  /\ SomeUp /\ row[r].status \in Open \cup Terminal /\ late[r] = "run"
  /\ End(r, "FAILED", "DEADLINE", TRUE)
  /\ UNCHANGED <<late, ready, depends, mode, slots, upsets>>

\* mutant: the admission is not released
Expire_KeepsCount(r) ==
  /\ SomeUp /\ row[r].status \in Open /\ late[r] = "run"
  /\ row' = [row EXCEPT ![r] = [@ EXCEPT !.status = "FAILED", !.why = "DEADLINE",
                                         !.owner = None, !.lease = FALSE]]
  /\ UNCHANGED <<late, ready, depends, admission, told, mode, slots, upsets>>

\* _expire_one, which writes the event and no notification
Expire(r) ==
  /\ SomeUp /\ row[r].status \in Open /\ late[r] = "run"
  /\ End(r, "FAILED", "DEADLINE", TRUE)
  /\ UNCHANGED <<late, ready, depends, mode, slots, upsets>>

(* reclaim_stale_executions: the slots, then the rows of the database,     *)
(* then, after the session is closed, the cancellation by run.             *)
LookAtSlots(p) ==
  /\ mode[p] = "up" /\ sweep[p].at = "asleep" /\ Active(p) # {}
  /\ sweep' = [sweep EXCEPT ![p] = [at |-> "active", found |-> Active(p)]]
  /\ UNCHANGED <<row, late, ready, depends, admission, told, mode, tasks, claim, upsets>>

\* mutant: any running row counts, whoever owns it
Owned_ByAnyone(p, r) == row[r].status = "RUNNING" /\ row[r].lease

Owned(p, r) == row[r].status = "RUNNING" /\ row[r].lease /\ row[r].owner = p

LookAtRows(p) ==
  /\ mode[p] = "up" /\ sweep[p].at = "active"
  /\ sweep' = [sweep EXCEPT ![p] = [at |-> "stale", found |-> {r \in @.found : ~Owned(p, r)}]]
  /\ UNCHANGED <<row, late, ready, depends, admission, told, mode, tasks, claim, upsets>>

Reclaim(p) ==
  /\ mode[p] = "up" /\ sweep[p].at = "stale"
  /\ sweep' = [sweep EXCEPT ![p] = Asleep]
  /\ tasks' = [tasks EXCEPT ![p] = [r \in Run |->
                 IF r \in sweep[p].found \cap Active(p) THEN [@[r] EXCEPT !.cancelled = TRUE]
                 ELSE @[r]]]
  /\ UNCHANGED <<row, late, ready, depends, admission, told, mode, claim, upsets>>

-----------------------------------------------------------------------------
(* The end of a process. *)

(* Shutdown: the loops are stopped, a claim of the pump with them; then    *)
(* close cancels every segment.  Launches go on.                           *)
Close(p) ==
  /\ mode[p] = "up" /\ Upset
  /\ mode' = [mode EXCEPT ![p] = "closing"]
  /\ sweep' = [sweep EXCEPT ![p] = Asleep]
  /\ claim' = [claim EXCEPT ![p][Pump] = Idle]
  /\ tasks' = [tasks EXCEPT ![p] = [r \in Run |->
                 IF r \in Active(p) THEN [@[r] EXCEPT !.cancelled = TRUE] ELSE @[r]]]
  /\ UNCHANGED <<row, late, ready, depends, admission, told>>

\* A crash, or the exit after close, whether or not the segments stopped in time
Die(p) ==
  /\ mode[p] # "down"
  /\ IF mode[p] = "up" THEN Upset ELSE UNCHANGED upsets
  /\ mode' = [mode EXCEPT ![p] = "down"]
  /\ tasks' = [tasks EXCEPT ![p] = [r \in Run |-> NoSegment]]
  /\ claim' = [claim EXCEPT ![p] = [c \in Claimer |-> Idle]]
  /\ sweep' = [sweep EXCEPT ![p] = Asleep]
  /\ UNCHANGED <<row, late, ready, depends, admission, told>>

-----------------------------------------------------------------------------
User(r)        == Cancel(r) \/ \E p \in Process : Admit(p, r) \/ HumanResume(p, r)
Claiming(p, c) == Begin(p, c) \/ FindNone(p, c) \/ Register(p, c)
Executing(p, r) ==
  \/ Prepared(p, r) \/ PreparationFails(p, r) \/ Reserve(p, r) \/ Consume(p, r)
  \/ Wait(p, r) \/ Complete(p, r) \/ Fail(p, r) \/ Lose(p, r) \/ Leave(p, r)
SlotSweep(p)   == LookAtSlots(p) \/ LookAtRows(p) \/ Reclaim(p)

Next ==
  \/ \E r \in Run :
       \/ User(r) \/ ResultArrives(r) \/ PassDeadline(r)
       \/ Lapse(r) \/ Reap(r) \/ ExpireQueued(r) \/ Expire(r)
       \/ \E p \in Process : Executing(p, r) \/ StopSegment(p, r)
  \/ \E p \in Process :
       \/ SlotSweep(p) \/ Close(p) \/ Die(p)
       \/ \E c \in Claimer : Claiming(p, c) \/ \E r \in Run : Take(p, c, r)

Spec == Init /\ [][Next]_vars

(* The reaper and the sweep of the slots go on, a lease nobody renews      *)
(* lapses and a cancelled task stops.  Nothing is asked of the segments,   *)
(* which may hang with their heartbeat alive, nor of the deadlines.        *)
FairSpec ==
  /\ Spec
  /\ \A r \in Run : WF_vars(~Held(r) /\ Lapse(r)) /\ WF_vars(Reap(r))
  /\ \A p \in Process :
       WF_vars(SlotSweep(p)) /\ \A r \in Run : WF_vars(StopSegment(p, r))

\* And no segment or claim hangs, and what is overdue is ended
PromptSpec ==
  /\ FairSpec
  /\ \A r \in Run : WF_vars(Expire(r)) /\ WF_vars(ExpireQueued(r))
  /\ \A p \in Process :
       /\ \A r \in Run : WF_vars(Executing(p, r))
       /\ \A c \in Claimer : WF_vars(Claiming(p, c))

-----------------------------------------------------------------------------
(* Properties. *)

Ended(r) == row[r].status \in Terminal

\* Every variable keeps its type.
TypeOK ==
  /\ row \in [Run -> [status : Open \cup Terminal \cup {"NONE"},
                      why : {"", "ERROR", "SHUTDOWN", "ABANDONED", "QUEUE_TIMEOUT", "DEADLINE"},
                      epoch : 0..MaxEpoch, owner : Process \cup {None},
                      lease : BOOLEAN, cancel : BOOLEAN]]
  /\ late \in [Run -> {"none", "queue", "run"}]
  /\ ready \subseteq Run /\ depends \subseteq Run /\ released \subseteq Run /\ told \subseteq Run
  /\ count \in 0..UserCap /\ upsets \in 0..Upsets
  /\ mode \in [Process -> {"up", "closing", "down"}]
  /\ tasks \in [Process -> [Run -> [at : {"none", "prep", "exec", "leaving"},
                                    epoch : 0..MaxEpoch, cancelled : BOOLEAN]]]
  /\ claim \in [Process -> [Claimer -> [at : {"idle", "asked", "seeking", "has"},
                                        excluded : SUBSET Run, run : Run \cup {None},
                                        epoch : 0..MaxEpoch]]]
  /\ sweep \in [Process -> [at : {"asleep", "active", "stale"}, found : SUBSET Run]]

(* release_admission_in: seven paths end a run, and the counter of the     *)
(* user is always the number of the runs that are still open.              *)
CountIsOpenRuns ==
  count = Cardinality({r \in Run : row[r].status \in Open})

(* The end of a run is final, whoever is late: a segment, a sweep, a stop. *)
EndIsFinal ==
  [][\A r \in Run : Ended(r) => row'[r] = row[r]]_vars

(* "After the timeout the model is never called": a run that timed out in  *)
(* the queue was never claimed, also not before a question to its user.    *)
TimedOutNeverRan ==
  \A r \in Run : row[r].why = "QUEUE_TIMEOUT" => row[r].epoch = 0

(* The fence: a running row is taken out of RUNNING by the segment of its  *)
(* epoch, never by the segment of an older claim that is still about.      *)
OlderSegmentWritesNothing ==
  [][\A p \in Process, r \in Run :
       /\ row[r].status = "RUNNING" /\ row'[r].status # "RUNNING"
       /\ tasks'[p][r] # tasks[p][r]
       => row[r].owner = p /\ row[r].epoch = tasks[p][r].epoch]_vars

(* A requested cancellation is never lost: nobody takes it back, claims    *)
(* the run again or completes it.                                          *)
CancelHolds ==
  [][\A r \in Run :
       row[r].cancel => /\ row'[r].cancel /\ row'[r].epoch = row[r].epoch
                        /\ row'[r].status # "COMPLETED"]_vars

(* supervisor.py: the slot comes before the claim, so that what a process  *)
(* has claimed and what it is about to claim fit in its slots.             *)
SlotBudget ==
  \A p \in Process : Cardinality(Active(p)) + Cardinality(Pending(p)) <= Slots

(* channel_notifications.py: an end is written as a notification in the    *)
(* same transaction.  One of the seven paths does not: the run's deadline. *)
OnlyTheDeadlineIsSilent ==
  \A r \in Run : Ended(r) /\ r \notin told => row[r].why = "DEADLINE"

(* Every variable keeps its type, and however the seven ends, the claims   *)
(* and the sweeps race: the counter of the user is exact, slots are never  *)
(* overbooked, no run is claimed and then timed out as one that never      *)
(* started, and only the run's deadline ends it silently.                  *)
Inv == TypeOK /\ CountIsOpenRuns /\ TimedOutNeverRan /\ SlotBudget /\ OnlyTheDeadlineIsSilent

Lost(r) == row[r].status = "RUNNING" /\ ~Held(r)

(* A run whose process died, or which was claimed and not started, is      *)
(* ended by the reaper, a cancelled one too.                               *)
LostRunIsReaped ==
  \A r \in Run : Lost(r) ~> (~Lost(r) \/ ~SomeUp)

(* A slot comes back although its segment hangs, once the run is no longer *)
(* this process's.                                                         *)
StuckSlotComesBack ==
  \A p \in Process, r \in Run :
    (r \in Active(p) /\ row[r].owner # p) ~> (r \notin Active(p) \/ row[r].owner = p)

(* A running run that is asked to stop answers CANCELLING, and ends; its   *)
(* deadline, which may be hours away, is not needed for that.              *)
CancelledRunEnds ==
  \A r \in Run : row[r].cancel ~> (Ended(r) \/ ~SomeUp)
=============================================================================
