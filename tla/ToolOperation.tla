--------------------------- MODULE ToolOperation ---------------------------
(***************************************************************************)
(* One asynchronous tool call of a run, from the reservation in            *)
(* agent-runtime over the task in agent-worker and back to the run that    *)
(* waits for the result.  Each side keeps its own tables; they talk by     *)
(* HTTP requests that are sent from outboxes, may be lost or late, and may *)
(* be handled after the sender gave up and tried again.  Source:           *)
(* agent-runtime's application/async_tools (operations, control_dispatcher,*)
(* materialization, continuation_service), tool_result_receipts.py, and    *)
(* agent-worker's runtime_operations.py, task_service.py, api/tasks.py,    *)
(* terminal_tasks.py and results/dispatcher.py.                            *)
(*                                                                         *)
(* Operations of a run share only the run's row, which every transaction   *)
(* locks first, so one operation is enough.  Of the task the module keeps  *)
(* what TaskLifecycle promises.  Each action is one transaction of one     *)
(* database, or one step of a dispatcher between two of them.              *)
(***************************************************************************)
EXTENDS Naturals

CONSTANTS
  Runtime,      \* coroutines of agent-runtime that dispatch control rows
  Worker,       \* coroutines of agent-worker that dispatch results
  None,         \* no lease
  MaxAttempts   \* async_tool_dispatch_max_attempts

ASSUME ConstantsAssumption ==
  /\ Runtime \cap Worker = {}
  /\ None \notin Runtime \cup Worker
  /\ MaxAttempts \in Nat \ {0}

VARIABLES
  join,      \* completion_mode is JOIN
  publishes, \* the Worker sends the result to the Runtime
  run,       \* run_record.status; "FINISHING" is RUNNING after try_wait said FINISH
  runCancel, \* run_record.cancel_requested
  overdue,   \* the run's deadline_at has passed
  op,        \* tool_operation: status, cancel_requested, task_id is known
  inbox,     \* tool_result_inbox: none, fresh, late or materialized
  events,    \* canonical events the model is to read
  seen,      \* those its executor has read; try_wait persists that cursor
  rows,      \* tool_control_outbox (SUBMIT, CANCEL), runtime_result_outbox
  sender,    \* the claim each dispatcher works on
  wire,      \* requests sent, and submissions past the replay lookup
  tomb,      \* runtime_operation.cancel_requested, in the Worker
  task,      \* the task's status, and whether it was told to cancel
  created    \* history: tasks inserted for this operation

runtime == <<join, publishes, run, runCancel, overdue, op, inbox, events, seen>>
worker  == <<wire, tomb, task, created>>
vars    == <<runtime, worker, rows, sender>>

Sender     == Runtime \cup Worker
Command    == {"SUBMIT", "CANCEL", "RESULT"}
OpTerminal == {"COMPLETED", "FAILED", "CANCELLED", "LATE"}
OpStatus   == {"SUBMIT_PENDING", "SUBMITTED", "RESULT_RECEIVED", "MATERIALIZED"} \cup OpTerminal
Live       == {"QUEUED", "RUNNING"}

Absent == [status |-> "ABSENT", attempts |-> 0, holder |-> None]
Fresh  == [status |-> "PENDING", attempts |-> 0, holder |-> None]
Asleep == [cmd |-> "none", sent |-> FALSE]

(* What reserve_operation commits: the operation and its SUBMIT command.   *)
(* A JOIN is always answered, a DETACH only when the web chat waits for it.*)
Init ==
  /\ join \in BOOLEAN /\ publishes \in BOOLEAN /\ (join => publishes)
  /\ run = "RUNNING" /\ runCancel = FALSE /\ overdue = FALSE
  /\ op = [status |-> "SUBMIT_PENDING", cancelReq |-> FALSE, bound |-> FALSE]
  /\ inbox = "none"
  /\ events = {} /\ seen = {}
  /\ rows = [k \in Command |-> IF k = "SUBMIT" THEN Fresh ELSE Absent]
  /\ sender = [s \in Sender |-> Asleep]
  /\ wire = {} /\ tomb = FALSE
  /\ task = [status |-> "ABSENT", cancelReq |-> FALSE]
  /\ created = 0

-----------------------------------------------------------------------------
(* The outboxes: a row is claimed under a lease and sent, and completed    *)
(* by the sender that still holds the lease.                               *)

Sleep(s) == sender' = [sender EXCEPT ![s] = Asleep]

Abandoned == op.cancelReq \/ op.status \in OpTerminal

\* Nothing is sent for an exhausted row, nor to submit an abandoned operation
Sends(k) == rows[k].attempts < MaxAttempts /\ ~(k = "SUBMIT" /\ Abandoned)

(* claim counts the attempt before anything is sent; the request is on its *)
(* way from then on.  What happens to the operation between the claim and  *)
(* _dispatch's look at it may as well have happened before the claim.      *)
Claim(s, k) ==
  /\ sender[s] = Asleep
  /\ s \in Worker <=> k = "RESULT"
  /\ rows[k].status = "PENDING" /\ rows[k].holder = None
  /\ k = "RESULT" => rows[k].attempts < MaxAttempts
  /\ rows' = [rows EXCEPT ![k].holder = s,
                          ![k].attempts = IF @ < MaxAttempts THEN @ + 1 ELSE @]
  /\ sender' = [sender EXCEPT ![s] = [cmd |-> k, sent |-> Sends(k)]]
  /\ wire' = IF Sends(k) THEN wire \cup {k} ELSE wire
  /\ UNCHANGED <<runtime, tomb, task, created>>

Close(R, k, status) == [R EXCEPT ![k].status = status, ![k].holder = None]

\* ResultDispatcher.claim: an exhausted row fails at once
ExhaustResult ==
  /\ rows["RESULT"].status = "PENDING" /\ rows["RESULT"].holder = None
  /\ rows["RESULT"].attempts >= MaxAttempts
  /\ rows' = Close(rows, "RESULT", "FAILED")
  /\ UNCHANGED <<runtime, worker, sender>>

(* A lease that is over does not protect its holder, nor stop the next     *)
(* claim.  A sender that has died does nothing until then.                 *)
Lapse(k) ==
  /\ rows[k].holder # None
  /\ rows' = [rows EXCEPT ![k].holder = None]
  /\ UNCHANGED <<runtime, worker, sender>>

(* What the other side has made durable, and every copy of the request     *)
(* confirms: the task, the tombstone, the inbox row.                       *)
Confirmed(k) ==
  CASE k = "SUBMIT" -> task.status # "ABSENT"
    [] k = "CANCEL" -> tomb
    [] k = "RESULT" -> inbox # "none"

(* What the sender may hear: a confirmation, a 4xx (a tombstone, or        *)
(* validation, authentication and limits outside this module, but not of a *)
(* first request that was carried out), no usable answer in time, or       *)
(* nothing because nothing was sent.                                       *)
Answers(s) ==
  LET k == sender[s].cmd IN
  IF ~sender[s].sent THEN {"stop"}
  ELSE {"retry"} \cup (IF Confirmed(k) THEN {"ok"} ELSE {})
                 \cup (IF Confirmed(k) /\ rows[k].attempts = 1 THEN {} ELSE {"refused"})

\* The lease as it was claimed, and not over
Held(s) ==
  /\ sender[s] # Asleep
  /\ rows[sender[s].cmd].status = "PENDING" /\ rows[sender[s].cmd].holder = s

Final(s, a) == a \in {"stop", "refused"} \/ rows[sender[s].cmd].attempts >= MaxAttempts

\* add_cancel_command: once per operation
AddCancel(R) == IF R["CANCEL"].status = "ABSENT" THEN [R EXCEPT !["CANCEL"] = Fresh] ELSE R

Late == Abandoned \/ runCancel \/ run = "ENDED"

\* _admit: the Worker has the task; too late for it means to cancel it
Admit(R) ==
  /\ rows' = IF Late THEN AddCancel(R) ELSE R
  /\ op' = [op EXCEPT !.bound = TRUE,
                      !.status = IF Late THEN "LATE"
                                 ELSE IF @ = "SUBMIT_PENDING" THEN "SUBMITTED" ELSE @]
  /\ events' = IF Late THEN events ELSE events \cup {"accepted"}

\* mutant: an exhausted submission is taken for one that created no task
FailSubmission_NoCancel(R) ==
  /\ rows' = R
  /\ op' = [op EXCEPT !.status = "FAILED"]
  /\ events' = events \cup {"rejected"}

\* _fail_submission: nobody knows whether there is a task, so it is cancelled
FailSubmission(R) ==
  /\ rows' = AddCancel(R)
  /\ op' = [op EXCEPT !.status = "FAILED"]
  /\ events' = events \cup {"rejected"}

\* ControlDispatcher._complete under the locks of run, operation and row
CompleteControl(s) ==
  LET k == sender[s].cmd IN
  /\ Held(s) /\ k # "RESULT"
  /\ \E a \in Answers(s) :
       \/ a = "ok" /\ k = "SUBMIT" /\ Admit(Close(rows, k, "SENT"))
       \/ a = "ok" /\ k = "CANCEL" /\ rows' = Close(rows, k, "SENT") /\ UNCHANGED <<op, events>>
       \/ /\ a # "ok" /\ Final(s, a) /\ k = "SUBMIT" /\ op.status \notin OpTerminal
          /\ FailSubmission(Close(rows, k, "FAILED"))
       \/ /\ a # "ok" /\ Final(s, a) /\ (k = "CANCEL" \/ op.status \in OpTerminal)
          /\ rows' = Close(rows, k, "FAILED") /\ UNCHANGED <<op, events>>
       \/ /\ a # "ok" /\ ~Final(s, a)
          /\ rows' = Close(rows, k, "PENDING") /\ UNCHANGED <<op, events>>
  /\ Sleep(s)
  /\ UNCHANGED <<join, publishes, run, runCancel, overdue, inbox, seen, worker>>

\* ResultDispatcher.ack and _reject
CompleteResult(s) ==
  /\ Held(s) /\ sender[s].cmd = "RESULT"
  /\ \E a \in Answers(s) :
       rows' = Close(rows, "RESULT", IF a = "ok" THEN "SENT"
                                     ELSE IF Final(s, a) THEN "FAILED" ELSE "PENDING")
  /\ Sleep(s)
  /\ UNCHANGED <<runtime, worker>>

\* The lease is over: whatever the answer was, nothing is written
CompleteVoid(s) ==
  /\ sender[s] # Asleep /\ ~Held(s)
  /\ Sleep(s)
  /\ UNCHANGED <<runtime, worker, rows>>

-----------------------------------------------------------------------------
(* The services behind the requests.  A request stays on the wire: a copy  *)
(* of it may be handled late, at the same time as another, again, or never.*)

\* create_task replays its first answer, or goes on to wait for the lock
SubmitArrives ==
  /\ "SUBMIT" \in wire /\ task.status = "ABSENT"
  /\ wire' = wire \cup {"LOOKED_UP"}
  /\ UNCHANGED <<runtime, tomb, task, created, rows, sender>>

\* mutant: the tombstone is not looked at
SubmitLocked_NoTomb ==
  /\ "LOOKED_UP" \in wire /\ task.status = "ABSENT"
  /\ task' = [task EXCEPT !.status = "QUEUED"]
  /\ created' = created + 1
  /\ UNCHANGED <<runtime, wire, tomb, rows, sender>>

\* mutant: the replay lookup is trusted
SubmitLocked_NoRecheck ==
  /\ "LOOKED_UP" \in wire /\ ~tomb
  /\ task' = [task EXCEPT !.status = "QUEUED"]
  /\ created' = created + 1
  /\ UNCHANGED <<runtime, wire, tomb, rows, sender>>

(* TaskService.create under the operation's lock: a tombstone refuses it,  *)
(* an existing task is the answer, or else it is created.                  *)
SubmitLocked ==
  /\ "LOOKED_UP" \in wire /\ ~tomb /\ task.status = "ABSENT"
  /\ task' = [task EXCEPT !.status = "QUEUED"]
  /\ created' = created + 1
  /\ UNCHANGED <<runtime, wire, tomb, rows, sender>>

\* write_terminal: the end of the task and its result are one transaction
Publish(R) == IF publishes THEN [R EXCEPT !["RESULT"] = Fresh] ELSE R

\* cancel_operation: the tombstone, and the task if there is one
CancelArrives ==
  /\ "CANCEL" \in wire
  /\ tomb' = TRUE
  /\ \/ /\ task.status = "QUEUED"
        /\ task' = [status |-> "ENDED", cancelReq |-> TRUE] /\ rows' = Publish(rows)
     \/ /\ task.status = "RUNNING"
        /\ task' = [task EXCEPT !.cancelReq = TRUE] /\ UNCHANGED rows
     \/ task.status \notin Live /\ UNCHANGED <<task, rows>>
  /\ UNCHANGED <<runtime, wire, created, sender>>

StartTask ==
  /\ task.status = "QUEUED" /\ ~task.cancelReq
  /\ task' = [task EXCEPT !.status = "RUNNING"]
  /\ UNCHANGED <<runtime, wire, tomb, created, rows, sender>>

EndTask ==
  /\ task.status \in Live
  /\ task' = [task EXCEPT !.status = "ENDED"]
  /\ rows' = Publish(rows)
  /\ UNCHANGED <<runtime, wire, tomb, created, sender>>

\* receive_result: stored once, late when nobody waits for it any more
ResultArrives ==
  /\ "RESULT" \in wire /\ inbox = "none"
  /\ LET late == Late \/ overdue IN
     /\ inbox' = IF late THEN "late" ELSE "fresh"
     /\ op' = [op EXCEPT !.bound = TRUE,
                         !.status = IF late THEN "LATE" ELSE "RESULT_RECEIVED"]
  /\ UNCHANGED <<join, publishes, run, runCancel, overdue, events, seen, worker, rows, sender>>

-----------------------------------------------------------------------------
(* The run and its executor. *)

Owned == run = "RUNNING" /\ ~overdue

\* has_ready: something the model has not been given
HasReady == inbox = "fresh" \/ events \ seen # {}

Materialize ==
  /\ Owned /\ inbox = "fresh"
  /\ inbox' = "materialized"
  /\ op' = [op EXCEPT !.status = "MATERIALIZED"]
  /\ events' = events \cup {"result"}
  /\ UNCHANGED <<join, publishes, run, runCancel, overdue, seen, worker, rows, sender>>

\* drain_ready reads what is persisted after the cursor
Drain ==
  /\ Owned /\ seen # events
  /\ seen' = events
  /\ UNCHANGED <<join, publishes, run, runCancel, overdue, op, inbox, events, worker, rows, sender>>

\* _complete_consumed
Consumed == IF op.status = "MATERIALIZED" /\ "result" \in seen
            THEN [op EXCEPT !.status = "COMPLETED"] ELSE op

Checkpoint ==
  /\ Owned
  /\ op' = Consumed
  /\ UNCHANGED <<join, publishes, run, runCancel, overdue, inbox, events, seen, worker, rows, sender>>

\* _has_dependency
Pending(o) == o.status = "SUBMIT_PENDING" \/ (join /\ o.status \notin OpTerminal)

\* mutant: waits without looking for something ready
TryWait_Blind ==
  /\ Owned
  /\ op' = Consumed
  /\ run' = IF Pending(op') THEN "WAITING" ELSE "FINISHING"
  /\ UNCHANGED <<join, publishes, runCancel, overdue, inbox, events, seen, worker, rows, sender>>

\* try_wait: the checkpoint, then go on, wait, or finish
TryWait ==
  /\ Owned
  /\ op' = Consumed
  /\ run' = IF HasReady THEN run ELSE IF Pending(op') THEN "WAITING" ELSE "FINISHING"
  /\ UNCHANGED <<join, publishes, runCancel, overdue, inbox, events, seen, worker, rows, sender>>

\* claim_continuation: another executor goes on from the cursor
Wake ==
  /\ run = "WAITING" /\ ~runCancel /\ ~overdue /\ HasReady
  /\ run' = "RUNNING"
  /\ UNCHANGED <<join, publishes, runCancel, overdue, op, inbox, events, seen, worker, rows, sender>>

\* cancel_operations: unless it has ended, or belongs to nobody any more
CancelOperation ==
  IF op.status \notin OpTerminal /\ (join \/ op.status = "SUBMIT_PENDING")
  THEN /\ op' = [op EXCEPT !.status = "CANCELLED", !.cancelReq = TRUE]
       /\ rows' = AddCancel(rows)
  ELSE UNCHANGED <<op, rows>>

\* RunService._cancel of a run that is executing: only a request
AskCancel ==
  /\ run \in {"RUNNING", "FINISHING"}
  /\ runCancel' = TRUE
  /\ CancelOperation
  /\ UNCHANGED <<join, publishes, run, overdue, inbox, events, seen, worker, sender>>

(* The run fails, is reaped, is over its deadline, or is cancelled. *)
EndRun ==
  /\ run # "ENDED" /\ run' = "ENDED"
  /\ CancelOperation
  /\ UNCHANGED <<join, publishes, runCancel, overdue, inbox, events, seen, worker, sender>>

CompleteRun ==
  /\ run = "FINISHING" /\ ~runCancel /\ ~overdue
  /\ run' = "ENDED"
  /\ UNCHANGED <<join, publishes, runCancel, overdue, op, inbox, events, seen, worker, rows, sender>>

DeadlinePasses ==
  /\ ~overdue /\ overdue' = TRUE
  /\ UNCHANGED <<join, publishes, run, runCancel, op, inbox, events, seen, worker, rows, sender>>

-----------------------------------------------------------------------------
Next ==
  \/ \E s \in Sender :
       \/ \E k \in Command : Claim(s, k)
       \/ CompleteControl(s) \/ CompleteResult(s) \/ CompleteVoid(s)
  \/ \E k \in Command : Lapse(k)
  \/ ExhaustResult
  \/ SubmitArrives \/ SubmitLocked \/ CancelArrives \/ ResultArrives
  \/ StartTask \/ EndTask
  \/ Materialize \/ Drain \/ Checkpoint \/ TryWait \/ Wake
  \/ AskCancel \/ EndRun \/ CompleteRun \/ DeadlinePasses

Spec == Init /\ [][Next]_vars

(* Both dispatch loops run forever.  A lease lasts longer than a request   *)
(* may take (the constructors refuse anything else), so a row that is      *)
(* claimed again and again is completed under its lease at last.  The      *)
(* Worker ends every task (TaskLease), a ready run is claimed, a run over  *)
(* its deadline is ended.  Requests need not arrive.                       *)
FairSpec ==
  /\ Spec
  /\ WF_vars(\E s \in Runtime, k \in Command : Claim(s, k))
  /\ WF_vars(\E s \in Worker : Claim(s, "RESULT"))
  /\ WF_vars(ExhaustResult)
  /\ \A s \in Sender : WF_vars(CompleteVoid(s))
  /\ \A k \in Command : WF_vars(Lapse(k))
  /\ SF_vars(\E s \in Runtime : sender[s].cmd = "SUBMIT" /\ CompleteControl(s))
  /\ SF_vars(\E s \in Worker : CompleteResult(s))
  /\ WF_vars(EndTask) /\ WF_vars(Wake) /\ WF_vars(overdue /\ EndRun)
-----------------------------------------------------------------------------
(* Properties. *)

TypeOK ==
  /\ {join, publishes, runCancel, overdue, tomb} \subseteq BOOLEAN
  /\ run \in {"RUNNING", "WAITING", "FINISHING", "ENDED"}
  /\ op \in [status : OpStatus, cancelReq : BOOLEAN, bound : BOOLEAN]
  /\ inbox \in {"none", "fresh", "late", "materialized"}
  /\ seen \subseteq events
  /\ events \subseteq {"accepted", "rejected", "result"}
  /\ rows \in [Command -> [status : {"ABSENT", "PENDING", "SENT", "FAILED"},
                           attempts : 0..MaxAttempts, holder : Sender \cup {None}]]
  /\ sender \in [Sender -> [cmd : Command \cup {"none"}, sent : BOOLEAN]]
  /\ wire \subseteq Command \cup {"LOOKED_UP"}
  /\ created \in Nat
  /\ task \in [status : {"ABSENT", "ENDED"} \cup Live, cancelReq : BOOLEAN]

(* A confirmed cancel is final: when the Runtime has the acknowledgement,  *)
(* no submission that is still on its way, and no execution, can make the  *)
(* task run on unaware of it.                                              *)
CancelWins ==
  rows["CANCEL"].status = "SENT" =>
    tomb /\ (task.status \in Live => task.cancelReq)

(* Work that its run has given up is never left alone: while the task      *)
(* exists or may still come to exist, its cancellation is under way, done, *)
(* or has been refused or exhausted with an alert.                         *)
NoOrphanWork ==
  op.status \in {"FAILED", "CANCELLED", "LATE"}
  /\ (task.status \in Live \/ (task.status = "ABSENT" /\ "SUBMIT" \in wire))
  => rows["CANCEL"].status # "ABSENT"

(* However often the submission is sent, delayed and handled at the same   *)
(* time, one tool call creates one task.                                   *)
OneTaskPerCall == created <= 1

(* A command is SENT only when the other side has made it durable: the     *)
(* task exists and the run knows it, the result is in the inbox.           *)
SentIsDurable ==
  /\ rows["SUBMIT"].status = "SENT" => created > 0 /\ op.bound
  /\ rows["RESULT"].status = "SENT" => inbox # "none"

(* A waiting run has something to wait for: a submission that will be      *)
(* confirmed or failed, a task that will end, a result that will be sent,  *)
(* or something ready to wake it.                                          *)
NoLostWakeup ==
  run = "WAITING" /\ ~overdue =>
    \/ HasReady
    \/ rows["SUBMIT"].status = "PENDING"
    \/ task.status \in Live
    \/ rows["RESULT"].status \in {"PENDING", "FAILED"}

(* Every variable keeps its type; one call makes one task, what is SENT    *)
(* is durable on the other side, and a waiting run has something to wait   *)
(* for, whatever is sent, lost, repeated or handled at the same time.      *)
Inv == TypeOK /\ OneTaskPerCall /\ SentIsDurable /\ NoLostWakeup

(* A run does not wait for ever, with no help from its deadline, unless    *)
(* the delivery of the result has failed with an alert.                    *)
WaitEnds == run = "WAITING" ~> run # "WAITING" \/ rows["RESULT"].status = "FAILED"
=============================================================================
