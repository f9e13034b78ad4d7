----------------------------- MODULE BatchTree -----------------------------
(***************************************************************************)
(* A batch: a parent task whose Skill returns a plan, the children that    *)
(* fan-out inserts for it, and the fan-in that ends the parent inside the  *)
(* transaction that ends its last child.  Source: agent-worker's           *)
(* application/batch_fanout.py, batch_fanin.py, task_cancel.py,            *)
(* terminal_tasks.py, task_service.py (cancel), worker/executor.py and the *)
(* transactions of worker/service.py and scheduler/service.py that end     *)
(* with settle_child or cancel_children.                                   *)
(*                                                                         *)
(* TaskLease shows that the lease leaves one execution of a task that may  *)
(* write; here that execution is run[t], the lease is live or lapsed, and  *)
(* backoffs are over at once.  Each action is one transaction, under the   *)
(* locks of lock_task_tree.                                                *)
(***************************************************************************)
EXTENDS Naturals, FiniteSets

CONSTANTS
  Task,           \* rows of the tree
  Root,           \* the row the API created
  None,           \* no parent
  ParentOf,       \* parent_id: [Task -> Task \cup {None}]
  Depth,          \* how many parents are above a task: [Task -> Nat]
  PlatformLimit,  \* batch_platform_limit, the most a plan may be given
  BestEffort,     \* tasks whose plan says aggregate_mode BEST_EFFORT
  RetrySafe,      \* tasks whose frozen retry_safety allows another attempt
  MaxAttempts,    \* max_attempts, children inherit it
  CascadeDepth,   \* MAX_CASCADE_DEPTH
  Polls           \* tasks whose Skill may ask to be polled again

Children(t) == {c \in Task : ParentOf[c] = t}

ASSUME TreeAssumption ==
  /\ IsFiniteSet(Task) /\ Root \in Task /\ None \notin Task
  /\ ParentOf \in [Task -> Task \cup {None}]
  /\ \A t \in Task : ParentOf[t] = None <=> t = Root
  /\ Depth \in [Task -> Nat] /\ Depth[Root] = 0
  /\ \A t \in Task \ {Root} : Depth[t] = Depth[ParentOf[t]] + 1
  /\ PlatformLimit \in Nat \ {0} /\ MaxAttempts \in Nat \ {0} /\ CascadeDepth \in Nat \ {0}
  /\ BestEffort \subseteq Task /\ RetrySafe \subseteq Task /\ Polls \subseteq Task

VARIABLES
  rows,     \* task_execution, one record per task of the tree
  run,      \* what the execution that owns the task is doing
  lapsed,   \* the lease of the task is over
  overdue,  \* deadline_at has passed: children inherit it from their parent
  concurrency  \* effective_concurrency of the plans, frozen

vars == <<rows, run, lapsed, overdue, concurrency>>

Idle     == {"QUEUED", "WAITING"}
Terminal == {"COMPLETED", "FAILED", "CANCELLED"}

Row == [status : {"ABSENT", "RUNNING"} \cup Idle \cup Terminal,
        parked : BOOLEAN,      \* not_before is PARKED_NOT_BEFORE
        cancelReq : BOOLEAN,   \* cancel_requested
        batch : BOOLEAN,       \* task_type is BATCH
        attempt : Nat]

Fresh(s, parked) ==
  [status |-> s, parked |-> parked, cancelReq |-> FALSE, batch |-> FALSE, attempt |-> 0]

Pending(R, t) == R[t].status \in Idle \cup {"RUNNING"}
Parked(R, t)  == R[t].status = "QUEUED" /\ R[t].parked
Active(R, t)  == Pending(R, t) /\ ~Parked(R, t)

Init ==
  /\ rows = [t \in Task |-> IF t = Root THEN Fresh("QUEUED", FALSE) ELSE Fresh("ABSENT", FALSE)]
  /\ run = [t \in Task |-> "none"]
  /\ lapsed = [t \in Task |-> FALSE]
  /\ overdue = FALSE
  /\ concurrency \in 1..PlatformLimit

-----------------------------------------------------------------------------
(* The pieces of a transaction, as functions from rows to rows. *)

End(R, t, s, cancel) ==
  [R EXCEPT ![t].status = s, ![t].cancelReq = @ \/ cancel]

\* The sets of parked children that _release_parked may let go at once
Free(R, p) ==
  LET parked == {c \in Children(p) : Parked(R, c)}
      active == Cardinality({c \in Children(p) : Active(R, c)})
      slots  == IF active < concurrency THEN concurrency - active ELSE 0
      n      == IF Cardinality(parked) < slots THEN Cardinality(parked) ELSE slots
  IN  {S \in SUBSET parked : Cardinality(S) = n}

Aggregate_AnyChild(R, p) ==
  IF p \in BestEffort \/ \E c \in Children(p) : R[c].status = "COMPLETED"
  THEN "COMPLETED" ELSE "FAILED"

Aggregate(R, p) ==
  IF p \in BestEffort \/ \A c \in Children(p) : R[c].status = "COMPLETED"
  THEN "COMPLETED" ELSE "FAILED"

(* settle_child after c has ended: the parent waits for the others and     *)
(* lets parked ones go, or ends too, unless a cancel was asked for.        *)
SettleChild(R, c) ==
  LET p == ParentOf[c] IN
  IF c = Root \/ R[p].status \in Terminal THEN {R}
  ELSE IF \E d \in Children(p) : Pending(R, d)
       THEN {[t \in Task |-> IF t \in S THEN [R[t] EXCEPT !.parked = FALSE] ELSE R[t]] :
               S \in Free(R, p)}
       ELSE IF R[p].cancelReq THEN {R}
       ELSE {[R EXCEPT ![p].status = Aggregate(R, p)]}

\* mutant: one level only
CancelChildren_OneLevel(R, p) ==
  [t \in Task |->
     IF ParentOf[t] # p THEN R[t]
     ELSE IF R[t].status \in Idle THEN [R[t] EXCEPT !.status = "CANCELLED", !.cancelReq = TRUE]
     ELSE IF R[t].status = "RUNNING" THEN [R[t] EXCEPT !.cancelReq = TRUE]
     ELSE R[t]]

\* What a level of cancel_children changes: idle tasks, and running ones not told yet
Hit(R, t) == R[t].status \in Idle \/ (R[t].status = "RUNNING" /\ ~R[t].cancelReq)

(* cancel_children goes down CascadeDepth levels, and follows only what it *)
(* has changed: t is reached when the tasks from a child of p down to t    *)
(* are all hit.                                                            *)
Reached(R, p) ==
  LET hits     == {t \in Task : /\ Depth[p] < Depth[t] /\ Depth[t] <= Depth[p] + CascadeDepth
                                /\ Hit(R, t)}
      Chain(S) == \A t \in S : ParentOf[t] = p \/ ParentOf[t] \in S
  IN  UNION {S \in SUBSET hits : Chain(S)}

\* cancel_children: idle ones end, running ones are told
CancelChildren(R, p) ==
  LET reached == Reached(R, p)
  IN  [t \in Task |->
         IF t \notin reached THEN R[t]
         ELSE IF R[t].status \in Idle
              THEN [R[t] EXCEPT !.status = "CANCELLED", !.cancelReq = TRUE]
              ELSE [R[t] EXCEPT !.cancelReq = TRUE]]

(* The ways a transaction can end task t with status s. *)
Ends(t, s) ==
  rows' \in SettleChild(
              IF s = "CANCELLED" THEN CancelChildren(End(rows, t, s, TRUE), t)
              ELSE End(rows, t, s, FALSE), t)

-----------------------------------------------------------------------------
\* mutant: the parking date is not looked at
Claimable_Parked(t) ==
  /\ rows[t].status \in Idle /\ ~rows[t].cancelReq /\ ~overdue

Claimable(t) ==
  /\ rows[t].status \in Idle /\ ~rows[t].parked /\ ~rows[t].cancelReq /\ ~overdue

(* A batch parent that is claimed again runs no Skill: it parks at once. *)
Claim(t) ==
  /\ Claimable(t)
  /\ rows' = [rows EXCEPT ![t].status = "RUNNING",
                          ![t].attempt = IF rows[t].status = "QUEUED" THEN @ + 1 ELSE @]
  /\ run' = [run EXCEPT ![t] = IF rows[t].batch THEN "parking" ELSE "skill"]
  /\ lapsed' = [lapsed EXCEPT ![t] = FALSE]
  /\ UNCHANGED <<overdue, concurrency>>

OwnsForFanOut(t) == rows[t].status = "RUNNING" /\ ~rows[t].cancelReq

(* fan_out: the first children may be claimed, the rest is parked.  The    *)
(* clock was read before the settings were fetched and the row was locked, *)
(* so a lease that has lapsed since then is not noticed.                   *)
FanOut(t) ==
  /\ run[t] = "skill" /\ Children(t) # {}
  /\ OwnsForFanOut(t)
  /\ \E S \in SUBSET Children(t) :
       /\ Cardinality(S) = IF Cardinality(Children(t)) < concurrency
                           THEN Cardinality(Children(t)) ELSE concurrency
       /\ rows' = [c \in Task |->
                     IF c = t THEN [rows[t] EXCEPT !.batch = TRUE]
                     ELSE IF c \in Children(t) /\ rows[c].status = "ABSENT"
                          THEN Fresh("QUEUED", c \notin S) ELSE rows[c]]
  /\ run' = [run EXCEPT ![t] = "parking"]
  /\ UNCHANGED <<lapsed, overdue, concurrency>>

(* fan_out refuses: the lease has lapsed, a cancel is pending, or the      *)
(* process clock it asks runs ahead of the database's, so any lease may    *)
(* look lapsed to it.                                                      *)
FanOutStale(t) ==
  /\ run[t] = "skill" /\ Children(t) # {}
  /\ run' = [run EXCEPT ![t] = "refused"]
  /\ UNCHANGED <<rows, lapsed, overdue, concurrency>>

(* The transactions of the execution that owns t.  A lease that lapsed     *)
(* after the transaction read its clock does not stop it.                  *)
Owns(t) == run[t] # "none" /\ rows[t].status = "RUNNING"

Leave(t) ==
  /\ run' = [run EXCEPT ![t] = "none"]
  /\ lapsed' = [lapsed EXCEPT ![t] = FALSE]
  /\ UNCHANGED <<overdue, concurrency>>

Complete(t) ==
  /\ Owns(t) /\ run[t] = "skill" /\ ~rows[t].cancelReq /\ ~overdue
  /\ Leave(t)
  /\ Ends(t, "COMPLETED")

\* _wait: a parent parks for good, a Skill that polls comes back
Wait(t) ==
  /\ Owns(t) /\ ~rows[t].cancelReq /\ ~overdue
  /\ run[t] = "parking" \/ (run[t] = "skill" /\ t \in Polls)
  /\ rows' = [rows EXCEPT ![t].status = "WAITING", ![t].parked = (run[t] = "parking")]
  /\ Leave(t)

\* The Skill failed, or the heartbeat was lost: retried when that is safe
Retry(t) ==
  /\ Owns(t) /\ run[t] # "refused" /\ ~rows[t].cancelReq
  /\ t \in RetrySafe /\ rows[t].attempt < MaxAttempts
  /\ rows' = [rows EXCEPT ![t].status = "QUEUED", ![t].parked = FALSE]
  /\ Leave(t)

\* A refused fan-out that is not cancelled writes only under a lease it still holds
Fail(t) ==
  /\ Owns(t) /\ ~rows[t].cancelReq
  /\ ~(run[t] = "refused" /\ lapsed[t])
  /\ Leave(t)
  /\ Ends(t, "FAILED")

\* The owner writes CANCELLED: it was told to, or its Skill said so
StopRun(t) ==
  /\ Owns(t)
  /\ rows[t].cancelReq \/ run[t] = "skill"
  /\ Leave(t)
  /\ Ends(t, "CANCELLED")

\* The execution is gone and wrote nothing: a crash, a database error, a lost lease
Vanish(t) ==
  /\ run[t] # "none"
  /\ run' = [run EXCEPT ![t] = "none"]
  /\ UNCHANGED <<rows, lapsed, overdue, concurrency>>

Lapse(t) ==
  /\ rows[t].status = "RUNNING" /\ ~lapsed[t]
  /\ lapsed' = [lapsed EXCEPT ![t] = TRUE]
  /\ UNCHANGED <<rows, run, overdue, concurrency>>

-----------------------------------------------------------------------------
Requeues(t) ==
  /\ ~rows[t].cancelReq /\ rows[t].attempt < MaxAttempts
  /\ rows[t].batch \/ t \in RetrySafe

\* mutant: a reclaimed child is not settled
Reclaim_Unsettled(t) ==
  /\ rows[t].status = "RUNNING" /\ lapsed[t]
  /\ \/ rows[t].cancelReq /\ Ends(t, "CANCELLED")
     \/ ~rows[t].cancelReq /\ ~Requeues(t) /\ rows' = End(rows, t, "FAILED", FALSE)
     \/ Requeues(t) /\ rows' = [rows EXCEPT ![t].status = "QUEUED", ![t].parked = FALSE]
  /\ Leave(t)

\* _reclaim_task: a batch parent is requeued whatever its retry_safety says
Reclaim(t) ==
  /\ rows[t].status = "RUNNING" /\ lapsed[t]
  /\ \/ rows[t].cancelReq /\ Ends(t, "CANCELLED")
     \/ ~rows[t].cancelReq /\ ~Requeues(t) /\ Ends(t, "FAILED")
     \/ Requeues(t) /\ rows' = [rows EXCEPT ![t].status = "QUEUED", ![t].parked = FALSE]
  /\ Leave(t)

DeadlinePasses == ~overdue /\ overdue' = TRUE /\ UNCHANGED <<rows, run, lapsed, concurrency>>

\* DeadlineSweeper.sweep: one transaction per task, in any order
Sweep(t) ==
  /\ overdue /\ Pending(rows, t)
  /\ Leave(t)
  /\ Ends(t, "FAILED")

\* TaskService.cancel of any task of the tree
Cancel(t) ==
  \/ /\ rows[t].status \in Idle
     /\ Ends(t, "CANCELLED")
     /\ UNCHANGED <<run, lapsed, overdue, concurrency>>
  \/ /\ rows[t].status = "RUNNING"
     /\ rows' = CancelChildren([rows EXCEPT ![t].cancelReq = TRUE], t)
     /\ UNCHANGED <<run, lapsed, overdue, concurrency>>

Conclude(t) == Complete(t) \/ Retry(t) \/ Fail(t) \/ StopRun(t)

Next ==
  \/ DeadlinePasses
  \/ \E t \in Task :
       \/ Claim(t) \/ FanOut(t) \/ FanOutStale(t) \/ Wait(t) \/ Conclude(t)
       \/ Vanish(t) \/ Lapse(t) \/ Reclaim(t) \/ Sweep(t) \/ Cancel(t)

Spec == Init /\ [][Next]_vars

(* Slots keep claiming, executions end somehow (every Skill run has a      *)
(* timeout), leases nobody renews lapse, and the maintenance and sweep     *)
(* loops run forever.  No task is promised its turn, nor the deadline.     *)
FairSpec ==
  /\ Spec
  /\ WF_vars(\E t \in Task : Claim(t))
  /\ WF_vars(\E t \in Task : Vanish(t) \/ Wait(t) \/ Conclude(t) \/ FanOut(t))
  /\ WF_vars(\E t \in Task : run[t] = "none" /\ Lapse(t))
  /\ WF_vars(\E t \in Task : Reclaim(t))
  /\ WF_vars(\E t \in Task : Sweep(t))
-----------------------------------------------------------------------------
(* Properties. *)

TypeOK ==
  /\ rows \in [Task -> Row]
  /\ run \in [Task -> {"none", "skill", "parking", "refused"}]
  /\ lapsed \in [Task -> BOOLEAN]
  /\ overdue \in BOOLEAN
  /\ concurrency \in 1..PlatformLimit

Batch(t) == rows[t].batch

(* However children end, retry, wait or are cancelled, no more of them     *)
(* than the plan allows are at large: running, queued, backing off or      *)
(* waiting for an external job.                                            *)
ConcurrencyCap ==
  \A p \in Task : Cardinality({c \in Children(p) : Active(rows, c)}) <= concurrency

(* A live batch uses its concurrency: no child stays parked while a place  *)
(* is free.  Only a child that is a batch itself may leave its place empty *)
(* when its own children end it: that fan-in does not settle its parent.   *)
NoLostPlace ==
  \A p \in Task :
    /\ Batch(p) /\ Pending(rows, p) /\ ~rows[p].cancelReq
    /\ \E c \in Children(p) : Parked(rows, c)
    /\ \A c \in Children(p) : ~Batch(c)
    => Cardinality({c \in Children(p) : Active(rows, c)}) = concurrency

(* Rows keep their type, and through every end, retry, wait, cancel and    *)
(* reclaim a live batch keeps exactly its number of children at large.     *)
Inv == TypeOK /\ ConcurrencyCap /\ NoLostPlace

(* The last child to end takes its parent with it: no batch is left        *)
(* waiting for children that have all ended.  Only a child that is a batch *)
(* itself may leave it so: the fan-in that ends such a child is not        *)
(* followed by one of its parent.                                          *)
FanInIsAtomic ==
  \A p \in Task :
    Batch(p) /\ Pending(rows, p) /\ ~rows[p].cancelReq =>
      \E c \in Children(p) : Pending(rows, c) \/ Batch(c)

(* A batch succeeds only over the children it really has, and keeps that   *)
(* verdict: in mode ALL each of them has succeeded, in BEST_EFFORT each of *)
(* them has ended.                                                         *)
SuccessIsEarned ==
  \A p \in Task :
    Batch(p) /\ rows[p].status = "COMPLETED" =>
      \A c \in Children(p) :
        rows[c].status \in IF p \in BestEffort THEN Terminal ELSE {"COMPLETED"}

(* Once a batch is being cancelled every child of it that has not ended    *)
(* knows, whichever of the two was running, fanning out or being reclaimed *)
(* at the time.  It is so on the CascadeDepth levels that the cascade of a *)
(* cancelled root goes down.                                               *)
CancelReachesChildren ==
  \A p \in Task :
    Depth[p] < CascadeDepth /\ rows[p].cancelReq =>
      \A c \in Children(p) : Pending(rows, c) => rows[c].cancelReq

\* A live batch with no child at large, which the end of a nested batch left behind
Stranded(p) ==
  /\ Batch(p) /\ Pending(rows, p) /\ ~rows[p].cancelReq
  /\ \A d \in Children(p) : ~Active(rows, d)
  /\ \E d \in Children(p) : Batch(d)

(* What docs/10 section 9.2 says of every child, also of one that is a     *)
(* batch: its end looks at its siblings and ends or releases them.         *)
NoBatchIsStranded == \A p \in Task : ~Stranded(p)

(* Whatever crashes and with or without a deadline, the batch ends, unless *)
(* a Skill asks for ever to be polled again or a nested batch strands it.  *)
BatchEnds ==
  \/ <>(rows[Root].status \in Terminal \/ \E p \in Task : Stranded(p))
  \/ []<>(\E t \in Polls : rows[t].status = "WAITING")
=============================================================================
