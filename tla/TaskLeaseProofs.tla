-------------------------- MODULE TaskLeaseProofs --------------------------
(***************************************************************************)
(* Proofs about TaskLease, for every instance of it: any number of tasks,  *)
(* processes and slots, also processes that claim a task they still run.   *)
(***************************************************************************)
EXTENDS TaskLease, FiniteSetTheorems, TLAPS

-----------------------------------------------------------------------------
(* Type correctness. *)

RowTypes ==
  /\ status \in [Task -> Idle \cup {"RUNNING"} \cup Terminal]
  /\ owner \in [Task -> Instance \cup {None}]
  /\ leaseUntil \in [Task -> Nat]
  /\ attempt \in [Task -> Nat]
  /\ notBefore \in [Task -> Nat]
  /\ cancelReq \in [Task -> BOOLEAN]
  /\ code \in [Task -> Codes]

ExecTypes ==
  exec \in [Exec -> [phase : {"idle", "run", "done", "write"},
                     inst : Instance \cup {None}, task : Task \cup {None},
                     att : Nat, res : Results \cup {"none"}, moment : Nat]]

\* A slot that works has a process, a task and an attempt
LiveOK ==
  \A e \in Exec : Live(e) =>
    exec[e].inst \in Instance /\ exec[e].task \in Task /\ exec[e].att >= 1

\* A task that has been claimed is in an attempt
Begun == \A t \in Task : status[t] \in {"RUNNING", "WAITING"} => attempt[t] >= 1

TypeInv == TypeOK /\ LiveOK /\ Begun

\* The retry delay is a number for every attempt the budget allows
LEMMA BackoffType ==
  ASSUME NEW t \in Task, NEW a \in Nat, a >= 1, a < MaxAttempts[t]
  PROVE  Backoff[a] \in Nat
<1>1. MaxAttempts[t] \in 1..AttemptLimit /\ AttemptLimit \in Nat
  BY ConstantsAssumption
<1>2. a \in 1..AttemptLimit
  BY <1>1
<1> QED BY <1>2, BackoffAssumption

\* write_terminal: it never leaves a terminal status and writes only its row
LEMMA WriteTerminalTypes ==
  ASSUME RowTypes, Begun, NEW t \in Task, NEW s \in Terminal, NEW c \in Codes,
         NEW cancel \in BOOLEAN, WriteTerminal(t, s, c, cancel)
  PROVE  RowTypes' /\ Begun'
<1>1. RowTypes'
  BY ConstantsAssumption DEF RowTypes, WriteTerminal, Idle, Terminal, Codes
<1>2. Begun'
  BY DEF RowTypes, Begun, WriteTerminal, Idle, Terminal
<1> QED BY <1>1, <1>2

\* Releasing a lease leaves a row that can be claimed again
LEMMA ReleaseTypes ==
  ASSUME RowTypes, Begun, NEW t \in Task, status[t] = "RUNNING", NEW s \in Idle,
         NEW nb \in Nat, NEW c \in Codes, Release(t, s, nb, c)
  PROVE  RowTypes' /\ Begun'
<1>1. RowTypes'
  BY ConstantsAssumption DEF RowTypes, Release, Idle, Terminal, Codes
<1>2. Begun'
  BY DEF RowTypes, Begun, Release, Idle, Terminal
<1> QED BY <1>1, <1>2

\* Whatever a slot's last transaction decides is a legal row
LEMMA ConcludeTypes ==
  ASSUME TypeInv, NEW e \in Exec, exec[e].phase = "write", Conclude(e)
  PROVE  RowTypes' /\ Begun'
<1> DEFINE t == exec[e].task
<1>1. t \in Task /\ exec[e].att \in Nat /\ exec[e].att >= 1 /\ exec[e].moment \in Nat
  BY DEF TypeInv, TypeOK, LiveOK, Live
<1>2. RowTypes /\ Begun /\ code[t] \in Codes
  BY <1>1 DEF TypeInv, TypeOK, RowTypes
<1>3. CASE UNCHANGED row
  BY <1>2, <1>3 DEF row, RowTypes, Begun
<1>4. CASE WriteTerminal(t, "CANCELLED", "none", TRUE)
  BY <1>1, <1>2, <1>4, WriteTerminalTypes DEF Terminal, Codes
<1>5. CASE status[t] = "RUNNING" /\ WriteOutcome(e)
  <2>1. CASE exec[e].res = "wait" /\ \E d \in WaitDelays : Release(t, "WAITING", exec[e].moment + d, code[t])
    <3>1. PICK d \in WaitDelays : Release(t, "WAITING", exec[e].moment + d, code[t])
      BY <2>1
    <3>2. exec[e].moment + d \in Nat
      BY <1>1, ConstantsAssumption
    <3> QED BY <3>1, <3>2, <1>1, <1>2, <1>5, ReleaseTypes DEF Idle
  <2>2. CASE Retries(e) /\ Release(t, "QUEUED", exec[e].moment + Backoff[exec[e].att], "error")
    <3>1. exec[e].moment + Backoff[exec[e].att] \in Nat
      BY <1>1, <2>2, BackoffType DEF Retries
    <3> QED BY <3>1, <2>2, <1>1, <1>2, <1>5, ReleaseTypes DEF Idle, Codes
  <2>3. CASE \E s \in Terminal, c \in Codes : WriteTerminal(t, s, c, FALSE)
    BY <2>3, <1>1, <1>2, WriteTerminalTypes
  <2> QED BY <2>1, <2>2, <2>3, <1>5 DEF WriteOutcome, FailureCode, Terminal, Codes
<1> QED BY <1>3, <1>4, <1>5 DEF Conclude, Holds

\* A lapsed lease leaves a legal row too
LEMMA ReclaimTypes ==
  ASSUME TypeInv, NEW t \in Task, Reclaim(t)
  PROVE  RowTypes' /\ Begun'
<1>1. RowTypes /\ Begun /\ code[t] \in Codes /\ now \in Nat /\ attempt[t] \in Nat
  BY DEF TypeInv, TypeOK, RowTypes
<1>2. status[t] = "RUNNING" /\ attempt[t] >= 1
  BY <1>1 DEF Reclaim, Expired, Begun
<1>3. CASE Requeue(t)
  <2>1. now + Backoff[attempt[t]] \in Nat
    BY <1>1, <1>2, <1>3, BackoffType DEF Requeue
  <2> QED BY <2>1, <1>1, <1>2, <1>3, ReleaseTypes DEF Requeue, Idle
<1>4. CASE ReclaimCancelled(t) \/ ReclaimExhausted(t) \/ ReclaimUnverified(t)
  BY <1>1, <1>4, WriteTerminalTypes
     DEF ReclaimCancelled, ReclaimExhausted, ReclaimUnverified, Terminal, Codes
<1> QED BY <1>3, <1>4 DEF Reclaim, ReclaimOutcome

\* The done callback leaves every other slot as it was
LEMMA VacateTypes ==
  ASSUME TypeInv, NEW e \in Exec, Vacate(e)
  PROVE  ExecTypes' /\ LiveOK' /\ slots' \in [Instance -> SUBSET Task]
<1>1. NoRun \in [phase : {"idle", "run", "done", "write"},
                 inst : Instance \cup {None}, task : Task \cup {None},
                 att : Nat, res : Results \cup {"none"}, moment : Nat]
  BY DEF NoRun
<1>2. ExecTypes'
  BY <1>1 DEF TypeInv, TypeOK, ExecTypes, Vacate
<1>3. LiveOK'
  BY DEF TypeInv, TypeOK, LiveOK, Live, Vacate, NoRun
<1>4. slots' \in [Instance -> SUBSET Task]
  BY DEF TypeInv, TypeOK, Vacate
<1> QED BY <1>2, <1>3, <1>4

\* A slot that goes on keeps its process, its task and its attempt
LEMMA EnterTypes ==
  ASSUME TypeInv, NEW e \in Exec, Live(e), NEW phase \in {"run", "done", "write"},
         NEW r \in Results, NEW m \in Nat, Enter(e, phase, r, m)
  PROVE  ExecTypes' /\ LiveOK'
<1> DEFINE x == [exec[e] EXCEPT !.phase = phase, !.res = r, !.moment = m]
<1>0. ExecTypes
  BY DEF TypeInv, TypeOK, ExecTypes
<1>1. x \in [phase : {"idle", "run", "done", "write"},
             inst : Instance \cup {None}, task : Task \cup {None},
             att : Nat, res : Results \cup {"none"}, moment : Nat]
  BY <1>0 DEF ExecTypes
<1>2. exec' = [exec EXCEPT ![e] = x]
  BY <1>0 DEF Enter, ExecTypes
<1>3. ExecTypes'
  BY <1>0, <1>1, <1>2 DEF ExecTypes
<1>4. LiveOK'
  BY DEF TypeInv, TypeOK, LiveOK, Live, Enter
<1> QED BY <1>3, <1>4

TracesOK ==
  /\ retrySafe \in SUBSET Task
  /\ again \in SUBSET (Instance \X Task)
  /\ strayed \in SUBSET Task

\* The histories only record tasks of the table, and retry_safety is frozen
LEMMA TracesStep ==
  ASSUME TracesOK, LiveOK, [Next]_vars
  PROVE  TracesOK' /\ retrySafe' = retrySafe
<1>1. ASSUME NEW i \in Instance, NEW e \in Exec, NEW t \in Task, Claim(i, e, t)
      PROVE  TracesOK' /\ retrySafe' = retrySafe
  BY <1>1 DEF Claim, TracesOK
<1>2. ASSUME NEW e \in Exec, Settle(e)
      PROVE  TracesOK' /\ retrySafe' = retrySafe
  BY <1>2 DEF Settle, TracesOK, LiveOK, Live
<1>3. ASSUME NEW e \in Exec, Finish(e) \/ Renew(e) \/ StopExecution(e) \/ ReadClock(e) \/ Abandon(e)
      PROVE  UNCHANGED <<traces, retrySafe>>
  BY <1>3 DEF Finish, Renew, StopExecution, ReadClock, Abandon, traces
<1>4. ASSUME NEW t \in Task, Cancel(t) \/ Sweep(t) \/ Reclaim(t)
      PROVE  UNCHANGED <<traces, retrySafe>>
  BY <1>4 DEF Cancel, Sweep, Reclaim, traces
<1>5. CASE Tick \/ UNCHANGED vars \/ \E i \in Instance : Crash(i)
  BY <1>5 DEF Tick, vars, Crash, traces, TracesOK
<1>6. UNCHANGED <<traces, retrySafe>> => TracesOK' /\ retrySafe' = retrySafe
  BY DEF traces, TracesOK
<1> QED BY <1>1, <1>2, <1>3, <1>4, <1>5, <1>6 DEF Next, Slot

\* Every step of Next keeps the typing invariant
LEMMA TypeStep ==
  ASSUME TypeInv, [Next]_vars
  PROVE  TypeInv'
<1> USE DEF TypeInv
<1>0. /\ RowTypes /\ ExecTypes /\ LiveOK /\ Begun
      /\ now \in Nat /\ slots \in [Instance -> SUBSET Task] /\ asked \in SUBSET Task
      /\ TracesOK
  BY DEF TypeOK, RowTypes, ExecTypes, TracesOK
<1>a. /\ RowTypes' /\ ExecTypes' /\ LiveOK' /\ Begun'
      /\ now' \in Nat /\ slots' \in [Instance -> SUBSET Task] /\ asked' \in SUBSET Task
      => TypeInv'
  <2>1. TracesOK'
    BY <1>0, TracesStep
  <2> QED BY <2>1 DEF TypeOK, RowTypes, ExecTypes, TracesOK
<1>b. UNCHANGED row => RowTypes' /\ Begun'
  BY <1>0 DEF row, RowTypes, Begun
<1>c. UNCHANGED exec => ExecTypes' /\ LiveOK'
  BY <1>0 DEF ExecTypes, LiveOK, Live
<1>1. CASE Tick
  BY <1>0, <1>1, <1>a, <1>b, <1>c DEF Tick
<1>2. ASSUME NEW i \in Instance, NEW e \in Exec, NEW t \in Task, Claim(i, e, t)
      PROVE  TypeInv'
  <2>1. PICK a \in Nat :
          /\ a >= 1
          /\ attempt' = [attempt EXCEPT ![t] = a]
          /\ exec' = [exec EXCEPT ![e] = [phase |-> "run", inst |-> i, task |-> t,
                                          att |-> a, res |-> "none", moment |-> 0]]
    <3>1. /\ status[t] \in Idle /\ attempt[t] \in Nat
          /\ status[t] = "WAITING" => attempt[t] >= 1
      BY <1>0, <1>2 DEF Claim, Claimable, RowTypes, Begun
    <3> DEFINE a == IF status[t] = "WAITING" THEN attempt[t] ELSE attempt[t] + 1
    <3>2. a \in Nat /\ a >= 1
      BY <3>1
    <3> QED BY <3>2, <1>2 DEF Claim
  <2>0. now + LeaseLen \in Nat
    BY <1>0, ConstantsAssumption
  <2>2. RowTypes'
    BY <1>0, <1>2, <2>1, <2>0 DEF Claim, RowTypes
  <2>3. ExecTypes'
    BY <1>0, <2>1 DEF ExecTypes
  <2>4. LiveOK' /\ Begun'
    BY <1>0, <1>2, <2>1 DEF ExecTypes, LiveOK, Live, RowTypes, Begun, Claim
  <2>5. now' \in Nat /\ slots' \in [Instance -> SUBSET Task] /\ asked' \in SUBSET Task
    BY <1>0, <1>2 DEF Claim
  <2> QED BY <2>2, <2>3, <2>4, <2>5, <1>a
<1>3. ASSUME NEW t \in Task, Cancel(t)
      PROVE  TypeInv'
  <2>1. RowTypes' /\ Begun'
    <3>1. CASE CancelIdle(t)
      BY <1>0, <3>1, WriteTerminalTypes DEF CancelIdle, Terminal, Codes
    <3>2. CASE FlagRunning(t)
      BY <1>0, <3>2 DEF FlagRunning, RowTypes, Begun
    <3> QED BY <1>3, <3>1, <3>2 DEF Cancel
  <2> QED BY <2>1, <1>0, <1>3, <1>a, <1>c DEF Cancel
<1>4. ASSUME NEW t \in Task, Sweep(t)
      PROVE  TypeInv'
  <2>1. RowTypes' /\ Begun'
    BY <1>0, <1>4, WriteTerminalTypes DEF Sweep, Terminal, Codes
  <2> QED BY <2>1, <1>0, <1>4, <1>a, <1>c DEF Sweep
<1>5. ASSUME NEW t \in Task, Reclaim(t)
      PROVE  TypeInv'
  BY <1>0, <1>5, <1>a, <1>c, ReclaimTypes DEF Reclaim
<1>6. ASSUME NEW e \in Exec, Finish(e)
      PROVE  TypeInv'
  <2>1. PICK r \in Returned \cup {"raise", "fatal"} :
          /\ Enter(e, "done", r, 0)
          /\ asked' = IF r = "cancelled" THEN asked \cup {exec[e].task} ELSE asked
    BY <1>6 DEF Finish
  <2>2. Live(e) /\ exec[e].task \in Task
    BY <1>0, <1>6 DEF Finish, Live, LiveOK
  <2>3. ExecTypes' /\ LiveOK'
    BY <1>0, <2>1, <2>2, EnterTypes DEF Results
  <2> QED BY <2>1, <2>2, <2>3, <1>0, <1>6, <1>a, <1>b DEF Finish
<1>7. ASSUME NEW e \in Exec, Renew(e)
      PROVE  TypeInv'
  <2>0. exec[e].task \in Task /\ now + LeaseLen \in Nat
    BY <1>0, <1>7, ConstantsAssumption DEF Renew, Live, LiveOK
  <2>1. RowTypes' /\ Begun'
    BY <1>0, <1>7, <2>0 DEF Renew, RowTypes, Begun
  <2> QED BY <2>1, <1>0, <1>7, <1>a, <1>c DEF Renew
<1>8. ASSUME NEW e \in Exec, StopExecution(e)
      PROVE  TypeInv'
  <2>0. exec[e].task \in Task /\ now + LeaseLen \in Nat
    BY <1>0, <1>8, ConstantsAssumption DEF StopExecution, Live, LiveOK
  <2>1. RowTypes' /\ Begun'
    BY <1>0, <1>8, <2>0 DEF StopExecution, RowTypes, Begun
  <2>2. ExecTypes' /\ LiveOK'
    BY <1>0, <1>8, EnterTypes DEF StopExecution, Live, Results
  <2> QED BY <2>1, <2>2, <1>0, <1>8, <1>a DEF StopExecution
<1>9. ASSUME NEW e \in Exec, ReadClock(e)
      PROVE  TypeInv'
  <2>1. exec[e].res \in Results \cup {"none"} /\ Live(e)
    BY <1>0, <1>9 DEF ReadClock, ExecTypes, Live
  <2>0. PICK r \in Results \cup {"none"} : Enter(e, "write", r, now)
    BY <1>9, <2>1 DEF ReadClock, Results
  <2>2. ExecTypes'
    BY <1>0, <2>0 DEF Enter, ExecTypes
  <2>3. LiveOK'
    BY <1>0, <2>0, <2>1 DEF Enter, ExecTypes, LiveOK, Live
  <2> QED BY <2>2, <2>3, <1>0, <1>9, <1>a, <1>b DEF ReadClock
<1>10. ASSUME NEW e \in Exec, Settle(e)
       PROVE  TypeInv'
  <2>1. RowTypes' /\ Begun'
    BY <1>0, <1>10, ConcludeTypes DEF Settle
  <2>2. ExecTypes' /\ LiveOK' /\ slots' \in [Instance -> SUBSET Task]
    BY <1>0, <1>10, VacateTypes DEF Settle
  <2> QED BY <2>1, <2>2, <1>0, <1>10, <1>a DEF Settle
<1>11. ASSUME NEW e \in Exec, Abandon(e)
       PROVE  TypeInv'
  <2>1. ExecTypes' /\ LiveOK' /\ slots' \in [Instance -> SUBSET Task]
    BY <1>0, <1>11, VacateTypes DEF Abandon
  <2> QED BY <2>1, <1>0, <1>11, <1>a, <1>b DEF Abandon
<1>12. ASSUME NEW i \in Instance, Crash(i)
       PROVE  TypeInv'
  <2>1. ExecTypes' /\ LiveOK'
    BY <1>0, <1>12 DEF Crash, ExecTypes, LiveOK, Live, NoRun
  <2> QED BY <2>1, <1>0, <1>12, <1>a, <1>b DEF Crash
<1>13. CASE UNCHANGED vars
  BY <1>0, <1>13, <1>a, <1>b, <1>c DEF vars
<1> QED
  BY <1>1, <1>2, <1>3, <1>4, <1>5, <1>6, <1>7, <1>8, <1>9, <1>10, <1>11, <1>12, <1>13
     DEF Next, Slot

\* The initial state is typed
LEMMA TypeInit == Init => TypeInv
  BY ConstantsAssumption
     DEF Init, TypeInv, TypeOK, LiveOK, Begun, Live, NoRun, Idle, Terminal, Codes

\* The typing invariant holds of every reachable state of every instance
LEMMA TypeInvariant == Spec => []TypeInv
  BY TypeInit, TypeStep, PTL DEF Spec

(* Every variable keeps its type: a released lease is a time that never    *)
(* looks alive, a backoff is only computed for an attempt it is defined    *)
(* for, and a slot always knows the task and the process it works for.     *)
THEOREM TypeCorrect == Spec => []TypeOK
<1>1. TypeInv => TypeOK
  BY DEF TypeInv
<1> QED BY <1>1, TypeInvariant, PTL

-----------------------------------------------------------------------------
(* Cancels, leases and tasks that may not be repeated. *)

\* The four ways a slot's last transaction can go
LEMMA ConcludeShape ==
  ASSUME NEW e \in Exec, Conclude(e), ~UNCHANGED row
  PROVE  /\ Holds(exec[e].inst, exec[e].task, exec[e].moment)
         /\ \/ /\ WriteTerminal(exec[e].task, "CANCELLED", "none", TRUE)
               /\ exec[e].res \in {"cancelled", "stopped"} \/ cancelReq[exec[e].task]
            \/ /\ ~cancelReq[exec[e].task]
               /\ \E s \in {"COMPLETED", "FAILED"}, c \in Codes :
                    WriteTerminal(exec[e].task, s, c, FALSE)
            \/ /\ ~cancelReq[exec[e].task]
               /\ \E s, nb, c : /\ s \in Idle
                                /\ Release(exec[e].task, s, nb, c)
                                /\ s = "QUEUED" => Retries(e)
<1> DEFINE t == exec[e].task
<1>0. Holds(exec[e].inst, t, exec[e].moment)
  BY DEF Conclude
<1>1. CASE ~cancelReq[t] /\ WriteOutcome(e)
  <2>0. ASSUME NEW s \in Idle, NEW nb, NEW c, Release(t, s, nb, c), s = "QUEUED" => Retries(e)
        PROVE  \E x, y, z : /\ x \in Idle
                            /\ Release(exec[e].task, x, y, z)
                            /\ x = "QUEUED" => Retries(e)
    BY <2>0, Zenon
  <2>1. CASE exec[e].res = "wait" /\ \E d \in WaitDelays : Release(t, "WAITING", exec[e].moment + d, code[t])
    BY <2>1, <2>0, <1>0, <1>1 DEF Idle
  <2>2. CASE Retries(e) /\ Release(t, "QUEUED", exec[e].moment + Backoff[exec[e].att], "error")
    BY <2>2, <2>0, <1>0, <1>1 DEF Idle
  <2>3. CASE \E s \in {"COMPLETED", "FAILED"}, c \in Codes : WriteTerminal(t, s, c, FALSE)
    BY <2>3, <1>0, <1>1
  <2> QED BY <2>1, <2>2, <2>3, <1>1 DEF WriteOutcome, FailureCode, Codes
<1>2. CASE /\ WriteTerminal(t, "CANCELLED", "none", TRUE)
           /\ exec[e].res \in {"cancelled", "stopped"} \/ cancelReq[t]
  BY <1>0, <1>2
<1> QED BY <1>1, <1>2 DEF Conclude

\* An accepted cancel survives every step
LEMMA CancelStep ==
  ASSUME TypeInv, CancelSticks, [Next]_vars
  PROVE  CancelSticks'
<1>0. RowTypes /\ LiveOK
  BY DEF TypeInv, TypeOK, RowTypes
<1>1. ASSUME NEW t \in Task, NEW c \in Codes, NEW cancel \in BOOLEAN,
             \/ WriteTerminal(t, "CANCELLED", c, cancel)
             \/ WriteTerminal(t, "FAILED", "deadline", cancel)
      PROVE  CancelSticks'
  BY <1>0, <1>1 DEF CancelSticks, WriteTerminal, RowTypes, Terminal
<1>2. ASSUME NEW t \in Task, ~cancelReq[t], NEW s \in Terminal, NEW c \in Codes,
             WriteTerminal(t, s, c, FALSE)
      PROVE  CancelSticks'
  BY <1>0, <1>2 DEF CancelSticks, WriteTerminal, RowTypes
<1>3. ASSUME NEW t \in Task, ~cancelReq[t], NEW s, NEW nb, NEW c, Release(t, s, nb, c)
      PROVE  CancelSticks'
  BY <1>0, <1>3 DEF CancelSticks, Release, RowTypes
<1>4. UNCHANGED <<status, cancelReq, code>> => CancelSticks'
  BY DEF CancelSticks
<1>5. ASSUME NEW i \in Instance, NEW e \in Exec, NEW t \in Task, Claim(i, e, t)
      PROVE  CancelSticks'
  BY <1>0, <1>5 DEF Claim, Claimable, CancelSticks, RowTypes
<1>6. ASSUME NEW t \in Task, Cancel(t)
      PROVE  CancelSticks'
  <2>1. CASE CancelIdle(t)
    BY <2>1, <1>1 DEF CancelIdle, Codes
  <2>2. CASE FlagRunning(t)
    BY <2>2, <1>0 DEF FlagRunning, CancelSticks, RowTypes
  <2> QED BY <2>1, <2>2, <1>6 DEF Cancel
<1>7. ASSUME NEW t \in Task, Sweep(t)
      PROVE  CancelSticks'
  BY <1>7, <1>1 DEF Sweep, Codes
<1>8. ASSUME NEW t \in Task, Reclaim(t)
      PROVE  CancelSticks'
  <2>1. CASE ReclaimCancelled(t)
    BY <2>1, <1>1 DEF ReclaimCancelled, Codes
  <2>2. CASE ReclaimExhausted(t) \/ ReclaimUnverified(t)
    BY <2>2, <1>2 DEF ReclaimExhausted, ReclaimUnverified, Codes, Terminal
  <2>3. CASE Requeue(t)
    BY <2>3, <1>3 DEF Requeue
  <2> QED BY <2>1, <2>2, <2>3, <1>8 DEF Reclaim, ReclaimOutcome
<1>9. ASSUME NEW e \in Exec, Settle(e)
      PROVE  CancelSticks'
  <2>1. exec[e].task \in Task /\ Conclude(e)
    BY <1>0, <1>9 DEF Settle, LiveOK, Live
  <2>2. CASE UNCHANGED row
    BY <2>2, <1>4 DEF row
  <2>3. CASE WriteTerminal(exec[e].task, "CANCELLED", "none", TRUE)
    BY <2>3, <2>1, <1>1 DEF Codes
  <2>4. CASE /\ ~cancelReq[exec[e].task]
             /\ \E s \in {"COMPLETED", "FAILED"}, c \in Codes :
                  WriteTerminal(exec[e].task, s, c, FALSE)
    BY <2>4, <2>1, <1>2 DEF Terminal
  <2>5. CASE /\ ~cancelReq[exec[e].task]
             /\ \E s, nb, c : s \in Idle /\ Release(exec[e].task, s, nb, c)
    BY <2>5, <2>1, <1>3
  <2> QED BY <2>1, <2>2, <2>3, <2>4, <2>5, ConcludeShape
<1>10. ASSUME \/ Tick \/ UNCHANGED vars
              \/ \E e \in Exec : Finish(e) \/ Renew(e) \/ StopExecution(e) \/ ReadClock(e) \/ Abandon(e)
              \/ \E i \in Instance : Crash(i)
       PROVE  CancelSticks'
  BY <1>10, <1>4 DEF Tick, vars, row, Finish, Renew, StopExecution, ReadClock, Abandon, Crash
<1> QED BY <1>5, <1>6, <1>7, <1>8, <1>9, <1>10 DEF Next, Slot

(* An accepted cancel is never lost, whichever transaction the request     *)
(* slips in before: a finishing, retrying, waiting or reclaimed execution. *)
THEOREM CancelIsKept == Spec => []CancelSticks
<1>1. Init => CancelSticks
  BY DEF Init, CancelSticks
<1> QED BY <1>1, CancelStep, TypeInvariant, PTL DEF Spec

(* Only the holder's own slot, or the deadline, takes a task out of        *)
(* RUNNING while its lease lasts, in every instance.                       *)
THEOREM LeaseProtects == Spec => OwnerRulesItsLease
<1>1. ASSUME TypeInv, Next, NEW t \in Task,
             Running(t), now <= leaseUntil[t], status'[t] # "RUNNING"
      PROVE  \/ Deadline[t] < now
             \/ \E e \in Exec : RunsOn(e, owner[t], t) /\ ~Live(e)'
  <2>0. RowTypes /\ ExecTypes /\ LiveOK /\ now \in Nat
    BY <1>1 DEF TypeInv, TypeOK, RowTypes, ExecTypes
  <2>1. ASSUME NEW u \in Task, NEW s \in Terminal, NEW c, NEW cancel, WriteTerminal(u, s, c, cancel)
        PROVE  u = t
    BY <1>1, <2>0, <2>1 DEF WriteTerminal, Running, RowTypes
  <2>2. CASE \E i \in Instance, e \in Exec, u \in Task : Claim(i, e, u)
    BY <1>1, <2>0, <2>2 DEF Claim, Running, RowTypes
  <2>3. CASE \E u \in Task : Cancel(u)
    BY <1>1, <2>0, <2>3, <2>1 DEF Cancel, CancelIdle, FlagRunning, Running, Idle, Terminal
  <2>4. CASE \E u \in Task : Sweep(u)
    BY <2>4, <2>1 DEF Sweep, Terminal
  <2>5. CASE \E u \in Task : Reclaim(u)
    <3>1. PICK u \in Task : Reclaim(u)
      BY <2>5
    <3>2. u # t
      BY <1>1, <2>0, <3>1 DEF Reclaim, Expired, RowTypes
    <3> QED
      BY <3>1, <3>2, <2>1, <1>1, <2>0
         DEF Reclaim, ReclaimOutcome, ReclaimCancelled, ReclaimExhausted, ReclaimUnverified,
             Requeue, Release, Running, RowTypes, Terminal
  <2>6. ASSUME NEW e \in Exec, Settle(e)
        PROVE  \E f \in Exec : RunsOn(f, owner[t], t) /\ ~Live(f)'
    <3>1. Live(e) /\ exec[e].task \in Task /\ Conclude(e)
      BY <2>0, <2>6 DEF Settle, LiveOK, Live
    <3>2. ~UNCHANGED row
      BY <1>1 DEF row, Running
    <3>3. Holds(exec[e].inst, exec[e].task, exec[e].moment)
      BY <3>1, <3>2, ConcludeShape
    <3>5. exec[e].task = t
      <4>1. ASSUME NEW s, NEW nb, NEW c, Release(exec[e].task, s, nb, c)
            PROVE  exec[e].task = t
        BY <4>1, <3>1, <2>0, <1>1 DEF Release, Running, RowTypes
      <4>2. ASSUME NEW s \in Terminal, NEW c, NEW cancel, WriteTerminal(exec[e].task, s, c, cancel)
            PROVE  exec[e].task = t
        BY <4>2, <2>1, <3>1
      <4>3. \/ WriteTerminal(exec[e].task, "CANCELLED", "none", TRUE)
            \/ \E s \in {"COMPLETED", "FAILED"}, c \in Codes : WriteTerminal(exec[e].task, s, c, FALSE)
            \/ \E s, nb, c : s \in Idle /\ Release(exec[e].task, s, nb, c)
        BY <3>1, <3>2, ConcludeShape
      <4>4. CASE WriteTerminal(exec[e].task, "CANCELLED", "none", TRUE)
        BY <4>4, <4>2 DEF Terminal
      <4>5. CASE \E s \in {"COMPLETED", "FAILED"}, c \in Codes : WriteTerminal(exec[e].task, s, c, FALSE)
        BY <4>5, <4>2 DEF Terminal
      <4>6. CASE \E s, nb, c : s \in Idle /\ Release(exec[e].task, s, nb, c)
        BY <4>6, <4>1
      <4> QED BY <4>3, <4>4, <4>5, <4>6
    <3>4. ~Live(e)'
      BY <2>0, <2>6 DEF Settle, Vacate, Live, NoRun, ExecTypes
    <3> QED BY <3>1, <3>3, <3>4, <3>5 DEF Holds, RunsOn
  <2>7. ASSUME \/ Tick
               \/ \E e \in Exec : Finish(e) \/ Renew(e) \/ StopExecution(e) \/ ReadClock(e) \/ Abandon(e)
               \/ \E i \in Instance : Crash(i)
        PROVE  FALSE
    BY <2>7, <1>1
       DEF Tick, row, Finish, Renew, StopExecution, ReadClock, Abandon, Crash, Running
  <2> QED BY <1>1, <2>2, <2>3, <2>4, <2>5, <2>6, <2>7 DEF Next, Slot
<1>2. TypeInv /\ [Next]_vars =>
        [\A t \in Task :
           Running(t) /\ now <= leaseUntil[t] /\ status'[t] # "RUNNING" =>
             \/ Deadline[t] < now
             \/ \E e \in Exec : RunsOn(e, owner[t], t) /\ ~Live(e)']_vars
  BY <1>1
<1> QED BY <1>2, TypeInvariant, PTL DEF Spec, OwnerRulesItsLease

\* No slot starts to work in a step that claims nothing
SlotsOnlyLeave ==
  \A e \in Exec : Live(e)' =>
    /\ Live(e)
    /\ exec'[e].inst = exec[e].inst /\ exec'[e].task = exec[e].task
    /\ exec'[e].att = exec[e].att

Claims == \E i \in Instance, e \in Exec, t \in Task : Claim(i, e, t)

LEMMA OnlyClaimsStart ==
  ASSUME TypeInv, [Next]_vars, ~Claims
  PROVE  SlotsOnlyLeave
<1>0. ExecTypes
  BY DEF TypeInv, TypeOK, ExecTypes
<1>1. ASSUME NEW e \in Exec, Vacate(e)
      PROVE  SlotsOnlyLeave
  BY <1>0, <1>1 DEF Vacate, NoRun, Live, ExecTypes, SlotsOnlyLeave
<1>2. ASSUME NEW e \in Exec, Live(e), NEW p, NEW r, NEW m, Enter(e, p, r, m)
      PROVE  SlotsOnlyLeave
  BY <1>0, <1>2 DEF Enter, Live, ExecTypes, SlotsOnlyLeave
<1>3. UNCHANGED exec => SlotsOnlyLeave
  BY DEF Live, SlotsOnlyLeave
<1>4. ASSUME NEW t \in Task, Cancel(t) \/ Sweep(t) \/ Reclaim(t)
      PROVE  SlotsOnlyLeave
  BY <1>3, <1>4 DEF Cancel, Sweep, Reclaim
<1>5. ASSUME NEW e \in Exec, Slot(e)
      PROVE  SlotsOnlyLeave
  <2>1. CASE Finish(e)
    BY <2>1, <1>2 DEF Finish, Live
  <2>2. CASE Renew(e)
    BY <2>2, <1>3 DEF Renew
  <2>3. CASE StopExecution(e)
    BY <2>3, <1>2 DEF StopExecution, Live
  <2>4. CASE ReadClock(e)
    BY <2>4, <1>2 DEF ReadClock, Live
  <2>5. CASE Settle(e) \/ Abandon(e)
    BY <2>5, <1>1 DEF Settle, Abandon
  <2> QED BY <1>5, <2>1, <2>2, <2>3, <2>4, <2>5 DEF Slot
<1>6. ASSUME NEW i \in Instance, Crash(i)
      PROVE  SlotsOnlyLeave
  BY <1>0, <1>6 DEF Crash, NoRun, Live, ExecTypes, SlotsOnlyLeave
<1>7. CASE Tick \/ UNCHANGED vars
  BY <1>7, <1>3 DEF Tick, vars
<1> QED BY <1>4, <1>5, <1>6, <1>7 DEF Next, Claims

\* Re-entries are claims, and a stray is a slot's last transaction
LEMMA OnlyClaimsRecord ==
  ASSUME [Next]_vars, ~Claims
  PROVE  again' = again /\ (strayed' = strayed \/ \E e \in Exec : Settle(e))
<1>1. ASSUME NEW t \in Task, Cancel(t) \/ Sweep(t) \/ Reclaim(t)
      PROVE  UNCHANGED traces
  BY <1>1 DEF Cancel, Sweep, Reclaim
<1>2. ASSUME NEW e \in Exec, Slot(e), ~Settle(e)
      PROVE  UNCHANGED traces
  BY <1>2 DEF Slot, Finish, Renew, StopExecution, ReadClock, Abandon
<1>3. ASSUME NEW e \in Exec, Settle(e)
      PROVE  again' = again
  BY <1>3 DEF Settle
<1>4. CASE Tick \/ UNCHANGED vars \/ \E i \in Instance : Crash(i)
  BY <1>4 DEF Tick, vars, Crash, traces
<1> QED BY <1>1, <1>2, <1>3, <1>4 DEF Next, Claims, traces

(* What makes UnsafeRunsOnce inductive: an unsafe task that can be claimed *)
(* has no slot left that still runs it, and one that is queued was never   *)
(* attempted, so the only claim it ever gets is the first one, or the      *)
(* continuation of a wait that its slot itself asked for.                  *)
UnsafeInv ==
  \A t \in Task \ retrySafe :
    /\ attempt[t] <= 1
    /\ status[t] = "QUEUED" => attempt[t] = 0
    /\ status[t] \in Idle => \A e \in Exec : Live(e) => exec[e].task # t
    /\ \A e, f \in Exec : Live(e) /\ Live(f) /\ exec[e].task = t /\ exec[f].task = t => e = f

\* Every step keeps it
LEMMA UnsafeStep ==
  ASSUME TypeInv, UnsafeInv, [Next]_vars
  PROVE  UnsafeInv'
<1>0. RowTypes /\ ExecTypes /\ LiveOK /\ retrySafe' = retrySafe
  <2>1. RowTypes /\ ExecTypes /\ LiveOK /\ TracesOK
    BY DEF TypeInv, TypeOK, RowTypes, ExecTypes, TracesOK
  <2> QED BY <2>1, TracesStep
<1>1. ASSUME SlotsOnlyLeave, attempt' = attempt,
             \A t \in Task \ retrySafe : status'[t] \in Idle => status'[t] = status[t]
      PROVE  UnsafeInv'
  <2>1. ASSUME NEW t \in Task \ retrySafe
        PROVE  /\ attempt'[t] <= 1
               /\ status'[t] = "QUEUED" => attempt'[t] = 0
               /\ status'[t] \in Idle => \A e \in Exec : Live(e)' => exec'[e].task # t
    BY <1>1 DEF SlotsOnlyLeave, UnsafeInv, Idle
  <2>0. retrySafe' = retrySafe
    BY <1>0
  <2>2. ASSUME NEW t \in Task \ retrySafe, NEW e \in Exec, NEW f \in Exec,
               Live(e)', Live(f)', exec'[e].task = t, exec'[f].task = t
        PROVE  e = f
    BY <1>1, <2>2 DEF SlotsOnlyLeave, UnsafeInv
  <2> QED BY <2>0, <2>1, <2>2 DEF UnsafeInv
<1>2. ASSUME NEW t \in Task, NEW s \in Terminal, NEW c, NEW cancel, WriteTerminal(t, s, c, cancel)
      PROVE  /\ attempt' = attempt
             /\ \A u \in Task \ retrySafe : status'[u] \in Idle => status'[u] = status[u]
  BY <1>0, <1>2 DEF WriteTerminal, RowTypes, Idle, Terminal
<1>3. ASSUME NEW t \in retrySafe, NEW s, NEW nb, NEW c, Release(t, s, nb, c)
      PROVE  /\ attempt' = attempt
             /\ \A u \in Task \ retrySafe : status'[u] \in Idle => status'[u] = status[u]
  BY <1>0, <1>3 DEF Release, RowTypes
<1>4. ASSUME NEW i \in Instance, NEW e \in Exec, NEW t \in Task, Claim(i, e, t)
      PROVE  UnsafeInv'
  <2>1. /\ status[t] \in Idle /\ ~Live(e)
        /\ \A u \in Task : u # t => status'[u] = status[u] /\ attempt'[u] = attempt[u]
        /\ status'[t] = "RUNNING"
        /\ status[t] = "WAITING" => attempt'[t] = attempt[t]
        /\ status[t] = "QUEUED" => attempt'[t] = attempt[t] + 1
        /\ exec'[e].task = t
        /\ \A f \in Exec : f # e => exec'[f] = exec[f]
    BY <1>0, <1>4 DEF Claim, Claimable, Idle, RowTypes, ExecTypes
  <2>2. ASSUME NEW u \in Task \ retrySafe
        PROVE  /\ attempt'[u] <= 1
               /\ status'[u] = "QUEUED" => attempt'[u] = 0
               /\ status'[u] \in Idle => \A f \in Exec : Live(f)' => exec'[f].task # u
               /\ \A f, g \in Exec :
                    Live(f)' /\ Live(g)' /\ exec'[f].task = u /\ exec'[g].task = u => f = g
    BY <1>0, <2>1 DEF UnsafeInv, Idle, Live, RowTypes
  <2> QED BY <1>0, <2>2 DEF UnsafeInv
<1>5. ASSUME NEW e \in Exec, Settle(e)
      PROVE  UnsafeInv'
  <2>1. Live(e) /\ exec[e].task \in Task /\ Conclude(e) /\ Vacate(e)
    BY <1>0, <1>5 DEF Settle, LiveOK, Live
  <2>2. SlotsOnlyLeave
    BY <1>0, <2>1 DEF Vacate, NoRun, Live, ExecTypes, SlotsOnlyLeave
  <2>3. CASE UNCHANGED row
    BY <2>2, <2>3, <1>1 DEF row
  <2>4. ASSUME NEW s \in Terminal, NEW c, NEW cancel, WriteTerminal(exec[e].task, s, c, cancel)
        PROVE  UnsafeInv'
    BY <2>1, <2>2, <2>4, <1>1, <1>2
  <2>5. ASSUME NEW s \in Idle, NEW nb, NEW c, Release(exec[e].task, s, nb, c),
               s = "QUEUED" => Retries(e)
        PROVE  UnsafeInv'
    <3>1. CASE exec[e].task \in retrySafe
      BY <3>1, <2>2, <2>5, <1>1, <1>3
    <3>2. CASE exec[e].task \notin retrySafe
      <4>1. s = "WAITING"
        BY <3>2, <2>5 DEF Retries, Idle
      <4>2. ~Live(e)'
        BY <1>0, <2>1 DEF Vacate, NoRun, Live, ExecTypes
      <4>3. \A f \in Exec : Live(f)' => exec'[f].task # exec[e].task
        BY <2>1, <2>2, <3>2, <4>2 DEF UnsafeInv, SlotsOnlyLeave
      <4> QED
        BY <1>0, <2>1, <2>2, <2>5, <4>1, <4>3
           DEF UnsafeInv, SlotsOnlyLeave, Release, RowTypes
    <3> QED BY <3>1, <3>2
  <2>6. CASE ~UNCHANGED row
    <3>1. \/ WriteTerminal(exec[e].task, "CANCELLED", "none", TRUE)
          \/ \E s \in {"COMPLETED", "FAILED"}, c \in Codes : WriteTerminal(exec[e].task, s, c, FALSE)
          \/ \E s, nb, c : s \in Idle /\ Release(exec[e].task, s, nb, c) /\ (s = "QUEUED" => Retries(e))
      BY <2>1, <2>6, ConcludeShape
    <3>2. CASE WriteTerminal(exec[e].task, "CANCELLED", "none", TRUE)
      BY <3>2, <2>4 DEF Terminal
    <3>3. CASE \E s \in {"COMPLETED", "FAILED"}, c \in Codes : WriteTerminal(exec[e].task, s, c, FALSE)
      BY <3>3, <2>4 DEF Terminal
    <3>4. CASE \E s, nb, c : s \in Idle /\ Release(exec[e].task, s, nb, c) /\ (s = "QUEUED" => Retries(e))
      BY <3>4, <2>5
    <3> QED BY <3>1, <3>2, <3>3, <3>4
  <2> QED BY <2>3, <2>6
<1>6. ASSUME ~Claims, ~\E e \in Exec : Settle(e)
      PROVE  UnsafeInv'
  <2>1. SlotsOnlyLeave
    BY <1>6, OnlyClaimsStart
  <2>2. UNCHANGED <<attempt, status>> => UnsafeInv'
    BY <2>1, <1>1
  <2>3. ASSUME NEW t \in Task, NEW s \in Terminal, NEW c, NEW cancel, WriteTerminal(t, s, c, cancel)
        PROVE  UnsafeInv'
    BY <2>1, <2>3, <1>1, <1>2
  <2>4. ASSUME NEW t \in Task, Cancel(t) \/ Sweep(t)
        PROVE  UnsafeInv'
    BY <2>2, <2>3, <2>4 DEF Cancel, CancelIdle, FlagRunning, Sweep, Terminal
  <2>5. ASSUME NEW t \in Task, Reclaim(t)
        PROVE  UnsafeInv'
    <3>1. CASE Requeue(t)
      BY <3>1, <2>1, <1>1, <1>3 DEF Requeue
    <3>2. CASE ReclaimCancelled(t) \/ ReclaimExhausted(t) \/ ReclaimUnverified(t)
      BY <3>2, <2>3 DEF ReclaimCancelled, ReclaimExhausted, ReclaimUnverified, Terminal
    <3> QED BY <2>5, <3>1, <3>2 DEF Reclaim, ReclaimOutcome
  <2>6. ASSUME \/ Tick \/ UNCHANGED vars
               \/ \E e \in Exec : Finish(e) \/ Renew(e) \/ StopExecution(e) \/ ReadClock(e) \/ Abandon(e)
               \/ \E i \in Instance : Crash(i)
        PROVE  UnsafeInv'
    BY <2>6, <2>2 DEF Tick, vars, row, Finish, Renew, StopExecution, ReadClock, Abandon, Crash
  <2> QED BY <1>6, <2>4, <2>5, <2>6 DEF Next, Slot, Claims
<1> QED BY <1>4, <1>5, <1>6 DEF Claims

(* A task whose effect may not be repeated is attempted once and run by    *)
(* one slot at a time, whatever crashes, stalls or is reclaimed.           *)
THEOREM UnsafeTasksRunOnce == Spec => []UnsafeRunsOnce
<1>1. Init => UnsafeInv
  BY DEF Init, UnsafeInv, Live, NoRun
<1>2. UnsafeInv => UnsafeRunsOnce
  BY DEF UnsafeInv, UnsafeRunsOnce
<1> QED BY <1>1, <1>2, UnsafeStep, TypeInvariant, PTL DEF Spec

-----------------------------------------------------------------------------
(* The fence.  lease_owner names a process, not a claim, so it tells the   *)
(* executions of two processes apart, but not two executions of one        *)
(* process.  The attempt numbers do, and what follows is their order: an   *)
(* execution is never ahead of its row, and while no earlier attempt has   *)
(* decided the row, one execution at most is in the attempt of the row.    *)

AttemptsInv ==
  \A e \in Exec : Live(e) =>
    LET t == exec[e].task IN
    /\ exec[e].att <= attempt[t]
    /\ t \notin strayed /\ ~Stale(e) =>
         /\ status[t] # "WAITING"
         /\ \A f \in Exec : Live(f) /\ exec[f].task = t /\ ~Stale(f) => f = e

\* But for the tasks it took twice, a process runs a task in one slot at most
OneSlot ==
  \A e, f \in Exec :
    /\ Live(e) /\ Live(f)
    /\ exec[e].inst = exec[f].inst /\ exec[e].task = exec[f].task
    /\ <<exec[e].inst, exec[e].task>> \notin again
    => e = f

\* ... and the slot of the owning process is in the attempt of the row
Current ==
  \A e \in Exec :
    LET t == exec[e].task IN
    /\ Live(e) /\ status[t] = "RUNNING" /\ owner[t] = exec[e].inst
    /\ <<exec[e].inst, t>> \notin again
    => ~Stale(e)

\* A queued task has an attempt left
BudgetInv ==
  \A t \in Task \ strayed :
    attempt[t] <= MaxAttempts[t] /\ (status[t] = "QUEUED" => attempt[t] < MaxAttempts[t])

\* The slot may not write t at moment m, or would not write for the row's attempt
Fenced(e, m) == Stale(e) \/ ~Holds(exec[e].inst, exec[e].task, m)

(* A cancel comes from somebody who asked: a slot stopped by its heartbeat *)
(* either saw the request, or has lost the row for good.                   *)
AskedInv ==
  /\ \A t \in Task : cancelReq[t] \/ status[t] = "CANCELLED" => t \in asked \cup strayed
  /\ \A e \in Exec :
       LET t == exec[e].task IN
       /\ exec[e].phase \in {"done", "write"} /\ exec[e].res = "cancelled" => t \in asked
       /\ exec[e].phase = "done" /\ exec[e].res = "stopped" =>
            t \in asked \cup strayed \/ Fenced(e, now)
       /\ exec[e].phase = "write" /\ exec[e].res = "stopped" =>
            t \in asked \cup strayed \/ Fenced(e, exec[e].moment)

\* A second slot of a process on a task is recorded
LEMMA OneSlotStep ==
  ASSUME TypeInv, OneSlot, [Next]_vars
  PROVE  OneSlot'
<1>0. ExecTypes /\ LiveOK
  BY DEF TypeInv, TypeOK, ExecTypes
<1>1. ASSUME NEW i \in Instance, NEW e \in Exec, NEW t \in Task, Claim(i, e, t)
      PROVE  OneSlot'
  <2>1. /\ exec'[e].inst = i /\ exec'[e].task = t
        /\ \A f \in Exec : f # e => exec'[f] = exec[f]
        /\ \A f \in Exec : Live(f) /\ exec[f].inst = i /\ exec[f].task = t => <<i, t>> \in again'
        /\ again \subseteq again'
    BY <1>0, <1>1 DEF Claim, RunsOn, ExecTypes
  <2> QED BY <2>1 DEF OneSlot, Live
<1>2. ASSUME ~Claims
      PROVE  OneSlot'
  <2>1. SlotsOnlyLeave
    BY <1>2, OnlyClaimsStart
  <2>2. again' = again
    BY <1>2, OnlyClaimsRecord
  <2> QED BY <2>1, <2>2 DEF OneSlot, SlotsOnlyLeave
<1> QED BY <1>1, <1>2 DEF Claims

\* The steps that claim nothing give a row to nobody and start no attempt
LEMMA OnlyClaimsOwn ==
  ASSUME TypeInv, [Next]_vars, ~Claims
  PROVE  /\ attempt' = attempt
         /\ \A t \in Task : status'[t] = "RUNNING" => status[t] = "RUNNING" /\ owner'[t] = owner[t]
<1> DEFINE Kept ==
      /\ attempt' = attempt
      /\ \A t \in Task : status'[t] = "RUNNING" => status[t] = "RUNNING" /\ owner'[t] = owner[t]
<1>0. RowTypes /\ LiveOK
  BY DEF TypeInv, TypeOK, RowTypes
<1>1. ASSUME NEW t \in Task, NEW s \in Terminal, NEW c, NEW cancel, WriteTerminal(t, s, c, cancel)
      PROVE  Kept
  BY <1>0, <1>1 DEF WriteTerminal, RowTypes, Terminal
<1>2. ASSUME NEW t \in Task, NEW s \in Idle, NEW nb, NEW c, Release(t, s, nb, c)
      PROVE  Kept
  BY <1>0, <1>2 DEF Release, RowTypes, Idle
<1>3. UNCHANGED <<attempt, status, owner>> => Kept
  OBVIOUS
<1>4. ASSUME NEW t \in Task, Cancel(t) \/ Sweep(t)
      PROVE  Kept
  BY <1>1, <1>3, <1>4 DEF Cancel, CancelIdle, FlagRunning, Sweep, Terminal
<1>5. ASSUME NEW t \in Task, Reclaim(t)
      PROVE  Kept
  <2>1. CASE Requeue(t)
    BY <2>1, <1>2 DEF Requeue, Idle
  <2>2. CASE ReclaimCancelled(t) \/ ReclaimExhausted(t) \/ ReclaimUnverified(t)
    BY <2>2, <1>1 DEF ReclaimCancelled, ReclaimExhausted, ReclaimUnverified, Terminal
  <2> QED BY <1>5, <2>1, <2>2 DEF Reclaim, ReclaimOutcome
<1>6. ASSUME NEW e \in Exec, Settle(e)
      PROVE  Kept
  <2>1. exec[e].task \in Task /\ Conclude(e)
    BY <1>0, <1>6 DEF Settle, LiveOK, Live
  <2>2. CASE UNCHANGED row
    BY <2>2, <1>3 DEF row
  <2>3. CASE WriteTerminal(exec[e].task, "CANCELLED", "none", TRUE)
    BY <2>1, <2>3, <1>1 DEF Terminal
  <2>4. CASE \E s \in {"COMPLETED", "FAILED"}, c \in Codes : WriteTerminal(exec[e].task, s, c, FALSE)
    BY <2>1, <2>4, <1>1 DEF Terminal
  <2>5. CASE \E s, nb, c : s \in Idle /\ Release(exec[e].task, s, nb, c)
    BY <2>1, <2>5, <1>2
  <2> QED BY <2>1, <2>2, <2>3, <2>4, <2>5, ConcludeShape
<1>7. ASSUME \/ Tick \/ UNCHANGED vars
             \/ \E e \in Exec : Finish(e) \/ Renew(e) \/ StopExecution(e) \/ ReadClock(e) \/ Abandon(e)
             \/ \E i \in Instance : Crash(i)
      PROVE  Kept
  BY <1>7, <1>3 DEF Tick, vars, row, Finish, Renew, StopExecution, ReadClock, Abandon, Crash
<1> QED BY <1>4, <1>5, <1>6, <1>7 DEF Next, Slot, Claims

\* Only a claim hands a row to a process, and its slot takes over the attempt
LEMMA CurrentStep ==
  ASSUME TypeInv, Current, [Next]_vars
  PROVE  Current'
<1>0. RowTypes /\ ExecTypes /\ LiveOK
  BY DEF TypeInv, TypeOK, RowTypes, ExecTypes
<1>1. ASSUME NEW i \in Instance, NEW e \in Exec, NEW t \in Task, Claim(i, e, t)
      PROVE  Current'
  <2>1. /\ exec'[e].inst = i /\ exec'[e].task = t /\ exec'[e].att = attempt'[t]
        /\ owner'[t] = i
        /\ \A f \in Exec : f # e => exec'[f] = exec[f]
        /\ \A f \in Exec : Live(f) /\ exec[f].inst = i /\ exec[f].task = t => <<i, t>> \in again'
        /\ again \subseteq again'
        /\ \A u \in Task : u # t =>
             status'[u] = status[u] /\ owner'[u] = owner[u] /\ attempt'[u] = attempt[u]
    BY <1>0, <1>1 DEF Claim, RunsOn, ExecTypes, RowTypes
  <2> QED BY <1>0, <2>1 DEF Current, Live, LiveOK, Stale
<1>2. ASSUME ~Claims
      PROVE  Current'
  <2>1. SlotsOnlyLeave
    BY <1>2, OnlyClaimsStart
  <2>2. /\ attempt' = attempt
        /\ \A t \in Task : status'[t] = "RUNNING" => status[t] = "RUNNING" /\ owner'[t] = owner[t]
    BY <1>2, OnlyClaimsOwn
  <2>3. again' = again
    BY <1>2, OnlyClaimsRecord
  <2> QED BY <1>0, <2>1, <2>2, <2>3 DEF Current, SlotsOnlyLeave, LiveOK, Stale
<1> QED BY <1>1, <1>2 DEF Claims

\* A row starts to wait only in the last transaction of a slot
LEMMA OnlySlotsWait ==
  ASSUME TypeInv, [Next]_vars, ~Claims, ~\E e \in Exec : Settle(e)
  PROVE  \A t \in Task : status'[t] = "WAITING" => status[t] = "WAITING"
<1> DEFINE Kept == \A t \in Task : status'[t] = "WAITING" => status[t] = "WAITING"
<1>0. RowTypes
  BY DEF TypeInv, TypeOK, RowTypes
<1>1. ASSUME NEW t \in Task, NEW s \in Terminal, NEW c, NEW cancel, WriteTerminal(t, s, c, cancel)
      PROVE  Kept
  BY <1>0, <1>1 DEF WriteTerminal, RowTypes, Terminal
<1>2. ASSUME NEW t \in Task, Requeue(t)
      PROVE  Kept
  BY <1>0, <1>2 DEF Requeue, Release, RowTypes
<1>3. ASSUME NEW t \in Task, Cancel(t) \/ Sweep(t)
      PROVE  Kept
  BY <1>1, <1>3 DEF Cancel, CancelIdle, FlagRunning, Sweep, Terminal
<1>4. ASSUME NEW t \in Task, Reclaim(t)
      PROVE  Kept
  BY <1>1, <1>2, <1>4
     DEF Reclaim, ReclaimOutcome, ReclaimCancelled, ReclaimExhausted, ReclaimUnverified, Terminal
<1>5. ASSUME \/ Tick \/ UNCHANGED vars
             \/ \E e \in Exec : Finish(e) \/ Renew(e) \/ StopExecution(e) \/ ReadClock(e) \/ Abandon(e)
             \/ \E i \in Instance : Crash(i)
      PROVE  Kept
  BY <1>5 DEF Tick, vars, row, Finish, Renew, StopExecution, ReadClock, Abandon, Crash
<1> QED BY <1>3, <1>4, <1>5 DEF Next, Slot, Claims

\* What the last transaction of a slot does to the slots and to the row
LEMMA SettleShape ==
  ASSUME TypeInv, NEW e \in Exec, Settle(e)
  PROVE  /\ Live(e) /\ ~Live(e)' /\ exec[e].task \in Task
         /\ Conclude(e) /\ SlotsOnlyLeave
         /\ attempt' = attempt /\ again' = again /\ asked' = asked
         /\ \A t \in Task : t # exec[e].task => status'[t] = status[t]
         /\ strayed' = IF Stale(e) /\ ~UNCHANGED row THEN strayed \cup {exec[e].task} ELSE strayed
<1> DEFINE t == exec[e].task
<1>0. RowTypes /\ ExecTypes /\ LiveOK
  BY DEF TypeInv, TypeOK, RowTypes, ExecTypes
<1>1. Live(e) /\ t \in Task /\ Conclude(e) /\ Vacate(e) /\ again' = again /\ asked' = asked
  BY <1>0 DEF Settle, LiveOK, Live
<1>2. ~Live(e)' /\ SlotsOnlyLeave
  BY <1>0, <1>1 DEF Vacate, NoRun, Live, ExecTypes, SlotsOnlyLeave
<1>3. CASE UNCHANGED row
  <2>1. status' = status /\ attempt' = attempt
    BY <1>3 DEF row
  <2>2. strayed' = strayed
    BY <2>1 DEF Settle
  <2> QED BY <1>1, <1>2, <1>3, <2>1, <2>2
<1>4. CASE ~UNCHANGED row
  <2>1. status[t] = "RUNNING"
    BY <1>1, <1>4, ConcludeShape DEF Holds
  <2>2. /\ attempt' = attempt /\ status' # status
        /\ \A u \in Task : u # t => status'[u] = status[u]
    <3>1. ASSUME NEW s \in Terminal \cup Idle, status' = [status EXCEPT ![t] = s], attempt' = attempt
          PROVE  <2>2
      BY <1>0, <1>1, <2>1, <3>1 DEF RowTypes, Terminal, Idle
    <3>2. ASSUME NEW s \in Terminal, NEW c, NEW cancel, WriteTerminal(t, s, c, cancel)
          PROVE  <2>2
      BY <3>1, <3>2 DEF WriteTerminal
    <3>3. ASSUME NEW s \in Idle, NEW nb, NEW c, Release(t, s, nb, c)
          PROVE  <2>2
      BY <3>1, <3>3 DEF Release
    <3>4. \/ WriteTerminal(t, "CANCELLED", "none", TRUE)
          \/ \E s \in {"COMPLETED", "FAILED"}, c \in Codes : WriteTerminal(t, s, c, FALSE)
          \/ \E s, nb, c : s \in Idle /\ Release(t, s, nb, c)
      BY <1>1, <1>4, ConcludeShape
    <3>5. CASE WriteTerminal(t, "CANCELLED", "none", TRUE)
      BY <3>5, <3>2 DEF Terminal
    <3>6. CASE \E s \in {"COMPLETED", "FAILED"}, c \in Codes : WriteTerminal(t, s, c, FALSE)
      BY <3>6, <3>2 DEF Terminal
    <3>7. CASE \E s, nb, c : s \in Idle /\ Release(t, s, nb, c)
      BY <3>7, <3>3
    <3> QED BY <3>4, <3>5, <3>6, <3>7
  <2>3. strayed' = IF Stale(e) THEN strayed \cup {t} ELSE strayed
    BY <2>2 DEF Settle
  <2> QED BY <1>1, <1>2, <1>4, <2>2, <2>3
<1> QED BY <1>3, <1>4

(* A claim overtakes every earlier execution of its task: a queued one by  *)
(* its new attempt, a waiting one because the slot that let it wait left.  *)
LEMMA AttemptsStep ==
  ASSUME TypeInv, AttemptsInv, [Next]_vars
  PROVE  AttemptsInv'
<1>0. RowTypes /\ ExecTypes /\ LiveOK
  BY DEF TypeInv, TypeOK, RowTypes, ExecTypes
<1>1. ASSUME NEW i \in Instance, NEW e \in Exec, NEW t \in Task, Claim(i, e, t)
      PROVE  AttemptsInv'
  <2>1. /\ exec'[e].task = t /\ exec'[e].att = attempt'[t] /\ attempt'[t] \in Nat
        /\ status'[t] = "RUNNING" /\ strayed' = strayed
        /\ \A f \in Exec : f # e => exec'[f] = exec[f]
        /\ \A u \in Task : u # t => status'[u] = status[u] /\ attempt'[u] = attempt[u]
        /\ \/ status[t] = "QUEUED" /\ attempt'[t] = attempt[t] + 1
           \/ status[t] = "WAITING" /\ attempt'[t] = attempt[t]
    BY <1>0, <1>1 DEF Claim, Claimable, Idle, ExecTypes, RowTypes
  <2>2. ASSUME NEW f \in Exec, f # e, Live(f), exec[f].task = t
        PROVE  exec[f].att <= attempt'[t] /\ (t \notin strayed => exec[f].att # attempt'[t])
    <3>1. attempt[t] \in Nat /\ exec[f].att \in Nat /\ exec[f].att <= attempt[t]
      BY <1>0, <2>2 DEF RowTypes, ExecTypes, AttemptsInv
    <3>2. CASE status[t] = "QUEUED" /\ attempt'[t] = attempt[t] + 1
      BY <3>1, <3>2
    <3>3. CASE status[t] = "WAITING" /\ attempt'[t] = attempt[t]
      BY <2>2, <3>1, <3>3 DEF AttemptsInv, Stale
    <3> QED BY <2>1, <3>2, <3>3
  <2>3. ASSUME NEW f \in Exec, Live(f)', NEW u, u = exec'[f].task
        PROVE  /\ exec'[f].att <= attempt'[u]
               /\ u \notin strayed' /\ ~Stale(f)' =>
                    /\ status'[u] # "WAITING"
                    /\ \A g \in Exec : Live(g)' /\ exec'[g].task = u /\ ~Stale(g)' => g = f
    <3>1. CASE u = t
      <4>1. exec'[f].att <= attempt'[t]
        <5>1. CASE f = e
          BY <2>1, <5>1
        <5>2. CASE f # e
          BY <2>1, <2>2, <2>3, <3>1, <5>2 DEF Live
        <5> QED BY <5>1, <5>2
      <4>2. ASSUME t \notin strayed, NEW g \in Exec, Live(g)', exec'[g].task = t, ~Stale(g)'
            PROVE  g = e
        <5>1. exec'[g].att = attempt'[t]
          BY <4>2 DEF Stale
        <5> QED BY <2>1, <2>2, <4>2, <5>1 DEF Live
      <4>3. status'[u] # "WAITING"
        BY <2>1, <3>1
      <4> QED BY <2>1, <2>3, <3>1, <4>1, <4>2, <4>3
    <3>2. CASE u # t
      <4>1. f # e /\ Live(f) /\ exec'[f] = exec[f] /\ u \in Task
        BY <1>0, <2>1, <2>3, <3>2 DEF Live, LiveOK
      <4>2. \A g \in Exec : Live(g)' /\ exec'[g].task = u => Live(g) /\ exec'[g] = exec[g]
        BY <2>1, <3>2 DEF Live
      <4> QED BY <2>1, <2>3, <3>2, <4>1, <4>2 DEF AttemptsInv, Stale
    <3> QED BY <3>1, <3>2
  <2> QED BY <2>3 DEF AttemptsInv
<1>2. ASSUME SlotsOnlyLeave, attempt' = attempt, strayed \subseteq strayed',
             \A e \in Exec : Live(e)' /\ exec[e].task \notin strayed' /\ ~Stale(e)
               /\ status'[exec[e].task] = "WAITING" => status[exec[e].task] = "WAITING"
      PROVE  AttemptsInv'
  BY <1>0, <1>2 DEF AttemptsInv, SlotsOnlyLeave, Stale, LiveOK
<1>3. ASSUME NEW e \in Exec, Settle(e)
      PROVE  AttemptsInv'
  <2>1. ASSUME NEW f \in Exec, Live(f)', exec[f].task \notin strayed', ~Stale(f),
               status'[exec[f].task] = "WAITING", status[exec[f].task] # "WAITING"
        PROVE  FALSE
    <3>1. Live(f) /\ f # e /\ exec[f].task \in Task
      BY <1>0, <1>3, <2>1, SettleShape DEF SlotsOnlyLeave, LiveOK
    <3>2. exec[f].task = exec[e].task
      BY <1>3, <2>1, <3>1, SettleShape
    <3>3. ~UNCHANGED row
      BY <2>1 DEF row
    <3>4. ~Stale(e) /\ exec[e].task \notin strayed /\ Live(e)
      BY <1>3, <2>1, <3>2, <3>3, SettleShape
    <3> QED BY <2>1, <3>1, <3>2, <3>4 DEF AttemptsInv
  <2>2. SlotsOnlyLeave /\ attempt' = attempt /\ strayed \subseteq strayed'
    BY <1>3, SettleShape
  <2> QED BY <1>2, <2>1, <2>2
<1>4. ASSUME ~Claims, ~\E e \in Exec : Settle(e)
      PROVE  AttemptsInv'
  <2>1. SlotsOnlyLeave /\ attempt' = attempt /\ strayed' = strayed
    BY <1>4, OnlyClaimsStart, OnlyClaimsOwn, OnlyClaimsRecord
  <2>2. \A t \in Task : status'[t] = "WAITING" => status[t] = "WAITING"
    BY <1>4, OnlySlotsWait
  <2> QED BY <1>0, <1>2, <2>1, <2>2 DEF SlotsOnlyLeave, LiveOK
<1> QED BY <1>1, <1>3, <1>4 DEF Claims

(* An earlier attempt gets through to the row only where the owner's name  *)
(* does not tell it apart: where its process took the task again.          *)
LEMMA StraysStep ==
  ASSUME TypeInv, UnsafeInv, AttemptsInv, Current, StraysAreReentries, [Next]_vars
  PROVE  StraysAreReentries'
<1>0. /\ RowTypes /\ ExecTypes /\ LiveOK /\ retrySafe' = retrySafe
      /\ again \in SUBSET (Instance \X Task)
  <2>1. RowTypes /\ ExecTypes /\ LiveOK /\ TracesOK
    BY DEF TypeInv, TypeOK, RowTypes, ExecTypes, TracesOK
  <2> QED BY <2>1, TracesStep DEF TracesOK
<1>1. again \subseteq again'
  <2>1. CASE Claims
    BY <2>1 DEF Claims, Claim
  <2>2. CASE ~Claims
    BY <2>2, OnlyClaimsRecord
  <2> QED BY <2>1, <2>2
<1>2. CASE strayed' = strayed
  BY <1>0, <1>1, <1>2 DEF StraysAreReentries
<1>3. ASSUME NEW e \in Exec, Settle(e), strayed' # strayed
      PROVE  StraysAreReentries'
  <2> DEFINE t == exec[e].task
  <2>1. /\ Live(e) /\ t \in Task /\ Conclude(e) /\ Stale(e) /\ ~UNCHANGED row
        /\ strayed' = strayed \cup {t}
    BY <1>3, SettleShape
  <2>2. status[t] = "RUNNING" /\ owner[t] = exec[e].inst
    BY <2>1, ConcludeShape DEF Holds
  <2>3. <<exec[e].inst, t>> \in again /\ exec[e].inst \in Instance
    BY <1>0, <2>1, <2>2 DEF Current, LiveOK
  <2>4. t \in retrySafe
    <3>1. exec[e].att \in Nat /\ exec[e].att >= 1 /\ attempt[t] \in Nat /\ exec[e].att <= attempt[t]
      BY <1>0, <2>1 DEF ExecTypes, RowTypes, LiveOK, AttemptsInv
    <3>2. attempt[t] > 1
      BY <2>1, <3>1 DEF Stale
    <3> QED BY <2>1, <3>1, <3>2 DEF UnsafeInv
  <2> QED BY <1>0, <1>1, <2>1, <2>3, <2>4 DEF StraysAreReentries
<1>4. ASSUME Claims
      PROVE  strayed' = strayed
  BY <1>4 DEF Claims, Claim
<1> QED BY <1>2, <1>3, <1>4, OnlyClaimsRecord

\* A queued task has an attempt left, because only the current attempt requeues it
LEMMA BudgetStep ==
  ASSUME TypeInv, BudgetInv, [Next]_vars
  PROVE  BudgetInv'
<1>0. RowTypes /\ ExecTypes /\ LiveOK /\ MaxAttempts \in [Task -> 1..AttemptLimit] /\ AttemptLimit \in Nat
  BY ConstantsAssumption DEF TypeInv, TypeOK, RowTypes, ExecTypes
<1>1. ASSUME attempt' = attempt, strayed \subseteq strayed',
             \A t \in Task \ strayed' : status'[t] = "QUEUED" =>
               status[t] = "QUEUED" \/ attempt[t] < MaxAttempts[t]
      PROVE  BudgetInv'
  BY <1>1 DEF BudgetInv
<1>2. ASSUME NEW t \in Task, NEW s \in Terminal, NEW c, NEW cancel, WriteTerminal(t, s, c, cancel),
             strayed' = strayed
      PROVE  BudgetInv'
  BY <1>0, <1>1, <1>2 DEF WriteTerminal, RowTypes, Terminal
<1>3. ASSUME NEW i \in Instance, NEW e \in Exec, NEW t \in Task, Claim(i, e, t)
      PROVE  BudgetInv'
  BY <1>0, <1>3 DEF Claim, Claimable, Idle, BudgetInv, RowTypes
<1>4. ASSUME NEW t \in Task, Cancel(t) \/ Sweep(t)
      PROVE  BudgetInv'
  BY <1>1, <1>2, <1>4 DEF Cancel, CancelIdle, FlagRunning, Sweep, Terminal, traces
<1>5. ASSUME NEW t \in Task, Reclaim(t)
      PROVE  BudgetInv'
  <2>0. strayed' = strayed
    BY <1>5 DEF Reclaim, traces
  <2>1. CASE Requeue(t)
    BY <1>0, <2>0, <2>1, <1>1 DEF Requeue, Release, RowTypes
  <2>2. CASE ReclaimCancelled(t) \/ ReclaimExhausted(t) \/ ReclaimUnverified(t)
    BY <2>0, <2>2, <1>2 DEF ReclaimCancelled, ReclaimExhausted, ReclaimUnverified, Terminal
  <2> QED BY <1>5, <2>1, <2>2 DEF Reclaim, ReclaimOutcome
<1>6. ASSUME NEW e \in Exec, Settle(e)
      PROVE  BudgetInv'
  <2> DEFINE t == exec[e].task
  <2>1. /\ Live(e) /\ t \in Task /\ Conclude(e) /\ attempt' = attempt
        /\ strayed \subseteq strayed'
        /\ \A u \in Task : u # t => status'[u] = status[u]
        /\ ~UNCHANGED row /\ Stale(e) => t \in strayed'
    BY <1>6, SettleShape
  <2>2. ASSUME status'[t] = "QUEUED", status[t] # "QUEUED", t \notin strayed'
        PROVE  attempt[t] < MaxAttempts[t]
    <3>1. ~UNCHANGED row
      BY <2>2 DEF row
    <3>2. ~Stale(e)
      BY <2>1, <2>2, <3>1
    <3>3. Retries(e)
      <4>1. ASSUME NEW s, NEW c, NEW cancel, s # "QUEUED", WriteTerminal(t, s, c, cancel)
            PROVE  FALSE
        BY <1>0, <2>1, <2>2, <4>1 DEF WriteTerminal, RowTypes
      <4>2. ASSUME NEW s, NEW nb, NEW c, Release(t, s, nb, c)
            PROVE  s = "QUEUED"
        BY <1>0, <2>1, <2>2, <4>2 DEF Release, RowTypes
      <4>3. ~WriteTerminal(t, "CANCELLED", "none", TRUE)
        BY <4>1
      <4>4. ~\E s \in {"COMPLETED", "FAILED"}, c \in Codes : WriteTerminal(t, s, c, FALSE)
        BY <4>1
      <4> QED BY <2>1, <3>1, <4>2, <4>3, <4>4, ConcludeShape
    <3> QED BY <3>2, <3>3 DEF Retries, Stale
  <2> QED BY <1>1, <2>1, <2>2
<1>7. ASSUME \/ Tick \/ UNCHANGED vars
             \/ \E e \in Exec : Finish(e) \/ Renew(e) \/ StopExecution(e) \/ ReadClock(e) \/ Abandon(e)
             \/ \E i \in Instance : Crash(i)
      PROVE  BudgetInv'
  BY <1>7, <1>1 DEF Tick, vars, row, traces, Finish, Renew, StopExecution, ReadClock, Abandon, Crash
<1> QED BY <1>3, <1>4, <1>5, <1>6, <1>7 DEF Next, Slot

\* Unless it is claimed, a row's lease gets longer only while it lasts
LEMMA OnlyOwnersRenew ==
  ASSUME TypeInv, [Next]_vars, ~Claims, NEW t \in Task,
         status'[t] = "RUNNING", leaseUntil'[t] # leaseUntil[t]
  PROVE  leaseUntil[t] > now
<1>0. RowTypes /\ LiveOK
  BY DEF TypeInv, TypeOK, RowTypes
<1>1. ASSUME NEW u \in Task, NEW s \in Terminal, NEW c, NEW cancel, WriteTerminal(u, s, c, cancel)
      PROVE  FALSE
  BY <1>0, <1>1 DEF WriteTerminal, RowTypes, Terminal
<1>2. ASSUME NEW u \in Task, NEW s \in Idle, NEW nb, NEW c, Release(u, s, nb, c)
      PROVE  FALSE
  BY <1>0, <1>2 DEF Release, RowTypes, Idle
<1>3. ASSUME NEW u \in Task, Cancel(u) \/ Sweep(u)
      PROVE  FALSE
  BY <1>1, <1>3 DEF Cancel, CancelIdle, FlagRunning, Sweep, Terminal
<1>4. ASSUME NEW u \in Task, Reclaim(u)
      PROVE  FALSE
  BY <1>1, <1>2, <1>4
     DEF Reclaim, ReclaimOutcome, ReclaimCancelled, ReclaimExhausted, ReclaimUnverified,
         Requeue, Terminal, Idle
<1>5. ASSUME NEW e \in Exec, Settle(e)
      PROVE  FALSE
  <2>1. exec[e].task \in Task /\ Conclude(e) /\ ~UNCHANGED row
    BY <1>0, <1>5 DEF Settle, LiveOK, Live, row
  <2>2. ~WriteTerminal(exec[e].task, "CANCELLED", "none", TRUE)
    BY <2>1, <1>1 DEF Terminal
  <2>3. ~\E s \in {"COMPLETED", "FAILED"}, c \in Codes : WriteTerminal(exec[e].task, s, c, FALSE)
    BY <2>1, <1>1 DEF Terminal
  <2>4. ~\E s, nb, c : s \in Idle /\ Release(exec[e].task, s, nb, c)
    BY <2>1, <1>2
  <2> QED BY <2>1, <2>2, <2>3, <2>4, ConcludeShape
<1>6. ASSUME NEW e \in Exec, Renew(e) \/ StopExecution(e)
      PROVE  leaseUntil[t] > now
  BY <1>0, <1>6 DEF Renew, StopExecution, Holds, RowTypes
<1>7. ASSUME \/ Tick \/ UNCHANGED vars
             \/ \E e \in Exec : Finish(e) \/ ReadClock(e) \/ Abandon(e)
             \/ \E i \in Instance : Crash(i)
      PROVE  FALSE
  BY <1>7 DEF Tick, vars, row, Finish, ReadClock, Abandon, Crash
<1> QED BY <1>3, <1>4, <1>5, <1>6, <1>7 DEF Next, Slot, Claims

\* A slot that goes on was moved by its own step, or not at all
LEMMA OwnStep ==
  ASSUME TypeInv, [Next]_vars, ~Claims, NEW e \in Exec, Live(e)'
  PROVE  exec'[e] = exec[e] \/ Finish(e) \/ StopExecution(e) \/ ReadClock(e)
<1>0. ExecTypes
  BY DEF TypeInv, TypeOK, ExecTypes
<1>1. ASSUME NEW f \in Exec, Slot(f)
      PROVE  exec'[e] = exec[e] \/ (f = e /\ (Finish(e) \/ StopExecution(e) \/ ReadClock(e)))
  <2>1. CASE Finish(f) \/ StopExecution(f) \/ ReadClock(f)
    BY <1>0, <2>1 DEF Finish, StopExecution, ReadClock, Enter, ExecTypes
  <2>2. CASE Renew(f) \/ Settle(f) \/ Abandon(f)
    BY <1>0, <2>2 DEF Renew, Settle, Abandon, Vacate, NoRun, Live, ExecTypes
  <2> QED BY <1>1, <2>1, <2>2 DEF Slot
<1>2. ASSUME NEW i \in Instance, Crash(i)
      PROVE  exec'[e] = exec[e]
  BY <1>0, <1>2 DEF Crash, Live, NoRun, ExecTypes
<1>3. ASSUME NEW t \in Task, Cancel(t) \/ Sweep(t) \/ Reclaim(t)
      PROVE  exec'[e] = exec[e]
  BY <1>3 DEF Cancel, Sweep, Reclaim
<1>4. CASE Tick \/ UNCHANGED vars
  BY <1>4 DEF Tick, vars
<1> QED BY <1>1, <1>2, <1>3, <1>4 DEF Next, Claims

\* Time does not run backwards, and no slot has read a later clock
Moments == \A e \in Exec : exec[e].moment <= now

LEMMA TimePasses ==
  ASSUME TypeInv, Moments, [Next]_vars
  PROVE  now' \in Nat /\ now' >= now /\ Moments'
<1>0. ExecTypes /\ now \in Nat
  BY DEF TypeInv, TypeOK, ExecTypes
<1>1. CASE Tick
  BY <1>0, <1>1 DEF Tick, Moments, ExecTypes
<1>2. ASSUME NEW t \in Task, Cancel(t) \/ Sweep(t) \/ Reclaim(t)
      PROVE  now' = now /\ Moments'
  BY <1>2 DEF Cancel, Sweep, Reclaim, Moments
<1>3. ASSUME NEW e \in Exec, Slot(e)
      PROVE  now' = now /\ Moments'
  <2>1. now' = now
    BY <1>3 DEF Slot, Finish, Renew, StopExecution, ReadClock, Settle, Abandon
  <2>2. ASSUME NEW f \in Exec
        PROVE  exec'[f].moment = exec[f].moment \/ exec'[f].moment \in {0, now}
    <3>1. CASE Finish(e) \/ StopExecution(e) \/ ReadClock(e)
      BY <1>0, <3>1 DEF Finish, StopExecution, ReadClock, Enter, ExecTypes
    <3>2. CASE Renew(e) \/ Settle(e) \/ Abandon(e)
      BY <1>0, <3>2 DEF Renew, Settle, Abandon, Vacate, NoRun, ExecTypes
    <3> QED BY <1>3, <3>1, <3>2 DEF Slot
  <2> QED BY <1>0, <2>1, <2>2 DEF Moments
<1>4. ASSUME NEW i \in Instance, NEW e \in Exec, NEW t \in Task, Claim(i, e, t)
      PROVE  now' = now /\ Moments'
  BY <1>0, <1>4 DEF Claim, Moments, ExecTypes
<1>5. ASSUME NEW i \in Instance, Crash(i)
      PROVE  now' = now /\ Moments'
  BY <1>0, <1>5 DEF Crash, Moments, NoRun, ExecTypes
<1>6. CASE UNCHANGED vars
  BY <1>0, <1>6 DEF vars, Moments
<1> QED BY <1>0, <1>1, <1>2, <1>3, <1>4, <1>5, <1>6 DEF Next

\* What is asked for, or has strayed, stays so
LEMMA TracesGrow ==
  ASSUME TypeInv, [Next]_vars
  PROVE  asked \subseteq asked' /\ strayed \subseteq strayed'
<1>1. asked \subseteq asked'
  BY DEF Next, Slot, Tick, Claim, Cancel, Sweep, Reclaim, Finish, Renew, StopExecution,
         ReadClock, Settle, Abandon, Crash, vars
<1>2. CASE Claims
  BY <1>1, <1>2 DEF Claims, Claim
<1>3. CASE ~Claims
  <2>1. ASSUME NEW e \in Exec, Settle(e)
        PROVE  strayed \subseteq strayed'
    BY <2>1 DEF Settle
  <2> QED BY <1>1, <1>3, <2>1, OnlyClaimsRecord
<1> QED BY <1>2, <1>3

\* A stopped slot has a request behind it or has lost its attempt, and never gets it back
LEMMA AskedStep ==
  ASSUME TypeInv, AttemptsInv, Moments, AskedInv, [Next]_vars
  PROVE  AskedInv'
<1>0. RowTypes /\ ExecTypes /\ LiveOK /\ now \in Nat
  BY DEF TypeInv, TypeOK, RowTypes, ExecTypes
<1>2. asked \subseteq asked' /\ strayed \subseteq strayed'
  BY TracesGrow
<1>3. now' \in Nat /\ now' >= now
  BY TimePasses
<1>1. \A t \in Task : cancelReq'[t] \/ status'[t] = "CANCELLED" => t \in asked' \cup strayed'
  <2> DEFINE Kept == \A t \in Task : cancelReq'[t] \/ status'[t] = "CANCELLED" => t \in asked' \cup strayed'
  <2>0. \A t \in Task : cancelReq[t] \/ status[t] = "CANCELLED" => t \in asked \cup strayed
    BY DEF AskedInv
  <2>1. ASSUME NEW t \in Task, NEW s \in Terminal, NEW c, NEW cancel \in BOOLEAN,
               WriteTerminal(t, s, c, cancel),
               s = "CANCELLED" \/ cancel => t \in asked' \cup strayed'
        PROVE  Kept
    BY <1>0, <1>2, <2>0, <2>1 DEF WriteTerminal, RowTypes
  <2>2. ASSUME NEW t \in Task, NEW s \in Idle, NEW nb, NEW c, Release(t, s, nb, c),
               asked' = asked
        PROVE  Kept
    BY <1>0, <1>2, <2>0, <2>2 DEF Release, RowTypes, Idle
  <2>3. ASSUME NEW i \in Instance, NEW e \in Exec, NEW t \in Task, Claim(i, e, t)
        PROVE  Kept
    BY <1>0, <1>2, <2>0, <2>3 DEF Claim, RowTypes
  <2>4. ASSUME NEW t \in Task, Cancel(t)
        PROVE  Kept
    <3>1. CASE CancelIdle(t)
      BY <2>4, <3>1, <2>1 DEF Cancel, CancelIdle, Terminal
    <3>2. CASE FlagRunning(t)
      BY <1>0, <1>2, <2>0, <2>4, <3>2 DEF Cancel, FlagRunning, RowTypes
    <3> QED BY <2>4, <3>1, <3>2 DEF Cancel
  <2>5. ASSUME NEW t \in Task, Sweep(t)
        PROVE  Kept
    BY <2>5, <2>1 DEF Sweep, Terminal
  <2>6. ASSUME NEW t \in Task, Reclaim(t)
        PROVE  Kept
    <3>1. CASE Requeue(t)
      BY <3>1, <2>6, <2>2 DEF Reclaim, Requeue, Idle
    <3>2. CASE ReclaimCancelled(t)
      BY <1>2, <3>2, <2>6, <2>0, <2>1 DEF Reclaim, ReclaimCancelled, Terminal
    <3>3. CASE ReclaimExhausted(t) \/ ReclaimUnverified(t)
      BY <3>3, <2>6, <2>1 DEF Reclaim, ReclaimExhausted, ReclaimUnverified, Terminal
    <3> QED BY <2>6, <3>1, <3>2, <3>3 DEF Reclaim, ReclaimOutcome
  <2>7. ASSUME NEW e \in Exec, Settle(e)
        PROVE  Kept
    <3>1. /\ exec[e].phase = "write" /\ exec[e].task \in Task
          /\ Conclude(e) /\ asked' = asked
      BY <1>0, <2>7 DEF Settle, LiveOK, Live
    <3>2. CASE UNCHANGED row
      BY <1>2, <2>0, <3>1, <3>2 DEF row
    <3>3. CASE /\ Holds(exec[e].inst, exec[e].task, exec[e].moment)
               /\ WriteTerminal(exec[e].task, "CANCELLED", "none", TRUE)
               /\ exec[e].res \in {"cancelled", "stopped"} \/ cancelReq[exec[e].task]
      <4>1. exec[e].task \in asked \cup strayed \/ Stale(e)
        BY <3>1, <3>3, <2>0 DEF AskedInv, Fenced
      <4>2. CASE UNCHANGED row
        BY <1>2, <2>0, <3>1, <4>2 DEF row
      <4>3. CASE ~UNCHANGED row
        <5>1. exec[e].task \in asked' \cup strayed'
          BY <1>2, <2>7, <4>1, <4>3, SettleShape
        <5> QED BY <5>1, <3>1, <3>3, <2>1 DEF Terminal
      <4> QED BY <4>2, <4>3
    <3>4. CASE \E s \in {"COMPLETED", "FAILED"}, c \in Codes : WriteTerminal(exec[e].task, s, c, FALSE)
      BY <3>1, <3>4, <2>1 DEF Terminal
    <3>5. CASE \E s, nb, c : s \in Idle /\ Release(exec[e].task, s, nb, c)
      BY <3>1, <3>5, <2>2
    <3> QED BY <3>1, <3>2, <3>3, <3>4, <3>5, ConcludeShape
  <2>8. ASSUME NEW e \in Exec, Finish(e)
        PROVE  Kept
    BY <1>2, <2>0, <2>8 DEF Finish, row
  <2>9. ASSUME \/ Tick \/ UNCHANGED vars
               \/ \E e \in Exec : Renew(e) \/ StopExecution(e) \/ ReadClock(e) \/ Abandon(e)
               \/ \E i \in Instance : Crash(i)
        PROVE  Kept
    BY <1>2, <2>0, <2>9 DEF Tick, vars, row, Renew, StopExecution, ReadClock, Abandon, Crash
  <2> QED BY <2>3, <2>4, <2>5, <2>6, <2>7, <2>8, <2>9 DEF Next, Slot
<1>4. ASSUME NEW e \in Exec, exec'[e].phase \in {"done", "write"}, exec'[e].res = "cancelled"
      PROVE  exec'[e].task \in asked'
  <2>1. CASE exec'[e] = exec[e]
    BY <1>2, <1>4, <2>1 DEF AskedInv
  <2>2. CASE Finish(e) \/ StopExecution(e) \/ ReadClock(e)
    <3>1. CASE Finish(e)
      BY <1>0, <1>4, <3>1 DEF Finish, Enter, ExecTypes
    <3>2. CASE StopExecution(e)
      BY <1>0, <1>4, <3>2 DEF StopExecution, Enter, ExecTypes
    <3>3. CASE ReadClock(e)
      <4>1. /\ exec[e].phase = "done" /\ exec[e].res = "cancelled"
            /\ exec'[e].task = exec[e].task /\ asked' = asked
        BY <1>0, <1>4, <3>3 DEF ReadClock, Enter, ExecTypes
      <4> QED BY <4>1 DEF AskedInv
    <3> QED BY <2>2, <3>1, <3>2, <3>3
  <2>3. CASE Claims
    BY <1>0, <1>4, <2>1, <2>3 DEF Claims, Claim, ExecTypes
  <2> QED BY <1>4, <2>1, <2>2, <2>3, OwnStep DEF Live
<1>5. ASSUME NEW e \in Exec, exec'[e].phase \in {"done", "write"}, exec'[e].res = "stopped",
             NEW m, m = IF exec'[e].phase = "done" THEN now' ELSE exec'[e].moment,
             exec'[e].task \notin asked' \cup strayed', ~Stale(e)',
             status'[exec'[e].task] = "RUNNING",
             owner'[exec'[e].task] = exec'[e].inst,
             leaseUntil'[exec'[e].task] > m
      PROVE  FALSE
  <2> DEFINE t == exec[e].task
             i == exec[e].inst
             m0 == IF exec[e].phase = "done" THEN now ELSE exec[e].moment
  <2>1. CASE Claims
    <3>1. PICK j \in Instance, f \in Exec, u \in Task : Claim(j, f, u)
      BY <2>1 DEF Claims
    <3>2. f # e /\ exec'[e] = exec[e] /\ now' = now /\ asked' = asked /\ strayed' = strayed
      BY <1>0, <1>5, <3>1 DEF Claim, ExecTypes
    <3>3. t \in Task /\ Live(e) /\ exec[e].att \in Nat /\ exec[e].att <= attempt[t]
      BY <1>0, <1>5, <3>2 DEF LiveOK, Live, ExecTypes, AttemptsInv
    <3>4. CASE t = u
      <4>1. \/ status[t] = "QUEUED" /\ attempt'[t] = attempt[t] + 1
            \/ status[t] = "WAITING" /\ attempt'[t] = attempt[t]
        BY <1>0, <3>1, <3>3, <3>4 DEF Claim, Claimable, Idle, RowTypes
      <4>2. exec[e].att = attempt'[t] /\ attempt[t] \in Nat
        BY <1>0, <1>5, <3>2, <3>3 DEF Stale, RowTypes
      <4> QED BY <1>5, <3>2, <3>3, <4>1, <4>2 DEF AttemptsInv, Stale
    <3>5. CASE t # u
      <4>1. /\ status[t] = "RUNNING" /\ owner[t] = i /\ leaseUntil'[t] = leaseUntil[t]
            /\ attempt'[t] = attempt[t]
        BY <1>0, <1>5, <3>1, <3>2, <3>3, <3>5 DEF Claim, RowTypes
      <4>2. ~Fenced(e, m0)
        BY <1>5, <3>2, <4>1 DEF Holds, Fenced, Stale
      <4> QED BY <1>5, <3>2, <4>2 DEF AskedInv
    <3> QED BY <3>4, <3>5
  <2>2. CASE ~Claims
    <3>0. /\ Live(e)' /\ Live(e) /\ t \in Task
          /\ exec'[e].task = t /\ exec'[e].inst = i /\ exec'[e].att = exec[e].att
      <4>1. Live(e)'
        BY <1>5 DEF Live
      <4> QED BY <1>0, <4>1, <2>2, OnlyClaimsStart DEF SlotsOnlyLeave, LiveOK
    <3>1. status[t] = "RUNNING" /\ owner[t] = i /\ ~Stale(e) /\ t \notin asked \cup strayed
      BY <1>2, <1>5, <2>2, <3>0, OnlyClaimsOwn DEF Stale
    <3>6. leaseUntil[t] \in Nat /\ (leaseUntil'[t] = leaseUntil[t] \/ leaseUntil[t] > now)
      BY <1>0, <1>5, <2>2, <3>0, OnlyOwnersRenew DEF RowTypes
    <3>2. CASE exec'[e] = exec[e]
      <4>1. m \in Nat /\ m0 \in Nat /\ m >= m0 /\ now >= m0
        BY <1>0, <1>3, <1>5, <3>2 DEF ExecTypes, Moments
      <4>2. leaseUntil[t] > m0
        BY <1>0, <1>5, <3>0, <3>6, <4>1 DEF RowTypes
      <4> QED BY <1>5, <3>1, <3>2, <4>2 DEF AskedInv, Fenced, Holds
    <3>3. CASE Finish(e)
      BY <1>0, <1>5, <3>3 DEF Finish, Enter, ExecTypes, Returned
    <3>4. CASE StopExecution(e)
      <4>1. exec'[e].phase = "done" /\ now' = now /\ asked' = asked
        BY <1>0, <3>4 DEF StopExecution, Enter, ExecTypes
      <4>2. ~cancelReq[t]
        BY <3>0, <3>1 DEF AskedInv
      <4>3. ~Holds(i, t, now) /\ leaseUntil' = leaseUntil
        BY <3>4, <4>2 DEF StopExecution
      <4> QED BY <1>5, <3>0, <3>1, <4>1, <4>3 DEF Holds
    <3>5. CASE ReadClock(e)
      <4>1. exec[e].phase = "done" /\ asked' = asked /\ leaseUntil' = leaseUntil
        BY <3>5 DEF ReadClock, row
      <4>2. exec'[e].phase = "write" /\ exec'[e].moment = now /\ exec[e].res = "stopped"
        BY <1>0, <1>5, <3>5 DEF ReadClock, Enter, ExecTypes
      <4>3. ~Holds(i, t, now)
        BY <3>0, <3>1, <4>1, <4>2 DEF AskedInv, Fenced
      <4> QED BY <1>5, <3>0, <3>1, <4>1, <4>2, <4>3 DEF Holds
    <3> QED BY <2>2, <3>0, <3>2, <3>3, <3>4, <3>5, OwnStep
  <2> QED BY <2>1, <2>2
<1>6. ASSUME NEW e \in Exec
      PROVE  (LET t == exec[e].task IN
       /\ exec[e].phase \in {"done", "write"} /\ exec[e].res = "cancelled" => t \in asked
       /\ exec[e].phase = "done" /\ exec[e].res = "stopped" =>
            t \in asked \cup strayed \/ Fenced(e, now)
       /\ exec[e].phase = "write" /\ exec[e].res = "stopped" =>
            t \in asked \cup strayed \/ Fenced(e, exec[e].moment))'
  BY <1>4, <1>5 DEF Holds, Fenced
<1> QED BY <1>1, <1>6 DEF AskedInv

FencingInv ==
  /\ TypeInv /\ UnsafeInv /\ AttemptsInv /\ OneSlot /\ Current
  /\ StraysAreReentries /\ BudgetInv /\ Moments /\ AskedInv

\* The inductive invariant
LEMMA Fencing == Spec => []FencingInv
<1>1. Init => FencingInv
  <2> SUFFICES ASSUME Init PROVE FencingInv
    OBVIOUS
  <2>1. \A e \in Exec : exec[e] = NoRun
    BY DEF Init
  <2>2. UnsafeInv /\ AttemptsInv /\ OneSlot /\ Current /\ StraysAreReentries /\ Moments
    BY <2>1 DEF Init, UnsafeInv, AttemptsInv, OneSlot, Current, StraysAreReentries, Moments, Live, NoRun
  <2>3. BudgetInv
    BY ConstantsAssumption DEF Init, BudgetInv
  <2>4. AskedInv
    BY <2>1 DEF Init, AskedInv, NoRun
  <2> QED BY <2>2, <2>3, <2>4, TypeInit DEF FencingInv
<1>2. FencingInv /\ [Next]_vars => FencingInv'
  BY TypeStep, UnsafeStep, AttemptsStep, OneSlotStep, CurrentStep, StraysStep, BudgetStep,
     TimePasses, AskedStep DEF FencingInv
<1> QED BY <1>1, <1>2, PTL DEF Spec

(* No crash, reclaim, retry or re-entry makes a task start more attempts   *)
(* than it was given, unless an earlier attempt has decided its row.       *)
THEOREM BudgetIsKept == Spec => []AttemptBudget
<1>1. FencingInv => AttemptBudget
  BY DEF FencingInv, BudgetInv, AttemptBudget
<1> QED BY <1>1, Fencing, PTL

(* A task ends CANCELLED only when somebody cancelled it: the heartbeat    *)
(* that stops an execution because its lease is gone writes nothing.  Only *)
(* the stray result of an earlier attempt may do so.                       *)
THEOREM CancelsAreAskedFor == Spec => []NoUnrequestedCancel
<1>1. FencingInv => NoUnrequestedCancel
  BY DEF FencingInv, AskedInv, NoUnrequestedCancel
<1> QED BY <1>1, Fencing, PTL

(* The invariant of the runs: types, the budget of attempts, and cancels   *)
(* that are neither lost nor made up.                                      *)
THEOREM TasksAreSafe == Spec => []Inv
<1>1. TypeOK /\ AttemptBudget /\ NoUnrequestedCancel /\ CancelSticks => Inv
  BY DEF Inv
<1> QED BY <1>1, TypeCorrect, BudgetIsKept, CancelsAreAskedFor, CancelIsKept, PTL

(* The lease fences off every earlier attempt but those of the owning      *)
(* process: one decides a row only where its process took the task a       *)
(* second time while it still ran it, and never a task whose effect may    *)
(* not be repeated.                                                        *)
THEOREM StaleAttemptsAreFenced == Spec => []StraysAreReentries
<1>1. FencingInv => StraysAreReentries
  BY DEF FencingInv
<1> QED BY <1>1, Fencing, PTL

-----------------------------------------------------------------------------
(* The slots of a process. *)

(* Every id a process counts is that of a task it runs, every execution is *)
(* counted under its task id but for the tasks it took twice, and the      *)
(* count keeps the limit.                                                  *)
SlotsInv ==
  /\ \A i \in Instance : \A t \in slots[i] : \E e \in Exec : RunsOn(e, i, t)
  /\ \A e \in Exec :
       Live(e) /\ <<exec[e].inst, exec[e].task>> \notin again => exec[e].task \in slots[exec[e].inst]
  /\ \A i \in Instance : Cardinality(slots[i]) <= SlotLimit

LEMMA SlotsStep ==
  ASSUME TypeInv, OneSlot, SlotsInv, [Next]_vars
  PROVE  SlotsInv'
<1>0. /\ ExecTypes /\ LiveOK /\ slots \in [Instance -> SUBSET Task]
      /\ \A i \in Instance : IsFiniteSet(slots[i]) /\ Cardinality(slots[i]) \in Nat
      /\ SlotLimit \in Nat
  <2>1. slots \in [Instance -> SUBSET Task] /\ ExecTypes /\ LiveOK
    BY DEF TypeInv, TypeOK, ExecTypes
  <2> QED BY <2>1, ConstantsAssumption, FS_Subset, FS_CardinalityType
<1>1. ASSUME NEW i \in Instance, NEW e \in Exec, NEW t \in Task, Claim(i, e, t)
      PROVE  SlotsInv'
  <2>1. /\ slots' = [slots EXCEPT ![i] = @ \cup {t}]
        /\ exec'[e].inst = i /\ exec'[e].task = t /\ Live(e)' /\ ~Live(e)
        /\ \A f \in Exec : f # e => exec'[f] = exec[f]
        /\ again \subseteq again'
        /\ Cardinality(slots[i]) < SlotLimit
    BY <1>0, <1>1 DEF Claim, FreeSlot, ExecTypes, Live
  <2>2. Cardinality(slots[i] \cup {t}) <= SlotLimit
    <3>1. \/ Cardinality(slots[i] \cup {t}) = Cardinality(slots[i])
          \/ Cardinality(slots[i] \cup {t}) = Cardinality(slots[i]) + 1
      BY <1>0, FS_AddElement
    <3> QED BY <1>0, <2>1, <3>1
  <2>3. \A j \in Instance : Cardinality(slots'[j]) <= SlotLimit
    BY <1>0, <2>1, <2>2 DEF SlotsInv
  <2>4. \A f \in Exec : Live(f)' /\ <<exec'[f].inst, exec'[f].task>> \notin again'
                         => exec'[f].task \in slots'[exec'[f].inst]
    BY <1>0, <2>1 DEF SlotsInv, Live, LiveOK
  <2>5. ASSUME NEW j \in Instance, NEW u \in slots'[j]
        PROVE  \E f \in Exec : RunsOn(f, j, u)'
    <3>1. CASE u \in slots[j]
      <4>1. PICK f \in Exec : RunsOn(f, j, u)
        BY <3>1 DEF SlotsInv
      <4>2. f # e
        BY <2>1, <4>1 DEF RunsOn
      <4> QED BY <2>1, <4>1, <4>2 DEF RunsOn, Live
    <3>2. CASE u \notin slots[j]
      <4>1. j = i /\ u = t
        BY <1>0, <2>1, <2>5, <3>2
      <4> QED BY <2>1, <4>1 DEF RunsOn
    <3> QED BY <3>1, <3>2
  <2> QED BY <2>3, <2>4, <2>5 DEF SlotsInv
<1>2. ASSUME NEW e \in Exec, Live(e), Vacate(e), again' = again
      PROVE  SlotsInv'
  <2>1. exec[e].inst \in Instance /\ exec[e].task \in Task
    BY <1>0, <1>2 DEF LiveOK
  <2>2. Cardinality(slots[exec[e].inst] \ {exec[e].task}) <= SlotLimit
    <3>1. \/ Cardinality(slots[exec[e].inst] \ {exec[e].task}) = Cardinality(slots[exec[e].inst])
          \/ Cardinality(slots[exec[e].inst] \ {exec[e].task}) = Cardinality(slots[exec[e].inst]) - 1
      BY <1>0, <2>1, FS_RemoveElement
    <3> QED BY <1>0, <2>1, <3>1 DEF SlotsInv
  <2>3. \A j \in Instance : Cardinality(slots'[j]) <= SlotLimit
    BY <1>0, <1>2, <2>1, <2>2 DEF SlotsInv, Vacate
  <2>4. ASSUME NEW f \in Exec, Live(f)', <<exec'[f].inst, exec'[f].task>> \notin again'
        PROVE  exec'[f].task \in slots'[exec'[f].inst]
    <3>1. f # e /\ exec'[f] = exec[f] /\ Live(f)
      BY <1>0, <1>2, <2>4 DEF Vacate, ExecTypes, Live, NoRun
    <3>2. ~(exec[f].inst = exec[e].inst /\ exec[f].task = exec[e].task)
      BY <1>2, <2>4, <3>1 DEF OneSlot
    <3> QED BY <1>0, <1>2, <2>1, <2>4, <3>1, <3>2 DEF SlotsInv, LiveOK, Vacate
  <2>5. ASSUME NEW j \in Instance, NEW u \in slots'[j]
        PROVE  \E f \in Exec : RunsOn(f, j, u)'
    <3>1. u \in slots[j] /\ ~(j = exec[e].inst /\ u = exec[e].task)
      BY <1>0, <1>2, <2>1, <2>5 DEF Vacate
    <3>2. PICK f \in Exec : RunsOn(f, j, u)
      BY <3>1 DEF SlotsInv
    <3>3. f # e
      BY <3>1, <3>2 DEF RunsOn
    <3> QED BY <1>0, <1>2, <3>2, <3>3 DEF RunsOn, Vacate, ExecTypes, Live
  <2> QED BY <2>3, <2>4, <2>5 DEF SlotsInv
<1>3. ASSUME NEW i \in Instance, Crash(i)
      PROVE  SlotsInv'
  <2>1. \A j \in Instance : Cardinality(slots'[j]) <= SlotLimit
    BY <1>0, <1>3, FS_EmptySet, ConstantsAssumption DEF SlotsInv, Crash
  <2>2. \A f \in Exec : Live(f)' /\ <<exec'[f].inst, exec'[f].task>> \notin again'
                         => exec'[f].task \in slots'[exec'[f].inst]
    BY <1>0, <1>3 DEF SlotsInv, Crash, Live, LiveOK, NoRun, ExecTypes, traces
  <2>3. ASSUME NEW j \in Instance, NEW u \in slots'[j]
        PROVE  \E f \in Exec : RunsOn(f, j, u)'
    <3>1. j # i /\ u \in slots[j]
      BY <1>0, <1>3, <2>3 DEF Crash
    <3>2. PICK f \in Exec : RunsOn(f, j, u)
      BY <3>1 DEF SlotsInv
    <3> QED BY <1>0, <1>3, <3>1, <3>2 DEF RunsOn, Crash, Live, ExecTypes
  <2> QED BY <2>1, <2>2, <2>3 DEF SlotsInv
<1>4. ASSUME UNCHANGED <<slots, again>>,
             \A e \in Exec : /\ Live(e)' <=> Live(e)
                             /\ exec'[e].inst = exec[e].inst /\ exec'[e].task = exec[e].task
      PROVE  SlotsInv'
  <2>1. \A e \in Exec, i \in Instance, t \in Task : RunsOn(e, i, t)' <=> RunsOn(e, i, t)
    BY <1>4 DEF RunsOn
  <2>2. \A i \in Instance : \A t \in slots'[i] : \E e \in Exec : RunsOn(e, i, t)'
    BY <1>0, <1>4, <2>1 DEF SlotsInv
  <2>3. \A e \in Exec : Live(e)' /\ <<exec'[e].inst, exec'[e].task>> \notin again'
                         => exec'[e].task \in slots'[exec'[e].inst]
    BY <1>4 DEF SlotsInv
  <2> QED BY <1>4, <2>2, <2>3 DEF SlotsInv
<1>5. ASSUME NEW e \in Exec, Settle(e) \/ Abandon(e)
      PROVE  SlotsInv'
  BY <1>2, <1>5 DEF Settle, Abandon, Live, traces
<1>6. ASSUME NEW e \in Exec, Finish(e) \/ StopExecution(e) \/ ReadClock(e)
      PROVE  SlotsInv'
  <2>1. UNCHANGED <<slots, again>>
    BY <1>6 DEF Finish, StopExecution, ReadClock, traces
  <2>3. ASSUME NEW ph \in {"done", "write"}, NEW r, NEW m, exec[e].phase \in {"run", "done"},
               Enter(e, ph, r, m)
        PROVE  \A f \in Exec : /\ Live(f)' <=> Live(f)
                               /\ exec'[f].inst = exec[f].inst /\ exec'[f].task = exec[f].task
    BY <1>0, <2>3 DEF Enter, ExecTypes, Live
  <2>2. \A f \in Exec : /\ Live(f)' <=> Live(f)
                        /\ exec'[f].inst = exec[f].inst /\ exec'[f].task = exec[f].task
    BY <1>6, <2>3 DEF Finish, StopExecution, ReadClock
  <2> QED BY <1>4, <2>1, <2>2
<1>7. ASSUME \/ Tick \/ UNCHANGED vars
             \/ \E t \in Task : Cancel(t) \/ Sweep(t) \/ Reclaim(t)
             \/ \E e \in Exec : Renew(e)
      PROVE  SlotsInv'
  <2>1. UNCHANGED <<slots, again, exec>>
    BY <1>7 DEF Tick, vars, traces, Cancel, Sweep, Reclaim, Renew
  <2> QED BY <1>4, <2>1 DEF Live
<1> QED BY <1>1, <1>3, <1>5, <1>6, <1>7 DEF Next, Slot

\* Ids and executions agree in every reachable state
LEMMA SlotsAgree == Spec => [](TypeInv /\ OneSlot /\ SlotsInv)
<1>1. Init => SlotsInv
  BY FS_EmptySet, ConstantsAssumption DEF Init, SlotsInv, Live, NoRun
<1>2. FencingInv => TypeInv /\ OneSlot
  BY DEF FencingInv
<1> QED BY <1>1, <1>2, Fencing, SlotsStep, PTL DEF Spec

(* No id stays behind and takes a slot of a process for good, and a        *)
(* process counts every task it runs, once, but for those it took twice.   *)
THEOREM SlotsComeBack == Spec => []SlotsAreCounted
<1>1. TypeInv /\ OneSlot /\ SlotsInv => SlotsAreCounted
  <2> SUFFICES ASSUME TypeInv, OneSlot, SlotsInv, NEW i \in Instance, NEW t \in Task
               PROVE  LET working == {e \in Exec : RunsOn(e, i, t)} IN
                      /\ t \in slots[i] => working # {}
                      /\ <<i, t>> \notin again =>
                           Cardinality(working) = IF t \in slots[i] THEN 1 ELSE 0
    BY DEF SlotsAreCounted
  <2> DEFINE working == {e \in Exec : RunsOn(e, i, t)}
  <2>1. t \in slots[i] => working # {}
    BY DEF SlotsInv
  <2>2. ASSUME <<i, t>> \notin again
        PROVE  Cardinality(working) = IF t \in slots[i] THEN 1 ELSE 0
    <3>1. CASE working = {}
      BY <2>1, <3>1, FS_EmptySet
    <3>2. CASE working # {}
      <4>1. PICK e \in Exec : RunsOn(e, i, t)
        BY <3>2
      <4>2. t \in slots[i]
        BY <2>2, <4>1 DEF SlotsInv, RunsOn
      <4>3. working = {e}
        BY <2>2, <4>1 DEF OneSlot, RunsOn
      <4>4. Cardinality({e}) = 1
        BY FS_Singleton
      <4> QED BY <4>2, <4>3, <4>4
    <3> QED BY <3>1, <3>2
  <2> QED BY <2>1, <2>2
<1> QED BY <1>1, SlotsAgree, PTL

(* A process never runs more executions than it has slots, although it     *)
(* counts the task ids they were registered under; the tasks it took twice *)
(* are not counted.                                                        *)
THEOREM SlotsAreBounded == Spec => []SlotBound
<1>1. TypeInv /\ OneSlot /\ SlotsInv => SlotBound
  <2> SUFFICES ASSUME TypeInv, OneSlot, SlotsInv, NEW i \in Instance
               PROVE  Cardinality({e \in Exec : /\ Live(e) /\ exec[e].inst = i
                                                /\ <<i, exec[e].task>> \notin again}) <= SlotLimit
    BY DEF SlotBound
  <2> DEFINE Working == {e \in Exec : Live(e) /\ exec[e].inst = i /\ <<i, exec[e].task>> \notin again}
             taskOf == [e \in Working |-> exec[e].task]
  <2>1. taskOf \in Injection(Working, slots[i])
    <3>1. taskOf \in [Working -> slots[i]]
      BY DEF SlotsInv
    <3>2. \A e, f \in Working : taskOf[e] = taskOf[f] => e = f
      BY DEF OneSlot
    <3> QED BY <3>1, <3>2 DEF Injection, IsInjective
  <2>2. IsFiniteSet(slots[i]) /\ Cardinality(slots[i]) \in Nat
    <3>1. slots[i] \in SUBSET Task
      BY DEF TypeInv, TypeOK
    <3> QED BY <3>1, ConstantsAssumption, FS_Subset, FS_CardinalityType
  <2>3. IsFiniteSet(Working) /\ Cardinality(Working) <= Cardinality(slots[i])
    BY <2>1, <2>2, FS_Injection
  <2>4. Cardinality(Working) \in Nat /\ SlotLimit \in Nat
    BY <2>3, FS_CardinalityType, ConstantsAssumption
  <2> QED BY <2>2, <2>3, <2>4 DEF SlotsInv
<1> QED BY <1>1, SlotsAgree, PTL

-----------------------------------------------------------------------------
(* The lifecycle of TaskLifecycle is implemented. *)

\* The steps of the row that the lifecycle sees
LEMMA TerminalMaps ==
  ASSUME RowTypes, NEW t \in Task, NEW s \in {"COMPLETED", "FAILED", "CANCELLED"}, NEW c,
         NEW cancel \in BOOLEAN, WriteTerminal(t, s, c, cancel),
         asked' = asked, strayed' = strayed, retrySafe' = retrySafe,
         \/ s = "FAILED" /\ ~cancel
         \/ s = "COMPLETED" /\ ~cancel /\ status[t] = "RUNNING" /\ ~cancelReq[t]
         \/ s = "CANCELLED" /\ cancel /\ status[t] = "RUNNING" /\ t \in asked \cup strayed
  PROVE  Lifecycle!Expire(t) \/ Lifecycle!Report(t, "COMPLETED") \/ Lifecycle!Stop(t)
<1>1. /\ status' = [status EXCEPT ![t] = s] /\ attempt' = attempt
      /\ cancelReq' = IF cancel THEN [cancelReq EXCEPT ![t] = TRUE] ELSE cancelReq
      /\ status[t] \in {"QUEUED", "WAITING", "RUNNING"}
  BY DEF WriteTerminal, RowTypes, Idle, Terminal
<1>2. CASE s = "FAILED" /\ ~cancel
  BY <1>1, <1>2 DEF Lifecycle!Expire, Lifecycle!Move
<1>3. CASE s = "COMPLETED" /\ ~cancel /\ status[t] = "RUNNING" /\ ~cancelReq[t]
  BY <1>1, <1>3 DEF Lifecycle!Report, Lifecycle!Move
<1>4. CASE s = "CANCELLED" /\ cancel /\ status[t] = "RUNNING" /\ t \in asked \cup strayed
  BY <1>1, <1>4 DEF Lifecycle!Stop, Lifecycle!Move
<1> QED BY <1>2, <1>3, <1>4

\* Every step is a step of the lifecycle, or one it does not see
LEMMA StepMaps ==
  ASSUME FencingInv, [Next]_vars
  PROVE  [Lifecycle!Next]_(Lifecycle!vars)
<1>0. /\ RowTypes /\ ExecTypes /\ LiveOK /\ AskedInv /\ BudgetInv /\ TypeInv
      /\ MaxAttempts \in [Task -> 1..AttemptLimit] /\ AttemptLimit \in Nat
      /\ retrySafe' = retrySafe
  <2>1. TracesOK /\ LiveOK
    BY DEF FencingInv, TypeInv, TypeOK, TracesOK
  <2>2. retrySafe' = retrySafe
    BY <2>1, TracesStep
  <2> QED BY <2>2, ConstantsAssumption DEF FencingInv, TypeInv, TypeOK, RowTypes, ExecTypes
<1>1. UNCHANGED <<status, attempt, cancelReq, asked, strayed, retrySafe>> => UNCHANGED Lifecycle!vars
  BY DEF Lifecycle!vars
<1>2. ASSUME NEW i \in Instance, NEW e \in Exec, NEW t \in Task, Claim(i, e, t)
      PROVE  Lifecycle!Next
  <2>1. CASE status[t] = "QUEUED"
    <3>1. Lifecycle!Start(t)
      BY <1>0, <1>2, <2>1 DEF Claim, Claimable, BudgetInv, RowTypes, Lifecycle!Start, Lifecycle!Move
    <3> QED BY <3>1 DEF Lifecycle!Next
  <2>2. CASE status[t] = "WAITING"
    <3>1. attempt' = attempt
      BY <1>0, <1>2, <2>2 DEF Claim, RowTypes
    <3>2. Lifecycle!Resume(t)
      BY <1>2, <2>2, <3>1 DEF Claim, Claimable, Lifecycle!Resume, Lifecycle!Move
    <3> QED BY <3>2 DEF Lifecycle!Next
  <2> QED BY <1>2, <2>1, <2>2 DEF Claim, Claimable, Idle
<1>3. ASSUME NEW t \in Task, Cancel(t)
      PROVE  Lifecycle!Next
  <2>1. CASE CancelIdle(t)
    <3>1. cancelReq' = [cancelReq EXCEPT ![t] = TRUE]
      BY <1>0, <2>1 DEF CancelIdle, WriteTerminal, RowTypes
    <3>2. Lifecycle!CancelNow(t)
      BY <1>3, <2>1, <3>1 DEF Cancel, CancelIdle, WriteTerminal, Idle, traces, Lifecycle!CancelNow, Lifecycle!Move
    <3> QED BY <3>2 DEF Lifecycle!Next
  <2>2. CASE FlagRunning(t)
    <3>1. Lifecycle!Request(t)
      BY <1>3, <2>2 DEF Cancel, FlagRunning, traces, Lifecycle!Request
    <3> QED BY <3>1 DEF Lifecycle!Next
  <2> QED BY <1>3, <2>1, <2>2 DEF Cancel
<1>4. ASSUME NEW t \in Task, Sweep(t)
      PROVE  Lifecycle!Next
  BY <1>0, <1>4, TerminalMaps DEF Sweep, traces, Lifecycle!Next
<1>5. ASSUME NEW t \in Task, Reclaim(t)
      PROVE  Lifecycle!Next
  <2>1. CASE ReclaimCancelled(t)
    <3>1. /\ t \in asked \cup strayed /\ status[t] = "RUNNING"
          /\ asked' = asked /\ strayed' = strayed
      BY <1>0, <1>5, <2>1 DEF ReclaimCancelled, AskedInv, Reclaim, Expired, traces
    <3> QED BY <1>0, <2>1, <3>1, TerminalMaps DEF ReclaimCancelled, Lifecycle!Next
  <2>2. CASE ReclaimExhausted(t) \/ ReclaimUnverified(t)
    BY <1>0, <1>5, <2>2, TerminalMaps
       DEF ReclaimExhausted, ReclaimUnverified, Reclaim, traces, Lifecycle!Next
  <2>3. CASE Requeue(t)
    <3>1. Lifecycle!Retry(t)
      BY <1>5, <2>3 DEF Requeue, Release, Reclaim, Expired, traces, Lifecycle!Retry, Lifecycle!Move
    <3> QED BY <3>1 DEF Lifecycle!Next
  <2> QED BY <1>5, <2>1, <2>2, <2>3 DEF Reclaim, ReclaimOutcome
<1>6. ASSUME NEW e \in Exec, Finish(e)
      PROVE  Lifecycle!Next \/ UNCHANGED Lifecycle!vars
  <2>1. CASE asked' = asked
    BY <1>1, <1>6, <2>1 DEF Finish, row, traces
  <2>2. CASE asked' = asked \cup {exec[e].task}
    <3>1. Lifecycle!SelfCancel(exec[e].task)
      BY <1>6, <2>2 DEF Finish, row, traces, Lifecycle!SelfCancel
    <3> QED BY <1>0, <1>6, <3>1 DEF Finish, LiveOK, Live, Lifecycle!Next
  <2> QED BY <1>6, <2>1, <2>2 DEF Finish
<1>7. ASSUME NEW e \in Exec, Settle(e)
      PROVE  Lifecycle!Next \/ UNCHANGED Lifecycle!vars
  <2> DEFINE t == exec[e].task
  <2>1. /\ Live(e) /\ exec[e].phase = "write" /\ t \in Task /\ Conclude(e) /\ asked' = asked
        /\ strayed' = IF Stale(e) /\ ~UNCHANGED row THEN strayed \cup {t} ELSE strayed
    BY <1>0, <1>7, SettleShape DEF Settle
  <2>2. CASE UNCHANGED row
    BY <1>0, <1>1, <2>1, <2>2 DEF row
  <2>3. ASSUME ~UNCHANGED row, ~Stale(e)
        PROVE  Lifecycle!Next
    <3>0. strayed' = strayed
      BY <2>1, <2>3
    <3>1. Holds(exec[e].inst, t, exec[e].moment) /\ status[t] = "RUNNING"
      BY <2>1, <2>3, ConcludeShape DEF Holds
    <3>2. CASE /\ WriteTerminal(t, "CANCELLED", "none", TRUE)
               /\ exec[e].res \in {"cancelled", "stopped"} \/ cancelReq[t]
      <4>1. t \in asked \cup strayed
        BY <1>0, <2>1, <2>3, <3>1, <3>2 DEF AskedInv, Fenced
      <4> QED BY <1>0, <2>1, <3>0, <3>1, <3>2, <4>1, TerminalMaps DEF Lifecycle!Next
    <3>3. CASE ~cancelReq[t] /\ \E c \in Codes : WriteTerminal(t, "COMPLETED", c, FALSE)
      BY <1>0, <2>1, <3>0, <3>1, <3>3, TerminalMaps DEF Lifecycle!Next
    <3>4. CASE \E c \in Codes : WriteTerminal(t, "FAILED", c, FALSE)
      BY <1>0, <2>1, <3>0, <3>1, <3>4, TerminalMaps DEF Lifecycle!Next
    <3>5. CASE ~cancelReq[t] /\ \E nb, c : Release(t, "WAITING", nb, c)
      <4>1. Lifecycle!Report(t, "WAITING")
        BY <1>0, <2>1, <3>0, <3>1, <3>5 DEF Release, Lifecycle!Report, Lifecycle!Move
      <4> QED BY <2>1, <4>1 DEF Lifecycle!Next
    <3>6. CASE ~cancelReq[t] /\ Retries(e) /\ \E nb, c : Release(t, "QUEUED", nb, c)
      <4>1. t \in retrySafe /\ attempt[t] < MaxAttempts[t]
        BY <2>3, <3>6 DEF Retries, Stale
      <4>2. Lifecycle!Retry(t)
        BY <1>0, <2>1, <3>0, <3>1, <3>6, <4>1 DEF Release, Lifecycle!Retry, Lifecycle!Move
      <4> QED BY <2>1, <4>2 DEF Lifecycle!Next
    <3> QED BY <2>1, <2>3, <3>2, <3>3, <3>4, <3>5, <3>6, ConcludeShape DEF Idle
  <2>4. ASSUME ~UNCHANGED row, Stale(e)
        PROVE  Lifecycle!Next
    <3>1. /\ status[t] = "RUNNING" /\ t \in retrySafe /\ strayed' = strayed \cup {t}
      <4>1. status[t] = "RUNNING" /\ strayed' = strayed \cup {t}
        BY <2>1, <2>4, ConcludeShape DEF Holds
      <4>2. exec[e].att \in Nat /\ exec[e].att >= 1 /\ attempt[t] \in Nat /\ exec[e].att <= attempt[t]
        BY <1>0, <2>1 DEF ExecTypes, RowTypes, LiveOK, FencingInv, AttemptsInv
      <4>3. attempt[t] > 1
        BY <2>4, <4>2 DEF Stale
      <4> QED BY <2>1, <4>1, <4>2, <4>3 DEF FencingInv, UnsafeInv
    <3>2. ASSUME NEW s \in {"QUEUED", "WAITING", "COMPLETED", "FAILED", "CANCELLED"},
                 Lifecycle!Stray(t, s)
          PROVE  Lifecycle!Next
      BY <2>1, <3>2 DEF Lifecycle!Next
    <3>3. CASE WriteTerminal(t, "CANCELLED", "none", TRUE)
      <4>1. cancelReq' = [cancelReq EXCEPT ![t] = @ \/ "CANCELLED" = "CANCELLED"]
        BY <1>0, <2>1, <3>3 DEF WriteTerminal, RowTypes
      <4>2. Lifecycle!Stray(t, "CANCELLED")
        BY <1>0, <2>1, <3>1, <3>3, <4>1 DEF WriteTerminal, Lifecycle!Stray, Lifecycle!Move
      <4> QED BY <3>2, <4>2
    <3>4. ASSUME ~cancelReq[t], NEW s \in {"COMPLETED", "FAILED"}, NEW c, WriteTerminal(t, s, c, FALSE)
          PROVE  Lifecycle!Next
      <4>1. cancelReq' = [cancelReq EXCEPT ![t] = @ \/ s = "CANCELLED"]
        BY <1>0, <2>1, <3>4 DEF WriteTerminal, RowTypes
      <4>2. Lifecycle!Stray(t, s)
        BY <1>0, <2>1, <3>1, <3>4, <4>1 DEF WriteTerminal, Lifecycle!Stray, Lifecycle!Move
      <4> QED BY <3>2, <4>2
    <3>5. ASSUME ~cancelReq[t], NEW s \in Idle, NEW nb, NEW c, Release(t, s, nb, c)
          PROVE  Lifecycle!Next
      <4>1. cancelReq' = [cancelReq EXCEPT ![t] = @ \/ s = "CANCELLED"]
        BY <1>0, <2>1, <3>5 DEF Release, RowTypes, Idle
      <4>2. Lifecycle!Stray(t, s)
        BY <1>0, <2>1, <3>1, <3>5, <4>1 DEF Release, Idle, Lifecycle!Stray, Lifecycle!Move
      <4> QED BY <3>2, <3>5, <4>2 DEF Idle
    <3> QED BY <2>1, <2>4, <3>3, <3>4, <3>5, ConcludeShape
  <2> QED BY <2>2, <2>3, <2>4
<1>8. ASSUME \/ Tick \/ UNCHANGED vars
             \/ \E e \in Exec : Renew(e) \/ StopExecution(e) \/ ReadClock(e) \/ Abandon(e)
             \/ \E i \in Instance : Crash(i)
      PROVE  UNCHANGED Lifecycle!vars
  BY <1>1, <1>8 DEF Tick, vars, row, traces, Renew, StopExecution, ReadClock, Abandon, Crash
<1> QED BY <1>2, <1>3, <1>4, <1>5, <1>6, <1>7, <1>8 DEF Next, Slot

(* The worker keeps what it promises about a task: leases, clocks, crashes *)
(* and slots are invisible in the lifecycle, but for its strays.           *)
THEOREM LifecycleImplemented == Spec => ImplementsLifecycle
<1>1. Init => Lifecycle!Init
  BY DEF Init, Lifecycle!Init
<1>2. FencingInv /\ [Next]_vars => [Lifecycle!Next]_(Lifecycle!vars)
  BY StepMaps
<1> QED BY <1>1, <1>2, Fencing, PTL DEF Spec, ImplementsLifecycle, Lifecycle!Spec
=============================================================================
