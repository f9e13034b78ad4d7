--------------------------- MODULE TaskLifecycle ---------------------------
(***************************************************************************)
(* What the worker promises about one task, without leases, clocks,        *)
(* processes or slots: the state machine that the API, the result outbox   *)
(* and the delivery loop rely on.  TaskLease implements it.  Its one flaw  *)
(* is Stray: an attempt that was given up may come back and decide a task  *)
(* that may be repeated; what that task does afterwards is bounded by its  *)
(* deadline, no longer by its budget or by who cancelled it.               *)
(***************************************************************************)
EXTENDS Naturals

CONSTANTS Task, MaxAttempts

VARIABLES
  status,     \* the public status of the task
  attempt,    \* attempts started so far
  cancelReq,  \* a cancel request is recorded
  asked,      \* tasks somebody cancelled: a caller, or the Skill itself
  strayed,    \* tasks that an earlier attempt has decided
  retrySafe   \* tasks that may be repeated, fixed when they are created

vars == <<status, attempt, cancelReq, asked, strayed, retrySafe>>

Init ==
  /\ status = [t \in Task |-> "QUEUED"]
  /\ attempt = [t \in Task |-> 0]
  /\ cancelReq = [t \in Task |-> FALSE]
  /\ asked = {}
  /\ strayed = {}
  /\ retrySafe \in SUBSET Task

Move(t, s) == status' = [status EXCEPT ![t] = s]

\* A new attempt, never more than the budget
Start(t) ==
  /\ status[t] = "QUEUED" /\ ~cancelReq[t]
  /\ attempt[t] < MaxAttempts[t] \/ t \in strayed
  /\ Move(t, "RUNNING")
  /\ attempt' = [attempt EXCEPT ![t] = @ + 1]
  /\ UNCHANGED <<cancelReq, asked, strayed, retrySafe>>

\* The same attempt goes on after an external wait
Resume(t) ==
  /\ status[t] = "WAITING" /\ ~cancelReq[t]
  /\ Move(t, "RUNNING")
  /\ UNCHANGED <<attempt, cancelReq, asked, strayed, retrySafe>>

\* A running task waits, succeeds or fails, unless it was told to stop
Report(t, s) ==
  /\ status[t] = "RUNNING" /\ ~cancelReq[t]
  /\ s \in {"WAITING", "COMPLETED", "FAILED"}
  /\ Move(t, s)
  /\ UNCHANGED <<attempt, cancelReq, asked, strayed, retrySafe>>

\* Another attempt, only for an effect that may be repeated
Retry(t) ==
  /\ status[t] = "RUNNING" /\ ~cancelReq[t]
  /\ t \in retrySafe /\ attempt[t] < MaxAttempts[t]
  /\ Move(t, "QUEUED")
  /\ UNCHANGED <<attempt, cancelReq, asked, strayed, retrySafe>>

\* The deadline ends whatever has not ended
Expire(t) ==
  /\ status[t] \in {"QUEUED", "WAITING", "RUNNING"}
  /\ Move(t, "FAILED")
  /\ UNCHANGED <<attempt, cancelReq, asked, strayed, retrySafe>>

\* A caller asks: an idle task is over at once
CancelNow(t) ==
  /\ status[t] \in {"QUEUED", "WAITING"}
  /\ Move(t, "CANCELLED")
  /\ cancelReq' = [cancelReq EXCEPT ![t] = TRUE]
  /\ asked' = asked \cup {t}
  /\ UNCHANGED <<attempt, strayed, retrySafe>>

\* A caller asks: a running task is told
Request(t) ==
  /\ status[t] = "RUNNING"
  /\ cancelReq' = [cancelReq EXCEPT ![t] = TRUE]
  /\ asked' = asked \cup {t}
  /\ UNCHANGED <<status, attempt, strayed, retrySafe>>

\* The Skill reports that it was cancelled
SelfCancel(t) ==
  /\ asked' = asked \cup {t}
  /\ UNCHANGED <<status, attempt, cancelReq, strayed, retrySafe>>

\* A running task stops because it was cancelled
Stop(t) ==
  /\ status[t] = "RUNNING" /\ t \in asked \cup strayed
  /\ Move(t, "CANCELLED")
  /\ cancelReq' = [cancelReq EXCEPT ![t] = TRUE]
  /\ UNCHANGED <<attempt, asked, strayed, retrySafe>>

\* An earlier attempt decides the row of the one that replaced it
Stray(t, s) ==
  /\ status[t] = "RUNNING" /\ t \in retrySafe
  /\ s \in {"QUEUED", "WAITING", "COMPLETED", "FAILED", "CANCELLED"}
  /\ cancelReq[t] => s \in {"FAILED", "CANCELLED"}
  /\ Move(t, s)
  /\ strayed' = strayed \cup {t}
  /\ cancelReq' = [cancelReq EXCEPT ![t] = @ \/ s = "CANCELLED"]
  /\ UNCHANGED <<attempt, asked, retrySafe>>

Next ==
  \E t \in Task :
    \/ Start(t) \/ Resume(t) \/ Retry(t) \/ Expire(t)
    \/ \E s \in {"WAITING", "COMPLETED", "FAILED"} : Report(t, s)
    \/ \E s \in {"QUEUED", "WAITING", "COMPLETED", "FAILED", "CANCELLED"} : Stray(t, s)
    \/ CancelNow(t) \/ Request(t) \/ SelfCancel(t) \/ Stop(t)

Spec == Init /\ [][Next]_vars
=============================================================================
