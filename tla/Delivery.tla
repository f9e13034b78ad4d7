------------------------------ MODULE Delivery ------------------------------
(***************************************************************************)
(* One finished task on its way to the user: the delivery columns of       *)
(* task_execution, the delivery loops of the Worker replicas, the          *)
(* gateway's handler of POST /internal/deliveries with its idempotency     *)
(* key in Redis, and the command stream to the connector.  Source:         *)
(* agent-worker's delivery/service.py, im-gateway's api/delivery.py and    *)
(* infrastructure/dedupe.py, im-connector's outbound.py.                   *)
(*                                                                         *)
(* An attempt makes at most one request and a request at most one command, *)
(* so all three are named by the number of the attempt.  Times are         *)
(* abstract: a back-off, a wait or a placeholder may run out at any moment *)
(* the code does not exclude.                                              *)
(***************************************************************************)
EXTENDS Naturals, FiniteSets

CONSTANTS
  Replicas,     \* how many delivery loops there are
  MaxAttempts   \* delivery_max_attempts

ASSUME ReplicasAssumption    == Replicas \in Nat \ {0}
ASSUME MaxAttemptsAssumption == MaxAttempts \in Nat \ {0}

VARIABLES
  channel,   \* of the delivery route; NONE when the route is gone.  Fixed
  form,      \* what the Worker sends now: the file, or text once it is gone
  pub,       \* WEBCHAT: the outbox of the result towards the Runtime
  row,       \* delivery_status, delivery_attempts, and the age of update_time
  try,       \* of each attempt, what its loop knows
  req,       \* the gateway's handler of each attempt
  key,       \* the idempotency key in Redis
  cmd,       \* the command in im.outbound and its result
  inbox,     \* WEBCHAT: the notification is committed in the Runtime
  copies,    \* how often the user got it over IM, up to 2
  fault      \* history: something happened that may excuse a second copy

worker == <<channel, form, pub, row, inbox>>
net    == <<req, key, cmd, copies, fault>>
vars   == <<worker, try, net>>

Attempt == 1..MaxAttempts

\* The attempts a loop is busy with
Running == {a \in Attempt : try[a] \notin {"none", "over"}}

NoReq == [phase |-> "none", form |-> "file", held |-> FALSE]

Free        == [state |-> "free",      of |-> 0, form |-> "none"]
Flight(a)   == [state |-> "flight",    of |-> a, form |-> "none"]
Marked(f)   == [state |-> "delivered", of |-> 0, form |-> f]

Init ==
  /\ channel \in {"IM", "WEBCHAT", "NONE"}
  /\ form = "file"
  /\ pub \in IF channel = "WEBCHAT" THEN {"PENDING", "NONE"} ELSE {"NONE"}
  /\ row = [status |-> "PENDING", attempts |-> 0, age |-> 0]
  /\ try = [a \in Attempt |-> "none"]
  /\ req = [a \in Attempt |-> NoReq]
  /\ key = Free
  /\ cmd = [a \in Attempt |-> "none"]
  /\ inbox = FALSE
  /\ copies = 0
  /\ fault = FALSE

-----------------------------------------------------------------------------
(* Surroundings. *)

\* The result outbox (ToolOperation) comes to its conclusion
Publish ==
  /\ pub = "PENDING"
  /\ pub' \in {"SENT", "FAILED"}
  /\ UNCHANGED <<channel, form, row, inbox, try, net>>

\* The artifact is no longer found: from now on the text is sent
LoseArtifact ==
  /\ channel = "IM" /\ form = "file" /\ form' = "text"
  /\ UNCHANGED <<channel, pub, row, inbox, try, net>>

(* update_time grows old: 1 is past the back-off, 2 past the reservation   *)
(* lease as well.  The attempt itself may still be under way.              *)
Elapse ==
  /\ row.status = "PENDING" /\ row.attempts > 0 /\ row.age < 2
  /\ row' = [row EXCEPT !.age = @ + 1]
  /\ UNCHANGED <<channel, form, pub, inbox, try, net>>

-----------------------------------------------------------------------------
(* The Worker. *)

Detectable ==
  /\ row.status = "PENDING"
  /\ ~(channel = "WEBCHAT" /\ pub = "PENDING")

\* mutant: nobody settles a row whose last attempt vanished
SettleStranded_Never ==
  FALSE /\ UNCHANGED vars

SettleStranded ==
  /\ Detectable /\ row.attempts >= MaxAttempts /\ row.age = 2
  /\ row' = [row EXCEPT !.status = "FAILED", !.age = 0]
  /\ UNCHANGED <<channel, form, pub, inbox, try, net>>

(* _reserve_candidate: a free loop counts the attempt, and commits it,     *)
(* before anything is sent.                                                *)
Reserve ==
  LET a == row.attempts + 1 IN
  /\ Cardinality(Running) < Replicas
  /\ Detectable /\ row.attempts < MaxAttempts
  /\ row.attempts = 0 \/ row.age >= 1
  /\ row' = [row EXCEPT !.attempts = a, !.age = 0]
  /\ try' = [try EXCEPT ![a] = "running"]
  /\ UNCHANGED <<channel, form, pub, inbox, net>>

\* The request leaves, with the form the artifact has now
Post(a) ==
  /\ try[a] = "running" /\ channel = "IM" /\ req[a].phase = "none"
  /\ req' = [req EXCEPT ![a] = [phase |-> "arrived", form |-> form, held |-> FALSE]]
  /\ UNCHANGED <<worker, try, key, cmd, copies, fault>>

\* register_task_result: committed in the Runtime, once for the task
Register(a) ==
  /\ try[a] = "running" /\ channel = "WEBCHAT" /\ pub = "SENT"
  /\ inbox' = TRUE
  /\ try' = [try EXCEPT ![a] = "delivered"]
  /\ UNCHANGED <<channel, form, pub, row, net>>

\* mutant: the row is written whatever became of it meanwhile
Apply_Unfenced(a, s, n) ==
  /\ row' = [status |-> s, attempts |-> n, age |-> 0]
  /\ try' = [try EXCEPT ![a] = "over"]
  /\ UNCHANGED <<channel, form, pub, inbox, net>>

\* _apply: only while the row is pending and the attempt is still the last
Apply(a, s, n) ==
  /\ row' = IF row.status = "PENDING" /\ row.attempts = a
            THEN [status |-> s, attempts |-> n, age |-> 0] ELSE row
  /\ try' = [try EXCEPT ![a] = "over"]
  /\ UNCHANGED <<channel, form, pub, inbox, net>>

\* mutant: any answer of the gateway counts as delivered
Confirmed_Accepted(a) == try[a] \in {"delivered", "retry"}

\* data.delivered, or persisted, is true
Confirmed(a) == try[a] = "delivered"

RecordSent(a) == Confirmed(a) /\ Apply(a, "SENT", a)

\* No route, no result to show, or the gateway answered 4xx
Refused(a) ==
  \/ try[a] = "running" /\ channel = "NONE"
  \/ try[a] = "running" /\ channel = "WEBCHAT" /\ pub # "PENDING"
  \/ try[a] \in {"gone", "mismatch"}

RecordTerminalFailure(a) == Refused(a) /\ Apply(a, "FAILED", MaxAttempts)

(* A transport error, a 5xx, an answer that does not say delivered, an     *)
(* artifact that cannot be resolved: at any moment of the attempt.         *)
RecordRetryableFailure(a) ==
  /\ try[a] \in {"running", "retry"} /\ channel # "NONE"
  /\ Apply(a, IF a >= MaxAttempts THEN "FAILED" ELSE "PENDING", a)

Crash(a) ==
  /\ a \in Running
  /\ try' = [try EXCEPT ![a] = "over"]
  /\ UNCHANGED <<worker, net>>

-----------------------------------------------------------------------------
(* The gateway: one handler for each request. *)

Phase(a, p) == req' = [req EXCEPT ![a].phase = p]

\* The handler ends; its answer reaches the loop if that still waits for it
Answer(a, ans) ==
  /\ req' = [req EXCEPT ![a] = [NoReq EXCEPT !.phase = "done"]]
  /\ try' = IF try[a] = "running" THEN [try EXCEPT ![a] = ans] ELSE try

\* SET NX
Take(a) ==
  /\ req[a].phase = "arrived" /\ key = Free
  /\ key' = Flight(a)
  /\ req' = [req EXCEPT ![a].phase = "sending", ![a].held = TRUE]
  /\ UNCHANGED <<worker, try, cmd, copies, fault>>

\* Redis does not answer: it is sent all the same
TakeDegraded(a) ==
  /\ req[a].phase = "arrived"
  /\ Phase(a, "sending")
  /\ fault' = TRUE
  /\ UNCHANGED <<worker, try, key, cmd, copies>>

FindTaken(a) ==
  /\ req[a].phase = "arrived" /\ key # Free
  /\ Phase(a, "replaying")
  /\ UNCHANGED <<worker, try, key, cmd, copies, fault>>

\* mutant: whatever holds the key, it is answered as delivered
Replay_AnyValue(a) ==
  /\ req[a].phase = "replaying" /\ key # Free
  /\ Answer(a, "delivered")
  /\ UNCHANGED <<worker, key, cmd, copies, fault>>

\* _replay: only the mark is a delivery, and only of the same request
Replay(a) ==
  /\ req[a].phase = "replaying" /\ key.state = "delivered"
  /\ Answer(a, IF key.form = req[a].form THEN "delivered" ELSE "mismatch")
  /\ UNCHANGED <<worker, key, cmd, copies, fault>>

\* A placeholder that does not turn into a mark in time
ReplayTimesOut(a) ==
  /\ req[a].phase = "replaying" /\ key.state # "delivered"
  /\ Answer(a, "retry")
  /\ UNCHANGED <<worker, key, cmd, copies, fault>>

Enqueue(a) ==
  /\ req[a].phase = "sending"
  /\ cmd' = [cmd EXCEPT ![a] = "queued"]
  /\ Phase(a, "waiting")
  /\ UNCHANGED <<worker, try, key, copies, fault>>

\* mutant: the key is deleted whoever holds it
Release_Unguarded(a) ==
  key' = IF req[a].held THEN Free ELSE key

\* Compare and delete
Release(a) ==
  key' = IF req[a].held /\ key = Flight(a) THEN Free ELSE key

\* The artifact is not of the tenant, or the stream cannot be written
Reject(a) ==
  /\ req[a].phase = "sending"
  /\ \E ans \in {"gone", "retry"} : Answer(a, ans)
  /\ Release(a)
  /\ UNCHANGED <<worker, cmd, copies, fault>>

TakeFailure(a) ==
  /\ req[a].phase = "waiting" /\ cmd[a] = "failed"
  /\ \E ans \in {"gone", "retry"} : Answer(a, ans)
  /\ Release(a)
  /\ UNCHANGED <<worker, cmd, copies, fault>>

\* The wait is over, the command is not: the connector may still send it
GiveUp(a) ==
  /\ req[a].phase = "waiting" /\ cmd[a] = "queued"
  /\ Answer(a, "retry")
  /\ Release(a)
  /\ fault' = TRUE
  /\ UNCHANGED <<worker, cmd, copies>>

\* mutant: the mark is set when the command is queued, before it is sent
Mark_Early(a) ==
  /\ req[a].phase = "waiting" /\ cmd[a] \in {"queued", "delivered"}
  /\ key' = IF req[a].held /\ key = Flight(a) THEN Marked(req[a].form) ELSE key
  /\ Answer(a, "delivered")
  /\ UNCHANGED <<worker, cmd, copies, fault>>

\* mutant: the placeholder is dropped when the answer is given
Mark_Forgets(a) ==
  /\ req[a].phase = "waiting" /\ cmd[a] = "delivered"
  /\ key' = IF key = Flight(a) THEN Free ELSE key
  /\ Answer(a, "delivered")
  /\ UNCHANGED <<worker, cmd, copies, fault>>

\* Compare and set; it was sent, so it is answered as delivered either way
Mark(a) ==
  /\ req[a].phase = "waiting" /\ cmd[a] = "delivered"
  /\ key' = IF req[a].held /\ key = Flight(a) THEN Marked(req[a].form) ELSE key
  /\ Answer(a, "delivered")
  /\ UNCHANGED <<worker, cmd, copies, fault>>

\* Redis does not answer: the placeholder stays until it expires
MarkFails(a) ==
  /\ req[a].phase = "waiting" /\ cmd[a] = "delivered" /\ req[a].held
  /\ Answer(a, "delivered")
  /\ fault' = TRUE
  /\ UNCHANGED <<worker, key, cmd, copies>>

HandlerDies(a) ==
  /\ req[a].phase \in {"arrived", "replaying", "sending", "waiting"}
  /\ Answer(a, "retry")
  /\ fault' = TRUE
  /\ UNCHANGED <<worker, key, cmd, copies>>

(* The renewals stop with the handler, or do not come through while it is  *)
(* still at work: then it is a fault.                                      *)
Expire ==
  /\ key.state = "flight"
  /\ key' = Free
  /\ fault' = (fault \/ req[key.of].phase # "done")
  /\ UNCHANGED <<worker, try, req, cmd, copies>>

-----------------------------------------------------------------------------
(* The connector that owns the bot. *)

Get(n) == copies' = IF copies + n > 2 THEN 2 ELSE copies + n

(* Sent in the conversation, or actively when the reply fails in between;  *)
(* when the process or its lease is lost before the result is written, the *)
(* next owner reads the command again.                                     *)
Execute(a) ==
  /\ cmd[a] = "queued"
  /\ \E n \in {1, 2}, r \in {"delivered", "queued"} :
       /\ Get(n)
       /\ cmd' = [cmd EXCEPT ![a] = r]
       /\ fault' = (fault \/ n = 2 \/ r = "queued")
  /\ UNCHANGED <<worker, try, req, key>>

\* Too old, or failed too often; an attempt that failed may have come through
FailCommand(a) ==
  /\ cmd[a] = "queued"
  /\ cmd' = [cmd EXCEPT ![a] = "failed"]
  /\ \E n \in {0, 1} : Get(n) /\ fault' = (fault \/ n = 1)
  /\ UNCHANGED <<worker, try, req, key>>

Worker(a) ==
  \/ Post(a) \/ Register(a) \/ Crash(a)
  \/ RecordSent(a) \/ RecordTerminalFailure(a) \/ RecordRetryableFailure(a)

Gateway(a) ==
  \/ Take(a) \/ TakeDegraded(a) \/ FindTaken(a) \/ Replay(a) \/ ReplayTimesOut(a)
  \/ Enqueue(a) \/ Reject(a) \/ TakeFailure(a) \/ GiveUp(a)
  \/ Mark(a) \/ MarkFails(a) \/ HandlerDies(a)

Connector(a) == Execute(a) \/ FailCommand(a)

Next ==
  \/ Publish \/ LoseArtifact \/ Elapse \/ SettleStranded \/ Reserve \/ Expire
  \/ \E a \in Attempt : Worker(a) \/ Gateway(a) \/ Connector(a)

Spec == Init /\ [][Next]_vars

(* Time passes, the result outbox comes to an end, the loops poll, and a   *)
(* loop that is busy with an attempt ends it or dies.  Nothing is assumed  *)
(* of the gateway and the connector.                                       *)
FairSpec ==
  /\ Spec
  /\ WF_vars(Publish) /\ WF_vars(Elapse) /\ WF_vars(SettleStranded) /\ WF_vars(Reserve)
  /\ \A a \in Attempt : WF_vars(Worker(a) /\ try'[a] = "over")

-----------------------------------------------------------------------------
(* Properties. *)

\* Every variable keeps its type.
TypeOK ==
  /\ channel \in {"IM", "WEBCHAT", "NONE"} /\ form \in {"file", "text"}
  /\ pub \in {"NONE", "PENDING", "SENT", "FAILED"}
  /\ row \in [status : {"PENDING", "SENT", "FAILED"}, attempts : 0..MaxAttempts, age : 0..2]
  /\ try \in [Attempt -> {"none", "running", "delivered", "retry", "gone", "mismatch", "over"}]
  /\ req \in [Attempt -> [phase : {"none", "arrived", "replaying", "sending", "waiting", "done"},
                          form : {"file", "text"}, held : BOOLEAN]]
  /\ key \in {Free, Marked("file"), Marked("text")} \cup {Flight(a) : a \in Attempt}
  /\ cmd \in [Attempt -> {"none", "queued", "delivered", "failed"}]
  /\ inbox \in BOOLEAN /\ copies \in 0..2 /\ fault \in BOOLEAN

(* The delivery keeps the promise of ResultNotice: SENT only of what the   *)
(* user has, one conclusion for ever, and always a conclusion, although    *)
(* attempts overlap, answers come late and processes die.                  *)
Notice == INSTANCE ResultNotice WITH verdict <- row.status, received <- (copies > 0 \/ inbox)
ImplementsNotice == Notice!Spec

(* A mark of a delivery is never taken back, by a handler that lost its    *)
(* placeholder least of all (it expires long after the last attempt).      *)
MarkIsKept == [][key.state = "delivered" => key' = key]_vars

\* A mark stands only for something the user got.
MarkIsEarned == key.state = "delivered" => copies > 0

(* Nothing the Worker does sends a result twice: not two replicas, not a   *)
(* crash, not a back-off shorter than the attempt, not a lost answer.  It  *)
(* takes a fault of Redis, of the gateway or of the connector.             *)
SecondCopyNeedsAFault == copies > 1 => fault

(* A result in the Runtime's own channel is not attempted, and cannot use  *)
(* up its attempts, before the Runtime has taken the result itself.        *)
NoAttemptBeforeResult ==
  (channel = "WEBCHAT" /\ pub = "PENDING") => row.attempts = 0 /\ row.status = "PENDING"

(* Every variable keeps its type, the attempts of all replicas stay within *)
(* their budget, a mark stands for what the user got, and no attempt is    *)
(* spent on a result the Runtime does not have.                            *)
Inv == TypeOK /\ MarkIsEarned /\ NoAttemptBeforeResult
=============================================================================
