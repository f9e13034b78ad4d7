------------------------ MODULE ToolOperationProofs ------------------------
(***************************************************************************)
(* Proofs about ToolOperation, for any number of dispatchers and attempts: *)
(* what each side may conclude from what it heard of the other.            *)
(***************************************************************************)
EXTENDS ToolOperation, TLAPS

LEMMA Names ==
  /\ Runtime \cap Worker = {} /\ None \notin Sender
  /\ MaxAttempts \in Nat /\ MaxAttempts > 0
BY ConstantsAssumption DEF Sender

-----------------------------------------------------------------------------
(* The inductive invariant. *)

OpType     == [status : OpStatus, cancelReq : BOOLEAN, bound : BOOLEAN]
RowType    == [status : {"ABSENT", "PENDING", "SENT", "FAILED"},
               attempts : 0..MaxAttempts, holder : Sender \cup {None}]
SenderType == [cmd : Command \cup {"none"}, sent : BOOLEAN]
TaskType   == [status : {"ABSENT", "ENDED"} \cup Live, cancelReq : BOOLEAN]

\* What the Worker knows of the task: it is told of a cancellation with the
\* tombstone, is published when it ends, and was created once if at all
TaskIsCoherent ==
  /\ rows["CANCEL"].status = "SENT" => tomb
  /\ tomb => (task.status \in Live => task.cancelReq)
  /\ "LOOKED_UP" \in wire => "SUBMIT" \in wire
  /\ rows["RESULT"].status # "ABSENT" \/ "RESULT" \in wire => task.status = "ENDED"
  /\ task.status = "ENDED" /\ publishes => rows["RESULT"].status # "ABSENT"
  /\ created = IF task.status = "ABSENT" THEN 0 ELSE 1

\* What the status of the operation says of the command, the task and the inbox
OpIsCoherent ==
  /\ op.status = "SUBMIT_PENDING" => rows["SUBMIT"].status = "PENDING"
  /\ op.status = "SUBMITTED" => task.status # "ABSENT"
  /\ op.status = "RESULT_RECEIVED" => inbox = "fresh"
  /\ op.status = "MATERIALIZED" => "result" \in events /\ inbox # "fresh"
  /\ inbox # "none" => op.status \notin {"SUBMIT_PENDING", "SUBMITTED"}
  /\ op.cancelReq => op.status \notin {"SUBMIT_PENDING", "SUBMITTED", "RESULT_RECEIVED"}
  /\ rows["SUBMIT"].status = "PENDING" => "accepted" \notin events /\ "rejected" \notin events

\* A run that is to be cancelled has nothing to wait for, and what a waiting
\* run waits for is a submission or the task of a JOIN
WaitIsCoherent ==
  /\ join => publishes
  /\ runCancel => op.status # "SUBMIT_PENDING"
  /\ runCancel /\ join => op.status \notin {"SUBMITTED", "RESULT_RECEIVED"}
  /\ run = "WAITING" => ~runCancel
  /\ run = "WAITING" /\ ~overdue =>
       HasReady \/ op.status = "SUBMIT_PENDING" \/ (join /\ op.status = "SUBMITTED")

\* A dispatcher that is busy is busy with a command
BusyWithCommand == \A s \in Sender : sender[s] = Asleep \/ sender[s].cmd \in Command

IInv ==
  /\ TypeOK /\ TaskIsCoherent /\ OpIsCoherent /\ WaitIsCoherent /\ BusyWithCommand
  /\ SentIsDurable /\ NoOrphanWork

Types ==
  /\ join \in BOOLEAN /\ publishes \in BOOLEAN /\ runCancel \in BOOLEAN /\ overdue \in BOOLEAN
  /\ tomb \in BOOLEAN
  /\ run \in {"RUNNING", "WAITING", "FINISHING", "ENDED"} /\ op \in OpType
  /\ inbox \in {"none", "fresh", "late", "materialized"}
  /\ seen \subseteq events /\ events \subseteq {"accepted", "rejected", "result"}
  /\ rows \in [Command -> RowType] /\ sender \in [Sender -> SenderType]
  /\ wire \subseteq Command \cup {"LOOKED_UP"}
  /\ created \in Nat /\ task \in TaskType

LEMMA TypesApart == TypeOK <=> Types
BY DEF TypeOK, Types, OpType, RowType, SenderType, TaskType

LEMMA Commands == "SUBMIT" \in Command /\ "CANCEL" \in Command /\ "RESULT" \in Command
BY DEF Command

LEMMA IInvImplies == IInv => Inv /\ CancelWins /\ NoOrphanWork
<1> SUFFICES ASSUME IInv PROVE Inv /\ CancelWins
  BY DEF IInv
<1>0. Types
  BY TypesApart DEF IInv
<1>1. OneTaskPerCall
  BY DEF IInv, TaskIsCoherent, OneTaskPerCall
<1>2. CancelWins
  BY DEF IInv, TaskIsCoherent, CancelWins
<1>3. NoLostWakeup
  <2> SUFFICES ASSUME run = "WAITING", ~overdue, ~HasReady,
                      rows["SUBMIT"].status # "PENDING", task.status \notin Live
               PROVE  rows["RESULT"].status \in {"PENDING", "FAILED"}
    BY DEF NoLostWakeup
  <2>1. join /\ publishes /\ op.status = "SUBMITTED"
    BY DEF IInv, WaitIsCoherent, OpIsCoherent
  <2>2. task.status = "ENDED"
    BY <1>0, <2>1 DEF IInv, OpIsCoherent, Types, TaskType
  <2>3. rows["RESULT"].status \in {"PENDING", "SENT", "FAILED"}
    BY <1>0, <2>1, <2>2, Commands DEF IInv, TaskIsCoherent, Types, RowType
  <2>4. rows["RESULT"].status # "SENT"
    BY <2>1 DEF IInv, SentIsDurable, OpIsCoherent
  <2> QED BY <2>3, <2>4
<1> QED BY <1>1, <1>2, <1>3 DEF Inv, IInv

LEMMA InitHolds == Init => IInv
<1> SUFFICES ASSUME Init PROVE IInv
  OBVIOUS
<1>1. /\ Fresh \in RowType /\ Absent \in RowType /\ Asleep \in SenderType
      /\ Fresh.status = "PENDING" /\ Absent.status = "ABSENT"
  BY Names DEF Fresh, Absent, Asleep, RowType, SenderType
<1>2. /\ rows \in [Command -> RowType] /\ rows["SUBMIT"].status = "PENDING"
      /\ rows["CANCEL"].status = "ABSENT" /\ rows["RESULT"].status = "ABSENT"
  BY <1>1, Commands DEF Init
<1>3. TypeOK
  <2>1. op \in OpType /\ task \in TaskType /\ sender \in [Sender -> SenderType]
    BY <1>1 DEF Init, OpType, OpStatus, TaskType
  <2> QED BY <1>2, <2>1, TypesApart DEF Init, Types
<1>4. TaskIsCoherent /\ OpIsCoherent /\ WaitIsCoherent
  BY <1>2 DEF Init, TaskIsCoherent, OpIsCoherent, WaitIsCoherent, Live
<1>5. SentIsDurable /\ NoOrphanWork /\ BusyWithCommand
  BY <1>2 DEF Init, SentIsDurable, NoOrphanWork, BusyWithCommand
<1> QED BY <1>3, <1>4, <1>5 DEF IInv

-----------------------------------------------------------------------------
(* The Worker's side: the operation and the run do not change. *)

LEMMA WorkerSteps ==
  ASSUME IInv, SubmitArrives \/ SubmitLocked \/ CancelArrives \/ StartTask \/ EndTask
  PROVE  IInv'
<1>0. Types /\ TaskIsCoherent /\ OpIsCoherent /\ WaitIsCoherent /\ SentIsDurable /\ NoOrphanWork
  BY TypesApart DEF IInv
<1>1. UNCHANGED <<join, publishes, run, runCancel, overdue, op, inbox, events, seen, sender>>
  BY DEF SubmitArrives, SubmitLocked, CancelArrives, StartTask, EndTask, runtime
<1>2. /\ Fresh \in RowType /\ Fresh.status = "PENDING"
  BY Names DEF Fresh, RowType
<1>3. \/ UNCHANGED rows
      \/ publishes /\ task.status \in Live /\ task'.status = "ENDED" /\ rows' = [rows EXCEPT !["RESULT"] = Fresh]
  BY <1>0 DEF SubmitArrives, SubmitLocked, CancelArrives, StartTask, EndTask, Publish, Live, Types, TaskType
<1>4. /\ rows' \in [Command -> RowType]
      /\ rows'["SUBMIT"] = rows["SUBMIT"] /\ rows'["CANCEL"] = rows["CANCEL"]
      /\ rows'["RESULT"].status = rows["RESULT"].status \/ rows'["RESULT"].status = "PENDING"
      /\ rows'["RESULT"] # rows["RESULT"] => task'.status = "ENDED"
  BY <1>0, <1>2, <1>3, Commands DEF Types
<1>5. /\ task' \in TaskType /\ wire' \subseteq Command \cup {"LOOKED_UP"} /\ tomb' \in BOOLEAN
      /\ created' \in Nat
      /\ \/ /\ UNCHANGED <<task, tomb, created>> /\ "SUBMIT" \in wire /\ wire' = wire \cup {"LOOKED_UP"}
            /\ UNCHANGED rows
         \/ /\ "LOOKED_UP" \in wire /\ ~tomb /\ task.status = "ABSENT"
            /\ task'.status = "QUEUED" /\ created' = created + 1 /\ UNCHANGED <<wire, tomb, rows>>
         \/ /\ task.status # "ABSENT" /\ task'.status # "ABSENT" /\ UNCHANGED <<created, wire>>
            /\ tomb' => (task'.status \in Live => task'.cancelReq)
            /\ task'.status = "ENDED" /\ publishes => rows'["RESULT"].status # "ABSENT"
            /\ task.status = "ENDED" => task'.status = "ENDED"
            /\ tomb => tomb'
         \/ task' = task /\ task.status \notin Live /\ tomb' /\ UNCHANGED <<created, wire, rows>>
  <2>1. /\ task \in TaskType /\ created \in Nat /\ wire \subseteq Command \cup {"LOOKED_UP"}
        /\ tomb \in BOOLEAN /\ Fresh.status # "ABSENT" /\ task.cancelReq \in BOOLEAN
        /\ rows \in [Command -> RowType]
    BY <1>0, <1>2 DEF Types, TaskType
  <2>2. CASE SubmitArrives
    BY <2>1, <2>2 DEF SubmitArrives
  <2>3. CASE SubmitLocked
    <3>1. [task EXCEPT !.status = "QUEUED"] \in TaskType
      BY <2>1 DEF TaskType, Live
    <3> QED BY <2>1, <2>3, <3>1 DEF SubmitLocked, TaskType
  <2>4. CASE CancelArrives
    <3>1. UNCHANGED <<wire, created>> /\ tomb' = TRUE
      BY <2>4 DEF CancelArrives
    <3>2. CASE task.status = "QUEUED"
      <4>1. task' = [status |-> "ENDED", cancelReq |-> TRUE] /\ rows' = Publish(rows)
        BY <2>4, <3>2 DEF CancelArrives, Live
      <4>2. publishes => rows'["RESULT"].status # "ABSENT"
        BY <2>1, <4>1, Commands DEF Publish
      <4> QED BY <2>1, <3>1, <3>2, <4>1, <4>2 DEF TaskType, Live
    <3>3. CASE task.status = "RUNNING"
      <4>1. task' = [task EXCEPT !.cancelReq = TRUE] /\ UNCHANGED rows
        BY <2>4, <3>3 DEF CancelArrives, Live
      <4>2. task' \in TaskType /\ task'.status = "RUNNING" /\ task'.cancelReq
        BY <2>1, <3>3, <4>1 DEF TaskType
      <4> QED BY <2>1, <3>1, <3>3, <4>1, <4>2
    <3>4. CASE task.status \notin Live
      BY <2>1, <2>4, <3>1, <3>4 DEF CancelArrives, Live
    <3> QED BY <3>2, <3>3, <3>4 DEF Live
  <2>5. CASE StartTask
    <3>1. task' = [task EXCEPT !.status = "RUNNING"] /\ task.status = "QUEUED" /\ ~task.cancelReq
      BY <2>5 DEF StartTask
    <3>2. task' \in TaskType /\ task'.status = "RUNNING" /\ task'.cancelReq = task.cancelReq
      BY <2>1, <3>1 DEF TaskType, Live
    <3>3. ~tomb
      BY <1>0, <3>1 DEF TaskIsCoherent, Live
    <3> QED BY <2>1, <2>5, <3>1, <3>2, <3>3 DEF StartTask
  <2>6. CASE EndTask
    <3>1. task' = [task EXCEPT !.status = "ENDED"] /\ task.status \in Live /\ rows' = Publish(rows)
          /\ UNCHANGED <<wire, tomb, created>>
      BY <2>6 DEF EndTask
    <3>2. task' \in TaskType /\ task'.status = "ENDED"
      BY <2>1, <3>1 DEF TaskType
    <3>3. publishes => rows'["RESULT"].status # "ABSENT"
      BY <2>1, <3>1, Commands DEF Publish
    <3> QED BY <2>1, <3>1, <3>2, <3>3 DEF Live
  <2> QED BY <2>2, <2>3, <2>4, <2>5, <2>6
<1>6. TypeOK'
  BY <1>0, <1>1, <1>4, <1>5, TypesApart DEF Types, TypeOK, OpType, RowType, SenderType, TaskType
<1>7. TaskIsCoherent'
  BY <1>0, <1>1, <1>4, <1>5 DEF TaskIsCoherent, Live
<1>8. OpIsCoherent' /\ WaitIsCoherent' /\ SentIsDurable'
  <2>1. task.status # "ABSENT" => task'.status # "ABSENT"
    BY <1>5
  <2>2. created' >= created /\ created \in Nat
    BY <1>0, <1>5 DEF Types
  <2>3. rows'["RESULT"].status = "SENT" => rows["RESULT"].status = "SENT"
    BY <1>4
  <2>4. created > 0 => created' > 0
    BY <1>5, <2>2
  <2> QED BY <1>0, <1>1, <1>4, <2>1, <2>3, <2>4 DEF OpIsCoherent, WaitIsCoherent, HasReady, SentIsDurable
<1>9. NoOrphanWork'
  BY <1>0, <1>1, <1>4, <1>5 DEF TaskIsCoherent, NoOrphanWork, Types, TaskType
<1>10. BusyWithCommand'
  BY <1>1 DEF IInv, BusyWithCommand
<1> QED BY <1>6, <1>7, <1>8, <1>9, <1>10 DEF IInv

-----------------------------------------------------------------------------
(* The dispatchers between two transactions of the operation. *)

LEMMA CloseRow ==
  ASSUME NEW R \in [Command -> RowType], NEW k \in Command, NEW status \in {"PENDING", "SENT", "FAILED"}
  PROVE  /\ Close(R, k, status) \in [Command -> RowType]
         /\ Close(R, k, status)[k].status = status
         /\ \A j \in Command \ {k} : Close(R, k, status)[j] = R[j]
<1> DEFINE x == [R[k] EXCEPT !.status = status, !.holder = None]
<1>1. R[k] \in RowType
  OBVIOUS
<1>2. x \in RowType /\ x.status = status
  BY <1>1 DEF RowType
<1>3. Close(R, k, status) = [R EXCEPT ![k] = x]
  BY <1>1 DEF Close, RowType
<1> HIDE DEF x
<1> QED BY <1>2, <1>3

LEMMA AddedCancel ==
  ASSUME NEW R \in [Command -> RowType]
  PROVE  /\ AddCancel(R) \in [Command -> RowType]
         /\ AddCancel(R)["CANCEL"].status # "ABSENT"
         /\ AddCancel(R)["CANCEL"].status = "SENT" => R["CANCEL"].status = "SENT"
         /\ AddCancel(R)["SUBMIT"] = R["SUBMIT"] /\ AddCancel(R)["RESULT"] = R["RESULT"]
<1>1. Fresh \in RowType /\ Fresh.status = "PENDING"
  BY Names DEF Fresh, RowType
<1> QED BY <1>1, Commands DEF AddCancel

LEMMA CloseResult ==
  ASSUME NEW R \in [Command -> RowType], NEW status \in {"PENDING", "SENT", "FAILED"}
  PROVE  /\ Close(R, "RESULT", status) \in [Command -> RowType]
         /\ Close(R, "RESULT", status)["RESULT"].status = status
         /\ Close(R, "RESULT", status)["SUBMIT"] = R["SUBMIT"]
         /\ Close(R, "RESULT", status)["CANCEL"] = R["CANCEL"]
<1>1. "SUBMIT" \in Command \ {"RESULT"} /\ "CANCEL" \in Command \ {"RESULT"} /\ "RESULT" \in Command
  BY DEF Command
<1>2. /\ Close(R, "RESULT", status) \in [Command -> RowType]
      /\ Close(R, "RESULT", status)["RESULT"].status = status
      /\ \A j \in Command \ {"RESULT"} : Close(R, "RESULT", status)[j] = R[j]
  BY <1>1, CloseRow
<1>3. /\ Close(R, "RESULT", status)["SUBMIT"] = R["SUBMIT"]
      /\ Close(R, "RESULT", status)["CANCEL"] = R["CANCEL"]
  BY <1>1, <1>2
<1> QED BY <1>2, <1>3

LEMMA SenderSteps ==
  ASSUME IInv,
         \/ \E s \in Sender, k \in Command : Claim(s, k)
         \/ \E s \in Sender : CompleteResult(s) \/ CompleteVoid(s)
         \/ \E k \in Command : Lapse(k)
         \/ ExhaustResult
  PROVE  IInv'
<1>0. Types /\ TaskIsCoherent /\ OpIsCoherent /\ WaitIsCoherent /\ SentIsDurable /\ NoOrphanWork
      /\ rows \in [Command -> RowType] /\ sender \in [Sender -> SenderType]
      /\ wire \subseteq Command \cup {"LOOKED_UP"}
  BY TypesApart DEF IInv, Types
<1>1. UNCHANGED <<join, publishes, run, runCancel, overdue, op, inbox, events, seen, tomb, task, created>>
  BY DEF Claim, CompleteResult, CompleteVoid, Lapse, ExhaustResult, runtime, worker
<1>2. Asleep \in SenderType /\ Asleep.cmd = "none"
  BY DEF Asleep, SenderType
<1> DEFINE Quiet ==
      /\ rows' \in [Command -> RowType] /\ sender' \in [Sender -> SenderType]
      /\ rows'["SUBMIT"].status = rows["SUBMIT"].status
      /\ rows'["CANCEL"].status = rows["CANCEL"].status
      /\ rows'["RESULT"].status = "ABSENT" <=> rows["RESULT"].status = "ABSENT"
      /\ rows'["RESULT"].status = "SENT" => inbox # "none"
      /\ wire' \subseteq Command \cup {"LOOKED_UP"} /\ wire \subseteq wire'
      /\ "LOOKED_UP" \in wire' => "LOOKED_UP" \in wire
      /\ "RESULT" \in wire' => "RESULT" \in wire \/ rows["RESULT"].status = "PENDING"
      /\ "SUBMIT" \in wire' => "SUBMIT" \in wire \/ op.status \notin OpTerminal
<1>3. ASSUME NEW s \in Sender, NEW k \in Command, Claim(s, k) PROVE Quiet
  <2> DEFINE n == IF rows[k].attempts < MaxAttempts THEN rows[k].attempts + 1 ELSE rows[k].attempts
             x == [rows[k] EXCEPT !.holder = s, !.attempts = n]
  <2>1. rows[k] \in RowType /\ n \in 0..MaxAttempts
    BY <1>0, Names DEF RowType
  <2>2. rows' = [rows EXCEPT ![k] = x]
    BY <1>0, <1>3, <2>1 DEF Claim, RowType
  <2>3. x \in RowType /\ x.status = rows[k].status
    BY <2>1 DEF RowType
  <2>4. sender' \in [Sender -> SenderType]
    BY <1>0, <1>3 DEF Claim, SenderType, Sends
  <2> HIDE DEF x
  <2>5. /\ rows' \in [Command -> RowType]
        /\ \A j \in Command : rows'[j].status = rows[j].status
    BY <1>0, <2>2, <2>3
  <2>6. wire' = wire \/ (wire' = wire \cup {k} /\ Sends(k) /\ rows[k].status = "PENDING")
    BY <1>3 DEF Claim
  <2>7. "SUBMIT" \in wire' => "SUBMIT" \in wire \/ op.status \notin OpTerminal
    BY <2>6 DEF Sends, Abandoned
  <2>8. /\ wire' \subseteq Command \cup {"LOOKED_UP"} /\ wire \subseteq wire'
        /\ "LOOKED_UP" \in wire' => "LOOKED_UP" \in wire
        /\ "RESULT" \in wire' => "RESULT" \in wire \/ rows["RESULT"].status = "PENDING"
    BY <1>0, <2>6 DEF Command
  <2> QED BY <1>0, <2>4, <2>5, <2>7, <2>8, Commands DEF SentIsDurable
<1>4. ASSUME NEW s \in Sender, CompleteResult(s) PROVE Quiet
  <2>1. sender' \in [Sender -> SenderType] /\ UNCHANGED wire /\ rows["RESULT"].status = "PENDING"
    BY <1>0, <1>2, <1>4 DEF CompleteResult, Sleep, worker, Held
  <2>2. PICK a \in Answers(s) :
          rows' = Close(rows, "RESULT", IF a = "ok" THEN "SENT" ELSE IF Final(s, a) THEN "FAILED" ELSE "PENDING")
    BY <1>4 DEF CompleteResult
  <2>3. a = "ok" => inbox # "none"
    BY <1>4 DEF CompleteResult, Answers, Confirmed
  <2>4. PICK status \in {"PENDING", "SENT", "FAILED"} :
          rows' = Close(rows, "RESULT", status) /\ (status = "SENT" => inbox # "none")
    BY <2>2, <2>3
  <2> QED BY <1>0, <2>1, <2>4, CloseResult
<1>5. ASSUME NEW s \in Sender, CompleteVoid(s) PROVE Quiet
  <2>1. sender' \in [Sender -> SenderType] /\ UNCHANGED <<wire, rows>>
    BY <1>0, <1>2, <1>5 DEF CompleteVoid, Sleep, worker
  <2> QED BY <1>0, <2>1 DEF SentIsDurable
<1>6. ASSUME NEW k \in Command, Lapse(k) PROVE Quiet
  <2> DEFINE x == [rows[k] EXCEPT !.holder = None]
  <2>1. rows' = [rows EXCEPT ![k] = x] /\ UNCHANGED <<wire, sender>>
    BY <1>6 DEF Lapse, worker
  <2>2. x \in RowType /\ x.status = rows[k].status
    BY <1>0 DEF RowType
  <2> HIDE DEF x
  <2> QED BY <1>0, <2>1, <2>2, Commands DEF SentIsDurable
<1>7. ASSUME ExhaustResult PROVE Quiet
  <2>1. rows' = Close(rows, "RESULT", "FAILED") /\ rows["RESULT"].status = "PENDING" /\ UNCHANGED <<wire, sender>>
    BY <1>7 DEF ExhaustResult, worker
  <2> QED BY <1>0, <2>1, CloseResult
<1> HIDE DEF Quiet
<1>8. Quiet
  BY <1>3, <1>4, <1>5, <1>6, <1>7
<1>9. Types'
  BY <1>0, <1>1, <1>8 DEF Quiet, Types, OpType, RowType, SenderType, TaskType
<1>10. TaskIsCoherent'
  BY <1>0, <1>1, <1>8 DEF Quiet, TaskIsCoherent
<1>11. OpIsCoherent' /\ WaitIsCoherent' /\ SentIsDurable'
  BY <1>0, <1>1, <1>8 DEF Quiet, OpIsCoherent, WaitIsCoherent, HasReady, SentIsDurable
<1>12. NoOrphanWork'
  BY <1>0, <1>1, <1>8 DEF Quiet, NoOrphanWork, OpTerminal
<1>14. BusyWithCommand'
  <2>1. \A s \in Sender : sender'[s] = sender[s] \/ sender'[s] = Asleep \/ sender'[s].cmd \in Command
    <3>1. ASSUME NEW q \in Sender, NEW k \in Command, Claim(q, k), NEW s \in Sender
          PROVE  sender'[s] = sender[s] \/ sender'[s].cmd \in Command
      <4>1. sender' = [sender EXCEPT ![q] = [cmd |-> k, sent |-> Sends(k)]]
        BY <3>1 DEF Claim
      <4> QED BY <1>0, <4>1
    <3>2. ASSUME NEW q \in Sender, CompleteResult(q) \/ CompleteVoid(q), NEW s \in Sender
          PROVE  sender'[s] = sender[s] \/ sender'[s] = Asleep
      BY <1>0, <3>2 DEF CompleteResult, CompleteVoid, Sleep
    <3>3. ASSUME (\E k \in Command : Lapse(k)) \/ ExhaustResult
          PROVE  sender' = sender
      BY <3>3 DEF Lapse, ExhaustResult
    <3> QED BY <3>1, <3>2, <3>3
  <2> QED BY <2>1 DEF IInv, BusyWithCommand
<1>13. TypeOK'
  BY <1>9 DEF Types, TypeOK, OpType, RowType, SenderType, TaskType
<1> QED BY <1>10, <1>11, <1>12, <1>13, <1>14 DEF IInv

-----------------------------------------------------------------------------
(* The Runtime's side: the tables of the Worker do not change. *)

\* What every step of the Runtime leaves to show
LEMMA RuntimeKeeps ==
  ASSUME IInv, UNCHANGED worker, Types', publishes' = publishes,
         OpIsCoherent', WaitIsCoherent', SentIsDurable', NoOrphanWork', BusyWithCommand',
         rows'["RESULT"].status = rows["RESULT"].status,
         rows'["CANCEL"].status = "SENT" => rows["CANCEL"].status = "SENT" \/ tomb
  PROVE  IInv'
<1>1. TypeOK'
  BY DEF Types, TypeOK, OpType, RowType, SenderType, TaskType
<1>2. TaskIsCoherent'
  BY DEF IInv, TaskIsCoherent, worker
<1> QED BY <1>1, <1>2 DEF IInv

\* _complete: the answer to a submission or to a cancellation
LEMMA ControlSteps ==
  ASSUME IInv, NEW s \in Sender, CompleteControl(s)
  PROVE  IInv'
<1>0. Types /\ TaskIsCoherent /\ OpIsCoherent /\ WaitIsCoherent /\ SentIsDurable /\ NoOrphanWork
      /\ BusyWithCommand /\ rows \in [Command -> RowType] /\ sender \in [Sender -> SenderType]
      /\ op \in OpType
  BY TypesApart DEF IInv, Types
<1>1. UNCHANGED <<join, publishes, run, runCancel, overdue, inbox, seen, wire, tomb, task, created>>
      /\ UNCHANGED worker
  BY DEF CompleteControl, worker
<1> DEFINE k == sender[s].cmd
<1>2. k \in {"SUBMIT", "CANCEL"} /\ k \in Command /\ rows[k].status = "PENDING"
  BY <1>0 DEF CompleteControl, Held, BusyWithCommand, Command
<1>3. sender' \in [Sender -> SenderType] /\ BusyWithCommand'
  <2>1. Asleep \in SenderType
    BY DEF Asleep, SenderType
  <2> QED BY <1>0, <2>1 DEF CompleteControl, Sleep, BusyWithCommand
<1>4. PICK a \in Answers(s) :
        \/ a = "ok" /\ k = "SUBMIT" /\ Admit(Close(rows, k, "SENT"))
        \/ a = "ok" /\ k = "CANCEL" /\ rows' = Close(rows, k, "SENT") /\ UNCHANGED <<op, events>>
        \/ /\ a # "ok" /\ Final(s, a) /\ k = "SUBMIT" /\ op.status \notin OpTerminal
           /\ FailSubmission(Close(rows, k, "FAILED"))
        \/ /\ a # "ok" /\ Final(s, a) /\ (k = "CANCEL" \/ op.status \in OpTerminal)
           /\ rows' = Close(rows, k, "FAILED") /\ UNCHANGED <<op, events>>
        \/ /\ a # "ok" /\ ~Final(s, a)
           /\ rows' = Close(rows, k, "PENDING") /\ UNCHANGED <<op, events>>
  BY DEF CompleteControl
<1>5. a = "ok" => Confirmed(k)
  BY <1>4 DEF Answers
<1> HIDE DEF k
<1>6. ASSUME NEW status \in {"PENDING", "SENT", "FAILED"}
      PROVE  /\ Close(rows, k, status) \in [Command -> RowType]
             /\ Close(rows, k, status)["RESULT"] = rows["RESULT"]
             /\ k = "SUBMIT" => /\ Close(rows, k, status)["SUBMIT"].status = status
                                /\ Close(rows, k, status)["CANCEL"] = rows["CANCEL"]
             /\ k = "CANCEL" => /\ Close(rows, k, status)["CANCEL"].status = status
                                /\ Close(rows, k, status)["SUBMIT"] = rows["SUBMIT"]
  <2>1. /\ Close(rows, k, status) \in [Command -> RowType]
        /\ Close(rows, k, status)[k].status = status
        /\ \A j \in Command \ {k} : Close(rows, k, status)[j] = rows[j]
    BY <1>0, <1>2, CloseRow
  <2>2. "RESULT" \in Command \ {k} /\ (k = "SUBMIT" => "CANCEL" \in Command \ {k})
        /\ (k = "CANCEL" => "SUBMIT" \in Command \ {k})
    BY <1>2 DEF Command
  <2> QED BY <2>1, <2>2
<1>7. ASSUME UNCHANGED <<op, events>>, rows' \in [Command -> RowType],
             rows'["RESULT"] = rows["RESULT"],
             rows'["SUBMIT"].status # rows["SUBMIT"].status =>
               rows'["SUBMIT"].status = "FAILED" /\ op.status # "SUBMIT_PENDING",
             rows'["CANCEL"].status = "ABSENT" <=> rows["CANCEL"].status = "ABSENT",
             rows'["CANCEL"].status = "SENT" => rows["CANCEL"].status = "SENT" \/ tomb
      PROVE  IInv'
  <2>1. Types'
    BY <1>0, <1>1, <1>3, <1>7 DEF Types, OpType, RowType, SenderType, TaskType
  <2>2. OpIsCoherent' /\ WaitIsCoherent' /\ SentIsDurable' /\ NoOrphanWork'
    BY <1>0, <1>1, <1>7 DEF OpIsCoherent, WaitIsCoherent, HasReady, SentIsDurable, NoOrphanWork
  <2> QED BY <1>1, <1>3, <1>7, <2>1, <2>2, RuntimeKeeps
<1>8. CASE a = "ok" /\ k = "CANCEL" /\ rows' = Close(rows, k, "SENT") /\ UNCHANGED <<op, events>>
  <2>1. tomb
    BY <1>5, <1>8 DEF Confirmed
  <2> QED BY <1>2, <1>6, <1>7, <1>8, <2>1
<1>9. CASE /\ a # "ok" /\ (k = "CANCEL" \/ op.status \in OpTerminal)
           /\ rows' = Close(rows, k, "FAILED") /\ UNCHANGED <<op, events>>
  <2>1. op.status \in OpTerminal => op.status # "SUBMIT_PENDING"
    BY DEF OpTerminal
  <2> QED BY <1>2, <1>6, <1>7, <1>9, <2>1
<1>10. CASE rows' = Close(rows, k, "PENDING") /\ UNCHANGED <<op, events>>
  BY <1>2, <1>6, <1>7, <1>10
<1>11. CASE a = "ok" /\ k = "SUBMIT" /\ Admit(Close(rows, k, "SENT"))
  <2> DEFINE R == Close(rows, k, "SENT")
  <2>1. /\ R \in [Command -> RowType] /\ R["RESULT"] = rows["RESULT"]
        /\ R["SUBMIT"].status = "SENT" /\ R["CANCEL"] = rows["CANCEL"]
    BY <1>6, <1>11
  <2> HIDE DEF R
  <2>2. /\ rows' = IF Late THEN AddCancel(R) ELSE R
        /\ op' = [op EXCEPT !.bound = TRUE,
                            !.status = IF Late THEN "LATE"
                                       ELSE IF @ = "SUBMIT_PENDING" THEN "SUBMITTED" ELSE @]
        /\ events' = IF Late THEN events ELSE events \cup {"accepted"}
    BY <1>11 DEF Admit, R
  <2>3. task.status # "ABSENT" /\ created = 1
    BY <1>0, <1>5, <1>11 DEF Confirmed, TaskIsCoherent
  <2>4. "accepted" \notin events
    BY <1>0, <1>2, <1>11 DEF OpIsCoherent
  <2>5. /\ rows' \in [Command -> RowType] /\ rows'["RESULT"] = rows["RESULT"]
        /\ rows'["SUBMIT"].status = "SENT"
        /\ Late => rows'["CANCEL"].status # "ABSENT"
        /\ rows'["CANCEL"].status = "SENT" => rows["CANCEL"].status = "SENT"
    BY <2>1, <2>2, AddedCancel
  <2>6. /\ op' \in OpType /\ op'.bound /\ op'.cancelReq = op.cancelReq
        /\ Late => op'.status = "LATE"
        /\ ~Late => \/ op.status = "SUBMIT_PENDING" /\ op'.status = "SUBMITTED"
                    \/ op.status # "SUBMIT_PENDING" /\ op'.status = op.status
    BY <1>0, <2>2 DEF OpType, OpStatus, OpTerminal
  <2>7. Types'
    BY <1>0, <1>1, <1>3, <2>2, <2>5, <2>6 DEF Types, OpType, RowType, SenderType, TaskType
  <2>8. OpIsCoherent'
    <3>1. op.cancelReq => Late
      BY DEF Late, Abandoned
    <3>2. events \subseteq events'
      BY <2>2
    <3> QED BY <1>0, <1>1, <2>3, <2>5, <2>6, <3>1, <3>2 DEF OpIsCoherent
  <2>9. WaitIsCoherent'
    <3>1. runCancel => Late
      BY DEF Late
    <3>2. ASSUME run = "WAITING", ~overdue PROVE HasReady'
      <4>1. CASE HasReady
        BY <1>1, <2>2, <4>1 DEF HasReady
      <4>2. CASE op.status \in {"SUBMIT_PENDING", "SUBMITTED"}
        <5>1. ~Late
          BY <1>0, <3>2, <4>2 DEF Late, Abandoned, OpTerminal, WaitIsCoherent, OpIsCoherent
        <5>2. "accepted" \in events' \ seen
          BY <1>0, <2>2, <2>4, <5>1 DEF Types
        <5> QED BY <1>1, <5>2 DEF HasReady
      <4> QED BY <1>0, <3>2, <4>1, <4>2 DEF WaitIsCoherent
    <3>3. runCancel => op'.status = "LATE"
      BY <2>6, <3>1
    <3> QED BY <1>0, <1>1, <3>2, <3>3 DEF WaitIsCoherent
  <2>10. SentIsDurable'
    BY <1>0, <1>1, <2>3, <2>5, <2>6 DEF SentIsDurable
  <2>11. NoOrphanWork'
    BY <1>0, <1>1, <2>5, <2>6 DEF NoOrphanWork, Late, Abandoned, OpTerminal
  <2> QED BY <1>1, <1>3, <2>5, <2>7, <2>8, <2>9, <2>10, <2>11, RuntimeKeeps
<1>12. CASE k = "SUBMIT" /\ FailSubmission(Close(rows, k, "FAILED"))
  <2> DEFINE R == Close(rows, k, "FAILED")
  <2>1. /\ R \in [Command -> RowType] /\ R["RESULT"] = rows["RESULT"]
        /\ R["SUBMIT"].status = "FAILED" /\ R["CANCEL"] = rows["CANCEL"]
    BY <1>6, <1>12
  <2> HIDE DEF R
  <2>2. /\ rows' = AddCancel(R) /\ op' = [op EXCEPT !.status = "FAILED"]
        /\ events' = events \cup {"rejected"}
    BY <1>12 DEF FailSubmission, R
  <2>3. /\ rows' \in [Command -> RowType] /\ rows'["RESULT"] = rows["RESULT"]
        /\ rows'["SUBMIT"].status = "FAILED" /\ rows'["CANCEL"].status # "ABSENT"
        /\ rows'["CANCEL"].status = "SENT" => rows["CANCEL"].status = "SENT"
    BY <2>1, <2>2, AddedCancel
  <2>4. op' \in OpType /\ op'.status = "FAILED"
    BY <1>0, <2>2 DEF OpType, OpStatus, OpTerminal
  <2>5. "rejected" \in events' \ seen
    BY <1>0, <1>2, <1>12, <2>2 DEF OpIsCoherent, Types
  <2>6. Types'
    BY <1>0, <1>1, <1>3, <2>2, <2>3, <2>4 DEF Types, OpType, RowType, SenderType, TaskType
  <2>7. OpIsCoherent' /\ SentIsDurable' /\ NoOrphanWork'
    BY <1>0, <1>1, <2>3, <2>4 DEF OpIsCoherent, SentIsDurable, NoOrphanWork
  <2>8. WaitIsCoherent'
    BY <1>0, <1>1, <2>4, <2>5 DEF WaitIsCoherent, HasReady
  <2> QED BY <1>1, <1>3, <2>3, <2>6, <2>7, <2>8, RuntimeKeeps
<1> QED BY <1>4, <1>8, <1>9, <1>10, <1>11, <1>12

\* receive_result: a result that is not late readies the run
LEMMA ResultStep ==
  ASSUME IInv, ResultArrives
  PROVE  IInv'
<1>0. Types /\ TaskIsCoherent /\ OpIsCoherent /\ WaitIsCoherent /\ SentIsDurable /\ NoOrphanWork
      /\ BusyWithCommand /\ op \in OpType
  BY TypesApart DEF IInv, Types
<1> DEFINE late == Late \/ overdue
<1>1. /\ "RESULT" \in wire /\ inbox = "none"
      /\ inbox' = IF late THEN "late" ELSE "fresh"
      /\ op' = [op EXCEPT !.bound = TRUE, !.status = IF late THEN "LATE" ELSE "RESULT_RECEIVED"]
      /\ UNCHANGED <<join, publishes, run, runCancel, overdue, events, seen, rows, sender>>
      /\ UNCHANGED worker
  BY DEF ResultArrives
<1>2. /\ op' \in OpType /\ op'.bound /\ op'.cancelReq = op.cancelReq
      /\ op'.status = IF late THEN "LATE" ELSE "RESULT_RECEIVED"
  BY <1>0, <1>1 DEF OpType, OpStatus, OpTerminal
<1> HIDE DEF late
<1>3. Types'
  BY <1>0, <1>1, <1>2 DEF Types, worker, OpType, RowType, SenderType, TaskType
<1>4. OpIsCoherent'
  <2>1. op.cancelReq => late
    BY DEF Late, Abandoned, late
  <2> QED BY <1>0, <1>1, <1>2, <2>1 DEF OpIsCoherent, worker
<1>5. WaitIsCoherent'
  <2>1. runCancel => late
    BY DEF Late, late
  <2>2. ASSUME run = "WAITING", ~overdue PROVE HasReady'
    <3>1. CASE HasReady
      BY <1>1, <3>1 DEF HasReady
    <3>2. CASE op.status \in {"SUBMIT_PENDING", "SUBMITTED"}
      <4>1. ~late
        BY <1>0, <2>2, <3>2 DEF late, Late, Abandoned, OpTerminal, WaitIsCoherent, OpIsCoherent
      <4> QED BY <1>1, <4>1 DEF HasReady
    <3> QED BY <1>0, <2>2, <3>1, <3>2 DEF WaitIsCoherent
  <2> QED BY <1>0, <1>1, <1>2, <2>1, <2>2 DEF WaitIsCoherent
<1>6. SentIsDurable' /\ BusyWithCommand'
  BY <1>0, <1>1, <1>2 DEF SentIsDurable, BusyWithCommand, worker
<1>7. NoOrphanWork'
  BY <1>0, <1>1 DEF NoOrphanWork, TaskIsCoherent, Live, worker
<1> QED BY <1>0, <1>1, <1>3, <1>4, <1>5, <1>6, <1>7, RuntimeKeeps DEF TaskIsCoherent

LEMMA ConsumedIs ==
  ASSUME op \in OpType
  PROVE  /\ Consumed \in OpType /\ Consumed.cancelReq = op.cancelReq /\ Consumed.bound = op.bound
         /\ \/ Consumed.status = op.status
            \/ op.status = "MATERIALIZED" /\ Consumed.status = "COMPLETED"
         /\ Consumed.status = "MATERIALIZED" => "result" \notin seen
<1>1. CASE op.status = "MATERIALIZED" /\ "result" \in seen
  <2> DEFINE x == [op EXCEPT !.status = "COMPLETED"]
  <2>1. x \in OpType /\ x.status = "COMPLETED" /\ x.cancelReq = op.cancelReq /\ x.bound = op.bound
    BY DEF OpType, OpStatus, OpTerminal
  <2>2. Consumed = x
    BY <1>1 DEF Consumed
  <2> HIDE DEF x
  <2> QED BY <1>1, <2>1, <2>2
<1>2. CASE ~(op.status = "MATERIALIZED" /\ "result" \in seen)
  BY <1>2 DEF Consumed, OpType
<1> QED BY <1>1, <1>2

\* The executor: the run waits only when nothing is ready
LEMMA ExecutorSteps ==
  ASSUME IInv, Materialize \/ Drain \/ Checkpoint \/ TryWait \/ Wake \/ CompleteRun \/ DeadlinePasses
  PROVE  IInv'
<1>0. Types /\ TaskIsCoherent /\ OpIsCoherent /\ WaitIsCoherent /\ SentIsDurable /\ NoOrphanWork
      /\ BusyWithCommand /\ op \in OpType
  BY TypesApart DEF IInv, Types
<1>1. UNCHANGED <<join, publishes, runCancel, rows, sender>> /\ UNCHANGED worker
  BY DEF Materialize, Drain, Checkpoint, TryWait, Wake, CompleteRun, DeadlinePasses
<1>2. BusyWithCommand' /\ UNCHANGED <<wire, tomb, task, created>>
  BY <1>0, <1>1 DEF BusyWithCommand, worker
<1> DEFINE Progress ==
      /\ Types' /\ OpIsCoherent' /\ WaitIsCoherent' /\ SentIsDurable' /\ NoOrphanWork'
<1>3. ASSUME Materialize PROVE Progress
  <2>1. /\ run = "RUNNING" /\ inbox' = "materialized" /\ op' = [op EXCEPT !.status = "MATERIALIZED"]
        /\ events' = events \cup {"result"} /\ UNCHANGED <<run, overdue, seen>>
    BY <1>3 DEF Materialize, Owned
  <2>2. /\ op' \in OpType /\ op'.status = "MATERIALIZED" /\ op'.bound = op.bound
        /\ op'.cancelReq = op.cancelReq
    BY <1>0, <2>1 DEF OpType, OpStatus
  <2>3. Types'
    BY <1>0, <1>1, <1>2, <2>1, <2>2 DEF Types, OpType, RowType, SenderType, TaskType
  <2> QED BY <1>0, <1>1, <1>2, <2>1, <2>2, <2>3
      DEF Progress, OpIsCoherent, WaitIsCoherent, SentIsDurable, NoOrphanWork
<1>4. ASSUME Drain PROVE Progress
  <2>1. run = "RUNNING" /\ seen' = events /\ UNCHANGED <<run, overdue, op, inbox, events>>
    BY <1>4 DEF Drain, Owned
  <2>2. Types'
    BY <1>0, <1>1, <1>2, <2>1 DEF Types, OpType, RowType, SenderType, TaskType
  <2> QED BY <1>0, <1>1, <1>2, <2>1, <2>2
      DEF Progress, OpIsCoherent, WaitIsCoherent, SentIsDurable, NoOrphanWork
<1>5. ASSUME op' = Consumed, UNCHANGED <<overdue, inbox, events, seen>>
      PROVE  /\ op' \in OpType /\ OpIsCoherent' /\ SentIsDurable' /\ NoOrphanWork'
             /\ op'.status = op.status \/ op'.status = "COMPLETED"
             /\ op'.status = "MATERIALIZED" => "result" \notin seen
  <2>1. /\ op' \in OpType /\ op'.cancelReq = op.cancelReq /\ op'.bound = op.bound
        /\ \/ op'.status = op.status
           \/ op.status = "MATERIALIZED" /\ op'.status = "COMPLETED"
        /\ op'.status = "MATERIALIZED" => "result" \notin seen
    BY <1>0, <1>5, ConsumedIs
  <2> QED BY <1>0, <1>1, <1>2, <1>5, <2>1 DEF OpIsCoherent, SentIsDurable, NoOrphanWork
<1>6. ASSUME Checkpoint PROVE Progress
  <2>1. run = "RUNNING" /\ UNCHANGED <<run, overdue, inbox, events, seen>> /\ op' = Consumed
    BY <1>6 DEF Checkpoint, Owned
  <2>2. Types'
    BY <1>0, <1>1, <1>2, <1>5, <2>1 DEF Types, OpType, RowType, SenderType, TaskType
  <2> QED BY <1>0, <1>1, <1>5, <2>1, <2>2 DEF Progress, WaitIsCoherent
<1>7. ASSUME TryWait PROVE Progress
  <2>1. /\ run = "RUNNING" /\ op' = Consumed /\ UNCHANGED <<overdue, inbox, events, seen>>
        /\ run' = IF HasReady THEN run ELSE IF Pending(op') THEN "WAITING" ELSE "FINISHING"
    BY <1>7 DEF TryWait, Owned
  <2>2. Types'
    BY <1>0, <1>1, <1>2, <1>5, <2>1 DEF Types, OpType, RowType, SenderType, TaskType
  <2>3. ASSUME run' = "WAITING"
        PROVE  op'.status = "SUBMIT_PENDING" \/ (join /\ op'.status = "SUBMITTED")
    <3>1. ~HasReady /\ Pending(op')
      BY <2>1, <2>3
    <3>2. inbox # "fresh" /\ events \subseteq seen
      BY <3>1 DEF HasReady
    <3>3. op'.status # "MATERIALIZED"
      BY <1>0, <1>5, <2>1, <3>2 DEF OpIsCoherent
    <3>4. op'.status # "RESULT_RECEIVED"
      BY <1>0, <1>5, <2>1, <3>2 DEF OpIsCoherent
    <3>5. op'.status \in OpStatus
      BY <1>5, <2>1 DEF OpType
    <3> QED BY <3>1, <3>3, <3>4, <3>5 DEF Pending, OpStatus, OpTerminal
  <2>4. runCancel => op'.status # "SUBMIT_PENDING" /\ (join => op'.status \notin {"SUBMITTED", "RESULT_RECEIVED"})
    BY <1>0, <1>5, <2>1 DEF WaitIsCoherent
  <2>5. WaitIsCoherent'
    BY <1>0, <1>1, <2>1, <2>3, <2>4 DEF WaitIsCoherent
  <2> QED BY <1>5, <2>1, <2>2, <2>5 DEF Progress
<1>8. ASSUME Wake \/ CompleteRun \/ DeadlinePasses PROVE Progress
  <2>1. /\ UNCHANGED <<op, inbox, events, seen>>
        /\ \/ run' \in {"RUNNING", "ENDED"} /\ UNCHANGED overdue
           \/ overdue' = TRUE /\ UNCHANGED run
    BY <1>8 DEF Wake, CompleteRun, DeadlinePasses
  <2>2. run' \in {"RUNNING", "WAITING", "FINISHING", "ENDED"} /\ overdue' \in BOOLEAN
    BY <1>0, <2>1 DEF Types
  <2>3. Types'
    BY <1>0, <1>1, <1>2, <2>1, <2>2 DEF Types, OpType, RowType, SenderType, TaskType
  <2> QED BY <1>0, <1>1, <1>2, <2>1, <2>3
      DEF Progress, OpIsCoherent, WaitIsCoherent, SentIsDurable, NoOrphanWork
<1> HIDE DEF Progress
<1>9. Progress
  BY <1>3, <1>4, <1>6, <1>7, <1>8
<1> QED BY <1>0, <1>1, <1>2, <1>9, RuntimeKeeps DEF Progress, TaskIsCoherent

\* The run is cancelled or over: what still has no owner is cancelled with it
LEMMA EndSteps ==
  ASSUME IInv, AskCancel \/ EndRun
  PROVE  IInv'
<1>0. Types /\ TaskIsCoherent /\ OpIsCoherent /\ WaitIsCoherent /\ SentIsDurable /\ NoOrphanWork
      /\ BusyWithCommand /\ op \in OpType /\ rows \in [Command -> RowType]
  BY TypesApart DEF IInv, Types
<1>1. /\ UNCHANGED <<join, publishes, overdue, inbox, events, seen, sender>> /\ UNCHANGED worker
      /\ CancelOperation /\ runCancel' \in BOOLEAN
      /\ \/ run' = run /\ run # "WAITING" /\ runCancel' = TRUE
         \/ run' = "ENDED" /\ runCancel' = runCancel
  BY <1>0 DEF AskCancel, EndRun, Types
<1>2. BusyWithCommand' /\ UNCHANGED <<wire, tomb, task, created>>
  BY <1>0, <1>1 DEF BusyWithCommand, worker
<1>3. \/ /\ op' = [op EXCEPT !.status = "CANCELLED", !.cancelReq = TRUE] /\ rows' = AddCancel(rows)
      \/ /\ UNCHANGED <<op, rows>> /\ (op.status \in OpTerminal \/ (~join /\ op.status # "SUBMIT_PENDING"))
  BY <1>1 DEF CancelOperation
<1>4. /\ rows' \in [Command -> RowType] /\ rows'["RESULT"] = rows["RESULT"]
      /\ rows'["SUBMIT"] = rows["SUBMIT"]
      /\ rows'["CANCEL"].status = "ABSENT" => UNCHANGED op /\ rows["CANCEL"].status = "ABSENT"
      /\ rows'["CANCEL"].status = "SENT" => rows["CANCEL"].status = "SENT"
  BY <1>0, <1>3, AddedCancel
<1>5. /\ op' \in OpType /\ op'.bound = op.bound
      /\ \/ op'.status = "CANCELLED"
         \/ /\ op' = op /\ op.status # "SUBMIT_PENDING"
            /\ join => op.status \notin {"SUBMITTED", "RESULT_RECEIVED"}
  BY <1>0, <1>3 DEF OpType, OpStatus, OpTerminal
<1>6. Types'
  BY <1>0, <1>1, <1>2, <1>4, <1>5 DEF Types, OpType, RowType, SenderType, TaskType
<1>7. OpIsCoherent' /\ SentIsDurable' /\ NoOrphanWork'
  BY <1>0, <1>1, <1>2, <1>4, <1>5 DEF OpIsCoherent, SentIsDurable, NoOrphanWork
<1>8. WaitIsCoherent'
  BY <1>0, <1>1, <1>5 DEF WaitIsCoherent
<1> QED BY <1>0, <1>1, <1>2, <1>4, <1>6, <1>7, <1>8, RuntimeKeeps DEF TaskIsCoherent

-----------------------------------------------------------------------------
LEMMA StepHolds == IInv /\ [Next]_vars => IInv'
<1> SUFFICES ASSUME IInv, [Next]_vars PROVE IInv'
  OBVIOUS
<1>1. CASE UNCHANGED vars
  BY <1>1 DEF vars, runtime, worker, IInv, TypeOK, TaskIsCoherent, OpIsCoherent, WaitIsCoherent,
              HasReady, BusyWithCommand, SentIsDurable, NoOrphanWork
<1>2. CASE Next
  BY <1>2, WorkerSteps, SenderSteps, ControlSteps, ResultStep, ExecutorSteps, EndSteps DEF Next
<1> QED BY <1>1, <1>2

LEMMA Invariant == Spec => []IInv
BY InitHolds, StepHolds, PTL DEF Spec

(* However the requests between the Runtime and the Worker are lost, late, *)
(* repeated or handled at the same time, one call makes one task, what is  *)
(* marked SENT is durable on the other side, and a run waits only for what *)
(* can still come.                                                         *)
THEOREM OneCallOneTask == Spec => []Inv
BY Invariant, IInvImplies, PTL

(* A confirmed cancellation is final: the task, if it is created at all,   *)
(* knows of it.                                                            *)
THEOREM ConfirmedCancelWins == Spec => []CancelWins
BY Invariant, IInvImplies, PTL

(* While work its run has given up exists or may still come to exist, a    *)
(* cancellation of it was put in the outbox.                               *)
THEOREM GivenUpWorkIsCancelled == Spec => []NoOrphanWork
BY Invariant, IInvImplies, PTL
=============================================================================
