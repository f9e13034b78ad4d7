--------------------------- MODULE DeliveryProofs ---------------------------
(***************************************************************************)
(* Proofs about Delivery, for any number of replicas and attempts.         *)
(*                                                                         *)
(* That no second copy is sent without a fault rests on the placeholder:   *)
(* as long as nothing failed, the handler that holds it is the only one    *)
(* between the first look at the key and the mark, and the only one with   *)
(* a command on its way.                                                   *)
(***************************************************************************)
EXTENDS Delivery, TLAPS

-----------------------------------------------------------------------------
(* The inductive invariant. *)

\* What says "delivered", at any place, says it of something the user has
Reached == copies > 0 \/ inbox

ReportsAreTrue ==
  /\ \A a \in Attempt : cmd[a] = "delivered" => copies > 0
  /\ \A a \in Attempt : try[a] = "delivered" => Reached
  /\ row.status = "SENT" => Reached

\* A command is there only once its handler waits for it, or has ended
CommandsHaveHandlers ==
  \A a \in Attempt : cmd[a] # "none" => req[a].phase \in {"waiting", "done"}

Sending(a) == req[a].phase \in {"sending", "waiting"}

\* As long as nothing failed
Orderly ==
  /\ copies <= 1
  /\ \A a \in Attempt : Sending(a) => req[a].held
  /\ \A a \in Attempt : Sending(a) <=> key = Flight(a)
  /\ \A a \in Attempt : cmd[a] = "queued" => req[a].phase = "waiting"
  /\ copies = 1 => \/ key.state = "delivered"
                   \/ \E a \in Attempt : req[a].phase = "waiting" /\ cmd[a] = "delivered"

IInv == Inv /\ ReportsAreTrue /\ CommandsHaveHandlers /\ (~fault => Orderly)

-----------------------------------------------------------------------------
(* Lemmas. *)

\* The values of the key can be told apart
LEMMA KeyValues ==
  /\ Free.state = "free"
  /\ \A a : Flight(a).state = "flight" /\ Flight(a).of = a
  /\ \A f : Marked(f).state = "delivered"
  /\ \A a, b : Flight(a) = Flight(b) => a = b
BY DEF Free, Flight, Marked

ReqType == [phase : {"none", "arrived", "replaying", "sending", "waiting", "done"},
            form : {"file", "text"}, held : BOOLEAN]
TryType == {"none", "running", "delivered", "retry", "gone", "mismatch", "over"}
KeyType == {Free, Marked("file"), Marked("text")} \cup {Flight(a) : a \in Attempt}

\* An answer ends its handler alone, and tells its loop at most what it says
LEMMA AnswerTypes ==
  ASSUME TypeOK, NEW a \in Attempt, NEW ans \in TryType, Answer(a, ans)
  PROVE  /\ req' \in [Attempt -> ReqType] /\ try' \in [Attempt -> TryType]
         /\ req'[a].phase = "done"
         /\ \A b \in Attempt \ {a} : req'[b] = req[b]
         /\ \A b \in Attempt : try'[b] \in {try[b], ans}
<1>1. [NoReq EXCEPT !.phase = "done"] \in ReqType /\ [NoReq EXCEPT !.phase = "done"].phase = "done"
  BY DEF NoReq, ReqType
<1>2. req \in [Attempt -> ReqType] /\ try \in [Attempt -> TryType]
  BY DEF TypeOK, ReqType, TryType
<1> QED BY <1>1, <1>2 DEF Answer

RowType == [status : {"PENDING", "SENT", "FAILED"}, attempts : 0..MaxAttempts, age : 0..2]

LEMMA MaxAttemptsType == MaxAttempts \in Nat /\ MaxAttempts >= 1 /\ Attempt \subseteq Nat
BY MaxAttemptsAssumption DEF Attempt

\* The surroundings and the loops change neither the key nor a command
LEMMA WorkerKeeps ==
  ASSUME IInv, \/ Publish \/ LoseArtifact \/ Elapse \/ SettleStranded \/ Reserve
               \/ \E a \in Attempt : Register(a) \/ Crash(a) \/ RecordSent(a)
                                     \/ RecordTerminalFailure(a) \/ RecordRetryableFailure(a)
  PROVE  IInv'
<1>0. TypeOK /\ MarkIsEarned /\ NoAttemptBeforeResult /\ ReportsAreTrue
  BY DEF IInv, Inv
<1>1. UNCHANGED net /\ channel' = channel
  BY DEF Publish, LoseArtifact, Elapse, SettleStranded, Reserve, Register, Crash, RecordSent,
         RecordTerminalFailure, RecordRetryableFailure, Apply, worker, net
<1>2. /\ pub' = pub \/ (pub = "PENDING" /\ pub' \in {"SENT", "FAILED"})
      /\ form' \in {"file", "text"} /\ inbox' \in {inbox, TRUE}
      /\ inbox => inbox'
  BY <1>0 DEF TypeOK, Publish, LoseArtifact, Elapse, SettleStranded, Reserve, Register, Crash, RecordSent,
         RecordTerminalFailure, RecordRetryableFailure, Apply, worker, net
<1> DEFINE RowsAreLegal ==
       /\ row' \in RowType /\ try' \in [Attempt -> TryType]
       /\ row'.status = "SENT" => Reached'
       /\ \A a \in Attempt : try'[a] = "delivered" => Reached'
       /\ (channel = "WEBCHAT" /\ pub' = "PENDING") => row' = row
<1>3. RowsAreLegal
  <2>0. /\ row \in RowType /\ try \in [Attempt -> TryType] /\ 0 \in 0..2 /\ 1 \in 0..2 /\ 2 \in 0..2
        /\ Reached => Reached'
    BY <1>0, <1>1, <1>2 DEF TypeOK, RowType, TryType, Reached, net
  <2>1. CASE Publish \/ LoseArtifact
    BY <1>0, <2>0, <2>1 DEF ReportsAreTrue, Publish, LoseArtifact
  <2>2. CASE Elapse
    <3>1. row.age + 1 \in 0..2
      BY <2>0, <2>2 DEF RowType, Elapse
    <3> QED BY <1>0, <2>0, <2>2, <3>1 DEF ReportsAreTrue, Elapse, RowType, NoAttemptBeforeResult
  <2>3. CASE SettleStranded
    <3>1. row' \in RowType /\ row'.status = "FAILED"
      BY <2>0, <2>3 DEF SettleStranded, RowType
    <3> QED BY <1>0, <2>0, <2>3, <3>1 DEF ReportsAreTrue, SettleStranded, Detectable
  <2>4. CASE Reserve
    <3>1. row.attempts + 1 \in Attempt /\ row.attempts + 1 \in 0..MaxAttempts
      BY <2>0, <2>4, MaxAttemptsType DEF RowType, Reserve, Attempt
    <3>2. row' \in RowType /\ row'.status = "PENDING"
      BY <2>0, <2>4, <3>1 DEF Reserve, Detectable, RowType
    <3> QED BY <1>0, <2>0, <2>4, <3>1, <3>2 DEF ReportsAreTrue, TryType, Reserve, Detectable
  <2>5. ASSUME NEW a \in Attempt, Register(a) \/ Crash(a)
        PROVE  RowsAreLegal
    BY <1>0, <2>0, <2>5 DEF TryType, ReportsAreTrue, Reached, worker, Register, Crash
  <2>6. ASSUME NEW a \in Attempt, RecordSent(a) \/ RecordTerminalFailure(a) \/ RecordRetryableFailure(a)
        PROVE  RowsAreLegal
    <3>1. PICK s \in {"PENDING", "SENT", "FAILED"}, n \in 0..MaxAttempts :
            Apply(a, s, n) /\ (s = "SENT" => try[a] = "delivered")
      BY <2>6, MaxAttemptsType DEF RecordSent, Confirmed, RecordTerminalFailure, RecordRetryableFailure, Attempt
    <3>2. row' \in RowType /\ row' \in {row, [status |-> s, attempts |-> n, age |-> 0]}
      BY <2>0, <3>1 DEF Apply, RowType
    <3>3. (channel = "WEBCHAT" /\ pub' = "PENDING") => row' = row
      BY <1>0, <3>1, MaxAttemptsType DEF Apply, NoAttemptBeforeResult, Attempt
    <3> QED BY <1>0, <2>0, <3>1, <3>2, <3>3 DEF Apply, ReportsAreTrue, TryType
  <2> QED BY <2>1, <2>2, <2>3, <2>4, <2>5, <2>6
<1> HIDE DEF RowsAreLegal
<1>4. Inv'
  BY <1>0, <1>1, <1>2, <1>3 DEF RowsAreLegal, Inv, TypeOK, RowType, TryType, MarkIsEarned, NoAttemptBeforeResult, net
<1>5. ReportsAreTrue' /\ CommandsHaveHandlers' /\ (~fault' => Orderly')
  BY <1>1, <1>3 DEF RowsAreLegal, IInv, ReportsAreTrue, CommandsHaveHandlers, Orderly, Sending, net
<1> QED BY <1>4, <1>5 DEF IInv

LEMMA ReqTypes ==
  ASSUME TypeOK
  PROVE  req \in [Attempt -> ReqType] /\ try \in [Attempt -> TryType] /\ key \in KeyType
BY DEF TypeOK, ReqType, TryType, KeyType

\* The first steps of a handler, up to the command it puts on the stream
LEMMA SendingKeeps ==
  ASSUME IInv, NEW a \in Attempt,
         Post(a) \/ Take(a) \/ TakeDegraded(a) \/ FindTaken(a) \/ Enqueue(a)
  PROVE  IInv'
<1>0. /\ TypeOK /\ MarkIsEarned /\ NoAttemptBeforeResult /\ ReportsAreTrue /\ CommandsHaveHandlers
      /\ req \in [Attempt -> ReqType] /\ key \in KeyType
  BY ReqTypes DEF IInv, Inv
<1>1. UNCHANGED <<worker, try, copies>>
  BY DEF Post, Take, TakeDegraded, FindTaken, Enqueue
<1>2. PICK r \in ReqType :
        /\ req' = [req EXCEPT ![a] = r]
        /\ \/ Post(a) /\ req[a].phase = "none" /\ r.phase = "arrived"
           \/ Take(a) /\ req[a].phase = "arrived" /\ r.phase = "sending" /\ r.held
           \/ TakeDegraded(a) /\ req[a].phase = "arrived"
           \/ FindTaken(a) /\ req[a].phase = "arrived" /\ r.phase = "replaying"
           \/ Enqueue(a) /\ req[a].phase = "sending" /\ r.phase = "waiting" /\ r.held = req[a].held
  <2>1. CASE Post(a)
    <3>1. [phase |-> "arrived", form |-> form, held |-> FALSE] \in ReqType
      BY <1>0 DEF TypeOK, ReqType
    <3> QED BY <2>1, <3>1 DEF Post
  <2>2. CASE Take(a)
    <3>1. [req[a] EXCEPT !.phase = "sending", !.held = TRUE] \in ReqType
      BY <1>0 DEF ReqType
    <3>2. req' = [req EXCEPT ![a] = [req[a] EXCEPT !.phase = "sending", !.held = TRUE]]
      BY <1>0, <2>2 DEF Take, ReqType
    <3> QED BY <1>0, <2>2, <3>1, <3>2 DEF Take, ReqType
  <2>3. ASSUME NEW p \in {"replaying", "sending", "waiting"}, Phase(a, p)
        PROVE  \E x \in ReqType : /\ req' = [req EXCEPT ![a] = x]
                                  /\ x.phase = p /\ x.held = req[a].held
    <3>1. [req[a] EXCEPT !.phase = p] \in ReqType
      BY <1>0 DEF ReqType
    <3> QED BY <1>0, <2>3, <3>1 DEF Phase, ReqType
  <2> QED BY <2>1, <2>2, <2>3 DEF TakeDegraded, FindTaken, Enqueue
<1>3. key' \in KeyType /\ (key'.state = "delivered" => key' = key)
  BY <1>0, KeyValues DEF KeyType, Post, Take, TakeDegraded, FindTaken, Enqueue
<1>4. /\ cmd' \in [Attempt -> {"none", "queued", "delivered", "failed"}] /\ fault' \in BOOLEAN
      /\ \A b \in Attempt : cmd'[b] = cmd[b] \/ (b = a /\ cmd'[b] = "queued" /\ req'[b].phase = "waiting")
  BY <1>0, <1>2 DEF TypeOK, Post, Take, TakeDegraded, FindTaken, Enqueue
<1>5. Inv'
  BY <1>0, <1>1, <1>2, <1>3, <1>4
     DEF Inv, TypeOK, ReqType, KeyType, MarkIsEarned, NoAttemptBeforeResult, worker
<1>6. ReportsAreTrue'
  BY <1>0, <1>1, <1>4 DEF ReportsAreTrue, Reached, worker
<1>7. CommandsHaveHandlers'
  <2>1. cmd[a] # "none" => req'[a] = req[a]
    BY <1>0, <1>2 DEF CommandsHaveHandlers
  <2> QED BY <1>0, <1>2, <1>4, <2>1 DEF CommandsHaveHandlers
<1>8. ASSUME ~fault'
      PROVE  Orderly'
  <2>1. Orderly /\ fault' = fault
    BY <1>0, <1>8 DEF IInv, TypeOK, Post, Take, TakeDegraded, FindTaken, Enqueue
  <2>2. \A b \in Attempt \ {a} : Sending(b)' = Sending(b)
    BY <1>2 DEF Sending
  <2>3. CASE \/ Post(a) /\ req[a].phase = "none" /\ r.phase = "arrived"
             \/ FindTaken(a) /\ req[a].phase = "arrived" /\ r.phase = "replaying"
    <3>1. UNCHANGED <<key, cmd, copies>> /\ \A b \in Attempt : req[b].phase = "waiting" <=> req'[b].phase = "waiting"
      BY <1>0, <1>2, <2>3 DEF Post, FindTaken
    <3>2. ~Sending(a) /\ ~Sending(a)'
      BY <1>0, <1>2, <2>3 DEF Sending
    <3> QED BY <1>2, <2>1, <2>2, <3>1, <3>2 DEF Orderly
  <2>4. CASE Take(a) /\ req[a].phase = "arrived" /\ r.phase = "sending" /\ r.held
    <3>1. /\ key = Free /\ key' = Flight(a) /\ cmd' = cmd /\ req'[a].phase = "sending" /\ req'[a].held
          /\ req[a].phase = "arrived"
      BY <1>0, <1>2, <2>4 DEF Take
    <3>2. \A b \in Attempt : ~Sending(b)
      BY <2>1, <3>1, KeyValues DEF Orderly
    <3>3. copies = 0
      <4>1. ~\E b \in Attempt : req[b].phase = "waiting"
        BY <3>2 DEF Sending
      <4> QED BY <1>0, <2>1, <3>1, <4>1, KeyValues DEF Orderly, TypeOK
    <3> QED BY <1>1, <1>2, <2>1, <2>2, <3>1, <3>2, <3>3, KeyValues DEF Orderly, Sending
  <2>5. CASE TakeDegraded(a)
    BY <1>8, <2>5 DEF TakeDegraded
  <2>6. CASE Enqueue(a) /\ req[a].phase = "sending" /\ r.phase = "waiting" /\ r.held = req[a].held
    <3>1. req[a].phase = "sending" /\ cmd' = [cmd EXCEPT ![a] = "queued"] /\ key' = key
      BY <2>6 DEF Enqueue
    <3>2. Sending(a) /\ Sending(a)' /\ req'[a].held = req[a].held /\ req'[a].phase = "waiting"
      BY <1>0, <1>2, <2>6, <3>1 DEF Sending
    <3>3. \A b \in Attempt : req[b].phase = "waiting" /\ cmd[b] = "delivered" =>
            req'[b].phase = "waiting" /\ cmd'[b] = "delivered"
      BY <1>0, <1>2, <3>1 DEF TypeOK
    <3> QED BY <1>0, <1>1, <1>2, <2>1, <2>2, <3>1, <3>2, <3>3 DEF Orderly, TypeOK
  <2> QED BY <1>2, <2>3, <2>4, <2>5, <2>6
<1> QED BY <1>5, <1>6, <1>7, <1>8 DEF IInv

\* The end of a handler: what it answers is true, and it leaves no placeholder
LEMMA EndingKeeps ==
  ASSUME IInv, NEW a \in Attempt,
         \/ Replay(a) \/ ReplayTimesOut(a) \/ Reject(a) \/ TakeFailure(a) \/ GiveUp(a)
         \/ Mark(a) \/ MarkFails(a) \/ HandlerDies(a)
  PROVE  IInv'
<1>0. /\ TypeOK /\ MarkIsEarned /\ NoAttemptBeforeResult /\ ReportsAreTrue /\ CommandsHaveHandlers
      /\ req \in [Attempt -> ReqType] /\ key \in KeyType
  BY ReqTypes DEF IInv, Inv
<1>1. /\ UNCHANGED <<worker, cmd, copies>> /\ req[a].phase \in {"arrived", "replaying", "sending", "waiting"}
      /\ fault' \in BOOLEAN /\ (fault => fault')
  BY <1>0 DEF TypeOK, Replay, ReplayTimesOut, Reject, TakeFailure, GiveUp, Mark, MarkFails, HandlerDies
<1>2. PICK ans \in TryType : Answer(a, ans) /\ (ans = "delivered" => copies > 0)
  <2>1. cmd[a] = "delivered" => copies > 0
    BY <1>0 DEF ReportsAreTrue
  <2>2. key.state = "delivered" => copies > 0
    BY <1>0 DEF MarkIsEarned
  <2> QED BY <2>1, <2>2 DEF TryType, Replay, ReplayTimesOut, Reject, TakeFailure, GiveUp,
             Mark, MarkFails, HandlerDies
<1>3. /\ req' \in [Attempt -> ReqType] /\ try' \in [Attempt -> TryType] /\ req'[a].phase = "done"
      /\ \A b \in Attempt \ {a} : req'[b] = req[b]
      /\ \A b \in Attempt : try'[b] \in {try[b], ans}
  BY <1>0, <1>2, AnswerTypes
<1>4. /\ key' \in KeyType
      /\ \/ key' = key
         \/ key = Flight(a) /\ key' = Free /\ (Reject(a) \/ TakeFailure(a) \/ GiveUp(a))
         \/ key = Flight(a) /\ key' = Marked(req[a].form) /\ Mark(a)
  <2>1. CASE key' = key
    BY <1>0, <2>1
  <2>2. CASE (Reject(a) \/ TakeFailure(a) \/ GiveUp(a)) /\ key' # key
    BY <2>2 DEF Reject, TakeFailure, GiveUp, Release, KeyType
  <2>3. CASE Mark(a) /\ key' # key
    <3>1. req[a].form \in {"file", "text"}
      BY <1>0 DEF ReqType
    <3> QED BY <2>3, <3>1 DEF Mark, KeyType
  <2> QED BY <2>1, <2>2, <2>3 DEF Replay, ReplayTimesOut, MarkFails, HandlerDies
<1>5. key'.state = "delivered" => copies > 0
  BY <1>0, <1>4, KeyValues DEF MarkIsEarned, Mark, ReportsAreTrue
<1>6. Inv'
  BY <1>0, <1>1, <1>3, <1>4, <1>5
     DEF Inv, TypeOK, ReqType, TryType, KeyType, MarkIsEarned, NoAttemptBeforeResult, worker
<1>7. ReportsAreTrue' /\ CommandsHaveHandlers'
  BY <1>0, <1>1, <1>2, <1>3 DEF ReportsAreTrue, Reached, CommandsHaveHandlers, worker
<1>8. ASSUME ~fault'
      PROVE  Orderly'
  <2>1. Orderly
    BY <1>1, <1>8 DEF IInv
  <2>2. /\ ~Sending(a)' /\ \A b \in Attempt \ {a} : Sending(b)' = Sending(b)
        /\ \A b \in Attempt : Sending(b)' => Sending(b)
    BY <1>3 DEF Sending
  <2>3. CASE Replay(a) \/ ReplayTimesOut(a)
    <3>1. req[a].phase = "replaying" /\ key' = key
      BY <2>3 DEF Replay, ReplayTimesOut
    <3> QED BY <1>1, <1>3, <2>1, <2>2, <3>1 DEF Orderly, Sending
  <2>4. CASE Reject(a) \/ TakeFailure(a)
    <3>1. Sending(a) /\ cmd[a] # "queued" /\ ~(req[a].phase = "waiting" /\ cmd[a] = "delivered")
      BY <1>0, <2>4 DEF Reject, TakeFailure, Sending, CommandsHaveHandlers
    <3>2. key = Flight(a) /\ req[a].held
      BY <2>1, <3>1 DEF Orderly
    <3>3. key' = Free
      BY <2>4, <3>2 DEF Reject, TakeFailure, Release
    <3>4. \A b \in Attempt : ~Sending(b)'
      BY <2>1, <2>2, <3>2, KeyValues DEF Orderly
    <3>5. copies = 0
      BY <1>0, <2>1, <2>2, <3>1, <3>2, KeyValues DEF Orderly, TypeOK, Sending
    <3>6. \A b \in Attempt : cmd[b] # "queued"
      BY <2>1, <2>2, <3>1, <3>2, KeyValues DEF Orderly, Sending
    <3> QED BY <1>1, <3>3, <3>4, <3>5, <3>6, KeyValues DEF Orderly
  <2>5. CASE Mark(a)
    <3>1. Sending(a) /\ cmd[a] = "delivered" /\ req[a].phase = "waiting"
      BY <2>5 DEF Mark, Sending
    <3>2. key = Flight(a) /\ req[a].held
      BY <2>1, <3>1 DEF Orderly
    <3>3. key'.state = "delivered" /\ key' # Free /\ \A b : key' # Flight(b)
      BY <2>5, <3>2, KeyValues DEF Mark
    <3>4. \A b \in Attempt : ~Sending(b)'
      BY <2>1, <2>2, <3>2, KeyValues DEF Orderly
    <3>5. \A b \in Attempt : cmd[b] # "queued"
      BY <2>1, <3>1, <3>2, KeyValues DEF Orderly, Sending
    <3> QED BY <1>1, <2>1, <3>3, <3>4, <3>5 DEF Orderly
  <2>6. CASE GiveUp(a) \/ MarkFails(a) \/ HandlerDies(a)
    BY <1>8, <2>6 DEF GiveUp, MarkFails, HandlerDies
  <2> QED BY <2>3, <2>4, <2>5, <2>6
<1> QED BY <1>6, <1>7, <1>8 DEF IInv

\* The connector, and the expiry of a placeholder
LEMMA ConnectorKeeps ==
  ASSUME IInv, Expire \/ \E a \in Attempt : Execute(a) \/ FailCommand(a)
  PROVE  IInv'
<1>0. /\ TypeOK /\ MarkIsEarned /\ NoAttemptBeforeResult /\ ReportsAreTrue /\ CommandsHaveHandlers
      /\ req \in [Attempt -> ReqType] /\ key \in KeyType
  BY ReqTypes DEF IInv, Inv
<1>1. CASE Expire
  <2>1. /\ UNCHANGED <<worker, try, req, cmd, copies>> /\ key' = Free
        /\ fault' = (fault \/ req[key.of].phase # "done")
    BY <1>1 DEF Expire
  <2>2. PICK a \in Attempt : key = Flight(a)
    BY <1>0, <1>1, KeyValues DEF Expire, KeyType
  <2>3. Inv' /\ ReportsAreTrue' /\ CommandsHaveHandlers'
    BY <1>0, <2>1, KeyValues DEF Inv, TypeOK, MarkIsEarned, NoAttemptBeforeResult, worker,
       ReportsAreTrue, Reached, CommandsHaveHandlers
  <2>4. fault'
    <3>1. CASE ~fault
      <4>1. Sending(a)
        BY <2>2, <3>1 DEF IInv, Orderly
      <4>2. req[key.of].phase # "done"
        BY <2>2, <4>1, KeyValues DEF Sending
      <4> QED BY <2>1, <4>2
    <3>2. CASE fault
      BY <2>1, <3>2
    <3> QED BY <3>1, <3>2
  <2> QED BY <2>3, <2>4 DEF IInv
<1>2. ASSUME NEW a \in Attempt, Execute(a) \/ FailCommand(a)
      PROVE  IInv'
  <2>1. UNCHANGED <<worker, try, req, key>> /\ cmd[a] = "queued"
    BY <1>2 DEF Execute, FailCommand
  <2>2. PICK n \in {0, 1, 2}, r \in {"queued", "delivered", "failed"} :
          /\ Get(n) /\ cmd' = [cmd EXCEPT ![a] = r]
          /\ r = "delivered" => n > 0
          /\ r = "failed" /\ n = 1 => fault'
          /\ r # "failed" /\ n = 2 => fault'
          /\ r = "failed" => n \in {0, 1}
          /\ r = "queued" => fault'
          /\ fault => fault'
          /\ fault' \in BOOLEAN
    <3>1. CASE Execute(a)
      <4>1. PICK n \in {1, 2}, r \in {"delivered", "queued"} :
              /\ Get(n) /\ cmd' = [cmd EXCEPT ![a] = r]
              /\ fault' = (fault \/ n = 2 \/ r = "queued")
        BY <3>1 DEF Execute
      <4>2. r # "failed" /\ n > 0 /\ n \in {0, 1, 2} /\ r \in {"queued", "delivered", "failed"}
        OBVIOUS
      <4> QED BY <4>1, <4>2
    <3>2. CASE FailCommand(a)
      <4>1. PICK n \in {0, 1} : Get(n) /\ fault' = (fault \/ n = 1)
        BY <3>2 DEF FailCommand
      <4>2. n \in {0, 1, 2} /\ cmd' = [cmd EXCEPT ![a] = "failed"]
        BY <3>2 DEF FailCommand
      <4> QED BY <4>1, <4>2
    <3> QED BY <1>2, <3>1, <3>2
  <2>3. /\ copies' \in 0..2 /\ copies <= copies' /\ fault' \in BOOLEAN
        /\ n > 0 => copies' > 0
        /\ copies' = IF copies + n > 2 THEN 2 ELSE copies + n
    BY <1>0, <2>2 DEF TypeOK, Get
  <2>4. Inv'
    BY <1>0, <2>1, <2>2, <2>3 DEF Inv, TypeOK, MarkIsEarned, NoAttemptBeforeResult, worker
  <2>5. ReportsAreTrue'
    <3>1. copies \in 0..2 /\ cmd \in [Attempt -> {"none", "queued", "delivered", "failed"}]
      BY <1>0 DEF TypeOK
    <3> QED BY <1>0, <2>1, <2>2, <2>3, <3>1 DEF ReportsAreTrue, Reached, worker
  <2>6. CommandsHaveHandlers'
    BY <1>0, <2>1, <2>2 DEF TypeOK, CommandsHaveHandlers
  <2>7. ASSUME ~fault'
        PROVE  Orderly'
    <3>1. Orderly
      BY <2>2, <2>7 DEF IInv
    <3>2. req[a].phase = "waiting" /\ Sending(a) /\ key = Flight(a)
      BY <2>1, <3>1 DEF Orderly, Sending
    <3>3. copies = 0
      <4>1. \A b \in Attempt : req[b].phase = "waiting" => b = a
        BY <3>1, <3>2, KeyValues DEF Orderly, Sending
      <4>2. ~\E b \in Attempt : req[b].phase = "waiting" /\ cmd[b] = "delivered"
        BY <2>1, <4>1
      <4> QED BY <1>0, <3>1, <3>2, <4>2, KeyValues DEF Orderly, TypeOK
    <3>4. n \in {0, 1} /\ (n = 1 => r = "delivered") /\ r # "queued"
      BY <2>2, <2>7
    <3>5. copies' = n /\ (copies' = 1 => cmd'[a] = "delivered")
      BY <1>0, <2>2, <2>3, <3>3, <3>4 DEF TypeOK
    <3>6. \A b \in Attempt : cmd'[b] = "queued" => cmd[b] = "queued"
      BY <1>0, <2>2, <3>4 DEF TypeOK
    <3> QED BY <2>1, <3>1, <3>2, <3>4, <3>5, <3>6 DEF Orderly, Sending
  <2> QED BY <2>4, <2>5, <2>6, <2>7 DEF IInv
<1> QED BY <1>1, <1>2

LEMMA IInvHolds == Spec => []IInv
<1>1. Init => IInv
  <2> SUFFICES ASSUME Init PROVE IInv
    OBVIOUS
  <2>1. TypeOK
    <3>1. row \in RowType /\ NoReq \in ReqType
      BY MaxAttemptsType DEF Init, RowType, NoReq, ReqType
    <3>2. pub \in {"NONE", "PENDING"}
      BY DEF Init
    <3> QED BY <3>1, <3>2 DEF Init, TypeOK, RowType, ReqType
  <2>2. Inv /\ ReportsAreTrue /\ CommandsHaveHandlers
    BY <2>1, KeyValues DEF Init, Inv, MarkIsEarned, NoAttemptBeforeResult, ReportsAreTrue, CommandsHaveHandlers
  <2>3. Orderly
    BY KeyValues DEF Init, Orderly, Sending, NoReq
  <2> QED BY <2>2, <2>3 DEF IInv
<1>2. IInv /\ [Next]_vars => IInv'
  <2>1. IInv /\ UNCHANGED vars => IInv'
    BY DEF vars, worker, net, IInv, Inv, TypeOK, MarkIsEarned, NoAttemptBeforeResult, ReportsAreTrue, Reached,
           CommandsHaveHandlers, Orderly, Sending
  <2> QED BY <2>1, WorkerKeeps, SendingKeeps, EndingKeeps, ConnectorKeeps
     DEF Next, Worker, Gateway, Connector
<1> QED BY <1>1, <1>2, PTL DEF Spec

-----------------------------------------------------------------------------
(* The results. *)

(* Every variable keeps its type, a mark in Redis stands only for what the *)
(* user got, the attempts of all replicas stay within delivery_max_attempts *)
(* and none is spent on a result that the Runtime does not have yet.       *)
THEOREM DeliveryIsSound == Spec => []Inv
<1>1. IInv => Inv
  BY DEF IInv
<1> QED BY <1>1, IInvHolds, PTL

(* No interleaving of replicas, attempts and handlers, no crash of a loop   *)
(* and no lost answer sends a result twice: it takes a fault of Redis, of  *)
(* the gateway or of the connector.                                        *)
THEOREM OneCopyWithoutFaults == Spec => []SecondCopyNeedsAFault
<1>1. IInv => SecondCopyNeedsAFault
  BY DEF IInv, Inv, TypeOK, Orderly, SecondCopyNeedsAFault
<1> QED BY <1>1, IInvHolds, PTL

(* _mark and _release compare before they write: a handler whose           *)
(* placeholder expired takes no mark of another attempt back.              *)
THEOREM MarksAreKept == Spec => MarkIsKept
<1>1. [Next]_vars => (key.state = "delivered" => key' = key)
  <2> SUFFICES ASSUME [Next]_vars, key.state = "delivered"
               PROVE  key' = key
    OBVIOUS
  <2>1. key # Free /\ \A a : key # Flight(a)
    BY KeyValues
  <2> QED BY <2>1 DEF Next, vars, net, Worker, Gateway, Connector, Publish, LoseArtifact, Elapse, SettleStranded,
       Reserve, Expire, Post, Register, Crash, RecordSent, RecordTerminalFailure, RecordRetryableFailure, Apply,
       Take, TakeDegraded, FindTaken, Replay, ReplayTimesOut, Enqueue, Reject, TakeFailure, GiveUp, Release,
       Mark, MarkFails, HandlerDies, Execute, FailCommand
<1> QED BY <1>1, PTL DEF Spec, MarkIsKept

(* The safety part of ResultNotice is implemented: whatever attempts and    *)
(* handlers do, the row says SENT only of what the user has, and what it   *)
(* says once it says for ever.                                             *)
THEOREM NoticeIsSafe == Spec => Notice!Safety
<1>1. Init => Notice!Init
  BY DEF Init, Notice!Init
<1>2. IInv /\ [Next]_vars => [Notice!Next]_(Notice!vars)
  <2> SUFFICES ASSUME IInv, [Next]_vars
               PROVE  [Notice!Next]_(Notice!vars)
    OBVIOUS
  <2> DEFINE received == copies > 0 \/ inbox
  <2>1. TypeOK /\ row \in RowType
    BY DEF IInv, Inv, TypeOK, RowType
  <2>2. CASE SettleStranded
    <3>1. row.status = "PENDING" /\ row'.status = "FAILED" /\ UNCHANGED <<copies, inbox>>
      BY <2>1, <2>2 DEF SettleStranded, Detectable, RowType, net
    <3> QED BY <3>1 DEF Notice!Next, Notice!GiveUp
  <2>3. ASSUME NEW a \in Attempt, RecordSent(a) \/ RecordTerminalFailure(a) \/ RecordRetryableFailure(a)
        PROVE  [Notice!Next]_(Notice!vars)
    <3>1. PICK s \in {"PENDING", "SENT", "FAILED"}, n \in 0..MaxAttempts :
            Apply(a, s, n) /\ (s = "SENT" => received)
      BY <2>3, MaxAttemptsType DEF IInv, ReportsAreTrue, Reached, RecordSent, Confirmed, RecordTerminalFailure,
         RecordRetryableFailure, Attempt
    <3>2. /\ row' = row \/ (row.status = "PENDING" /\ row'.status = s)
          /\ UNCHANGED <<copies, inbox>>
      BY <3>1 DEF Apply, net
    <3> QED BY <3>1, <3>2 DEF Notice!Next, Notice!vars, Notice!Confirm, Notice!GiveUp
  <2>4. CASE \E a \in Attempt : Register(a)
    <3>1. inbox' = TRUE /\ row' = row
      BY <2>4 DEF Register
    <3> QED BY <3>1 DEF Notice!Next, Notice!Reach
  <2>5. CASE \E a \in Attempt : Execute(a) \/ FailCommand(a)
    <3>1. row' = row /\ inbox' = inbox /\ \E n \in {0, 1, 2} : Get(n)
      BY <2>5 DEF Execute, FailCommand, worker
    <3>2. received => received'
      BY <2>1, <3>1 DEF TypeOK, Get
    <3>3. inbox \in BOOLEAN /\ received \in BOOLEAN /\ received' \in BOOLEAN
      BY <2>1, <3>1 DEF TypeOK
    <3> QED BY <3>1, <3>2, <3>3 DEF Notice!Next, Notice!vars, Notice!Reach
  <2>6. CASE row'.status = row.status /\ UNCHANGED <<copies, inbox>>
    BY <2>6 DEF Notice!vars
  <2>7. Elapse \/ Reserve => row'.status = row.status /\ UNCHANGED <<copies, inbox>>
    BY <2>1 DEF Elapse, Reserve, RowType, net
  <2> QED BY <2>2, <2>3, <2>4, <2>5, <2>6, <2>7
     DEF Next, vars, worker, net, Worker, Gateway, Connector, Publish, LoseArtifact, Expire, Post, Crash,
         Take, TakeDegraded, FindTaken, Replay, ReplayTimesOut, Enqueue, Reject, TakeFailure, GiveUp,
         Mark, MarkFails, HandlerDies
<1> QED BY <1>1, <1>2, IInvHolds, PTL DEF Spec, Notice!Safety
=============================================================================
