------------------------------ MODULE Schedule ------------------------------
(***************************************************************************)
(* Schedules of the Worker: the rows of task_schedule, the calls that      *)
(* change them, and the scheduler loops that turn a due row into a task    *)
(* or into a recorded skip.  Source: agent-worker's scheduler/service.py.  *)
(*                                                                         *)
(* A loop reads the clock once per round, chooses a due row in a           *)
(* transaction that keeps no lock, fetches settings and the effective      *)
(* definition over the network, and only then locks the row again: what    *)
(* it holds in between is a stale copy.                                    *)
(***************************************************************************)
EXTENDS Integers, FiniteSets

CONSTANTS
  Sched,      \* rows of task_schedule
  Loop,       \* scheduler loops, one per Worker process
  None,       \* SQL NULL
  Period,     \* a CRON expression fires at the multiples of Period, local time
  Grace,      \* misfire_grace_sec
  RunTimes,   \* the times a ONCE schedule may be set to, past ones included
  FoldAt,     \* when daylight saving sets the local clock back ...
  FoldLen,    \* ... and by how much: the local hour that is repeated
  BatchSize,  \* scheduler_batch_size
  MaxRev,     \* bound of the model on revision
  MaxTime     \* bound of the model on the clock

ASSUME ScheduleAssumption ==
  /\ Period \in Nat \ {0} /\ Grace \in Nat /\ BatchSize \in Nat \ {0}
  /\ FoldAt \in Nat /\ FoldLen \in 0..FoldAt  \* local times are not negative
  /\ RunTimes \subseteq Nat /\ MaxTime \in Nat /\ MaxRev \in Nat \ {0}
  /\ None \notin Nat /\ None \notin Sched

VARIABLES
  now,      \* the clock of PostgreSQL; the API's own clock is taken to agree
  zone,     \* is the time zone one with the repeated hour?  Never changes
  row,      \* task_schedule
  tasks,    \* the tasks the schedules created
  loop,     \* what each loop holds
  resumed   \* history: when each schedule was last resumed

vars == <<now, zone, row, tasks, loop, resumed>>

Time == 0..MaxTime

Terminal == {"COMPLETED", "MISSED"}

Absent == [status |-> "ABSENT", deleted |-> FALSE, kind |-> "CRON", runAt |-> None,
           next |-> None, rev |-> 0, last |-> None]

Asleep == [phase |-> "idle", moment |-> 0, seen |-> {}, s |-> None, copy |-> Absent]

-----------------------------------------------------------------------------
(* Fire times. *)

Local(t)  == IF zone = "fold" /\ t >= FoldAt THEN t - FoldLen ELSE t
Attach(l) == IF zone = "fold" /\ l >= FoldAt THEN l + FoldLen ELSE l
Repeated(t) == zone = "fold" /\ t \in FoldAt..(FoldAt + FoldLen - 1)

\* mutant: the time the search starts from is itself a candidate
NextCron_Inclusive(t) == Attach(((Local(t) + Period - 1) \div Period) * Period)

(* _next_cron_fire: the next wall-clock time after the local one, with the *)
(* zone attached again.  Of two passes of an hour it always means the      *)
(* first.                                                                  *)
NextCron(t) == Attach((Local(t) \div Period + 1) * Period)

NextFire(kind, runAt, t) == IF kind = "ONCE" THEN runAt ELSE NextCron(t)

Init ==
  /\ now = 0
  /\ zone \in {"plain", "fold"}
  /\ row = [s \in Sched |-> Absent]
  /\ tasks = {}
  /\ loop = [l \in Loop |-> Asleep]
  /\ resumed = [s \in Sched |-> 0]

Tick ==
  /\ now < MaxTime
  /\ now' = now + 1
  /\ UNCHANGED <<zone, row, tasks, loop, resumed>>

-----------------------------------------------------------------------------
(* The calls.  Each locks the row, checks it and writes it.                *)

Specs == {<<"CRON", None>>} \cup {<<"ONCE", t>> : t \in RunTimes}

Change(s, r) ==
  /\ row' = [row EXCEPT ![s] = r]
  /\ UNCHANGED <<now, zone, tasks, loop>>

Present(s) == row[s].status # "ABSENT" /\ ~row[s].deleted

Create(s) ==
  /\ row[s].status = "ABSENT"
  /\ \E spec \in Specs :
       Change(s, [status |-> "ACTIVE", deleted |-> FALSE, kind |-> spec[1], runAt |-> spec[2],
                  next |-> NextFire(spec[1], spec[2], now), rev |-> 1, last |-> None])
  /\ UNCHANGED resumed

\* A new name, input template or route: the times stay
Edit(s) ==
  /\ Present(s) /\ row[s].status \notin Terminal /\ row[s].rev < MaxRev
  /\ Change(s, [row[s] EXCEPT !.rev = @ + 1])
  /\ UNCHANGED resumed

\* A new time; a paused schedule stays paused
Reschedule(s) ==
  /\ Present(s) /\ row[s].status \notin Terminal /\ row[s].rev < MaxRev
  /\ \E spec \in Specs :
       Change(s, [row[s] EXCEPT !.rev = @ + 1, !.kind = spec[1], !.runAt = spec[2],
                                !.next = NextFire(spec[1], spec[2], now)])
  /\ UNCHANGED resumed

\* Neither pausing nor resuming changes the revision
Pause(s) ==
  /\ Present(s) /\ row[s].status = "ACTIVE"
  /\ Change(s, [row[s] EXCEPT !.status = "PAUSED"])
  /\ UNCHANGED resumed

\* mutant: the fire time it had is kept
Resume_KeepsTime(s) ==
  /\ Present(s) /\ row[s].status = "PAUSED"
  /\ Change(s, [row[s] EXCEPT !.status = "ACTIVE"])
  /\ resumed' = [resumed EXCEPT ![s] = now]

Resume(s) ==
  /\ Present(s) /\ row[s].status = "PAUSED"
  /\ Change(s, [row[s] EXCEPT !.status = "ACTIVE",
                              !.next = NextFire(row[s].kind, row[s].runAt, now)])
  /\ resumed' = [resumed EXCEPT ![s] = now]

Delete(s) ==
  /\ Present(s)
  /\ Change(s, [row[s] EXCEPT !.deleted = TRUE])
  /\ UNCHANGED resumed

-----------------------------------------------------------------------------
(* A loop. *)

Hold(l, r) == loop' = [loop EXCEPT ![l] = r]

Begin(l) ==
  /\ loop[l].phase = "idle"
  /\ Hold(l, [Asleep EXCEPT !.phase = "round", !.moment = now])
  /\ UNCHANGED <<now, zone, row, tasks, resumed>>

Due(s, t) ==
  /\ Present(s) /\ row[s].status = "ACTIVE"
  /\ row[s].next # None /\ row[s].next <= t

(* _claim_due_schedule: the earliest row that nobody has locked.  Others   *)
(* lock rows for an instant, so it can be any due row, or none.            *)
Choose(l, s) ==
  /\ loop[l].phase = "round"
  /\ Cardinality(loop[l].seen) < BatchSize
  /\ s \notin loop[l].seen /\ Due(s, loop[l].moment)
  /\ Hold(l, [loop[l] EXCEPT !.phase = "chosen", !.s = s, !.copy = row[s],
                             !.seen = @ \cup {s}])
  /\ UNCHANGED <<now, zone, row, tasks, resumed>>

EndRound(l) ==
  /\ loop[l].phase = "round"
  /\ Hold(l, Asleep)
  /\ UNCHANGED <<now, zone, row, tasks, resumed>>

\* mutant: an edited schedule is still the one that was chosen
LockClaim_AnyRevision(l) ==
  LET s == loop[l].s IN
  Present(s) /\ row[s].status = "ACTIVE" /\ row[s].next = loop[l].copy.next

\* _lock_claim: is the row still what was chosen?
LockClaim(l) ==
  LET s == loop[l].s IN
  /\ Present(s) /\ row[s].status = "ACTIVE"
  /\ row[s].rev = loop[l].copy.rev
  /\ row[s].next = loop[l].copy.next

\* mutant: a schedule that only skipped stays as it was
Advance_KeepsSkipped(l, fired) ==
  LET s == loop[l].s  c == loop[l].copy  cron == c.kind = "CRON" IN
  row' = IF fired THEN [row EXCEPT ![s].status = IF cron THEN @ ELSE "COMPLETED",
                                   ![s].next = IF cron THEN NextCron(loop[l].moment) ELSE None,
                                   ![s].last = c.next]
         ELSE row

(* _advance: a CRON row moves on from the start of the round, a ONCE row   *)
(* is over.                                                                *)
Advance(l, fired) ==
  LET s == loop[l].s  c == loop[l].copy  cron == c.kind = "CRON" IN
  row' = [row EXCEPT
    ![s].status = IF cron THEN @ ELSE IF fired THEN "COMPLETED" ELSE "MISSED",
    ![s].next   = IF cron THEN NextCron(loop[l].moment) ELSE None,
    ![s].last   = IF fired THEN c.next ELSE @]

\* mutant: the idempotency key does not stop a second insert
InsertTask_Always(l) ==
  tasks' = tasks \cup {[s |-> loop[l].s, fire |-> loop[l].copy.next, rev |-> loop[l].copy.rev,
                        at |-> loop[l].moment]}

(* _insert_task: ON CONFLICT DO NOTHING on schedule:<id>:<fire time>; the  *)
(* input and the route are those of the copy.                              *)
InsertTask(l) ==
  LET s == loop[l].s  c == loop[l].copy IN
  tasks' = IF \E k \in tasks : k.s = s /\ k.fire = c.next THEN tasks
           ELSE tasks \cup {[s |-> s, fire |-> c.next, rev |-> c.rev, at |-> loop[l].moment]}

Done(l) ==
  /\ Hold(l, [loop[l] EXCEPT !.phase = "round", !.s = None, !.copy = Absent])
  /\ UNCHANGED <<now, zone, resumed>>

Misfired(l) == loop[l].copy.next < loop[l].moment - Grace

\* fire: the definition resolved and has the Skill
Fire(l) ==
  /\ loop[l].phase = "chosen" /\ ~Misfired(l)
  /\ LockClaim(l)
  /\ InsertTask(l)
  /\ Advance(l, TRUE)
  /\ Done(l)

(* _skip, _record_skip: misfired, or not resolved, without the Skill or    *)
(* with a snapshot that is rejected, which can happen at any time.         *)
Skip(l) ==
  /\ loop[l].phase = "chosen"
  /\ LockClaim(l)
  /\ Advance(l, FALSE)
  /\ UNCHANGED tasks
  /\ Done(l)

\* Somebody changed the row after it was chosen
Superseded(l) ==
  /\ loop[l].phase = "chosen" /\ ~LockClaim(l)
  /\ UNCHANGED <<row, tasks>>
  /\ Done(l)

\* The settings cannot be read: the row is left for the next round
Drop(l) ==
  /\ loop[l].phase = "chosen"
  /\ UNCHANGED <<row, tasks>>
  /\ Done(l)

Crash(l) ==
  /\ loop[l].phase # "idle"
  /\ Hold(l, Asleep)
  /\ UNCHANGED <<now, zone, row, tasks, resumed>>

Call(s) ==
  Create(s) \/ Edit(s) \/ Reschedule(s) \/ Pause(s) \/ Resume(s) \/ Delete(s)

Handle(l) == Fire(l) \/ Skip(l) \/ Superseded(l)

Next ==
  \/ Tick
  \/ \E s \in Sched : Call(s)
  \/ \E l \in Loop :
       \/ Begin(l) \/ EndRound(l) \/ Handle(l) \/ Drop(l) \/ Crash(l)
       \/ \E s \in Sched : Choose(l, s)

Spec == Init /\ [][Next]_vars

(* A loop polls for ever and finishes what it started unless it crashes or *)
(* the settings cannot be read; neither happens every time.                *)
FairSpec ==
  /\ Spec /\ WF_vars(Tick)
  /\ \A l \in Loop :
       /\ WF_vars(Begin(l)) /\ WF_vars(EndRound(l)) /\ SF_vars(Handle(l))
       /\ \A s \in Sched : SF_vars(Choose(l, s))

-----------------------------------------------------------------------------
(* Properties. *)

Times == {None} \cup RunTimes \cup 0..(MaxTime + FoldLen + Period)

Rows == [status : {"ABSENT", "ACTIVE", "PAUSED"} \cup Terminal, deleted : BOOLEAN,
         kind : {"CRON", "ONCE"}, runAt : {None} \cup RunTimes, next : Times,
         rev : 0..MaxRev, last : Times]

\* Every variable keeps its type, and a row is over exactly when it has no next time.
TypeOK ==
  /\ now \in Time /\ zone \in {"plain", "fold"}
  /\ row \in [Sched -> Rows]
  /\ \A k \in tasks : k.s \in Sched /\ k.fire \in Times \ {None} /\ k.rev \in 1..MaxRev
                      /\ k.at \in Time
  /\ \A l \in Loop : /\ loop[l].phase \in {"idle", "round", "chosen"}
                     /\ loop[l].moment \in Time /\ loop[l].seen \subseteq Sched
                     /\ loop[l].s \in Sched \cup {None} /\ loop[l].copy \in Rows
  /\ resumed \in [Sched -> Time]
  /\ \A s \in Sched : (row[s].next = None) <=> (row[s].status \in Terminal \cup {"ABSENT"})

(* A fire time makes one task, whatever the number of loops, whoever       *)
(* pauses, resumes or reschedules, and however often the local clock       *)
(* passes it.                                                              *)
OneTaskPerFire ==
  \A j, k \in tasks : (j.s = k.s /\ j.fire = k.fire) => j = k

(* A task is made only of what the schedule is at that moment: not paused, *)
(* not deleted, of its current revision and due at that very time, even    *)
(* though the loop decided on a copy read before the network calls.        *)
TaskFollowsItsSchedule ==
  [][\A k \in tasks' \ tasks :
       /\ row[k.s].status = "ACTIVE" /\ ~row[k.s].deleted
       /\ k.rev = row[k.s].rev /\ k.fire = row[k.s].next]_vars

(* What a CRON schedule missed while it was paused is not made up for: a   *)
(* loop that chose the row before the pause, or late, fires nothing of     *)
(* that time.                                                              *)
PauseIsNotMadeUpFor ==
  [][\A k \in tasks' \ tasks :
       (zone = "plain" /\ row[k.s].kind = "CRON" /\ resumed[k.s] > 0)
         => k.fire > resumed[k.s]]_vars

(* Outside the repeated hour a CRON schedule that was handled is next due  *)
(* after the round that handled it: no fire time is handled in every       *)
(* round.                                                                  *)
HandledMovesOn ==
  [][\A l \in Loop :
       (Handle(l) /\ row' # row /\ ~Repeated(loop[l].moment) /\ loop[l].copy.kind = "CRON")
         => row'[loop[l].s].next > loop[l].moment]_vars

\* A ONCE schedule counts as completed only when the task of its time exists.
CompletedRan ==
  \A s \in Sched :
    row[s].status = "COMPLETED" => \E k \in tasks : k.s = s /\ k.fire = row[s].last

(* Every variable keeps its type, and over all loops and changes of a      *)
(* schedule a fire time makes one task, a completed ONCE schedule its own. *)
Inv == TypeOK /\ OneTaskPerFire /\ CompletedRan

(* No schedule stays due: whatever the loops hold, drop or lose in a       *)
(* crash, its time is handled, unless somebody pauses, deletes or moves    *)
(* it.  Only in the repeated hour is the time it moves on to past again.   *)
DueIsHandled ==
  \A s \in Sched : []<>(zone = "plain" => ~Due(s, now))
=============================================================================
