--------------------------- MODULE ScheduleProofs ---------------------------
(***************************************************************************)
(* Proofs about Schedule, for any schedules, loops, period and repeated    *)
(* hour.  Two facts carry them: the next wall-clock time lies after the    *)
(* one it is searched from (outside the repeated hour), and what a loop    *)
(* holds was due when its round began.                                     *)
(***************************************************************************)
EXTENDS Schedule, TLAPS

-----------------------------------------------------------------------------
(* Fire times. *)

LEMMA Clock ==
  /\ Period \in Nat /\ Period > 0 /\ FoldAt \in Nat /\ FoldLen \in Nat /\ FoldLen <= FoldAt
  /\ MaxTime \in Nat /\ MaxRev \in Nat /\ MaxRev > 0
  /\ RunTimes \subseteq Nat /\ None \notin Nat /\ None \notin Sched
BY ScheduleAssumption

\* The next multiple of the period lies after the time, by at most a period
LEMMA NextMultiple ==
  ASSUME NEW a \in Nat
  PROVE  /\ (a \div Period + 1) * Period \in Nat
         /\ (a \div Period + 1) * Period > a
         /\ (a \div Period + 1) * Period <= a + Period
<1> DEFINE q == a \div Period
<1>1. Period \in Nat /\ Period > 0
  BY Clock
<1>2. q \in Nat /\ a = (Period * q) + (a % Period) /\ a % Period \in 0..(Period - 1)
  BY <1>1
<1>3. (q + 1) * Period = Period * q + Period
  BY <1>1, <1>2
<1> QED BY <1>1, <1>2, <1>3

\* _next_cron_fire moves on, except from within the repeated hour
LEMMA NextCronMovesOn ==
  ASSUME NEW t \in Time, zone \in {"plain", "fold"}
  PROVE  /\ NextCron(t) \in 0..(MaxTime + FoldLen + Period)
         /\ ~Repeated(t) => NextCron(t) > t
<1>1. t \in Nat /\ t <= MaxTime
  BY Clock DEF Time
<1>2. Local(t) \in Nat /\ Local(t) <= t
  BY <1>1, Clock DEF Local
<1> DEFINE n == (Local(t) \div Period + 1) * Period
<1>3. n \in Nat /\ n > Local(t) /\ n <= Local(t) + Period /\ NextCron(t) = Attach(n)
  BY <1>2, NextMultiple DEF NextCron
<1> HIDE DEF n
<1>4. NextCron(t) \in 0..(MaxTime + FoldLen + Period)
  BY <1>1, <1>2, <1>3, Clock DEF Attach
<1>5. ASSUME ~Repeated(t)
      PROVE  NextCron(t) > t
  BY <1>1, <1>2, <1>3, <1>5, Clock DEF Attach, Local, Repeated
<1> QED BY <1>4, <1>5

-----------------------------------------------------------------------------
(* The inductive invariant. *)

LoopType == [phase : {"idle", "round", "chosen"}, moment : Time, seen : SUBSET Sched,
             s : Sched \cup {None}, copy : Rows]

Over(r) == r.status \in Terminal \cup {"ABSENT"}

\* A row on its own: its type, and the kind decides which time it has
RowOK(r) ==
  /\ r \in Rows
  /\ (r.next = None) <=> Over(r)
  /\ r.kind = "ONCE" => r.runAt \in RunTimes
  /\ r.status # "ABSENT" => r.rev >= 1

\* A CRON schedule is next due after it was last resumed
AfterResume(s) ==
  (zone = "plain" /\ row[s].kind = "CRON" /\ row[s].next # None) => row[s].next > resumed[s]

Ran(s) == row[s].status = "COMPLETED" => \E k \in tasks : k.s = s /\ k.fire = row[s].last

RowPart ==
  /\ row \in [Sched -> Rows]
  /\ \A s \in Sched : RowOK(row[s]) /\ AfterResume(s) /\ Ran(s)

ClockPart ==
  /\ now \in Time /\ zone \in {"plain", "fold"} /\ resumed \in [Sched -> Time]
  /\ \A s \in Sched : resumed[s] <= now

TaskPart ==
  /\ \A k \in tasks : k.s \in Sched /\ k.fire \in Times \ {None} /\ k.rev \in 1..MaxRev /\ k.at \in Time
  /\ OneTaskPerFire

\* What a loop has chosen was due when its round began
LoopPart ==
  /\ loop \in [Loop -> LoopType]
  /\ \A l \in Loop : loop[l].phase = "chosen" =>
       /\ loop[l].s \in Sched
       /\ loop[l].copy.next # None /\ loop[l].copy.next <= loop[l].moment

IInv == RowPart /\ ClockPart /\ TaskPart /\ LoopPart

LEMMA TimesAreNumbers ==
  /\ \A t \in Times : t # None => t \in Nat
  /\ \A t \in Time : t \in Nat /\ t \in Times /\ t # None
  /\ \A t \in 0..(MaxTime + FoldLen + Period) : t \in Times /\ t \in Nat /\ t # None
  /\ \A t \in RunTimes : t \in Times /\ t \in Nat /\ t # None
  /\ None \in Times
<1>2. \A t \in 0..(MaxTime + FoldLen + Period) : t \in Times /\ t \in Nat /\ t # None
  BY Clock DEF Times
<1>3. \A t \in Time : t \in 0..(MaxTime + FoldLen + Period)
  BY Clock DEF Time
<1>4. \A t \in RunTimes : t \in Times /\ t \in Nat /\ t # None
  BY Clock DEF Times
<1>5. \A t \in Times : t # None => t \in Nat
  BY <1>2, <1>4 DEF Times
<1> QED BY <1>2, <1>3, <1>4, <1>5 DEF Times

LEMMA IInvImpliesInv == IInv => Inv
<1> SUFFICES ASSUME IInv PROVE Inv
  OBVIOUS
<1>1. \A l \in Loop : /\ loop[l].phase \in {"idle", "round", "chosen"}
                      /\ loop[l].moment \in Time /\ loop[l].seen \subseteq Sched
                      /\ loop[l].s \in Sched \cup {None} /\ loop[l].copy \in Rows
  BY DEF IInv, LoopPart, LoopType
<1>2. TypeOK
  BY <1>1 DEF IInv, RowPart, ClockPart, TaskPart, TypeOK, RowOK, Over
<1>3. OneTaskPerFire /\ CompletedRan
  BY DEF IInv, RowPart, TaskPart, CompletedRan, Ran
<1> QED BY <1>2, <1>3 DEF Inv

LEMMA InitHolds == Init => IInv
<1> SUFFICES ASSUME Init PROVE IInv
  OBVIOUS
<1>1. /\ Absent.status = "ABSENT" /\ Absent.next = None /\ Absent.kind = "CRON"
      /\ Absent \in Rows
  BY Clock, TimesAreNumbers DEF Absent, Rows
<1>2. Asleep.phase = "idle" /\ Asleep \in LoopType
  BY <1>1, Clock DEF Asleep, LoopType, Time
<1>3. RowPart
  BY <1>1 DEF Init, RowPart, RowOK, Over, AfterResume, Ran, Terminal
<1>4. ClockPart
  BY Clock DEF Init, ClockPart, Time
<1>5. TaskPart
  BY DEF Init, TaskPart, OneTaskPerFire
<1>6. LoopPart
  BY <1>2 DEF Init, LoopPart
<1> QED BY <1>3, <1>4, <1>5, <1>6 DEF IInv

-----------------------------------------------------------------------------
(* Writing a row. *)

\* The new row of s is sound together with what the step says of s
Writes(s, r) ==
  /\ row' = [row EXCEPT ![s] = r]
  /\ RowOK(r)
  /\ zone = "plain" /\ r.kind = "CRON" /\ r.next # None => r.next > resumed'[s]
  /\ r.status = "COMPLETED" => \E k \in tasks' : k.s = s /\ k.fire = r.last

LEMMA WriteKeeps ==
  ASSUME IInv, NEW s \in Sched, NEW r, Writes(s, r), zone' = zone, tasks \subseteq tasks',
         \A o \in Sched \ {s} : resumed'[o] = resumed[o]
  PROVE  RowPart'
<1>1. row \in [Sched -> Rows] /\ \A o \in Sched : RowOK(row[o]) /\ AfterResume(o) /\ Ran(o)
  BY DEF IInv, RowPart
<1>2. row' = [row EXCEPT ![s] = r] /\ r \in Rows
  BY DEF Writes, RowOK
<1>3. row' \in [Sched -> Rows] /\ row'[s] = r /\ \A o \in Sched \ {s} : row'[o] = row[o]
  BY <1>1, <1>2
<1>4. ASSUME NEW o \in Sched
      PROVE  RowOK(row'[o]) /\ AfterResume(o)' /\ Ran(o)'
  <2>1. CASE o = s
    BY <1>3, <2>1 DEF Writes, AfterResume, Ran
  <2>2. CASE o # s
    BY <1>1, <1>3, <2>2 DEF AfterResume, Ran
  <2> QED BY <2>1, <2>2
<1> QED BY <1>3, <1>4 DEF RowPart, RowOK, Over

\* The fire time of a new or rescheduled row
LEMMA FireTime ==
  ASSUME IInv, NEW kind, NEW runAt, \/ kind = "CRON" /\ runAt = None
                                    \/ kind = "CRON" /\ runAt \in RunTimes
                                    \/ kind = "ONCE" /\ runAt \in RunTimes
  PROVE  /\ NextFire(kind, runAt, now) \in Times \ {None}
         /\ zone = "plain" /\ kind = "CRON" => NextFire(kind, runAt, now) > now
<1>1. now \in Time /\ zone \in {"plain", "fold"} /\ Time \subseteq Nat
  BY TimesAreNumbers DEF IInv, ClockPart
<1>2. CASE kind = "CRON"
  <2>1. NextCron(now) \in 0..(MaxTime + FoldLen + Period) /\ (~Repeated(now) => NextCron(now) > now)
    BY <1>1, NextCronMovesOn
  <2>2. zone = "plain" => ~Repeated(now)
    BY DEF Repeated
  <2>3. NextCron(now) # None
    BY <2>1, Clock
  <2> QED BY <1>2, <2>1, <2>2, <2>3, TimesAreNumbers DEF NextFire
<1>3. CASE kind = "ONCE"
  BY <1>3, TimesAreNumbers, Clock DEF NextFire
<1> QED BY <1>2, <1>3

\* A call changes one row and no task
\* What each call makes of the row of s
LEMMA CallWrites ==
  ASSUME IInv, NEW s \in Sched, Call(s)
  PROVE  \E r : Writes(s, r)
<1>0. /\ row \in [Sched -> Rows] /\ row[s] \in Rows /\ RowOK(row[s]) /\ AfterResume(s) /\ Ran(s)
      /\ resumed[s] \in Nat /\ now \in Nat /\ resumed[s] <= now
      /\ resumed \in [Sched -> Time]
  BY TimesAreNumbers DEF IInv, RowPart, ClockPart
<1>1. tasks' = tasks
  BY DEF Call, Create, Edit, Reschedule, Pause, Resume, Delete, Change
<1>2. CASE Create(s)
  <2>1. PICK spec \in Specs :
          row' = [row EXCEPT ![s] =
                    [status |-> "ACTIVE", deleted |-> FALSE, kind |-> spec[1], runAt |-> spec[2],
                     next |-> NextFire(spec[1], spec[2], now), rev |-> 1, last |-> None]]
    BY <1>2 DEF Create, Change
  <2>2. (spec[1] = "CRON" /\ spec[2] = None) \/ (spec[1] = "ONCE" /\ spec[2] \in RunTimes)
    BY DEF Specs
  <2> DEFINE n == NextFire(spec[1], spec[2], now)
             r == [status |-> "ACTIVE", deleted |-> FALSE, kind |-> spec[1], runAt |-> spec[2],
                   next |-> n, rev |-> 1, last |-> None]
  <2>3. n \in Times \ {None} /\ n \in Nat /\ (zone = "plain" /\ spec[1] = "CRON" => n > now)
    BY <2>2, FireTime, TimesAreNumbers
  <2>4. row' = [row EXCEPT ![s] = r]
    BY <2>1
  <2> HIDE DEF n
  <2>5. RowOK(r)
    BY <2>2, <2>3, Clock, TimesAreNumbers DEF RowOK, Rows, Over, Terminal
  <2>6. zone = "plain" /\ spec[1] = "CRON" => n > resumed'[s]
    BY <1>0, <1>2, <2>3 DEF Create
  <2>7. Writes(s, r)
    BY <2>4, <2>5, <2>6 DEF Writes
  <2> QED BY <2>7
<1>3. CASE Reschedule(s)
  <2>1. PICK spec \in Specs :
          row' = [row EXCEPT ![s] = [row[s] EXCEPT !.rev = row[s].rev + 1, !.kind = spec[1], !.runAt = spec[2],
                                                   !.next = NextFire(spec[1], spec[2], now)]]
    BY <1>3 DEF Reschedule, Change
  <2>2. (spec[1] = "CRON" /\ spec[2] = None) \/ (spec[1] = "ONCE" /\ spec[2] \in RunTimes)
    BY DEF Specs
  <2> DEFINE n == NextFire(spec[1], spec[2], now)
             r == [row[s] EXCEPT !.rev = row[s].rev + 1, !.kind = spec[1], !.runAt = spec[2], !.next = n]
  <2>3. n \in Times \ {None} /\ n \in Nat /\ (zone = "plain" /\ spec[1] = "CRON" => n > now)
    BY <2>2, FireTime, TimesAreNumbers
  <2>4. row' = [row EXCEPT ![s] = r]
    BY <2>1
  <2>5. row[s].status \notin Terminal \cup {"ABSENT"} /\ row[s].rev < MaxRev
    BY <1>3 DEF Reschedule, Present
  <2> HIDE DEF n
  <2>6. /\ r \in Rows /\ r.status = row[s].status /\ r.kind = spec[1] /\ r.runAt = spec[2] /\ r.next = n
        /\ r.rev >= 1
    <3>1. row[s].rev + 1 \in 0..MaxRev /\ row[s].rev + 1 >= 1
      BY <1>0, <2>5, Clock DEF Rows
    <3>2. spec[1] \in {"CRON", "ONCE"} /\ spec[2] \in {None} \cup RunTimes
      BY <2>2
    <3> QED BY <1>0, <2>3, <3>1, <3>2 DEF Rows
  <2>7. zone = "plain" /\ spec[1] = "CRON" => n > resumed'[s]
    BY <1>0, <1>3, <2>3 DEF Reschedule
  <2> HIDE DEF r
  <2>8. Writes(s, r)
    BY <2>2, <2>3, <2>4, <2>5, <2>6, <2>7 DEF Writes, RowOK, Over, Terminal
  <2> QED BY <2>8
<1>4. CASE Resume(s)
  <2> DEFINE n == NextFire(row[s].kind, row[s].runAt, now)
             r == [row[s] EXCEPT !.status = "ACTIVE", !.next = n]
  <2>1. n \in Times \ {None} /\ n \in Nat /\ (zone = "plain" /\ row[s].kind = "CRON" => n > now)
    <3>1. \/ row[s].kind = "CRON" /\ row[s].runAt = None
          \/ row[s].kind = "CRON" /\ row[s].runAt \in RunTimes
          \/ row[s].kind = "ONCE" /\ row[s].runAt \in RunTimes
      BY <1>0 DEF RowOK, Rows
    <3> QED BY <3>1, FireTime, TimesAreNumbers
  <2>2. row' = [row EXCEPT ![s] = r] /\ row[s].status = "PAUSED"
    BY <1>4 DEF Resume, Change
  <2> HIDE DEF n
  <2>3. /\ r \in Rows /\ r.status = "ACTIVE" /\ r.kind = row[s].kind /\ r.runAt = row[s].runAt /\ r.next = n
        /\ r.rev = row[s].rev
    BY <1>0, <2>1 DEF Rows
  <2>4. zone = "plain" /\ row[s].kind = "CRON" => n > resumed'[s]
    BY <1>0, <1>4, <2>1 DEF Resume
  <2> HIDE DEF r
  <2>5. Writes(s, r)
    BY <1>0, <2>1, <2>2, <2>3, <2>4 DEF Writes, RowOK, Over, Terminal
  <2> QED BY <2>5
<1>5. ASSUME NEW r \in Rows, row' = [row EXCEPT ![s] = r], resumed' = resumed,
             r.kind = row[s].kind, r.runAt = row[s].runAt, r.next = row[s].next, r.last = row[s].last,
             r.rev >= 1 \/ r.rev = row[s].rev,
             r.status = row[s].status \/ (r.status = "PAUSED" /\ row[s].status = "ACTIVE")
      PROVE  Writes(s, r)
  BY <1>0, <1>1, <1>5 DEF Writes, RowOK, Over, Terminal, AfterResume, Ran
<1>6. CASE Edit(s)
  <2> DEFINE r == [row[s] EXCEPT !.rev = row[s].rev + 1]
  <2>1. row' = [row EXCEPT ![s] = r] /\ resumed' = resumed /\ row[s].rev < MaxRev
    BY <1>6 DEF Edit, Change
  <2>2. /\ r \in Rows /\ r.kind = row[s].kind /\ r.runAt = row[s].runAt /\ r.next = row[s].next
        /\ r.last = row[s].last /\ r.rev >= 1 /\ r.status = row[s].status
    BY <1>0, <2>1, Clock DEF Rows
  <2> HIDE DEF r
  <2> QED BY <1>5, <2>1, <2>2
<1>7. CASE Pause(s)
  <2> DEFINE r == [row[s] EXCEPT !.status = "PAUSED"]
  <2>1. row' = [row EXCEPT ![s] = r] /\ resumed' = resumed /\ row[s].status = "ACTIVE"
    BY <1>7 DEF Pause, Change
  <2>2. /\ r \in Rows /\ r.kind = row[s].kind /\ r.runAt = row[s].runAt /\ r.next = row[s].next
        /\ r.last = row[s].last /\ r.rev = row[s].rev /\ r.status = "PAUSED"
    BY <1>0 DEF Rows
  <2> HIDE DEF r
  <2> QED BY <1>5, <2>1, <2>2
<1>8. CASE Delete(s)
  <2> DEFINE r == [row[s] EXCEPT !.deleted = TRUE]
  <2>1. row' = [row EXCEPT ![s] = r] /\ resumed' = resumed
    BY <1>8 DEF Delete, Change
  <2>2. /\ r \in Rows /\ r.kind = row[s].kind /\ r.runAt = row[s].runAt /\ r.next = row[s].next
        /\ r.last = row[s].last /\ r.rev = row[s].rev /\ r.status = row[s].status
    BY <1>0 DEF Rows
  <2> HIDE DEF r
  <2> QED BY <1>5, <2>1, <2>2
<1> QED BY <1>2, <1>3, <1>4, <1>6, <1>7, <1>8 DEF Call

LEMMA CallKeeps ==
  ASSUME IInv, NEW s \in Sched, Call(s)
  PROVE  IInv'
<1>1. UNCHANGED <<now, zone, tasks, loop>>
  BY DEF Call, Create, Edit, Reschedule, Pause, Resume, Delete, Change
<1>2. resumed' = resumed \/ resumed' = [resumed EXCEPT ![s] = now]
  BY DEF Call, Create, Edit, Reschedule, Pause, Resume, Delete
<1>3. ClockPart'
  BY <1>1, <1>2, TimesAreNumbers DEF IInv, ClockPart
<1>4. RowPart'
  <2>1. \A o \in Sched \ {s} : resumed'[o] = resumed[o]
    BY <1>2 DEF IInv, ClockPart
  <2> QED BY <1>1, <2>1, CallWrites, WriteKeeps
<1>5. TaskPart' /\ LoopPart'
  BY <1>1 DEF IInv, TaskPart, LoopPart, OneTaskPerFire
<1> QED BY <1>3, <1>4, <1>5 DEF IInv

-----------------------------------------------------------------------------
(* What a loop does. *)

\* The value it holds next is sound
LoopMoves(l) ==
  \E r \in LoopType :
    /\ loop' = [loop EXCEPT ![l] = r]
    /\ r.phase = "chosen" => r.s \in Sched /\ r.copy.next # None /\ r.copy.next <= r.moment

LEMMA LoopMoveKeeps ==
  ASSUME LoopPart, NEW l \in Loop, LoopMoves(l)
  PROVE  LoopPart'
BY DEF LoopPart, LoopMoves

LEMMA LoopTypes ==
  ASSUME IInv, NEW l \in Loop
  PROVE  /\ loop[l] \in LoopType /\ loop[l].moment \in Time /\ loop[l].copy \in Rows
         /\ loop[l].seen \subseteq Sched /\ Asleep \in LoopType /\ Asleep.phase = "idle" /\ Absent \in Rows
<1>1. loop[l] \in LoopType
  BY DEF IInv, LoopPart
<1>2. Absent \in Rows
  BY Clock, TimesAreNumbers DEF Absent, Rows
<1>3. Asleep \in LoopType /\ Asleep.phase = "idle"
  BY <1>2, Clock DEF Asleep, LoopType, Time
<1> QED BY <1>1, <1>2, <1>3 DEF LoopType

\* A loop that only looks
LEMMA LookingKeeps ==
  ASSUME IInv, NEW l \in Loop,
         Begin(l) \/ EndRound(l) \/ Crash(l) \/ \E s \in Sched : Choose(l, s)
  PROVE  IInv'
<1>1. UNCHANGED <<now, zone, row, tasks, resumed>>
  BY DEF Begin, EndRound, Crash, Choose
<1>2. LoopMoves(l)
  <2>1. CASE Begin(l)
    <3> DEFINE r == [Asleep EXCEPT !.phase = "round", !.moment = now]
    <3>1. r \in LoopType /\ r.phase = "round"
      BY LoopTypes DEF Asleep, LoopType, IInv, ClockPart
    <3> QED BY <2>1, <3>1 DEF Begin, Hold, LoopMoves
  <2>2. CASE EndRound(l) \/ Crash(l)
    BY <2>2, LoopTypes DEF EndRound, Crash, Hold, LoopMoves
  <2>3. ASSUME NEW s \in Sched, Choose(l, s)
        PROVE  LoopMoves(l)
    <3> DEFINE r == [loop[l] EXCEPT !.phase = "chosen", !.s = s, !.copy = row[s], !.seen = loop[l].seen \cup {s}]
    <3>1. loop' = [loop EXCEPT ![l] = r] /\ row[s].next # None /\ row[s].next <= loop[l].moment
      BY <2>3 DEF Choose, Hold, Due
    <3>2. loop[l] \in LoopType /\ loop[l].seen \cup {s} \subseteq Sched /\ row[s] \in Rows
      BY LoopTypes DEF IInv, RowPart
    <3>3. r \in LoopType /\ r.s = s /\ r.copy = row[s] /\ r.moment = loop[l].moment
      BY <3>2 DEF LoopType
    <3> HIDE DEF r
    <3> QED BY <3>1, <3>3 DEF LoopMoves
  <2> QED BY <2>1, <2>2, <2>3
<1>3. LoopPart'
  BY <1>2, LoopMoveKeeps DEF IInv
<1>4. RowPart' /\ ClockPart' /\ TaskPart'
  BY <1>1 DEF IInv, RowPart, ClockPart, TaskPart, AfterResume, Ran, OneTaskPerFire
<1> QED BY <1>3, <1>4 DEF IInv

LEMMA DoneMoves ==
  ASSUME IInv, NEW l \in Loop, Done(l)
  PROVE  LoopPart' /\ UNCHANGED <<now, zone, resumed>>
<1> DEFINE r == [loop[l] EXCEPT !.phase = "round", !.s = None, !.copy = Absent]
<1>1. r \in LoopType /\ r.phase = "round"
  BY LoopTypes DEF LoopType
<1>2. loop' = [loop EXCEPT ![l] = r]
  BY DEF Done, Hold
<1> HIDE DEF r
<1> QED BY <1>1, <1>2, LoopMoveKeeps DEF LoopMoves, IInv, Done

\* What a loop knows once _lock_claim said yes
LEMMA Claimed ==
  ASSUME IInv, NEW l \in Loop, loop[l].phase = "chosen", LockClaim(l)
  PROVE  LET s == loop[l].s  c == loop[l].copy IN
         /\ s \in Sched /\ row[s] \in Rows /\ RowOK(row[s]) /\ AfterResume(s)
         /\ row[s].status = "ACTIVE" /\ ~row[s].deleted /\ c.rev = row[s].rev
         /\ c.next = row[s].next /\ c.next # None /\ c.next \in Times /\ c.next \in Nat
         /\ loop[l].moment \in Time /\ loop[l].moment \in Nat /\ c.next <= loop[l].moment
         /\ resumed[s] \in Nat
<1>1. loop[l].s \in Sched /\ loop[l].copy.next # None /\ loop[l].copy.next <= loop[l].moment
  BY DEF IInv, LoopPart
<1>2. row[loop[l].s] \in Rows /\ RowOK(row[loop[l].s]) /\ AfterResume(loop[l].s)
  BY <1>1 DEF IInv, RowPart
<1>3. loop[l].copy.next \in Times /\ loop[l].copy.next \in Nat
  BY <1>1, LoopTypes, TimesAreNumbers DEF Rows
<1>4. loop[l].moment \in Time /\ loop[l].moment \in Nat /\ resumed[loop[l].s] \in Nat
  BY <1>1, LoopTypes, TimesAreNumbers DEF IInv, ClockPart
<1> QED BY <1>1, <1>2, <1>3, <1>4 DEF LockClaim, Present

\* _advance, under the lock
LEMMA AdvanceWrites ==
  ASSUME IInv, NEW l \in Loop, loop[l].phase = "chosen", LockClaim(l), NEW fired \in BOOLEAN,
         Advance(l, fired), UNCHANGED <<zone, resumed>>,
         fired => \E k \in tasks' : k.s = loop[l].s /\ k.fire = loop[l].copy.next
  PROVE  \E r : /\ Writes(loop[l].s, r)
                /\ loop[l].copy.kind = "CRON" => r.next = NextCron(loop[l].moment)
<1> DEFINE s == loop[l].s
           c == loop[l].copy
           n == IF c.kind = "CRON" THEN NextCron(loop[l].moment) ELSE None
           status == IF c.kind = "CRON" THEN row[s].status ELSE IF fired THEN "COMPLETED" ELSE "MISSED"
           last == IF fired THEN c.next ELSE row[s].last
           r == [row[s] EXCEPT !.status = status, !.next = n, !.last = last]
<1>1. /\ s \in Sched /\ row[s] \in Rows /\ RowOK(row[s]) /\ AfterResume(s)
      /\ row[s].status = "ACTIVE" /\ c.next = row[s].next /\ c.next # None /\ c.next \in Times
      /\ c.next \in Nat /\ loop[l].moment \in Time /\ loop[l].moment \in Nat /\ c.next <= loop[l].moment
      /\ resumed[s] \in Nat
  BY Claimed
<1>2. row' = [row EXCEPT ![s] = r]
  <2>1. row \in [Sched -> Rows]
    BY DEF IInv, RowPart
  <2> QED BY <1>1, <2>1 DEF Advance, Rows
<1>3. c.kind = "CRON" => n \in Times /\ n \in Nat /\ n # None /\ (zone = "plain" => n > loop[l].moment)
  <2>1. zone = "plain" => ~Repeated(loop[l].moment)
    BY DEF Repeated
  <2> QED BY <1>1, <2>1, NextCronMovesOn, TimesAreNumbers DEF IInv, ClockPart
<1>4. n \in Times
  BY <1>3, TimesAreNumbers
<1>5. status \in {"ACTIVE", "COMPLETED", "MISSED"} /\ last \in Times
  BY <1>1 DEF Rows
<1> HIDE DEF n, last, status
<1>6. /\ r \in Rows /\ r.status = status /\ r.next = n /\ r.last = last /\ r.kind = row[s].kind
      /\ r.runAt = row[s].runAt /\ r.rev = row[s].rev
  BY <1>1, <1>4, <1>5 DEF Rows, Terminal
<1> HIDE DEF r, s, c
<1>7. RowOK(r)
  BY <1>1, <1>3, <1>6 DEF RowOK, Over, Terminal, n, status
<1>8. zone = "plain" /\ r.kind = "CRON" /\ r.next # None => r.next > resumed'[s]
  BY <1>1, <1>3, <1>6 DEF AfterResume, n
<1>9. r.status = "COMPLETED" => \E k \in tasks' : k.s = s /\ k.fire = r.last
  BY <1>1, <1>6 DEF status, last, s, c
<1>10. c.kind = "CRON" => r.next = NextCron(loop[l].moment)
  BY <1>6 DEF n
<1> QED BY <1>2, <1>7, <1>8, <1>9, <1>10 DEF Writes, s, c

LEMMA FireWrites ==
  ASSUME IInv, NEW l \in Loop, Fire(l)
  PROVE  /\ \E r : /\ Writes(loop[l].s, r)
                   /\ loop[l].copy.kind = "CRON" => r.next = NextCron(loop[l].moment)
         /\ tasks \subseteq tasks'
         /\ \A k \in tasks' \ tasks : k = [s |-> loop[l].s, fire |-> loop[l].copy.next,
                                           rev |-> loop[l].copy.rev, at |-> loop[l].moment]
         /\ TaskPart'
<1> DEFINE t == [s |-> loop[l].s, fire |-> loop[l].copy.next, rev |-> loop[l].copy.rev,
                 at |-> loop[l].moment]
<1>1. /\ loop[l].phase = "chosen" /\ LockClaim(l) /\ InsertTask(l) /\ Advance(l, TRUE) /\ Done(l)
      /\ UNCHANGED <<zone, resumed>>
  BY DEF Fire, Done
<1>2. /\ tasks' = tasks \/ tasks' = tasks \cup {t}
      /\ tasks' = tasks => \E k \in tasks : k.s = t.s /\ k.fire = t.fire
      /\ tasks' # tasks => ~\E k \in tasks : k.s = t.s /\ k.fire = t.fire
  BY <1>1 DEF InsertTask
<1>3. /\ t.s = loop[l].s /\ t.fire = loop[l].copy.next /\ t.rev = loop[l].copy.rev
      /\ t.at = loop[l].moment
  OBVIOUS
<1> HIDE DEF t
<1>4. \E k \in tasks' : k.s = loop[l].s /\ k.fire = loop[l].copy.next
  BY <1>2, <1>3
<1>5. t.s \in Sched /\ t.fire \in Times \ {None} /\ t.rev \in 1..MaxRev /\ t.at \in Time
  <2>1. /\ loop[l].s \in Sched /\ row[loop[l].s] \in Rows /\ row[loop[l].s].rev >= 1
        /\ loop[l].copy.rev = row[loop[l].s].rev
        /\ loop[l].copy.next \in Times \ {None} /\ loop[l].moment \in Time
    BY <1>1, Claimed DEF RowOK
  <2>2. row[loop[l].s].rev \in 1..MaxRev
    BY <2>1, Clock DEF Rows
  <2> QED BY <1>3, <2>1, <2>2
<1>6. TaskPart'
  BY <1>2, <1>5 DEF IInv, TaskPart, OneTaskPerFire
<1>7. \E r : /\ Writes(loop[l].s, r)
             /\ loop[l].copy.kind = "CRON" => r.next = NextCron(loop[l].moment)
  BY <1>1, <1>4, AdvanceWrites
<1>8. tasks \subseteq tasks' /\ \A k \in tasks' \ tasks : k = t
  BY <1>2
<1> QED BY <1>6, <1>7, <1>8 DEF t

\* A loop that is done with what it chose
LEMMA HandlingKeeps ==
  ASSUME IInv, NEW l \in Loop, Handle(l) \/ Drop(l)
  PROVE  IInv'
<1>1. Done(l) /\ loop[l].phase = "chosen"
  BY DEF Handle, Fire, Skip, Superseded, Drop
<1>2. LoopPart' /\ UNCHANGED <<now, zone, resumed>>
  BY <1>1, DoneMoves
<1>3. ClockPart'
  BY <1>2 DEF IInv, ClockPart
<1>4. loop[l].s \in Sched
  BY <1>1 DEF IInv, LoopPart
<1>5. CASE Fire(l)
  <2>1. RowPart'
    BY <1>2, <1>4, <1>5, FireWrites, WriteKeeps
  <2> QED BY <1>2, <1>3, <1>5, <2>1, FireWrites DEF IInv
<1>6. CASE Skip(l)
  <2>1. \E r : Writes(loop[l].s, r)
    BY <1>2, <1>6, AdvanceWrites DEF Skip
  <2>2. tasks' = tasks
    BY <1>6 DEF Skip
  <2>3. RowPart'
    BY <1>2, <1>4, <2>1, <2>2, WriteKeeps
  <2> QED BY <1>2, <1>3, <2>2, <2>3 DEF IInv, TaskPart, OneTaskPerFire
<1>7. CASE Superseded(l) \/ Drop(l)
  <2>1. UNCHANGED <<row, tasks>>
    BY <1>7 DEF Superseded, Drop
  <2> QED BY <1>2, <1>3, <2>1 DEF IInv, RowPart, TaskPart, OneTaskPerFire, AfterResume, Ran
<1> QED BY <1>5, <1>6, <1>7 DEF Handle

LEMMA TickKeeps ==
  ASSUME IInv, Tick
  PROVE  IInv'
<1>1. ClockPart'
  BY Clock DEF IInv, ClockPart, Tick, Time
<1> QED BY <1>1 DEF IInv, RowPart, TaskPart, LoopPart, OneTaskPerFire, AfterResume, Ran, Tick

LEMMA IInvHolds == Spec => []IInv
<1>1. IInv /\ [Next]_vars => IInv'
  <2>1. ASSUME IInv, UNCHANGED vars PROVE IInv'
    BY <2>1 DEF vars, IInv, RowPart, ClockPart, TaskPart, LoopPart, OneTaskPerFire, AfterResume, Ran
  <2> QED BY <2>1, TickKeeps, CallKeeps, LookingKeeps, HandlingKeeps DEF Next
<1> QED BY <1>1, InitHolds, PTL DEF Spec

-----------------------------------------------------------------------------
(* Over all loops and all changes of a schedule a fire time makes one      *)
(* task, a completed ONCE schedule has its own, and a row is over exactly  *)
(* when it has no next time (_insert_task, _advance).                      *)
THEOREM OneTaskForEachFire == Spec => []Inv
BY IInvHolds, IInvImpliesInv, PTL

\* Every new task is the one a loop fires
LEMMA NewTasks ==
  ASSUME IInv, [Next]_vars, NEW k \in tasks' \ tasks
  PROVE  \E l \in Loop : Fire(l) /\ k = [s |-> loop[l].s, fire |-> loop[l].copy.next,
                                         rev |-> loop[l].copy.rev, at |-> loop[l].moment]
<1>1. ASSUME tasks' = tasks PROVE FALSE
  BY <1>1
<1>2. \E l \in Loop : Fire(l)
  BY <1>1 DEF Next, vars, Tick, Call, Create, Edit, Reschedule, Pause, Resume, Delete, Change,
     Begin, EndRound, Handle, Skip, Superseded, Drop, Crash, Choose
<1> QED BY <1>2, FireWrites

(* The copy a loop read before the network calls decides nothing on its    *)
(* own: a task is made only of a schedule that is active and present under *)
(* the lock, of that revision and due at that very time (_lock_claim).     *)
THEOREM TasksFollowTheirSchedule == Spec => TaskFollowsItsSchedule
<1>1. IInv /\ [Next]_vars =>
        [\A k \in tasks' \ tasks :
           /\ row[k.s].status = "ACTIVE" /\ ~row[k.s].deleted
           /\ k.rev = row[k.s].rev /\ k.fire = row[k.s].next]_vars
  <2> SUFFICES ASSUME IInv, [Next]_vars, NEW k \in tasks' \ tasks
               PROVE  /\ row[k.s].status = "ACTIVE" /\ ~row[k.s].deleted
                      /\ k.rev = row[k.s].rev /\ k.fire = row[k.s].next
    OBVIOUS
  <2>1. PICK l \in Loop : Fire(l) /\ k = [s |-> loop[l].s, fire |-> loop[l].copy.next,
                                          rev |-> loop[l].copy.rev, at |-> loop[l].moment]
    BY NewTasks
  <2> QED BY <2>1 DEF Fire, LockClaim, Present
<1> QED BY <1>1, IInvHolds, PTL DEF Spec, TaskFollowsItsSchedule

(* What a CRON schedule missed while it was paused is not made up for, by  *)
(* a loop that chose the row before the pause neither: what it may still   *)
(* fire is due after the resumption (Resume, _lock_claim).                 *)
THEOREM PausesAreNotMadeUpFor == Spec => PauseIsNotMadeUpFor
<1>1. IInv /\ [Next]_vars =>
        [\A k \in tasks' \ tasks :
           (zone = "plain" /\ row[k.s].kind = "CRON" /\ resumed[k.s] > 0)
             => k.fire > resumed[k.s]]_vars
  <2> SUFFICES ASSUME IInv, [Next]_vars, NEW k \in tasks' \ tasks,
                      zone = "plain", row[k.s].kind = "CRON"
               PROVE  k.fire > resumed[k.s]
    OBVIOUS
  <2>1. PICK l \in Loop : Fire(l) /\ k = [s |-> loop[l].s, fire |-> loop[l].copy.next,
                                          rev |-> loop[l].copy.rev, at |-> loop[l].moment]
    BY NewTasks
  <2>2. k.s = loop[l].s /\ k.fire = loop[l].copy.next
    BY <2>1
  <2>3. AfterResume(k.s) /\ row[k.s].next = k.fire /\ k.fire # None
    BY <2>1, <2>2, Claimed DEF Fire
  <2> QED BY <2>3 DEF AfterResume
<1> QED BY <1>1, IInvHolds, PTL DEF Spec, PauseIsNotMadeUpFor

(* Outside the repeated hour a CRON schedule that was handled is next due  *)
(* after the round that handled it (_next_cron_fire, _advance).            *)
THEOREM HandledSchedulesMoveOn == Spec => HandledMovesOn
<1>1. IInv /\ [Next]_vars =>
        [\A l \in Loop :
           (Handle(l) /\ row' # row /\ ~Repeated(loop[l].moment) /\ loop[l].copy.kind = "CRON")
             => row'[loop[l].s].next > loop[l].moment]_vars
  <2> SUFFICES ASSUME IInv, NEW l \in Loop, Handle(l), row' # row, ~Repeated(loop[l].moment),
                      loop[l].copy.kind = "CRON"
               PROVE  row'[loop[l].s].next > loop[l].moment
    OBVIOUS
  <2>1. \E r : Writes(loop[l].s, r) /\ r.next = NextCron(loop[l].moment)
    <3>1. CASE Fire(l)
      BY <3>1, FireWrites
    <3>2. CASE Skip(l)
      BY <3>2, AdvanceWrites DEF Skip, Done
    <3> QED BY <3>1, <3>2 DEF Handle, Superseded
  <2>2. loop[l].s \in Sched /\ row \in [Sched -> Rows]
    BY DEF Handle, Fire, Skip, Superseded, IInv, LoopPart, RowPart
  <2>3. row'[loop[l].s].next = NextCron(loop[l].moment)
    BY <2>1, <2>2 DEF Writes
  <2>4. NextCron(loop[l].moment) > loop[l].moment
    BY LoopTypes, NextCronMovesOn DEF IInv, ClockPart
  <2> QED BY <2>3, <2>4
<1> QED BY <1>1, IInvHolds, PTL DEF Spec, HandledMovesOn
=============================================================================
