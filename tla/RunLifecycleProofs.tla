------------------------- MODULE RunLifecycleProofs -------------------------
(***************************************************************************)
(* Proofs about RunLifecycle, for any number of processes, runs, slots and *)
(* claims.  Everything that is said of the row rests on one classification *)
(* of the steps: a step admits a run, changes an open one, ends an open    *)
(* one, or leaves the rows and the counter of the user alone.              *)
(***************************************************************************)
EXTENDS RunLifecycle, FiniteSetTheorems, TLAPS

-----------------------------------------------------------------------------
(* Types, and the inductive invariant. *)

Whys == {"", "ERROR", "SHUTDOWN", "ABANDONED", "QUEUE_TIMEOUT", "DEADLINE"}

RowType == [status : Open \cup Terminal \cup {"NONE"}, why : Whys,
            epoch : 0..MaxEpoch, owner : Process \cup {None}, lease : BOOLEAN, cancel : BOOLEAN]
SegmentType == [at : {"none", "prep", "exec", "leaving"}, epoch : 0..MaxEpoch, cancelled : BOOLEAN]
ClaimType == [at : {"idle", "asked", "seeking", "has"}, excluded : SUBSET Run,
              run : Run \cup {None}, epoch : 0..MaxEpoch]
SweepType == [at : {"asleep", "active", "stale"}, found : SUBSET Run]

RowPart  == row \in [Run -> RowType] /\ count \in 0..UserCap /\ released \subseteq Run /\ told \subseteq Run
SlotPart ==
  /\ late \in [Run -> {"none", "queue", "run"}] /\ ready \subseteq Run /\ depends \subseteq Run
  /\ upsets \in 0..Upsets
  /\ mode \in [Process -> {"up", "closing", "down"}]
  /\ tasks \in [Process -> [Run -> SegmentType]]
  /\ claim \in [Process -> [Claimer -> ClaimType]]
  /\ sweep \in [Process -> SweepType]

OpenRuns == {r \in Run : row[r].status \in Open}

\* What the row of a run says when it is not there yet, open, or over
RowsMakeSense ==
  \A r \in Run :
    /\ row[r].lease => row[r].status = "RUNNING"
    /\ row[r].why # "" => Ended(r)
    /\ r \in released <=> Ended(r)
    /\ row[r].status = "COMPLETED" => ~row[r].cancel

RowInv == RowPart /\ RowsMakeSense /\ CountIsOpenRuns /\ TimedOutNeverRan /\ OnlyTheDeadlineIsSilent

IInv == RowInv /\ SlotPart /\ SlotBudget

LEMMA TypeParts == TypeOK <=> RowPart /\ SlotPart
BY DEF TypeOK, RowPart, SlotPart, RowType, SegmentType, ClaimType, SweepType, Whys

LEMMA Bounds == UserCap \in Nat /\ Slots \in Nat /\ MaxEpoch \in Nat /\ Upsets \in Nat
BY BoundsAssumption

-----------------------------------------------------------------------------
(* The steps, as the rows see them. *)

RowQuiet == UNCHANGED <<row, released, count, told>>

\* A new run is counted
Admits(r) ==
  /\ row[r] = NoRow /\ row' = [row EXCEPT ![r].status = "CREATED"]
  /\ count < UserCap /\ count' = count + 1
  /\ UNCHANGED <<released, told>>

\* An open run stays open; one that is to be cancelled is not claimed again
Changes(r) ==
  /\ row[r].status \in Open
  /\ \E x \in RowType :
       /\ row' = [row EXCEPT ![r] = x]
       /\ x.status \in Open /\ x.why = row[r].why
       /\ x.lease => x.status = "RUNNING"
       /\ row[r].cancel => x.cancel /\ x.epoch = row[r].epoch
  /\ UNCHANGED <<released, count, told>>

\* An open run ends, and not as completed once it is to be cancelled
Ends(r) ==
  /\ row[r].status \in Open
  /\ \E status \in Terminal, why \in Whys, silent \in BOOLEAN :
       /\ End(r, status, why, silent)
       /\ status = "COMPLETED" => ~row[r].cancel
       /\ why = "QUEUE_TIMEOUT" => row[r].epoch = 0
       /\ silent => why = "DEADLINE"

LEMMA CurrentIsOpen ==
  ASSUME NEW p, NEW r, Current(p, r)
  PROVE  row[r].status = "RUNNING" /\ row[r].status \in Open
BY DEF Current, Open

\* What a segment does to its row
LEMMA SegmentSteps ==
  ASSUME RowInv, NEW p \in Process, NEW r \in Run, Executing(p, r) \/ StopSegment(p, r)
  PROVE  RowQuiet \/ Changes(r) \/ Ends(r)
<1>1. CASE \/ Prepared(p, r) \/ PreparationFails(p, r) \/ Lose(p, r) \/ Leave(p, r)
           \/ Reserve(p, r) \/ Consume(p, r)
  BY <1>1 DEF RowQuiet, Prepared, PreparationFails, Lose, Leave, Reserve, Consume, admission
<1>2. CASE Wait(p, r)
  <2>1. PICK s \in {"WAITING_TOOL", "WAITING_INPUT"} :
          row' = [row EXCEPT ![r] = [@ EXCEPT !.status = s, !.owner = None, !.lease = FALSE]]
    BY <1>2 DEF Wait
  <2> DEFINE x == [row[r] EXCEPT !.status = s, !.owner = None, !.lease = FALSE]
  <2>2. x \in RowType /\ x.status = s /\ x.why = row[r].why /\ ~x.lease
        /\ x.cancel = row[r].cancel /\ x.epoch = row[r].epoch
    BY DEF RowInv, RowPart, RowType, Open
  <2> QED BY <1>2, <2>1, <2>2, CurrentIsOpen DEF Changes, Wait, Open, admission
<1>3. CASE Complete(p, r)
  BY <1>3, CurrentIsOpen DEF Complete, Ends, Verdict, Terminal, Whys
<1>4. CASE Fail(p, r)
  BY <1>4, CurrentIsOpen DEF Fail, Ends, Terminal, Whys
<1>5. CASE StopSegment(p, r)
  BY <1>5, CurrentIsOpen DEF StopSegment, Ends, Terminal, Whys, RowQuiet, admission
<1> QED BY <1>1, <1>2, <1>3, <1>4, <1>5 DEF Executing

\* What a user, a deadline or a sweep of the database does to a row
LEMMA RunSteps ==
  ASSUME RowInv, NEW r \in Run,
         \/ User(r) \/ ResultArrives(r) \/ PassDeadline(r) \/ Lapse(r)
         \/ Reap(r) \/ ExpireQueued(r) \/ Expire(r)
  PROVE  RowQuiet \/ Admits(r) \/ Changes(r) \/ Ends(r)
<1>0. row \in [Run -> RowType]
  BY DEF RowInv, RowPart
<1>1. CASE ResultArrives(r) \/ PassDeadline(r)
  BY <1>1 DEF ResultArrives, PassDeadline, RowQuiet, admission
<1>2. CASE \E p \in Process : Admit(p, r)
  BY <1>2 DEF Admit, Admits
<1>3. CASE \E p \in Process : HumanResume(p, r)
  <2>1. [row[r] EXCEPT !.status = "CREATED"] \in RowType /\ ~row[r].lease
    BY <1>0, <1>3 DEF HumanResume, RowInv, RowsMakeSense, RowType, Open
  <2> QED BY <1>0, <1>3, <2>1 DEF HumanResume, Changes, RowType, Open, admission
<1>4. CASE Cancel(r)
  <2>1. CASE row[r].status = "RUNNING"
    <3>1. [row[r] EXCEPT !.cancel = TRUE] \in RowType
      BY <1>0 DEF RowType
    <3> QED BY <1>0, <1>4, <2>1, <3>1 DEF Cancel, Changes, RowType, Open, admission
  <2>2. CASE row[r].status # "RUNNING"
    BY <1>4, <2>2 DEF Cancel, Ends, Terminal, Whys
  <2> QED BY <2>1, <2>2
<1>5. CASE Lapse(r)
  <2>1. [row[r] EXCEPT !.lease = FALSE] \in RowType /\ row[r].status \in Open
    BY <1>0, <1>5 DEF Lapse, RowInv, RowsMakeSense, RowType, Open
  <2> QED BY <1>0, <1>5, <2>1 DEF Lapse, Changes, RowType, admission
<1>6. CASE Reap(r) \/ ExpireQueued(r) \/ Expire(r)
  BY <1>6 DEF Reap, ExpireQueued, Expire, Ends, Terminal, Whys, Open
<1> QED BY <1>1, <1>2, <1>3, <1>4, <1>5, <1>6 DEF User

\* What a claim, a sweep of the slots or the end of a process does to a row
LEMMA ProcessSteps ==
  ASSUME RowInv, NEW p \in Process,
         \/ SlotSweep(p) \/ Close(p) \/ Die(p)
         \/ \E c \in Claimer : Claiming(p, c) \/ \E r \in Run : Take(p, c, r)
  PROVE  RowQuiet \/ \E r \in Run : Changes(r)
<1>1. ASSUME NEW c \in Claimer, NEW r \in Run, Take(p, c, r)
      PROVE  Changes(r)
  <2> DEFINE x == [row[r] EXCEPT !.status = "RUNNING", !.epoch = row[r].epoch + 1, !.owner = p, !.lease = TRUE]
  <2>1. row[r] \in RowType /\ row[r].epoch < MaxEpoch
    BY <1>1 DEF RowInv, RowPart, Take
  <2>2. row[r].epoch + 1 \in 0..MaxEpoch
    BY <2>1, Bounds DEF RowType
  <2>3. x \in RowType /\ x.status = "RUNNING" /\ x.why = row[r].why
    BY <2>1, <2>2 DEF RowType, Open
  <2>4. row[r].status \in Open /\ ~row[r].cancel
    BY <1>1 DEF Take, Claimable, Open
  <2>5. row' = [row EXCEPT ![r] = x]
    BY <1>1 DEF Take
  <2>6. UNCHANGED <<released, count, told>>
    BY <1>1 DEF Take, admission
  <2> QED BY <2>3, <2>4, <2>5, <2>6 DEF Changes, Open
<1>2. CASE SlotSweep(p) \/ Close(p) \/ Die(p) \/ \E c \in Claimer : Claiming(p, c)
  BY <1>2 DEF SlotSweep, LookAtSlots, LookAtRows, Reclaim, Close, Die, Claiming, Begin, FindNone, Register,
     RowQuiet, admission
<1> QED BY <1>1, <1>2

LEMMA RowSteps ==
  ASSUME RowInv, [Next]_vars
  PROVE  RowQuiet \/ \E r \in Run : Admits(r) \/ Changes(r) \/ Ends(r)
<1>1. CASE UNCHANGED vars
  BY <1>1 DEF vars, admission, RowQuiet
<1> QED BY <1>1, SegmentSteps, RunSteps, ProcessSteps DEF Next

-----------------------------------------------------------------------------
(* The rows stay sound under each kind of step. *)

LEMMA OpenRunsFinite ==
  IsFiniteSet(OpenRuns) /\ Cardinality(OpenRuns) \in Nat
<1>1. OpenRuns \in SUBSET Run
  BY DEF OpenRuns
<1> QED BY <1>1, NamesAssumption, FS_Subset, FS_CardinalityType

LEMMA QuietKeeps ==
  ASSUME RowInv, RowQuiet
  PROVE  RowInv'
BY DEF RowQuiet, RowInv, RowPart, RowsMakeSense, CountIsOpenRuns, TimedOutNeverRan, OnlyTheDeadlineIsSilent, Ended

LEMMA AdmitKeeps ==
  ASSUME RowInv, NEW r \in Run, Admits(r)
  PROVE  RowInv'
<1>0. row \in [Run -> RowType] /\ count \in 0..UserCap /\ count < UserCap
  BY DEF RowInv, RowPart, Admits
<1>1. /\ row'[r].status = "CREATED" /\ row'[r].why = "" /\ ~row'[r].lease /\ row[r].status = "NONE"
      /\ \A o \in Run \ {r} : row'[o] = row[o]
  <2>1. NoRow.status = "NONE" /\ NoRow.why = "" /\ NoRow.lease = FALSE
    BY DEF NoRow
  <2>2. row[r] = NoRow /\ row' = [row EXCEPT ![r].status = "CREATED"]
    BY DEF Admits
  <2> QED BY <1>0, <2>1, <2>2 DEF RowType
<1>2. RowPart'
  <2>1. row' \in [Run -> RowType]
    BY <1>0 DEF Admits, RowType, Open
  <2>2. count' \in 0..UserCap
    BY <1>0, Bounds DEF Admits
  <2> QED BY <2>1, <2>2 DEF RowInv, RowPart, Admits
<1>3. CountIsOpenRuns'
  <2>1. OpenRuns' = OpenRuns \cup {r} /\ r \notin OpenRuns
    BY <1>1 DEF OpenRuns, Open
  <2>2. Cardinality(OpenRuns') = Cardinality(OpenRuns) + 1
    BY <2>1, OpenRunsFinite, FS_AddElement
  <2> QED BY <2>2 DEF RowInv, CountIsOpenRuns, OpenRuns, Admits
<1>4. RowsMakeSense'
  BY <1>1 DEF RowInv, RowsMakeSense, Ended, Terminal, Admits
<1>5. TimedOutNeverRan' /\ OnlyTheDeadlineIsSilent'
  BY <1>1 DEF RowInv, TimedOutNeverRan, OnlyTheDeadlineIsSilent, Ended, Terminal, Admits
<1> QED BY <1>2, <1>3, <1>4, <1>5 DEF RowInv

LEMMA ChangeKeeps ==
  ASSUME RowInv, NEW r \in Run, Changes(r)
  PROVE  RowInv'
<1>0. row \in [Run -> RowType] /\ UNCHANGED <<released, count, told>>
  BY DEF RowInv, RowPart, Changes
<1>1. /\ row[r].status \in Open /\ row'[r] \in RowType /\ row'[r].status \in Open
      /\ row'[r].why = row[r].why /\ (row'[r].lease => row'[r].status = "RUNNING")
      /\ \A o \in Run \ {r} : row'[o] = row[o]
      /\ row' \in [Run -> RowType]
  BY <1>0 DEF Changes
<1>2. ~Ended(r) /\ ~Ended(r)' /\ row[r].why = "" /\ row'[r].status # "COMPLETED"
  BY <1>1 DEF Ended, Open, Terminal, RowInv, RowsMakeSense
<1>3. RowPart'
  BY <1>0, <1>1 DEF RowInv, RowPart
<1>4. CountIsOpenRuns'
  <2>1. OpenRuns' = OpenRuns
    BY <1>1 DEF OpenRuns
  <2> QED BY <1>0, <2>1 DEF RowInv, CountIsOpenRuns, OpenRuns
<1>5. RowsMakeSense'
  BY <1>0, <1>1, <1>2 DEF RowInv, RowsMakeSense, Ended
<1>6. TimedOutNeverRan' /\ OnlyTheDeadlineIsSilent'
  BY <1>0, <1>1, <1>2 DEF RowInv, TimedOutNeverRan, OnlyTheDeadlineIsSilent, Ended
<1> QED BY <1>3, <1>4, <1>5, <1>6 DEF RowInv

LEMMA EndKeeps ==
  ASSUME RowInv, NEW r \in Run, Ends(r)
  PROVE  RowInv'
<1>0. row \in [Run -> RowType] /\ count \in 0..UserCap
  BY DEF RowInv, RowPart
<1>1. PICK status \in Terminal, why \in Whys, silent \in BOOLEAN :
        /\ End(r, status, why, silent)
        /\ status = "COMPLETED" => ~row[r].cancel
        /\ why = "QUEUE_TIMEOUT" => row[r].epoch = 0
        /\ silent => why = "DEADLINE"
  BY DEF Ends
<1>2. row[r].status \in Open /\ r \notin released
  BY DEF Ends, RowInv, RowsMakeSense, Ended, Open, Terminal
<1>3. /\ row'[r].status = status /\ row'[r].why = why /\ ~row'[r].lease
      /\ row'[r].epoch = row[r].epoch
      /\ row'[r].cancel <=> row[r].cancel \/ status = "CANCELLED"
      /\ \A o \in Run \ {r} : row'[o] = row[o]
      /\ row' \in [Run -> RowType]
  <2> DEFINE x == [row[r] EXCEPT !.status = status, !.why = why, !.owner = None, !.lease = FALSE,
                                 !.cancel = row[r].cancel \/ status = "CANCELLED"]
  <2>1. /\ x \in RowType /\ x.status = status /\ x.why = why /\ ~x.lease /\ x.epoch = row[r].epoch
        /\ x.cancel <=> row[r].cancel \/ status = "CANCELLED"
    BY <1>0 DEF RowType
  <2>2. row' = [row EXCEPT ![r] = x]
    BY <1>1 DEF End
  <2> QED BY <1>0, <2>1, <2>2
<1>4. /\ released' = released \cup {r} /\ count' = (IF count = 0 THEN 0 ELSE count - 1)
      /\ told' = IF silent THEN told ELSE told \cup {r}
  BY <1>1, <1>2 DEF End, Release
<1>5. CountIsOpenRuns' /\ count' \in 0..UserCap
  <2>1. OpenRuns' = OpenRuns \ {r} /\ r \in OpenRuns
    BY <1>2, <1>3 DEF OpenRuns, Open, Terminal
  <2>2. Cardinality(OpenRuns') = Cardinality(OpenRuns) - 1 /\ Cardinality(OpenRuns') \in Nat
    BY <2>1, OpenRunsFinite, FS_RemoveElement, FS_CardinalityType
  <2>3. count = Cardinality(OpenRuns)
    BY DEF RowInv, CountIsOpenRuns, OpenRuns
  <2>4. count' = Cardinality(OpenRuns')
    BY <1>4, <2>2, <2>3, OpenRunsFinite
  <2> QED BY <1>0, <1>4, <2>4, Bounds DEF CountIsOpenRuns, OpenRuns
<1>6. RowPart'
  BY <1>3, <1>4, <1>5 DEF RowInv, RowPart
<1>7. RowsMakeSense'
  <2>1. Ended(r)' /\ \A o \in Run \ {r} : Ended(o)' = Ended(o)
    BY <1>3 DEF Ended
  <2> QED BY <1>1, <1>3, <1>4, <2>1 DEF RowInv, RowsMakeSense
<1>8. TimedOutNeverRan' /\ OnlyTheDeadlineIsSilent'
  BY <1>1, <1>3, <1>4 DEF RowInv, TimedOutNeverRan, OnlyTheDeadlineIsSilent, Ended
<1> QED BY <1>5, <1>6, <1>7, <1>8 DEF RowInv

LEMMA RowsStart ==
  ASSUME Init
  PROVE  RowInv
<1>1. RowPart
  <2>1. NoRow \in RowType
    BY Bounds DEF RowType, NoRow, Whys
  <2> QED BY <2>1, Bounds DEF Init, RowPart
<1>2. OpenRuns = {}
  BY DEF Init, OpenRuns, NoRow, Open
<1>3. CountIsOpenRuns
  BY <1>2, FS_EmptySet DEF Init, CountIsOpenRuns, OpenRuns
<1> QED BY <1>1, <1>3 DEF Init, RowInv, RowsMakeSense, TimedOutNeverRan, OnlyTheDeadlineIsSilent,
     NoRow, Ended, Terminal

LEMMA RowStep ==
  ASSUME RowInv, [Next]_vars
  PROVE  RowInv'
BY RowSteps, QuietKeeps, AdmitKeeps, ChangeKeeps, EndKeeps

LEMMA RowsHold == Spec => []RowInv
<1>1. Init => RowInv
  BY RowsStart
<1>2. RowInv /\ [Next]_vars => RowInv'
  BY RowStep
<1> QED BY <1>1, <1>2, PTL DEF Spec

-----------------------------------------------------------------------------
(* The slots: their types, and that a process never overbooks them. *)

\* Nothing new is claimed or started
SlotsShrink ==
  \A q \in Process : Active(q)' \subseteq Active(q) /\ Pending(q)' \subseteq Pending(q)

\* A claimer takes one of the free places
SlotTaken(p) ==
  \E c \in Claimer :
    /\ HasFreeSlot(p) /\ Active(p)' = Active(p) /\ Pending(p)' = Pending(p) \cup {c}
    /\ \A q \in Process \ {p} : Active(q)' = Active(q) /\ Pending(q)' = Pending(q)

\* A claimer hands its place to a segment
SlotHanded(p) ==
  \E c \in Pending(p) : \E r :
    /\ Active(p)' \subseteq Active(p) \cup {r} /\ Pending(p)' = Pending(p) \ {c}
    /\ \A q \in Process \ {p} : Active(q)' = Active(q) /\ Pending(q)' = Pending(q)

LEMMA SlotTypes ==
  SlotPart => /\ tasks \in [Process -> [Run -> SegmentType]]
              /\ claim \in [Process -> [Claimer -> ClaimType]]
              /\ sweep \in [Process -> SweepType]
              /\ mode \in [Process -> {"up", "closing", "down"}]
BY DEF SlotPart

LEMMA Fresh == NoSegment \in SegmentType /\ Idle \in ClaimType /\ Asleep \in SweepType
BY Bounds DEF NoSegment, Idle, Asleep, SegmentType, ClaimType, SweepType

\* A segment moves on or goes
LEMMA SegmentSlots ==
  ASSUME SlotPart, NEW p \in Process, NEW r \in Run, Executing(p, r) \/ StopSegment(p, r)
  PROVE  SlotPart' /\ SlotsShrink
<1>0. CASE Reserve(p, r) \/ Consume(p, r)
  <2>1. depends' \subseteq Run /\ UNCHANGED <<late, ready, upsets, mode, tasks, claim, sweep>>
    BY <1>0 DEF SlotPart, Reserve, Consume, slots
  <2> QED BY <2>1 DEF SlotPart, SlotsShrink, Active, Pending
<1> SUFFICES ASSUME ~(Reserve(p, r) \/ Consume(p, r))
             PROVE  SlotPart' /\ SlotsShrink
  BY <1>0
<1>1. /\ tasks \in [Process -> [Run -> SegmentType]]
      /\ UNCHANGED <<late, ready, depends, upsets, mode, claim, sweep>>
  BY DEF SlotPart, Executing, Prepared, PreparationFails, Wait, Complete, Fail, Lose, Leave, StopSegment
<1>2. PICK x \in SegmentType :
        /\ tasks' = [tasks EXCEPT ![p][r] = x]
        /\ x.at # "none" => tasks[p][r].at # "none"
  <2>1. CASE Gone(p, r)
    <3>1. NoSegment.at = "none"
      BY DEF NoSegment
    <3> QED BY <2>1, <3>1, Fresh DEF Gone
  <2>2. ASSUME NEW at \in {"exec", "leaving"}, Move(p, r, at), tasks[p][r].at # "none"
        PROVE  \E x \in SegmentType :
                 tasks' = [tasks EXCEPT ![p][r] = x] /\ (x.at # "none" => tasks[p][r].at # "none")
    <3>1. [tasks[p][r] EXCEPT !.at = at] \in SegmentType
      BY <1>1 DEF SegmentType
    <3> QED BY <2>2, <3>1 DEF Move
  <2> QED BY <2>1, <2>2 DEF Executing, Segment, Prepared, PreparationFails, Wait, Complete, Fail, Lose, Leave,
       StopSegment
<1>3. SlotPart'
  <2>1. tasks' \in [Process -> [Run -> SegmentType]]
    BY <1>1, <1>2
  <2> QED BY <1>1, <2>1 DEF SlotPart
<1>4. \A q \in Process : Active(q)' \subseteq Active(q)
  BY <1>1, <1>2 DEF Active
<1>5. \A q \in Process : Pending(q)' = Pending(q)
  BY <1>1 DEF Pending
<1> QED BY <1>3, <1>4, <1>5 DEF SlotsShrink

\* What happens to the row of a run starts no claim
LEMMA RunSlots ==
  ASSUME SlotPart, NEW r \in Run,
         \/ User(r) \/ ResultArrives(r) \/ PassDeadline(r) \/ Lapse(r)
         \/ Reap(r) \/ ExpireQueued(r) \/ Expire(r)
  PROVE  SlotPart' /\ SlotsShrink
<1>1. CASE \E p \in Process : Admit(p, r) \/ HumanResume(p, r)
  <2>1. PICK p \in Process : claim' = [claim EXCEPT ![p][r].at = "asked"]
    BY <1>1 DEF Admit, HumanResume
  <2>2. claim \in [Process -> [Claimer -> ClaimType]] /\ r \in Claimer
    BY DEF SlotPart, Claimer
  <2>3. [claim[p][r] EXCEPT !.at = "asked"] \in ClaimType
    <3>1. claim[p][r] \in ClaimType
      BY <2>2
    <3> QED BY ONLY <3>1 DEF ClaimType
  <2>4. claim' \in [Process -> [Claimer -> ClaimType]]
    BY <2>1, <2>2, <2>3
  <2>5. \A q \in Process : Pending(q)' \subseteq Pending(q)
    BY <2>1, <2>2, <2>3 DEF Pending
  <2>6. late' \in [Run -> {"none", "queue", "run"}] /\ UNCHANGED <<ready, depends, upsets, mode, tasks, sweep>>
    BY <1>1 DEF SlotPart, Admit, HumanResume
  <2> QED BY <2>4, <2>5, <2>6 DEF SlotPart, SlotsShrink, Active
<1>2. CASE Cancel(r) \/ ResultArrives(r) \/ PassDeadline(r) \/ Reap(r) \/ ExpireQueued(r) \/ Expire(r)
  <2>1. UNCHANGED <<mode, upsets, tasks, claim, sweep>>
    BY <1>2 DEF Cancel, ResultArrives, PassDeadline, Reap, ExpireQueued, Expire, slots
  <2>2. late' \in [Run -> {"none", "queue", "run"}] /\ ready' \subseteq Run /\ depends' \subseteq Run
    BY <1>2 DEF SlotPart, Cancel, ResultArrives, PassDeadline, Reap, ExpireQueued, Expire
  <2> QED BY <2>1, <2>2 DEF SlotPart, SlotsShrink, Active, Pending
<1>3. CASE Lapse(r)
  <2>1. UNCHANGED <<late, ready, depends, mode, tasks, claim, sweep>> /\ upsets' \in 0..Upsets
    BY <1>3, Bounds DEF SlotPart, Lapse, Upset, slots
  <2> QED BY <2>1 DEF SlotPart, SlotsShrink, Active, Pending
<1> QED BY <1>1, <1>2, <1>3 DEF User

\* What a claimer does
LEMMA ClaimSlots ==
  ASSUME RowInv, SlotPart, NEW p \in Process, NEW c \in Claimer,
         Claiming(p, c) \/ \E r \in Run : Take(p, c, r)
  PROVE  SlotPart' /\ (SlotsShrink \/ SlotTaken(p) \/ SlotHanded(p))
<1>1. /\ tasks \in [Process -> [Run -> SegmentType]]
      /\ claim \in [Process -> [Claimer -> ClaimType]]
      /\ claim[p][c] \in ClaimType
  BY SlotTypes
<1>2. ASSUME NEW x \in ClaimType, claim' = [claim EXCEPT ![p][c] = x]
      PROVE  /\ claim' \in [Process -> [Claimer -> ClaimType]]
             /\ \A q \in Process \ {p} : Pending(q)' = Pending(q)
             /\ x.at \in {"seeking", "has"} => Pending(p)' = Pending(p) \cup {c}
             /\ x.at \notin {"seeking", "has"} => Pending(p)' = Pending(p) \ {c}
  BY <1>1, <1>2 DEF Pending
<1>3. CASE Begin(p, c)
  <2>1. UNCHANGED <<late, ready, depends, upsets, mode, tasks, sweep>>
    BY <1>3 DEF Begin
  <2>2. Active(p) \in SUBSET Run /\ \A q \in Process : Active(q)' = Active(q)
    BY <2>1 DEF Active
  <2>3. CASE HasFreeSlot(p)
    <3> DEFINE x == [Idle EXCEPT !.at = "seeking", !.excluded = Active(p)]
    <3>1. x \in ClaimType /\ x.at = "seeking"
      BY <2>2, Fresh DEF Idle, ClaimType
    <3>2. claim' = [claim EXCEPT ![p][c] = x]
      BY <1>3, <2>3 DEF Begin
    <3> QED BY <1>2, <2>1, <2>2, <2>3, <3>1, <3>2 DEF SlotPart, SlotTaken
  <2>4. CASE ~HasFreeSlot(p)
    <3>1. claim' = [claim EXCEPT ![p][c] = Idle] /\ Idle.at = "idle"
      BY <1>3, <2>4 DEF Begin, Idle
    <3> QED BY <1>2, <2>1, <2>2, <3>1, Fresh DEF SlotPart, SlotsShrink
  <2> QED BY <2>3, <2>4
<1>4. CASE FindNone(p, c)
  <2>1. UNCHANGED <<late, ready, depends, upsets, mode, tasks, sweep>>
    BY <1>4 DEF FindNone
  <2>2. claim' = [claim EXCEPT ![p][c] = Idle] /\ Idle.at = "idle"
    BY <1>4 DEF FindNone, Idle
  <2> QED BY <1>2, <2>1, <2>2, Fresh DEF SlotPart, SlotsShrink, Active
<1>5. ASSUME NEW r \in Run, Take(p, c, r)
      PROVE  SlotPart' /\ SlotsShrink
  <2> DEFINE x == [claim[p][c] EXCEPT !.at = "has", !.run = r, !.epoch = row[r].epoch + 1]
  <2>1. UNCHANGED <<late, depends, upsets, mode, tasks, sweep>> /\ ready' = ready \ {r}
    BY <1>5 DEF Take
  <2>2. row[r].epoch + 1 \in 0..MaxEpoch
    <3>1. row[r] \in RowType /\ row[r].epoch < MaxEpoch
      BY <1>5 DEF Take, RowInv, RowPart
    <3> QED BY <3>1, Bounds DEF RowType
  <2>3. x \in ClaimType /\ x.at = "has"
    BY <1>1, <2>2 DEF ClaimType
  <2>4. claim' = [claim EXCEPT ![p][c] = x] /\ c \in Pending(p)
    BY <1>5 DEF Take, Pending
  <2>5. Pending(p) \cup {c} = Pending(p)
    BY <2>4
  <2> HIDE DEF x
  <2> QED BY <1>2, <2>1, <2>3, <2>4, <2>5 DEF SlotPart, SlotsShrink, Active
<1>6. CASE Register(p, c)
  <2>1. UNCHANGED <<late, ready, depends, upsets, mode, sweep>>
    BY <1>6 DEF Register
  <2>2. claim' = [claim EXCEPT ![p][c] = Idle] /\ Idle.at = "idle" /\ c \in Pending(p)
    BY <1>6 DEF Register, Idle, Pending
  <2> DEFINE x == [NoSegment EXCEPT !.at = "prep", !.epoch = claim[p][c].epoch]
             r == claim[p][c].run
  <2>3. x \in SegmentType
    BY <1>1 DEF NoSegment, SegmentType, ClaimType
  <2>4. tasks' = [tasks EXCEPT ![p][r] = x] \/ tasks' = tasks
    BY <1>6 DEF Register
  <2> HIDE DEF x, r
  <2>5. tasks' \in [Process -> [Run -> SegmentType]]
    <3>1. tasks[p] \in [Run -> SegmentType] /\ [tasks[p] EXCEPT ![r] = x] \in [Run -> SegmentType]
      BY <1>1, <2>3
    <3> QED BY <1>1, <2>4, <3>1
  <2>6. Active(p)' \subseteq Active(p) \cup {r} /\ \A q \in Process \ {p} : Active(q)' = Active(q)
    BY <1>1, <2>4 DEF Active
  <2> QED BY <1>2, <2>1, <2>2, <2>5, <2>6, Fresh DEF SlotPart, SlotHanded
<1> QED BY <1>3, <1>4, <1>5, <1>6 DEF Claiming

\* The sweep of the slots, and the end of a process
LEMMA ProcessSlots ==
  ASSUME SlotPart, NEW p \in Process, SlotSweep(p) \/ Close(p) \/ Die(p)
  PROVE  SlotPart' /\ SlotsShrink
<1>0. /\ tasks \in [Process -> [Run -> SegmentType]]
      /\ claim \in [Process -> [Claimer -> ClaimType]]
      /\ sweep \in [Process -> SweepType]
      /\ mode \in [Process -> {"up", "closing", "down"}]
  BY SlotTypes
<1>1. ASSUME NEW R \in SUBSET Run
      PROVE  [r \in Run |-> IF r \in R THEN [tasks[p][r] EXCEPT !.cancelled = TRUE] ELSE tasks[p][r]]
               \in [Run -> SegmentType]
  <2>1. ASSUME NEW r \in Run
        PROVE  tasks[p][r] \in SegmentType /\ [tasks[p][r] EXCEPT !.cancelled = TRUE] \in SegmentType
    <3>1. tasks[p][r] \in SegmentType
      BY <1>0
    <3> QED BY <3>1 DEF SegmentType
  <2> QED BY <2>1
<1>2. CASE LookAtSlots(p)
  <2>1. [at |-> "active", found |-> Active(p)] \in SweepType
    BY DEF SweepType, Active
  <2> QED BY <1>0, <1>2, <2>1 DEF LookAtSlots, SlotPart, SlotsShrink, Active, Pending
<1>3. CASE LookAtRows(p)
  <2>1. sweep[p] \in SweepType
    BY <1>0
  <2>2. [at |-> "stale", found |-> {r \in sweep[p].found : ~Owned(p, r)}] \in SweepType
    BY <2>1 DEF SweepType
  <2>3. sweep' \in [Process -> SweepType]
    BY <1>0, <1>3, <2>2 DEF LookAtRows
  <2> QED BY <1>3, <2>3 DEF LookAtRows, SlotPart, SlotsShrink, Active, Pending
<1>4. CASE Reclaim(p)
  <2> DEFINE x == [r \in Run |-> IF r \in sweep[p].found \cap Active(p)
                                 THEN [tasks[p][r] EXCEPT !.cancelled = TRUE] ELSE tasks[p][r]]
  <2>1. sweep[p].found \cap Active(p) \in SUBSET Run
    BY DEF Active
  <2>2. x \in [Run -> SegmentType]
    BY <1>1, <2>1
  <2>3. tasks' = [tasks EXCEPT ![p] = x] /\ UNCHANGED <<late, ready, depends, upsets, mode, claim>>
    BY <1>4 DEF Reclaim
  <2>4. sweep' \in [Process -> SweepType]
    BY <1>0, <1>4, Fresh DEF Reclaim
  <2>5. \A r \in Run : x[r].at = tasks[p][r].at
    BY <1>0 DEF SegmentType
  <2> HIDE DEF x
  <2> QED BY <1>0, <2>2, <2>3, <2>4, <2>5 DEF SlotPart, SlotsShrink, Active, Pending
<1>5. CASE Close(p)
  <2> DEFINE x == [r \in Run |-> IF r \in Active(p) THEN [tasks[p][r] EXCEPT !.cancelled = TRUE]
                                 ELSE tasks[p][r]]
  <2>1. Active(p) \in SUBSET Run
    BY DEF Active
  <2>2. x \in [Run -> SegmentType]
    BY <1>1, <2>1
  <2>3. /\ tasks' = [tasks EXCEPT ![p] = x] /\ claim' = [claim EXCEPT ![p][Pump] = Idle]
        /\ UNCHANGED <<late, ready, depends>>
    BY <1>5 DEF Close
  <2>4. sweep' \in [Process -> SweepType] /\ mode' \in [Process -> {"up", "closing", "down"}]
    BY <1>0, <1>5, Fresh DEF Close
  <2>5. upsets' \in 0..Upsets
    BY <1>5, Bounds DEF Close, Upset, SlotPart
  <2>6. \A r \in Run : x[r].at = tasks[p][r].at
    BY <1>0 DEF SegmentType
  <2>7. claim' \in [Process -> [Claimer -> ClaimType]] /\ \A q \in Process : Pending(q)' \subseteq Pending(q)
    <3>1. Idle.at = "idle"
      BY DEF Idle
    <3> QED BY <1>0, <2>3, <3>1, Fresh DEF Pending
  <2> HIDE DEF x
  <2>8. tasks' \in [Process -> [Run -> SegmentType]] /\ \A q \in Process : Active(q)' \subseteq Active(q)
    BY <1>0, <2>2, <2>3, <2>6 DEF Active
  <2> QED BY <2>3, <2>4, <2>5, <2>7, <2>8 DEF SlotPart, SlotsShrink
<1>6. CASE Die(p)
  <2>1. /\ tasks' = [tasks EXCEPT ![p] = [r \in Run |-> NoSegment]]
        /\ claim' = [claim EXCEPT ![p] = [c \in Claimer |-> Idle]]
        /\ sweep' = [sweep EXCEPT ![p] = Asleep]
        /\ mode' = [mode EXCEPT ![p] = "down"]
        /\ UNCHANGED <<late, ready, depends>>
    BY <1>6 DEF Die
  <2>2. upsets' \in 0..Upsets
    BY <1>6, Bounds DEF Die, Upset, SlotPart
  <2>3. NoSegment.at = "none" /\ Idle.at = "idle"
    BY DEF NoSegment, Idle
  <2>4. /\ tasks' \in [Process -> [Run -> SegmentType]]
        /\ claim' \in [Process -> [Claimer -> ClaimType]]
        /\ sweep' \in [Process -> SweepType]
        /\ mode' \in [Process -> {"up", "closing", "down"}]
    BY <1>0, <2>1, Fresh
  <2>5. SlotsShrink
    BY <1>0, <2>1, <2>3 DEF SlotsShrink, Active, Pending
  <2> QED BY <2>1, <2>2, <2>4, <2>5 DEF SlotPart
<1> QED BY <1>2, <1>3, <1>4, <1>5, <1>6 DEF SlotSweep

LEMMA SlotSteps ==
  ASSUME RowInv, SlotPart, [Next]_vars
  PROVE  SlotPart' /\ (SlotsShrink \/ \E p \in Process : SlotTaken(p) \/ SlotHanded(p))
<1>1. CASE UNCHANGED vars
  BY <1>1 DEF vars, slots, SlotPart, SlotsShrink, Active, Pending
<1> QED BY <1>1, SegmentSlots, RunSlots, ClaimSlots, ProcessSlots DEF Next

LEMMA SlotSetsFinite ==
  ASSUME NEW p \in Process
  PROVE  /\ IsFiniteSet(Active(p)) /\ Cardinality(Active(p)) \in Nat
         /\ IsFiniteSet(Pending(p)) /\ Cardinality(Pending(p)) \in Nat
<1>1. IsFiniteSet(Claimer)
  BY NamesAssumption, FS_AddElement DEF Claimer
<1>2. Active(p) \in SUBSET Run /\ Pending(p) \in SUBSET Claimer
  BY DEF Active, Pending
<1>3. IsFiniteSet(Active(p)) /\ IsFiniteSet(Pending(p))
  BY <1>1, <1>2, NamesAssumption, FS_Subset
<1> QED BY <1>3, FS_CardinalityType

LEMMA OneMore ==
  ASSUME NEW S, NEW x, IsFiniteSet(S), Cardinality(S) \in Nat
  PROVE  /\ IsFiniteSet(S \cup {x}) /\ Cardinality(S \cup {x}) \in Nat
         /\ Cardinality(S \cup {x}) <= Cardinality(S) + 1
<1>1. /\ IsFiniteSet(S \cup {x})
      /\ Cardinality(S \cup {x}) = IF x \in S THEN Cardinality(S) ELSE Cardinality(S) + 1
  BY FS_AddElement
<1> QED BY <1>1

LEMMA BudgetKept ==
  ASSUME SlotBudget, SlotsShrink \/ \E p \in Process : SlotTaken(p) \/ SlotHanded(p)
  PROVE  SlotBudget'
<1> SUFFICES ASSUME NEW q \in Process
             PROVE  Cardinality(Active(q)') + Cardinality(Pending(q)') <= Slots
  BY DEF SlotBudget
<1>0. /\ IsFiniteSet(Active(q)) /\ Cardinality(Active(q)) \in Nat
      /\ IsFiniteSet(Pending(q)) /\ Cardinality(Pending(q)) \in Nat
      /\ Cardinality(Active(q)) + Cardinality(Pending(q)) <= Slots /\ Slots \in Nat
  BY SlotSetsFinite, Bounds DEF SlotBudget
<1>1. CASE Active(q)' \subseteq Active(q) /\ Pending(q)' \subseteq Pending(q)
  <2>1. /\ Cardinality(Active(q)') <= Cardinality(Active(q)) /\ Cardinality(Active(q)') \in Nat
        /\ Cardinality(Pending(q)') <= Cardinality(Pending(q)) /\ Cardinality(Pending(q)') \in Nat
    BY <1>0, <1>1, FS_Subset, FS_CardinalityType
  <2> QED BY <1>0, <2>1
<1>2. CASE SlotTaken(q)
  <2>1. PICK c \in Claimer : HasFreeSlot(q) /\ Active(q)' = Active(q) /\ Pending(q)' = Pending(q) \cup {c}
    BY <1>2 DEF SlotTaken
  <2>2. Cardinality(Pending(q)') <= Cardinality(Pending(q)) + 1 /\ Cardinality(Pending(q)') \in Nat
    BY <1>0, <2>1, OneMore
  <2> QED BY <1>0, <2>1, <2>2 DEF HasFreeSlot
<1>3. CASE SlotHanded(q)
  <2>0. PICK c \in Pending(q) :
          \E r : Active(q)' \subseteq Active(q) \cup {r} /\ Pending(q)' = Pending(q) \ {c}
    BY <1>3 DEF SlotHanded
  <2>1. PICK r : Active(q)' \subseteq Active(q) \cup {r} /\ Pending(q)' = Pending(q) \ {c}
    BY <2>0
  <2>2. Cardinality(Pending(q)') = Cardinality(Pending(q)) - 1
    BY <1>0, <2>1, FS_RemoveElement
  <2>3. Cardinality(Active(q) \cup {r}) <= Cardinality(Active(q)) + 1 /\ IsFiniteSet(Active(q) \cup {r})
        /\ Cardinality(Active(q) \cup {r}) \in Nat
    BY <1>0, OneMore
  <2>4. Cardinality(Active(q)') <= Cardinality(Active(q) \cup {r}) /\ Cardinality(Active(q)') \in Nat
    BY <2>1, <2>3, FS_Subset, FS_CardinalityType
  <2> QED BY <1>0, <2>2, <2>3, <2>4
<1> QED BY <1>1, <1>2, <1>3 DEF SlotsShrink, SlotTaken, SlotHanded

-----------------------------------------------------------------------------
(* However the seven ends, the claims and the sweeps race: the counter of  *)
(* the user is exact, no process overbooks its slots, no run that was      *)
(* claimed times out as one that never started, and only the run's         *)
(* deadline ends it silently (release_admission_in, claim_and_submit,      *)
(* _close_queued_run, _expire_one).                                        *)
THEOREM RunsAndSlotsAgree == Spec => []Inv
<1>1. Init => IInv
  <2> SUFFICES ASSUME Init PROVE IInv
    OBVIOUS
  <2>1. RowInv
    BY RowsStart
  <2>2. SlotPart
    BY Fresh, Bounds DEF Init, SlotPart
  <2>3. \A p \in Process : Active(p) = {} /\ Pending(p) = {}
    BY DEF Init, Active, Pending, NoSegment, Idle
  <2>4. SlotBudget
    BY <2>3, FS_EmptySet, Bounds DEF SlotBudget
  <2> QED BY <2>1, <2>2, <2>4 DEF IInv
<1>2. IInv /\ [Next]_vars => IInv'
  <2> SUFFICES ASSUME IInv, [Next]_vars PROVE IInv'
    OBVIOUS
  <2>1. RowInv'
    BY RowStep DEF IInv
  <2>2. SlotPart' /\ SlotBudget'
    BY SlotSteps, BudgetKept DEF IInv
  <2> QED BY <2>1, <2>2 DEF IInv
<1>3. IInv => Inv
  BY TypeParts DEF IInv, RowInv, Inv
<1> QED BY <1>1, <1>2, <1>3, PTL DEF Spec

-----------------------------------------------------------------------------
(* What a step may never do to a row. *)

\* The four kinds of step, as one run sees them
LEMMA RowSeen ==
  ASSUME RowInv, [Next]_vars, NEW r \in Run
  PROVE  \/ row'[r] = row[r]
         \/ row[r] = NoRow
         \/ /\ row[r].status \in Open
            /\ row[r].cancel => row'[r].cancel /\ row'[r].epoch = row[r].epoch
                                /\ row'[r].status # "COMPLETED"
<1>0. row \in [Run -> RowType]
  BY DEF RowInv, RowPart
<1>1. CASE RowQuiet
  BY <1>1 DEF RowQuiet
<1>2. ASSUME NEW o \in Run, Admits(o)
      PROVE  row[r] = NoRow \/ row'[r] = row[r]
  BY <1>0, <1>2 DEF Admits
<1>3. ASSUME NEW o \in Run, Changes(o), o = r
      PROVE  /\ row[r].status \in Open
             /\ row[r].cancel => row'[r].cancel /\ row'[r].epoch = row[r].epoch
                                 /\ row'[r].status # "COMPLETED"
  BY <1>0, <1>3 DEF Changes, Open
<1>4. ASSUME NEW o \in Run, Ends(o), o = r
      PROVE  /\ row[r].status \in Open
             /\ row[r].cancel => row'[r].cancel /\ row'[r].epoch = row[r].epoch
                                 /\ row'[r].status # "COMPLETED"
  <2>1. PICK status \in Terminal, why \in Whys, silent \in BOOLEAN :
          End(r, status, why, silent) /\ (status = "COMPLETED" => ~row[r].cancel)
    BY <1>4 DEF Ends
  <2> DEFINE x == [row[r] EXCEPT !.status = status, !.why = why, !.owner = None, !.lease = FALSE,
                                 !.cancel = row[r].cancel \/ status = "CANCELLED"]
  <2>2. /\ x.status = status /\ x.epoch = row[r].epoch
        /\ x.cancel <=> row[r].cancel \/ status = "CANCELLED"
    BY <1>0 DEF RowType
  <2>3. row' = [row EXCEPT ![r] = x]
    BY <2>1 DEF End
  <2>4. row'[r] = x
    BY <1>0, <2>3
  <2> QED BY <1>4, <2>1, <2>2, <2>4 DEF Ends
<1>5. ASSUME NEW o \in Run, Changes(o) \/ Ends(o), o # r
      PROVE  row'[r] = row[r]
  BY <1>0, <1>5 DEF Changes, Ends, End
<1> QED BY <1>1, <1>2, <1>3, <1>4, <1>5, RowSteps

(* The end of a run is final, whoever is late: a segment of an older       *)
(* claim, a sweep of the database, a stop, an answer of the user.          *)
THEOREM EndsAreFinal == Spec => EndIsFinal
<1>1. RowInv /\ [Next]_vars => [\A r \in Run : Ended(r) => row'[r] = row[r]]_vars
  <2> SUFFICES ASSUME RowInv, [Next]_vars, NEW r \in Run, Ended(r)
               PROVE  row'[r] = row[r]
    OBVIOUS
  <2>1. row[r] # NoRow /\ row[r].status \notin Open
    <3>1. NoRow.status = "NONE"
      BY DEF NoRow
    <3> QED BY <3>1 DEF Ended, Open, Terminal
  <2> QED BY <2>1, RowSeen
<1> QED BY <1>1, RowsHold, PTL DEF Spec, EndIsFinal

(* A requested cancellation is never lost: nobody takes it back, claims    *)
(* the run again or completes it (_cancel, _claim_one, _finalize_run).     *)
THEOREM CancellationHolds == Spec => CancelHolds
<1>1. RowInv /\ [Next]_vars =>
        [\A r \in Run : row[r].cancel => /\ row'[r].cancel /\ row'[r].epoch = row[r].epoch
                                         /\ row'[r].status # "COMPLETED"]_vars
  <2> SUFFICES ASSUME RowInv, [Next]_vars, NEW r \in Run, row[r].cancel
               PROVE  /\ row'[r].cancel /\ row'[r].epoch = row[r].epoch
                      /\ row'[r].status # "COMPLETED"
    OBVIOUS
  <2>1. row[r] # NoRow
    <3>1. NoRow.cancel = FALSE
      BY DEF NoRow
    <3> QED BY <3>1
  <2>2. row[r].status # "COMPLETED"
    BY DEF RowInv, RowsMakeSense
  <2> QED BY <2>1, <2>2, RowSeen
<1> QED BY <1>1, RowsHold, PTL DEF Spec, CancelHolds

\* Only the segment of the run's epoch takes it out of RUNNING in its own step
LEMMA OwnSegment ==
  ASSUME RowInv, SlotPart, [Next]_vars, NEW p \in Process, NEW r \in Run,
         row[r].status = "RUNNING", row'[r].status # "RUNNING", tasks'[p][r] # tasks[p][r]
  PROVE  row[r].owner = p /\ row[r].epoch = tasks[p][r].epoch
<1>0. row \in [Run -> RowType] /\ tasks \in [Process -> [Run -> SegmentType]]
  BY SlotTypes DEF RowInv, RowPart
<1>1. ASSUME NEW q \in Process, NEW o \in Run, Executing(q, o) \/ StopSegment(q, o)
      PROVE  Current(p, r)
  <2>0. ~(Executing(q, o) /\ (Reserve(q, o) \/ Consume(q, o)))
    BY DEF Reserve, Consume, slots
  <2>1. \E x : tasks' = [tasks EXCEPT ![q][o] = x]
    BY <1>1, <2>0 DEF Executing, Move, Gone, Prepared, PreparationFails, Wait, Complete, Fail, Lose, Leave, StopSegment
  <2>2. q = p /\ o = r
    BY <1>0, <2>1
  <2>3. row' # row
    OBVIOUS
  <2>4. CASE Executing(q, o)
    BY <1>1, <2>2, <2>3, <2>4 DEF Executing, Prepared, PreparationFails, Reserve, Consume, Wait, Complete,
       Fail, Lose, Leave
  <2>5. CASE StopSegment(q, o)
    BY <1>1, <2>2, <2>3, <2>5 DEF StopSegment
  <2> QED BY <1>1, <2>4, <2>5
<1>2. ASSUME NEW o \in Run, User(o) \/ ResultArrives(o) \/ PassDeadline(o) \/ Lapse(o)
                            \/ Reap(o) \/ ExpireQueued(o) \/ Expire(o)
      PROVE  FALSE
  BY <1>2 DEF User, Admit, HumanResume, Cancel, ResultArrives, PassDeadline, Lapse, Reap, ExpireQueued,
     Expire, slots
<1>3. ASSUME NEW q \in Process, NEW c \in Claimer, NEW o \in Run, Take(q, c, o)
      PROVE  FALSE
  BY <1>3 DEF Take
<1>4. ASSUME NEW q \in Process,
             SlotSweep(q) \/ Close(q) \/ Die(q) \/ \E c \in Claimer : Claiming(q, c)
      PROVE  FALSE
  BY <1>4 DEF SlotSweep, LookAtSlots, LookAtRows, Reclaim, Close, Die, Claiming, Begin, FindNone, Register
<1>5. CASE UNCHANGED vars
  BY <1>5 DEF vars
<1> QED BY <1>1, <1>2, <1>3, <1>4, <1>5 DEF Next, Current

(* The fence (ensure_execution): a segment of an older claim that is still *)
(* about takes the run of a newer one out of RUNNING in no interleaving.   *)
THEOREM OlderSegmentsWriteNothing == Spec => OlderSegmentWritesNothing
<1>1. RowInv /\ SlotPart /\ [Next]_vars =>
        [\A p \in Process, r \in Run :
           /\ row[r].status = "RUNNING" /\ row'[r].status # "RUNNING"
           /\ tasks'[p][r] # tasks[p][r]
           => row[r].owner = p /\ row[r].epoch = tasks[p][r].epoch]_vars
  BY OwnSegment
<1>2. Inv => SlotPart
  BY TypeParts DEF Inv
<1> QED BY <1>1, <1>2, RowsHold, RunsAndSlotsAgree, PTL DEF Spec, OlderSegmentWritesNothing
=============================================================================
