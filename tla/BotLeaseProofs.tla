--------------------------- MODULE BotLeaseProofs ---------------------------
(***************************************************************************)
(* Proofs about BotLease, for any connectors, bots and epochs: the epoch   *)
(* of a lease fences every former owner.  The counter in Redis bounds all  *)
(* the epochs that anybody holds, and is why a new lease is always newer.  *)
(***************************************************************************)
EXTENDS BotLease, TLAPS

LEMMA Bounds == Upsets \in Nat /\ MaxEpoch \in Nat
BY UpsetsAssumption

-----------------------------------------------------------------------------
(* The inductive invariant. *)

LeaseType  == [owner : Process \cup {None}, epoch : 0..MaxEpoch]
KeeperType == [at : {"dropping"}, lost : SUBSET Bot]
              \cup [at : {"asleep", "reconciling", "dead"}, lost : {{}}]
ApplyType  == [todo : SUBSET Bot, at : Bot \cup {None}, hung : BOOLEAN]

LeasePart ==
  /\ lease \in [Bot -> LeaseType] /\ epochs \in [Bot -> 0..MaxEpoch]
  /\ owned \in [Process -> [Bot -> 0..MaxEpoch]]

LoopPart ==
  /\ enabled \subseteq Bot /\ up \subseteq Process /\ upsets \in 0..Upsets
  /\ seen \in [Process -> SUBSET Bot] /\ desired \in [Process -> SUBSET Bot]
  /\ keeper \in [Process -> KeeperType] /\ event \in [Process -> BOOLEAN]
  /\ apply \in [Process -> ApplyType]
  /\ link \in [Process -> [Bot -> {"none", "down", "up"}]]

\* Nobody holds an epoch that the counter has not reached
CounterIsAhead ==
  /\ \A p \in Process, b \in Bot : owned[p][b] <= epochs[b]
  /\ \A b \in Bot : lease[b].epoch <= epochs[b]

\* The fence, of connectors that are down too: they may still be about to write
Fenced ==
  \A p \in Process, b \in Bot :
    Holds(p, b) /\ lease[b] # Free /\ ~Mine(p, b) => owned[p][b] < lease[b].epoch

LeaseInv == LeasePart /\ CounterIsAhead /\ Fenced

IInv == LeaseInv /\ LoopPart

LEMMA IInvImpliesInv == IInv => Inv
BY DEF IInv, LeaseInv, Inv, TypeOK, LeasePart, LoopPart, LeaseType, KeeperType, ApplyType,
   NewerOwnerHasHigherEpoch, Fenced

LEMMA RestType ==
  ASSUME NEW todo \in SUBSET Bot, NEW links
  PROVE  Rest(todo, links) \in SUBSET Bot
BY DEF Rest

LEMMA InitHolds == Init => IInv
<1> SUFFICES ASSUME Init PROVE IInv
  OBVIOUS
<1>1. Free \in LeaseType /\ Asleep \in KeeperType /\ Resting \in ApplyType /\ Free.epoch = 0
  BY Bounds DEF Free, Asleep, Resting, LeaseType, KeeperType, ApplyType
<1>2. LeasePart /\ LoopPart
  BY <1>1, Bounds DEF Init, LeasePart, LoopPart
<1>3. CounterIsAhead /\ Fenced
  BY <1>1 DEF Init, CounterIsAhead, Fenced, Holds
<1> QED BY <1>2, <1>3 DEF IInv, LeaseInv

-----------------------------------------------------------------------------
(* The leases.  A step takes and releases leases of one connector, or it   *)
(* drops some, or a lease ends.                                            *)

LEMMA ReconcileKeeps ==
  ASSUME LeaseInv, NEW p \in Process, NEW wanted \in SUBSET Bot, Reconcile(p, wanted)
  PROVE  LeaseInv'
<1> DEFINE taken == {b \in wanted : ~Holds(p, b) /\ Acquirable(p, b)}
           gone  == {b \in Bot : Holds(p, b)} \ wanted
<1>0. LeasePart /\ CounterIsAhead /\ Fenced
  BY DEF LeaseInv
<1>1. \A b \in Bot : epochs'[b] = IF b \in taken THEN epochs[b] + 1 ELSE epochs[b]
  BY DEF Reconcile, NextEpoch
<1>2. \A b \in Bot :
        /\ b \in taken => lease'[b] = [owner |-> p, epoch |-> epochs[b] + 1]
        /\ b \notin taken => lease'[b] = Free \/ lease'[b] = lease[b]
  BY DEF Reconcile, NextEpoch
<1>3. /\ \A b \in Bot : owned'[p][b] = IF b \in taken THEN epochs[b] + 1
                                       ELSE IF b \in gone THEN 0 ELSE owned[p][b]
      /\ \A q \in Process \ {p} : owned'[q] = owned[q]
  BY <1>0 DEF Reconcile, NextEpoch, LeasePart
<1>4. \A b \in taken : b \notin gone /\ epochs[b] + 1 \in 0..MaxEpoch
  BY <1>0, Bounds DEF Acquirable, LeasePart
<1>5. Free \in LeaseType /\ Free.epoch = 0
  BY Bounds DEF Free, LeaseType
<1> HIDE DEF taken, gone
<1>6. LeasePart'
  <2>1. epochs' \in [Bot -> 0..MaxEpoch]
    BY <1>0, <1>1, <1>4 DEF LeasePart, Reconcile
  <2>2. ASSUME NEW b \in Bot PROVE lease'[b] \in LeaseType
    <3>1. CASE b \in taken
      <4>1. [owner |-> p, epoch |-> epochs[b] + 1] \in LeaseType
        BY <1>4, <3>1 DEF LeaseType
      <4> QED BY <1>2, <3>1, <4>1
    <3>2. CASE b \notin taken
      <4>1. lease[b] \in LeaseType
        BY <1>0 DEF LeasePart
      <4> QED BY <1>2, <1>5, <3>2, <4>1
    <3> QED BY <3>1, <3>2
  <2>3. lease' \in [Bot -> LeaseType]
    BY <2>2 DEF Reconcile
  <2>4. \A b \in Bot : owned'[p][b] \in 0..MaxEpoch
    BY <1>0, <1>3, <1>4, Bounds DEF LeasePart
  <2>5. owned' \in [Process -> [Bot -> 0..MaxEpoch]]
    BY <1>0, <2>4 DEF LeasePart, Reconcile
  <2> QED BY <2>1, <2>3, <2>5 DEF LeasePart
<1>7. CounterIsAhead'
  <2>1. ASSUME NEW q \in Process, NEW b \in Bot PROVE owned'[q][b] <= epochs'[b]
    <3>1. owned[q][b] \in Nat /\ epochs[b] \in Nat /\ owned[q][b] <= epochs[b]
      BY <1>0 DEF LeasePart, CounterIsAhead
    <3> QED BY <1>1, <1>3, <3>1
  <2>2. ASSUME NEW b \in Bot PROVE lease'[b].epoch <= epochs'[b]
    <3>1. lease[b].epoch \in Nat /\ epochs[b] \in Nat /\ lease[b].epoch <= epochs[b]
      BY <1>0 DEF LeasePart, LeaseType, CounterIsAhead
    <3>2. CASE b \in taken
      <4>1. epochs'[b] = epochs[b] + 1
        BY <1>1, <3>2
      <4>2. lease'[b] = [owner |-> p, epoch |-> epochs[b] + 1]
        BY <1>2, <3>2
      <4> QED BY <3>1, <4>1, <4>2
    <3>3. CASE b \notin taken
      <4>1. epochs'[b] = epochs[b] /\ (lease'[b] = Free \/ lease'[b] = lease[b])
        BY <1>1, <1>2, <3>3
      <4> QED BY <1>5, <3>1, <4>1
    <3> QED BY <3>2, <3>3
  <2> QED BY <2>1, <2>2 DEF CounterIsAhead
<1>8. Fenced'
  <2> SUFFICES ASSUME NEW q \in Process, NEW b \in Bot,
                      owned'[q][b] # 0, lease'[b] # Free,
                      lease'[b] # [owner |-> q, epoch |-> owned'[q][b]]
               PROVE  owned'[q][b] < lease'[b].epoch
    BY DEF Fenced, Holds, Mine, Free
  <2>1. owned[q][b] \in Nat /\ epochs[b] \in Nat /\ owned[q][b] <= epochs[b]
    BY <1>0 DEF LeasePart, CounterIsAhead
  <2>2. CASE b \in taken
    <3>1. lease'[b] = [owner |-> p, epoch |-> epochs[b] + 1]
      BY <1>2, <2>2
    <3>2. q # p /\ owned'[q][b] = owned[q][b]
      BY <1>3, <2>2, <3>1
    <3> QED BY <2>1, <3>1, <3>2
  <2>3. CASE b \notin taken
    <3>1. lease'[b] = lease[b] /\ owned'[q][b] = owned[q][b]
      BY <1>2, <1>3, <2>3
    <3> QED BY <1>0, <3>1 DEF Fenced, Holds, Mine
  <2> QED BY <2>2, <2>3
<1> QED BY <1>6, <1>7, <1>8 DEF LeaseInv

\* Leases that are no longer believed in, or that end
LEMMA LosingKeeps ==
  ASSUME LeaseInv, epochs' = epochs, lease' \in [Bot -> LeaseType],
         owned' \in [Process -> [Bot -> 0..MaxEpoch]],
         \A b \in Bot : lease'[b] = lease[b] \/ lease'[b] = Free,
         \A p \in Process, b \in Bot : owned'[p][b] = owned[p][b] \/ owned'[p][b] = 0
  PROVE  LeaseInv'
<1>1. LeasePart'
  BY DEF LeaseInv, LeasePart
<1>2. CounterIsAhead'
  <2>1. Free.epoch = 0
    BY DEF Free
  <2>2. \A p \in Process, b \in Bot : owned[p][b] <= epochs[b] /\ epochs[b] \in Nat
    BY DEF LeaseInv, CounterIsAhead, LeasePart
  <2>3. \A b \in Bot : lease[b].epoch <= epochs[b] /\ epochs[b] \in Nat
    BY DEF LeaseInv, CounterIsAhead, LeasePart
  <2> QED BY <2>1, <2>2, <2>3 DEF CounterIsAhead
<1>3. Fenced'
  BY DEF LeaseInv, Fenced, Holds, Mine, Free
<1> QED BY <1>1, <1>2, <1>3 DEF LeaseInv

LEMMA LeaseSteps ==
  ASSUME IInv, [Next]_vars
  PROVE  LeaseInv'
<1>0. LeasePart
  BY DEF IInv, LeaseInv
<1>1. ASSUME UNCHANGED <<lease, epochs, owned>> PROVE LeaseInv'
  BY <1>1 DEF IInv, LeaseInv, LeasePart, CounterIsAhead, Fenced, Holds, Mine
<1>2. ASSUME NEW p \in Process, Start(p) \/ Snapshot(p) \/ Rejoin(p) PROVE LeaseInv'
  <2>1. enabled \in SUBSET Bot /\ seen[p] \in SUBSET Bot
    BY DEF IInv, LoopPart
  <2> QED BY <1>2, <2>1, ReconcileKeeps DEF IInv, Start, Snapshot, Rejoin
<1>3. ASSUME NEW p \in Process, Crash(p) \/ Renew(p) PROVE LeaseInv'
  <2>1. UNCHANGED <<lease, epochs>>
    BY <1>3 DEF Crash, Renew, redis
  <2>2. owned' = [owned EXCEPT ![p] = [b \in Bot |-> 0]]
        \/ owned' = [owned EXCEPT ![p] = [b \in Bot |-> IF b \in Lost(p) THEN 0 ELSE owned[p][b]]]
    BY <1>3 DEF Crash, Renew
  <2>3. owned' \in [Process -> [Bot -> 0..MaxEpoch]]
    BY <1>0, <2>2, Bounds DEF LeasePart
  <2>4. \A q \in Process, b \in Bot : owned'[q][b] = owned[q][b] \/ owned'[q][b] = 0
    BY <1>0, <2>2 DEF LeasePart
  <2> QED BY <1>0, <2>1, <2>3, <2>4, LosingKeeps DEF IInv, LeasePart
<1>4. ASSUME NEW b \in Bot, Lapse(b) PROVE LeaseInv'
  <2>1. lease' = [lease EXCEPT ![b] = Free] /\ UNCHANGED <<epochs, owned>> /\ Free \in LeaseType
    BY <1>4, Bounds DEF Lapse, local, Free, LeaseType
  <2> QED BY <1>0, <2>1, LosingKeeps DEF IInv, LeasePart
<1> QED BY <1>1, <1>2, <1>3, <1>4
     DEF Next, vars, LeaseLoop, ApplyLoop, KeeperDies, Drop, ApplySnapshot, FirstAttempt, StartBot,
         Reconnect, Disconnect, Toggle, redis, local

-----------------------------------------------------------------------------
(* The loops keep their types. *)

LEMMA ConnectorSteps ==
  ASSUME IInv, NEW p \in Process,
         \/ Start(p) \/ Crash(p) \/ Snapshot(p) \/ LeaseLoop(p) \/ KeeperDies(p) \/ ApplyLoop(p)
         \/ \E b \in Bot : Reconnect(p, b) \/ Disconnect(p, b)
  PROVE  LoopPart'
<1>0. /\ enabled \subseteq Bot /\ up \subseteq Process /\ upsets \in 0..Upsets
      /\ seen \in [Process -> SUBSET Bot] /\ desired \in [Process -> SUBSET Bot]
      /\ keeper \in [Process -> KeeperType] /\ event \in [Process -> BOOLEAN]
      /\ apply \in [Process -> ApplyType]
      /\ link \in [Process -> [Bot -> {"none", "down", "up"}]]
      /\ seen[p] \in SUBSET Bot /\ desired[p] \in SUBSET Bot /\ apply[p] \in ApplyType
      /\ link[p] \in [Bot -> {"none", "down", "up"}]
  BY DEF IInv, LoopPart
<1>1. Asleep \in KeeperType /\ Resting \in ApplyType
  BY DEF Asleep, Resting, KeeperType, ApplyType
<1>2. ASSUME NEW wanted \in SUBSET Bot, Reconcile(p, wanted)
      PROVE  desired' \in [Process -> SUBSET Bot] /\ event' \in [Process -> BOOLEAN]
  BY <1>0, <1>2 DEF Reconcile
<1>3. CASE Start(p) \/ Snapshot(p)
  BY <1>0, <1>2, <1>3 DEF Start, Snapshot, LoopPart
<1>4. CASE Crash(p)
  <2>1. upsets' \in 0..Upsets
    BY <1>0, <1>4, Bounds DEF Crash, Upset
  <2> QED BY <1>0, <1>1, <1>4, <2>1 DEF Crash, LoopPart
<1>5. CASE Renew(p)
  <2>1. [at |-> IF Lost(p) = {} THEN "reconciling" ELSE "dropping", lost |-> Lost(p)] \in KeeperType
    BY DEF KeeperType, Lost
  <2> QED BY <1>0, <1>5, <2>1 DEF Renew, LoopPart
<1>6. CASE Drop(p)
  <2> DEFINE lost  == keeper[p].lost
             links == [b \in Bot |-> IF b \in lost THEN "none" ELSE link[p][b]]
  <2>1. [at |-> "reconciling", lost |-> {}] \in KeeperType
    BY DEF KeeperType
  <2>2. keeper' \in [Process -> KeeperType] /\ UNCHANGED <<enabled, up, seen, desired, event, upsets>>
    BY <1>0, <1>6, <2>1 DEF Drop
  <2>3. links \in [Bot -> {"none", "down", "up"}] /\ link' = [link EXCEPT ![p] = links]
    BY <1>0, <1>6 DEF Drop
  <2>4. [apply[p] EXCEPT !.hung = TRUE] \in ApplyType
    BY <1>0 DEF ApplyType
  <2>5. [apply[p] EXCEPT !.at = None, !.todo = Rest(apply[p].todo, links)] \in ApplyType
    BY <1>0, RestType DEF ApplyType
  <2>6. \/ apply' = apply
        \/ apply' = [apply EXCEPT ![p] = [apply[p] EXCEPT !.hung = TRUE]]
        \/ apply' = [apply EXCEPT ![p] = [apply[p] EXCEPT !.at = None, !.todo = Rest(apply[p].todo, links)]]
    BY <1>0, <1>6 DEF Drop, ApplyType
  <2> HIDE DEF links
  <2>7. apply' \in [Process -> ApplyType]
    BY <1>0, <2>4, <2>5, <2>6
  <2>8. link' \in [Process -> [Bot -> {"none", "down", "up"}]]
    BY <1>0, <2>3
  <2> QED BY <1>0, <2>2, <2>7, <2>8 DEF LoopPart
<1>7. CASE Rejoin(p)
  BY <1>0, <1>1, <1>2, <1>7 DEF Rejoin, LoopPart
<1>8. CASE KeeperDies(p)
  <2>1. [at |-> "dead", lost |-> {}] \in KeeperType /\ upsets' \in 0..Upsets
    BY <1>0, <1>8, Bounds DEF KeeperType, KeeperDies, Upset
  <2> QED BY <1>0, <1>8, <2>1 DEF KeeperDies, LoopPart
<1>9. CASE ApplySnapshot(p)
  <2> DEFINE links == [b \in Bot |-> IF b \in desired[p] THEN link[p][b] ELSE "none"]
  <2>1. [apply[p] EXCEPT !.todo = Rest(desired[p], links)] \in ApplyType
    BY <1>0, RestType DEF ApplyType
  <2>2. links \in [Bot -> {"none", "down", "up"}]
    BY <1>0
  <2>3. /\ link' = [link EXCEPT ![p] = links]
        /\ apply' = [apply EXCEPT ![p] = [apply[p] EXCEPT !.todo = Rest(desired[p], links)]]
    BY <1>0, <1>9 DEF ApplySnapshot, ApplyType
  <2> HIDE DEF links
  <2>4. apply' \in [Process -> ApplyType] /\ link' \in [Process -> [Bot -> {"none", "down", "up"}]]
    BY <1>0, <2>1, <2>2, <2>3
  <2> QED BY <1>0, <1>9, <2>4 DEF ApplySnapshot, LoopPart
<1>10. ASSUME NEW b \in Bot, StartBot(p, b) PROVE LoopPart'
  <2>1. PICK passed \in SUBSET {c \in apply[p].todo : link[p][c] # "none"} :
          apply' = [apply EXCEPT ![p].todo = apply[p].todo \ (passed \cup {b}), ![p].at = b]
    BY <1>0, <1>10 DEF StartBot, ApplyType
  <2> DEFINE x == [apply[p] EXCEPT !.todo = apply[p].todo \ (passed \cup {b}), !.at = b]
  <2>2. x \in ApplyType
    BY <1>0 DEF ApplyType
  <2>3. apply' = [apply EXCEPT ![p] = x]
    BY <1>0, <2>1 DEF ApplyType
  <2> HIDE DEF x
  <2>4. apply' \in [Process -> ApplyType]
    BY <1>0, <2>2, <2>3
  <2>5. link' \in [Process -> [Bot -> {"none", "down", "up"}]]
    BY <1>0, <1>10 DEF StartBot
  <2> QED BY <1>0, <1>10, <2>4, <2>5 DEF StartBot, LoopPart
<1>11. CASE FirstAttempt(p)
  <2>1. PICK s \in {"up", "down"} : link' = [link EXCEPT ![p][apply[p].at] = s]
    BY <1>11 DEF FirstAttempt
  <2>2. [link[p] EXCEPT ![apply[p].at] = s] \in [Bot -> {"none", "down", "up"}]
    BY <1>0
  <2>3. link' \in [Process -> [Bot -> {"none", "down", "up"}]]
    BY <1>0, <2>1, <2>2
  <2>4. [apply[p] EXCEPT !.at = None, !.todo = Rest(apply[p].todo, link[p])] \in ApplyType
    BY <1>0, RestType DEF ApplyType
  <2>5. apply' \in [Process -> ApplyType]
    BY <1>0, <1>11, <2>4 DEF FirstAttempt, ApplyType
  <2> QED BY <1>0, <1>11, <2>3, <2>5 DEF FirstAttempt, LoopPart
<1>12. ASSUME NEW b \in Bot, NEW s \in {"up", "down"}, link' = [link EXCEPT ![p][b] = s],
              UNCHANGED <<enabled, up, seen, desired, keeper, event, apply, upsets>>
       PROVE  LoopPart'
  <2>1. [link[p] EXCEPT ![b] = s] \in [Bot -> {"none", "down", "up"}]
    BY <1>0
  <2>2. link' \in [Process -> [Bot -> {"none", "down", "up"}]]
    BY <1>0, <1>12, <2>1
  <2> QED BY <1>0, <1>12, <2>2 DEF LoopPart
<1>13. ASSUME NEW b \in Bot, Reconnect(p, b) \/ Disconnect(p, b) PROVE LoopPart'
  BY <1>12, <1>13 DEF Reconnect, Disconnect
<1> QED BY <1>3, <1>4, <1>5, <1>6, <1>7, <1>8, <1>9, <1>10, <1>11, <1>13 DEF LeaseLoop, ApplyLoop

LEMMA LoopSteps ==
  ASSUME IInv, [Next]_vars
  PROVE  LoopPart'
<1>1. ASSUME NEW b \in Bot, Toggle(b) \/ Lapse(b) PROVE LoopPart'
  <2>1. upsets' \in 0..Upsets
    BY <1>1, Bounds DEF IInv, LoopPart, Toggle, Lapse, Upset
  <2> QED BY <1>1, <2>1 DEF IInv, LoopPart, Toggle, Lapse, local
<1>2. CASE UNCHANGED vars
  BY <1>2 DEF IInv, LoopPart, vars, local
<1> QED BY <1>1, <1>2, ConnectorSteps DEF Next

-----------------------------------------------------------------------------
(* Whatever crashes, lapses, restarts and changes of the snapshot do to    *)
(* the leases of a bot: of two connectors that both believe they own it,   *)
(* the one that Redis names has the higher epoch (lease.py's INCR).        *)
THEOREM EpochsFence == Spec => []Inv
<1>1. IInv /\ [Next]_vars => IInv'
  BY LeaseSteps, LoopSteps DEF IInv
<1> QED BY <1>1, InitHolds, IInvImpliesInv, PTL DEF Spec
=============================================================================
