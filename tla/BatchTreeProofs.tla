-------------------------- MODULE BatchTreeProofs --------------------------
(***************************************************************************)
(* Proofs about BatchTree, for any finite tree, concurrency and number of  *)
(* attempts.  What the properties say of the rows is said here of any rows *)
(* R, so that it can be followed through the pieces of a transaction: the  *)
(* end of a task leaves its parent unsettled, and settle_child makes good. *)
(***************************************************************************)
EXTENDS BatchTree, FiniteSetTheorems, TLAPS

LEMMA Tree ==
  /\ IsFiniteSet(Task) /\ Root \in Task /\ None \notin Task
  /\ ParentOf \in [Task -> Task \cup {None}] /\ ParentOf[Root] = None
  /\ \A t \in Task \ {Root} : ParentOf[t] \in Task /\ Depth[t] = Depth[ParentOf[t]] + 1
  /\ Depth \in [Task -> Nat]
BY TreeAssumption

LEMMA Limits ==
  /\ PlatformLimit \in Nat /\ PlatformLimit > 0
  /\ CascadeDepth \in Nat /\ CascadeDepth > 0 /\ MaxAttempts \in Nat
BY TreeAssumption

\* A parent is above its children
LEMMA Above ==
  ASSUME NEW p \in Task, NEW c \in Children(p)
  PROVE  c \in Task /\ c # Root /\ c # p /\ ParentOf[c] = p /\ Depth[c] = Depth[p] + 1
<1>1. c \in Task /\ ParentOf[c] = p
  BY DEF Children
<1>2. c # Root
  BY <1>1, Tree
<1>3. Depth[c] = Depth[p] + 1 /\ Depth[p] \in Nat
  BY <1>1, <1>2, Tree
<1> QED BY <1>1, <1>2, <1>3

-----------------------------------------------------------------------------
(* The inductive invariant, of any rows. *)

AtLarge(R, p) == {c \in Children(p) : Active(R, c)}

\* Children are there exactly when their parent is a batch
Family(R) ==
  /\ \A p \in Task : R[p].batch => R[p].status # "ABSENT"
  /\ \A p \in Task : \A c \in Children(p) : R[c].status # "ABSENT" <=> R[p].batch

Capped(R) == \A p \in Task : Cardinality(AtLarge(R, p)) <= concurrency

Deserves(R, p) ==
  \A c \in Children(p) :
    R[c].status \in Terminal /\ (p \notin BestEffort => R[c].status = "COMPLETED")
Earned(R) == \A p \in Task : R[p].batch /\ R[p].status = "COMPLETED" => Deserves(R, p)

\* p is a batch that goes on: it uses its places, and has a child to wait for
Live(R, p) == R[p].batch /\ Pending(R, p) /\ ~R[p].cancelReq
Settled(R, p) ==
  Live(R, p) =>
    /\ (\E c \in Children(p) : Parked(R, c)) /\ (\A c \in Children(p) : ~R[c].batch)
       => Cardinality(AtLarge(R, p)) = concurrency
    /\ \E c \in Children(p) : Pending(R, c) \/ R[c].batch

\* The rows between two pieces of a transaction, in which X is unsettled
Sound(R, X) ==
  /\ concurrency \in Nat \ {0}
  /\ R \in [Task -> Row] /\ Family(R) /\ Capped(R) /\ Earned(R)
  /\ \A p \in Task \ X : Settled(R, p)

\* A task that has fanned out runs its Skill no more
SkillOnce == \A t \in Task : run[t] = "skill" => ~rows[t].batch

IInv == TypeOK /\ Sound(rows, {}) /\ SkillOnce

LEMMA IInvImplies == IInv => Inv /\ FanInIsAtomic /\ SuccessIsEarned
<1> SUFFICES ASSUME IInv PROVE Inv /\ FanInIsAtomic /\ SuccessIsEarned
  OBVIOUS
<1>0. Sound(rows, {}) /\ \A p \in Task : Settled(rows, p)
  BY DEF IInv, Sound
<1>1. ConcurrencyCap
  BY <1>0 DEF Sound, Capped, AtLarge, ConcurrencyCap
<1>2. NoLostPlace
  BY <1>0 DEF NoLostPlace, Settled, Live, AtLarge, Batch
<1>3. FanInIsAtomic
  BY <1>0 DEF FanInIsAtomic, Settled, Live, Batch
<1>4. SuccessIsEarned
  BY <1>0 DEF Sound, Earned, Deserves, SuccessIsEarned, Batch
<1> QED BY <1>1, <1>2, <1>3, <1>4 DEF Inv, IInv

LEMMA InitHolds == Init => IInv
<1> SUFFICES ASSUME Init PROVE IInv
  OBVIOUS
<1>1. /\ Fresh("QUEUED", FALSE) \in Row /\ Fresh("ABSENT", FALSE) \in Row
      /\ ~Fresh("QUEUED", FALSE).batch /\ ~Fresh("ABSENT", FALSE).batch
      /\ Fresh("ABSENT", FALSE).status = "ABSENT"
  BY DEF Fresh, Row, Idle
<1>2. /\ rows \in [Task -> Row] /\ \A t \in Task : ~rows[t].batch
      /\ \A t \in Task : t # Root => rows[t].status = "ABSENT"
  BY <1>1 DEF Init
<1>3. TypeOK
  BY <1>2 DEF Init, TypeOK
<1>4. \A p \in Task : AtLarge(rows, p) = {}
  BY <1>2, Above DEF AtLarge, Active, Pending, Idle
<1>5. Capped(rows) /\ concurrency \in Nat \ {0}
  <2>1. concurrency \in Nat \ {0}
    BY Limits DEF Init
  <2>2. \A p \in Task : Cardinality(AtLarge(rows, p)) = 0
    BY <1>4, FS_EmptySet
  <2> QED BY <2>1, <2>2 DEF Capped
<1>6. Family(rows) /\ Earned(rows) /\ (\A p \in Task : Settled(rows, p)) /\ SkillOnce
  BY <1>2, Above DEF Family, Earned, Settled, Live, SkillOnce
<1> QED BY <1>2, <1>3, <1>5, <1>6 DEF IInv, Sound

-----------------------------------------------------------------------------
(* Children at large, counted. *)

LEMMA FewAtLarge ==
  ASSUME NEW R, NEW p \in Task
  PROVE  /\ IsFiniteSet(Children(p)) /\ IsFiniteSet(AtLarge(R, p))
         /\ Cardinality(AtLarge(R, p)) \in Nat
<1>1. IsFiniteSet(Children(p))
  BY Tree, FS_Subset DEF Children
<1>2. IsFiniteSet(AtLarge(R, p))
  BY <1>1, FS_Subset DEF AtLarge
<1> QED BY <1>1, <1>2, FS_CardinalityType

LEMMA FewerAtLarge ==
  ASSUME NEW R, NEW Q, NEW p \in Task, \A c \in Children(p) : Active(Q, c) => Active(R, c)
  PROVE  /\ Cardinality(AtLarge(Q, p)) <= Cardinality(AtLarge(R, p))
         /\ (\A c \in Children(p) : Active(R, c) => Active(Q, c)) => AtLarge(Q, p) = AtLarge(R, p)
<1>1. AtLarge(Q, p) \subseteq AtLarge(R, p)
  BY DEF AtLarge
<1>2. Cardinality(AtLarge(Q, p)) <= Cardinality(AtLarge(R, p))
  BY <1>1, FewAtLarge, FS_Subset
<1> QED BY <1>2 DEF AtLarge

-----------------------------------------------------------------------------
(* Steps in which no child comes to be at large. *)

\* What such a step may do to each row
Fewer(R, Q) ==
  /\ Q \in [Task -> Row]
  /\ \A t \in Task :
       /\ Q[t].batch = R[t].batch
       /\ Q[t].status = "ABSENT" <=> R[t].status = "ABSENT"
       /\ R[t].status \in Terminal => Q[t].status = R[t].status
       /\ Q[t].batch /\ Q[t].status = "COMPLETED" => R[t].status = "COMPLETED" \/ Deserves(R, t)
       /\ Active(Q, t) => Active(R, t)

\* p goes on as it did: its children did not change, or one of them is a batch
GoesOn(R, Q, p) ==
  /\ Live(R, p)
  /\ \/ \E c \in Children(p) : Q[c].batch
     \/ \A c \in Children(p) : /\ Active(R, c) => Active(Q, c)
                               /\ Parked(Q, c) => Parked(R, c)
                               /\ Pending(R, c) => Pending(Q, c)

LEMMA FewerKeeps ==
  ASSUME NEW R, NEW Q, NEW X, NEW Y, Sound(R, X), Fewer(R, Q),
         \A p \in Task \ Y : Live(Q, p) => p \notin X /\ GoesOn(R, Q, p)
  PROVE  Sound(Q, Y)
<1>1. Family(Q)
  BY Above DEF Family, Sound, Fewer
<1>2. Capped(Q)
  <2> SUFFICES ASSUME NEW p \in Task PROVE Cardinality(AtLarge(Q, p)) <= concurrency
    BY DEF Capped
  <2>1. \A c \in Children(p) : Active(Q, c) => Active(R, c)
    BY Above DEF Fewer
  <2>2. Cardinality(AtLarge(Q, p)) <= Cardinality(AtLarge(R, p))
    BY <2>1, FewerAtLarge
  <2>3. Cardinality(AtLarge(R, p)) <= concurrency
    BY DEF Sound, Capped
  <2>4. Cardinality(AtLarge(R, p)) \in Nat /\ Cardinality(AtLarge(Q, p)) \in Nat
    BY FewAtLarge
  <2> QED BY <2>2, <2>3, <2>4 DEF Sound
<1>3. Earned(Q)
  <2> SUFFICES ASSUME NEW p \in Task, Q[p].batch, Q[p].status = "COMPLETED" PROVE Deserves(Q, p)
    BY DEF Earned
  <2>1. Deserves(R, p)
    BY DEF Fewer, Sound, Earned
  <2> QED BY <2>1, Above DEF Deserves, Fewer
<1>4. ASSUME NEW p \in Task \ Y, Live(Q, p)
      PROVE  /\ (\E c \in Children(p) : Parked(Q, c)) /\ (\A c \in Children(p) : ~Q[c].batch)
                => Cardinality(AtLarge(Q, p)) = concurrency
             /\ \E c \in Children(p) : Pending(Q, c) \/ Q[c].batch
  <2>1. p \in Task \ X /\ GoesOn(R, Q, p)
    BY <1>4
  <2>2. Settled(R, p) /\ Live(R, p)
    BY <2>1 DEF Sound, GoesOn
  <2>3. CASE \E c \in Children(p) : Q[c].batch
    BY <2>3
  <2>4. CASE \A c \in Children(p) : ~Q[c].batch
    <3>1. \A c \in Children(p) : /\ Active(R, c) => Active(Q, c)
                                 /\ Parked(Q, c) => Parked(R, c)
                                 /\ Pending(R, c) => Pending(Q, c)
      BY <2>1, <2>4 DEF GoesOn
    <3>2. \A c \in Children(p) : (Active(Q, c) => Active(R, c)) /\ Q[c].batch = R[c].batch
      BY Above DEF Fewer
    <3>3. AtLarge(Q, p) = AtLarge(R, p)
      BY <3>1, <3>2, FewerAtLarge
    <3> QED BY <2>2, <2>4, <3>1, <3>2, <3>3 DEF Settled
  <2> QED BY <2>3, <2>4
<1> QED BY <1>1, <1>2, <1>3, <1>4 DEF Sound, Settled, Fewer

\* A step of one execution between two transactions: the task stays at large,
\* or is told to stop
LEMMA CalmKeeps ==
  ASSUME NEW R, NEW Q, NEW t \in Task, Sound(R, {}), Q = [R EXCEPT ![t] = Q[t]], Q[t] \in Row,
         Active(R, t), Active(Q, t), Q[t].batch = R[t].batch, R[t].cancelReq => Q[t].cancelReq
  PROVE  Sound(Q, {})
<1>1. R \in [Task -> Row] /\ \A u \in Task : u # t => Q[u] = R[u]
  BY DEF Sound
<1>2. Q \in [Task -> Row]
  BY <1>1
<1>3. /\ R[t].status \in Idle \cup {"RUNNING"} /\ Q[t].status \in Idle \cup {"RUNNING"}
      /\ ~Parked(Q, t)
  BY DEF Active, Pending
<1>4. Fewer(R, Q)
  BY <1>1, <1>2, <1>3 DEF Fewer, Idle, Terminal, Active, Pending, Parked
<1>5. ASSUME NEW p \in Task, Live(Q, p) PROVE GoesOn(R, Q, p)
  <2>1. Live(R, p)
    BY <1>1, <1>3, <1>5 DEF Live, Pending
  <2>2. \A c \in Task : /\ Active(R, c) => Active(Q, c)
                        /\ Parked(Q, c) => Parked(R, c)
                        /\ Pending(R, c) => Pending(Q, c)
    BY <1>1, <1>3 DEF Active, Pending, Parked
  <2> QED BY <2>1, <2>2, Above DEF GoesOn
<1> QED BY <1>4, <1>5, FewerKeeps

\* Q are the rows R after t has ended with status s
Ended(R, Q, t, s) ==
  \E x \in Row : Q = [R EXCEPT ![t] = x] /\ x.status = s /\ x.batch = R[t].batch
EndedAsked(R, Q, t, s) ==
  \E x \in Row : /\ Q = [R EXCEPT ![t] = x]
                 /\ x.status = s /\ x.batch = R[t].batch /\ x.cancelReq

\* The end of a task, row by row
LEMMA EndedRow ==
  ASSUME NEW R \in [Task -> Row], NEW t \in Task, NEW s \in Terminal
  PROVE  Ended(R, End(R, t, s, FALSE), t, s)
<1> DEFINE x == [R[t] EXCEPT !.status = s, !.cancelReq = R[t].cancelReq \/ FALSE]
<1>1. End(R, t, s, FALSE) = [R EXCEPT ![t] = x]
  BY DEF End, Row
<1>2. x \in Row /\ x.status = s /\ x.batch = R[t].batch
  BY DEF Row
<1> HIDE DEF x
<1> QED BY <1>1, <1>2 DEF Ended

LEMMA CancelledEnd ==
  ASSUME NEW R \in [Task -> Row], NEW t \in Task, NEW s \in Terminal
  PROVE  EndedAsked(R, End(R, t, s, TRUE), t, s)
<1> DEFINE x == [R[t] EXCEPT !.status = s, !.cancelReq = R[t].cancelReq \/ TRUE]
<1>1. End(R, t, s, TRUE) = [R EXCEPT ![t] = x]
  BY DEF End, Row
<1>2. x \in Row /\ x.status = s /\ x.batch = R[t].batch /\ x.cancelReq
  BY DEF Row
<1> HIDE DEF x
<1> QED BY <1>1, <1>2 DEF EndedAsked

\* The end of a task leaves its parent unsettled
LEMMA EndKeeps ==
  ASSUME NEW R, NEW t \in Task, NEW x \in Row, NEW Q, Q = [R EXCEPT ![t] = x],
         x.status \in Terminal, x.batch = R[t].batch, x.status = "COMPLETED" => ~x.batch,
         Sound(R, {}), Pending(R, t)
  PROVE  Sound(Q, {ParentOf[t]})
<1>1. R \in [Task -> Row]
  BY DEF Sound
<1>4. Q \in [Task -> Row] /\ Q[t] = x /\ \A u \in Task : u # t => Q[u] = R[u]
  BY <1>1
<1>5. R[t].status \in Idle \cup {"RUNNING"} /\ x.status \notin Idle \cup {"RUNNING", "ABSENT"}
      /\ ~Pending(Q, t)
  BY <1>4 DEF Pending, Idle, Terminal
<1>6. Fewer(R, Q)
  <2>1. ASSUME NEW u \in Task, u # t PROVE Active(Q, u) <=> Active(R, u)
    BY <1>4, <2>1 DEF Active, Pending, Parked
  <2> QED BY <1>4, <1>5, <2>1 DEF Fewer, Idle, Terminal, Active, Sound, Earned
<1>7. ASSUME NEW p \in Task \ {ParentOf[t]}, Live(Q, p) PROVE GoesOn(R, Q, p)
  <2>1. p # t
    BY <1>5, <1>7 DEF Live
  <2>2. \A c \in Children(p) : c # t /\ c \in Task
    BY <1>7, Above
  <2> QED BY <1>4, <1>7, <2>1, <2>2 DEF GoesOn, Live, Active, Pending, Parked
<1> QED BY <1>6, <1>7, FewerKeeps

\* What cancel_children reaches is below, hit, and follows from what is above it
LEMMA ReachedIs ==
  ASSUME NEW R, NEW p \in Task
  PROVE  /\ \A t \in Reached(R, p) :
              /\ t \in Task /\ t # p /\ Hit(R, t) /\ (ParentOf[t] = p \/ ParentOf[t] \in Reached(R, p))
         /\ \A t \in Task : /\ Hit(R, t) /\ (ParentOf[t] = p \/ ParentOf[t] \in Reached(R, p))
                            /\ Depth[p] < Depth[t] /\ Depth[t] <= Depth[p] + CascadeDepth
                            => t \in Reached(R, p)
<1> DEFINE hits == {t \in Task : /\ Depth[p] < Depth[t] /\ Depth[t] <= Depth[p] + CascadeDepth
                                 /\ Hit(R, t)}
           Chain(S) == \A t \in S : ParentOf[t] = p \/ ParentOf[t] \in S
<1>1. Reached(R, p) = UNION {S \in SUBSET hits : Chain(S)}
  BY DEF Reached
<1>2. ASSUME NEW t \in Reached(R, p)
      PROVE  t \in hits /\ (ParentOf[t] = p \/ ParentOf[t] \in Reached(R, p))
  <2>1. PICK S \in SUBSET hits : Chain(S) /\ t \in S
    BY <1>1
  <2> QED BY <1>1, <2>1
<1>3. ASSUME NEW t \in hits, ParentOf[t] = p PROVE t \in Reached(R, p)
  <2>1. {t} \in SUBSET hits /\ Chain({t})
    BY <1>3
  <2> QED BY <1>1, <2>1
<1>4. ASSUME NEW t \in hits, ParentOf[t] \in Reached(R, p) PROVE t \in Reached(R, p)
  <2>1. PICK S \in SUBSET hits : Chain(S) /\ ParentOf[t] \in S
    BY <1>1, <1>4
  <2>2. S \cup {t} \in SUBSET hits /\ Chain(S \cup {t})
    BY <2>1
  <2> QED BY <1>1, <2>2
<1>5. \A t \in hits : t \in Task /\ Hit(R, t) /\ t # p
  BY Tree
<1>6. \A t \in Task : /\ Hit(R, t) /\ Depth[p] < Depth[t] /\ Depth[t] <= Depth[p] + CascadeDepth
                      => t \in hits
  OBVIOUS
<1> HIDE DEF hits
<1> QED BY <1>2, <1>3, <1>4, <1>5, <1>6

\* cancel_children, row by row
LEMMA CancelledRow ==
  ASSUME NEW R \in [Task -> Row], NEW p \in Task, NEW t \in Task
  PROVE  LET Q == CancelChildren(R, p) IN
         /\ Q \in [Task -> Row] /\ Q[t].batch = R[t].batch
         /\ t \notin Reached(R, p) => Q[t] = R[t]
         /\ t \in Reached(R, p) =>
              /\ Q[t].cancelReq
              /\ \/ R[t].status \in Idle /\ Q[t].status = "CANCELLED"
                 \/ R[t].status = "RUNNING" /\ Q[t].status = "RUNNING"
<1> DEFINE Told(u) == IF R[u].status \in Idle
                      THEN [R[u] EXCEPT !.status = "CANCELLED", !.cancelReq = TRUE]
                      ELSE [R[u] EXCEPT !.cancelReq = TRUE]
           Q == CancelChildren(R, p)
<1>1. Q = [u \in Task |-> IF u \notin Reached(R, p) THEN R[u] ELSE Told(u)]
  BY DEF CancelChildren
<1>2. ASSUME NEW u \in Task
      PROVE  /\ Told(u) \in Row /\ Told(u).batch = R[u].batch /\ Told(u).cancelReq
             /\ Told(u).status = IF R[u].status \in Idle THEN "CANCELLED" ELSE R[u].status
  <2>1. R[u] \in Row
    OBVIOUS
  <2>2. CASE R[u].status \in Idle
    BY <2>1, <2>2 DEF Row, Terminal
  <2>3. CASE R[u].status \notin Idle
    BY <2>1, <2>3 DEF Row
  <2> QED BY <2>2, <2>3
<1> HIDE DEF Told
<1>3. Q \in [Task -> Row]
  BY <1>1, <1>2
<1>4. t \in Reached(R, p) => R[t].status \in Idle \/ R[t].status = "RUNNING"
  BY ReachedIs DEF Hit
<1>5. "RUNNING" \notin Idle
  BY DEF Idle
<1> QED BY <1>1, <1>2, <1>3, <1>4, <1>5 DEF Q

\* A batch that is told or ended has no promise to keep, and the others have
\* their children as they were
LEMMA CascadeKeeps ==
  ASSUME NEW R, NEW t \in Task, NEW X, Sound(R, X), R[t].cancelReq
  PROVE  LET Q == CancelChildren(R, t) IN
         /\ Sound(Q, X) /\ Q[t] = R[t] /\ \A u \in Task : Q[u].batch = R[u].batch
<1> DEFINE Q == CancelChildren(R, t)
<1>0. R \in [Task -> Row]
  BY DEF Sound
<1>1. \A u \in Task :
         /\ Q \in [Task -> Row] /\ Q[u].batch = R[u].batch
         /\ u \notin Reached(R, t) => Q[u] = R[u]
         /\ u \in Reached(R, t) =>
              /\ Q[u].cancelReq
              /\ \/ R[u].status \in Idle /\ Q[u].status = "CANCELLED"
                 \/ R[u].status = "RUNNING" /\ Q[u].status = "RUNNING"
  BY <1>0, CancelledRow
<1>2. t \notin Reached(R, t)
  BY ReachedIs
<1> HIDE DEF Q
<1>3. Fewer(R, Q)
  <2>1. Q \in [Task -> Row]
    BY <1>1
  <2> SUFFICES ASSUME NEW u \in Task
               PROVE  /\ Q[u].batch = R[u].batch
                      /\ Q[u].status = "ABSENT" <=> R[u].status = "ABSENT"
                      /\ R[u].status \in Terminal => Q[u].status = R[u].status
                      /\ Q[u].batch /\ Q[u].status = "COMPLETED" => R[u].status = "COMPLETED"
                      /\ Active(Q, u) => Active(R, u)
    BY <2>1 DEF Fewer
  <2>2. CASE u \notin Reached(R, t)
    BY <1>1, <2>2 DEF Active, Pending, Parked
  <2>3. CASE u \in Reached(R, t)
    BY <1>1, <2>3 DEF Active, Pending, Parked, Idle, Terminal
  <2> QED BY <2>2, <2>3
<1>4. ASSUME NEW p \in Task \ X, Live(Q, p) PROVE GoesOn(R, Q, p)
  <2>1. p \notin Reached(R, t) /\ p # t
    BY <1>1, <1>2, <1>4 DEF Live
  <2>2. Q[p] = R[p]
    BY <1>1, <2>1
  <2>3. \A c \in Children(p) : c \in Task /\ c \notin Reached(R, t)
    BY <2>1, ReachedIs, Above
  <2>4. \A c \in Children(p) : Q[c] = R[c]
    BY <1>1, <2>3
  <2> QED BY <1>4, <2>2, <2>4 DEF GoesOn, Live, Active, Pending, Parked
<1>5. Sound(Q, X)
  <2>1. \A p \in Task \ X : Live(Q, p) => p \notin X /\ GoesOn(R, Q, p)
    BY <1>4
  <2> QED BY <1>3, <2>1, FewerKeeps
<1> QED BY <1>1, <1>2, <1>5 DEF Q

-----------------------------------------------------------------------------
(* settle_child. *)

\* Releasing parked children fills the places, or leaves nobody parked
LEMMA FreeFills ==
  ASSUME concurrency \in Nat \ {0}, NEW R, NEW p \in Task,
         Cardinality(AtLarge(R, p)) <= concurrency, NEW S \in Free(R, p)
  PROVE  /\ \A d \in S : d \in Children(p) /\ Parked(R, d)
         /\ AtLarge(R, p) \cup S \in SUBSET Children(p)
         /\ Cardinality(AtLarge(R, p) \cup S) <= concurrency
         /\ (\E d \in Children(p) \ S : Parked(R, d)) =>
              Cardinality(AtLarge(R, p) \cup S) = concurrency
<1> DEFINE parked == {d \in Children(p) : Parked(R, d)}
           active == Cardinality(AtLarge(R, p))
           slots  == IF active < concurrency THEN concurrency - active ELSE 0
           n      == IF Cardinality(parked) < slots THEN Cardinality(parked) ELSE slots
<1>1. S \in SUBSET parked /\ Cardinality(S) = n
  BY DEF Free, AtLarge
<1>2. IsFiniteSet(parked) /\ IsFiniteSet(S) /\ Cardinality(parked) \in Nat /\ Cardinality(S) \in Nat
  <2>1. IsFiniteSet(parked)
    BY FewAtLarge, FS_Subset
  <2> QED BY <1>1, <2>1, FS_Subset, FS_CardinalityType
<1>3. IsFiniteSet(AtLarge(R, p)) /\ active \in Nat
  BY FewAtLarge
<1>4. AtLarge(R, p) \cap S = {}
  BY <1>1 DEF AtLarge, Active
<1>5. Cardinality(AtLarge(R, p) \cup S) = active + Cardinality(S)
  <2>1. Cardinality(AtLarge(R, p) \cup S)
        = Cardinality(AtLarge(R, p)) + Cardinality(S) - Cardinality(AtLarge(R, p) \cap S)
    BY <1>2, <1>3, FS_Union
  <2>2. Cardinality(AtLarge(R, p) \cap S) = 0
    BY <1>4, FS_EmptySet
  <2> QED BY <1>2, <1>3, <2>1, <2>2
<1>6. \A d \in S : d \in Children(p) /\ Parked(R, d)
  BY <1>1
<1>7. (\E d \in Children(p) \ S : Parked(R, d)) => Cardinality(S) # Cardinality(parked)
  BY <1>1, <1>2, FS_Subset
<1> HIDE DEF parked, active
<1>8. slots = concurrency - active /\ slots \in Nat
  BY <1>3 DEF active
<1>9. Cardinality(S) <= slots /\ (Cardinality(S) # Cardinality(parked) => Cardinality(S) = slots)
  BY <1>1, <1>2, <1>8
<1> HIDE DEF slots
<1>10. /\ Cardinality(AtLarge(R, p) \cup S) <= concurrency
       /\ Cardinality(S) = slots => Cardinality(AtLarge(R, p) \cup S) = concurrency
  BY <1>2, <1>3, <1>5, <1>8, <1>9
<1>11. AtLarge(R, p) \cup S \in SUBSET Children(p)
  BY <1>6 DEF AtLarge
<1> QED BY <1>6, <1>7, <1>9, <1>10, <1>11

LEMMA SettleKeeps ==
  ASSUME NEW R, NEW c \in Task, Sound(R, {ParentOf[c]}), R[c].status \in Terminal,
         NEW Q \in SettleChild(R, c)
  PROVE  Sound(Q, {}) /\ \A u \in Task : Q[u].batch = R[u].batch
<1> DEFINE p == ParentOf[c]
<1>0. /\ concurrency \in Nat \ {0}
      /\ R \in [Task -> Row] /\ Family(R) /\ Capped(R) /\ Earned(R)
      /\ \A q \in Task \ {p} : Settled(R, q)
  BY DEF Sound
<1>1. CASE c = Root
  <2>1. Q = R
    BY <1>1 DEF SettleChild
  <2> QED BY <1>0, <1>1, <2>1, Tree DEF Sound
<1>2. CASE c # Root
  <2>0. p \in Task /\ c \in Children(p)
    BY <1>2, Tree DEF Children
  <2> HIDE DEF p
  <2>1. ASSUME Q = R, Settled(R, p) PROVE Sound(Q, {})
    BY <1>0, <2>1 DEF Sound
  <2>2. CASE R[p].status \in Terminal
    <3>1. Q = R
      BY <1>2, <2>2 DEF SettleChild, p
    <3>2. Settled(R, p)
      BY <2>2 DEF Settled, Live, Pending, Terminal, Idle
    <3> QED BY <2>1, <3>1, <3>2
  <2>3. CASE R[p].status \notin Terminal /\ \E d \in Children(p) : Pending(R, d)
    <3>1. PICK S \in Free(R, p) :
            Q = [u \in Task |-> IF u \in S THEN [R[u] EXCEPT !.parked = FALSE] ELSE R[u]]
      BY <1>2, <2>3 DEF SettleChild, p
    <3>2. /\ \A d \in S : d \in Children(p) /\ Parked(R, d)
          /\ AtLarge(R, p) \cup S \in SUBSET Children(p)
          /\ Cardinality(AtLarge(R, p) \cup S) <= concurrency
          /\ (\E d \in Children(p) \ S : Parked(R, d)) =>
               Cardinality(AtLarge(R, p) \cup S) = concurrency
      BY <1>0, <2>0, FreeFills DEF Capped
    <3>3. /\ Q \in [Task -> Row]
          /\ \A u \in Task : /\ Q[u].status = R[u].status /\ Q[u].batch = R[u].batch
                             /\ Q[u].cancelReq = R[u].cancelReq
                             /\ Q[u].parked = (R[u].parked /\ u \notin S)
      <4>1. ASSUME NEW u \in Task
            PROVE  LET y == IF u \in S THEN [R[u] EXCEPT !.parked = FALSE] ELSE R[u]
                   IN  /\ y \in Row /\ y.status = R[u].status /\ y.batch = R[u].batch
                       /\ y.cancelReq = R[u].cancelReq /\ y.parked = (R[u].parked /\ u \notin S)
        <5>1. R[u] \in Row
          BY <1>0
        <5> QED BY <5>1 DEF Row
      <4> QED BY <3>1, <4>1
    <3>4. \A u \in Task : /\ Pending(Q, u) <=> Pending(R, u)
                          /\ Parked(Q, u) <=> Parked(R, u) /\ u \notin S
                          /\ u \notin S => (Active(Q, u) <=> Active(R, u))
                          /\ u \in S => Active(Q, u)
      <4>1. \A u \in S : R[u].status = "QUEUED"
        BY <3>2 DEF Parked
      <4> QED BY <3>3, <4>1 DEF Active, Pending, Parked, Idle
    <3>5. AtLarge(Q, p) = AtLarge(R, p) \cup S
      BY <2>0, <3>2, <3>4, Above DEF AtLarge
    <3>6. \A q \in Task : q # p => \A d \in Children(q) : d \notin S /\ d \in Task
      BY <3>2 DEF Children
    <3>7. \A q \in Task : q # p => AtLarge(Q, q) = AtLarge(R, q)
      BY <3>4, <3>6 DEF AtLarge
    <3>8. Family(Q) /\ Earned(Q)
      BY <1>0, <3>3, Above DEF Family, Earned, Deserves
    <3>9. Capped(Q)
      BY <1>0, <3>2, <3>5, <3>7 DEF Capped
    <3>10. Settled(Q, p)
      <4>1. \E d \in Children(p) : Pending(Q, d)
        BY <2>0, <2>3, <3>4, Above
      <4>2. (\E d \in Children(p) : Parked(Q, d)) => \E d \in Children(p) \ S : Parked(R, d)
        BY <2>0, <3>4, Above
      <4> QED BY <3>2, <3>5, <4>1, <4>2 DEF Settled
    <3>11. ASSUME NEW q \in Task, q # p PROVE Settled(Q, q)
      <4>1. Settled(R, q)
        BY <1>0, <3>11
      <4>2. \A d \in Children(q) : /\ Pending(Q, d) <=> Pending(R, d)
                                   /\ Parked(Q, d) <=> Parked(R, d)
                                   /\ Q[d].batch = R[d].batch
        BY <3>3, <3>4, <3>6, <3>11
      <4>3. Live(Q, q) <=> Live(R, q)
        BY <3>3, <3>4 DEF Live
      <4> QED BY <3>7, <3>11, <4>1, <4>2, <4>3 DEF Settled
    <3> QED BY <3>3, <3>8, <3>9, <3>10, <3>11 DEF Sound
  <2>4. CASE /\ R[p].status \notin Terminal /\ (\A d \in Children(p) : ~Pending(R, d)) /\ R[p].cancelReq
    <3>1. Q = R
      BY <1>2, <2>4 DEF SettleChild, p
    <3>2. Settled(R, p)
      BY <2>4 DEF Settled, Live
    <3> QED BY <2>1, <3>1, <3>2
  <2>5. CASE /\ R[p].status \notin Terminal /\ (\A d \in Children(p) : ~Pending(R, d)) /\ ~R[p].cancelReq
    <3>1. Q = [R EXCEPT ![p].status = Aggregate(R, p)]
      BY <1>2, <2>5 DEF SettleChild, p
    <3>2. Aggregate(R, p) \in {"COMPLETED", "FAILED"}
      BY DEF Aggregate
    <3> DEFINE x == [R[p] EXCEPT !.status = Aggregate(R, p)]
    <3>3. x \in Row /\ x.status = Aggregate(R, p) /\ x.batch = R[p].batch
      BY <1>0, <2>0, <3>2 DEF Row, Terminal
    <3> HIDE DEF x
    <3>4. Q \in [Task -> Row] /\ Q[p] = x /\ \A u \in Task : u # p => Q[u] = R[u]
      <4>1. Q = [R EXCEPT ![p] = x]
        BY <1>0, <2>0, <3>1 DEF x
      <4> QED BY <1>0, <2>0, <3>3, <4>1
    <3>5. R[p].batch /\ R[p].status # "ABSENT"
      BY <1>0, <2>0 DEF Family, Terminal
    <3>6. Aggregate(R, p) = "COMPLETED" => Deserves(R, p)
      <4>1. \A d \in Children(p) : R[d].status \in Terminal
        <5> SUFFICES ASSUME NEW d \in Children(p) PROVE R[d].status \in Terminal
          OBVIOUS
        <5>1. R[d] \in Row /\ R[d].status # "ABSENT" /\ ~Pending(R, d)
          BY <1>0, <2>0, <2>5, <3>5, Above DEF Family
        <5> QED BY <5>1 DEF Row, Pending
      <4> QED BY <4>1 DEF Aggregate, Deserves
    <3>7. ~Pending(Q, p) /\ ~Active(Q, p) /\ Q[p].status # "ABSENT" /\ Q[p].batch
      BY <3>2, <3>3, <3>4, <3>5 DEF Active, Pending, Idle
    <3>8. Fewer(R, Q)
      <4>1. \A u \in Task : u # p => (Active(Q, u) <=> Active(R, u))
        BY <3>4 DEF Active, Pending, Parked
      <4>2. \A u \in Task : Q[u].batch /\ Q[u].status = "COMPLETED" =>
                              R[u].status = "COMPLETED" \/ Deserves(R, u)
        BY <3>3, <3>4, <3>6
      <4> QED BY <2>5, <3>3, <3>4, <3>5, <3>7, <4>1, <4>2 DEF Fewer
    <3>9. ASSUME NEW q \in Task, Live(Q, q) PROVE q # p /\ GoesOn(R, Q, q)
      <4>1. q # p
        BY <3>7, <3>9 DEF Live
      <4>2. Q[q] = R[q] /\ Live(R, q)
        BY <3>4, <3>9, <4>1 DEF Live, Pending
      <4>3. CASE p \in Children(q)
        BY <3>7, <4>1, <4>2, <4>3 DEF GoesOn
      <4>4. CASE p \notin Children(q)
        <5>1. \A d \in Children(q) : Q[d] = R[d]
          BY <3>4, <3>9, <4>4, Above
        <5> QED BY <4>1, <4>2, <5>1 DEF GoesOn, Active, Pending, Parked
      <4> QED BY <4>1, <4>3, <4>4
    <3>10. Sound(Q, {})
      <4>1. \A q \in Task \ {} : Live(Q, q) => q \notin {p} /\ GoesOn(R, Q, q)
        BY <3>9
      <4>2. Sound(R, {p})
        BY DEF p
      <4> QED BY <3>8, <4>1, <4>2, FewerKeeps
    <3> QED BY <3>3, <3>4, <3>10
  <2> QED BY <2>2, <2>3, <2>4, <2>5
<1> QED BY <1>1, <1>2

-----------------------------------------------------------------------------
(* The transactions. *)

\* Only fan-in ends a batch with success
MayEnd(R, t, s) == s = "COMPLETED" => ~R[t].batch

\* A transaction that ends t, all of it
LEMMA EndsKeep ==
  ASSUME NEW t \in Task, NEW s \in Terminal, Sound(rows, {}), Pending(rows, t),
         MayEnd(rows, t, s), Ends(t, s)
  PROVE  Sound(rows', {}) /\ \A u \in Task : rows'[u].batch = rows[u].batch
<1>0. rows \in [Task -> Row]
  BY DEF Sound
<1>3. EndedAsked(rows, End(rows, t, s, TRUE), t, s)
  BY <1>0, CancelledEnd
<1>4. Ended(rows, End(rows, t, s, FALSE), t, s)
  BY <1>0, EndedRow
<1>1. CASE s = "CANCELLED"
  <2>1. PICK x \in Row :
          /\ End(rows, t, s, TRUE) = [rows EXCEPT ![t] = x]
          /\ x.status = s /\ x.batch = rows[t].batch /\ x.cancelReq
    BY <1>3 DEF EndedAsked
  <2>2. PICK R : R = [rows EXCEPT ![t] = x]
    OBVIOUS
  <2>3. PICK Q : Q = CancelChildren(R, t)
    OBVIOUS
  <2>4. rows' \in SettleChild(Q, t)
    BY <1>1, <2>1, <2>2, <2>3 DEF Ends
  <2>5. Sound(R, {ParentOf[t]})
    BY <1>1, <2>1, <2>2, EndKeeps
  <2>6. R[t] = x /\ \A u \in Task : R[u].batch = rows[u].batch
    BY <1>0, <2>1, <2>2
  <2>7. Sound(Q, {ParentOf[t]}) /\ Q[t] = R[t] /\ \A u \in Task : Q[u].batch = R[u].batch
    BY <2>1, <2>3, <2>5, <2>6, CascadeKeeps
  <2>8. Sound(rows', {}) /\ \A u \in Task : rows'[u].batch = Q[u].batch
    BY <2>1, <2>4, <2>6, <2>7, SettleKeeps
  <2> QED BY <2>6, <2>7, <2>8
<1>2. CASE s # "CANCELLED"
  <2>1. PICK x \in Row :
          /\ End(rows, t, s, FALSE) = [rows EXCEPT ![t] = x]
          /\ x.status = s /\ x.batch = rows[t].batch
    BY <1>4 DEF Ended
  <2>2. PICK R : R = [rows EXCEPT ![t] = x]
    OBVIOUS
  <2>3. rows' \in SettleChild(R, t)
    BY <1>2, <2>1, <2>2 DEF Ends
  <2>4. Sound(R, {ParentOf[t]})
    BY <2>1, <2>2, EndKeeps DEF MayEnd
  <2>5. R[t] = x /\ \A u \in Task : R[u].batch = rows[u].batch
    BY <1>0, <2>1, <2>2
  <2>6. Sound(rows', {}) /\ \A u \in Task : rows'[u].batch = R[u].batch
    BY <2>1, <2>3, <2>4, <2>5, SettleKeeps
  <2> QED BY <2>5, <2>6
<1> QED BY <1>1, <1>2

\* The width is frozen, so rows that are sound now are sound after the step
LEMMA WidthIsFrozen ==
  ASSUME Sound(rows', {}), concurrency' = concurrency
  PROVE  Sound(rows, {})'
<1>1. Capped(rows)' /\ \A p \in Task : Settled(rows, p)'
  BY DEF Sound, Capped, Settled
<1> QED BY <1>1 DEF Sound

\* fan_out: its children are all new, and its places full if one is parked
LEMMA FanOutKeeps ==
  ASSUME IInv, NEW t \in Task, FanOut(t)
  PROVE  IInv'
<1>0. /\ TypeOK /\ Sound(rows, {}) /\ SkillOnce /\ concurrency \in Nat \ {0}
      /\ rows \in [Task -> Row] /\ Family(rows) /\ Capped(rows) /\ Earned(rows)
      /\ \A q \in Task : Settled(rows, q)
  BY DEF IInv, Sound
<1>1. /\ run[t] = "skill" /\ rows[t].status = "RUNNING" /\ Children(t) # {}
      /\ run' = [run EXCEPT ![t] = "parking"] /\ UNCHANGED <<lapsed, overdue, concurrency>>
  BY DEF FanOut, OwnsForFanOut
<1>2. PICK S \in SUBSET Children(t) :
        /\ Cardinality(S) = IF Cardinality(Children(t)) < concurrency
                            THEN Cardinality(Children(t)) ELSE concurrency
        /\ rows' = [c \in Task |->
                      IF c = t THEN [rows[t] EXCEPT !.batch = TRUE]
                      ELSE IF c \in Children(t) /\ rows[c].status = "ABSENT"
                           THEN Fresh("QUEUED", c \notin S) ELSE rows[c]]
  BY DEF FanOut
<1>3. ~rows[t].batch /\ \A c \in Children(t) : rows[c].status = "ABSENT" /\ ~rows[c].batch
  BY <1>0, <1>1, Above DEF SkillOnce, Family
<1> DEFINE x == [rows[t] EXCEPT !.batch = TRUE]
<1>4. /\ x \in Row /\ x.status = "RUNNING" /\ x.batch /\ x.cancelReq = rows[t].cancelReq
  BY <1>0, <1>1 DEF Row
<1> HIDE DEF x
<1>5. rows'[t] = x
  BY <1>2 DEF x
<1>6. \A c \in Children(t) : rows'[c] = Fresh("QUEUED", c \notin S)
  BY <1>2, <1>3, Above
<1>7. \A u \in Task : u # t /\ u \notin Children(t) => rows'[u] = rows[u]
  BY <1>2
<1>8. \A c \in Children(t) :
         /\ rows'[c] \in Row /\ rows'[c].status = "QUEUED" /\ rows'[c].parked = (c \notin S)
         /\ ~rows'[c].batch
  <2>1. ASSUME NEW b \in BOOLEAN
        PROVE  /\ Fresh("QUEUED", b) \in Row /\ Fresh("QUEUED", b).status = "QUEUED"
               /\ Fresh("QUEUED", b).parked = b /\ ~Fresh("QUEUED", b).batch
    BY DEF Fresh, Row, Idle
  <2> QED BY <1>6, <2>1
<1>9. rows' \in [Task -> Row]
  <2>1. \A u \in Task : rows'[u] \in Row
    BY <1>0, <1>4, <1>5, <1>7, <1>8
  <2>2. rows' = [u \in Task |-> rows'[u]]
    BY <1>2
  <2> QED BY <2>1, <2>2
<1>10. \A c \in Children(t) : /\ Pending(rows', c) /\ (Parked(rows', c) <=> c \notin S)
                              /\ (Active(rows', c) <=> c \in S)
  BY <1>8 DEF Pending, Parked, Active, Idle
<1>11. AtLarge(rows', t) = S
  BY <1>2, <1>10 DEF AtLarge
<1>12. IsFiniteSet(Children(t)) /\ Cardinality(Children(t)) \in Nat
       /\ ((\E c \in Children(t) : c \notin S) => Cardinality(S) = concurrency)
       /\ Cardinality(S) <= concurrency
  <2>1. IsFiniteSet(Children(t)) /\ Cardinality(Children(t)) \in Nat
    BY FewAtLarge, FS_CardinalityType
  <2>2. (\E c \in Children(t) : c \notin S) => Cardinality(S) # Cardinality(Children(t))
    BY <2>1, FS_Subset
  <2> QED BY <1>0, <1>2, <2>1, <2>2
<1>13. ASSUME NEW q \in Task, q # t
       PROVE  \A c \in Children(q) : /\ c \in Task /\ rows'[c].status = rows[c].status
                                     /\ rows'[c].parked = rows[c].parked
                                     /\ (rows[c].batch => rows'[c].batch)
  <2> SUFFICES ASSUME NEW c \in Children(q)
               PROVE  /\ c \in Task /\ rows'[c].status = rows[c].status
                      /\ rows'[c].parked = rows[c].parked /\ (rows[c].batch => rows'[c].batch)
    OBVIOUS
  <2>1. c \in Task /\ c \notin Children(t)
    BY <1>13, Above
  <2>2. x.parked = rows[t].parked
    BY <1>0 DEF x, Row
  <2> QED BY <1>1, <1>4, <1>5, <1>7, <2>1, <2>2
<1>14. ASSUME NEW q \in Task, q # t, q \notin Children(t)
       PROVE  /\ rows'[q] = rows[q]
              /\ AtLarge(rows', q) = AtLarge(rows, q)
              /\ \A c \in Children(q) : /\ Pending(rows', c) <=> Pending(rows, c)
                                        /\ Parked(rows', c) <=> Parked(rows, c)
  <2>1. \A c \in Children(q) : /\ Pending(rows', c) <=> Pending(rows, c)
                               /\ Parked(rows', c) <=> Parked(rows, c)
                               /\ Active(rows', c) <=> Active(rows, c)
    BY <1>13, <1>14 DEF Pending, Parked, Active
  <2> QED BY <1>7, <1>14, <2>1 DEF AtLarge
<1>15. \A q \in Children(t) : AtLarge(rows', q) = {}
  <2> SUFFICES ASSUME NEW q \in Children(t), NEW c \in Children(q) PROVE ~Active(rows', c)
    BY DEF AtLarge
  <2>1. q \in Task /\ q # t
    BY Above
  <2>2. rows'[c].status = "ABSENT"
    BY <1>0, <1>3, <1>13, <2>1 DEF Family
  <2> QED BY <2>2 DEF Active, Pending, Idle
<1>16. Family(rows')
  <2>1. ASSUME NEW q \in Task, rows'[q].batch PROVE rows'[q].status # "ABSENT"
    BY <1>0, <1>4, <1>5, <1>7, <1>8, <2>1 DEF Family
  <2>2. ASSUME NEW q \in Task, NEW c \in Children(q)
        PROVE  rows'[c].status # "ABSENT" <=> rows'[q].batch
    <3>1. CASE q = t
      BY <1>4, <1>5, <1>8, <3>1
    <3>2. CASE q # t
      <4>1. rows'[q].batch <=> rows[q].batch
        BY <1>3, <1>7, <1>8, <3>2
      <4>2. rows'[c].status = rows[c].status
        BY <1>13, <3>2
      <4> QED BY <1>0, <4>1, <4>2 DEF Family
    <3> QED BY <3>1, <3>2
  <2> QED BY <2>1, <2>2 DEF Family
<1>17. Capped(rows')
  <2> SUFFICES ASSUME NEW q \in Task PROVE Cardinality(AtLarge(rows', q)) <= concurrency
    BY DEF Capped
  <2>1. CASE q = t
    BY <1>11, <1>12, <2>1
  <2>2. CASE q \in Children(t)
    BY <1>0, <1>15, <2>2, FS_EmptySet
  <2>3. CASE q # t /\ q \notin Children(t)
    BY <1>0, <1>14, <2>3 DEF Capped
  <2> QED BY <2>1, <2>2, <2>3
<1>18. Earned(rows')
  <2> SUFFICES ASSUME NEW q \in Task, rows'[q].batch, rows'[q].status = "COMPLETED"
               PROVE  Deserves(rows', q)
    BY DEF Earned
  <2>1. q # t /\ q \notin Children(t)
    BY <1>4, <1>5, <1>8
  <2>2. Deserves(rows, q)
    BY <1>0, <1>7, <2>1 DEF Earned
  <2> QED BY <1>13, <2>1, <2>2 DEF Deserves
<1>19. \A q \in Task : Settled(rows', q)
  <2>1. Settled(rows', t)
    BY <1>1, <1>10, <1>11, <1>12 DEF Settled
  <2>2. \A q \in Children(t) : Settled(rows', q)
    BY <1>8 DEF Settled, Live
  <2>3. ASSUME NEW q \in Task, q # t, q \notin Children(t) PROVE Settled(rows', q)
    <3>1. Settled(rows, q)
      BY <1>0
    <3>2. Live(rows', q) <=> Live(rows, q)
      BY <1>14, <2>3 DEF Live, Pending
    <3>3. \A c \in Children(q) : rows[c].batch => rows'[c].batch
      BY <1>13, <2>3
    <3> QED BY <1>14, <2>3, <3>1, <3>2, <3>3 DEF Settled
  <2> QED BY <2>1, <2>2, <2>3
<1>20. SkillOnce'
  <2>1. \A u \in Task : run'[u] = "skill" => u # t /\ run[u] = "skill"
    BY <1>0, <1>1 DEF TypeOK
  <2> QED BY <1>0, <1>7, <1>8, <2>1 DEF SkillOnce
<1>21. TypeOK'
  BY <1>0, <1>1, <1>9 DEF TypeOK
<1>22. Sound(rows', {})
  BY <1>0, <1>9, <1>16, <1>17, <1>18, <1>19 DEF Sound
<1> QED BY <1>1, <1>20, <1>21, <1>22, WidthIsFrozen DEF IInv

\* What the other steps leave to show
LEMMA StepKeeps ==
  ASSUME IInv, Sound(rows', {}), \A u \in Task : rows'[u].batch = rows[u].batch,
         run' \in [Task -> {"none", "skill", "parking", "refused"}],
         \A u \in Task : run'[u] = "skill" => run[u] = "skill" \/ ~rows[u].batch,
         lapsed' \in [Task -> BOOLEAN], overdue' \in BOOLEAN, concurrency' = concurrency
  PROVE  IInv'
<1>1. TypeOK'
  BY DEF TypeOK, Sound, IInv
<1>2. SkillOnce'
  BY DEF IInv, SkillOnce
<1>3. Sound(rows, {})'
  BY WidthIsFrozen
<1> QED BY <1>1, <1>2, <1>3 DEF IInv

LEMMA LeaveKeeps ==
  ASSUME IInv, NEW t \in Task, Leave(t), Sound(rows', {}),
         \A u \in Task : rows'[u].batch = rows[u].batch
  PROVE  IInv'
<1>1. /\ run' \in [Task -> {"none", "skill", "parking", "refused"}]
      /\ \A u \in Task : run'[u] = "skill" => run[u] = "skill"
      /\ lapsed' \in [Task -> BOOLEAN] /\ overdue' \in BOOLEAN /\ concurrency' = concurrency
  BY DEF IInv, TypeOK, Leave
<1> QED BY <1>1, StepKeeps

\* A row that stays at large
LEMMA RowKeeps ==
  ASSUME IInv, NEW t \in Task, NEW x \in Row, rows' = [rows EXCEPT ![t] = x],
         Active(rows, t), x.status \in {"RUNNING", "WAITING", "QUEUED"},
         x.status = "QUEUED" => ~x.parked,
         x.batch = rows[t].batch, rows[t].cancelReq => x.cancelReq
  PROVE  Sound(rows', {}) /\ \A u \in Task : rows'[u].batch = rows[u].batch
<1>0. Sound(rows, {}) /\ rows \in [Task -> Row]
  BY DEF IInv, Sound
<1>1. rows'[t] = x /\ \A u \in Task : u # t => rows'[u] = rows[u]
  BY <1>0
<1>2. Active(rows', t)
  BY <1>1 DEF Active, Pending, Parked, Idle
<1> QED BY <1>0, <1>1, <1>2, CalmKeeps

\* A task goes back to the queue
LEMMA RequeueKeeps ==
  ASSUME IInv, NEW t \in Task, rows[t].status = "RUNNING",
         rows' = [rows EXCEPT ![t].status = "QUEUED", ![t].parked = FALSE]
  PROVE  Sound(rows', {}) /\ \A u \in Task : rows'[u].batch = rows[u].batch
<1> DEFINE x == [rows[t] EXCEPT !.status = "QUEUED", !.parked = FALSE]
<1>0. rows \in [Task -> Row] /\ rows[t] \in Row
  BY DEF IInv, Sound
<1>1. rows' = [rows EXCEPT ![t] = x]
  BY <1>0 DEF Row
<1>2. x \in Row /\ x.status = "QUEUED" /\ ~x.parked /\ x.batch = rows[t].batch
      /\ x.cancelReq = rows[t].cancelReq
  BY <1>0 DEF Row, Idle
<1>3. Active(rows, t)
  BY DEF Active, Pending, Parked
<1> HIDE DEF x
<1> QED BY <1>1, <1>2, <1>3, RowKeeps

LEMMA ClaimKeeps ==
  ASSUME IInv, NEW t \in Task, Claim(t)
  PROVE  IInv'
<1> DEFINE n == IF rows[t].status = "QUEUED" THEN rows[t].attempt + 1 ELSE rows[t].attempt
           x == [rows[t] EXCEPT !.status = "RUNNING", !.attempt = n]
<1>0. rows \in [Task -> Row] /\ rows[t] \in Row
  BY DEF IInv, Sound
<1>1. rows' = [rows EXCEPT ![t] = x]
  BY <1>0 DEF Claim, Row
<1>6. n \in Nat
  BY <1>0 DEF Row
<1> HIDE DEF n
<1>2. x \in Row /\ x.status = "RUNNING" /\ x.batch = rows[t].batch /\ x.cancelReq = rows[t].cancelReq
  BY <1>0, <1>6 DEF Row
<1>3. Active(rows, t)
  BY DEF Claim, Claimable, Active, Pending, Parked
<1> HIDE DEF x
<1>4. Sound(rows', {}) /\ \A u \in Task : rows'[u].batch = rows[u].batch
  BY <1>1, <1>2, <1>3, RowKeeps
<1>5. /\ run' \in [Task -> {"none", "skill", "parking", "refused"}]
      /\ \A u \in Task : run'[u] = "skill" => run[u] = "skill" \/ ~rows[u].batch
      /\ lapsed' \in [Task -> BOOLEAN] /\ overdue' \in BOOLEAN /\ concurrency' = concurrency
  BY DEF IInv, TypeOK, Claim
<1> QED BY <1>4, <1>5, StepKeeps

LEMMA WaitKeeps ==
  ASSUME IInv, NEW t \in Task, Wait(t)
  PROVE  IInv'
<1> DEFINE x == [rows[t] EXCEPT !.status = "WAITING", !.parked = (run[t] = "parking")]
<1>0. rows \in [Task -> Row] /\ rows[t] \in Row /\ rows[t].status = "RUNNING" /\ Leave(t)
  BY DEF IInv, Sound, Wait, Owns
<1>1. rows' = [rows EXCEPT ![t] = x]
  BY <1>0 DEF Wait, Row
<1>2. x \in Row /\ x.status = "WAITING" /\ x.batch = rows[t].batch /\ x.cancelReq = rows[t].cancelReq
  BY <1>0 DEF Row, Idle
<1>3. Active(rows, t)
  BY <1>0 DEF Active, Pending, Parked
<1> HIDE DEF x
<1>4. Sound(rows', {}) /\ \A u \in Task : rows'[u].batch = rows[u].batch
  BY <1>1, <1>2, <1>3, RowKeeps
<1> QED BY <1>0, <1>4, LeaveKeeps

\* The ends of a running execution, a reclaimed one, and one that is overdue
LEMMA EndingSteps ==
  ASSUME IInv, NEW t \in Task, Conclude(t) \/ Reclaim(t) \/ Sweep(t)
  PROVE  IInv'
<1>1. Leave(t)
  BY DEF Conclude, Complete, Retry, Fail, StopRun, Reclaim, Sweep
<1>2. Sound(rows, {}) /\ {"COMPLETED", "FAILED", "CANCELLED"} \subseteq Terminal
  BY DEF IInv, Terminal
<1>3. MayEnd(rows, t, "FAILED") /\ MayEnd(rows, t, "CANCELLED")
  BY DEF MayEnd
<1>4. CASE Ends(t, "COMPLETED") /\ run[t] = "skill" /\ Pending(rows, t)
  <2>1. MayEnd(rows, t, "COMPLETED")
    BY <1>4 DEF MayEnd, IInv, SkillOnce
  <2> QED BY <1>1, <1>2, <1>4, <2>1, EndsKeep, LeaveKeeps
<1>5. CASE (Ends(t, "FAILED") \/ Ends(t, "CANCELLED")) /\ Pending(rows, t)
  <2>1. Sound(rows', {}) /\ \A u \in Task : rows'[u].batch = rows[u].batch
    BY <1>2, <1>3, <1>5, EndsKeep
  <2> QED BY <1>1, <2>1, LeaveKeeps
<1>6. CASE /\ rows' = [rows EXCEPT ![t].status = "QUEUED", ![t].parked = FALSE]
           /\ rows[t].status = "RUNNING"
  BY <1>1, <1>6, RequeueKeeps, LeaveKeeps
<1>7. rows[t].status = "RUNNING" => Pending(rows, t)
  BY DEF Pending
<1>8. Conclude(t) => \/ Ends(t, "COMPLETED") /\ run[t] = "skill" /\ rows[t].status = "RUNNING"
                     \/ (Ends(t, "FAILED") \/ Ends(t, "CANCELLED")) /\ rows[t].status = "RUNNING"
                     \/ /\ rows' = [rows EXCEPT ![t].status = "QUEUED", ![t].parked = FALSE]
                        /\ rows[t].status = "RUNNING"
  BY DEF Conclude, Complete, Retry, Fail, StopRun, Owns
<1>9. Reclaim(t) => \/ (Ends(t, "FAILED") \/ Ends(t, "CANCELLED")) /\ rows[t].status = "RUNNING"
                    \/ /\ rows' = [rows EXCEPT ![t].status = "QUEUED", ![t].parked = FALSE]
                       /\ rows[t].status = "RUNNING"
  BY DEF Reclaim
<1>10. Sweep(t) => Ends(t, "FAILED") /\ Pending(rows, t)
  BY DEF Sweep
<1> QED BY <1>4, <1>5, <1>6, <1>7, <1>8, <1>9, <1>10

\* TaskService.cancel
LEMMA CancelKeeps ==
  ASSUME IInv, NEW t \in Task, Cancel(t)
  PROVE  IInv'
<1>0. Sound(rows, {}) /\ rows \in [Task -> Row] /\ rows[t] \in Row /\ UNCHANGED <<run, lapsed, overdue, concurrency>>
  BY DEF IInv, Sound, Cancel
<1>1. Sound(rows', {}) /\ \A u \in Task : rows'[u].batch = rows[u].batch
  <2>1. CASE Ends(t, "CANCELLED") /\ rows[t].status \in Idle
    <3>1. MayEnd(rows, t, "CANCELLED") /\ "CANCELLED" \in Terminal /\ Pending(rows, t)
      BY <2>1 DEF MayEnd, Terminal, Pending
    <3> QED BY <1>0, <2>1, <3>1, EndsKeep
  <2>2. CASE /\ rows[t].status = "RUNNING"
             /\ rows' = CancelChildren([rows EXCEPT ![t].cancelReq = TRUE], t)
    <3> DEFINE x == [rows[t] EXCEPT !.cancelReq = TRUE]
    <3>1. x \in Row /\ x.status = "RUNNING" /\ x.batch = rows[t].batch /\ x.cancelReq
      BY <1>0, <2>2 DEF Row
    <3>2. [rows EXCEPT ![t].cancelReq = TRUE] = [rows EXCEPT ![t] = x]
      BY <1>0
    <3> HIDE DEF x
    <3>3. PICK R : R = [rows EXCEPT ![t] = x]
      OBVIOUS
    <3>4. R[t] = x /\ \A u \in Task : u # t => R[u] = rows[u]
      BY <1>0, <3>3
    <3>5. Active(rows, t) /\ Active(R, t)
      BY <2>2, <3>1, <3>4 DEF Active, Pending, Parked
    <3>6. Sound(R, {})
      BY <1>0, <3>1, <3>3, <3>4, <3>5, CalmKeeps
    <3>7. Sound(CancelChildren(R, t), {}) /\ \A u \in Task : CancelChildren(R, t)[u].batch = R[u].batch
      BY <3>1, <3>4, <3>6, CascadeKeeps
    <3>8. rows' = CancelChildren(R, t)
      BY <2>2, <3>2, <3>3
    <3>9. \A u \in Task : R[u].batch = rows[u].batch
      BY <3>1, <3>4
    <3> QED BY <3>7, <3>8, <3>9
  <2> QED BY <2>1, <2>2 DEF Cancel
<1> QED BY <1>0, <1>1, StepKeeps DEF IInv, TypeOK

\* Steps that leave the rows alone
LEMMA QuietSteps ==
  ASSUME IInv, UNCHANGED vars \/ DeadlinePasses \/
         \E t \in Task : FanOutStale(t) \/ Vanish(t) \/ Lapse(t)
  PROVE  IInv'
<1>1. /\ UNCHANGED rows
      /\ run' \in [Task -> {"none", "skill", "parking", "refused"}]
      /\ \A u \in Task : run'[u] = "skill" => run[u] = "skill"
      /\ lapsed' \in [Task -> BOOLEAN] /\ overdue' \in BOOLEAN /\ concurrency' = concurrency
  <2>1. CASE UNCHANGED vars
    BY <2>1 DEF vars, IInv, TypeOK
  <2>2. CASE DeadlinePasses
    BY <2>2 DEF DeadlinePasses, IInv, TypeOK
  <2>3. ASSUME NEW t \in Task, FanOutStale(t) \/ Vanish(t)
        PROVE  /\ UNCHANGED <<rows, lapsed, overdue, concurrency>>
               /\ \/ run' = [run EXCEPT ![t] = "refused"]
                  \/ run' = [run EXCEPT ![t] = "none"]
    BY <2>3 DEF FanOutStale, Vanish
  <2>4. ASSUME NEW t \in Task, Lapse(t)
        PROVE  UNCHANGED <<rows, run, overdue, concurrency>> /\ lapsed' \in [Task -> BOOLEAN]
    BY <2>4 DEF Lapse, IInv, TypeOK
  <2> QED BY <2>1, <2>2, <2>3, <2>4 DEF IInv, TypeOK
<1>2. Sound(rows', {}) /\ \A u \in Task : rows'[u].batch = rows[u].batch
  BY <1>1 DEF IInv
<1> QED BY <1>1, <1>2, StepKeeps

-----------------------------------------------------------------------------
LEMMA StepHolds == IInv /\ [Next]_vars => IInv'
<1> SUFFICES ASSUME IInv, [Next]_vars PROVE IInv'
  OBVIOUS
<1>1. CASE UNCHANGED vars \/ DeadlinePasses
  BY <1>1, QuietSteps
<1>2. ASSUME NEW t \in Task, Claim(t) \/ FanOut(t) \/ Wait(t) \/ Cancel(t)
      PROVE  IInv'
  BY <1>2, ClaimKeeps, FanOutKeeps, WaitKeeps, CancelKeeps
<1>3. ASSUME NEW t \in Task, Conclude(t) \/ Reclaim(t) \/ Sweep(t)
      PROVE  IInv'
  BY <1>3, EndingSteps
<1>4. ASSUME NEW t \in Task, FanOutStale(t) \/ Vanish(t) \/ Lapse(t)
      PROVE  IInv'
  BY <1>4, QuietSteps
<1> QED BY <1>1, <1>2, <1>3, <1>4 DEF Next

LEMMA Invariant == Spec => []IInv
BY InitHolds, StepHolds, PTL DEF Spec

(* In a tree of any shape, through every end, retry, wait, cancel and      *)
(* reclaim, a live batch keeps its number of children at large, and never  *)
(* leaves a place empty that a parked child could take, unless a child is  *)
(* a batch itself.                                                         *)
THEOREM PlacesAreUsed == Spec => []Inv
BY Invariant, IInvImplies, PTL

(* The end of the last child is the end of its parent: no batch waits for  *)
(* children that have all ended, unless one of them is a batch itself.     *)
THEOREM LastChildEndsParent == Spec => []FanInIsAtomic
BY Invariant, IInvImplies, PTL

(* A batch that has succeeded had, and keeps, the children its mode asks   *)
(* for.                                                                    *)
THEOREM SuccessIsTrue == Spec => []SuccessIsEarned
BY Invariant, IInvImplies, PTL

-----------------------------------------------------------------------------
(* Cancellation, down to where cancel_children goes from the root. *)

Knows(R, p) ==
  Depth[p] < CascadeDepth /\ R[p].cancelReq =>
    \A c \in Children(p) : Pending(R, c) => R[c].cancelReq

LEMMA KnowsIs == CancelReachesChildren <=> \A p \in Task : Knows(rows, p)
BY DEF CancelReachesChildren, Knows

\* Steps that tell nobody, and bring nobody back
LEMMA SilentKeeps ==
  ASSUME NEW R, NEW Q, NEW X,
         \A u \in Task : Q[u].cancelReq = R[u].cancelReq /\ (Pending(Q, u) => Pending(R, u)),
         \A p \in Task \ X : Knows(R, p)
  PROVE  \A p \in Task \ X : Knows(Q, p)
<1> SUFFICES ASSUME NEW p \in Task \ X PROVE Knows(Q, p)
  OBVIOUS
<1>1. \A c \in Children(p) : c \in Task
  BY DEF Children
<1>2. Knows(R, p)
  OBVIOUS
<1> QED BY <1>1, <1>2 DEF Knows

LEMMA SettleIsSilent ==
  ASSUME NEW R \in [Task -> Row], NEW c \in Task, NEW Q \in SettleChild(R, c)
  PROVE  \A u \in Task : Q[u].cancelReq = R[u].cancelReq /\ (Pending(Q, u) => Pending(R, u))
<1> DEFINE p == ParentOf[c]
<1>1. \/ Q = R
      \/ \E S \in Free(R, p) :
           Q = [u \in Task |-> IF u \in S THEN [R[u] EXCEPT !.parked = FALSE] ELSE R[u]]
      \/ p \in Task /\ Q = [R EXCEPT ![p].status = Aggregate(R, p)]
  BY Tree DEF SettleChild
<1>2. CASE Q = R
  BY <1>2
<1>3. ASSUME NEW S, Q = [u \in Task |-> IF u \in S THEN [R[u] EXCEPT !.parked = FALSE] ELSE R[u]],
             NEW u \in Task
      PROVE  Q[u].cancelReq = R[u].cancelReq /\ (Pending(Q, u) => Pending(R, u))
  <2>1. R[u] \in Row
    OBVIOUS
  <2>2. Q[u] = IF u \in S THEN [R[u] EXCEPT !.parked = FALSE] ELSE R[u]
    BY <1>3
  <2>3. Q[u].cancelReq = R[u].cancelReq /\ Q[u].status = R[u].status
    BY <2>1, <2>2 DEF Row
  <2> QED BY <2>3 DEF Pending
<1>4. CASE p \in Task /\ Q = [R EXCEPT ![p].status = Aggregate(R, p)]
  <2> DEFINE x == [R[p] EXCEPT !.status = Aggregate(R, p)]
  <2>1. R[p] \in Row /\ Q = [R EXCEPT ![p] = x]
    BY <1>4
  <2>2. x.cancelReq = R[p].cancelReq /\ x.status \in {"COMPLETED", "FAILED"}
    BY <2>1 DEF Row, Aggregate
  <2> HIDE DEF x
  <2>3. Q[p] = x /\ \A u \in Task : u # p => Q[u] = R[u]
    BY <1>4, <2>1
  <2> QED BY <2>2, <2>3 DEF Pending, Idle
<1> QED BY <1>1, <1>2, <1>3, <1>4

\* The cascade tells every child that has not ended, and their children too
LEMMA CascadeTells ==
  ASSUME NEW R \in [Task -> Row], NEW t \in Task, \A p \in Task \ {t} : Knows(R, p)
  PROVE  \A p \in Task : Knows(CancelChildren(R, t), p)
<1> DEFINE Q == CancelChildren(R, t)
<1>1. \A u \in Task :
         /\ u \notin Reached(R, t) => Q[u] = R[u]
         /\ u \in Reached(R, t) =>
              /\ Q[u].cancelReq
              /\ \/ R[u].status \in Idle /\ Q[u].status = "CANCELLED"
                 \/ R[u].status = "RUNNING" /\ Q[u].status = "RUNNING"
  BY CancelledRow
<1> HIDE DEF Q
<1>2. ASSUME NEW p \in Task, NEW c \in Children(p), Depth[p] < CascadeDepth,
             Q[p].cancelReq, Pending(Q, c)
      PROVE  Q[c].cancelReq
  <2>1. c \in Task /\ ParentOf[c] = p /\ Depth[c] = Depth[p] + 1
    BY Above
  <2>2. CASE c \in Reached(R, t)
    BY <1>1, <2>1, <2>2
  <2>3. CASE c \notin Reached(R, t)
    <3>1. Q[c] = R[c] /\ Pending(R, c)
      BY <1>1, <1>2, <2>1, <2>3 DEF Pending
    <3>2. CASE p # t /\ p \notin Reached(R, t)
      <4>1. Knows(R, p) /\ R[p].cancelReq
        BY <1>1, <1>2, <3>2
      <4> QED BY <1>2, <3>1, <4>1 DEF Knows
    <3>3. CASE p = t \/ p \in Reached(R, t)
      <4>1. Depth[t] < Depth[c]
        <5>1. p \in Reached(R, t) => Depth[t] < Depth[p]
          BY DEF Reached
        <5> QED BY <2>1, <3>3, <5>1, Tree
      <4>2. Depth[c] <= Depth[t] + CascadeDepth
        <5>1. Depth[p] \in Nat /\ Depth[t] \in Nat
          BY Tree
        <5> QED BY <1>2, <2>1, <5>1, Limits
      <4>3. ~Hit(R, c)
        BY <2>1, <2>3, <3>3, <4>1, <4>2, ReachedIs
      <4> QED BY <3>1, <4>3 DEF Hit, Pending
    <3> QED BY <3>2, <3>3
  <2> QED BY <2>2, <2>3
<1> QED BY <1>2 DEF Knows, Q

LEMMA EndsTell ==
  ASSUME IInv, CancelReachesChildren, NEW t \in Task, NEW s \in Terminal, Ends(t, s)
  PROVE  CancelReachesChildren'
<1>0. rows \in [Task -> Row] /\ \A p \in Task : Knows(rows, p)
  BY KnowsIs DEF IInv, Sound
<1>1. ASSUME NEW x \in Row, NEW R, R = [rows EXCEPT ![t] = x], x.status = s
      PROVE  /\ R \in [Task -> Row] /\ R[t] = x /\ \A u \in Task : u # t => R[u] = rows[u]
             /\ \A u \in Task : Pending(R, u) => Pending(rows, u)
  <2>1. /\ R \in [Task -> Row] /\ R[t] = x /\ \A u \in Task : u # t => R[u] = rows[u]
    BY <1>0, <1>1
  <2>2. ~Pending(R, t)
    BY <1>1, <2>1 DEF Pending, Idle, Terminal
  <2> QED BY <2>1, <2>2 DEF Pending
<1>2. EndedAsked(rows, End(rows, t, s, TRUE), t, s)
  BY <1>0, CancelledEnd
<1>3. CASE s = "CANCELLED"
  <2>1. PICK x \in Row : End(rows, t, s, TRUE) = [rows EXCEPT ![t] = x] /\ x.status = s /\ x.cancelReq
    BY <1>2 DEF EndedAsked
  <2>2. PICK R : R = [rows EXCEPT ![t] = x]
    OBVIOUS
  <2>3. PICK Q : Q = CancelChildren(R, t)
    OBVIOUS
  <2>4. rows' \in SettleChild(Q, t)
    BY <1>3, <2>1, <2>2, <2>3 DEF Ends
  <2>5. /\ R \in [Task -> Row] /\ R[t] = x /\ \A u \in Task : u # t => R[u] = rows[u]
        /\ \A u \in Task : Pending(R, u) => Pending(rows, u)
    BY <1>1, <2>1, <2>2
  <2>6. \A p \in Task \ {t} : Knows(R, p)
    <3> SUFFICES ASSUME NEW p \in Task \ {t}, NEW c \in Children(p), Depth[p] < CascadeDepth,
                        R[p].cancelReq, Pending(R, c)
                 PROVE  R[c].cancelReq
      BY DEF Knows
    <3>1. c \in Task /\ Pending(rows, c) /\ rows[p].cancelReq
      BY <2>5, Above
    <3>2. rows[c].cancelReq
      BY <1>0, <3>1 DEF Knows
    <3> QED BY <2>1, <2>5, <3>1, <3>2
  <2>7. Q \in [Task -> Row] /\ \A p \in Task : Knows(Q, p)
    BY <2>3, <2>5, <2>6, CascadeTells, CancelledRow
  <2>8. \A u \in Task : rows'[u].cancelReq = Q[u].cancelReq /\ (Pending(rows', u) => Pending(Q, u))
    BY <2>4, <2>7, SettleIsSilent
  <2>9. \A p \in Task : Knows(rows', p)
    BY <2>7, <2>8, SilentKeeps
  <2> QED BY <2>9 DEF CancelReachesChildren, Knows
<1>4. CASE s # "CANCELLED"
  <2> DEFINE y == [rows[t] EXCEPT !.status = s, !.cancelReq = rows[t].cancelReq \/ FALSE]
  <2>1. rows[t] \in Row /\ End(rows, t, s, FALSE) = [rows EXCEPT ![t] = y]
    BY <1>0 DEF End, Row
  <2>2. y \in Row /\ y.status = s /\ y.cancelReq = rows[t].cancelReq
    BY <2>1 DEF Row
  <2> HIDE DEF y
  <2>3. PICK R : R = [rows EXCEPT ![t] = y]
    OBVIOUS
  <2>4. rows' \in SettleChild(R, t)
    BY <1>4, <2>1, <2>3 DEF Ends
  <2>5. /\ R \in [Task -> Row] /\ R[t] = y /\ \A u \in Task : u # t => R[u] = rows[u]
        /\ \A u \in Task : Pending(R, u) => Pending(rows, u)
    <3>1. y \in Row /\ y.status = s
      BY <2>2
    <3> QED BY <1>1, <2>3, <3>1
  <2>6. \A u \in Task : R[u].cancelReq = rows[u].cancelReq
    BY <2>2, <2>5
  <2>7. \A u \in Task : rows'[u].cancelReq = R[u].cancelReq /\ (Pending(rows', u) => Pending(R, u))
    BY <2>4, <2>5, SettleIsSilent
  <2>8. \A u \in Task : rows'[u].cancelReq = rows[u].cancelReq /\ (Pending(rows', u) => Pending(rows, u))
    BY <2>5, <2>6, <2>7
  <2>9. \A p \in Task : Knows(rows', p)
    BY <1>0, <2>8, SilentKeeps
  <2> QED BY <2>9 DEF CancelReachesChildren, Knows
<1> QED BY <1>3, <1>4

LEMMA SilentSteps ==
  ASSUME IInv, CancelReachesChildren, NEW t \in Task,
         \/ Claim(t) \/ Wait(t)
         \/ /\ rows' = [rows EXCEPT ![t].status = "QUEUED", ![t].parked = FALSE]
            /\ rows[t].status = "RUNNING"
  PROVE  CancelReachesChildren'
<1>0. rows \in [Task -> Row] /\ rows[t] \in Row /\ \A p \in Task : Knows(rows, p)
  BY KnowsIs DEF IInv, Sound
<1>1. \A u \in Task : rows'[u].cancelReq = rows[u].cancelReq
  BY <1>0 DEF Claim, Wait, Row
<1>2. Pending(rows, t) /\ \A u \in Task : u # t => rows'[u] = rows[u]
  BY <1>0 DEF Claim, Claimable, Wait, Owns, Pending
<1>3. \A p \in Task : Knows(rows', p)
  BY <1>0, <1>1, <1>2, SilentKeeps DEF Pending
<1> QED BY <1>3 DEF CancelReachesChildren, Knows

LEMMA FanOutTells ==
  ASSUME IInv, CancelReachesChildren, NEW t \in Task, FanOut(t)
  PROVE  CancelReachesChildren'
<1>0. rows \in [Task -> Row] /\ rows[t] \in Row /\ rows[t].status = "RUNNING" /\ ~rows[t].cancelReq
  BY DEF IInv, Sound, FanOut, OwnsForFanOut
<1>1. PICK S \in SUBSET Children(t) :
        rows' = [c \in Task |->
                   IF c = t THEN [rows[t] EXCEPT !.batch = TRUE]
                   ELSE IF c \in Children(t) /\ rows[c].status = "ABSENT"
                        THEN Fresh("QUEUED", c \notin S) ELSE rows[c]]
  BY DEF FanOut
<1>2. rows'[t].status = "RUNNING" /\ rows'[t].cancelReq = rows[t].cancelReq
  BY <1>0, <1>1 DEF Row
<1>3. \A c \in Task : rows'[c] = rows[c] \/ c = t \/ (c \in Children(t) /\ rows'[c] = Fresh("QUEUED", c \notin S))
  BY <1>1
<1>4. ASSUME NEW b PROVE ~Fresh("QUEUED", b).cancelReq
  BY DEF Fresh
<1>5. ASSUME NEW p \in Task, NEW c \in Children(p), Depth[p] < CascadeDepth,
             rows'[p].cancelReq, Pending(rows', c)
      PROVE  rows'[c].cancelReq
  <2>1. c \in Task /\ ParentOf[c] = p /\ p # t
    BY <1>0, <1>2, <1>5, Above
  <2>2. rows'[p] = rows[p]
    BY <1>3, <1>4, <1>5, <2>1
  <2>3. c \notin Children(t)
    BY <2>1 DEF Children
  <2>4. CASE c = t
    <3>1. rows[t].cancelReq
      BY <1>0, <1>5, <2>2, <2>4 DEF CancelReachesChildren, Pending
    <3> QED BY <1>0, <3>1
  <2>5. CASE c # t
    <3>1. rows'[c] = rows[c]
      BY <1>3, <2>1, <2>3, <2>5
    <3> QED BY <1>5, <2>2, <3>1 DEF CancelReachesChildren, Pending
  <2> QED BY <2>4, <2>5
<1> QED BY <1>5 DEF CancelReachesChildren

LEMMA CancelTells ==
  ASSUME IInv, CancelReachesChildren, NEW t \in Task, Cancel(t)
  PROVE  CancelReachesChildren'
<1>1. CASE Ends(t, "CANCELLED")
  BY <1>1, EndsTell DEF Terminal
<1>2. CASE rows' = CancelChildren([rows EXCEPT ![t].cancelReq = TRUE], t)
  <2> DEFINE x == [rows[t] EXCEPT !.cancelReq = TRUE]
  <2>0. rows \in [Task -> Row] /\ rows[t] \in Row /\ \A p \in Task : Knows(rows, p)
    BY KnowsIs DEF IInv, Sound
  <2>1. x \in Row /\ x.status = rows[t].status /\ x.cancelReq
    BY <2>0 DEF Row
  <2>2. [rows EXCEPT ![t].cancelReq = TRUE] = [rows EXCEPT ![t] = x]
    BY <2>0
  <2> HIDE DEF x
  <2>3. PICK R : R = [rows EXCEPT ![t] = x]
    OBVIOUS
  <2>4. R \in [Task -> Row] /\ R[t] = x /\ \A u \in Task : u # t => R[u] = rows[u]
    BY <2>0, <2>1, <2>3
  <2>5. \A p \in Task \ {t} : Knows(R, p)
    <3> SUFFICES ASSUME NEW p \in Task \ {t}, NEW c \in Children(p), Depth[p] < CascadeDepth,
                        R[p].cancelReq, Pending(R, c)
                 PROVE  R[c].cancelReq
      BY DEF Knows
    <3>1. c \in Task /\ rows[p].cancelReq
      BY <2>4, Above
    <3>2. CASE c = t
      BY <2>1, <2>4, <3>2
    <3>3. CASE c # t
      <4>1. Pending(rows, c)
        BY <2>4, <3>1, <3>3 DEF Pending
      <4> QED BY <2>0, <2>4, <3>1, <3>3, <4>1 DEF Knows
    <3> QED BY <3>2, <3>3
  <2>6. \A p \in Task : Knows(rows', p)
    BY <1>2, <2>2, <2>3, <2>4, <2>5, CascadeTells
  <2> QED BY <2>6 DEF CancelReachesChildren, Knows
<1> QED BY <1>1, <1>2 DEF Cancel

LEMMA TellStep == IInv /\ CancelReachesChildren /\ [Next]_vars => CancelReachesChildren'
<1> SUFFICES ASSUME IInv, CancelReachesChildren, [Next]_vars PROVE CancelReachesChildren'
  OBVIOUS
<1>1. CASE UNCHANGED rows
  BY <1>1 DEF CancelReachesChildren, Pending
<1>2. ASSUME NEW t \in Task, NEW s \in Terminal, Ends(t, s) PROVE CancelReachesChildren'
  BY <1>2, EndsTell
<1>3. ASSUME NEW t \in Task, Conclude(t) \/ Reclaim(t) \/ Sweep(t)
      PROVE  CancelReachesChildren'
  <2>1. \/ Ends(t, "COMPLETED") \/ Ends(t, "FAILED") \/ Ends(t, "CANCELLED")
        \/ /\ rows' = [rows EXCEPT ![t].status = "QUEUED", ![t].parked = FALSE]
           /\ rows[t].status = "RUNNING"
    BY <1>3 DEF Conclude, Complete, Retry, Fail, StopRun, Reclaim, Sweep, Owns
  <2>2. "COMPLETED" \in Terminal /\ "FAILED" \in Terminal /\ "CANCELLED" \in Terminal
    BY DEF Terminal
  <2> QED BY <1>2, <2>1, <2>2, SilentSteps
<1>4. ASSUME NEW t \in Task, Claim(t) \/ Wait(t) PROVE CancelReachesChildren'
  BY <1>4, SilentSteps
<1>5. ASSUME NEW t \in Task, FanOut(t) \/ Cancel(t) PROVE CancelReachesChildren'
  BY <1>5, FanOutTells, CancelTells
<1>6. ASSUME NEW t \in Task, FanOutStale(t) \/ Vanish(t) \/ Lapse(t) PROVE UNCHANGED rows
  BY <1>6 DEF FanOutStale, Vanish, Lapse
<1> QED BY <1>1, <1>3, <1>4, <1>5, <1>6 DEF Next, vars, DeadlinePasses

(* Whichever of its rows are running, fanning out or being reclaimed, a    *)
(* cancelled batch has told every child that has not ended, in a tree of   *)
(* any shape, on the CascadeDepth levels below the root.                   *)
THEOREM CancelReachesAll == Spec => []CancelReachesChildren
<1>1. Init => CancelReachesChildren
  BY DEF Init, CancelReachesChildren, Fresh
<1>2. IInv /\ CancelReachesChildren /\ [Next]_vars => CancelReachesChildren'
  BY TellStep
<1> QED BY <1>1, <1>2, Invariant, PTL DEF Spec
=============================================================================
