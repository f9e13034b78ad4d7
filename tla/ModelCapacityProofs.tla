------------------------- MODULE ModelCapacityProofs -------------------------
(***************************************************************************)
(* Proofs about ModelCapacity, for every number of calls, keys and every   *)
(* limit.  A place is held by the calls whose lease is ACTIVE or UNKNOWN;  *)
(* the argument is that a call the provider works for is always one of     *)
(* them, whatever its executor did or failed to do since it was sent.      *)
(***************************************************************************)
EXTENDS ModelCapacity, FiniteSetTheorems, TLAPS

-----------------------------------------------------------------------------
(* The inductive invariant. *)

GroupType == [inflight : 0..GroupCap, start : 0..MaxTime, requests : 0..Rpm, tokens : 0..Tpm]

LeaseType == [state : Held \cup {"NONE", "SETTLED"}, key : Key \cup {None},
              created : 0..MaxTime, until : 0..MaxTime, charged : 0..Tokens]

\* What the lease of a call says when the executor is at a given step
LeaseMatchesCall ==
  \A c \in Call :
    /\ call[c] # "idle" => lease[c].key \in Key
    /\ call[c] \in {"idle", "reserving"} => lease[c].state = "NONE" /\ lease[c].charged = 0
    /\ call[c] \notin {"idle", "reserving"} => lease[c].state # "NONE"
    /\ call[c] \in {"resolving", "sent", "answered", "broken"} => lease[c].state \in Held

(* The place of a call the provider works for has not been given back,     *)
(* unless its stream was misread.                                          *)
RemoteHolds ==
  /\ misread \subseteq remote
  /\ \A c \in misread : call[c] \in {"answered", "over"}
  /\ \A c \in remote : call[c] \in {"sent", "answered", "broken", "over"}
  /\ \A c \in remote \ misread : call[c] # "answered" /\ lease[c].state \in Held

IInv == Inv /\ LeaseMatchesCall /\ RemoteHolds

-----------------------------------------------------------------------------
(* Lemmas on the places. *)

LEMMA HoldersFinite ==
  /\ IsFiniteSet(Holders)
  /\ \A k : IsFiniteSet(KeyHolders(k))
  /\ Cardinality(Holders) \in Nat
  /\ \A k : Cardinality(KeyHolders(k)) \in Nat
<1>1. IsFiniteSet(Holders) /\ \A k : IsFiniteSet(KeyHolders(k))
  <2>1. Holders \in SUBSET Call /\ \A k : KeyHolders(k) \in SUBSET Call
    BY DEF Holders, KeyHolders
  <2> QED BY <2>1, NamesAssumption, FS_Subset
<1> QED BY <1>1, FS_CardinalityType

\* A step that changes no place keeps both rows equal to the leases
LEMMA PlacesKept ==
  ASSUME PlacesAreLeases, TypeOK,
         \A c \in Call : /\ lease'[c].state \in Held <=> lease[c].state \in Held
                         /\ lease[c].state \in Held => lease'[c].key = lease[c].key,
         group'.inflight = group.inflight, inflight' = inflight
  PROVE  PlacesAreLeases'
<1>1. Holders' = Holders
  BY DEF Holders
<1>2. \A k : KeyHolders(k)' = KeyHolders(k)
  BY <1>1 DEF Holders, KeyHolders
<1> QED BY <1>1, <1>2 DEF PlacesAreLeases

\* An admission adds its call to what both rows count
LEMMA PlaceTaken ==
  ASSUME PlacesAreLeases, TypeOK, NEW c \in Call, lease[c].key \in Key,
         lease[c].state \notin Held, lease'[c].state \in Held, lease'[c].key = lease[c].key,
         \A d \in Call \ {c} : lease'[d] = lease[d],
         group'.inflight = group.inflight + 1,
         inflight' = [inflight EXCEPT ![lease[c].key] = @ + 1]
  PROVE  PlacesAreLeases'
<1>1. Holders' = Holders \cup {c} /\ c \notin Holders
  BY DEF Holders
<1>2. group'.inflight = Cardinality(Holders')
  <2>1. Cardinality(Holders') = Cardinality(Holders) + 1
    BY <1>1, HoldersFinite, FS_AddElement
  <2> QED BY <2>1 DEF PlacesAreLeases
<1>3. ASSUME NEW k \in Key
      PROVE  inflight'[k] = Cardinality(KeyHolders(k)')
  <2>1. CASE k = lease[c].key
    <3>1. KeyHolders(k)' = KeyHolders(k) \cup {c} /\ c \notin KeyHolders(k)
      BY <1>1, <2>1 DEF KeyHolders, Holders
    <3>2. inflight'[k] = inflight[k] + 1 /\ inflight[k] = Cardinality(KeyHolders(k))
      BY <2>1 DEF PlacesAreLeases, TypeOK, KeyHolders
    <3> QED BY <3>1, <3>2, HoldersFinite, FS_AddElement
  <2>2. CASE k # lease[c].key
    <3>1. KeyHolders(k)' = KeyHolders(k)
      BY <1>1, <2>2 DEF KeyHolders, Holders
    <3>2. inflight'[k] = inflight[k] /\ inflight[k] = Cardinality(KeyHolders(k))
      BY <2>2 DEF PlacesAreLeases, TypeOK, KeyHolders
    <3> QED BY <3>1, <3>2
  <2> QED BY <2>1, <2>2
<1> QED BY <1>2, <1>3 DEF PlacesAreLeases

\* A release takes its call out of what both rows count: neither is cut at 0
LEMMA PlaceFreed ==
  ASSUME PlacesAreLeases, TypeOK, NEW c \in Call, lease[c].key \in Key,
         lease[c].state \in Held, lease'[c].state \notin Held,
         \A d \in Call \ {c} : lease'[d] = lease[d],
         group'.inflight = Minus(group.inflight, 1),
         inflight' = [inflight EXCEPT ![lease[c].key] = Minus(@, 1)]
  PROVE  PlacesAreLeases'
<1>1. Holders' = Holders \ {c} /\ c \in Holders
  BY DEF Holders
<1>2. group'.inflight = Cardinality(Holders')
  <2>1. Cardinality(Holders') = Cardinality(Holders) - 1 /\ Cardinality(Holders') \in Nat
    BY <1>1, HoldersFinite, FS_RemoveElement, FS_CardinalityType
  <2> QED BY <2>1, HoldersFinite DEF PlacesAreLeases, Minus
<1>3. ASSUME NEW k \in Key
      PROVE  inflight'[k] = Cardinality(KeyHolders(k)')
  <2>1. CASE k = lease[c].key
    <3>1. KeyHolders(k)' = KeyHolders(k) \ {c} /\ c \in KeyHolders(k)
      BY <1>1, <2>1 DEF KeyHolders, Holders
    <3>2. inflight'[k] = Minus(inflight[k], 1) /\ inflight[k] = Cardinality(KeyHolders(k))
      BY <2>1 DEF PlacesAreLeases, TypeOK, KeyHolders
    <3>3. /\ Cardinality(KeyHolders(k) \ {c}) = Cardinality(KeyHolders(k)) - 1
          /\ Cardinality(KeyHolders(k) \ {c}) \in Nat
      BY <3>1, HoldersFinite, FS_RemoveElement, FS_CardinalityType
    <3>4. Cardinality(KeyHolders(k)) \in Nat
      BY HoldersFinite
    <3> QED BY <3>1, <3>2, <3>3, <3>4 DEF Minus
  <2>2. CASE k # lease[c].key
    <3>1. KeyHolders(k)' = KeyHolders(k)
      BY <1>1, <2>2 DEF KeyHolders, Holders
    <3>2. inflight'[k] = inflight[k] /\ inflight[k] = Cardinality(KeyHolders(k))
      BY <2>2 DEF PlacesAreLeases, TypeOK, KeyHolders
    <3> QED BY <3>1, <3>2
  <2> QED BY <2>1, <2>2
<1> QED BY <1>2, <1>3 DEF PlacesAreLeases

-----------------------------------------------------------------------------
(* The steps of a call.  Each lemma is one action, or the part of it that   *)
(* several share.                                                          *)

LEMMA Limits ==
  /\ KeyCap \in Nat /\ GroupCap \in Nat /\ Rpm \in Nat /\ Tpm \in Nat /\ LeaseLen \in Nat
  /\ Deadline \in Nat /\ MaxTime \in Nat /\ Deadline <= MaxTime
  /\ Tokens \in Nat /\ Tokens > 0 /\ Minute \in Nat /\ Minute > 0 /\ Minute <= MaxTime
BY LimitsAssumption

LEMMA Types ==
  ASSUME TypeOK
  PROVE  group \in GroupType /\ lease \in [Call -> LeaseType] /\ inflight \in [Key -> 0..KeyCap]
BY DEF TypeOK, GroupType, LeaseType

\* The bucket of a clock is not after it
LEMMA BucketBelow ==
  ASSUME NEW t \in Nat
  PROVE  Bucket(t) \in Nat /\ Bucket(t) <= t /\ t < Bucket(t) + Minute
BY Limits DEF Bucket

LEMMA AdmitKeeps ==
  ASSUME IInv, NEW c \in Call, Admit(c)
  PROVE  IInv'
<1> DEFINE w == Rolled(Bucket(lease[c].created))
<1>1. /\ lease[c].key \in Key /\ lease[c].state = "NONE"
      /\ c \notin remote /\ lease[c].created \in 0..MaxTime
  BY DEF IInv, Inv, TypeOK, LeaseMatchesCall, RemoteHolds, Admit, Moves
<1>0. group \in GroupType /\ lease \in [Call -> LeaseType] /\ inflight \in [Key -> 0..KeyCap]
  BY Types DEF IInv, Inv
<1>2. w \in GroupType /\ w.inflight = group.inflight
  <2>1. Bucket(lease[c].created) \in 0..MaxTime
    BY <1>1, BucketBelow, Limits
  <2>2. 0 \in 0..Rpm /\ 0 \in 0..Tpm
    BY Limits
  <2> QED BY <1>0, <2>1, <2>2 DEF Rolled, GroupType
<1>3. TypeOK'
  <2>1. group' \in GroupType
    <3>1. w.inflight + 1 \in 0..GroupCap /\ w.requests + 1 \in 0..Rpm /\ w.tokens + Tokens \in 0..Tpm
      BY <1>0, <1>2, Limits DEF Admit, Fits, GroupType
    <3>2. group' = [w EXCEPT !.inflight = @ + 1, !.requests = @ + 1, !.tokens = @ + Tokens]
      BY DEF Admit
    <3> QED BY <1>2, <3>1, <3>2 DEF GroupType
  <2>2. inflight' \in [Key -> 0..KeyCap]
    <3>1. inflight[lease[c].key] + 1 \in 0..KeyCap
      BY <1>0, <1>1, Limits DEF Admit, Fits
    <3> QED BY <1>0, <3>1 DEF Admit
  <2>3. lease' \in [Call -> LeaseType]
    <3>1. lease' = [lease EXCEPT ![c] = [@ EXCEPT !.state = "ACTIVE", !.charged = Tokens]]
      BY <1>0 DEF Admit, LeaseType
    <3>2. Tokens \in 0..Tokens
      BY Limits
    <3> QED BY <1>0, <3>1, <3>2 DEF LeaseType, Held
  <2> QED BY <2>1, <2>2, <2>3 DEF IInv, Inv, TypeOK, Admit, Moves, LeaseType, GroupType
<1>4. PlacesAreLeases'
  <2>1. /\ lease'[c].state = "ACTIVE" /\ lease'[c].key = lease[c].key
        /\ \A d \in Call \ {c} : lease'[d] = lease[d]
    BY DEF IInv, Inv, TypeOK, Admit
  <2>2. group'.inflight = group.inflight + 1
    BY <1>2 DEF Admit
  <2> QED BY <1>1, <2>1, <2>2, PlaceTaken DEF IInv, Inv, Held, Admit
<1>5. LeaseMatchesCall'
  BY <1>1 DEF IInv, Inv, TypeOK, LeaseMatchesCall, Admit, Moves, Held
<1>6. RemoteHolds'
  BY <1>1 DEF IInv, Inv, TypeOK, RemoteHolds, Admit, Moves, Held
<1> QED BY <1>3, <1>4, <1>5, <1>6 DEF IInv, Inv

\* A plan the release sequence can follow; one that frees a place ends the lease
IsPlan(plan) ==
  \/ plan.target = "SETTLED" /\ plan.places = 1 /\ plan.requests \in {0, 1} /\ plan.charged \in 0..Tokens
  \/ plan.target = "UNKNOWN" /\ plan.places = 0 /\ plan.requests = 0 /\ plan.charged \in 0..Tokens

LEMMA MinusType ==
  ASSUME NEW n \in Nat, NEW a \in 0..n, NEW b \in Nat
  PROVE  Minus(a, b) \in 0..n
BY DEF Minus

\* Whatever a release finds, the rows keep their types and agree with the leases
LEMMA AdvanceKeeps ==
  ASSUME IInv, NEW c \in Call, NEW plan, IsPlan(plan), Advance(c, plan),
         lease[c].state \in Held, lease[c].key \in Key
  PROVE  /\ inflight' \in [Key -> 0..KeyCap]
         /\ group' \in GroupType
         /\ lease' \in [Call -> LeaseType]
         /\ PlacesAreLeases'
         /\ \A d \in Call \ {c} : lease'[d] = lease[d]
         /\ lease'[c].key = lease[c].key /\ lease'[c].state # "NONE"
         /\ plan.places = 0 => lease'[c].state \in Held
<1>0. TypeOK /\ PlacesAreLeases /\ lease \in [Call -> LeaseType] /\ group \in GroupType
  BY Types DEF IInv, Inv
<1>1. CASE Parked(c, plan)
  <2>1. inflight' = inflight /\ group' = group /\ lease' = lease
    BY <1>1 DEF Advance
  <2>2. PlacesAreLeases'
    BY <1>0, <2>1, PlacesKept
  <2> QED BY <1>0, <2>1, <2>2 DEF TypeOK, Held
<1>2. CASE ~Parked(c, plan)
  <2>1. /\ lease' = [lease EXCEPT ![c].state = plan.target, ![c].charged = plan.charged]
        /\ inflight' = [inflight EXCEPT ![lease[c].key] = Minus(@, plan.places)]
    BY <1>2 DEF Advance
  <2>2. plan.places \in Nat /\ plan.requests \in Nat /\ plan.charged \in 0..Tokens
    BY DEF IsPlan
  <2>3. Minus(lease[c].charged, plan.charged) \in Nat
    BY <2>2, Limits DEF IInv, Inv, TypeOK, Minus
  <2>4. group' \in GroupType
    <3>1. /\ Minus(group.inflight, plan.places) \in 0..GroupCap
          /\ Minus(group.requests, plan.requests) \in 0..Rpm
          /\ Minus(group.tokens, Minus(lease[c].charged, plan.charged)) \in 0..Tpm
      BY <1>0, <2>2, <2>3, MinusType, Limits DEF TypeOK
    <3> QED BY <1>0, <1>2, <3>1 DEF GroupType, Advance
  <2>5. inflight' \in [Key -> 0..KeyCap]
    <3>1. Minus(inflight[lease[c].key], plan.places) \in 0..KeyCap
      BY <1>0, <2>2, MinusType, Limits DEF TypeOK
    <3> QED BY <1>0, <2>1, <3>1 DEF TypeOK
  <2>6. lease' \in [Call -> LeaseType]
    BY <1>0, <2>1, <2>2 DEF LeaseType, IsPlan, Held
  <2>7. /\ lease'[c].key = lease[c].key /\ lease'[c].state = plan.target
        /\ \A d \in Call \ {c} : lease'[d] = lease[d]
    BY <1>0, <2>1 DEF LeaseType
  <2>8. group'.inflight = Minus(group.inflight, plan.places)
    BY <1>0, <1>2 DEF TypeOK, Advance
  <2>9. PlacesAreLeases'
    <3>1. CASE plan.places = 1
      <4>1. lease'[c].state \notin Held
        BY <2>7, <3>1 DEF IsPlan, Held
      <4>2. inflight' = [inflight EXCEPT ![lease[c].key] = Minus(@, 1)]
        BY <2>1, <3>1
      <4>3. group'.inflight = Minus(group.inflight, 1)
        BY <2>8, <3>1
      <4> QED BY <1>0, <2>7, <4>1, <4>2, <4>3, PlaceFreed
    <3>2. CASE plan.places = 0
      <4>1. group'.inflight = group.inflight /\ inflight' = inflight
        BY <1>0, <2>1, <2>8, <3>2 DEF TypeOK, Minus
      <4> QED BY <1>0, <2>7, <3>2, <4>1, PlacesKept DEF IsPlan, Held
    <3> QED BY <3>1, <3>2 DEF IsPlan
  <2> QED BY <2>4, <2>5, <2>6, <2>7, <2>9 DEF IsPlan, Held
<1> QED BY <1>1, <1>2

\* A new reservation reads its clock and holds nothing yet; a refused one is gone
LEMMA ReservationKeeps ==
  ASSUME IInv, NEW c \in Call, Refuse(c) \/ \E k \in Key : Choose(c, k)
  PROVE  IInv'
<1>0. TypeOK /\ PlacesAreLeases /\ lease \in [Call -> LeaseType] /\ now \in 0..MaxTime
  BY Types DEF IInv, Inv, TypeOK
<1>1. /\ lease[c].state = "NONE" /\ c \notin remote
      /\ UNCHANGED <<now, inflight, group, remote, cut, misread>>
      /\ call' = [call EXCEPT ![c] = IF call[c] = "idle" THEN "reserving" ELSE "idle"]
      /\ call[c] \in {"idle", "reserving"}
  BY DEF IInv, LeaseMatchesCall, RemoteHolds, Refuse, Choose, Moves
<1>2. PICK l \in LeaseType :
        /\ lease' = [lease EXCEPT ![c] = l] /\ l.state = "NONE" /\ l.charged = 0
        /\ call[c] = "idle" => l.key \in Key
  <2>1. CASE Refuse(c)
    <3>1. NoLease \in LeaseType
      BY Limits DEF NoLease, LeaseType
    <3> QED BY <2>1, <3>1 DEF Refuse, NoLease, Moves
  <2>2. CASE \E k \in Key : Choose(c, k)
    <3>1. PICK k \in Key : Choose(c, k)
      BY <2>2
    <3> DEFINE l == [NoLease EXCEPT !.key = k, !.created = now,
                                    !.until = Earliest(now + LeaseLen, Deadline)]
    <3>2. Earliest(now + LeaseLen, Deadline) \in 0..MaxTime
      BY <1>0, Limits DEF Earliest
    <3>3. NoLease \in LeaseType /\ NoLease.state = "NONE" /\ NoLease.charged = 0
      BY Limits DEF NoLease, LeaseType
    <3>4. l \in LeaseType /\ l.state = "NONE" /\ l.charged = 0 /\ l.key = k
      BY <1>0, <3>2, <3>3 DEF LeaseType
    <3> QED BY <3>1, <3>4 DEF Choose
  <2> QED BY <2>1, <2>2
<1>3. lease' \in [Call -> LeaseType]
  BY <1>0, <1>2
<1>4. \A d \in Call : lease'[d].state = lease[d].state /\ (d # c => lease'[d] = lease[d])
  BY <1>0, <1>1, <1>2
<1>5. TypeOK'
  BY <1>0, <1>1, <1>3 DEF TypeOK, LeaseType
<1>6. PlacesAreLeases'
  BY <1>0, <1>1, <1>4, PlacesKept DEF Held
<1>7. LeaseMatchesCall' /\ RemoteHolds'
  BY <1>0, <1>1, <1>2, <1>4 DEF IInv, TypeOK, LeaseMatchesCall, RemoteHolds, Held
<1> QED BY <1>5, <1>6, <1>7 DEF IInv, Inv

\* Each release of the executor, with the call it belongs to
LEMMA ReleaseKeeps ==
  ASSUME IInv, NEW c \in Call, ReleaseUnsent(c) \/ Settle(c) \/ MarkUnknown(c)
  PROVE  IInv'
<1>0. TypeOK /\ PlacesAreLeases /\ lease \in [Call -> LeaseType]
  BY Types DEF IInv, Inv
<1>1. /\ call[c] \in {"resolving", "answered", "broken"} /\ call' = [call EXCEPT ![c] = "over"]
      /\ now' = now /\ remote' = remote /\ misread' = misread /\ cut' \in {cut, cut \cup {c}}
  BY DEF ReleaseUnsent, Settle, MarkUnknown, Moves
<1>2. lease[c].state \in Held /\ lease[c].key \in Key
  BY <1>1 DEF IInv, LeaseMatchesCall
<1>3. PICK plan : IsPlan(plan) /\ Advance(c, plan) /\ (call[c] = "broken" => plan.places = 0)
  <2>1. CASE ReleaseUnsent(c)
    BY <2>1, Limits DEF ReleaseUnsent, Moves, IsPlan, Unsent, Plan
  <2>2. CASE Settle(c)
    <3>1. PICK usage \in 1..Tokens : Advance(c, Ended(usage))
      BY <2>2 DEF Settle
    <3>2. IsPlan(Ended(usage)) /\ call[c] = "answered"
      BY <2>2, Limits DEF Settle, Moves, IsPlan, Ended, Plan
    <3> QED BY <3>1, <3>2
  <2>3. CASE MarkUnknown(c)
    <3>1. Unknown(c).places = 0 /\ IsPlan(Unknown(c))
      BY <1>0, Limits DEF IsPlan, Unknown, Plan, LeaseType
    <3> QED BY <2>3, <3>1 DEF MarkUnknown
  <2> QED BY <2>1, <2>2, <2>3
<1>4. /\ inflight' \in [Key -> 0..KeyCap] /\ group' \in GroupType /\ lease' \in [Call -> LeaseType]
      /\ PlacesAreLeases'
      /\ \A d \in Call \ {c} : lease'[d] = lease[d]
      /\ lease'[c].key = lease[c].key /\ lease'[c].state # "NONE"
      /\ call[c] = "broken" => lease'[c].state \in Held
  BY <1>2, <1>3, AdvanceKeeps
<1>5. TypeOK'
  BY <1>0, <1>1, <1>4 DEF TypeOK, GroupType, LeaseType
<1>6. LeaseMatchesCall' /\ RemoteHolds'
  BY <1>0, <1>1, <1>2, <1>4 DEF IInv, TypeOK, LeaseMatchesCall, RemoteHolds
<1> QED BY <1>4, <1>5, <1>6 DEF IInv, Inv

\* The renewal and the sweep write the lease alone, and its place stays
LEMMA LeaseAloneKeeps ==
  ASSUME IInv, NEW c \in Call, Renew(c) \/ Sweep(c)
  PROVE  IInv'
<1>0. TypeOK /\ PlacesAreLeases /\ lease \in [Call -> LeaseType] /\ now \in 0..MaxTime
  BY Types DEF IInv, Inv, TypeOK
<1>1. UNCHANGED <<now, inflight, group, executor>> /\ lease[c].state = "ACTIVE"
  BY DEF Renew, Sweep, Renewable
<1>2. /\ lease' \in [Call -> LeaseType]
      /\ \A d \in Call \ {c} : lease'[d] = lease[d]
      /\ lease'[c].key = lease[c].key /\ lease'[c].state \in Held
      /\ lease'[c].charged = lease[c].charged
  <2>1. CASE Renew(c)
    <3>1. Latest(lease[c].until, Earliest(now + LeaseLen, Deadline)) \in 0..MaxTime
      BY <1>0, Limits DEF Latest, Earliest, LeaseType
    <3> QED BY <1>0, <1>1, <2>1, <3>1 DEF Renew, LeaseType, Held
  <2>2. CASE Sweep(c)
    BY <1>0, <1>1, <2>2 DEF Sweep, LeaseType, Held
  <2> QED BY <2>1, <2>2
<1>3. TypeOK'
  BY <1>0, <1>1, <1>2 DEF TypeOK, LeaseType, executor
<1>4. PlacesAreLeases'
  BY <1>0, <1>1, <1>2, PlacesKept DEF Held
<1>5. LeaseMatchesCall' /\ RemoteHolds'
  BY <1>0, <1>1, <1>2 DEF IInv, TypeOK, LeaseMatchesCall, RemoteHolds, executor, Held
<1> QED BY <1>3, <1>4, <1>5 DEF IInv, Inv

\* The steps that write no row: the clock, the executor and the provider
LEMMA RowsAloneKeeps ==
  ASSUME IInv, \/ Tick \/ UNCHANGED vars
               \/ \E c \in Call : \/ Send(c) \/ Answer(c) \/ Misread(c) \/ Break(c)
                                  \/ LoseLease(c) \/ Abandon(c) \/ RemoteEnds(c)
  PROVE  IInv'
<1>0. TypeOK /\ PlacesAreLeases
  BY DEF IInv, Inv
<1>1. UNCHANGED <<inflight, group, lease>>
  BY DEF Tick, vars, Send, Answer, Misread, Break, LoseLease, Abandon, RemoteEnds
<1>2. TypeOK'
  <2>1. now' \in 0..MaxTime
    BY <1>0, Limits DEF TypeOK, Tick, vars, Send, Answer, Misread, Break, LoseLease, Abandon, RemoteEnds
  <2>2. /\ remote' \subseteq Call /\ cut' \subseteq Call /\ misread' \subseteq Call
        /\ call' \in [Call -> {"idle", "reserving", "resolving", "sent", "answered", "broken", "over"}]
    BY <1>0 DEF TypeOK, Tick, vars, executor, Moves, Send, Answer, Misread, Break, LoseLease, Abandon, RemoteEnds
  <2> QED BY <1>0, <1>1, <2>1, <2>2 DEF TypeOK
<1>3. PlacesAreLeases'
  BY <1>0, <1>1, PlacesKept
<1>4. CASE Tick \/ UNCHANGED vars
  BY <1>1, <1>2, <1>3, <1>4 DEF IInv, Inv, LeaseMatchesCall, RemoteHolds, Tick, vars, executor
<1>5. ASSUME NEW c \in Call,
             \/ Send(c) \/ Answer(c) \/ Misread(c) \/ Break(c) \/ LoseLease(c)
             \/ Abandon(c) \/ RemoteEnds(c)
      PROVE  LeaseMatchesCall' /\ RemoteHolds'
  <2>1. CASE Send(c) \/ Answer(c) \/ Misread(c)
    BY <1>0, <1>1, <2>1 DEF IInv, TypeOK, LeaseMatchesCall, RemoteHolds, Send, Answer, Misread, Moves
  <2>2. CASE Break(c) \/ LoseLease(c)
    BY <1>0, <1>1, <2>2 DEF IInv, TypeOK, LeaseMatchesCall, RemoteHolds, Break, LoseLease, Moves
  <2>3. CASE Abandon(c) \/ RemoteEnds(c)
    BY <1>0, <1>1, <2>3 DEF IInv, TypeOK, LeaseMatchesCall, RemoteHolds, Abandon, RemoteEnds
  <2> QED BY <1>5, <2>1, <2>2, <2>3
<1> QED BY <1>2, <1>3, <1>4, <1>5 DEF IInv, Inv

LEMMA IInvHolds == Spec => []IInv
<1>1. Init => IInv
  <2> SUFFICES ASSUME Init PROVE IInv
    OBVIOUS
  <2>1. TypeOK
    <3>1. 0 \in 0..KeyCap /\ 0 \in 0..GroupCap /\ 0 \in 0..Rpm /\ 0 \in 0..Tpm
      BY Limits
    <3>2. 0 \in 0..MaxTime /\ 0 \in 0..Tokens /\ Minute \in 0..MaxTime
      BY Limits
    <3> QED BY <3>1, <3>2 DEF Init, TypeOK, NoLease
  <2>2. Holders = {} /\ \A k : KeyHolders(k) = {}
    BY DEF Init, Holders, KeyHolders, NoLease, Held
  <2>3. PlacesAreLeases
    BY <2>2, FS_EmptySet DEF Init, PlacesAreLeases
  <2>4. LeaseMatchesCall /\ RemoteHolds
    BY DEF Init, LeaseMatchesCall, RemoteHolds, NoLease
  <2> QED BY <2>1, <2>3, <2>4 DEF IInv, Inv
<1>2. IInv /\ [Next]_vars => IInv'
  BY AdmitKeeps, ReservationKeeps, ReleaseKeeps, LeaseAloneKeeps, RowsAloneKeeps
     DEF Next, Reserving, Closing
<1> QED BY <1>1, <1>2, PTL DEF Spec

-----------------------------------------------------------------------------
(* The results. *)

(* The rows of the key and of the group agree with the leases, and every    *)
(* variable keeps its type, through every release, settlement and sweep:   *)
(* _RELEASE_CAPACITY_SQL never cuts a counter of places at 0.              *)
THEOREM PlacesAgree == Spec => []Inv
<1>1. IInv => Inv
  BY DEF IInv
<1> QED BY <1>1, IInvHolds, PTL

(* The provider never works for more calls of a key or of an account than  *)
(* its limits allow, whichever executor died, was cut off or lost a lease: *)
(* the calls whose unfinished stream was misread are left out, since the   *)
(* code gives their places back.                                           *)
THEOREM LimitsSpareTheProvider == Spec => []ProviderIsSpared
<1>1. IInv => ProviderIsSpared
  <2> SUFFICES ASSUME IInv PROVE ProviderIsSpared
    OBVIOUS
  <2> DEFINE working == remote \ misread
  <2>1. working \in SUBSET Holders
        /\ \A k \in Key : {c \in working : lease[c].key = k} \in SUBSET KeyHolders(k)
    BY DEF IInv, Inv, TypeOK, RemoteHolds, Holders, KeyHolders
  <2>2. /\ Cardinality(working) <= Cardinality(Holders) /\ Cardinality(working) \in Nat
        /\ \A k \in Key : LET r == {c \in working : lease[c].key = k} IN
             Cardinality(r) <= Cardinality(KeyHolders(k)) /\ Cardinality(r) \in Nat
    BY <2>1, HoldersFinite, FS_Subset, FS_CardinalityType
  <2>3. /\ Cardinality(Holders) <= GroupCap
        /\ \A k \in Key : Cardinality(KeyHolders(k)) <= KeyCap
    BY Limits DEF IInv, Inv, TypeOK, PlacesAreLeases
  <2> QED BY <2>2, <2>3, HoldersFinite, Limits DEF ProviderIsSpared
<1> QED BY <1>1, IInvHolds, PTL

-----------------------------------------------------------------------------
(* The window.  A reservation may add to a window that began after it read *)
(* its clock, and to one that began two minutes before; what is charged    *)
(* never lies a span after the start, so that a window that rolls over     *)
(* forgets nothing it would have to count.                                 *)

Window == Charged(group.start, now)

\* A place that is held is charged in full, and the clocks lie in the past
ChargedInTime ==
  \A c \in Call :
    /\ lease[c].state \in Held => lease[c].charged = Tokens
    /\ lease[c].created <= now
    /\ lease[c].charged > 0 => Bucket(lease[c].created) < group.start + Span

WInv == ChargedInTime /\ CountersCoverWindow

\* A clock that a bucket is not after has a bucket that is not before it
LEMMA BucketMonotone ==
  ASSUME NEW s \in Nat, NEW t \in Nat, Bucket(s) <= t
  PROVE  Bucket(s) <= Bucket(t)
BY Limits DEF Bucket

LEMMA TokensFinite ==
  ASSUME NEW calls \in SUBSET Call
  PROVE  /\ IsFiniteSet(calls) /\ Cardinality(calls) \in Nat
         /\ IsFiniteSet(TokensOf(calls)) /\ Cardinality(TokensOf(calls)) \in Nat
<1>1. IsFiniteSet(calls) /\ IsFiniteSet(1..Tokens)
  BY NamesAssumption, Limits, FS_Subset, FS_Interval
<1>2. IsFiniteSet(calls \X (1..Tokens))
  BY <1>1, FS_Product
<1>3. TokensOf(calls) \in SUBSET (calls \X (1..Tokens))
  BY DEF TokensOf
<1>4. IsFiniteSet(TokensOf(calls))
  BY <1>2, <1>3, FS_Subset
<1> QED BY <1>1, <1>4, FS_CardinalityType

\* The tokens from one number to another, of one call
LEMMA TokenCount ==
  ASSUME NEW c, NEW m \in Nat, NEW n \in Nat, m <= n
  PROVE  IsFiniteSet({c} \X ((m + 1)..n)) /\ Cardinality({c} \X ((m + 1)..n)) = n - m
<1>1. IsFiniteSet((m + 1)..n) /\ Cardinality((m + 1)..n) = n - m
  <2>1. m + 1 \in Int /\ n \in Int
    OBVIOUS
  <2>2. IsFiniteSet((m + 1)..n) /\ Cardinality((m + 1)..n) = IF m + 1 > n THEN 0 ELSE n - (m + 1) + 1
    BY <2>1, FS_Interval
  <2> QED BY <2>2
<1>2. IsFiniteSet({c}) /\ Cardinality({c}) = 1
  BY FS_Singleton
<1>3. Cardinality({c} \X ((m + 1)..n)) = 1 * (n - m) /\ IsFiniteSet({c} \X ((m + 1)..n))
  BY <1>1, <1>2, FS_Product
<1> QED BY <1>3

\* What one call can add to a window
LEMMA WindowGrows ==
  ASSUME NEW old \in SUBSET Call, NEW new \in SUBSET Call, NEW c \in Call, new \subseteq old \cup {c},
         \A d \in Call \ {c} : lease'[d] = lease[d]
  PROVE  /\ Cardinality(new) <= Cardinality(old) + 1
         /\ Cardinality(TokensOf(new)') <= Cardinality(TokensOf(old)) + Tokens
         /\ Cardinality(TokensOf(new)') \in Nat
<1>1. /\ IsFiniteSet(old \cup {c}) /\ Cardinality(old \cup {c}) <= Cardinality(old) + 1
      /\ Cardinality(new) <= Cardinality(old \cup {c}) /\ Cardinality(new) \in Nat
  <2>1. IsFiniteSet(old \cup {c}) /\ Cardinality(old \cup {c}) <= Cardinality(old) + 1
    BY TokensFinite, FS_AddElement
  <2> QED BY <2>1, TokensFinite, FS_Subset
<1>2. Cardinality(new) <= Cardinality(old) + 1
  BY <1>1, TokensFinite, FS_CardinalityType
<1> DEFINE D == {c} \X ((0 + 1)..Tokens)
<1>3. IsFiniteSet(D) /\ Cardinality(D) = Tokens
  <2>1. 0 \in Nat /\ Tokens \in Nat /\ 0 <= Tokens
    BY Limits
  <2>2. IsFiniteSet(D) /\ Cardinality(D) = Tokens - 0
    BY ONLY <2>1, TokenCount
  <2> QED BY <2>1, <2>2
<1>4. TokensOf(new)' \subseteq TokensOf(old) \cup D
  <2> SUFFICES ASSUME NEW p \in TokensOf(new)'
               PROVE  p \in TokensOf(old) \cup D
    OBVIOUS
  <2>1. p \in new \X (1..Tokens) /\ p[2] <= lease'[p[1]].charged
    BY DEF TokensOf
  <2>2. CASE p[1] = c
    BY <2>1, <2>2
  <2>3. CASE p[1] # c
    BY <2>1, <2>3 DEF TokensOf
  <2> QED BY <2>2, <2>3
<1>5. /\ IsFiniteSet(TokensOf(old) \cup D)
      /\ Cardinality(TokensOf(old) \cup D) <= Cardinality(TokensOf(old)) + Tokens
  <2>1. /\ IsFiniteSet(TokensOf(old) \cup D)
        /\ Cardinality(TokensOf(old) \cup D) =
              Cardinality(TokensOf(old)) + Cardinality(D) - Cardinality(TokensOf(old) \cap D)
    BY <1>3, TokensFinite, FS_Union
  <2>2. Cardinality(TokensOf(old) \cap D) \in Nat
    BY TokensFinite, FS_Intersection, FS_CardinalityType
  <2> QED BY <1>3, <2>1, <2>2, TokensFinite, Limits
<1>6. /\ Cardinality(TokensOf(new)') <= Cardinality(TokensOf(old) \cup D)
      /\ Cardinality(TokensOf(new)') \in Nat /\ Cardinality(TokensOf(old) \cup D) \in Nat
  BY <1>4, <1>5, FS_Subset, FS_CardinalityType
<1> QED BY <1>2, <1>5, <1>6, TokensFinite, Limits

\* What a release of one call takes from the tokens of a window it is in
LEMMA TokensShrink ==
  ASSUME NEW old \in SUBSET Call, NEW new \in SUBSET old, NEW c \in old, lease[c].charged \in 0..Tokens,
         NEW n \in Nat, n <= lease[c].charged, lease'[c].charged = n,
         \A d \in Call \ {c} : lease'[d] = lease[d]
  PROVE  /\ Cardinality(TokensOf(new)') <= Cardinality(TokensOf(old)) - (lease[c].charged - n)
         /\ Cardinality(TokensOf(new)') \in Nat
<1> DEFINE m == lease[c].charged
           D == {c} \X ((n + 1)..m)
<1>1. IsFiniteSet(D) /\ Cardinality(D) = m - n /\ m \in Nat
  <2>1. m \in Nat
    BY Limits
  <2> QED BY <2>1, TokenCount
<1>2. D \subseteq TokensOf(old)
  <2> SUFFICES ASSUME NEW p \in D PROVE p \in TokensOf(old)
    OBVIOUS
  <2>1. p[1] = c /\ p[2] \in 1..Tokens /\ p[2] <= m /\ p = <<p[1], p[2]>>
    BY <1>1, Limits
  <2> QED BY <2>1 DEF TokensOf
<1>3. TokensOf(new)' \subseteq TokensOf(old) \ D
  <2> SUFFICES ASSUME NEW p \in TokensOf(new)'
               PROVE  p \in TokensOf(old) \ D
    OBVIOUS
  <2>1. p \in new \X (1..Tokens) /\ p[2] <= lease'[p[1]].charged
    BY DEF TokensOf
  <2>2. CASE p[1] = c
    BY <1>1, <2>1, <2>2, Limits DEF TokensOf
  <2>3. CASE p[1] # c
    BY <2>1, <2>3 DEF TokensOf
  <2> QED BY <2>2, <2>3
<1>4. /\ IsFiniteSet(TokensOf(old) \ D)
      /\ Cardinality(TokensOf(old) \ D) = Cardinality(TokensOf(old)) - (m - n)
  <2>1. TokensOf(old) \cap D = D
    BY <1>2
  <2>2. /\ IsFiniteSet(TokensOf(old) \ D)
        /\ Cardinality(TokensOf(old) \ D) = Cardinality(TokensOf(old)) - Cardinality(TokensOf(old) \cap D)
    BY TokensFinite, FS_Difference
  <2> QED BY <1>1, <2>1, <2>2
<1> QED BY <1>3, <1>4, FS_Subset, FS_CardinalityType

\* A step that charges nothing and keeps the row keeps the window
LEMMA WindowKept ==
  ASSUME IInv, WInv, group' = group, now' \in Nat, now <= now',
         \A d \in Call : /\ lease'[d].charged = lease[d].charged
                         /\ lease[d].charged > 0 => lease'[d].created = lease[d].created
  PROVE  CountersCoverWindow'
<1>0. lease \in [Call -> LeaseType] /\ group \in GroupType /\ now \in 0..MaxTime
  BY Types DEF IInv, Inv, TypeOK
<1>1. Window' = Window
  BY <1>0, Limits DEF Window, Charged, WInv, ChargedInTime, LeaseType, GroupType
<1>2. TokensOf(Window)' = TokensOf(Window)
  <2>1. Window \subseteq Call
    BY DEF Window, Charged
  <2> QED BY <1>1, <2>1 DEF TokensOf
<1> QED BY <1>1, <1>2 DEF WInv, CountersCoverWindow, Window

LEMMA AdmitCovers ==
  ASSUME IInv, WInv, NEW c \in Call, Admit(c)
  PROVE  WInv'
<1> DEFINE bucket == Bucket(lease[c].created)
           w == Rolled(bucket)
<1>0. lease \in [Call -> LeaseType] /\ group \in GroupType /\ now \in 0..MaxTime /\ now' = now
  BY Types DEF IInv, Inv, TypeOK, Admit
<1>1. bucket \in Nat /\ bucket <= lease[c].created /\ lease[c].created \in Nat /\ lease[c].created <= now
  BY <1>0, BucketBelow DEF LeaseType, WInv, ChargedInTime
<1>2. /\ \A d \in Call \ {c} : lease'[d] = lease[d]
      /\ lease'[c].charged = Tokens /\ lease'[c].created = lease[c].created
  <2>1. lease' = [lease EXCEPT ![c] = [@ EXCEPT !.state = "ACTIVE", !.charged = Tokens]]
    BY <1>0 DEF Admit, LeaseType
  <2> QED BY <1>0, <2>1 DEF LeaseType
<1>3. /\ w \in [inflight : Nat, start : Nat, requests : Nat, tokens : Nat]
      /\ group'.start = w.start /\ group'.requests = w.requests + 1 /\ group'.tokens = w.tokens + Tokens
  <2>0. group \in [inflight : Nat, start : Nat, requests : Nat, tokens : Nat]
    BY <1>0, Limits DEF GroupType
  <2>1. w \in [inflight : Nat, start : Nat, requests : Nat, tokens : Nat]
    BY <1>1, <2>0 DEF Rolled
  <2>2. group' = [w EXCEPT !.inflight = @ + 1, !.requests = @ + 1, !.tokens = @ + Tokens]
    BY DEF Admit
  <2> QED BY <2>1, <2>2
<1>4. group.start <= w.start /\ bucket < w.start + Span
  BY <1>0, <1>1, Limits DEF Rolled, GroupType, Span
<1>5. ChargedInTime'
  <2> SUFFICES ASSUME NEW d \in Call
               PROVE  /\ lease'[d].state \in Held => lease'[d].charged = Tokens
                      /\ lease'[d].created <= now'
                      /\ lease'[d].charged > 0 => Bucket(lease'[d].created) < group'.start + Span
    BY DEF ChargedInTime
  <2>1. CASE d = c
    BY <1>0, <1>1, <1>2, <1>3, <1>4, <2>1
  <2>2. CASE d # c
    <3>1. lease'[d] = lease[d] /\ lease[d].created \in Nat
      BY <1>0, <1>2, <2>2 DEF LeaseType
    <3>2. lease[d].charged > 0 => Bucket(lease[d].created) < w.start + Span
      <4>1. Bucket(lease[d].created) \in Nat /\ group.start \in Nat /\ Span \in Nat
        BY <1>0, <3>1, BucketBelow, Limits DEF GroupType, Span
      <4> QED BY <1>3, <1>4, <4>1 DEF WInv, ChargedInTime
    <3> QED BY <1>0, <1>3, <3>1, <3>2 DEF WInv, ChargedInTime
  <2> QED BY <2>1, <2>2
<1>6. CountersCoverWindow'
  <2>1. Window \in SUBSET Call /\ Window' \in SUBSET Call
    BY DEF Window, Charged
  <2>2. CASE bucket >= group.start + Span
    <3>1. w.start = bucket /\ w.requests = 0 /\ w.tokens = 0
      BY <1>0, <2>2 DEF Rolled, GroupType
    <3>2. Window' \subseteq {} \cup {c}
      <4> SUFFICES ASSUME NEW d \in Window', d # c PROVE FALSE
        OBVIOUS
      <4>1. d \in Call /\ lease[d].charged > 0 /\ lease[d].created \in Nat /\ bucket <= lease[d].created
        BY <1>0, <1>1, <1>2, <1>3, <3>1 DEF Window, Charged, LeaseType
      <4>2. bucket <= Bucket(lease[d].created)
        BY <1>1, <4>1, BucketMonotone
      <4>3. Bucket(lease[d].created) < group.start + Span
        BY <4>1 DEF WInv, ChargedInTime
      <4>4. Bucket(lease[d].created) \in Nat /\ group.start + Span \in Nat
        BY <1>0, <4>1, BucketBelow, Limits DEF GroupType, Span
      <4> QED BY <1>1, <2>2, <4>2, <4>3, <4>4
    <3>3. Cardinality({}) = 0 /\ TokensOf({}) = {} /\ {} \in SUBSET Call
      BY FS_EmptySet DEF TokensOf
    <3>4. /\ Cardinality(Window') <= Cardinality({}) + 1
          /\ Cardinality(TokensOf(Window)') <= Cardinality(TokensOf({})) + Tokens
      BY ONLY <1>2, <2>1, <3>2, <3>3, c \in Call, WindowGrows
    <3> QED BY <1>3, <3>1, <3>3, <3>4, Limits DEF CountersCoverWindow, Window
  <2>3. CASE ~(bucket >= group.start + Span)
    <3>1. w = group
      BY <2>3 DEF Rolled
    <3>2. Window' \subseteq Window \cup {c}
      BY <1>0, <1>2, <1>3, <3>1 DEF Window, Charged
    <3>3. /\ Cardinality(Window') <= Cardinality(Window) + 1
          /\ Cardinality(TokensOf(Window)') <= Cardinality(TokensOf(Window)) + Tokens
          /\ Cardinality(TokensOf(Window)') \in Nat
      BY ONLY <1>2, <2>1, <3>2, c \in Call, WindowGrows
    <3>4. group.requests >= Cardinality(Window) /\ group.tokens >= Cardinality(TokensOf(Window))
      BY DEF WInv, CountersCoverWindow, Window
    <3>5. /\ Cardinality(Window) \in Nat /\ Cardinality(TokensOf(Window)) \in Nat
          /\ Cardinality(Window') \in Nat
      BY <2>1, TokensFinite
    <3>6. group'.requests >= Cardinality(Window') /\ group'.tokens >= Cardinality(TokensOf(Window)')
      BY <1>0, <1>3, <3>1, <3>3, <3>4, <3>5, Limits DEF GroupType
    <3> QED BY <3>6 DEF CountersCoverWindow, Window
  <2> QED BY <2>2, <2>3
<1> QED BY <1>5, <1>6 DEF WInv

\* A release takes back from a window only what that window counts
LEMMA ReleaseCovers ==
  ASSUME IInv, WInv, NEW c \in Call, ReleaseUnsent(c) \/ Settle(c) \/ MarkUnknown(c)
  PROVE  WInv'
<1>0. /\ lease \in [Call -> LeaseType] /\ group \in GroupType /\ now \in 0..MaxTime /\ now' = now
      /\ lease[c].state \in Held /\ lease[c].charged = Tokens
  BY Types DEF IInv, Inv, TypeOK, ReleaseUnsent, Settle, MarkUnknown, Moves, LeaseMatchesCall,
               WInv, ChargedInTime
<1>1. PICK plan :
        /\ IsPlan(plan) /\ Advance(c, plan)
        /\ plan.places = 0 => plan.charged = lease[c].charged
        /\ plan.requests = 1 => plan.charged = 0
  <2>1. CASE ReleaseUnsent(c)
    BY <2>1, Limits DEF ReleaseUnsent, IsPlan, Unsent, Plan
  <2>2. CASE Settle(c)
    <3>1. PICK usage \in 1..Tokens : Advance(c, Ended(usage))
      BY <2>2 DEF Settle
    <3> QED BY <3>1, Limits DEF IsPlan, Ended, Plan
  <2>3. CASE MarkUnknown(c)
    BY <1>0, <2>3, Limits DEF MarkUnknown, IsPlan, Unknown, Plan
  <2> QED BY <2>1, <2>2, <2>3
<1>2. CASE Parked(c, plan)
  <2>1. lease' = lease /\ group' = group
    BY <1>1, <1>2 DEF Advance
  <2>2. CountersCoverWindow'
    BY <1>0, <2>1, WindowKept
  <2> QED BY <1>0, <2>1, <2>2 DEF WInv, ChargedInTime
<1>3. CASE ~Parked(c, plan)
  <2>1. /\ lease'[c].state = plan.target /\ lease'[c].charged = plan.charged
        /\ lease'[c].created = lease[c].created
        /\ \A d \in Call \ {c} : lease'[d] = lease[d]
    <3>1. lease' = [lease EXCEPT ![c] = [@ EXCEPT !.state = plan.target, !.charged = plan.charged]]
      BY <1>0, <1>1, <1>3 DEF Advance, LeaseType
    <3> QED BY <1>0, <3>1 DEF LeaseType
  <2>2. plan.charged \in 0..Tokens /\ plan.requests \in {0, 1} /\ (plan.requests = 1 => plan.places = 1)
    BY <1>1 DEF IsPlan
  <2>3. /\ group'.start = group.start
        /\ Counted(c) => /\ group'.requests = Minus(group.requests, plan.requests)
                         /\ group'.tokens = Minus(group.tokens, Minus(Tokens, plan.charged))
        /\ ~Counted(c) => group'.requests = group.requests /\ group'.tokens = group.tokens
    BY <1>0, <1>1, <1>3 DEF Advance, GroupType
  <2>4. ChargedInTime'
    <3> SUFFICES ASSUME NEW d \in Call
                 PROVE  /\ lease'[d].state \in Held => lease'[d].charged = Tokens
                        /\ lease'[d].created <= now'
                        /\ lease'[d].charged > 0 => Bucket(lease'[d].created) < group'.start + Span
      BY DEF ChargedInTime
    <3>1. CASE d = c
      <4>1. plan.target \in Held => plan.charged = Tokens
        BY <1>0, <1>1 DEF IsPlan, Held
      <4> QED BY <1>0, <2>1, <2>3, <3>1, <4>1, Limits DEF WInv, ChargedInTime
    <3>2. CASE d # c
      BY <1>0, <2>1, <2>3, <3>2 DEF WInv, ChargedInTime
    <3> QED BY <3>1, <3>2
  <2>5. Window \in SUBSET Call /\ Window' \subseteq Window
    BY <1>0, <2>1, <2>2, <2>3, Limits DEF Window, Charged
  <2>6. /\ group.requests >= Cardinality(Window) /\ group.tokens >= Cardinality(TokensOf(Window))
        /\ Cardinality(Window) \in Nat /\ Cardinality(TokensOf(Window)) \in Nat
        /\ group.requests \in Nat /\ group.tokens \in Nat
    BY <1>0, <2>5, TokensFinite, Limits DEF WInv, CountersCoverWindow, Window, GroupType
  <2>7. CASE Counted(c)
    <3>1. c \in Window
      BY <1>0, <2>7, Limits DEF Counted, Window, Charged, WInv, ChargedInTime, LeaseType, GroupType
    <3>2. /\ Cardinality(TokensOf(Window)') <= Cardinality(TokensOf(Window)) - (Tokens - plan.charged)
          /\ Cardinality(TokensOf(Window)') \in Nat
      <4>1. /\ lease[c].charged \in 0..Tokens /\ plan.charged \in Nat /\ plan.charged <= lease[c].charged
            /\ Window' \in SUBSET Window
        BY <1>0, <2>2, <2>5, Limits
      <4>2. /\ Cardinality(TokensOf(Window)') <=
                 Cardinality(TokensOf(Window)) - (lease[c].charged - plan.charged)
            /\ Cardinality(TokensOf(Window)') \in Nat
        BY ONLY <2>1, <2>5, <3>1, <4>1, TokensShrink
      <4> QED BY <1>0, <4>2
    <3>3. Cardinality(Window') <= Cardinality(Window) - plan.requests
      <4>1. CASE plan.requests = 0
        BY <2>5, <2>6, <4>1, FS_Subset, TokensFinite
      <4>2. CASE plan.requests = 1
        <5>1. plan.charged = 0
          BY <1>1, <4>2
        <5>2. Window' \subseteq Window \ {c}
          BY <2>1, <2>5, <5>1 DEF Window, Charged
        <5>3. IsFiniteSet(Window \ {c}) /\ Cardinality(Window \ {c}) = Cardinality(Window) - 1
          BY <2>5, <3>1, TokensFinite, FS_RemoveElement
        <5>4. Cardinality(Window') <= Cardinality(Window \ {c})
          BY <5>2, <5>3, FS_Subset
        <5> QED BY <4>2, <5>3, <5>4
      <4> QED BY <2>2, <4>1, <4>2
    <3>4. group'.requests >= Cardinality(Window')
      <4>1. Cardinality(Window') \in Nat
        BY <2>5, TokensFinite
      <4> QED BY <2>2, <2>3, <2>6, <2>7, <3>3, <4>1 DEF Minus
    <3>5. group'.tokens >= Cardinality(TokensOf(Window)')
      BY <2>2, <2>3, <2>6, <2>7, <3>2, Limits DEF Minus
    <3> QED BY <2>4, <3>4, <3>5 DEF WInv, CountersCoverWindow, Window
  <2>8. CASE ~Counted(c)
    <3>1. c \notin Window
      BY <1>0, <2>8 DEF Counted, Window, Charged, LeaseType, GroupType
    <3>2. Window' = Window
      BY <1>0, <2>1, <2>3, <3>1, <2>5 DEF Window, Charged
    <3>3. TokensOf(Window)' = TokensOf(Window)
      BY <2>1, <2>5, <3>1, <3>2 DEF TokensOf
    <3> QED BY <2>3, <2>4, <2>6, <2>8, <3>2, <3>3 DEF WInv, CountersCoverWindow, Window
  <2> QED BY <2>7, <2>8
<1> QED BY <1>2, <1>3

\* No other step charges or settles a call
LEMMA OthersCover ==
  ASSUME IInv, WInv, IInv',
         \/ Tick \/ UNCHANGED vars
         \/ \E c \in Call : \/ Refuse(c) \/ Send(c) \/ Answer(c) \/ Misread(c) \/ Break(c)
                            \/ LoseLease(c) \/ Renew(c) \/ Abandon(c) \/ RemoteEnds(c) \/ Sweep(c) \/ \E k \in Key : Choose(c, k)
  PROVE  WInv'
<1>0. lease \in [Call -> LeaseType] /\ lease' \in [Call -> LeaseType] /\ now \in Nat
  BY Types, Limits DEF IInv, Inv, TypeOK, LeaseType
<1>1. group' = group /\ (now' = now \/ now' = now + 1)
  BY DEF Tick, vars, Refuse, Send, Answer, Misread, Break, LoseLease, Renew, Abandon, RemoteEnds, Sweep, Choose,
         executor
<1>2. \A d \in Call :
        /\ lease'[d].charged = lease[d].charged
        /\ lease'[d].state \in Held => lease[d].state \in Held
        /\ \/ lease'[d].created = lease[d].created
           \/ lease[d].charged = 0 /\ lease'[d].created <= now
  <2>1. CASE lease' = lease
    BY <2>1
  <2>2. CASE \E c \in Call : Renew(c) \/ Sweep(c)
    BY <1>0, <2>2 DEF Renew, Renewable, Sweep, Held, LeaseType
  <2>3. CASE \E c \in Call : Refuse(c)
    BY <1>0, <2>3 DEF Refuse, Moves, NoLease, Held, IInv, LeaseMatchesCall
  <2>4. CASE \E c \in Call, k \in Key : Choose(c, k)
    <3>1. PICK c \in Call, k \in Key : Choose(c, k)
      BY <2>4
    <3>2. /\ lease'[c].state = "NONE" /\ lease'[c].charged = 0 /\ lease'[c].created = now
          /\ \A d \in Call \ {c} : lease'[d] = lease[d]
      BY <1>0, <3>1 DEF Choose, NoLease
    <3>3. lease[c].charged = 0
      BY <3>1 DEF Choose, Moves, IInv, LeaseMatchesCall
    <3> QED BY <1>0, <3>2, <3>3 DEF Held
  <2> QED BY <2>1, <2>2, <2>3, <2>4
     DEF Tick, vars, Send, Answer, Misread, Break, LoseLease, Abandon, RemoteEnds
<1>3. CountersCoverWindow'
  BY <1>0, <1>1, <1>2, WindowKept DEF LeaseType
<1>4. ChargedInTime'
  <2> SUFFICES ASSUME NEW d \in Call
               PROVE  /\ lease'[d].state \in Held => lease'[d].charged = Tokens
                      /\ lease'[d].created <= now'
                      /\ lease'[d].charged > 0 => Bucket(lease'[d].created) < group'.start + Span
    BY DEF ChargedInTime
  <2>1. lease[d].created \in Nat /\ lease'[d].created \in Nat
    BY <1>0 DEF LeaseType
  <2> QED BY <1>0, <1>1, <1>2, <2>1 DEF WInv, ChargedInTime
<1> QED BY <1>3, <1>4 DEF WInv

(* "A release never touches what another window counts": the counters of   *)
(* the quota group never fall below the requests and the tokens of the     *)
(* calls that were admitted since the window began and are still charged.  *)
THEOREM WindowIsCovered == Spec => []CountersCoverWindow
<1>1. Init => WInv
  <2> SUFFICES ASSUME Init PROVE WInv
    OBVIOUS
  <2>1. ChargedInTime
    BY Limits DEF Init, ChargedInTime, NoLease, Held
  <2>2. Window = {} /\ TokensOf(Window) = {}
    BY DEF Init, Window, Charged, NoLease, TokensOf
  <2> QED BY <2>1, <2>2, FS_EmptySet DEF Init, WInv, CountersCoverWindow, Window
<1>2. IInv /\ WInv /\ IInv' /\ [Next]_vars => WInv'
  BY AdmitCovers, ReleaseCovers, OthersCover DEF Next, Reserving, Closing
<1>3. WInv => CountersCoverWindow
  BY DEF WInv
<1> QED BY <1>1, <1>2, <1>3, IInvHolds, PTL DEF Spec
=============================================================================
