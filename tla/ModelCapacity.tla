---------------------------- MODULE ModelCapacity ----------------------------
(***************************************************************************)
(* Capacity of the model providers: every call of a model reserves a place *)
(* on an API key and in the quota group (the account) the keys share, and  *)
(* the place is given back only when it is known that the provider does    *)
(* not work for the call any more.  Source: agent-runtime's                *)
(* model_capacity_service.py, model_capacity_store.py, model_allocator.py  *)
(* and PooledModelProvider in executor.py.                                 *)
(*                                                                         *)
(* The capacity rows are written by one conditional UPDATE each at the end *)
(* of a transaction, group before key, so admission and release are one    *)
(* step; the clock of a reservation is read earlier, before it waits for   *)
(* the rows.  Every reservation is for a new call_attempt_id.  The rows of *)
(* the keys count requests and tokens too, but only the group limits them. *)
(***************************************************************************)
EXTENDS Naturals, FiniteSets

CONSTANTS
  Call,      \* call attempts
  Key,       \* API keys, all in one quota group
  KeyCap,    \* max_inflight of a key
  GroupCap,  \* max_inflight of the group
  Rpm, Tpm,  \* requests and tokens of the group in a window
  Tokens,    \* tokens a call reserves
  Minute,    \* ticks of a bucket, and of the window
  LeaseLen,  \* model_call_lease_sec
  Deadline,  \* of the runs the calls belong to
  MaxTime,   \* bound: the clock
  None

ASSUME LimitsAssumption ==
  /\ {KeyCap, GroupCap, Rpm, Tpm, LeaseLen, Deadline, MaxTime} \subseteq Nat
  /\ Tokens \in Nat \ {0} /\ Minute \in Nat \ {0} /\ Minute <= Deadline /\ Deadline <= MaxTime
ASSUME NamesAssumption == None \notin Key /\ IsFiniteSet(Call)

VARIABLES
  now,       \* the clock of PostgreSQL
  inflight,  \* of the rows of the keys
  group,     \* the row of the group
  lease,     \* model_call_lease
  call,      \* where the executor is with each call
  remote,    \* calls the provider works for
  cut,       \* calls whose executor does not know how they ended
  misread    \* calls taken for refused while the provider is at them

executor == <<call, remote, cut, misread>>
vars     == <<now, inflight, group, lease, executor>>

Held    == {"ACTIVE", "UNKNOWN"}
NoLease == [state |-> "NONE", key |-> None, created |-> 0, until |-> 0, charged |-> 0]

\* Idle rows, left by the calls of the minute before
Init ==
  /\ now = Minute
  /\ inflight = [k \in Key |-> 0]
  /\ group = [inflight |-> 0, start |-> 0, requests |-> 0, tokens |-> 0]
  /\ lease = [c \in Call |-> NoLease]
  /\ call = [c \in Call |-> "idle"]
  /\ remote = {} /\ cut = {} /\ misread = {}

Tick ==
  /\ now < MaxTime /\ now' = now + 1
  /\ UNCHANGED <<inflight, group, lease, executor>>

Moves(c, from, to) == call[c] = from /\ call' = [call EXCEPT ![c] = to]

Earliest(a, b) == IF a < b THEN a ELSE b
Latest(a, b)   == IF a < b THEN b ELSE a

-----------------------------------------------------------------------------
(* Reservation. *)

\* _bucket_start
Bucket(t) == (t \div Minute) * Minute

\* QUOTA_WINDOW_SECONDS * QUOTA_WINDOW_BUCKETS
Span == 2 * Minute

\* mutant: a new window starts without the calls in flight
Rolled_Empty(bucket) ==
  IF bucket >= group.start + Span
  THEN [inflight |-> 0, start |-> bucket, requests |-> 0, tokens |-> 0]
  ELSE group

(* What _ADMIT_CAPACITY_SQL counts before it adds: the row, or a new       *)
(* window when the bucket of the transaction is a span after its start.    *)
Rolled(bucket) ==
  IF bucket >= group.start + Span
  THEN [group EXCEPT !.start = bucket, !.requests = 0, !.tokens = 0]
  ELSE group

(* The allocator picks a key with a free place, and the reservation reads  *)
(* its clock.                                                              *)
Choose(c, k) ==
  /\ Moves(c, "idle", "reserving")
  /\ now < Deadline /\ inflight[k] < KeyCap
  /\ lease' = [lease EXCEPT ![c] = [NoLease EXCEPT !.key = k, !.created = now,
                                                   !.until = Earliest(now + LeaseLen, Deadline)]]
  /\ UNCHANGED <<now, inflight, group, remote, cut, misread>>

Fits(c) ==
  LET w == Rolled(Bucket(lease[c].created)) IN
  /\ inflight[lease[c].key] < KeyCap /\ group.inflight < GroupCap
  /\ w.requests + 1 <= Rpm /\ w.tokens + Tokens <= Tpm

\* _reserve_in: the lease and both rows
Admit(c) ==
  /\ Moves(c, "reserving", "resolving") /\ Fits(c)
  /\ LET w == Rolled(Bucket(lease[c].created)) IN
       group' = [w EXCEPT !.inflight = @ + 1, !.requests = @ + 1, !.tokens = @ + Tokens]
  /\ inflight' = [inflight EXCEPT ![lease[c].key] = @ + 1]
  /\ lease' = [lease EXCEPT ![c].state = "ACTIVE", ![c].charged = Tokens]
  /\ UNCHANGED <<now, remote, cut, misread>>

\* A row is full: nothing is written, the executor tries again later
Refuse(c) ==
  /\ Moves(c, "reserving", "idle") /\ ~Fits(c)
  /\ lease' = [lease EXCEPT ![c] = NoLease]
  /\ UNCHANGED <<now, inflight, group, remote, cut, misread>>

-----------------------------------------------------------------------------
(* Release: _advance_transition with its plan. *)

Plan(target, places, requests, charged) ==
  [target |-> target, places |-> places, requests |-> requests, charged |-> charged]

Minus(a, b) == IF b > a THEN 0 ELSE a - b

\* mutant: what was reserved in an older window is taken from the new one
Counted_Always(c) == TRUE

\* _RELEASE_CAPACITY_SQL: a lease of an older window leaves the counters alone
Counted(c) == lease[c].created >= group.start

\* _parked_release: the states a plan does not go on from
Parked(c, plan) ==
  \/ lease[c].state = "SETTLED"
  \/ lease[c].state = "UNKNOWN" /\ (plan.requests = 1 \/ plan.places = 0)

(* The lease row, then the group's and the key's.  The plan without a      *)
(* place, UNKNOWN, changes no counter.                                     *)
Advance(c, plan) ==
  IF Parked(c, plan) THEN UNCHANGED <<inflight, group, lease>>
  ELSE
    /\ lease' = [lease EXCEPT ![c].state = plan.target, ![c].charged = plan.charged]
    /\ inflight' = [inflight EXCEPT ![lease[c].key] = Minus(@, plan.places)]
    /\ group' = [group EXCEPT
         !.inflight = Minus(@, plan.places),
         !.requests = IF Counted(c) THEN Minus(@, plan.requests) ELSE @,
         !.tokens   = IF Counted(c) THEN Minus(@, Minus(lease[c].charged, plan.charged)) ELSE @]

Unsent       == Plan("SETTLED", 1, 1, 0)
Ended(usage) == Plan("SETTLED", 1, 0, usage)

\* mutant: what nobody knows the end of gives its place back
Unknown_Releases(c) == Plan("UNKNOWN", 1, 0, lease[c].charged)

Unknown(c) == Plan("UNKNOWN", 0, 0, lease[c].charged)

-----------------------------------------------------------------------------
(* The executor: _select_and_reserve, _send, and the renewal beside it. *)

(* The credential was changed or cannot be resolved: certainly not sent.   *)
(* A lease the sweep has already made UNKNOWN is refused, and stays.       *)
ReleaseUnsent(c) ==
  /\ Moves(c, "resolving", "over")
  /\ Advance(c, Unsent)
  /\ cut' = IF lease[c].state = "UNKNOWN" THEN cut \cup {c} ELSE cut
  /\ UNCHANGED <<now, remote, misread>>

\* The lease is not looked at again before the call goes out
Send(c) ==
  /\ Moves(c, "resolving", "sent")
  /\ remote' = remote \cup {c}
  /\ UNCHANGED <<now, inflight, group, lease, cut, misread>>

\* The provider's answer, to its end, or its refusal (429, 4xx)
Answer(c) ==
  /\ Moves(c, "sent", "answered") /\ c \in remote
  /\ remote' = remote \ {c}
  /\ UNCHANGED <<now, inflight, group, lease, cut, misread>>

(* What came of an unfinished stream does not parse: a chunk cut short or  *)
(* malformed, the arguments of a tool call cut short.  That is an error of *)
(* the request as a 4xx is, and _remote_proof_for takes it for one.        *)
Misread(c) ==
  /\ Moves(c, "sent", "answered") /\ c \in remote
  /\ misread' = misread \cup {c}
  /\ UNCHANGED <<now, inflight, group, lease, remote, cut>>

(* An answer without an end that parses, a broken connection, a timeout, a *)
(* stopped run or a lost lease: the provider may be at it still.           *)
Break(c) ==
  /\ Moves(c, "sent", "broken")
  /\ cut' = cut \cup {c}
  /\ UNCHANGED <<now, inflight, group, lease, remote, misread>>

\* mutant: renewed past the deadline of the run
Renewable_PastDeadline(c) == lease[c].state = "ACTIVE" /\ (lease[c].until > now \/ now >= Deadline)

Renewable(c) == lease[c].state = "ACTIVE" /\ lease[c].until > now /\ now < Deadline

Renew(c) ==
  /\ call[c] = "sent" /\ Renewable(c)
  /\ lease' = [lease EXCEPT ![c].until = Latest(@, Earliest(now + LeaseLen, Deadline))]
  /\ UNCHANGED <<now, inflight, group, executor>>

LoseLease(c) == ~Renewable(c) /\ Break(c)

\* _settle_response with or without usage, _settle_failure with a proof
Settle(c) ==
  /\ Moves(c, "answered", "over")
  /\ \E usage \in 1..Tokens : Advance(c, Ended(usage)) /\ (c \in misread => usage = Tokens)
  /\ UNCHANGED <<now, remote, cut, misread>>

\* _settle with UNKNOWN, _mark_unknown_quietly
MarkUnknown(c) ==
  /\ Moves(c, "broken", "over")
  /\ Advance(c, Unknown(c))
  /\ UNCHANGED <<now, remote, cut, misread>>

(* The process dies; or a cancellation before the call is sent, or a       *)
(* database that fails when the call is settled: nobody comes back to it.  *)
Abandon(c) ==
  /\ call[c] \in {"resolving", "sent", "answered", "broken"}
  /\ call' = [call EXCEPT ![c] = "over"]
  /\ cut' = cut \cup {c}
  /\ UNCHANGED <<now, inflight, group, lease, remote, misread>>

\* The provider ends what nobody waits for
RemoteEnds(c) ==
  /\ c \in remote /\ call[c] # "sent"
  /\ remote' = remote \ {c} /\ misread' = misread \ {c}
  /\ UNCHANGED <<now, inflight, group, lease, call, cut>>

\* sweep_expired, an operation of the service without a caller so far
Sweep(c) ==
  /\ lease[c].state = "ACTIVE" /\ lease[c].until <= now
  /\ lease' = [lease EXCEPT ![c].state = "UNKNOWN"]
  /\ UNCHANGED <<now, inflight, group, executor>>

-----------------------------------------------------------------------------
Reserving(c) == Admit(c) \/ Refuse(c)
Closing(c)   == ReleaseUnsent(c) \/ Send(c) \/ Settle(c) \/ MarkUnknown(c)

Next ==
  \/ Tick
  \/ \E c \in Call :
       \/ Reserving(c) \/ Closing(c) \/ Answer(c) \/ Misread(c) \/ Break(c) \/ Renew(c)
       \/ LoseLease(c) \/ Abandon(c) \/ RemoteEnds(c) \/ Sweep(c)
       \/ \E k \in Key : Choose(c, k)

Spec == Init /\ [][Next]_vars

(* Time goes on, the executor of a call that holds a place does its next   *)
(* step, and a heartbeat that cannot renew ends the call.  The two are     *)
(* never enabled together.  The provider may never answer, and a           *)
(* reservation may wait for the rows.                                      *)
FairSpec ==
  /\ Spec /\ WF_vars(Tick)
  /\ \A c \in Call : WF_vars(Closing(c) \/ LoseLease(c))

-----------------------------------------------------------------------------
(* Properties. *)

Holders       == {c \in Call : lease[c].state \in Held}
KeyHolders(k) == {c \in Holders : lease[c].key = k}

TypeOK ==
  /\ now \in 0..MaxTime
  /\ inflight \in [Key -> 0..KeyCap]
  /\ group \in [inflight : 0..GroupCap, start : 0..MaxTime, requests : 0..Rpm, tokens : 0..Tpm]
  /\ lease \in [Call -> [state : Held \cup {"NONE", "SETTLED"}, key : Key \cup {None},
                         created : 0..MaxTime, until : 0..MaxTime, charged : 0..Tokens]]
  /\ call \in [Call -> {"idle", "reserving", "resolving", "sent", "answered", "broken", "over"}]
  /\ remote \subseteq Call /\ cut \subseteq Call /\ misread \subseteq Call

\* Both rows hold exactly the leases that hold a place
PlacesAreLeases ==
  /\ group.inflight = Cardinality(Holders)
  /\ \A k \in Key : inflight[k] = Cardinality(KeyHolders(k))

(* Every variable keeps its type, and the rows of the key and of the group *)
(* agree with the leases through every release, settlement and sweep.      *)
Inv == TypeOK /\ PlacesAreLeases

(* What the limits are for: the provider never works for more calls of a   *)
(* key or an account than they allow, whatever died or was cut off.  Not   *)
(* counted are the calls whose unfinished stream did not parse: the code   *)
(* gives their places back, against its own words ("only a failure the     *)
(* remote side answered counts as ended", _remote_proof_for).              *)
ProviderIsSpared ==
  LET working == remote \ misread IN
  /\ Cardinality(working) <= GroupCap
  /\ \A k \in Key : Cardinality({c \in working : lease[c].key = k}) <= KeyCap

Charged(from, to) ==
  {c \in Call : lease[c].charged > 0 /\ lease[c].created \in from..to}

\* The tokens a set of calls is charged for, one by one
TokensOf(calls) == {p \in calls \X (1..Tokens) : p[2] <= lease[p[1]].charged}

(* "A release never touches what another window counts": the counters are  *)
(* never less than what the calls admitted since its start still count.    *)
CountersCoverWindow ==
  LET in == Charged(group.start, now) IN
  /\ group.requests >= Cardinality(in)
  /\ group.tokens >= Cardinality(TokensOf(in))

(* No call holds its place for ever, not even when the provider is silent: *)
(* it is settled, or its executor no longer knows how it ended.  The code  *)
(* has nothing that gives back the place of one that was cut off.          *)
PlaceComesBackOrIsCut ==
  \A c \in Call : []<>(c \notin Holders \/ c \in cut)

(* The comment on the window: a conservative rolling window of 60 seconds, *)
(* nothing that is still inside of it is forgotten.                        *)
WindowIsRolling ==
  \A t \in 0..MaxTime :
    Cardinality({c \in Call : lease[c].charged > 0 /\ lease[c].created \in t..(t + Minute - 1)}) <= Rpm
=============================================================================
