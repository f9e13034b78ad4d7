------------------------------ MODULE BotLease ------------------------------
(***************************************************************************)
(* The IM connectors and the bots they share: the lease of each bot in     *)
(* Redis, and the loops of a connector that keep its connections in step   *)
(* with it.  Source: im-connector's lease.py and runtime.py, and the       *)
(* connections of channels/wecom/adapter.py.                               *)
(*                                                                         *)
(* The loops of one process interleave at their awaits; _state_lock makes  *)
(* Renew and Reconcile whole.  Times are abstract.                         *)
(***************************************************************************)
EXTENDS Naturals

CONSTANTS
  Process,    \* the connectors
  Bot,
  Upsets,     \* bound: crashes, failures of Redis, lapses of a live lease, edits
  Troubled,   \* bound: the connectors and the bots these happen to
  MaxEpoch,   \* bound: leases taken of one bot
  None

ASSUME UpsetsAssumption == Upsets \in Nat /\ MaxEpoch \in Nat
ASSUME NoneAssumption   == None \notin Process \cup Bot

VARIABLES
  enabled,   \* bots enabled in the console
  lease,     \* in Redis: owner and epoch of each bot
  epochs,    \* in Redis: the counter behind the epochs
  up,        \* live processes
  seen,      \* _items: the bots of the last snapshot
  owned,     \* _owned: the epoch of each lease held, 0 for none
  desired,   \* _desired_items
  keeper,    \* the lease loop, and the bots it is about to drop
  event,     \* _apply_event
  apply,     \* the apply loop: bots to start, and the one it waits for
  link,      \* _connections: none, down (connecting, backing off) or up
  upsets     \* how many upsets there were

redis == <<lease, epochs>>
local == <<seen, owned, desired, keeper, event, apply, link>>
vars  == <<enabled, redis, up, local, upsets>>

Free    == [owner |-> None, epoch |-> 0]
Asleep  == [at |-> "asleep", lost |-> {}]
Resting == [todo |-> {}, at |-> None, hung |-> FALSE]

Init ==
  /\ enabled = Bot
  /\ lease = [b \in Bot |-> Free]
  /\ epochs = [b \in Bot |-> 0]
  /\ up = {}
  /\ seen = [p \in Process |-> {}]
  /\ owned = [p \in Process |-> [b \in Bot |-> 0]]
  /\ desired = [p \in Process |-> {}]
  /\ keeper = [p \in Process |-> Asleep]
  /\ event = [p \in Process |-> FALSE]
  /\ apply = [p \in Process |-> Resting]
  /\ link = [p \in Process |-> [b \in Bot |-> "none"]]
  /\ upsets = 0

Holds(p, b) == owned[p][b] # 0

-----------------------------------------------------------------------------
(* Surroundings. *)

Upset(x) == x \in Troubled /\ upsets < Upsets /\ upsets' = upsets + 1

\* A bot is enabled or disabled in the console
Toggle(b) ==
  /\ Upset(b)
  /\ enabled' = IF b \in enabled THEN enabled \ {b} ELSE enabled \cup {b}
  /\ UNCHANGED <<redis, up, local>>

Renewing(b) ==
  \E p \in up : Holds(p, b) /\ lease[b].owner = p /\ keeper[p].at # "dead"

\* PX: nobody renewed the lease, or not in time
Lapse(b) ==
  /\ lease[b] # Free
  /\ IF Renewing(b) THEN Upset(lease[b].owner) ELSE UNCHANGED upsets
  /\ lease' = [lease EXCEPT ![b] = Free]
  /\ UNCHANGED <<enabled, epochs, up, local>>

Crash(p) ==
  /\ p \in up /\ Upset(p)
  /\ up' = up \ {p}
  /\ seen' = [seen EXCEPT ![p] = {}]
  /\ owned' = [owned EXCEPT ![p] = [b \in Bot |-> 0]]
  /\ desired' = [desired EXCEPT ![p] = {}]
  /\ keeper' = [keeper EXCEPT ![p] = Asleep]
  /\ event' = [event EXCEPT ![p] = FALSE]
  /\ apply' = [apply EXCEPT ![p] = Resting]
  /\ link' = [link EXCEPT ![p] = [b \in Bot |-> "none"]]
  /\ UNCHANGED <<enabled, redis>>

-----------------------------------------------------------------------------
(* Leases. *)

\* ACQUIRE_SCRIPT: free, or left by an earlier life of this process
Acquirable(p, b) == epochs[b] < MaxEpoch /\ lease[b].owner \in {None, p}

\* What renew and release compare
Mine(p, b) == lease[b] = [owner |-> p, epoch |-> owned[p][b]]

\* mutant: counted from the lease, which an expiry takes away
NextEpoch_OfLease(b) == lease[b].epoch + 1

\* INCR, on a counter that never expires
NextEpoch(b) == epochs[b] + 1

(* _reconcile: take what is wanted and free, release what is no longer     *)
(* wanted, and have the connections follow.                                *)
Reconcile(p, wanted) ==
  LET taken == {b \in wanted : ~Holds(p, b) /\ Acquirable(p, b)}
      gone  == {b \in Bot : Holds(p, b)} \ wanted
      kept  == {b \in wanted : Holds(p, b)} \cup taken
  IN
  /\ epochs' = [b \in Bot |-> IF b \in taken THEN NextEpoch(b) ELSE epochs[b]]
  /\ lease' = [b \in Bot |-> IF b \in taken THEN [owner |-> p, epoch |-> NextEpoch(b)]
                             ELSE IF b \in gone /\ Mine(p, b) THEN Free
                             ELSE lease[b]]
  /\ owned' = [owned EXCEPT ![p] = [b \in Bot |-> IF b \in taken THEN NextEpoch(b)
                                                  ELSE IF b \in gone THEN 0 ELSE @[b]]]
  /\ desired' = [desired EXCEPT ![p] = kept]
  /\ event' = [event EXCEPT ![p] = TRUE]

\* start refreshes the snapshot before the loops run
Start(p) ==
  /\ p \notin up /\ up' = up \cup {p}
  /\ seen' = [seen EXCEPT ![p] = enabled]
  /\ Reconcile(p, enabled)
  /\ UNCHANGED <<enabled, keeper, apply, link, upsets>>

\* on_snapshot, for a new revision
Snapshot(p) ==
  /\ p \in up /\ seen[p] # enabled
  /\ seen' = [seen EXCEPT ![p] = enabled]
  /\ Reconcile(p, enabled)
  /\ UNCHANGED <<enabled, up, keeper, apply, link, upsets>>

\* RENEW_SCRIPT: the lease is gone, or another one
Lost(p) == {b \in Bot : Holds(p, b) /\ ~Mine(p, b)}

\* mutant: a connector without a bot has nothing to do
Renew_WhenOwning(p) ==
  /\ p \in up /\ keeper[p].at = "asleep" /\ \E b \in Bot : Holds(p, b)
  /\ keeper' = [keeper EXCEPT ![p] = [at |-> IF Lost(p) = {} THEN "reconciling" ELSE "dropping",
                                      lost |-> Lost(p)]]
  /\ owned' = [owned EXCEPT ![p] = [b \in Bot |-> IF b \in Lost(p) THEN 0 ELSE @[b]]]
  /\ UNCHANGED <<enabled, redis, up, seen, desired, event, apply, link, upsets>>

Renew(p) ==
  /\ p \in up /\ keeper[p].at = "asleep"
  /\ keeper' = [keeper EXCEPT ![p] = [at |-> IF Lost(p) = {} THEN "reconciling" ELSE "dropping",
                                      lost |-> Lost(p)]]
  /\ owned' = [owned EXCEPT ![p] = [b \in Bot |-> IF b \in Lost(p) THEN 0 ELSE @[b]]]
  /\ UNCHANGED <<enabled, redis, up, seen, desired, event, apply, link, upsets>>

(* What the apply loop still has to do: it passes over the bots that have  *)
(* a connection without giving up control, so nothing if all of them have. *)
Rest(todo, links) == IF \A b \in todo : links[b] # "none" THEN {} ELSE todo

(* drop_bot stops the connection, in the middle of its first attempt too:  *)
(* when the attempt is cancelled before it ends, nobody signals it.        *)
Drop(p) ==
  LET lost  == keeper[p].lost
      links == [b \in Bot |-> IF b \in lost THEN "none" ELSE link[p][b]]
  IN
  /\ p \in up /\ keeper[p].at = "dropping"
  /\ keeper' = [keeper EXCEPT ![p] = [at |-> "reconciling", lost |-> {}]]
  /\ link' = [link EXCEPT ![p] = links]
  /\ \/ apply[p].at \notin lost /\ UNCHANGED apply
     \/ /\ apply[p].at \in lost
        /\ apply' = [apply EXCEPT ![p].hung = TRUE]
     \/ /\ apply[p].at \in lost /\ ~apply[p].hung
        /\ apply' = [apply EXCEPT ![p].at = None, ![p].todo = Rest(@, links)]
  /\ UNCHANGED <<enabled, redis, up, seen, owned, desired, event, upsets>>

\* mutant: after a lost lease nobody tells the apply loop
Rejoin_Silent(p) ==
  /\ p \in up /\ keeper[p].at = "reconciling"
  /\ keeper' = [keeper EXCEPT ![p] = Asleep]
  /\ UNCHANGED <<enabled, redis, up, seen, owned, desired, event, apply, link, upsets>>

Rejoin(p) ==
  /\ p \in up /\ keeper[p].at = "reconciling"
  /\ keeper' = [keeper EXCEPT ![p] = Asleep]
  /\ Reconcile(p, seen[p])
  /\ UNCHANGED <<enabled, up, seen, apply, link, upsets>>

\* Redis does not answer renew or acquire: nothing catches it in _lease_loop
KeeperDies(p) ==
  /\ p \in up /\ keeper[p].at \in {"asleep", "reconciling"} /\ Upset(p)
  /\ keeper' = [keeper EXCEPT ![p] = [at |-> "dead", lost |-> {}]]
  /\ UNCHANGED <<enabled, redis, up, seen, owned, desired, event, apply, link>>

-----------------------------------------------------------------------------
(* Connections. *)

\* apply_snapshot of _desired_items: first the connections that have to go
ApplySnapshot(p) ==
  LET links == [b \in Bot |-> IF b \in desired[p] THEN link[p][b] ELSE "none"] IN
  /\ p \in up /\ event[p] /\ apply[p] = Resting
  /\ event' = [event EXCEPT ![p] = FALSE]
  /\ apply' = [apply EXCEPT ![p].todo = Rest(desired[p], links)]
  /\ link' = [link EXCEPT ![p] = links]
  /\ UNCHANGED <<enabled, redis, up, seen, owned, desired, keeper, upsets>>

\* _start_bot of the next bot without a connection: registered, then waited for
StartBot(p, b) ==
  /\ p \in up /\ b \in apply[p].todo /\ apply[p].at = None /\ link[p][b] = "none"
  /\ \E passed \in SUBSET {c \in apply[p].todo : link[p][c] # "none"} :
       apply' = [apply EXCEPT ![p].todo = @ \ (passed \cup {b}), ![p].at = b]
  /\ link' = [link EXCEPT ![p][b] = "down"]
  /\ UNCHANGED <<enabled, redis, up, seen, owned, desired, keeper, event, upsets>>

\* _signal_first_attempt, after success or failure
FirstAttempt(p) ==
  LET b == apply[p].at IN
  /\ p \in up /\ b # None /\ ~apply[p].hung
  /\ apply' = [apply EXCEPT ![p].at = None, ![p].todo = Rest(@, link[p])]
  /\ \E s \in {"up", "down"} : link' = [link EXCEPT ![p][b] = s]
  /\ UNCHANGED <<enabled, redis, up, seen, owned, desired, keeper, event, upsets>>

\* A connection comes and goes, with a back-off of its own
Reconnect(p, b) ==
  /\ link[p][b] = "down" /\ apply[p].at # b
  /\ link' = [link EXCEPT ![p][b] = "up"]
  /\ UNCHANGED <<enabled, redis, up, seen, owned, desired, keeper, event, apply, upsets>>

Disconnect(p, b) ==
  /\ link[p][b] = "up"
  /\ link' = [link EXCEPT ![p][b] = "down"]
  /\ UNCHANGED <<enabled, redis, up, seen, owned, desired, keeper, event, apply, upsets>>

LeaseLoop(p) == Renew(p) \/ Drop(p) \/ Rejoin(p)
ApplyLoop(p) == ApplySnapshot(p) \/ FirstAttempt(p) \/ \E b \in Bot : StartBot(p, b)

Next ==
  \/ \E p \in Process :
       \/ Start(p) \/ Crash(p) \/ Snapshot(p) \/ LeaseLoop(p) \/ KeeperDies(p) \/ ApplyLoop(p)
       \/ \E b \in Bot : Reconnect(p, b) \/ Disconnect(p, b)
  \/ \E b \in Bot : Toggle(b) \/ Lapse(b)

Spec == Init /\ [][Next]_vars

(* The loops of a live process go on, a connection attempt ends, and a     *)
(* lease nobody renews lapses.                                             *)
FairSpec ==
  /\ Spec
  /\ \A p \in Process :
       /\ WF_vars(Snapshot(p)) /\ WF_vars(LeaseLoop(p)) /\ WF_vars(ApplyLoop(p))
       /\ \A b \in Bot : WF_vars(Reconnect(p, b))
  /\ \A b \in Bot : WF_vars(~Renewing(b) /\ Lapse(b))

-----------------------------------------------------------------------------
(* Properties. *)

\* Every variable keeps its type.
TypeOK ==
  /\ enabled \subseteq Bot /\ up \subseteq Process
  /\ lease \in [Bot -> [owner : Process \cup {None}, epoch : 0..MaxEpoch]]
  /\ epochs \in [Bot -> 0..MaxEpoch]
  /\ seen \in [Process -> SUBSET Bot] /\ desired \in [Process -> SUBSET Bot]
  /\ owned \in [Process -> [Bot -> 0..MaxEpoch]]
  /\ keeper \in [Process -> [at : {"dropping"}, lost : SUBSET Bot]
                          \cup [at : {"asleep", "reconciling", "dead"}, lost : {{}}]]
  /\ event \in [Process -> BOOLEAN]
  /\ apply \in [Process -> [todo : SUBSET Bot, at : Bot \cup {None}, hung : BOOLEAN]]
  /\ link \in [Process -> [Bot -> {"none", "down", "up"}]]
  /\ upsets \in 0..Upsets

(* The fencing token: of two connectors that both believe they own a bot,  *)
(* the one that Redis names has the higher epoch.                          *)
NewerOwnerHasHigherEpoch ==
  \A b \in Bot, p \in up :
    Holds(p, b) /\ lease[b] # Free /\ ~Mine(p, b) => owned[p][b] < lease[b].epoch

(* Every variable keeps its type, and the epoch fences former owners.      *)
Inv == TypeOK /\ NewerOwnerHasHigherEpoch

Stale(p, b) == link[p][b] # "none" /\ lease[b].owner # p

(* The lease loop was ended by Redis, or the apply loop waits for ever for *)
(* an attempt that was dropped.                                            *)
Broken(p) == keeper[p].at = "dead" \/ apply[p].hung

(* The rule of the lease, as far as the code keeps it: a connection that   *)
(* outlived its lease ends, also one the apply loop makes after the lease  *)
(* loop dropped it.  The connection of a bot whose lease the process gave  *)
(* back is for the apply loop to stop, that of a lease it lost for the     *)
(* lease loop, so that both have to live.                                  *)
StaleConnectionEnds ==
  \A p \in Process, b \in Bot : []<>(~Stale(p, b) \/ Broken(p))

Served(b) == lease[b] # Free /\ link[lease[b].owner][b] = "up"

Exhausted == \E b \in Bot : epochs[b] = MaxEpoch

(* An enabled bot is served again and again while a connector is up: it is *)
(* taken over from a dead owner and connected, unless a loop broke.        *)
ServedUnlessBroken ==
  \A b \in Bot :
    []<>(Served(b) \/ b \notin enabled \/ up = {} \/ Exhausted \/ \E p \in up : Broken(p))
=============================================================================
