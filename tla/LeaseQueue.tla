----------------------------- MODULE LeaseQueue -----------------------------
(***************************************************************************)
(* tgin-runtime's LeaseQueue: a bounded queue whose items are leased to    *)
(* holders until they are acked.                                           *)
(*                                                                         *)
(* What a method does under the queue's mutex is one step.  What other     *)
(* threads can see in between is split:                                    *)
(*   - try_reserve loads the two reservation counters one after the other  *)
(*     (TryReserve, then Grant, Refuse or Evict); it holds the mutex       *)
(*     meanwhile, but the counters may still shrink;                       *)
(*   - a dropped permit shrinks the two counters one after the other and   *)
(*     without the mutex (Cancel, then FinishCancel);                      *)
(*   - notify_waiters is called after the mutex is released: owed counts   *)
(*     the threads between the two (NotifyWaiters is their next step).     *)
(*                                                                         *)
(* Items have no payload: the queue looks at it only through the predicate *)
(* of purge_where, which stands for any set of items.  A commit with a     *)
(* permit of another queue changes nothing and is left out.                *)
(***************************************************************************)
EXTENDS Integers, FiniteSets, Totals

CONSTANTS
    Producers,    \* threads that reserve room and commit
    Holders,      \* HolderId: who leases items
    NoHolder,     \* the holder of an entry without a lease
    Keys,         \* ordering keys
    NoKey,        \* the key of an item without one
    AckIds,       \* ack ids (update ids) that items are committed with
    Offsets,      \* ack ids that holders ask for leases from, or ack below
    Sizes,        \* item sizes in bytes
    Configs,      \* the QueueConfigs the queue is made and reconfigured with
    NoDeadline,   \* now + lease_timeout overflowed: the lease never expires
    MaxInstant,   \* the last instant the clock can represent
    MaxSeq,       \* bound: items committed in one behaviour
    MaxBatch,     \* bound: the largest max given to lease
    MaxOwed       \* bound: threads at once between unlock and notify_waiters

QueueConfig == [capacity : Nat, capacityBytes : Nat, leaseTimeout : Nat,
                ordering : {"None", "PerKey"},
                onFull : {"Backpressure", "DropOldest"}]

ASSUME FiniteAssumption == IsFiniteSet(Producers)
ASSUME SentinelAssumption ==
    /\ NoHolder \notin Holders
    /\ NoKey \notin Keys
    /\ NoDeadline \notin Nat
ASSUME DataAssumption ==
    /\ AckIds \subseteq Int
    /\ Offsets \subseteq Int
    /\ Sizes \subseteq Nat
    /\ Configs \subseteq QueueConfig
ASSUME BoundAssumption ==
    /\ MaxInstant \in Nat
    /\ MaxSeq \in Nat
    /\ MaxBatch \in Nat
    /\ MaxOwed \in Nat

VARIABLES
    cfg,           \* Inner.cfg
    entries,       \* Inner.entries: a function from seqs to entries
    available,     \* Inner.available
    eligible,      \* Inner.eligible
    queuedPerKey,  \* Inner.queued_per_key; an absent key has no seq
    leases,        \* Inner.leases; an absent holder has no seq
    leasedPerKey,  \* Inner.leased_per_key; an absent key counts 0
    nextSeq,       \* Inner.next_seq
    bytes,         \* Inner.bytes
    leasedBytes,   \* Inner.leased_bytes
    reserved,      \* Reservations: the two atomic counters
    thread,        \* what each producer thread is doing
    owed,          \* notify_waiters calls still to be made
    now            \* the clock

innerVars == <<entries, available, eligible, queuedPerKey, leases,
               leasedPerKey, bytes, leasedBytes>>
vars == <<cfg, innerVars, nextSeq, reserved, thread, owed, now>>

-----------------------------------------------------------------------------
Entry == [key : Keys \cup {NoKey}, ackId : AckIds, size : Sizes,
          holder : Holders \cup {NoHolder}, deadline : Nat \cup {NoDeadline}]

\* A producer: "loading" holds the mutex and has loaded the item counter;
\* "holding" owns a Permit of the given size; "dropping" has given back the
\* permit's item and not yet its bytes.
Thread == [pc : {"idle", "loading", "holding", "dropping"}, size : Nat,
           loaded : Nat]
Idle == [pc |-> "idle", size |-> 0, loaded |-> 0]

\* Nobody is inside try_reserve, the one critical section of several steps.
Unlocked == \A p \in Producers : thread[p].pc # "loading"

Seqs == DOMAIN entries
OfKey(S, k) == {s \in S : entries[s].key = k}
Leased(S) == {s \in S : entries[s].holder # NoHolder}
SizeOf(S) == Total([s \in S |-> entries[s].size])

\* The lowest member of S, as a set, and its n lowest members.
First(S) == {s \in S : \A t \in S : s <= t}
Take(S, n) == {s \in S : Cardinality({t \in S : t < s}) < n}

\* now.checked_add(lease_timeout), where now is at: the instant the caller
\* read off the clock before it called the queue.
Deadline(at) ==
    IF at + cfg.leaseTimeout > MaxInstant THEN NoDeadline
    ELSE at + cfg.leaseTimeout

\* Mutant: forgets that a leased item holds its key back.
EligibleOfIgnoringLeases(k) == First(queuedPerKey[k])

\* Mutant: the newest item of a key comes first.
EligibleOfNewest(k) ==
    IF leasedPerKey[k] > 0 THEN {} ELSE {s \in queuedPerKey[k] : \A t \in queuedPerKey[k] : t <= s}

\* The seq of key k that belongs in eligible, as a set.
EligibleOf(k) ==
    IF leasedPerKey[k] > 0 THEN {} ELSE First(queuedPerKey[k])

\* Brings eligible up to date with the new queuedPerKey and leasedPerKey:
\* each key whose member changed gives up the old one for the new one, and
\* the keyless items that were linked or unlinked come in or leave.
Rekeyed(linked, unlinked) ==
    LET changed == {k \in Keys : EligibleOf(k) # EligibleOf(k)'}
        before == UNION {EligibleOf(k) : k \in changed}
        after == UNION {EligibleOf(k)' : k \in changed}
    IN  eligible' = ((eligible \ unlinked) \ before) \cup linked \cup after

\* Marks the entries of S unleased, each under its key.
Link(S) ==
    /\ available' = available \cup S
    /\ queuedPerKey' = [k \in Keys |-> queuedPerKey[k] \cup OfKey(S, k)]

\* Takes the entries of S out of the unleased ones, those that are there.
Unlink(S) ==
    /\ available' = available \ S
    /\ queuedPerKey' = [k \in Keys |-> queuedPerKey[k] \ S]

\* Mutant: the end of one lease forgets every lease of its key.
EndLeaseForgettingKey(S) ==
    /\ leasedBytes' = leasedBytes - SizeOf(Leased(S))
    /\ leasedPerKey' = [k \in Keys |->
           IF OfKey(Leased(S), k) = {} THEN leasedPerKey[k] ELSE 0]
    /\ leases' = [h \in Holders |-> leases[h] \ S]

\* Ends the leases on the entries of S, those that have one.
EndLease(S) ==
    /\ leasedBytes' = leasedBytes - SizeOf(Leased(S))
    /\ leasedPerKey' = [k \in Keys |->
           leasedPerKey[k] - Cardinality(OfKey(Leased(S), k))]
    /\ leases' = [h \in Holders |-> leases[h] \ S]

\* Puts the leased entries of S back among the available ones.
Requeue(S) ==
    /\ EndLease(S)
    /\ Link(S)
    /\ entries' = [s \in Seqs |->
           IF s \in S
           THEN [entries[s] EXCEPT !.holder = NoHolder, !.deadline = NoDeadline]
           ELSE entries[s]]
    /\ Rekeyed(OfKey(S, NoKey), {})
    /\ UNCHANGED bytes

\* Removes the entries of S, leased or not.
Remove(S) ==
    /\ EndLease(S)
    /\ Unlink(S)
    /\ entries' = [s \in Seqs \ S |-> entries[s]]
    /\ bytes' = bytes - SizeOf(S)
    /\ Rekeyed({}, OfKey(S, NoKey))

\* Leases the unleased entries of S to h until the deadline.
StartLease(S, h, at) ==
    /\ entries' = [s \in Seqs |->
           IF s \in S
           THEN [entries[s] EXCEPT !.holder = h, !.deadline = Deadline(at)]
           ELSE entries[s]]
    /\ leasedBytes' = leasedBytes + SizeOf(S)
    /\ Unlink(S)
    /\ leasedPerKey' = [k \in Keys |->
           leasedPerKey[k] + Cardinality(OfKey(S, k))]
    /\ leases' = [leases EXCEPT ![h] = @ \cup S]
    /\ Rekeyed({}, OfKey(S, NoKey))
    /\ UNCHANGED bytes

\* A notify_waiters call follows the critical section when wake holds.
Owe(wake) ==
    /\ owed < MaxOwed
    /\ owed' = IF wake THEN owed + 1 ELSE owed

-----------------------------------------------------------------------------
Init ==
    /\ cfg \in Configs
    /\ entries = [s \in {} |-> s]
    /\ available = {}
    /\ eligible = {}
    /\ queuedPerKey = [k \in Keys |-> {}]
    /\ leases = [h \in Holders |-> {}]
    /\ leasedPerKey = [k \in Keys |-> 0]
    /\ nextSeq = 0
    /\ bytes = 0
    /\ leasedBytes = 0
    /\ reserved = [items |-> 0, bytes |-> 0]
    /\ thread = [p \in Producers |-> Idle]
    /\ owed = 0
    /\ now = 0

\* try_reserve takes the mutex, refuses a size that never fits (no step) and
\* loads the item counter.
TryReserve(p, size) ==
    /\ Unlocked
    /\ thread[p].pc = "idle"
    /\ size <= cfg.capacityBytes
    /\ thread' = [thread EXCEPT ![p] =
           [pc |-> "loading", size |-> size, loaded |-> reserved.items]]
    /\ UNCHANGED <<cfg, innerVars, nextSeq, reserved, owed, now>>

\* Mutant: one item too many.
RoomOffByOne(p, items, total) ==
    /\ items + thread[p].loaded <= cfg.capacity
    /\ total + reserved.bytes + thread[p].size <= cfg.capacityBytes

\* Whether the item p reserves for fits next to items stored items of size
\* total, given the counters as try_reserve loaded them (the byte counter is
\* loaded in the step that decides).
Room(p, items, total) ==
    /\ items + thread[p].loaded < cfg.capacity
    /\ total + reserved.bytes + thread[p].size <= cfg.capacityBytes

\* Mutant: DropOldest does not ask whether evicting is of any use.
EvictionHelpsAlways(p) == TRUE

\* Whether there is room once every unleased item is gone.
EvictionHelps(p) ==
    Room(p, Cardinality(Seqs) - Cardinality(available), leasedBytes)

\* The counters grow and p gets its permit.
GrantPermit(p) ==
    /\ reserved' = [items |-> reserved.items + 1,
                    bytes |-> reserved.bytes + thread[p].size]
    /\ thread' = [thread EXCEPT ![p] =
           [@ EXCEPT !.pc = "holding", !.loaded = 0]]

Grant(p) ==
    /\ thread[p].pc = "loading"
    /\ Room(p, Cardinality(Seqs), bytes)
    /\ GrantPermit(p)
    /\ UNCHANGED <<cfg, innerVars, nextSeq, owed, now>>

\* Full: under Backpressure, or when even without the unleased items there
\* is no room.
Refuse(p) ==
    /\ thread[p].pc = "loading"
    /\ ~Room(p, Cardinality(Seqs), bytes)
    /\ \/ cfg.onFull = "Backpressure"
       \/ ~EvictionHelps(p)
    /\ thread' = [thread EXCEPT ![p] = Idle]
    /\ UNCHANGED <<cfg, innerVars, nextSeq, reserved, owed, now>>

\* DropOldest removes the oldest available item until there is room, and
\* fails if it runs out of them first; last is the last one it removes.
Evict(p) ==
    LET upTo(last) == {s \in available : s <= last}
        enough == {last \in available :
                       Room(p, Cardinality(Seqs \ upTo(last)),
                            bytes - SizeOf(upTo(last)))}
    IN  /\ thread[p].pc = "loading"
        /\ cfg.onFull = "DropOldest"
        /\ ~Room(p, Cardinality(Seqs), bytes)
        /\ EvictionHelps(p)
        /\ IF enough # {}
           THEN /\ \E last \in First(enough) : Remove(upTo(last))
                /\ GrantPermit(p)
           ELSE /\ Remove(available)
                /\ thread' = [thread EXCEPT ![p] = Idle]
                /\ UNCHANGED reserved
        /\ UNCHANGED <<cfg, nextSeq, owed, now>>

\* cancel, or a Permit dropped: the item counter first ...
Cancel(p) ==
    /\ thread[p].pc = "holding"
    /\ reserved' = [reserved EXCEPT !.items = @ - 1]
    /\ thread' = [thread EXCEPT ![p].pc = "dropping"]
    /\ UNCHANGED <<cfg, innerVars, nextSeq, owed, now>>

\* ... then the byte counter.
FinishCancel(p) ==
    /\ thread[p].pc = "dropping"
    /\ reserved' = [reserved EXCEPT !.bytes = @ - thread[p].size]
    /\ thread' = [thread EXCEPT ![p] = Idle]
    /\ UNCHANGED <<cfg, innerVars, nextSeq, owed, now>>

\* Stores the item and drops the permit, both under the mutex.
Commit(p, key, ackId) ==
    /\ Unlocked
    /\ thread[p].pc = "holding"
    /\ nextSeq < MaxSeq
    /\ nextSeq' = nextSeq + 1
    /\ entries' = [s \in Seqs \cup {nextSeq} |->
           IF s = nextSeq
           THEN [key |-> key, ackId |-> ackId, size |-> thread[p].size,
                 holder |-> NoHolder, deadline |-> NoDeadline]
           ELSE entries[s]]
    /\ bytes' = bytes + thread[p].size
    /\ available' = available \cup {nextSeq}
    /\ queuedPerKey' = [k \in Keys |->
           IF k = key THEN queuedPerKey[k] \cup {nextSeq} ELSE queuedPerKey[k]]
    /\ UNCHANGED <<leases, leasedPerKey, leasedBytes>>
    /\ Rekeyed(IF key = NoKey THEN {nextSeq} ELSE {}, {})
    /\ reserved' = [items |-> reserved.items - 1,
                    bytes |-> reserved.bytes - thread[p].size]
    /\ thread' = [thread EXCEPT ![p] = Idle]
    /\ Owe(TRUE)
    /\ UNCHANGED <<cfg, now>>

\* The items lease may take.
Candidates == IF cfg.ordering = "PerKey" THEN eligible ELSE available

Lease(h, max, at) ==
    LET picked == Take(Candidates, max)
    IN  /\ Unlocked
        /\ picked # {}
        /\ StartLease(picked, h, at)
        /\ UNCHANGED <<cfg, nextSeq, reserved, thread, owed, now>>

\* held renews the leases of h with ack_id >= min.
Held(h, min, at) ==
    /\ Unlocked
    /\ entries' = [s \in Seqs |->
           IF s \in leases[h] /\ entries[s].ackId >= min
           THEN [entries[s] EXCEPT !.deadline = Deadline(at)]
           ELSE entries[s]]
    /\ UNCHANGED <<cfg, available, eligible, queuedPerKey, leases,
                   leasedPerKey, bytes, leasedBytes, nextSeq, reserved,
                   thread, owed, now>>

\* ack_where, for the leases S of one holder; ack_seq is its case of one.
AckWhere(S) ==
    /\ Unlocked
    /\ S # {}
    /\ Remove(S)
    /\ Owe(cfg.ordering = "PerKey" /\ OfKey(S, NoKey) # S)
    /\ UNCHANGED <<cfg, nextSeq, reserved, thread, now>>

AckBelow(h, offset) ==
    AckWhere({s \in leases[h] : entries[s].ackId < offset})
AckAll(h) == AckWhere(leases[h])
AckSeq(h, s) == s \in leases[h] /\ AckWhere({s})

\* Mutant: the released item is back and nobody is told.
ReleaseSeqSilently(h, s) ==
    /\ Unlocked
    /\ s \in leases[h]
    /\ Requeue({s})
    /\ Owe(FALSE)
    /\ UNCHANGED <<cfg, nextSeq, reserved, thread, now>>

ReleaseSeq(h, s) ==
    /\ Unlocked
    /\ s \in leases[h]
    /\ Requeue({s})
    /\ Owe(TRUE)
    /\ UNCHANGED <<cfg, nextSeq, reserved, thread, now>>

\* The leases whose deadline is at or before at.
Expired(at) == {s \in UNION {leases[h] : h \in Holders} :
                /\ entries[s].deadline # NoDeadline
                /\ entries[s].deadline <= at}

Expire(at) ==
    /\ Unlocked
    /\ Expired(at) # {}
    /\ Requeue(Expired(at))
    /\ Owe(TRUE)
    /\ UNCHANGED <<cfg, nextSeq, reserved, thread, now>>

\* Drops every unleased item.
Purge ==
    /\ Unlocked
    /\ available # {}
    /\ entries' = [s \in Seqs \ available |-> entries[s]]
    /\ bytes' = bytes - SizeOf(available)
    /\ available' = {}
    /\ eligible' = {}
    /\ queuedPerKey' = [k \in Keys |-> {}]
    /\ UNCHANGED <<cfg, leases, leasedPerKey, leasedBytes, nextSeq, reserved,
                   thread, owed, now>>

\* Drops the unleased items S that match a predicate.
PurgeWhere(S) ==
    /\ Unlocked
    /\ S # {}
    /\ Remove(S)
    /\ UNCHANGED <<cfg, nextSeq, reserved, thread, owed, now>>

\* Removes every item, leased or not; permits stay valid.
DrainAll ==
    /\ Unlocked
    /\ Seqs # {}
    /\ entries' = [s \in {} |-> s]
    /\ available' = {}
    /\ eligible' = {}
    /\ queuedPerKey' = [k \in Keys |-> {}]
    /\ leases' = [h \in Holders |-> {}]
    /\ leasedPerKey' = [k \in Keys |-> 0]
    /\ bytes' = 0
    /\ leasedBytes' = 0
    /\ UNCHANGED <<cfg, nextSeq, reserved, thread, owed, now>>

SetConfig(c) ==
    /\ Unlocked
    /\ c # cfg
    /\ cfg' = c
    /\ Owe(TRUE)
    /\ UNCHANGED <<innerVars, nextSeq, reserved, thread, now>>

\* A thread that owes it wakes the registered waiters.
NotifyWaiters ==
    /\ owed > 0
    /\ owed' = owed - 1
    /\ UNCHANGED <<cfg, innerVars, nextSeq, reserved, thread, now>>

Tick ==
    /\ now < MaxInstant
    /\ now' = now + 1
    /\ UNCHANGED <<cfg, innerVars, nextSeq, reserved, thread, owed>>

ProducerStep(p) ==
    \/ \E size \in Sizes : TryReserve(p, size)
    \/ Grant(p)
    \/ Refuse(p)
    \/ Evict(p)
    \/ Cancel(p)
    \/ FinishCancel(p)
    \/ \E key \in Keys \cup {NoKey}, ackId \in AckIds : Commit(p, key, ackId)

HolderStep(h) ==
    \/ \E max \in 1 .. MaxBatch, at \in 0 .. now : Lease(h, max, at)
    \/ \E min \in Offsets, at \in 0 .. now : Held(h, min, at)
    \/ \E offset \in Offsets : AckBelow(h, offset)
    \/ AckAll(h)
    \/ \E s \in Seqs : AckSeq(h, s) \/ ReleaseSeq(h, s)

Next ==
    \/ \E p \in Producers : ProducerStep(p)
    \/ \E h \in Holders : HolderStep(h)
    \/ \E at \in 0 .. now : Expire(at)
    \/ Purge
    \/ \E S \in SUBSET available : PurgeWhere(S)
    \/ DrainAll
    \/ \E c \in Configs : SetConfig(c)
    \/ NotifyWaiters
    \/ Tick

Spec == Init /\ [][Next]_vars

-----------------------------------------------------------------------------
\* The shape of the state, without the byte totals of Inner.
StateTypeOK ==
    /\ cfg \in Configs
    /\ IsFiniteSet(Seqs)
    /\ Seqs \subseteq 0 .. nextSeq - 1
    /\ entries \in [Seqs -> Entry]
    /\ available \subseteq Seqs
    /\ eligible \subseteq Seqs
    /\ queuedPerKey \in [Keys -> SUBSET Seqs]
    /\ leases \in [Holders -> SUBSET Seqs]
    /\ leasedPerKey \in [Keys -> Nat]
    /\ nextSeq \in 0 .. MaxSeq
    /\ reserved \in [items : Nat, bytes : Int]
    /\ thread \in [Producers -> Thread]
    /\ owed \in 0 .. MaxOwed
    /\ now \in 0 .. MaxInstant

\* Every variable keeps its shape: the removed entries leave no trace in the
\* indexes, and no counter of the queue (unsigned in the code) goes below 0.
TypeOK ==
    /\ StateTypeOK
    /\ bytes \in Nat
    /\ leasedBytes \in Nat
    /\ reserved.bytes \in Nat

Unleased == Seqs \ Leased(Seqs)

\* available, queued_per_key, leases and leased_per_key are what a scan of
\* entries would find.
AvailableAgrees == available = Unleased
QueuedAgrees == \A k \in Keys : queuedPerKey[k] = OfKey(Unleased, k)
LeasesAgree == \A h \in Holders : leases[h] = {s \in Seqs : entries[s].holder = h}
LeasedPerKeyAgrees ==
    \A k \in Keys : leasedPerKey[k] = Cardinality(OfKey(Leased(Seqs), k))

\* eligible, which rekeyed only ever adjusts, is what its doc comment says:
\* every keyless unleased seq and the lowest of each key that has no leased
\* item.
EligibleAgrees ==
    eligible = {s \in Unleased :
        entries[s].key # NoKey =>
            \A t \in OfKey(Seqs, entries[s].key) :
                entries[t].holder = NoHolder /\ s <= t}

\* The indexes of Inner (queue.rs 160-180) agree with its entries after every
\* sequence of commits, leases, acks, releases, expiries, purges, evictions,
\* drains and config changes.
IndexesAgree ==
    /\ AvailableAgrees
    /\ QueuedAgrees
    /\ LeasesAgree
    /\ LeasedPerKeyAgrees
    /\ EligibleAgrees

InState(pcs) == {p \in Producers : thread[p].pc \in pcs}

\* One thread at a time is inside try_reserve; the item counter is the number
\* of permits held, and what try_reserve loaded of it is never too low: a
\* concurrent drop makes it see less room than there is, never more.
ReservationsAgree ==
    /\ \A p, q \in InState({"loading"}) : p = q
    /\ reserved.items = Cardinality(InState({"holding"}))
    /\ \A p \in InState({"loading"}) : thread[p].loaded >= reserved.items

\* What counts against the capacities: the stored and the reserved items, and
\* their bytes.
ItemTotal == Cardinality(Seqs) + reserved.items
ByteTotal == SizeOf(Seqs) + reserved.bytes

\* Only a granted reservation adds to the items and the bytes, and it leaves
\* both within the capacities in force, however permits are dropped while
\* try_reserve runs; a commit turns reserved room into stored room and adds
\* nothing.  (After a lowered capacity a total may be above it, and then it
\* only goes down.)
WithinCapacity ==
    [][IF reserved'.items > reserved.items
       THEN ItemTotal' <= cfg.capacity /\ ByteTotal' <= cfg.capacityBytes
       ELSE ItemTotal' <= ItemTotal /\ ByteTotal' <= ByteTotal]_vars

\* What try_reserve removes under DropOldest is unleased, is older than
\* every unleased item it keeps, and is removed only by a call that gets its
\* permit: "and nothing when it cannot" make room.
EvictionSound ==
    [][\A p \in InState({"loading"}) :
          LET gone == Seqs \ Seqs'
          IN  gone # {} =>
                 /\ cfg.onFull = "DropOldest"
                 /\ gone \subseteq available
                 /\ \A g \in gone, kept \in available' : g < kept
                 /\ thread'[p].pc = "holding"]_vars

\* Under Ordering::PerKey an item is leased only when it is the oldest of its
\* key in the queue and no other item of the key is leased, whatever acks,
\* releases, expiries and config switches came before.
KeyedLeaseOrder ==
    [][cfg.ordering = "PerKey" =>
          \A s \in Seqs \cap Seqs' :
             /\ entries[s].key # NoKey
             /\ entries[s].holder = NoHolder
             /\ entries'[s].holder # NoHolder
             => \A t \in OfKey(Seqs, entries[s].key) \ {s} :
                   s < t /\ entries'[t].holder = NoHolder]_vars

\* Every step that makes something leasable when nothing was leaves a
\* notify_waiters call to be made: a consumer that saw nothing to lease is
\* told, and the calls that do not notify (acks of keyless items, purges,
\* evictions, drains) never make an item leasable.
WakeOwed ==
    [][Candidates = {} /\ Candidates' # {} => owed' > owed]_vars

=============================================================================
