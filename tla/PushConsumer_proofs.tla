------------------------- MODULE PushConsumer_proofs -------------------------
(***************************************************************************)
(* A PushConsumer loses no lease and no probe, and does not sleep next to  *)
(* work, for any numbers of endpoints, slots, bots and updates.            *)
(*                                                                         *)
(* The invariant adds four parts to the queue's own (IInv, with its proofs *)
(* in LeaseQueue_proofs): the shape of the task's state (ShapeOK);         *)
(* the deliveries hold exactly the leases, but for                         *)
(* updates that a drain took away (HeldInv); the slots that are referred   *)
(* to are there, count the requests on the wire, have a probe under way    *)
(* when half open and belong to the bot whose endpoint they are (WireInv); *)
(* the room the dispatcher leases by is what the options leave unless it   *)
(* is about to be told otherwise (AwakeInv).  WaitInv adds what a delivery *)
(* waits for, unless it is told: the first breaker that reopens, and until  *)
(* its update is too old.                                                  *)
(***************************************************************************)
EXTENDS PushConsumer, LeaseQueue_proofs, SequenceTheorems

-----------------------------------------------------------------------------
(* The parts of the invariant.                                             *)

\* The shape of what the task and its callers keep.
ShapeOK ==
    /\ Deliveries \subseteq 0 .. nextSeq - 1
    /\ delivery \in [Deliveries -> Delivery]
    /\ dispatcher \in Dispatcher
    /\ received \in [0 .. MaxSeq - 1 -> Nat]
    /\ cursor \in Nat
    /\ owedWakes \in Nat

\* Every lease has its delivery, and a delivery holds its lease unless the
\* update is gone from the queue.
HeldInv ==
    /\ LeasesDelivered
    /\ \A s \in Deliveries : s \in leases[PushHolder] \/ s \notin Seqs

\* The requests on the wire to slot i.
OnWire(i) == {s \in Sending(Deliveries) : delivery[s].slot = i}

\* in_flight is the number of the requests on the wire.
InFlightExact == \A i \in Live : slot[i].inFlight = Cardinality(OnWire(i))

\* Who set the endpoint at place k of targets.
OwnerAt(k) ==
    IF targets.runtime # NoBot /\ k = Len(targets.slots) THEN targets.runtime ELSE NoBot

\* The runtime endpoint comes last, and its slot belongs to its bot; a
\* request on the wire is to a configured endpoint or to that of the bot it
\* is bound to.
OwnersAgree ==
    /\ targets.runtime # NoBot => targets.slots # <<>>
    /\ \A k \in DOMAIN targets.slots : slot[targets.slots[k]].owner = OwnerAt(k)
    /\ \A s \in Sending(Deliveries) :
          slot[delivery[s].slot].owner \in {NoBot, delivery[s].bound}

WireTypeOK ==
    /\ targets \in [slots : Seq(SlotIds), runtime : Bots \cup {NoBot}, opts : Options]
    /\ \A s \in Sending(Deliveries) : delivery[s].slot \in SlotIds
    /\ slot \in [Live -> Slot]

WireInv == WireTypeOK /\ InFlightExact /\ ProbeUnderWay /\ OwnersAgree

\* The room is what the options leave, unless the dispatcher is told or about
\* to be told that they changed.
RoomKnown ==
    dispatcher.pc = "lease" /\ ~dispatcher.told /\ owedWakes = 0
      => dispatcher.room >= targets.opts.maxInFlight - Cardinality(Deliveries)

AwakeInv == DispatcherAwake /\ RoomKnown

PushInv == IInv /\ ShapeOK /\ HeldInv /\ WireInv /\ AwakeInv

\* Under PerKey a delivery is of the oldest update of its key.
OldestFirst ==
    cfg.ordering = "PerKey" =>
        \A s \in Deliveries : delivery[s].key # NoKey =>
            \A t \in OfKey(Seqs, delivery[s].key) : s <= t

-----------------------------------------------------------------------------
(* Finite sets of numbers: their members in order.                         *)

\* Its n-th lowest member exists, and is one only.
LEMMA NthMember ==
    ASSUME NEW S \in SUBSET Nat, IsFiniteSet(S), NEW n \in 1 .. Cardinality(S)
    PROVE  Nth(S, n) \in S /\ Cardinality({j \in S : j < Nth(S, n)}) = n - 1
<1> DEFINE below(i) == {j \in S : j < i}
           high == {i \in S : Cardinality(below(i)) >= n - 1}
<1>0. Cardinality(S) \in Nat /\ n \in Nat
  BY FS_CardinalityType
<1>1. ASSUME NEW i \in S PROVE IsFiniteSet(below(i)) /\ Cardinality(below(i)) \in Nat
  BY FS_Subset, FS_CardinalityType
<1>2. ASSUME NEW T \in SUBSET S, NEW m \in T, \A j \in T : j <= m, 
             \A j \in S, k \in T : j <= k => j \in T
      PROVE  Cardinality(below(m)) = Cardinality(T) - 1
  <2>0. m \in Nat /\ (\A j \in S : j \in Nat) /\ (\A j \in T : j \in S)
    OBVIOUS
  <2>1. below(m) = T \ {m}
    <3>1. ASSUME NEW j \in below(m) PROVE j \in T \ {m}
      BY <1>2, <2>0, <3>1
    <3>2. ASSUME NEW j \in T \ {m} PROVE j \in below(m)
      BY <1>2, <2>0, <3>2
    <3> QED
      BY <3>1, <3>2
  <2>2. IsFiniteSet(T)
    BY FS_Subset
  <2> QED
    BY <2>1, <2>2, FS_RemoveElement
<1>3. S # {}
  BY <1>0, FS_EmptySet
<1>4. PICK m \in S : \A j \in S : j <= m
  BY <1>3, LargestNat
<1>5. m \in high
  <2>1. Cardinality(below(m)) = Cardinality(S) - 1
    BY <1>2, <1>4
  <2> QED
    BY <1>0, <2>1
<1>6. PICK i \in high : \A j \in high : i <= j
  BY <1>5, SmallestNat
<1>7. Cardinality(below(i)) = n - 1
  <2>1. SUFFICES ASSUME Cardinality(below(i)) # n - 1 PROVE FALSE
    OBVIOUS
  <2>2. i \in S /\ Cardinality(below(i)) >= n /\ IsFiniteSet(below(i)) /\ Cardinality(below(i)) \in Nat
    BY <1>0, <1>1, <2>1
  <2>3. below(i) # {}
    BY <1>0, <2>2, FS_EmptySet
  <2>4. PICK j \in below(i) : \A k \in below(i) : k <= j
    BY <2>2, <2>3, LargestNat
  <2>5. Cardinality(below(j)) = Cardinality(below(i)) - 1
    <3>1. \A a \in S, b \in below(i) : a <= b => a \in below(i)
      OBVIOUS
    <3> QED
      BY <1>2, <2>4, <3>1
  <2>6. j \in high /\ j < i
    BY <1>0, <2>2, <2>5
  <2> QED
    BY <1>6, <2>6
<1>8. \E x \in S : Cardinality({j \in S : j < x}) = n - 1
  BY <1>7
<1> QED
  BY <1>8 DEF Nth

\* Different numbers give different members.
LEMMA NthDistinct ==
    ASSUME NEW S \in SUBSET Nat, IsFiniteSet(S), NEW a \in 1 .. Cardinality(S),
           NEW b \in 1 .. Cardinality(S), Nth(S, a) = Nth(S, b)
    PROVE  a = b
<1>1. a - 1 = b - 1
  BY NthMember
<1>2. a \in Int /\ b \in Int
  BY FS_CardinalityType
<1> QED
  BY <1>1, <1>2

\* The n lowest members are n, or all of them.
LEMMA TakeAll ==
    ASSUME NEW S \in SUBSET Nat, IsFiniteSet(S), NEW n \in Nat, Take(S, n) # S
    PROVE  Cardinality(Take(S, n)) >= n
<1> DEFINE below(i) == {j \in S : j < i}
           rest == S \ Take(S, n)
<1>1. /\ rest \in SUBSET Nat /\ rest # {} /\ Take(S, n) \in SUBSET S
  BY DEF Take
<1>2. PICK i \in rest : \A j \in rest : i <= j
  BY <1>1, SmallestNat
<1>3. IsFiniteSet(Take(S, n)) /\ Cardinality(Take(S, n)) \in Nat
  BY <1>1, FS_Subset, FS_CardinalityType
<1>4. PICK B : B = below(i)
  OBVIOUS
<1>5. B \in SUBSET Take(S, n)
  <2>1. ASSUME NEW j \in B, j \notin Take(S, n) PROVE FALSE
    <3>1. j \in rest /\ j < i /\ j \in Nat /\ i \in Nat
      BY <1>1, <1>4, <2>1
    <3> QED
      BY <1>2, <3>1
  <2> QED
    BY <2>1
<1>6. Cardinality(B) <= Cardinality(Take(S, n)) /\ Cardinality(B) \in Nat
  BY <1>3, <1>5, FS_Subset, FS_CardinalityType
<1>7. ~(Cardinality(B) < n)
  <2>1. \A s \in S : s \notin Take(S, n) => ~(Cardinality({t \in S : t < s}) < n)
    BY DEF Take
  <2>2. ~(Cardinality({t \in S : t < i}) < n)
    BY <1>2, <2>1
  <2> QED
    BY <1>4, <2>2
<1> QED
  BY <1>3, <1>6, <1>7

-----------------------------------------------------------------------------
(* Deliveries and slots.                                                   *)

\* The instants are numbers, and 0 is one.
LEMMA InstantOK == MaxInstant \in Nat /\ 0 \in 0 .. MaxInstant /\ 0 \in Nat
  BY BoundAssumption

\* A new delivery has its fields.
LEMMA NewDeliveryOK ==
    ASSUME NEW key \in Keys \cup {NoKey}
    PROVE  /\ NewDelivery(key) \in Delivery /\ NewDelivery(key).key = key
           /\ NewDelivery(key).pc = "choose"
<1>1. 0 \in Nat /\ 0 \in SlotIds \cup {0} /\ FALSE \in BOOLEAN
  OBVIOUS
<1> QED
  BY <1>1 DEF NewDelivery, Delivery

\* notify_waiters changes nothing of a delivery but that it is told.
LEMMA ToldOK ==
    ASSUME NEW S, NEW f \in [S -> Delivery]
    PROVE  /\ Told(f) \in [S -> Delivery]
           /\ \A s \in S : /\ Told(f)[s].pc = f[s].pc /\ Told(f)[s].key = f[s].key
                           /\ Told(f)[s].slot = f[s].slot /\ Told(f)[s].bound = f[s].bound
<1>1. DOMAIN f = S
  OBVIOUS
<1>2. ASSUME NEW s \in S
      PROVE  /\ Told(f)[s] \in Delivery
             /\ Told(f)[s].pc = f[s].pc /\ Told(f)[s].key = f[s].key
             /\ Told(f)[s].slot = f[s].slot /\ Told(f)[s].bound = f[s].bound
  <2>1. f[s] \in Delivery
    OBVIOUS
  <2>2. Told(f)[s] = f[s] \/ Told(f)[s] = [f[s] EXCEPT !.told = TRUE]
    BY <1>1 DEF Told
  <2> QED
    BY <2>1, <2>2 DEF Delivery
<1>3. Told(f) = [s \in S |-> Told(f)[s]]
  BY <1>1 DEF Told
<1> QED
  BY <1>2, <1>3

\* The slots that are referred to have ids and fields.
LEMMA LiveOK ==
    ASSUME WireTypeOK
    PROVE  /\ Live \subseteq SlotIds
           /\ CurrentSlots \subseteq Live
           /\ \A i \in Live : slot[i] \in Slot
           /\ \A s \in Sending(Deliveries) : delivery[s].slot \in Live
           /\ targets.slots \in Seq(SlotIds)
           /\ DOMAIN targets.slots = 1 .. Len(targets.slots)
           /\ targets.opts \in Options /\ targets.opts \in PushOptions
           /\ targets.runtime \in Bots \cup {NoBot}
<1>1. targets.slots \in Seq(SlotIds) /\ targets.opts \in Options /\ targets.runtime \in Bots \cup {NoBot}
  BY DEF WireTypeOK
<1>2. targets.opts \in PushOptions
  BY <1>1, PushAssumption
<1>3. DOMAIN targets.slots = 1 .. Len(targets.slots)
      /\ \A k \in DOMAIN targets.slots : targets.slots[k] \in SlotIds
  BY <1>1
<1>4. CurrentSlots \subseteq SlotIds
  BY <1>3 DEF CurrentSlots
<1>5. Live \subseteq SlotIds
  BY <1>4 DEF Live, WireTypeOK
<1> QED
  BY <1>1, <1>2, <1>3, <1>5 DEF Live, WireTypeOK

\* A step that leaves the requests on the wire, the slots and targets alone.
WireQuiet ==
    /\ UNCHANGED <<slot, targets>>
    /\ Sending(Deliveries)' = Sending(Deliveries)
    /\ \A s \in Sending(Deliveries) : /\ delivery'[s].slot = delivery[s].slot
                                      /\ delivery'[s].bound = delivery[s].bound

\* Such a step keeps what is said of the slots.
LEMMA WireQuietKeeps ==
    ASSUME WireInv, WireQuiet
    PROVE  WireInv'
<1>1. /\ slot' = slot /\ targets' = targets /\ Sending(Deliveries)' = Sending(Deliveries)
      /\ \A s \in Sending(Deliveries) : /\ delivery'[s].slot = delivery[s].slot
                                        /\ delivery'[s].bound = delivery[s].bound
  BY DEF WireQuiet
<1>2. Live' = Live
  BY <1>1 DEF Live, CurrentSlots
<1>3. WireTypeOK'
  BY <1>1, <1>2 DEF WireInv, WireTypeOK
<1>4. ASSUME NEW i PROVE OnWire(i)' = OnWire(i)
  BY <1>1 DEF OnWire
<1>5. InFlightExact'
  BY <1>1, <1>2, <1>4 DEF WireInv, InFlightExact
<1>6. ProbeUnderWay'
  BY <1>1, <1>2 DEF WireInv, ProbeUnderWay
<1>7. OwnersAgree'
  BY <1>1 DEF WireInv, OwnersAgree, OwnerAt
<1> QED
  BY <1>3, <1>5, <1>6, <1>7 DEF WireInv

\* The requests on the wire are finitely many.
LEMMA OnWireFinite ==
    ASSUME IInv, ShapeOK, NEW i
    PROVE  IsFiniteSet(Deliveries) /\ IsFiniteSet(OnWire(i)) /\ Cardinality(OnWire(i)) \in Nat
           /\ Cardinality(Deliveries) \in Nat
<1>1. nextSeq \in Int
  BY DEF IInv, CallTypeOK
<1>2. IsFiniteSet(0 .. nextSeq - 1)
  BY <1>1, FS_Interval
<1>3. IsFiniteSet(Deliveries)
  BY <1>2, FS_Subset DEF ShapeOK
<1>4. OnWire(i) \in SUBSET Deliveries
  BY DEF OnWire, Sending
<1> QED
  BY <1>3, <1>4, FS_Subset, FS_CardinalityType

\* What the end of a request makes of the slot it was sent to.
Settles(old, new) ==
    /\ new \in Slot /\ new.word.state # "HalfOpen"
    /\ new.inFlight = old.inFlight /\ new.owner = old.owner

\* on_success, on_failure and the drop of a Sending leave no slot half open.
LEMMA OutcomesSettle ==
    ASSUME NEW sl \in Slot, now \in 0 .. MaxInstant
    PROVE  /\ Settles(sl, OnSuccess(sl)) /\ Settles(sl, OnFailure(sl)) /\ Settles(sl, Dropped(sl))
<1>0. Closed \in Word /\ Closed.state = "Closed"
  BY InstantOK DEF Closed, Word
<1>1. /\ sl.word \in Word /\ sl.failures \in Nat /\ sl.word.state \in {"Closed", "Open", "HalfOpen"}
      /\ sl.breaker.threshold \in Nat /\ sl.inFlight \in Nat
  BY DEF Slot, Word
<1>2. Settles(sl, OnSuccess(sl))
  BY <1>0, InstantOK DEF OnSuccess, Slot, Settles
<1>3. ASSUME NEW x \in Slot PROVE Settles(x, Opened(x))
  <2>1. PICK w : w = [state |-> "Open", openedAt |-> now]
    OBVIOUS
  <2>2. w \in Word /\ w.state = "Open"
    BY <2>1 DEF Word
  <2>3. Opened(x) = [x EXCEPT !.word = w]
    BY <2>1 DEF Opened
  <2> QED
    BY <2>2, <2>3 DEF Slot, Settles
<1>4. Settles(sl, OnFailure(sl))
  <2>1. CASE sl.word.state = "HalfOpen"
    BY <1>3, <2>1 DEF OnFailure
  <2>2. CASE sl.word.state = "Open"
    BY <2>2 DEF OnFailure, Settles
  <2>3. CASE sl.word.state = "Closed"
    <3>1. PICK c : c = [sl EXCEPT !.failures = @ + 1]
      OBVIOUS
    <3>2. /\ c \in Slot /\ c.word = sl.word /\ c.inFlight = sl.inFlight /\ c.owner = sl.owner
      BY <1>1, <3>1 DEF Slot
    <3>3. OnFailure(sl) = Opened(c) \/ OnFailure(sl) = c
      BY <2>3, <3>1 DEF OnFailure
    <3>4. Settles(c, Opened(c))
      BY <1>3, <3>2
    <3> QED
      BY <2>3, <3>2, <3>3, <3>4 DEF Settles
  <2> QED
    BY <1>1, <2>1, <2>2, <2>3
<1>5. Settles(sl, Dropped(sl))
  BY <1>4 DEF Dropped, Settles
<1> QED
  BY <1>2, <1>4, <1>5

\* The request of s ends, whatever its end makes of its slot.
LEMMA EndSendingKeeps ==
    ASSUME IInv, ShapeOK, WireInv, NEW s \in Sending(Deliveries), NEW sl,
           Settles(slot[delivery[s].slot], sl), EndSending(s, sl), targets' = targets,
           Sending(Deliveries)' = Sending(Deliveries) \ {s},
           \A t \in Sending(Deliveries) \ {s} : /\ delivery'[t].slot = delivery[t].slot
                                                /\ delivery'[t].bound = delivery[t].bound
    PROVE  WireInv'
<1>0. /\ WireTypeOK /\ Live \subseteq SlotIds /\ (\A i \in Live : slot[i] \in Slot)
      /\ CurrentSlots \subseteq Live
      /\ \A t \in Sending(Deliveries) : delivery[t].slot \in Live
  BY LiveOK DEF WireInv
<1>1. PICK j \in Live : j = delivery[s].slot
  BY <1>0
<1>2. /\ sl \in Slot /\ sl.word.state # "HalfOpen"
      /\ sl.inFlight = slot[j].inFlight /\ sl.owner = slot[j].owner
  BY <1>1 DEF Settles
<1>3. CurrentSlots' = CurrentSlots /\ Live' \subseteq Live
  BY DEF CurrentSlots, Live
<1>4. s \in OnWire(j) /\ slot[j].inFlight = Cardinality(OnWire(j))
  BY <1>1 DEF OnWire, WireInv, InFlightExact
<1>5. OnWire(j)' = OnWire(j) \ {s} /\ \A i \in Live : i # j => OnWire(i)' = OnWire(i)
  BY <1>1 DEF OnWire
<1>6. Cardinality(OnWire(j)') = sl.inFlight - 1 /\ Cardinality(OnWire(j)') \in Nat
  <2>1. IsFiniteSet(OnWire(j))
    BY OnWireFinite
  <2>2. Cardinality(OnWire(j) \ {s}) = Cardinality(OnWire(j)) - 1
    BY <1>4, <2>1, FS_RemoveElement
  <2>3. Cardinality(OnWire(j) \ {s}) \in Nat
    BY <2>1, FS_RemoveElement, FS_CardinalityType
  <2> QED
    BY <1>2, <1>4, <1>5, <2>2, <2>3
<1>7. PICK new : new = [sl EXCEPT !.inFlight = @ - 1]
  OBVIOUS
<1>8. /\ new \in Slot /\ new.word.state # "HalfOpen" /\ new.owner = slot[j].owner
      /\ new.inFlight = Cardinality(OnWire(j)')
  BY <1>2, <1>6, <1>7 DEF Slot
<1>9. /\ DOMAIN slot' = Live'
      /\ \A i \in Live' : slot'[i] = IF i = j THEN new ELSE slot[i]
  BY <1>0, <1>1, <1>3, <1>7 DEF EndSending, SlotsBecome, WireTypeOK
<1>10. WireTypeOK'
  <2>1. slot' \in [Live' -> Slot]
    <3>1. slot' = [i \in Live' |-> slot'[i]]
      BY DEF EndSending, SlotsBecome
    <3>2. \A i \in Live' : slot'[i] \in Slot
      BY <1>0, <1>3, <1>8, <1>9
    <3> QED
      BY <3>1, <3>2
  <2> QED
    BY <1>0, <2>1 DEF WireTypeOK
<1>11. InFlightExact'
  BY <1>3, <1>5, <1>8, <1>9 DEF WireInv, InFlightExact
<1>12. ProbeUnderWay'
  <2>1. ASSUME NEW i \in Live', slot'[i].word.state = "HalfOpen"
        PROVE  \E t \in Sending(Deliveries)' : delivery'[t].slot = i
    <3>1. i # j /\ slot[i].word.state = "HalfOpen" /\ i \in Live
      BY <1>3, <1>8, <1>9, <2>1
    <3>2. PICK t \in Sending(Deliveries) : delivery[t].slot = i
      BY <3>1 DEF WireInv, ProbeUnderWay
    <3>3. t # s
      BY <1>1, <3>1, <3>2
    <3> QED
      BY <3>2, <3>3
  <2> QED
    BY <2>1 DEF ProbeUnderWay
<1>13. OwnersAgree'
  <2>1. \A i \in Live' : slot'[i].owner = slot[i].owner
    BY <1>8, <1>9
  <2>2. \A k \in DOMAIN targets.slots : targets.slots[k] \in Live'
    BY <1>3 DEF CurrentSlots, Live
  <2>3. \A t \in Sending(Deliveries)' : delivery'[t].slot \in Live'
    BY DEF Live
  <2> QED
    BY <2>1, <2>2, <2>3 DEF WireInv, OwnersAgree, OwnerAt
<1> QED
  BY <1>10, <1>11, <1>12, <1>13 DEF WireInv

\* pick takes a place of the current set that is ready.
LEMMA PickedReady ==
    ASSUME WireInv, ShapeOK, Healthy # {}, NEW key \in Keys \cup {NoKey}
    PROVE  Picked(key) \in Healthy
<1>0. /\ DOMAIN targets.slots = 1 .. Len(targets.slots) /\ Len(targets.slots) \in Nat
      /\ \A k \in DOMAIN targets.slots : slot[targets.slots[k]] \in Slot
      /\ targets.opts \in PushOptions
  <2>1. targets.slots \in Seq(SlotIds)
    BY LiveOK DEF WireInv
  <2>2. Len(targets.slots) \in Nat
    BY <2>1
  <2> QED
    BY <2>2, LiveOK DEF WireInv, CurrentSlots
<1>1. Healthy \in SUBSET Nat /\ IsFiniteSet(Healthy)
  <2>1. Healthy \in SUBSET (1 .. Len(targets.slots))
    BY <1>0 DEF Healthy
  <2>2. IsFiniteSet(1 .. Len(targets.slots))
    BY <1>0, FS_Interval
  <2>3. Healthy \in SUBSET Nat
    BY <2>1
  <2> QED
    BY <2>1, <2>2, <2>3, FS_Subset
<1>2. PICK n \in Nat : n = Cardinality(Healthy) /\ n > 0
  BY <1>1, FS_CardinalityType, FS_EmptySet
<1>3. ASSUME NEW x \in Nat PROVE Nth(Healthy, (x % n) + 1) \in Healthy
  <2>1. (x % n) + 1 \in 1 .. n
    BY <1>2
  <2> QED
    BY <1>1, <1>2, <2>1, NthMember
<1>4. CASE targets.opts.balance = "LeastInFlight"
  <2> DEFINE load(i) == slot[targets.slots[i]].inFlight
             loads == {load(i) : i \in Healthy}
  <2>1. \A i \in Healthy : load(i) \in Nat
    BY <1>0 DEF Healthy, Slot
  <2>2. loads \in SUBSET Nat /\ loads # {}
    BY <2>1
  <2>3. PICK m \in loads : \A x \in loads : m <= x
    BY <2>2, SmallestNat
  <2>4. PICK least : least = {i \in Healthy : load(i) = m}
    OBVIOUS
  <2>5. least \in SUBSET Nat /\ least # {}
    BY <1>1, <2>3, <2>4
  <2>6. PICK i \in least : \A j \in least : i <= j
    BY <2>5, SmallestNat
  <2>7. /\ i \in Healthy
        /\ \A j \in Healthy : load(i) <= load(j) /\ (j < i => load(i) < load(j))
    <3>1. i \in Healthy /\ load(i) = m /\ i \in Nat
      BY <1>1, <2>4, <2>6
    <3>2. ASSUME NEW j \in Healthy
          PROVE  load(i) <= load(j) /\ (j < i => load(i) < load(j))
      <4>1. load(j) \in Nat /\ load(i) \in Nat /\ load(i) <= load(j) /\ j \in Nat
        BY <1>1, <2>1, <2>3, <3>1
      <4>2. load(j) = load(i) => ~(j < i)
        <5>1. load(j) = load(i) => j \in least
          BY <2>4, <3>1
        <5> QED
          BY <2>6, <3>1, <4>1, <5>1
      <4> QED
        BY <4>1, <4>2
    <3> QED
      BY <3>1, <3>2
  <2>8. \E x \in Healthy : \A j \in Healthy :
            slot[targets.slots[x]].inFlight <= slot[targets.slots[j]].inFlight
            /\ (j < x => slot[targets.slots[x]].inFlight < slot[targets.slots[j]].inFlight)
    BY <2>7
  <2>9. Picked(key) = CHOOSE x \in Healthy : \A j \in Healthy :
            slot[targets.slots[x]].inFlight <= slot[targets.slots[j]].inFlight
            /\ (j < x => slot[targets.slots[x]].inFlight < slot[targets.slots[j]].inFlight)
    BY <1>4 DEF Picked
  <2> QED
    BY <2>8, <2>9
<1>5. CASE targets.opts.balance = "HashChat" /\ key # NoKey
  <2>1. KeyHash[key] \in Nat
    BY <1>5, PushAssumption
  <2>2. Picked(key) = Nth(Healthy, (KeyHash[key] % n) + 1)
    BY <1>2, <1>5 DEF Picked
  <2> QED
    BY <1>3, <2>1, <2>2
<1>6. CASE targets.opts.balance # "LeastInFlight"
           /\ ~(targets.opts.balance = "HashChat" /\ key # NoKey)
  <2>1. Picked(key) = Nth(Healthy, (cursor % n) + 1)
    BY <1>2, <1>6 DEF Picked
  <2> QED
    BY <1>3, <2>1 DEF ShapeOK
<1> QED
  BY <1>4, <1>5, <1>6

-----------------------------------------------------------------------------
(* What a step of a delivery does to the deliveries.                       *)

\* The fields of a delivery that the invariant is about.
Alike(a, b) == a.pc = b.pc /\ a.key = b.key /\ a.slot = b.slot /\ a.bound = b.bound

\* Delivery s becomes d, but that it may be told; the others may be told.
MovesTo(s, d) ==
    /\ delivery' \in [Deliveries -> Delivery]
    /\ Alike(delivery'[s], d)
    /\ \A t \in Deliveries \ {s} : Alike(delivery'[t], delivery[t])

\* Delivery s goes; the others may be told.
Leaves(s) ==
    /\ delivery' \in [Deliveries \ {s} -> Delivery]
    /\ \A t \in Deliveries \ {s} : Alike(delivery'[t], delivery[t])

\* The steps of a delivery that goes on have the form MovesTo.
LEMMA MoveForms ==
    ASSUME ShapeOK, NEW s \in Deliveries, NEW d \in Delivery,
           delivery' = [delivery EXCEPT ![s] = d] \/ delivery' = Told([delivery EXCEPT ![s] = d])
    PROVE  MovesTo(s, d)
<1>1. PICK f : f = [delivery EXCEPT ![s] = d]
  OBVIOUS
<1>2. /\ f \in [Deliveries -> Delivery] /\ f[s] = d
      /\ \A t \in Deliveries \ {s} : f[t] = delivery[t]
  BY <1>1 DEF ShapeOK
<1>3. CASE delivery' = f
  BY <1>2, <1>3 DEF MovesTo, Alike
<1>4. CASE delivery' = Told(f)
  <2>1. PICK g : g = Told(f)
    OBVIOUS
  <2>2. g \in [Deliveries -> Delivery] /\ \A t \in Deliveries : Alike(g[t], f[t])
    BY <1>2, <2>1, ToldOK DEF Alike
  <2>3. Alike(g[s], d) /\ \A t \in Deliveries \ {s} : Alike(g[t], delivery[t])
    BY <1>2, <2>2 DEF Alike
  <2> QED
    BY <1>4, <2>1, <2>2, <2>3 DEF MovesTo
<1> QED
  BY <1>1, <1>3, <1>4

\* Those of a delivery that ends have the form Leaves.
LEMMA LeaveForms ==
    ASSUME ShapeOK, NEW s \in Deliveries,
           delivery' = Without(s) \/ delivery' = Told(Without(s))
    PROVE  Leaves(s)
<1>1. PICK f : f = Without(s)
  OBVIOUS
<1>2. /\ f \in [Deliveries \ {s} -> Delivery]
      /\ \A t \in Deliveries \ {s} : f[t] = delivery[t]
  BY <1>1 DEF ShapeOK, Without
<1>3. CASE delivery' = f
  BY <1>2, <1>3 DEF Leaves, Alike
<1>4. CASE delivery' = Told(f)
  <2>1. PICK g : g = Told(f)
    OBVIOUS
  <2>2. g \in [Deliveries \ {s} -> Delivery] /\ \A t \in Deliveries \ {s} : Alike(g[t], f[t])
    BY <1>2, <2>1, ToldOK DEF Alike
  <2>3. \A t \in Deliveries \ {s} : Alike(g[t], delivery[t])
    BY <1>2, <2>2 DEF Alike
  <2> QED
    BY <1>4, <2>1, <2>2, <2>3 DEF Leaves
<1> QED
  BY <1>1, <1>3, <1>4

\* Of a delivery that neither was nor comes to be sending, the wire knows nothing.
LEMMA OffWire ==
    ASSUME NEW s \in Deliveries, delivery[s].pc # "sending",
           UNCHANGED <<slot, targets>>,
           Leaves(s) \/ \E d : MovesTo(s, d) /\ d.pc # "sending"
    PROVE  WireQuiet
<1>1. /\ Deliveries' \subseteq Deliveries /\ Deliveries \ {s} \subseteq Deliveries'
      /\ \A t \in Deliveries \ {s} : Alike(delivery'[t], delivery[t])
      /\ s \in Deliveries' => delivery'[s].pc # "sending"
  BY DEF Leaves, MovesTo, Alike, Deliveries
<1>2. Sending(Deliveries)' = Sending(Deliveries)
  BY <1>1 DEF Sending, Alike
<1>3. s \notin Sending(Deliveries) /\ Sending(Deliveries) \subseteq Deliveries
  BY DEF Sending
<1>4. \A t \in Sending(Deliveries) : Alike(delivery'[t], delivery[t])
  BY <1>1, <1>3
<1> QED
  BY <1>2, <1>4 DEF WireQuiet, Alike

\* A delivery that was sending and is not any more.
LEMMA OnWireEnds ==
    ASSUME IInv, ShapeOK, WireInv, NEW s \in Sending(Deliveries), NEW sl,
           Settles(slot[delivery[s].slot], sl), EndSending(s, sl), targets' = targets,
           Leaves(s) \/ \E d : MovesTo(s, d) /\ d.pc # "sending"
    PROVE  WireInv'
<1>0. s \in Deliveries
  BY DEF Sending
<1>1. /\ Deliveries' \subseteq Deliveries /\ Deliveries \ {s} \subseteq Deliveries'
      /\ \A t \in Deliveries \ {s} : Alike(delivery'[t], delivery[t])
      /\ s \in Deliveries' => delivery'[s].pc # "sending"
  BY <1>0 DEF Leaves, MovesTo, Alike, Deliveries
<1>2. Sending(Deliveries)' = Sending(Deliveries) \ {s}
  BY <1>0, <1>1 DEF Sending, Alike
<1>3. Sending(Deliveries) \subseteq Deliveries
  BY DEF Sending
<1>4. \A t \in Sending(Deliveries) \ {s} : /\ delivery'[t].slot = delivery[t].slot
                                           /\ delivery'[t].bound = delivery[t].bound
  BY <1>1, <1>3 DEF Alike
<1> QED
  BY <1>2, <1>4, EndSendingKeeps

\* choose and pick: the request of s is on the wire.
LEMMA SendWire ==
    ASSUME PushInv, NEW s \in Deliveries, Send(s)
    PROVE  /\ WireInv' /\ cursor' \in Nat
           /\ \E d \in Delivery : MovesTo(s, d) /\ d.key = delivery[s].key /\ d.pc = "sending"
<1>0. /\ ShapeOK /\ WireInv /\ IInv /\ WireTypeOK /\ delivery[s] \in Delivery /\ delivery[s].pc = "load"
      /\ Healthy # {} /\ targets' = targets
  BY DEF PushInv, WireInv, ShapeOK, Send, Polled, controlVars
<1>1. delivery[s].key \in Keys \cup {NoKey} /\ delivery[s].attempt \in Nat
  BY <1>0 DEF Delivery
<1>2. PICK k \in Healthy : k = Picked(delivery[s].key)
  BY <1>0, <1>1, PickedReady
<1>3. PICK i : i = targets.slots[k]
  OBVIOUS
<1>4. /\ k \in DOMAIN targets.slots /\ i \in CurrentSlots /\ i \in Live /\ i \in SlotIds
      /\ slot[i] \in Slot /\ Ready(slot[i])
      /\ targets.opts \in Options /\ targets.runtime \in Bots \cup {NoBot}
  <2>1. k \in DOMAIN targets.slots /\ Ready(slot[i])
    BY <1>3 DEF Healthy
  <2>2. i \in CurrentSlots
    BY <1>3, <2>1 DEF CurrentSlots
  <2> QED
    BY <1>0, <2>1, <2>2, LiveOK
<1>5. PICK d : d = [NewDelivery(delivery[s].key) EXCEPT !.pc = "sending",
                       !.attempt = delivery[s].attempt + 1, !.slot = i,
                       !.opts = targets.opts, !.bound = targets.runtime]
  OBVIOUS
<1>6. /\ d \in Delivery /\ d.key = delivery[s].key /\ d.pc = "sending" /\ d.slot = i
      /\ d.bound = targets.runtime
  <2>1. PICK e : e = [NewDelivery(delivery[s].key) EXCEPT !.pc = "sending",
                        !.attempt = delivery[s].attempt + 1, !.slot = i]
    OBVIOUS
  <2>2. e \in Delivery /\ e.key = delivery[s].key /\ e.pc = "sending" /\ e.slot = i
    <3>1. PICK n : n = NewDelivery(delivery[s].key)
      OBVIOUS
    <3>2. n \in Delivery /\ n.key = delivery[s].key
      BY <1>1, <3>1, NewDeliveryOK
    <3>3. PICK a \in Nat : a = delivery[s].attempt + 1
      BY <1>1
    <3>4. e = [n EXCEPT !.pc = "sending", !.attempt = a, !.slot = i]
      BY <2>1, <3>1, <3>3
    <3> QED
      BY <1>4, <3>2, <3>4 DEF Delivery
  <2>3. d = [e EXCEPT !.opts = targets.opts, !.bound = targets.runtime]
    BY <1>1, <1>5, <2>1, NewDeliveryOK DEF Delivery
  <2> QED
    BY <1>4, <2>2, <2>3 DEF Delivery
<1>7. /\ delivery' = [delivery EXCEPT ![s] = d] /\ slot' = [slot EXCEPT ![i] = Claim(slot[i])]
  BY <1>2, <1>3, <1>5 DEF Send
<1>8. MovesTo(s, d)
  BY <1>0, <1>6, <1>7, MoveForms
<1>9. cursor' \in Nat
  <2>1. CursorPeriod \in Nat \ {0} /\ cursor \in Nat
    BY <1>0, PushAssumption DEF ShapeOK
  <2>2. cursor' = (cursor + 1) % CursorPeriod \/ cursor' = cursor
    BY DEF Send
  <2> QED
    BY <2>1, <2>2
<1>10. /\ s \notin Sending(Deliveries) /\ Sending(Deliveries)' = Sending(Deliveries) \cup {s}
       /\ delivery'[s].slot = i /\ delivery'[s].bound = targets.runtime
       /\ \A t \in Sending(Deliveries) : /\ delivery'[t].slot = delivery[t].slot
                                         /\ delivery'[t].bound = delivery[t].bound
  <2>1. Deliveries' = Deliveries /\ Alike(delivery'[s], d)
        /\ \A t \in Deliveries \ {s} : Alike(delivery'[t], delivery[t])
    BY <1>8 DEF MovesTo, Deliveries
  <2> QED
    BY <1>0, <1>6, <2>1 DEF Sending, Alike
<1>11. Live' = Live /\ CurrentSlots' = CurrentSlots
  BY <1>0, <1>4, <1>10 DEF Live, CurrentSlots
<1>12. /\ Claim(slot[i]) \in Slot /\ Claim(slot[i]).inFlight = slot[i].inFlight + 1
       /\ Claim(slot[i]).owner = slot[i].owner
  <2>1. slot[i].word \in Word /\ slot[i].inFlight \in Nat
    BY <1>4 DEF Slot
  <2>2. PICK w : w = IF slot[i].word.state = "Open"
                     THEN [slot[i].word EXCEPT !.state = "HalfOpen"] ELSE slot[i].word
    OBVIOUS
  <2>3. w \in Word
    BY <2>1, <2>2 DEF Word
  <2>4. Claim(slot[i]) = [slot[i] EXCEPT !.word = w, !.inFlight = @ + 1]
    BY <2>2 DEF Claim
  <2>5. PICK sl \in Slot, n \in Nat : sl = slot[i] /\ n = slot[i].inFlight + 1
    BY <1>4, <2>1
  <2>6. PICK c : c = [sl EXCEPT !.word = w, !.inFlight = n]
    OBVIOUS
  <2>7. c \in Slot /\ c.inFlight = n /\ c.owner = sl.owner
    BY <2>3, <2>6 DEF Slot
  <2>8. Claim(slot[i]) = c
    BY <2>4, <2>5, <2>6
  <2> QED
    BY <2>5, <2>7, <2>8
<1>13. /\ slot' \in [Live -> Slot] /\ slot'[i] = Claim(slot[i])
       /\ \A j \in Live \ {i} : slot'[j] = slot[j]
  BY <1>0, <1>4, <1>7, <1>12 DEF WireTypeOK
<1>14. WireTypeOK'
  BY <1>0, <1>4, <1>10, <1>11, <1>13 DEF WireTypeOK
<1>15. InFlightExact'
  <2>1. OnWire(i)' = OnWire(i) \cup {s} /\ s \notin OnWire(i)
    BY <1>10 DEF OnWire
  <2>2. \A j \in Live \ {i} : OnWire(j)' = OnWire(j)
    BY <1>10 DEF OnWire
  <2>3. IsFiniteSet(OnWire(i))
    BY <1>0, OnWireFinite
  <2>4. Cardinality(OnWire(i)') = Cardinality(OnWire(i)) + 1
    BY <2>1, <2>3, FS_AddElement
  <2> QED
    BY <1>0, <1>4, <1>11, <1>12, <1>13, <2>2, <2>4 DEF WireInv, InFlightExact
<1>16. ProbeUnderWay'
  <2>1. ASSUME NEW j \in Live, slot'[j].word.state = "HalfOpen"
        PROVE  \E t \in Sending(Deliveries)' : delivery'[t].slot = j
    <3>1. CASE j = i
      BY <1>10, <3>1
    <3>2. CASE j # i
      BY <1>0, <1>10, <1>13, <2>1, <3>2 DEF WireInv, ProbeUnderWay
    <3> QED
      BY <3>1, <3>2
  <2> QED
    BY <1>11, <2>1 DEF ProbeUnderWay
<1>17. OwnersAgree'
  <2>1. \A j \in Live : slot'[j].owner = slot[j].owner
    BY <1>12, <1>13
  <2>2. slot'[i].owner \in {NoBot, targets.runtime}
    BY <1>0, <1>3, <1>4, <2>1 DEF WireInv, OwnersAgree, OwnerAt
  <2>3. \A n \in DOMAIN targets.slots : targets.slots[n] \in Live
    BY DEF CurrentSlots, Live
  <2>4. \A t \in Sending(Deliveries) : delivery[t].slot \in Live
    BY DEF Live
  <2> QED
    BY <1>0, <1>10, <2>1, <2>2, <2>3, <2>4 DEF WireInv, OwnersAgree, OwnerAt
<1> QED
  BY <1>6, <1>8, <1>9, <1>14, <1>15, <1>16, <1>17 DEF WireInv

-----------------------------------------------------------------------------
(* What every step keeps.                                                  *)

\* The body of ReplyBoundToOwner.
RepliesBound ==
    \A s \in Sending(Deliveries) :
        s \in DOMAIN delivery' /\ delivery'[s].pc = "replying" =>
            delivery'[s].bound = slot[delivery[s].slot].owner

\* The invariant, and what is said of a single step.
Keeps ==
    /\ PushInv'
    /\ OldestFirst /\ cfg'.ordering = cfg.ordering => OldestFirst'
    /\ RepliesBound

\* The lease of s is over, unless it was before.
QueueDone(s) ==
    /\ IInv'
    /\ leases'[PushHolder] = leases[PushHolder] \ {s}
    /\ Seqs' \subseteq Seqs
    /\ \A t \in Seqs' : entries'[t].key = entries[t].key
    /\ cfg' = cfg /\ nextSeq' = nextSeq

\* The dispatcher is the queue's one holder.
LEMMA HolderOK == PushHolder \in Holders /\ Holders = {PushHolder}
  BY PushAssumption

\* Held::ack and Held::drop end a lease, if it is still there.
LEMMA HeldEnds ==
    ASSUME IInv, NEW s, AckHeld(s) \/ ReleaseHeld(s)
    PROVE  QueueDone(s)
<1>1. CASE s \in leases[PushHolder]
  <2>1. {s} \in SUBSET Leased(Seqs) /\ {s} \in SUBSET Seqs
    BY <1>1, HolderOK, LeasedByHolder DEF IInv
  <2>2. CASE AckSeq(PushHolder, s)
    <3>1. AckWhere({s})
      BY <2>2 DEF AckSeq
    <3>2. IInv'
      BY <2>1, <3>1, AckIInv
    <3>3. Remove({s}) /\ cfg' = cfg /\ nextSeq' = nextSeq
      BY <3>1 DEF AckWhere
    <3>4. Seqs' = Seqs \ {s} /\ \A t \in Seqs' : entries'[t] = entries[t]
      BY <3>3, RemoveKeeps
    <3>5. leases'[PushHolder] = leases[PushHolder] \ {s}
      BY <3>3, HolderOK DEF Remove, EndLease
    <3> QED
      BY <3>2, <3>3, <3>4, <3>5 DEF QueueDone
  <2>3. CASE ReleaseSeq(PushHolder, s)
    <3>1. Requeue({s}) /\ Owe(TRUE) /\ UNCHANGED <<cfg, nextSeq, reserved, thread, now>>
      BY <2>3 DEF ReleaseSeq
    <3>2. IInv'
      BY <2>1, <3>1, RequeueIInv
    <3>3. Seqs' = Seqs
      BY <3>1, RequeueSeqs
    <3>4. \A t \in Seqs' : entries'[t].key = entries[t].key
      <4>1. ASSUME NEW t \in Seqs PROVE entries'[t].key = entries[t].key
        <5>1. entries[t] \in Entry
          BY DEF IInv, IndexInv, IndexTypeOK
        <5>2. entries'[t] = entries[t] \/ entries'[t] = [entries[t] EXCEPT !.holder = NoHolder, !.deadline = NoDeadline]
          BY <3>1 DEF Requeue
        <5> QED
          BY <5>1, <5>2 DEF Entry
      <4> QED
        BY <3>3, <4>1
    <3>5. leases'[PushHolder] = leases[PushHolder] \ {s}
      BY <3>1, HolderOK DEF Requeue, EndLease
    <3> QED
      BY <3>1, <3>2, <3>3, <3>4, <3>5 DEF QueueDone
  <2> QED
    BY <1>1, <2>2, <2>3 DEF AckHeld, ReleaseHeld
<1>2. CASE s \notin leases[PushHolder]
  <2>1. UNCHANGED vars
    BY <1>2 DEF AckHeld, ReleaseHeld
  <2>2. IInv'
    BY <2>1, NextIInv
  <2> QED
    BY <1>2, <2>1, <2>2 DEF QueueDone, vars, innerVars, Seqs
<1> QED
  BY <1>1, <1>2

\* A place in the dispatcher's loop, untold.
LEMMA AtOK ==
    ASSUME NEW pc \in {"off", "top", "look", "returning", "unwinding", "done"}
    PROVE  At(pc) \in Dispatcher /\ At(pc).pc = pc /\ ~At(pc).told
<1>1. 0 \in Nat
  OBVIOUS
<1> QED
  BY <1>1 DEF At, Dispatcher

\* notify_waiters tells the dispatcher where a future is enabled.
LEMMA TellOK ==
    ASSUME NEW d \in Dispatcher
    PROVE  /\ TellDispatcher(d) \in Dispatcher /\ TellDispatcher(d).pc = d.pc
           /\ TellDispatcher(d).room = d.room
           /\ d.pc \in {"look", "load", "lease", "parked"} => TellDispatcher(d).told
           /\ TellDispatcher(d).told \/ TellDispatcher(d) = d
  BY DEF TellDispatcher, Dispatcher

\* Delivery s ends, and its lease with it.
LEMMA LeavesKeeps ==
    ASSUME PushInv, NEW s \in Deliveries, QueueDone(s), Leaves(s), WireInv',
           cursor' = cursor, UNCHANGED controlVars,
           dispatcher' \in Dispatcher, dispatcher'.pc \notin {"parked", "lease"}
    PROVE  Keeps
<1>0. IInv /\ ShapeOK /\ HeldInv
  BY DEF PushInv
<1>1. /\ Deliveries' = Deliveries \ {s} /\ delivery' \in [Deliveries' -> Delivery]
      /\ \A t \in Deliveries' : Alike(delivery'[t], delivery[t])
  BY DEF Leaves, Deliveries
<1>2. /\ IInv' /\ leases'[PushHolder] = leases[PushHolder] \ {s} /\ Seqs' \subseteq Seqs
      /\ (\A t \in Seqs' : entries'[t].key = entries[t].key)
      /\ cfg' = cfg /\ nextSeq' = nextSeq
  BY DEF QueueDone
<1>3. ShapeOK'
  BY <1>0, <1>1, <1>2 DEF ShapeOK, controlVars
<1>4. HeldInv'
  BY <1>0, <1>1, <1>2 DEF HeldInv, LeasesDelivered
<1>5. AwakeInv'
  BY DEF AwakeInv, DispatcherAwake, RoomKnown
<1>6. OldestFirst => OldestFirst'
  BY <1>1, <1>2 DEF OldestFirst, OfKey, Alike
<1>7. RepliesBound
  BY <1>1 DEF RepliesBound, Sending, Alike, Deliveries
<1> QED
  BY <1>2, <1>3, <1>4, <1>5, <1>6, <1>7 DEF Keeps, PushInv

\* Nothing of the queue changes.
LEMMA QueueSame ==
    ASSUME IInv, UNCHANGED vars
    PROVE  /\ IInv' /\ owed' = owed /\ Candidates' = Candidates /\ cfg' = cfg
           /\ Seqs' = Seqs /\ entries' = entries /\ leases' = leases /\ nextSeq' = nextSeq
<1>1. IInv'
  BY NextIInv
<1> QED
  BY <1>1 DEF vars, innerVars, Candidates, Seqs

\* Delivery s goes on, which the dispatcher may be told of.
LEMMA MovesKeeps ==
    ASSUME PushInv, NEW s \in Deliveries, UNCHANGED vars, NEW d, MovesTo(s, d), WireInv',
           d.key = delivery[s].key,
           delivery[s].pc = "sending" /\ d.pc = "replying"
             => d.bound = slot[delivery[s].slot].owner,
           cursor' \in Nat, UNCHANGED controlVars, dispatcher.pc = "parked",
           dispatcher' = dispatcher \/ dispatcher' = TellDispatcher(dispatcher)
    PROVE  Keeps
<1>0. IInv /\ ShapeOK /\ HeldInv /\ AwakeInv /\ dispatcher \in Dispatcher
  BY DEF PushInv, ShapeOK
<1>1. /\ Deliveries' = Deliveries /\ delivery' \in [Deliveries' -> Delivery]
      /\ \A t \in Deliveries : delivery'[t].key = delivery[t].key
      /\ Alike(delivery'[s], d)
      /\ \A t \in Deliveries \ {s} : Alike(delivery'[t], delivery[t])
  BY DEF MovesTo, Alike, Deliveries
<1>2. /\ IInv' /\ owed' = owed /\ Candidates' = Candidates /\ cfg' = cfg
      /\ Seqs' = Seqs /\ entries' = entries /\ leases' = leases /\ nextSeq' = nextSeq
  BY <1>0, QueueSame
<1>3. /\ dispatcher' \in Dispatcher /\ dispatcher'.pc = "parked"
      /\ ~dispatcher'.told => ~dispatcher.told
  BY <1>0, TellOK
<1>4. ShapeOK'
  BY <1>0, <1>1, <1>2, <1>3 DEF ShapeOK, controlVars
<1>5. HeldInv'
  BY <1>0, <1>1, <1>2 DEF HeldInv, LeasesDelivered
<1>6. AwakeInv'
  BY <1>0, <1>1, <1>2, <1>3 DEF AwakeInv, DispatcherAwake, RoomKnown, controlVars
<1>7. OldestFirst => OldestFirst'
  BY <1>1, <1>2 DEF OldestFirst, OfKey
<1>8. RepliesBound
  BY <1>1 DEF RepliesBound, Sending, Alike, Deliveries
<1> QED
  BY <1>2, <1>4, <1>5, <1>6, <1>7, <1>8 DEF Keeps, PushInv

\* The dispatcher alone takes a step.
LEMMA DispatcherKeeps ==
    ASSUME PushInv, UNCHANGED <<vars, controlVars, slot, delivery, cursor>>,
           dispatcher' \in Dispatcher, AwakeInv'
    PROVE  Keeps
<1>0. IInv /\ ShapeOK /\ HeldInv /\ WireInv
  BY DEF PushInv
<1>1. Deliveries' = Deliveries /\ delivery' = delivery
  BY DEF Deliveries
<1>2. /\ IInv' /\ owed' = owed /\ Candidates' = Candidates /\ cfg' = cfg
      /\ Seqs' = Seqs /\ entries' = entries /\ leases' = leases /\ nextSeq' = nextSeq
  BY <1>0, QueueSame
<1>3. ShapeOK'
  BY <1>0, <1>1, <1>2 DEF ShapeOK, controlVars
<1>4. HeldInv'
  BY <1>0, <1>1, <1>2 DEF HeldInv, LeasesDelivered
<1>5. WireInv'
  <2>1. WireQuiet
    BY <1>1 DEF WireQuiet, Sending, controlVars
  <2> QED
    BY <1>0, <2>1, WireQuietKeeps
<1>6. OldestFirst => OldestFirst'
  BY <1>1, <1>2 DEF OldestFirst, OfKey
<1>7. RepliesBound
  BY <1>1 DEF RepliesBound, Sending, Deliveries
<1> QED
  BY <1>2, <1>3, <1>4, <1>5, <1>6, <1>7 DEF Keeps, PushInv

-----------------------------------------------------------------------------
(* The steps of the dispatcher.                                            *)

\* The dispatcher goes to a place where nothing is said of it.
LEMMA ElsewhereKeeps ==
    ASSUME PushInv, UNCHANGED <<vars, controlVars, slot, delivery, cursor>>,
           NEW pc \in {"off", "top", "look", "returning", "unwinding", "done"},
           dispatcher' = At(pc)
    PROVE  Keeps
<1>1. dispatcher' \in Dispatcher /\ dispatcher'.pc = pc
  BY AtOK
<1>2. AwakeInv'
  BY <1>1 DEF AwakeInv, DispatcherAwake, RoomKnown
<1> QED
  BY <1>1, <1>2, DispatcherKeeps

\* Parked after its look, the dispatcher is paused or stopping.
LEMMA LookAroundKeeps ==
    ASSUME PushInv, LookAround
    PROVE  Keeps
<1>0. /\ UNCHANGED <<vars, controlVars, slot, delivery, cursor>> /\ dispatcher \in Dispatcher
      /\ paused' = paused /\ stops' = stops
  BY DEF LookAround, controlVars, PushInv, ShapeOK
<1>1. CASE dispatcher' = At("done")
  BY <1>0, <1>1, ElsewhereKeeps
<1>2. CASE "cancel" \in stops /\ dispatcher' = [dispatcher EXCEPT !.pc = "parked", !.stopping = TRUE]
  <2>1. dispatcher' \in Dispatcher /\ dispatcher'.pc = "parked"
    BY <1>0, <1>2 DEF Dispatcher
  <2>2. AwakeInv'
    BY <1>0, <1>2, <2>1 DEF AwakeInv, DispatcherAwake, RoomKnown
  <2> QED
    BY <1>0, <2>1, <2>2, DispatcherKeeps
<1>3. CASE dispatcher' = [dispatcher EXCEPT !.pc = IF paused THEN "parked" ELSE "load"]
  <2>1. dispatcher' \in Dispatcher /\ dispatcher'.pc = IF paused THEN "parked" ELSE "load"
    BY <1>0, <1>3 DEF Dispatcher
  <2>2. AwakeInv'
    BY <1>0, <2>1 DEF AwakeInv, DispatcherAwake, RoomKnown
  <2> QED
    BY <1>0, <2>1, <2>2, DispatcherKeeps
<1> QED
  BY <1>1, <1>2, <1>3 DEF LookAround

\* With room and an endpoint it goes on to lease, by the room it has seen.
LEMMA LoadTargetsKeeps ==
    ASSUME PushInv, LoadTargets
    PROVE  Keeps
<1>0. /\ UNCHANGED <<vars, controlVars, slot, delivery, cursor>> /\ dispatcher \in Dispatcher
      /\ targets' = targets /\ Deliveries' = Deliveries
  BY DEF LoadTargets, controlVars, PushInv, ShapeOK, Deliveries
<1>1. PICK most \in Nat, used \in Nat, room \in Int :
          /\ most = targets.opts.maxInFlight /\ used = Cardinality(Deliveries)
          /\ room = most - used
  <2>1. targets.opts.maxInFlight \in Nat
    BY LiveOK DEF PushInv, WireInv, PushOptions
  <2>2. Cardinality(Deliveries) \in Nat
    BY OnWireFinite DEF PushInv
  <2> QED
    BY <2>1, <2>2
<1>2. CASE room > 0 /\ targets.slots # <<>>
  <2>1. dispatcher' = [dispatcher EXCEPT !.pc = "lease", !.room = room]
    BY <1>1, <1>2 DEF LoadTargets
  <2>2. dispatcher' \in Dispatcher /\ dispatcher'.pc = "lease" /\ dispatcher'.room = room
    <3>1. room \in Nat
      BY <1>2
    <3> QED
      BY <1>0, <2>1, <3>1 DEF Dispatcher
  <2>3. AwakeInv'
    BY <1>0, <1>1, <2>2 DEF AwakeInv, DispatcherAwake, RoomKnown
  <2> QED
    BY <1>0, <2>2, <2>3, DispatcherKeeps
<1>3. CASE ~(room > 0 /\ targets.slots # <<>>)
  <2>1. dispatcher' = [dispatcher EXCEPT !.pc = "parked"]
    BY <1>1, <1>3 DEF LoadTargets
  <2>2. dispatcher' \in Dispatcher /\ dispatcher'.pc = "parked"
    BY <1>0, <2>1 DEF Dispatcher
  <2>3. AwakeInv'
    BY <1>0, <1>1, <1>3, <2>2 DEF AwakeInv, DispatcherAwake, RoomKnown
  <2> QED
    BY <1>0, <2>2, <2>3, DispatcherKeeps
<1> QED
  BY <1>2, <1>3

\* What lease does to the queue: it gives the n lowest candidates to the
\* consumer, each the oldest of its key under PerKey, and when it takes all
\* of them it leaves none.
LEMMA LeasedFacts ==
    ASSUME IInv, NEW n \in Nat, Lease(PushHolder, n, now)
    PROVE  /\ IInv' /\ cfg' = cfg /\ nextSeq' = nextSeq /\ owed' = owed /\ Seqs' = Seqs
           /\ \A t \in Seqs : entries'[t].key = entries[t].key
           /\ leases'[PushHolder] = leases[PushHolder] \cup Take(Candidates, n)
           /\ Take(Candidates, n) \subseteq available /\ available \subseteq Seqs
           /\ leases[PushHolder] \cap available = {}
           /\ Take(Candidates, n) = Candidates => Candidates' = {}
           /\ cfg.ordering = "PerKey" =>
                \A s \in Take(Candidates, n) : entries[s].key # NoKey =>
                    \A t \in OfKey(Seqs, entries[s].key) : s <= t
<1>0. /\ IndexTypeOK /\ IndexesAgree /\ now \in Nat /\ IndexTypeOK' /\ IndexesAgree' /\ IInv'
  <2>1. now \in Nat
    BY BoundAssumption DEF IInv, CallTypeOK
  <2>2. IInv'
    BY <2>1, HolderOK, LeaseIInv
  <2> QED
    BY <2>1, <2>2 DEF IInv, IndexInv
<1>1. PICK S : S = Take(Candidates, n)
  OBVIOUS
<1>2. /\ StartLease(S, PushHolder, now) /\ cfg' = cfg /\ nextSeq' = nextSeq /\ owed' = owed
  BY <1>1 DEF Lease
<1>3. /\ S \subseteq Candidates /\ Candidates \subseteq available
      /\ available = Unleased /\ available \subseteq Seqs
      /\ leases[PushHolder] \cap available = {}
  <2>1. S \subseteq Candidates
    BY <1>1 DEF Take
  <2>2. Candidates \subseteq available /\ available = Unleased
    BY <1>0 DEF Candidates, IndexesAgree, EligibleAgrees, AvailableAgrees
  <2>3. leases[PushHolder] \subseteq Leased(Seqs)
    BY <1>0, HolderOK, LeasedByHolder DEF IndexInv
  <2> QED
    BY <2>1, <2>2, <2>3 DEF Unleased
<1>4. /\ Seqs' = Seqs
      /\ \A t \in Seqs : /\ entries'[t].key = entries[t].key
                         /\ entries'[t].holder = IF t \in S THEN PushHolder ELSE entries[t].holder
  <2>1. Seqs' = Seqs
    BY <1>2 DEF StartLease, Seqs
  <2>2. ASSUME NEW t \in Seqs
        PROVE  /\ entries'[t].key = entries[t].key
               /\ entries'[t].holder = IF t \in S THEN PushHolder ELSE entries[t].holder
    <3>1. entries[t] \in Entry
      BY <1>0 DEF IndexTypeOK
    <3>2. entries'[t] = IF t \in S THEN [entries[t] EXCEPT !.holder = PushHolder, !.deadline = Deadline(now)]
                        ELSE entries[t]
      BY <1>2 DEF StartLease
    <3> QED
      BY <3>1, <3>2 DEF Entry
  <2> QED
    BY <2>1, <2>2
<1>5. leases'[PushHolder] = leases[PushHolder] \cup S
  BY <1>0, <1>2, HolderOK DEF StartLease, IndexTypeOK
<1>6. ASSUME S = Candidates, NEW s \in Candidates' PROVE FALSE
  <2>1. s \in Unleased' /\ Unleased' \subseteq Unleased /\ s \notin S
    <3>1. Candidates' \subseteq Unleased'
      BY <1>0 DEF Candidates, IndexesAgree, EligibleAgrees, AvailableAgrees
    <3>2. \A t \in Unleased' : t \in Seqs /\ entries'[t].holder = NoHolder
      BY <1>4 DEF Unleased, Leased
    <3>3. PushHolder # NoHolder
      BY HolderOK, SentinelAssumption
    <3> QED
      BY <1>4, <1>6, <3>1, <3>2, <3>3 DEF Unleased, Leased
  <2>2. CASE cfg.ordering # "PerKey"
    BY <1>3, <1>6, <2>1, <2>2 DEF Candidates
  <2>3. CASE cfg.ordering = "PerKey"
    <3>1. s \in eligible' /\ Candidates = eligible
      BY <1>2, <1>6, <2>3 DEF Candidates
    <3>2. entries'[s].key # NoKey =>
             \A t \in Seqs' : entries'[t].key = entries'[s].key
                             => entries'[t].holder = NoHolder /\ s <= t
      BY <1>0, <3>1 DEF IndexesAgree, EligibleAgrees, OfKey
    <3>3. s \in Seqs
      BY <2>1 DEF Unleased
    <3>4. entries[s].key # NoKey =>
             \A t \in OfKey(Seqs, entries[s].key) : entries[t].holder = NoHolder /\ s <= t
      <4>1. PushHolder # NoHolder
        BY HolderOK, SentinelAssumption
      <4>2. ASSUME entries[s].key # NoKey, NEW t \in OfKey(Seqs, entries[s].key)
            PROVE  entries[t].holder = NoHolder /\ s <= t
        <5>1. t \in Seqs /\ entries'[t].key = entries'[s].key /\ entries'[s].key # NoKey
          BY <1>4, <3>3, <4>2 DEF OfKey
        <5> QED
          BY <1>4, <3>2, <4>1, <5>1
      <4> QED
        BY <4>2
    <3>5. s \in eligible
      BY <1>0, <2>1, <3>4 DEF IndexesAgree, EligibleAgrees
    <3> QED
      BY <1>6, <2>1, <3>1, <3>5
  <2> QED
    BY <2>2, <2>3
<1>7. cfg.ordering = "PerKey" =>
        \A s \in S : entries[s].key # NoKey => \A t \in OfKey(Seqs, entries[s].key) : s <= t
  BY <1>0, <1>3 DEF Candidates, IndexesAgree, EligibleAgrees
<1> QED
  BY <1>0, <1>1, <1>2, <1>3, <1>4, <1>5, <1>6, <1>7

\* The dispatcher leases and starts the deliveries.  Untold, it has filled
\* its room or taken all there was.
LEMMA LeaseRoomKeeps ==
    ASSUME PushInv, LeaseRoom
    PROVE  Keeps
<1>0. /\ IInv /\ ShapeOK /\ HeldInv /\ WireInv /\ AwakeInv /\ dispatcher \in Dispatcher
      /\ dispatcher.pc = "lease" /\ UNCHANGED controlVars /\ slot' = slot /\ cursor' = cursor
      /\ dispatcher' = [dispatcher EXCEPT !.pc = "parked", !.room = 0]
      /\ targets' = targets /\ owedWakes' = owedWakes /\ received' = received
  BY DEF PushInv, ShapeOK, LeaseRoom, controlVars
<1>1. /\ dispatcher' \in Dispatcher /\ dispatcher'.pc = "parked" /\ dispatcher'.told = dispatcher.told
      /\ dispatcher.room \in Nat
  <2>1. 0 \in Nat
    OBVIOUS
  <2> QED
    BY <1>0, <2>1 DEF Dispatcher
<1>2. PICK L :
        /\ leases'[PushHolder] = leases[PushHolder] \cup L
        /\ L \subseteq Seqs /\ L \cap Deliveries = {}
        /\ L = leases'[PushHolder] \ leases[PushHolder]
        /\ IInv' /\ cfg' = cfg /\ nextSeq' = nextSeq /\ owed' = owed /\ Seqs' = Seqs
        /\ \A t \in Seqs : entries'[t].key = entries[t].key
        /\ cfg.ordering = "PerKey" =>
              \A s \in L : entries[s].key # NoKey => \A t \in OfKey(Seqs, entries[s].key) : s <= t
        /\ Candidates' = {} \/ Cardinality(L) >= dispatcher.room
  <2>1. CASE Candidates = {} /\ UNCHANGED vars
    <3>1. /\ IInv' /\ owed' = owed /\ Candidates' = Candidates /\ cfg' = cfg
          /\ Seqs' = Seqs /\ entries' = entries /\ leases' = leases /\ nextSeq' = nextSeq
      BY <1>0, <2>1, QueueSame
    <3>2. PICK L : L = {}
      OBVIOUS
    <3> QED
      BY <2>1, <3>1, <3>2
  <2>2. CASE Candidates # {} /\ Lease(PushHolder, dispatcher.room, now)
    <3>1. PICK n \in Nat : n = dispatcher.room /\ Lease(PushHolder, n, now)
      BY <1>1, <2>2
    <3>2. PICK L : L = Take(Candidates, n)
      OBVIOUS
    <3>3. /\ IInv' /\ cfg' = cfg /\ nextSeq' = nextSeq /\ owed' = owed /\ Seqs' = Seqs
          /\ \A t \in Seqs : entries'[t].key = entries[t].key
          /\ leases'[PushHolder] = leases[PushHolder] \cup L
          /\ L \subseteq available /\ available \subseteq Seqs
          /\ leases[PushHolder] \cap available = {}
          /\ L = Candidates => Candidates' = {}
          /\ cfg.ordering = "PerKey" =>
               \A s \in L : entries[s].key # NoKey => \A t \in OfKey(Seqs, entries[s].key) : s <= t
      BY <1>0, <3>1, <3>2, LeasedFacts
    <3>4. L \cap Deliveries = {}
      BY <1>0, <3>3 DEF HeldInv
    <3>5. L # Candidates => Cardinality(L) >= n
      <4>1. Candidates \subseteq Seqs /\ Seqs \subseteq Nat /\ IsFiniteSet(Seqs)
        BY <1>0 DEF IInv, IndexInv, IndexesAgree, EligibleAgrees, AvailableAgrees, Candidates,
                    Unleased, IndexTypeOK
      <4>2. Candidates \in SUBSET Nat /\ IsFiniteSet(Candidates)
        BY <4>1, FS_Subset
      <4> QED
        BY <3>2, <4>2, TakeAll
    <3> QED
      BY <3>1, <3>3, <3>4, <3>5
  <2> QED
    BY <2>1, <2>2 DEF LeaseRoom
<1>3. /\ Deliveries' = Deliveries \cup L
      /\ \A s \in L : delivery'[s] = NewDelivery(entries[s].key)
      /\ \A s \in Deliveries : delivery'[s] = delivery[s]
      /\ delivery' = [s \in Deliveries' |-> delivery'[s]]
  BY <1>2 DEF LeaseRoom, Deliveries
<1>4. \A s \in L : /\ delivery'[s] \in Delivery /\ delivery'[s].key = entries[s].key
                   /\ delivery'[s].pc = "choose"
  <2>1. \A s \in Seqs : entries[s].key \in Keys \cup {NoKey}
    BY <1>0 DEF IInv, IndexInv, IndexTypeOK, Entry
  <2> QED
    BY <1>2, <1>3, <2>1, NewDeliveryOK
<1>5. ShapeOK'
  <2>1. delivery' \in [Deliveries' -> Delivery]
    BY <1>0, <1>3, <1>4 DEF ShapeOK
  <2>2. Seqs \subseteq 0 .. nextSeq - 1
    BY <1>0 DEF IInv, CallTypeOK
  <2> QED
    BY <1>0, <1>1, <1>2, <1>3, <2>1, <2>2 DEF ShapeOK
<1>6. HeldInv'
  BY <1>0, <1>2, <1>3 DEF HeldInv, LeasesDelivered
<1>7. WireInv'
  <2>1. WireQuiet
    BY <1>0, <1>2, <1>3, <1>4 DEF WireQuiet, Sending
  <2> QED
    BY <1>0, <2>1, WireQuietKeeps
<1>8. AwakeInv'
  <2>1. RoomKnown'
    BY <1>1 DEF RoomKnown
  <2>2. ASSUME ~dispatcher.told, owedWakes = 0, Cardinality(Deliveries') < targets.opts.maxInFlight
        PROVE  Candidates' = {}
    <3>1. targets.opts.maxInFlight \in Nat
      BY <1>0, LiveOK DEF WireInv, PushOptions
    <3>2. dispatcher.room >= targets.opts.maxInFlight - Cardinality(Deliveries)
      BY <1>0, <2>2 DEF AwakeInv, RoomKnown
    <3>3. IsFiniteSet(Deliveries) /\ Cardinality(Deliveries) \in Nat
      BY <1>0, OnWireFinite
    <3>4. IsFiniteSet(L) /\ Cardinality(L) \in Nat
      BY <1>0, <1>2, FS_Subset, FS_CardinalityType DEF IInv, IndexInv, IndexTypeOK
    <3>5. Cardinality(Deliveries \cup L) = Cardinality(Deliveries) + Cardinality(L)
      <4>1. Deliveries \cap L = {}
        BY <1>2
      <4>2. Cardinality(Deliveries \cap L) = 0
        BY <4>1, FS_EmptySet
      <4>3. Cardinality(Deliveries \cup L)
              = Cardinality(Deliveries) + Cardinality(L) - Cardinality(Deliveries \cap L)
        BY <3>3, <3>4, FS_Union
      <4> QED
        BY <3>3, <3>4, <4>2, <4>3
    <3> QED
      BY <1>1, <1>2, <1>3, <2>2, <3>1, <3>2, <3>3, <3>4, <3>5
  <2>3. DispatcherAwake'
    BY <1>0, <1>1, <2>2 DEF DispatcherAwake, ShapeOK
  <2> QED
    BY <2>1, <2>3 DEF AwakeInv
<1>9. OldestFirst => OldestFirst'
  BY <1>2, <1>3, <1>4 DEF OldestFirst, OfKey
<1>10. RepliesBound
  BY <1>3 DEF RepliesBound, Sending
<1> QED
  BY <1>2, <1>5, <1>6, <1>7, <1>8, <1>9, <1>10 DEF Keeps, PushInv

\* A delivery is dropped with the task.
LEMMA DropDeliveryKeeps ==
    ASSUME PushInv, NEW s \in Deliveries, DropDelivery(s)
    PROVE  Keeps
<1>0. /\ IInv /\ ShapeOK /\ WireInv /\ dispatcher' = dispatcher /\ cursor' = cursor
      /\ UNCHANGED controlVars /\ targets' = targets /\ dispatcher \in Dispatcher
      /\ dispatcher.pc \in {"returning", "unwinding"} /\ now \in 0 .. MaxInstant
  BY DEF PushInv, ShapeOK, DropDelivery, controlVars, IInv, CallTypeOK
<1>1. Leaves(s)
  BY <1>0, LeaveForms DEF DropDelivery
<1>2. QueueDone(s)
  BY <1>0, HeldEnds DEF DropDelivery
<1>3. WireInv'
  <2>1. CASE delivery[s].pc = "sending"
    <3>1. s \in Sending(Deliveries) /\ slot[delivery[s].slot] \in Slot
      BY <1>0, <2>1, LiveOK DEF Sending, WireInv
    <3>2. PICK sl : sl = Dropped(slot[delivery[s].slot])
      OBVIOUS
    <3>3. Settles(slot[delivery[s].slot], sl) /\ EndSending(s, sl)
      BY <1>0, <2>1, <3>1, <3>2, OutcomesSettle DEF DropDelivery
    <3> QED
      BY <1>0, <1>1, <3>1, <3>3, OnWireEnds
  <2>2. CASE delivery[s].pc # "sending"
    <3>1. slot' = slot
      BY <2>2 DEF DropDelivery
    <3>2. WireQuiet
      BY <1>0, <1>1, <2>2, <3>1, OffWire
    <3> QED
      BY <1>0, <3>2, WireQuietKeeps
  <2> QED
    BY <2>1, <2>2
<1> QED
  BY <1>0, <1>1, <1>2, <1>3, LeavesKeeps

\* Every step of the dispatcher, and its restart after a panic.
LEMMA DispatcherStepKeeps ==
    ASSUME PushInv, Spawn \/ DispatcherStep \/ Crash
    PROVE  Keeps
<1>1. CASE Spawn \/ EnableFutures \/ WakeUp \/ ForceBreak \/ Crash
  BY <1>1, ElsewhereKeeps DEF Spawn, EnableFutures, WakeUp, ForceBreak, Crash
<1>2. CASE End
  <2>1. PICK pc \in {"done", "off"} : dispatcher' = At(pc)
    BY <1>2 DEF End
  <2> QED
    BY <1>2, <2>1, ElsewhereKeeps DEF End
<1> QED
  BY <1>1, <1>2, LookAroundKeeps, LoadTargetsKeeps, LeaseRoomKeeps, DropDeliveryKeeps
     DEF DispatcherStep

-----------------------------------------------------------------------------
(* The steps of a delivery.                                                *)

\* A delivery that is not sending returns, its lease being over.
LEMMA ReturnKeeps ==
    ASSUME PushInv, NEW s \in Deliveries, delivery[s].pc # "sending",
           AckHeld(s) \/ ReleaseHeld(s), Return(s), UNCHANGED <<controlVars, slot, cursor>>
    PROVE  Keeps
<1>0. IInv /\ ShapeOK /\ WireInv /\ targets' = targets
  BY DEF PushInv, controlVars
<1>1. Leaves(s)
  BY <1>0, LeaveForms DEF Return
<1>2. QueueDone(s)
  BY <1>0, HeldEnds
<1>3. WireInv'
  BY <1>0, <1>1, OffWire, WireQuietKeeps
<1>4. dispatcher' \in Dispatcher /\ dispatcher'.pc = "top"
  BY AtOK DEF Return
<1> QED
  BY <1>1, <1>2, <1>3, <1>4, LeavesKeeps

\* A delivery that is not sending goes on, and does not come to be.
LEMMA GoesOnKeeps ==
    ASSUME PushInv, NEW s \in Deliveries, delivery[s].pc # "sending", NEW d \in Delivery,
           d.pc # "sending", d.key = delivery[s].key, delivery' = [delivery EXCEPT ![s] = d],
           dispatcher.pc = "parked",
           UNCHANGED <<vars, controlVars, slot, dispatcher, cursor>>
    PROVE  Keeps
<1>0. IInv /\ ShapeOK /\ WireInv /\ targets' = targets /\ cursor' \in Nat
  BY DEF PushInv, controlVars, ShapeOK
<1>1. MovesTo(s, d)
  BY <1>0, MoveForms
<1>2. WireInv'
  <2>1. WireQuiet
    BY <1>0, <1>1, OffWire
  <2> QED
    BY <1>0, <2>1, WireQuietKeeps
<1> QED
  BY <1>0, <1>1, <1>2, MovesKeeps

\* After gives an instant, or none.
LEMMA AfterType ==
    ASSUME NEW a \in Nat, NEW b \in Nat
    PROVE  After(a, b) \in Nat \cup {NoDeadline}
  BY DEF After

\* Whoever waits until a is not late for b.
Sooner(a, b) == b # NoDeadline => a # NoDeadline /\ a <= b

\* The times of a wait are instants, or none.
LEMMA TimesType ==
    ASSUME PushInv
    PROVE  /\ targets.opts \in Options
           /\ \A s \in Deliveries : MaxAgeAt(s, targets.opts) \in Nat \cup {NoDeadline}
           /\ \A i \in CurrentSlots : ReopensAt(slot[i]) \in Nat \cup {NoDeadline}
           /\ \A s \in Deliveries : delivery[s].until \in Nat \cup {NoDeadline}
           /\ now \in Nat
<1>0. /\ WireTypeOK /\ ShapeOK /\ targets.opts \in PushOptions /\ targets.opts.maxAge \in Nat
  BY LiveOK DEF PushInv, WireInv, PushOptions
<1>1. ASSUME NEW s \in Deliveries PROVE MaxAgeAt(s, targets.opts) \in Nat \cup {NoDeadline}
  <2>1. s \in 0 .. MaxSeq - 1
    BY BoundAssumption DEF PushInv, IInv, CallTypeOK, ShapeOK
  <2>2. received[s] \in Nat
    BY <1>0, <2>1 DEF ShapeOK
  <2> QED
    BY <1>0, <2>2, AfterType DEF MaxAgeAt
<1>2. ASSUME NEW i \in CurrentSlots PROVE ReopensAt(slot[i]) \in Nat \cup {NoDeadline}
  <2>1. slot[i] \in Slot
    BY <1>0, LiveOK
  <2>2. slot[i].word.openedAt \in Nat /\ slot[i].breaker.openFor \in Nat
    BY <2>1, BoundAssumption DEF Slot, Word
  <2> QED
    BY <2>2, AfterType DEF ReopensAt
<1>3. ASSUME NEW s \in Deliveries PROVE delivery[s].until \in Nat \cup {NoDeadline}
  BY <1>0 DEF ShapeOK, Delivery
<1>4. now \in Nat
  BY BoundAssumption DEF PushInv, IInv, CallTypeOK
<1> QED
  BY <1>0, <1>1, <1>2, <1>3, <1>4, LiveOK

\* The first instant a breaker reopens is none of them later.
LEMMA FirstReopenOK ==
    ASSUME PushInv
    PROVE  /\ FirstReopen \in Nat \cup {NoDeadline}
           /\ \A i \in CurrentSlots : slot[i].word.state = "Open" =>
                 Sooner(FirstReopen, ReopensAt(slot[i]))
<1> DEFINE open == {i \in CurrentSlots : /\ slot[i].word.state = "Open"
                                         /\ ReopensAt(slot[i]) # NoDeadline}
<1>1. PICK times : times = {ReopensAt(slot[i]) : i \in open}
  OBVIOUS
<1>2. times \in SUBSET Nat
  BY <1>1, TimesType
<1>3. CASE open = {}
  BY <1>3 DEF FirstReopen, Sooner
<1>4. CASE open # {}
  <2>0. times # {}
    BY <1>1, <1>4
  <2>1. \E x \in times : \A y \in times : x <= y
    BY <1>2, <2>0, SmallestNat
  <2>2. Min(times) \in times /\ \A y \in times : Min(times) <= y
    BY <2>1, ZenonT(30) DEF Min
  <2>3. FirstReopen = Min(times)
    BY <1>1, <1>4 DEF FirstReopen
  <2> QED
    BY <1>1, <1>2, <2>2, <2>3, SentinelAssumption DEF Sooner
<1> QED
  BY <1>3, <1>4

\* A wait for a breaker or for max_age ends at an instant, or never.
LEMMA WaitType ==
    ASSUME PushInv, NEW s \in Deliveries
    PROVE  Earlier(FirstReopen, MaxAgeAt(s, targets.opts)) \in Nat \cup {NoDeadline}
  BY TimesType, FirstReopenOK DEF Earlier

\* Every step of a delivery but for the answer to its request.
LEMMA DeliveryStepKeeps ==
    ASSUME PushInv, NEW s, DeliveryStep(s)
    PROVE  Keeps
<1>0. /\ s \in Deliveries /\ dispatcher.pc = "parked" /\ delivery[s].pc # "sending"
      /\ delivery[s] \in Delivery /\ NoDeadline \in Nat \cup {NoDeadline}
  BY DEF DeliveryStep, Choose, NoEndpoint, TooOld, Send, Wait, LookAgain, GiveBack, Retry, Polled,
         PushInv, ShapeOK
<1>1. CASE Choose(s)
  <2>1. CASE "cancel" \in stops
    BY <1>0, <1>1, <2>1, ReturnKeeps DEF Choose
  <2>2. CASE "cancel" \notin stops
    <3>1. PICK d : d = [delivery[s] EXCEPT !.pc = "load"]
      OBVIOUS
    <3>2. d \in Delivery /\ d.pc # "sending" /\ d.key = delivery[s].key
      BY <1>0, <3>1 DEF Delivery
    <3>3. delivery' = [delivery EXCEPT ![s] = d]
          /\ UNCHANGED <<vars, controlVars, slot, dispatcher, cursor>>
      BY <1>1, <2>2, <3>1 DEF Choose
    <3> QED
      BY <1>0, <3>2, <3>3, GoesOnKeeps
  <2> QED
    BY <2>1, <2>2
<1>2. CASE NoEndpoint(s) \/ TooOld(s) \/ GiveBack(s)
  BY <1>0, <1>2, ReturnKeeps DEF NoEndpoint, TooOld, GiveBack
<1>3. CASE Send(s)
  <2>1. PICK d \in Delivery : MovesTo(s, d) /\ d.key = delivery[s].key /\ d.pc = "sending"
    BY <1>0, <1>3, SendWire
  <2>2. WireInv' /\ cursor' \in Nat
    BY <1>0, <1>3, SendWire
  <2>3. UNCHANGED <<vars, controlVars, dispatcher>>
    BY <1>3 DEF Send
  <2> QED
    BY <1>0, <2>1, <2>2, <2>3, MovesKeeps
<1>4. CASE Wait(s)
  <2>1. PICK until \in Nat \cup {NoDeadline} :
            until = Earlier(FirstReopen, MaxAgeAt(s, targets.opts))
    BY <1>0, WaitType
  <2>2. PICK d : d = [delivery[s] EXCEPT !.pc = "waiting", !.until = until]
    OBVIOUS
  <2>3. d \in Delivery /\ d.pc # "sending" /\ d.key = delivery[s].key
    BY <1>0, <2>2 DEF Delivery
  <2>4. delivery' = [delivery EXCEPT ![s] = d]
        /\ UNCHANGED <<vars, controlVars, slot, dispatcher, cursor>>
    BY <1>4, <2>1, <2>2 DEF Wait
  <2> QED
    BY <1>0, <2>3, <2>4, GoesOnKeeps
<1>5. CASE LookAgain(s)
  <2>1. PICK d : d = [delivery[s] EXCEPT !.pc = "choose", !.until = NoDeadline, !.told = FALSE]
    OBVIOUS
  <2>2. d \in Delivery /\ d.pc # "sending" /\ d.key = delivery[s].key
    BY <1>0, <2>1 DEF Delivery
  <2>3. delivery' = [delivery EXCEPT ![s] = d]
        /\ UNCHANGED <<vars, controlVars, slot, dispatcher, cursor>>
    BY <1>5, <2>1 DEF LookAgain
  <2> QED
    BY <1>0, <2>2, <2>3, GoesOnKeeps
<1>6. CASE Retry(s)
  <2>1. PICK d : d = [delivery[s] EXCEPT !.pc = "choose", !.until = NoDeadline]
    OBVIOUS
  <2>2. d \in Delivery /\ d.pc # "sending" /\ d.key = delivery[s].key
    BY <1>0, <2>1 DEF Delivery
  <2>3. delivery' = [delivery EXCEPT ![s] = d]
        /\ UNCHANGED <<vars, controlVars, slot, dispatcher, cursor>>
    BY <1>6, <2>1 DEF Retry
  <2> QED
    BY <1>0, <2>2, <2>3, GoesOnKeeps
<1> QED
  BY <1>1, <1>2, <1>3, <1>4, <1>5, <1>6 DEF DeliveryStep

-----------------------------------------------------------------------------
(* The answers to requests.                                                *)

\* The request is over and the update with it.
LEMMA SettledKeeps ==
    ASSUME PushInv, NEW s, Polled(s, "sending"), NEW sl, Settles(slot[delivery[s].slot], sl),
           EndSending(s, sl), AckHeld(s), delivery' = Told(Without(s)), dispatcher' = At("top"),
           UNCHANGED <<controlVars, cursor>>
    PROVE  Keeps
<1>0. /\ IInv /\ ShapeOK /\ WireInv /\ targets' = targets
      /\ s \in Deliveries /\ s \in Sending(Deliveries)
  BY DEF PushInv, controlVars, Polled, Sending
<1>1. Leaves(s)
  BY <1>0, LeaveForms
<1>2. QueueDone(s)
  BY <1>0, HeldEnds
<1>3. WireInv'
  BY <1>0, <1>1, OnWireEnds
<1>4. dispatcher' \in Dispatcher /\ dispatcher'.pc = "top"
  BY AtOK
<1> QED
  BY <1>0, <1>1, <1>2, <1>3, <1>4, LeavesKeeps

\* The request is over and the update goes on, as d.
LEMMA SettledGoesOn ==
    ASSUME PushInv, NEW s, Polled(s, "sending"), NEW sl, Settles(slot[delivery[s].slot], sl),
           EndSending(s, sl), UNCHANGED vars, NEW d \in Delivery, d.pc # "sending",
           d.key = delivery[s].key,
           d.pc = "replying" => d.bound = slot[delivery[s].slot].owner,
           delivery' = Told([delivery EXCEPT ![s] = d]),
           dispatcher' = TellDispatcher(dispatcher),
           UNCHANGED <<controlVars, cursor>>
    PROVE  Keeps
<1>0. /\ IInv /\ ShapeOK /\ WireInv /\ targets' = targets /\ cursor' \in Nat
      /\ s \in Deliveries /\ s \in Sending(Deliveries) /\ dispatcher.pc = "parked"
  BY DEF PushInv, controlVars, Polled, Sending, ShapeOK
<1>1. MovesTo(s, d)
  BY <1>0, MoveForms
<1>2. WireInv'
  BY <1>0, <1>1, OnWireEnds
<1> QED
  BY <1>0, <1>1, <1>2, MovesKeeps

\* Every end of a request and of a reply.
LEMMA AnswerKeeps ==
    ASSUME PushInv, NEW s, Answer(s)
    PROVE  Keeps
<1>0. /\ IInv /\ ShapeOK /\ WireInv /\ WireTypeOK /\ now \in 0 .. MaxInstant /\ now \in Nat
  BY BoundAssumption DEF PushInv, IInv, CallTypeOK, WireInv
<1>1. ASSUME Polled(s, "sending")
      PROVE  /\ s \in Deliveries /\ delivery[s] \in Delivery /\ delivery[s].key \in Keys \cup {NoKey}
             /\ s \in Sending(Deliveries) /\ delivery[s].attempt \in Nat
             /\ Settles(slot[delivery[s].slot], OnSuccess(slot[delivery[s].slot]))
             /\ Settles(slot[delivery[s].slot], OnFailure(slot[delivery[s].slot]))
  <2>1. s \in Deliveries /\ s \in Sending(Deliveries) /\ delivery[s] \in Delivery
    BY <1>0, <1>1 DEF Polled, Sending, ShapeOK
  <2>2. slot[delivery[s].slot] \in Slot
    BY <1>0, <2>1, LiveOK
  <2>3. delivery[s].key \in Keys \cup {NoKey} /\ delivery[s].attempt \in Nat
    BY <2>1 DEF Delivery
  <2> QED
    BY <1>0, <2>1, <2>2, <2>3, OutcomesSettle
<1>2. CASE Delivered(s)
  <2>0. Polled(s, "sending") /\ EndSending(s, OnSuccess(slot[delivery[s].slot]))
        /\ UNCHANGED <<controlVars, cursor>>
    BY <1>2 DEF Delivered
  <2>1. CASE AckHeld(s) /\ delivery' = Told(Without(s)) /\ dispatcher' = At("top")
    BY <1>1, <2>0, <2>1, SettledKeeps
  <2>2. CASE /\ delivery' = Told([delivery EXCEPT ![s] =
                    [NewDelivery(@.key) EXCEPT !.pc = "replying", !.bound = ReplyBinding(s)]])
             /\ dispatcher' = TellDispatcher(dispatcher) /\ UNCHANGED vars
    <3>1. slot[delivery[s].slot].owner \in {NoBot, delivery[s].bound}
      BY <1>0, <1>1, <2>0 DEF WireInv, OwnersAgree
    <3>2. PICK bound \in Bots \cup {NoBot} :
              bound = ReplyBinding(s) /\ bound = slot[delivery[s].slot].owner
      <4>1. delivery[s].bound \in Bots \cup {NoBot}
        BY <1>1, <2>0 DEF Delivery
      <4> QED
        BY <3>1, <4>1 DEF ReplyBinding
    <3>3. PICK n : n = NewDelivery(delivery[s].key)
      OBVIOUS
    <3>4. n \in Delivery /\ n.key = delivery[s].key
      BY <1>1, <2>0, <3>3, NewDeliveryOK
    <3>5. PICK d : d = [n EXCEPT !.pc = "replying", !.bound = bound]
      OBVIOUS
    <3>6. d \in Delivery /\ d.pc = "replying" /\ d.key = delivery[s].key /\ d.bound = bound
      BY <3>4, <3>5 DEF Delivery
    <3>7. delivery' = Told([delivery EXCEPT ![s] = d])
      BY <2>2, <3>2, <3>3, <3>5
    <3> QED
      BY <1>1, <2>0, <2>2, <3>2, <3>6, <3>7, SettledGoesOn
  <2> QED
    BY <1>2, <2>1, <2>2 DEF Delivered
<1>3. CASE Replied(s)
  <2>1. s \in Deliveries /\ delivery[s].pc # "sending"
    BY <1>3 DEF Replied, Polled
  <2> QED
    BY <1>3, <2>1, ReturnKeeps DEF Replied
<1>4. CASE Rejected(s)
  BY <1>1, <1>4, SettledKeeps DEF Rejected
<1>5. ASSUME NEW delay \in 0 .. MaxDelay, Failed(s, delay) PROVE Keeps
  <2>0. Polled(s, "sending") /\ EndSending(s, OnFailure(slot[delivery[s].slot]))
        /\ UNCHANGED <<controlVars, cursor>>
    BY <1>5 DEF Failed
  <2>1. CASE AckHeld(s) /\ delivery' = Told(Without(s)) /\ dispatcher' = At("top")
    BY <1>1, <2>0, <2>1, SettledKeeps
  <2>2. CASE /\ delivery' = Told([delivery EXCEPT ![s] =
                    [NewDelivery(delivery[s].key) EXCEPT !.pc = "backoff",
                         !.attempt = delivery[s].attempt, !.until = After(now, delay)]])
             /\ dispatcher' = TellDispatcher(dispatcher) /\ UNCHANGED vars
    <3>1. PICK until \in Nat \cup {NoDeadline} : until = After(now, delay)
      <4>1. delay \in Nat
        BY PushAssumption
      <4> QED
        BY <1>0, <4>1, AfterType
    <3>2. PICK n, a : n = NewDelivery(delivery[s].key) /\ a = delivery[s].attempt
      OBVIOUS
    <3>3. n \in Delivery /\ n.key = delivery[s].key /\ a \in Nat
      BY <1>1, <2>0, <3>2, NewDeliveryOK
    <3>4. PICK d : d = [n EXCEPT !.pc = "backoff", !.attempt = a, !.until = until]
      OBVIOUS
    <3>5. d \in Delivery /\ d.pc = "backoff" /\ d.key = delivery[s].key
      BY <3>3, <3>4 DEF Delivery
    <3>6. delivery' = Told([delivery EXCEPT ![s] = d])
      BY <2>2, <3>1, <3>2, <3>4
    <3> QED
      BY <1>1, <2>0, <2>2, <3>5, <3>6, SettledGoesOn
  <2> QED
    BY <1>5, <2>1, <2>2 DEF Failed
<1> QED
  BY <1>2, <1>3, <1>4, <1>5 DEF Answer

-----------------------------------------------------------------------------
(* The changes of the endpoint set.                                        *)

\* The ids for new slots are free and different from each other.
LEMMA FreeIdsOK ==
    ASSUME NEW n \in Nat, n <= Cardinality(SlotIds \ Live)
    PROVE  /\ FreeIds(n) \in Seq(SlotIds \ Live) /\ Len(FreeIds(n)) = n
           /\ DOMAIN FreeIds(n) = 1 .. n
           /\ \A a, b \in 1 .. n : FreeIds(n)[a] = FreeIds(n)[b] => a = b
<1>0. PICK S : S = SlotIds \ Live
  OBVIOUS
<1>1. S \in SUBSET Nat /\ IsFiniteSet(S) /\ Cardinality(S) \in Nat
  <2>1. S \in SUBSET (1 .. MaxSlots) /\ MaxSlots \in Nat
    BY <1>0, PushAssumption DEF SlotIds
  <2>2. IsFiniteSet(S)
    <3>1. 1 \in Int /\ MaxSlots \in Int
      BY <2>1
    <3>2. IsFiniteSet(1 .. MaxSlots)
      BY <3>1, FS_Interval
    <3> QED
      BY <2>1, <3>2, FS_Subset
  <2>3. S \in SUBSET Nat
    BY <2>1
  <2> QED
    BY <2>2, <2>3, FS_CardinalityType
<1>2. \A k \in 1 .. n : k \in 1 .. Cardinality(S)
  BY <1>0, <1>1
<1>3. \A k \in 1 .. n : Nth(S, k) \in S
  BY <1>1, <1>2, NthMember
<1>4. PICK f : f = FreeIds(n)
  OBVIOUS
<1>5. f = [k \in 1 .. n |-> Nth(S, k)]
  BY <1>0, <1>4 DEF FreeIds
<1>6. f \in Seq(S) /\ Len(f) = n /\ DOMAIN f = 1 .. n /\ \A k \in 1 .. n : f[k] = Nth(S, k)
  <2>1. \A k \in 1 .. n : f[k] = Nth(S, k) /\ f[k] \in S
    BY <1>3, <1>5
  <2>2. f \in [1 .. n -> S]
    BY <1>5, <2>1
  <2> QED
    BY <1>5, <2>1, <2>2
<1>7. \A a, b \in 1 .. n : f[a] = f[b] => a = b
  BY <1>1, <1>2, <1>6, NthDistinct
<1> QED
  BY <1>0, <1>4, <1>6, <1>7

\* Who owns the endpoint at place k of a new set.
NewOwnerAt(new, k) ==
    IF new.runtime # NoBot /\ k = Len(new.slots) THEN new.runtime ELSE NoBot

\* A new set made of slots that are referred to and of fresh ones keeps what
\* is said of the slots, when the owners are right.
LEMMA SetTargetsWire ==
    ASSUME WireInv,
           NEW new \in [slots : Seq(SlotIds), runtime : Bots \cup {NoBot}, opts : Options],
           NEW n \in Nat, NEW fresh \in [1 .. n -> SlotIds \ Live],
           \A a, b \in 1 .. n : fresh[a] = fresh[b] => a = b,
           NEW owners, \A m \in 1 .. n : owners[m] \in Bots \cup {NoBot},
           SetTargets(new, fresh, owners),
           new.runtime # NoBot => new.slots # <<>>,
           \A k \in DOMAIN new.slots :
              \/ \E m \in 1 .. n : fresh[m] = new.slots[k] /\ owners[m] = NewOwnerAt(new, k)
              \/ new.slots[k] \in Live /\ slot[new.slots[k]].owner = NewOwnerAt(new, k)
    PROVE  WireInv'
<1>0. /\ WireTypeOK /\ Live \subseteq SlotIds /\ (\A i \in Live : slot[i] \in Slot)
      /\ \A t \in Sending(Deliveries) : delivery[t].slot \in Live
  BY LiveOK DEF WireInv
<1>1. /\ targets' = new /\ delivery' = delivery /\ Deliveries' = Deliveries
      /\ Sending(Deliveries)' = Sending(Deliveries)
  BY DEF SetTargets, Deliveries, Sending
<1>2. \A i : OnWire(i)' = OnWire(i)
  BY <1>1 DEF OnWire
<1>3. ASSUME NEW i \in Live'
      PROVE  i \in Live \/ \E m \in 1 .. n : fresh[m] = i
  BY <1>1 DEF Live, CurrentSlots
<1>4. Live' \subseteq SlotIds
  BY <1>0, <1>3
<1>5. \A m \in 1 .. n : NewSlot(owners[m], new.opts) \in Slot
  <2>1. new.opts.breaker \in [threshold : Nat, openFor : Nat]
    BY PushAssumption DEF PushOptions
  <2>2. Closed \in Word /\ 0 \in Nat
    BY InstantOK DEF Closed, Word
  <2> QED
    BY <2>1, <2>2 DEF NewSlot, Slot
<1>6. PICK f : f = [i \in SlotIds |->
           IF \E k \in DOMAIN fresh : fresh[k] = i
           THEN NewSlot(owners[CHOOSE k \in DOMAIN fresh : fresh[k] = i], new.opts)
           ELSE IF i \in Live THEN slot[i] ELSE NewSlot(NoBot, new.opts)]
  OBVIOUS
<1>7. slot' = [i \in Live' |-> f[i]]
  BY <1>6 DEF SetTargets, SlotsBecome
<1>8. ASSUME NEW i \in Live', NEW m \in 1 .. n, fresh[m] = i
      PROVE  slot'[i] = NewSlot(owners[m], new.opts)
  <2>1. DOMAIN fresh = 1 .. n
    OBVIOUS
  <2>2. (CHOOSE k \in DOMAIN fresh : fresh[k] = i) = m
    BY <1>8, <2>1
  <2> QED
    BY <1>4, <1>6, <1>7, <1>8, <2>1, <2>2
<1>9. ASSUME NEW i \in Live', i \in Live
      PROVE  slot'[i] = slot[i]
  <2>1. ~\E k \in DOMAIN fresh : fresh[k] = i
    BY <1>9
  <2> QED
    BY <1>4, <1>6, <1>7, <1>9, <2>1
<1>10. \A m \in 1 .. n : /\ NewSlot(owners[m], new.opts).word.state = "Closed"
                         /\ NewSlot(owners[m], new.opts).inFlight = 0
                         /\ NewSlot(owners[m], new.opts).owner = owners[m]
  BY DEF NewSlot, Closed
<1>11. WireTypeOK'
  <2>1. \A i \in Live' : slot'[i] \in Slot
    BY <1>0, <1>3, <1>5, <1>8, <1>9
  <2>2. slot' \in [Live' -> Slot]
    BY <1>7, <2>1
  <2> QED
    BY <1>0, <1>1, <2>2 DEF WireTypeOK
<1>12. InFlightExact'
  <2>1. ASSUME NEW i \in Live' PROVE slot'[i].inFlight = Cardinality(OnWire(i))
    <3>1. CASE i \in Live
      BY <1>9, <3>1 DEF WireInv, InFlightExact
    <3>2. CASE i \notin Live
      <4>1. OnWire(i) = {}
        BY <1>0, <3>2 DEF OnWire
      <4> QED
        BY <1>3, <1>8, <1>10, <3>2, <4>1, FS_EmptySet
    <3> QED
      BY <3>1, <3>2
  <2> QED
    BY <1>2, <2>1 DEF InFlightExact
<1>13. ProbeUnderWay'
  <2>1. ASSUME NEW i \in Live', slot'[i].word.state = "HalfOpen"
        PROVE  i \in Live /\ slot[i].word.state = "HalfOpen"
    BY <1>3, <1>8, <1>9, <1>10, <2>1
  <2> QED
    BY <1>1, <2>1 DEF WireInv, ProbeUnderWay
<1>14. OwnersAgree'
  <2>1. ASSUME NEW k \in DOMAIN new.slots
        PROVE  slot'[new.slots[k]].owner = NewOwnerAt(new, k)
    <3>1. new.slots[k] \in Live'
      BY <1>1 DEF Live, CurrentSlots
    <3> QED
      BY <1>8, <1>9, <1>10, <3>1
  <2>2. ASSUME NEW t \in Sending(Deliveries)
        PROVE  slot'[delivery[t].slot].owner \in {NoBot, delivery[t].bound}
    <3>1. delivery[t].slot \in Live' /\ delivery[t].slot \in Live
      BY <1>0, <1>1 DEF Live
    <3> QED
      BY <1>9, <3>1 DEF WireInv, OwnersAgree
  <2> QED
    BY <1>1, <2>1, <2>2 DEF OwnersAgree, OwnerAt, NewOwnerAt
<1> QED
  BY <1>11, <1>12, <1>13, <1>14 DEF WireInv

\* The wake-up that a change of targets owes covers whatever it changed.
LEMMA SetTargetsKeeps ==
    ASSUME PushInv, NEW new, NEW fresh, NEW owners, SetTargets(new, fresh, owners), WireInv'
    PROVE  Keeps
<1>0. IInv /\ ShapeOK /\ HeldInv
  BY DEF PushInv
<1>1. /\ UNCHANGED <<vars, delivery, dispatcher, cursor, received>> /\ owedWakes' = owedWakes + 1
      /\ Deliveries' = Deliveries
  BY DEF SetTargets, OweWake, Deliveries
<1>2. /\ IInv' /\ owed' = owed /\ Candidates' = Candidates /\ cfg' = cfg
      /\ Seqs' = Seqs /\ entries' = entries /\ leases' = leases /\ nextSeq' = nextSeq
  BY <1>0, <1>1, QueueSame
<1>3. ShapeOK' /\ owedWakes' > 0
  BY <1>0, <1>1, <1>2 DEF ShapeOK
<1>4. HeldInv'
  BY <1>0, <1>1, <1>2 DEF HeldInv, LeasesDelivered
<1>5. AwakeInv'
  <2>1. owedWakes' # 0
    BY <1>0, <1>1 DEF ShapeOK
  <2> QED
    BY <1>3, <2>1 DEF AwakeInv, DispatcherAwake, RoomKnown
<1>6. OldestFirst => OldestFirst'
  BY <1>1, <1>2 DEF OldestFirst, OfKey
<1>7. RepliesBound
  BY <1>1 DEF RepliesBound, Sending, Deliveries
<1> QED
  BY <1>2, <1>3, <1>4, <1>5, <1>6, <1>7 DEF Keeps, PushInv


\* The places of two sequences joined.
LEMMA Joined ==
    ASSUME NEW S, NEW a \in Seq(S), NEW b \in Seq(S), NEW c, c = a \o b
    PROVE  /\ c \in Seq(S) /\ Len(c) = Len(a) + Len(b)
           /\ \A k \in 1 .. Len(c) : c[k] = IF k <= Len(a) THEN a[k] ELSE b[k - Len(a)]
  OBVIOUS

\* set_endpoints puts fresh slots before the runtime endpoint's, which stays
\* or is made anew for its bot.
LEMMA SetEndpointsKeeps ==
    ASSUME PushInv, NEW n \in 0 .. MaxEndpoints, NEW opts \in Options, SetEndpoints(n, opts)
    PROVE  Keeps
<1> DEFINE runtime == targets.runtime
           same == targets.opts.breaker = opts.breaker
           anew == IF runtime = NoBot \/ same THEN n ELSE n + 1
           fresh == FreeIds(anew)
           last == targets.slots[Len(targets.slots)]
           kept == IF runtime # NoBot /\ same THEN <<last>> ELSE <<>>
           owners == [k \in 1 .. anew |-> IF k > n THEN runtime ELSE NoBot]
           new == [slots |-> fresh \o kept, runtime |-> runtime, opts |-> opts]
<1>0. /\ WireInv /\ WireTypeOK /\ OwnersAgree /\ Live \subseteq SlotIds /\ CurrentSlots \subseteq Live
      /\ targets.slots \in Seq(SlotIds) /\ DOMAIN targets.slots = 1 .. Len(targets.slots)
      /\ runtime \in Bots \cup {NoBot}
  BY LiveOK DEF PushInv, WireInv
<1>1. n \in Nat /\ anew \in Nat /\ (runtime = NoBot \/ same => anew = n)
      /\ (runtime # NoBot /\ ~same => anew = n + 1)
  BY PushAssumption
<1>2. Cardinality(SlotIds \ Live) >= anew /\ SetTargets(new, fresh, owners)
  BY DEF SetEndpoints
<1> HIDE DEF anew, owners, new, kept, fresh
<1>3. /\ fresh \in Seq(SlotIds \ Live) /\ Len(fresh) = anew /\ DOMAIN fresh = 1 .. anew
      /\ \A a, b \in 1 .. anew : fresh[a] = fresh[b] => a = b
  <2>1. anew <= Cardinality(SlotIds \ Live)
    <3>1. SlotIds \ Live \in SUBSET (1 .. MaxSlots) /\ 1 \in Int /\ MaxSlots \in Int
      BY PushAssumption DEF SlotIds
    <3>2. Cardinality(SlotIds \ Live) \in Nat
      BY <3>1, FS_Interval, FS_Subset, FS_CardinalityType
    <3> QED
      BY <1>1, <1>2, <3>2
  <2> QED
    BY <1>1, <2>1, FreeIdsOK DEF fresh
<1>4. runtime # NoBot => /\ Len(targets.slots) \in DOMAIN targets.slots
                         /\ last \in Live /\ last \in SlotIds
                         /\ slot[last].owner = runtime
  <2>1. SUFFICES ASSUME runtime # NoBot
                 PROVE  /\ Len(targets.slots) \in DOMAIN targets.slots
                        /\ last \in Live /\ last \in SlotIds
                        /\ slot[last].owner = runtime
    OBVIOUS
  <2>2. Len(targets.slots) \in Nat /\ Len(targets.slots) # 0
    BY <1>0, <2>1, EmptySeq DEF OwnersAgree
  <2>3. Len(targets.slots) \in DOMAIN targets.slots
    BY <1>0, <2>2
  <2>4. last \in CurrentSlots
    BY <2>3 DEF CurrentSlots
  <2> QED
    BY <1>0, <2>1, <2>3, <2>4 DEF OwnersAgree, OwnerAt
<1>5. /\ kept \in Seq(SlotIds)
      /\ runtime # NoBot /\ same => kept = <<last>> /\ Len(kept) = 1 /\ kept[1] = last
      /\ ~(runtime # NoBot /\ same) => kept = <<>> /\ Len(kept) = 0
  BY <1>4 DEF kept
<1>6. PICK slots : slots = fresh \o kept
  OBVIOUS
<1>7. /\ slots \in Seq(SlotIds) /\ Len(slots) = anew + Len(kept)
      /\ \A k \in 1 .. Len(slots) :
            slots[k] = IF k <= anew THEN fresh[k] ELSE kept[k - anew]
  <2>1. fresh \in Seq(SlotIds)
    BY <1>3
  <2> QED
    <3>1. /\ slots \in Seq(SlotIds) /\ Len(slots) = Len(fresh) + Len(kept)
          /\ \A k \in 1 .. Len(slots) :
                slots[k] = IF k <= Len(fresh) THEN fresh[k] ELSE kept[k - Len(fresh)]
      <4>1. kept \in Seq(SlotIds)
        BY <1>5
      <4> QED
        BY <1>6, <2>1, <4>1, Joined
    <3>2. Len(fresh) = anew
      BY <1>3
    <3> QED
      BY <3>1, <3>2
<1>8. new = [slots |-> slots, runtime |-> runtime, opts |-> opts]
  BY <1>6 DEF new
<1>9. /\ new \in [slots : Seq(SlotIds), runtime : Bots \cup {NoBot}, opts : Options]
      /\ new.slots = slots /\ new.runtime = runtime
  BY <1>0, <1>7, <1>8
<1>10. fresh \in [1 .. anew -> SlotIds \ Live]
  BY <1>3
<1>11. /\ \A m \in 1 .. anew : owners[m] = IF m > n THEN runtime ELSE NoBot
       /\ \A m \in 1 .. anew : owners[m] \in Bots \cup {NoBot}
  BY <1>0 DEF owners
<1>12. new.runtime # NoBot => new.slots # <<>>
  <2>1. runtime # NoBot => Len(slots) # 0
    BY <1>1, <1>5, <1>7
  <2> QED
    BY <1>9, <2>1
<1>13. ASSUME NEW k \in DOMAIN new.slots
       PROVE  \/ \E m \in 1 .. anew : fresh[m] = new.slots[k] /\ owners[m] = NewOwnerAt(new, k)
              \/ new.slots[k] \in Live /\ slot[new.slots[k]].owner = NewOwnerAt(new, k)
  <2>0. k \in 1 .. Len(slots) /\ k \in Nat /\ Len(slots) \in Nat
    BY <1>7, <1>9
  <2>1. NewOwnerAt(new, k) = IF runtime # NoBot /\ k = Len(slots) THEN runtime ELSE NoBot
    BY <1>9 DEF NewOwnerAt
  <2>2. CASE k <= anew
    <3>1. k \in 1 .. anew /\ fresh[k] = slots[k]
      BY <1>1, <1>7, <2>0, <2>2
    <3>2. owners[k] = NewOwnerAt(new, k)
      <4>1. CASE runtime = NoBot
        BY <1>11, <2>1, <3>1, <4>1
      <4>2. CASE runtime # NoBot /\ same
        BY <1>1, <1>5, <1>7, <1>11, <2>0, <2>1, <3>1, <4>2
      <4>3. CASE runtime # NoBot /\ ~same
        BY <1>1, <1>5, <1>7, <1>11, <2>0, <2>1, <3>1, <4>3
      <4> QED
        BY <4>1, <4>2, <4>3
    <3> QED
      BY <1>9, <3>1, <3>2
  <2>3. CASE ~(k <= anew)
    <3>1. runtime # NoBot /\ same /\ k = anew + 1 /\ k = Len(slots)
      BY <1>1, <1>5, <1>7, <2>0, <2>3
    <3>2. slots[k] = last
      BY <1>1, <1>5, <1>7, <2>0, <2>3, <3>1
    <3> QED
      BY <1>4, <1>9, <2>1, <3>1, <3>2
  <2> QED
    BY <2>2, <2>3
<1>14. WireInv'
  BY <1>0, <1>1, <1>2, <1>3, <1>9, <1>10, <1>11, <1>12, <1>13, SetTargetsWire
<1> QED
  BY <1>2, <1>14, SetTargetsKeeps

\* set_options keeps every slot in its place.
LEMMA SetOptionsKeeps ==
    ASSUME PushInv, NEW opts \in Options, SetOptions(opts)
    PROVE  Keeps
<1>0. /\ WireInv /\ OwnersAgree /\ CurrentSlots \subseteq Live
      /\ targets \in [slots : Seq(SlotIds), runtime : Bots \cup {NoBot}, opts : Options]
  BY LiveOK DEF PushInv, WireInv, WireTypeOK
<1>1. PICK new : new = [targets EXCEPT !.opts = opts]
  OBVIOUS
<1>2. /\ new \in [slots : Seq(SlotIds), runtime : Bots \cup {NoBot}, opts : Options]
      /\ new.slots = targets.slots /\ new.runtime = targets.runtime
  BY <1>0, <1>1
<1>3. PICK none : none = << >>
  OBVIOUS
<1>4. 0 \in Nat /\ none \in [1 .. 0 -> SlotIds \ Live] /\ 1 .. 0 = {}
  BY <1>3
<1>5. SetTargets(new, none, none)
  BY <1>1, <1>3 DEF SetOptions
<1>6. /\ \A a, b \in 1 .. 0 : none[a] = none[b] => a = b
      /\ \A m \in 1 .. 0 : none[m] \in Bots \cup {NoBot}
  BY <1>4
<1>7. ASSUME NEW k \in DOMAIN new.slots
      PROVE  new.slots[k] \in Live /\ slot[new.slots[k]].owner = NewOwnerAt(new, k)
  <2>1. k \in DOMAIN targets.slots /\ targets.slots[k] \in Live
    BY <1>0, <1>2 DEF CurrentSlots
  <2>2. OwnerAt(k) = NewOwnerAt(new, k)
    BY <1>2 DEF OwnerAt, NewOwnerAt
  <2> QED
    BY <1>0, <1>2, <2>1, <2>2 DEF OwnersAgree
<1>8. new.runtime # NoBot => new.slots # <<>>
  BY <1>0, <1>2 DEF OwnersAgree
<1>9. WireInv'
  BY <1>0, <1>2, <1>4, <1>5, <1>6, <1>7, <1>8, SetTargetsWire
<1> QED
  BY <1>5, <1>9, SetTargetsKeeps

\* set_runtime_endpoint puts the new slot, if there is one, behind the
\* configured ones.
LEMMA SetRuntimeKeeps ==
    ASSUME PushInv, NEW bot \in Bots \cup {NoBot}, SetRuntimeEndpoint(bot)
    PROVE  Keeps
<1> DEFINE anew == IF bot = NoBot THEN 0 ELSE 1
           fresh == FreeIds(anew)
           owners == <<bot>>
           new == [targets EXCEPT !.slots = Configured \o fresh, !.runtime = bot]
<1>0. /\ WireInv /\ WireTypeOK /\ OwnersAgree /\ Live \subseteq SlotIds /\ CurrentSlots \subseteq Live
      /\ targets.slots \in Seq(SlotIds) /\ DOMAIN targets.slots = 1 .. Len(targets.slots)
      /\ targets \in [slots : Seq(SlotIds), runtime : Bots \cup {NoBot}, opts : Options]
  BY LiveOK DEF PushInv, WireInv, WireTypeOK
<1>1. anew \in Nat /\ (bot = NoBot => anew = 0) /\ (bot # NoBot => anew = 1)
  OBVIOUS
<1>2. (bot # NoBot => SlotIds \ Live # {}) /\ SetTargets(new, fresh, owners)
  BY DEF SetRuntimeEndpoint
<1> HIDE DEF anew, new, fresh
<1>3. /\ fresh \in Seq(SlotIds \ Live) /\ Len(fresh) = anew /\ DOMAIN fresh = 1 .. anew
      /\ \A a, b \in 1 .. anew : fresh[a] = fresh[b] => a = b
  <2>1. anew <= Cardinality(SlotIds \ Live)
    <3>1. PICK S : S = SlotIds \ Live
      OBVIOUS
    <3>2. S \in SUBSET (1 .. MaxSlots) /\ 1 \in Int /\ MaxSlots \in Int
      BY <3>1, PushAssumption DEF SlotIds
    <3>3. IsFiniteSet(S) /\ Cardinality(S) \in Nat
      BY <3>2, FS_Interval, FS_Subset, FS_CardinalityType
    <3>4. S # {} => Cardinality(S) # 0
      BY <3>3, FS_EmptySet
    <3> QED
      BY <1>1, <1>2, <3>1, <3>3, <3>4
  <2> QED
    BY <1>1, <2>1, FreeIdsOK DEF fresh
<1>4. PICK last \in Nat : /\ last <= Len(targets.slots)
                          /\ Configured = SubSeq(targets.slots, 1, last)
                          /\ targets.runtime # NoBot => last < Len(targets.slots)
  <2>1. Len(targets.slots) \in Nat /\ (targets.runtime # NoBot => Len(targets.slots) # 0)
    BY <1>0, EmptySeq DEF OwnersAgree
  <2>2. PICK last : last = Len(targets.slots) - (IF targets.runtime = NoBot THEN 0 ELSE 1)
    OBVIOUS
  <2>3. /\ last \in Nat /\ last <= Len(targets.slots)
        /\ targets.runtime # NoBot => last < Len(targets.slots)
    <3>1. PICK len \in Nat : len = Len(targets.slots)
      BY <2>1
    <3>2. CASE targets.runtime = NoBot
      <4>1. last = len
        BY <2>2, <3>1, <3>2
      <4> QED
        BY <3>1, <3>2, <4>1
    <3>3. CASE targets.runtime # NoBot
      <4>1. last = len - 1 /\ len # 0
        BY <2>1, <2>2, <3>1, <3>3
      <4> QED
        BY <3>1, <4>1
    <3> QED
      BY <3>2, <3>3
  <2>4. Configured = SubSeq(targets.slots, 1, last)
    BY <2>2 DEF Configured
  <2> QED
    BY <2>3, <2>4
<1>5. PICK base : base = Configured
  OBVIOUS
<1>6. /\ base \in Seq(SlotIds) /\ Len(base) = last
      /\ \A k \in 1 .. last : k \in DOMAIN targets.slots /\ base[k] = targets.slots[k]
  <2>0. Len(targets.slots) \in Nat
    BY <1>0
  <2>1. \A k \in 1 .. last : targets.slots[k] \in SlotIds /\ k \in DOMAIN targets.slots
    BY <1>0, <1>4, <2>0
  <2> QED
    BY <1>0, <1>4, <1>5, <2>1
<1>7. PICK slots : slots = base \o fresh
  OBVIOUS
<1>8. /\ slots \in Seq(SlotIds) /\ Len(slots) = last + anew
      /\ \A k \in 1 .. Len(slots) :
            slots[k] = IF k <= last THEN base[k] ELSE fresh[k - last]
  <2>1. fresh \in Seq(SlotIds)
    BY <1>3
  <2> QED
    <3>1. /\ slots \in Seq(SlotIds) /\ Len(slots) = Len(base) + Len(fresh)
          /\ \A k \in 1 .. Len(slots) :
                slots[k] = IF k <= Len(base) THEN base[k] ELSE fresh[k - Len(base)]
      <4>1. base \in Seq(SlotIds)
        BY <1>6
      <4> QED
        BY <1>7, <2>1, <4>1, Joined
    <3>2. Len(fresh) = anew /\ Len(base) = last
      BY <1>3, <1>6
    <3> QED
      BY <3>1, <3>2
<1>9. new = [targets EXCEPT !.slots = slots, !.runtime = bot]
  BY <1>5, <1>7 DEF new
<1>10. /\ new \in [slots : Seq(SlotIds), runtime : Bots \cup {NoBot}, opts : Options]
       /\ new.slots = slots /\ new.runtime = bot
  BY <1>0, <1>8, <1>9
<1>11. fresh \in [1 .. anew -> SlotIds \ Live]
  BY <1>3
<1>12. \A m \in 1 .. anew : m = 1 /\ owners[m] = bot
  BY <1>1
<1>13. new.runtime # NoBot => new.slots # <<>>
  <2>1. bot # NoBot => Len(slots) # 0
    BY <1>1, <1>4, <1>8
  <2> QED
    BY <1>10, <2>1
<1>14. ASSUME NEW k \in DOMAIN new.slots
       PROVE  \/ \E m \in 1 .. anew : fresh[m] = new.slots[k] /\ owners[m] = NewOwnerAt(new, k)
              \/ new.slots[k] \in Live /\ slot[new.slots[k]].owner = NewOwnerAt(new, k)
  <2>0. k \in 1 .. Len(slots) /\ k \in Nat /\ Len(slots) \in Nat
    BY <1>8, <1>10
  <2>1. NewOwnerAt(new, k) = IF bot # NoBot /\ k = Len(slots) THEN bot ELSE NoBot
    BY <1>10 DEF NewOwnerAt
  <2>2. CASE k <= last
    <3>1. k \in DOMAIN targets.slots /\ slots[k] = targets.slots[k]
      BY <1>4, <1>6, <1>8, <2>0, <2>2
    <3>2. OwnerAt(k) = NoBot
      BY <1>0, <1>4, <2>2, <3>1 DEF OwnerAt
    <3>3. NewOwnerAt(new, k) = NoBot
      BY <1>1, <1>4, <1>8, <2>0, <2>1, <2>2
    <3>4. slots[k] \in Live
      BY <1>0, <3>1 DEF CurrentSlots
    <3> QED
      BY <1>0, <1>10, <3>1, <3>2, <3>3, <3>4 DEF OwnersAgree
  <2>3. CASE ~(k <= last)
    <3>1. bot # NoBot /\ k = last + 1 /\ k = Len(slots) /\ k - last = 1 /\ 1 \in 1 .. anew
      BY <1>1, <1>4, <1>8, <2>0, <2>3
    <3>2. slots[k] = fresh[1]
      BY <1>8, <2>0, <2>3, <3>1
    <3> QED
      BY <1>10, <1>12, <2>1, <3>1, <3>2
  <2> QED
    BY <2>2, <2>3
<1>15. WireInv'
  <2>1. \A m \in 1 .. anew : owners[m] \in Bots \cup {NoBot}
    BY <1>12
  <2> QED
    BY <1>0, <1>1, <1>2, <1>3, <1>10, <1>11, <1>13, <1>14, <2>1, SetTargetsWire
<1> QED
  BY <1>2, <1>15, SetTargetsKeeps


-----------------------------------------------------------------------------
(* What other threads do: the queue's calls, the wake-ups, the flags.      *)

\* A step of the queue that is none of the dispatcher's calls: it may add one
\* update, take updates away, leased or not, and owe wake-ups.
Aside ==
    /\ IInv'
    /\ leases'[PushHolder] \subseteq leases[PushHolder]
    /\ \A s \in leases[PushHolder] : s \in leases'[PushHolder] \/ s \notin Seqs'
    /\ \A t \in Seqs' : t = nextSeq \/ (t \in Seqs /\ entries'[t].key = entries[t].key)
    /\ nextSeq' = nextSeq \/ nextSeq' = nextSeq + 1
    /\ owed' >= owed
    /\ Candidates = {} /\ Candidates' # {} => owed' > owed

\* A call that leaves Inner alone is such a step.
LEMMA SameAside ==
    ASSUME IInv, IInv', UNCHANGED <<innerVars, nextSeq>>, owed' >= owed,
           Candidates = {} /\ Candidates' # {} => owed' > owed
    PROVE  Aside
  BY DEF Aside, innerVars, Seqs

\* So is one that removes updates nobody leased.
LEMMA RemoveAside ==
    ASSUME IInv, IInv', NEW S \in SUBSET available, Remove(S),
           UNCHANGED <<nextSeq, owed>>, Candidates = {} => Candidates' = {}
    PROVE  Aside
<1>1. /\ Seqs' = Seqs \ S
      /\ \A s \in Seqs' : entries'[s] = entries[s]
  BY RemoveKeeps
<1>2. leases'[PushHolder] = leases[PushHolder] \ S
  BY HolderOK DEF Remove, EndLease
<1>3. owed \in Nat
  BY BoundAssumption DEF IInv, CallTypeOK
<1> QED
  BY <1>1, <1>2, <1>3 DEF Aside

\* The steps of an admission are such steps.
LEMMA AdmissionAside ==
    ASSUME IInv, NEW p \in Producers, ProducerStep(p)
    PROVE  Aside
<1>0. IInv' /\ owed \in Nat
  BY ProducerIInv, BoundAssumption DEF IInv, CallTypeOK
<1>1. [Next]_vars
  BY DEF Next
<1>2. Candidates = {} /\ Candidates' # {} => owed' > owed
  BY <1>0, <1>1, WakeStep
<1>3. ASSUME NEW size \in Sizes, TryReserve(p, size) PROVE Aside
  <2>1. UNCHANGED <<innerVars, nextSeq, owed>>
    BY <1>3 DEF TryReserve
  <2> QED
    BY <1>0, <1>2, <2>1, SameAside
<1>4. CASE Grant(p) \/ Refuse(p) \/ Cancel(p) \/ FinishCancel(p)
  <2>1. UNCHANGED <<innerVars, nextSeq, owed>>
    BY <1>4 DEF Grant, Refuse, Cancel, FinishCancel
  <2> QED
    BY <1>0, <1>2, <2>1, SameAside
<1>5. CASE Evict(p)
  <2>1. PICK S \in SUBSET available : Remove(S)
    BY <1>5 DEF Evict
  <2>2. UNCHANGED <<nextSeq, owed>>
    BY <1>5 DEF Evict
  <2>3. Candidates = {} => Candidates' = {}
    BY <1>0, <1>2, <2>2
  <2> QED
    BY <1>0, <2>1, <2>2, <2>3, RemoveAside
<1>6. ASSUME NEW key \in Keys \cup {NoKey}, NEW ackId \in AckIds, Commit(p, key, ackId)
      PROVE  Aside
  <2>1. leases' = leases /\ nextSeq' = nextSeq + 1 /\ owed' = owed + 1
    BY <1>6 DEF Commit, Owe
  <2>2. Seqs' = Seqs \cup {nextSeq} /\ \A t \in Seqs : t = nextSeq \/ entries'[t] = entries[t]
    BY <1>6 DEF Commit, Seqs
  <2> QED
    BY <1>0, <1>2, <2>1, <2>2 DEF Aside
<1> QED
  BY <1>3, <1>4, <1>5, <1>6 DEF ProducerStep

\* Purges, drains, set_config and the clock are such steps.
LEMMA OperatorAside ==
    ASSUME IInv, Operator \/ Clock
    PROVE  Aside
<1>1. [Next]_vars
  BY DEF Operator, Clock, Next
<1>0. IInv' /\ owed \in Nat
  BY <1>1, NextIInv, BoundAssumption DEF IInv, CallTypeOK
<1>2. Candidates = {} /\ Candidates' # {} => owed' > owed
  BY <1>0, <1>1, WakeStep
<1>3. CASE Purge
  <2>1. /\ leases' = leases /\ nextSeq' = nextSeq /\ owed' = owed
        /\ Seqs' \subseteq Seqs /\ \A t \in Seqs' : entries'[t] = entries[t]
    BY <1>3 DEF Purge, Seqs
  <2> QED
    BY <1>0, <1>2, <2>1 DEF Aside
<1>4. ASSUME NEW S \in SUBSET available, PurgeWhere(S) PROVE Aside
  <2>1. Remove(S) /\ UNCHANGED <<nextSeq, owed>>
    BY <1>4 DEF PurgeWhere
  <2>2. Candidates = {} => Candidates' = {}
    BY <1>0, <1>2, <2>1
  <2> QED
    BY <1>0, <2>1, <2>2, RemoveAside
<1>5. CASE DrainAll
  <2>1. leases'[PushHolder] = {} /\ Seqs' = {} /\ nextSeq' = nextSeq /\ owed' = owed
    BY <1>5, HolderOK DEF DrainAll, Seqs
  <2> QED
    BY <1>0, <1>2, <2>1 DEF Aside
<1>6. ASSUME NEW c \in Configs, SetConfig(c) PROVE Aside
  <2>1. UNCHANGED <<innerVars, nextSeq>> /\ owed' = owed + 1
    BY <1>6 DEF SetConfig, Owe
  <2> QED
    BY <1>0, <1>2, <2>1, SameAside
<1>7. CASE Tick
  <2>1. UNCHANGED <<innerVars, nextSeq, owed>>
    BY <1>7 DEF Tick
  <2> QED
    BY <1>0, <1>2, <2>1, SameAside
<1> QED
  BY <1>3, <1>4, <1>5, <1>6, <1>7 DEF Operator, Clock

\* The consumer keeps its invariant when the queue is called by others.
LEMMA AsideKeeps ==
    ASSUME PushInv, Aside, received' \in [0 .. MaxSeq - 1 -> Nat],
           UNCHANGED <<taskVars, targets, paused, owedWakes, stops>>
    PROVE  Keeps
<1>0. IInv /\ ShapeOK /\ HeldInv /\ WireInv /\ AwakeInv /\ nextSeq \in Nat /\ owed \in Nat
  BY BoundAssumption DEF PushInv, IInv, CallTypeOK
<1>1. /\ delivery' = delivery /\ Deliveries' = Deliveries /\ dispatcher' = dispatcher
      /\ slot' = slot /\ cursor' = cursor
  BY DEF taskVars, Deliveries
<1>2. /\ IInv' /\ leases'[PushHolder] \subseteq leases[PushHolder]
      /\ (\A s \in leases[PushHolder] : s \in leases'[PushHolder] \/ s \notin Seqs')
      /\ (\A t \in Seqs' : t = nextSeq \/ (t \in Seqs /\ entries'[t].key = entries[t].key))
      /\ (nextSeq' = nextSeq \/ nextSeq' = nextSeq + 1)
      /\ owed' >= owed /\ (Candidates = {} /\ Candidates' # {} => owed' > owed)
  BY DEF Aside
<1>3. \A s \in Deliveries : s \in Nat /\ s < nextSeq
  BY <1>0 DEF ShapeOK
<1>4. ShapeOK'
  <2>1. Deliveries' \subseteq 0 .. nextSeq' - 1
    BY <1>0, <1>1, <1>2, <1>3
  <2> QED
    BY <1>0, <1>1, <2>1 DEF ShapeOK
<1>5. HeldInv'
  <2>1. LeasesDelivered'
    BY <1>0, <1>1, <1>2 DEF HeldInv, LeasesDelivered
  <2>2. ASSUME NEW s \in Deliveries PROVE s \in leases'[PushHolder] \/ s \notin Seqs'
    <3>1. s # nextSeq
      BY <1>0, <1>3
    <3> QED
      BY <1>0, <1>2, <3>1 DEF HeldInv
  <2> QED
    BY <1>1, <2>1, <2>2 DEF HeldInv
<1>6. WireInv'
  <2>1. WireQuiet
    BY <1>1 DEF WireQuiet, Sending
  <2> QED
    BY <1>0, <2>1, WireQuietKeeps
<1>7. AwakeInv'
  <2>0. owed' \in Nat
    BY <1>2, BoundAssumption DEF IInv, CallTypeOK
  <2>1. DispatcherAwake'
    <3>1. CASE Candidates = {} /\ Candidates' # {}
      BY <1>0, <1>2, <2>0, <3>1 DEF DispatcherAwake
    <3>2. CASE Candidates # {} \/ Candidates' = {}
      BY <1>0, <1>1, <1>2, <2>0, <3>2 DEF AwakeInv, DispatcherAwake
    <3> QED
      BY <3>1, <3>2
  <2>2. RoomKnown'
    BY <1>0, <1>1 DEF AwakeInv, RoomKnown
  <2> QED
    BY <2>1, <2>2 DEF AwakeInv
<1>8. ASSUME OldestFirst, cfg'.ordering = cfg.ordering PROVE OldestFirst'
  <2>1. SUFFICES ASSUME cfg.ordering = "PerKey",
                        NEW s \in Deliveries, delivery[s].key # NoKey,
                        NEW t \in Seqs', entries'[t].key = delivery[s].key
                 PROVE  s <= t
    BY <1>1, <1>8 DEF OldestFirst, OfKey
  <2>2. CASE t = nextSeq
    BY <1>0, <1>3, <2>2
  <2>3. CASE t \in Seqs /\ entries'[t].key = entries[t].key
    BY <1>8, <2>1, <2>3 DEF OldestFirst, OfKey
  <2> QED
    BY <1>2, <2>2, <2>3
<1>9. RepliesBound
  BY <1>1 DEF RepliesBound, Sending, Deliveries
<1> QED
  BY <1>2, <1>4, <1>5, <1>6, <1>7, <1>8, <1>9 DEF Keeps, PushInv

\* Admissions, operators and the clock keep the invariant.
LEMMA QueueKeeps ==
    ASSUME PushInv, (\E p \in Producers : Admission(p)) \/ Operator \/ Clock
    PROVE  Keeps
<1>0. IInv /\ received \in [0 .. MaxSeq - 1 -> Nat] /\ now \in Nat /\ MaxLag \in Nat
  BY BoundAssumption, PushAssumption DEF PushInv, ShapeOK, IInv, CallTypeOK
<1>1. ASSUME NEW p \in Producers, Admission(p) PROVE Keeps
  <2>1. Aside
    BY <1>0, <1>1, AdmissionAside DEF Admission
  <2>2. received' \in [0 .. MaxSeq - 1 -> Nat]
    <3>1. ASSUME NEW at \in (now - MaxLag) .. now, at >= 0,
                 received' = [received EXCEPT ![nextSeq] = at]
          PROVE  received' \in [0 .. MaxSeq - 1 -> Nat]
      <4>1. at \in Nat
        BY <1>0, <3>1
      <4> QED
        BY <1>0, <3>1, <4>1
    <3> QED
      BY <1>0, <1>1, <3>1 DEF Admission
  <2> QED
    BY <1>1, <2>1, <2>2, AsideKeeps DEF Admission
<1>2. CASE Operator \/ Clock
  <2>1. Aside
    BY <1>0, <1>2, OperatorAside
  <2>2. UNCHANGED <<taskVars, controlVars>>
    BY <1>2 DEF Operator, Clock, pushVars
  <2>3. received' = received /\ UNCHANGED <<taskVars, targets, paused, owedWakes, stops>>
    BY <2>2 DEF controlVars
  <2> QED
    BY <1>0, <2>1, <2>3, AsideKeeps
<1> QED
  BY <1>1, <1>2

\* A flag that keeps the dispatcher from leasing is set, or the wake-up is
\* owed that follows when it is cleared.
LEMMA FlagKeeps ==
    ASSUME PushInv, UNCHANGED <<vars, taskVars, targets, received>>,
           \/ paused' = TRUE /\ owedWakes' = owedWakes /\ stops' = stops
           \/ owedWakes' = owedWakes + 1
           \/ paused' = paused /\ owedWakes' = owedWakes /\ stops \subseteq stops'
    PROVE  Keeps
<1>0. IInv /\ ShapeOK /\ HeldInv /\ WireInv /\ AwakeInv /\ owedWakes \in Nat
  BY DEF PushInv, ShapeOK
<1>1. /\ delivery' = delivery /\ Deliveries' = Deliveries /\ dispatcher' = dispatcher
      /\ slot' = slot /\ cursor' = cursor /\ targets' = targets /\ received' = received
  BY DEF taskVars, Deliveries
<1>2. /\ IInv' /\ owed' = owed /\ Candidates' = Candidates /\ cfg' = cfg
      /\ Seqs' = Seqs /\ entries' = entries /\ leases' = leases /\ nextSeq' = nextSeq
  BY <1>0, QueueSame
<1>3. ShapeOK'
  BY <1>0, <1>1, <1>2 DEF ShapeOK
<1>4. HeldInv'
  BY <1>0, <1>1, <1>2 DEF HeldInv, LeasesDelivered
<1>5. WireInv'
  <2>1. WireQuiet
    BY <1>1 DEF WireQuiet, Sending
  <2> QED
    BY <1>0, <2>1, WireQuietKeeps
<1>6. AwakeInv'
  <2>1. CASE owedWakes' = owedWakes + 1
    <3>1. owedWakes' > 0 /\ owedWakes' # 0
      BY <1>0, <2>1
    <3> QED
      BY <3>1 DEF AwakeInv, DispatcherAwake, RoomKnown
  <2>2. CASE paused' = TRUE /\ owedWakes' = owedWakes /\ stops' = stops
    BY <1>0, <1>1, <2>2 DEF AwakeInv, DispatcherAwake, RoomKnown
  <2>3. CASE paused' = paused /\ owedWakes' = owedWakes /\ stops \subseteq stops'
    BY <1>0, <1>1, <1>2, <2>3 DEF AwakeInv, DispatcherAwake, RoomKnown
  <2> QED
    BY <2>1, <2>2, <2>3
<1>7. OldestFirst => OldestFirst'
  BY <1>1, <1>2 DEF OldestFirst, OfKey
<1>8. RepliesBound
  BY <1>1 DEF RepliesBound, Sending, Deliveries
<1> QED
  BY <1>2, <1>3, <1>4, <1>5, <1>6, <1>7, <1>8 DEF Keeps, PushInv

\* pause, resume and the tokens keep the invariant.
LEMMA ControlKeeps ==
    ASSUME PushInv, Pause \/ Resume \/ \E token \in Tokens : Stop(token)
    PROVE  Keeps
<1>1. UNCHANGED <<vars, taskVars, targets, received>>
  BY DEF Pause, Resume, Stop
<1>2. \/ paused' = TRUE /\ owedWakes' = owedWakes /\ stops' = stops
      \/ owedWakes' = owedWakes + 1
      \/ paused' = paused /\ owedWakes' = owedWakes /\ stops \subseteq stops'
  BY DEF Pause, Resume, Stop, OweWake
<1> QED
  BY <1>1, <1>2, FlagKeeps

\* A notify_waiters call, of the consumer or of its queue, is made: where it
\* matters the dispatcher has a future enabled, and is told.
LEMMA NotifyKeeps ==
    ASSUME PushInv, NotifyChanged \/ NotifyQueued
    PROVE  Keeps
<1>0. /\ IInv /\ ShapeOK /\ HeldInv /\ WireInv /\ AwakeInv /\ owedWakes \in Nat
      /\ dispatcher \in Dispatcher /\ delivery \in [Deliveries -> Delivery]
  BY DEF PushInv, ShapeOK
<1>1. /\ dispatcher' = TellDispatcher(dispatcher)
      /\ UNCHANGED <<slot, cursor, targets, received>>
      /\ delivery' = Told(delivery) \/ delivery' = delivery
      /\ owedWakes' \in Nat
  BY <1>0 DEF NotifyChanged, NotifyQueued, controlVars
<1>2. /\ IInv' /\ cfg' = cfg /\ Seqs' = Seqs /\ entries' = entries /\ leases' = leases
      /\ nextSeq' = nextSeq
  <2>1. CASE NotifyChanged
    BY <1>0, <2>1, QueueSame DEF NotifyChanged
  <2>2. CASE NotifyQueued
    <3>1. NotifyWaiters /\ [Next]_vars
      BY <2>2 DEF NotifyQueued, Next
    <3> QED
      BY <1>0, <3>1, NextIInv DEF NotifyWaiters, innerVars, Seqs
  <2> QED
    BY <2>1, <2>2
<1>3. /\ Deliveries' = Deliveries /\ delivery' \in [Deliveries' -> Delivery]
      /\ \A s \in Deliveries : Alike(delivery'[s], delivery[s])
  <2>1. CASE delivery' = Told(delivery)
    <3>1. /\ Told(delivery) \in [Deliveries -> Delivery]
          /\ \A s \in Deliveries : Alike(Told(delivery)[s], delivery[s])
      BY <1>0, ToldOK DEF Alike
    <3>2. DOMAIN Told(delivery) = Deliveries
      BY <3>1
    <3> QED
      BY <2>1, <3>1, <3>2 DEF Deliveries
  <2>2. CASE delivery' = delivery
    BY <1>0, <2>2 DEF Deliveries, Alike
  <2> QED
    BY <1>1, <2>1, <2>2
<1>4. /\ dispatcher' \in Dispatcher /\ dispatcher'.pc = dispatcher.pc
      /\ dispatcher'.pc \in {"lease", "parked"} => dispatcher'.told
  BY <1>0, <1>1, TellOK
<1>5. ShapeOK'
  BY <1>0, <1>1, <1>2, <1>3, <1>4 DEF ShapeOK
<1>6. HeldInv'
  BY <1>0, <1>2, <1>3 DEF HeldInv, LeasesDelivered
<1>7. WireInv'
  <2>1. WireQuiet
    BY <1>1, <1>3 DEF WireQuiet, Sending, Alike
  <2> QED
    BY <1>0, <2>1, WireQuietKeeps
<1>8. AwakeInv'
  BY <1>4 DEF AwakeInv, DispatcherAwake, RoomKnown
<1>9. OldestFirst => OldestFirst'
  BY <1>2, <1>3 DEF OldestFirst, OfKey, Alike
<1>10. RepliesBound
  BY <1>3 DEF RepliesBound, Sending, Alike, Deliveries
<1> QED
  BY <1>2, <1>5, <1>6, <1>7, <1>8, <1>9, <1>10 DEF Keeps, PushInv

-----------------------------------------------------------------------------
(* Deliveries that wait for a breaker.                                     *)

\* No breaker of the current set admits a request before u, and the update is
\* not too old, as long as nobody reports to a breaker or changes the set.
Dormant(u, sl) ==
    /\ sl.word.state # "Closed"
    /\ sl.word.state = "Open" => Sooner(u, ReopensAt(sl))
Covered(s) ==
    /\ targets.slots # <<>>
    /\ Sooner(delivery[s].until, MaxAgeAt(s, targets.opts))
    /\ \A i \in CurrentSlots : Dormant(delivery[s].until, slot[i])

\* Reports and changes of the set tell the deliveries that wait.
Unheard(s) == delivery[s].pc = "waiting" /\ ~delivery[s].told
WaitInv == \A s \in Deliveries : Unheard(s) => Covered(s) \/ owedWakes > 0

\* A step that tells nobody leaves who waits, and what for.
LEMMA StaysCovered ==
    ASSUME WaitInv, UNCHANGED <<targets, owedWakes>>,
           \A s \in Deliveries : received'[s] = received[s],
           \A s \in Deliveries' : Unheard(s)' =>
               \/ s \in Deliveries /\ delivery'[s] = delivery[s]
               \/ Covered(s)',
           \A i \in CurrentSlots :
               \/ slot'[i].word = slot[i].word /\ slot'[i].breaker = slot[i].breaker
               \/ slot'[i].word.state = "HalfOpen"
    PROVE  WaitInv'
<1>1. SUFFICES ASSUME NEW s \in Deliveries', Unheard(s)', s \in Deliveries,
                      delivery'[s] = delivery[s], ~(owedWakes' > 0)
               PROVE  Covered(s)'
  BY DEF WaitInv
<1>2. Unheard(s)
  BY <1>1 DEF Unheard
<1>3. Covered(s)
  BY <1>1, <1>2 DEF WaitInv
<1>4. CurrentSlots' = CurrentSlots /\ MaxAgeAt(s, targets.opts)' = MaxAgeAt(s, targets.opts)
  BY <1>1 DEF CurrentSlots, MaxAgeAt, After
<1>5. ASSUME NEW i \in CurrentSlots PROVE Dormant(delivery[s].until, slot'[i])
  BY <1>3 DEF Covered, Dormant, ReopensAt
<1> QED
  BY <1>1, <1>3, <1>4, <1>5 DEF Covered, Dormant, ReopensAt, After

\* notify_waiters leaves nobody who waits untold.
LEMMA ToldSome ==
    ASSUME NEW f, delivery' = Told(f),
           \A s \in DOMAIN f : f[s] \in Delivery \/ f[s].pc \notin {"load", "waiting"}
    PROVE  WaitInv'
<1>1. Deliveries' = DOMAIN f
  BY DEF Told, Deliveries
<1>2. ASSUME NEW s \in DOMAIN f, f[s].pc \in {"load", "waiting"} PROVE delivery'[s].told
  <2>1. delivery'[s] = [f[s] EXCEPT !.told = TRUE] /\ f[s] \in Delivery
    BY <1>2 DEF Told
  <2> QED
    BY <2>1 DEF Delivery
<1>3. ASSUME NEW s \in DOMAIN f, f[s].pc \notin {"load", "waiting"}
      PROVE  delivery'[s].pc # "waiting"
  BY <1>3 DEF Told
<1> QED
  BY <1>1, <1>2, <1>3 DEF WaitInv, Unheard

\* The wait that Wait begins ends in time for whatever may end it.
LEMMA WaitCovers ==
    ASSUME PushInv, NEW s, Wait(s)
    PROVE  s \in Deliveries /\ Covered(s)'
<1>0. /\ s \in Deliveries /\ delivery[s] \in Delivery /\ ShapeOK
      /\ targets.slots # <<>> /\ Healthy = {} /\ UNCHANGED <<targets, slot, received>>
  BY DEF Wait, Polled, PushInv, ShapeOK, controlVars
<1>1. PICK u : u = Earlier(FirstReopen, MaxAgeAt(s, targets.opts))
  OBVIOUS
<1>2. delivery'[s].until = u
  <2>1. delivery'[s] = [delivery[s] EXCEPT !.pc = "waiting", !.until = u]
    BY <1>0, <1>1 DEF Wait, Deliveries
  <2> QED
    BY <1>0, <2>1 DEF Delivery
<1>3. /\ MaxAgeAt(s, targets.opts) \in Nat \cup {NoDeadline}
      /\ \A i \in CurrentSlots : ReopensAt(slot[i]) \in Nat \cup {NoDeadline}
  BY <1>0, TimesType
<1>4. /\ FirstReopen \in Nat \cup {NoDeadline}
      /\ \A i \in CurrentSlots : slot[i].word.state = "Open" =>
            Sooner(FirstReopen, ReopensAt(slot[i]))
  BY <1>0, FirstReopenOK
<1>5. u \in Nat \cup {NoDeadline}
  BY <1>0, <1>1, WaitType
<1>6. Sooner(u, MaxAgeAt(s, targets.opts))
  BY <1>1, <1>3, <1>4, <1>5, SentinelAssumption DEF Sooner, Earlier
<1>7. ASSUME NEW i \in CurrentSlots PROVE Dormant(u, slot[i])
  <2>1. ~Ready(slot[i])
    BY <1>0 DEF Healthy, CurrentSlots
  <2>2. slot[i].word.state # "Closed"
    BY <2>1 DEF Ready
  <2>3. CASE slot[i].word.state = "Open"
    <3>1. Sooner(FirstReopen, ReopensAt(slot[i]))
      BY <1>4, <2>3
    <3>2. Sooner(u, ReopensAt(slot[i]))
      BY <1>1, <1>3, <1>4, <1>5, <3>1, SentinelAssumption DEF Sooner, Earlier
    <3> QED
      BY <2>2, <3>2 DEF Dormant
  <2> QED
    BY <2>2, <2>3 DEF Dormant
<1>8. CurrentSlots' = CurrentSlots /\ MaxAgeAt(s, targets.opts)' = MaxAgeAt(s, targets.opts)
  BY <1>0 DEF CurrentSlots, MaxAgeAt, After
<1> QED
  BY <1>0, <1>2, <1>6, <1>7, <1>8 DEF Covered, Dormant, ReopensAt, After

\* No step leaves a delivery waiting in vain.
LEMMA WaitNext ==
    ASSUME PushInv, WaitInv, [PushNext]_allVars
    PROVE  WaitInv'
<1>1. /\ delivery \in [Deliveries -> Delivery] /\ owedWakes \in Nat
      /\ \A s \in Deliveries : s \in 0 .. nextSeq - 1 /\ nextSeq \in Nat
  BY BoundAssumption DEF PushInv, ShapeOK, IInv, CallTypeOK
<1>2. CASE UNCHANGED <<targets, owedWakes, received, slot, delivery>>
  BY <1>2, StaysCovered DEF Deliveries
<1>3. ASSUME NEW s \in Deliveries, delivery' = Without(s),
             UNCHANGED <<targets, owedWakes, received, slot>>
      PROVE  WaitInv'
  <2>1. \A t \in Deliveries' : t \in Deliveries /\ delivery'[t] = delivery[t]
    BY <1>3 DEF Without, Deliveries
  <2> QED
    BY <1>3, <2>1, StaysCovered
<1>4. ASSUME NEW s \in Deliveries, NEW d \in Delivery, delivery' = [delivery EXCEPT ![s] = d],
             d.pc # "waiting" \/ Covered(s)', UNCHANGED <<targets, owedWakes, received, slot>>
      PROVE  WaitInv'
  <2>1. Deliveries' = Deliveries /\ delivery'[s] = d
        /\ \A t \in Deliveries : t # s => delivery'[t] = delivery[t]
    BY <1>1, <1>4 DEF Deliveries
  <2>2. ASSUME NEW t \in Deliveries', Unheard(t)'
        PROVE  \/ t \in Deliveries /\ delivery'[t] = delivery[t]
               \/ Covered(t)'
    BY <1>4, <2>1, <2>2 DEF Unheard
  <2> QED
    BY <1>4, <2>2, StaysCovered
<1>5. CASE owedWakes' > 0
  BY <1>5 DEF WaitInv
<1>6. ASSUME NEW s \in Deliveries, delivery' = Told(Without(s)) PROVE WaitInv'
  <2>1. PICK f : f = Without(s)
    OBVIOUS
  <2>2. \A t \in DOMAIN f : f[t] \in Delivery
    BY <1>1, <2>1 DEF Without
  <2> QED
    BY <1>6, <2>1, <2>2, ToldSome
<1>7. CASE Spawn \/ DispatcherStep \/ Crash
  <2>1. CASE LeaseRoom
    <3>1. UNCHANGED <<targets, owedWakes, received, slot>>
      BY <2>1 DEF LeaseRoom, controlVars
    <3>2. ASSUME NEW t \in Deliveries', Unheard(t)'
          PROVE  t \in Deliveries /\ delivery'[t] = delivery[t]
      BY <2>1, <3>2 DEF LeaseRoom, Unheard, NewDelivery, Deliveries
    <3> QED
      BY <3>1, <3>2, StaysCovered
  <2>2. ASSUME NEW s \in Deliveries, DropDelivery(s) PROVE WaitInv'
    BY <1>6, <2>2 DEF DropDelivery
  <2> QED
    BY <1>2, <1>7, <2>1, <2>2
       DEF DispatcherStep, Spawn, EnableFutures, LookAround, LoadTargets, WakeUp, ForceBreak,
           Crash, End, controlVars
<1>8. ASSUME NEW s, DeliveryStep(s) PROVE WaitInv'
  <2>1. s \in Deliveries /\ delivery[s] \in Delivery
    BY <1>1, <1>8 DEF DeliveryStep, Choose, NoEndpoint, TooOld, Send, Wait, LookAgain, GiveBack,
       Retry, Polled
  <2>2. CASE delivery' = Without(s)
    <3>1. UNCHANGED <<targets, owedWakes, received, slot>>
      BY <1>8, <2>1, <2>2 DEF DeliveryStep, Choose, NoEndpoint, TooOld, Send, Wait, LookAgain,
         GiveBack, Retry, Without, Deliveries, controlVars
    <3> QED
      BY <1>3, <2>1, <2>2, <3>1
  <2>3. CASE delivery' = [delivery EXCEPT ![s].pc = "load"] /\ Choose(s)
    <3>1. PICK d : d = [delivery[s] EXCEPT !.pc = "load"]
      OBVIOUS
    <3>2. d \in Delivery /\ d.pc = "load" /\ delivery' = [delivery EXCEPT ![s] = d]
      BY <2>1, <2>3, <3>1 DEF Delivery
    <3> QED
      BY <1>4, <2>1, <2>3, <3>2 DEF Choose, controlVars
  <2>4. CASE Retry(s) \/ LookAgain(s)
    <3>1. PICK d : /\ \/ d = [delivery[s] EXCEPT !.pc = "choose", !.until = NoDeadline]
                      \/ d = [delivery[s] EXCEPT !.pc = "choose", !.until = NoDeadline,
                                                 !.told = FALSE]
                   /\ delivery' = [delivery EXCEPT ![s] = d]
      BY <2>4 DEF Retry, LookAgain
    <3>2. d \in Delivery /\ d.pc = "choose"
      BY <2>1, <3>1 DEF Delivery
    <3> QED
      BY <1>4, <2>1, <2>4, <3>1, <3>2 DEF Retry, LookAgain, controlVars
  <2>5. CASE Wait(s)
    <3>1. PICK u \in Nat \cup {NoDeadline} : u = Earlier(FirstReopen, MaxAgeAt(s, targets.opts))
      BY <2>1, WaitType
    <3>2. PICK d : d = [delivery[s] EXCEPT !.pc = "waiting", !.until = u]
      OBVIOUS
    <3>3. d \in Delivery /\ delivery' = [delivery EXCEPT ![s] = d]
      BY <2>1, <2>5, <3>1, <3>2 DEF Wait, Delivery
    <3> QED
      BY <1>4, <2>1, <2>5, <3>3, WaitCovers DEF Wait, controlVars
  <2>6. CASE Send(s)
    <3>1. PICK d \in Delivery : MovesTo(s, d) /\ d.pc = "sending"
      BY <2>1, <2>6, SendWire
    <3>2. delivery'[s].pc = "sending" /\ Deliveries' = Deliveries
      BY <3>1 DEF MovesTo, Alike, Deliveries
    <3>3. \A t \in Deliveries : t # s => delivery'[t] = delivery[t]
      BY <1>1, <2>6 DEF Send
    <3>4. PICK j \in Healthy : /\ j = Picked(delivery[s].key)
                               /\ slot' = [slot EXCEPT ![targets.slots[j]] = Claim(@)]
      <4>1. delivery[s].key \in Keys \cup {NoKey} /\ Healthy # {}
        BY <2>1, <2>6 DEF Delivery, Send
      <4> QED
        BY <2>6, <4>1, PickedReady DEF Send, PushInv
    <3>5. PICK k \in CurrentSlots : k = targets.slots[j] /\ slot' = [slot EXCEPT ![k] = Claim(@)]
      BY <3>4 DEF Healthy, CurrentSlots
    <3>6. slot \in [Live -> Slot] /\ k \in Live /\ slot[k] \in Slot
      BY LiveOK DEF PushInv, WireInv, WireTypeOK
    <3>7. /\ slot'[k] = Claim(slot[k])
          /\ \A i \in CurrentSlots : i # k => slot'[i] = slot[i]
      BY <3>5, <3>6
    <3>8. \/ slot'[k].word = slot[k].word /\ slot'[k].breaker = slot[k].breaker
          \/ slot'[k].word.state = "HalfOpen"
      BY <3>6, <3>7 DEF Claim, Slot, Word
    <3>9. UNCHANGED <<targets, owedWakes, received>>
      BY <2>6 DEF Send, controlVars
    <3> QED
      BY <3>2, <3>3, <3>7, <3>8, <3>9, StaysCovered DEF Unheard
  <2> QED
    BY <1>8, <2>2, <2>3, <2>4, <2>5, <2>6
       DEF DeliveryStep, Choose, NoEndpoint, TooOld, GiveBack, Return
<1>9. ASSUME NEW s, Answer(s) PROVE WaitInv'
  <2>1. s \in Deliveries /\ delivery[s] \in Delivery
    BY <1>1, <1>9 DEF Answer, Delivered, Replied, Rejected, Failed, Polled
  <2>2. CASE delivery' = Told(Without(s))
    BY <1>6, <2>1, <2>2
  <2>3. CASE Replied(s)
    BY <1>3, <2>1, <2>3 DEF Replied, Return, controlVars
  <2>4. CASE Delivered(s)
    <3>1. CASE delivery' = Told([delivery EXCEPT ![s] =
                   [NewDelivery(@.key) EXCEPT !.pc = "replying", !.bound = ReplyBinding(s)]])
      <4>1. PICK f : f = [delivery EXCEPT ![s] =
                   [NewDelivery(@.key) EXCEPT !.pc = "replying", !.bound = ReplyBinding(s)]]
        OBVIOUS
      <4>2. DOMAIN f = Deliveries /\ delivery' = Told(f)
        BY <3>1, <4>1 DEF Deliveries
      <4>3. f[s].pc = "replying" /\ \A t \in Deliveries : t # s => f[t] = delivery[t]
        BY <1>1, <2>1, <4>1 DEF NewDelivery
      <4> QED
        BY <1>1, <4>2, <4>3, ToldSome
    <3> QED
      BY <2>2, <2>4, <3>1 DEF Delivered
  <2>5. ASSUME NEW delay \in 0 .. MaxDelay, Failed(s, delay) PROVE WaitInv'
    <3>1. CASE delivery' = Told([delivery EXCEPT ![s] =
                   [NewDelivery(delivery[s].key) EXCEPT !.pc = "backoff",
                        !.attempt = delivery[s].attempt, !.until = After(now, delay)]])
      <4>1. PICK f : f = [delivery EXCEPT ![s] =
                   [NewDelivery(delivery[s].key) EXCEPT !.pc = "backoff",
                        !.attempt = delivery[s].attempt, !.until = After(now, delay)]]
        OBVIOUS
      <4>2. DOMAIN f = Deliveries /\ delivery' = Told(f)
        BY <3>1, <4>1 DEF Deliveries
      <4>3. f[s].pc = "backoff" /\ \A t \in Deliveries : t # s => f[t] = delivery[t]
        BY <1>1, <2>1, <4>1 DEF NewDelivery
      <4> QED
        BY <1>1, <4>2, <4>3, ToldSome
    <3> QED
      BY <2>2, <2>5, <3>1 DEF Failed
  <2> QED
    BY <1>9, <2>2, <2>3, <2>4, <2>5 DEF Answer, Rejected
<1>10. CASE NotifyChanged
  BY <1>1, <1>10, ToldSome DEF NotifyChanged
<1>11. ASSUME NEW p \in Producers, Admission(p) PROVE WaitInv'
  <2>1. UNCHANGED <<targets, owedWakes, slot, delivery>> /\ Deliveries' = Deliveries
    BY <1>11 DEF Admission, taskVars, Deliveries
  <2>2. received' = received \/ \E at : received' = [received EXCEPT ![nextSeq] = at]
    BY <1>11 DEF Admission
  <2>3. \A t \in Deliveries : t # nextSeq /\ t \in DOMAIN received
    BY <1>1, BoundAssumption DEF PushInv, ShapeOK, IInv, CallTypeOK
  <2>4. \A t \in Deliveries : received'[t] = received[t]
    BY <2>2, <2>3
  <2>5. \A t \in Deliveries' : t \in Deliveries /\ delivery'[t] = delivery[t]
    BY <2>1
  <2>6. targets' = targets /\ owedWakes' = owedWakes /\ slot' = slot
    BY <2>1
  <2> QED
    BY <2>4, <2>5, <2>6, StaysCovered
<1>12. CASE OweWake
  BY <1>1, <1>5, <1>12 DEF OweWake
<1>13. CASE NotifyQueued \/ Pause \/ (\E token \in Tokens : Stop(token)) \/ Operator \/ Clock
  BY <1>2, <1>13
     DEF NotifyQueued, Pause, Stop, Operator, Clock, pushVars, taskVars, controlVars
<1>14. CASE UNCHANGED allVars
  BY <1>2, <1>14 DEF pushVars, taskVars, controlVars, allVars
<1> QED
  BY <1>7, <1>8, <1>9, <1>10, <1>11, <1>12, <1>13, <1>14
     DEF PushNext, SetEndpoints, SetOptions, SetRuntimeEndpoint, SetTargets, Resume

-----------------------------------------------------------------------------
(* The theorems.                                                           *)

\* Every step of the consumer, its callers and its queue keeps the invariant.
LEMMA PushStep ==
    ASSUME PushInv, [PushNext]_allVars
    PROVE  Keeps
<1>1. CASE Spawn \/ DispatcherStep \/ Crash
  BY <1>1, DispatcherStepKeeps
<1>2. ASSUME NEW s \in 0 .. MaxSeq - 1, DeliveryStep(s) \/ Answer(s) PROVE Keeps
  BY <1>2, DeliveryStepKeeps, AnswerKeeps
<1>3. ASSUME NEW n \in 0 .. MaxEndpoints, NEW opts \in Options, SetEndpoints(n, opts) PROVE Keeps
  BY <1>3, SetEndpointsKeeps
<1>4. ASSUME NEW opts \in Options, SetOptions(opts) PROVE Keeps
  BY <1>4, SetOptionsKeeps
<1>5. ASSUME NEW bot \in Bots \cup {NoBot}, SetRuntimeEndpoint(bot) PROVE Keeps
  BY <1>5, SetRuntimeKeeps
<1>6. CASE NotifyChanged \/ NotifyQueued
  BY <1>6, NotifyKeeps
<1>7. CASE Pause \/ Resume \/ \E token \in Tokens : Stop(token)
  BY <1>7, ControlKeeps
<1>8. CASE (\E p \in Producers : Admission(p)) \/ Operator \/ Clock
  BY <1>8, QueueKeeps
<1>9. CASE UNCHANGED allVars
  <2>1. UNCHANGED <<vars, taskVars, targets, received>>
        /\ paused' = paused /\ owedWakes' = owedWakes /\ stops \subseteq stops'
    BY <1>9 DEF allVars, pushVars, controlVars
  <2> QED
    BY <2>1, FlagKeeps
<1> QED
  BY <1>1, <1>2, <1>3, <1>4, <1>5, <1>6, <1>7, <1>8, <1>9 DEF PushNext

\* A consumer as PushConsumer::new makes it satisfies the invariant.
LEMMA PushStart ==
    ASSUME PushInit
    PROVE  PushInv /\ OldestFirst
<1>1. IInv /\ Seqs = {} /\ leases[PushHolder] = {} /\ nextSeq = 0
  BY InitIInv, HolderOK DEF PushInit, Init, Seqs
<1>2. Deliveries = {} /\ Sending(Deliveries) = {} /\ delivery \in [Deliveries -> Delivery]
  BY DEF PushInit, Deliveries, Sending
<1>3. dispatcher \in Dispatcher /\ dispatcher.pc = "off"
  BY AtOK DEF PushInit
<1>4. ShapeOK
  <2>1. received \in [0 .. MaxSeq - 1 -> Nat] /\ cursor \in Nat /\ owedWakes \in Nat
    <3>1. 0 \in Nat
      OBVIOUS
    <3> QED
      BY <3>1 DEF PushInit
  <2> QED
    BY <1>2, <1>3, <2>1 DEF ShapeOK
<1>5. HeldInv
  BY <1>1, <1>2 DEF HeldInv, LeasesDelivered
<1>6. PICK n \in 0 .. MaxEndpoints, opts \in Options :
          /\ targets = [slots |-> [i \in 1 .. n |-> i], runtime |-> NoBot, opts |-> opts]
          /\ slot = [i \in 1 .. n |-> NewSlot(NoBot, opts)]
  BY DEF PushInit
<1>7. /\ n \in Nat /\ targets.runtime = NoBot /\ targets.opts = opts
      /\ targets.slots = [i \in 1 .. n |-> i] /\ opts \in PushOptions
  BY <1>6, PushAssumption
<1>8. targets.slots \in Seq(SlotIds) /\ DOMAIN targets.slots = 1 .. n /\ CurrentSlots = 1 .. n
  <2>1. \A i \in 1 .. n : i \in SlotIds
    BY <1>6, <1>7, PushAssumption DEF SlotIds
  <2>2. targets.slots \in [1 .. n -> SlotIds] /\ \A i \in 1 .. n : targets.slots[i] = i
    BY <1>7, <2>1
  <2> QED
    BY <1>7, <2>2 DEF CurrentSlots
<1>9. Live = 1 .. n
  BY <1>2, <1>8 DEF Live
<1>10. PICK new : new = NewSlot(NoBot, opts)
  OBVIOUS
<1>11. new \in Slot /\ new.word.state = "Closed" /\ new.inFlight = 0 /\ new.owner = NoBot
  <2>1. opts.breaker \in [threshold : Nat, openFor : Nat]
    BY <1>7 DEF PushOptions
  <2>2. Closed \in Word /\ 0 \in Nat
    BY InstantOK DEF Closed, Word
  <2> QED
    BY <1>10, <2>1, <2>2 DEF NewSlot, Slot, Closed
<1>12. slot \in [Live -> Slot] /\ \A i \in Live : slot[i] = new
  BY <1>6, <1>9, <1>10, <1>11
<1>13. WireInv
  <2>1. WireTypeOK
    BY <1>2, <1>6, <1>8, <1>12 DEF WireTypeOK
  <2>2. InFlightExact
    <3>1. \A i : OnWire(i) = {}
      BY <1>2 DEF OnWire
    <3> QED
      BY <1>11, <1>12, <3>1, FS_EmptySet DEF InFlightExact
  <2>3. ProbeUnderWay
    BY <1>11, <1>12 DEF ProbeUnderWay
  <2>4. OwnersAgree
    <3>1. \A k \in DOMAIN targets.slots : targets.slots[k] \in Live
      BY DEF Live, CurrentSlots
    <3> QED
      BY <1>2, <1>7, <1>11, <1>12, <3>1 DEF OwnersAgree, OwnerAt
  <2> QED
    BY <2>1, <2>2, <2>3, <2>4 DEF WireInv
<1>14. AwakeInv
  BY <1>3 DEF AwakeInv, DispatcherAwake, RoomKnown
<1> QED
  BY <1>1, <1>2, <1>4, <1>5, <1>13, <1>14 DEF PushInv, OldestFirst

\* The invariant holds at all times: whatever endpoints, options, pauses,
\* tokens, panics and drains come in between.
THEOREM PushInvariant == PushSpec => []PushInv
<1>1. PushInit => PushInv
  BY PushStart
<1>2. PushInv /\ [PushNext]_allVars => PushInv'
  BY PushStep DEF Keeps
<1> QED
  BY <1>1, <1>2, PTL DEF PushSpec

\* No lease outlives its delivery: every way a delivery ends (its answer, a
\* permanent failure, its age, cancel, no endpoint, a panic or an abort of
\* the task) settles or releases the lease in the step that ends it.
THEOREM LeasesAreDelivered == PushSpec => []LeasesDelivered
<1>1. PushInv => LeasesDelivered
  BY DEF PushInv, HeldInv
<1> QED
  BY <1>1, PushInvariant, PTL

\* A half-open breaker always has the request on the wire that will decide
\* it: Sending's drop reports a probe that nobody else reported, and slots
\* that a new endpoint set shares with the old one keep their requests.
THEOREM ProbesUnderWay == PushSpec => []ProbeUnderWay
<1>1. PushInv => ProbeUnderWay
  BY DEF PushInv, WireInv
<1> QED
  BY <1>1, PushInvariant, PTL

\* in_flight, which the balancing goes by, is the number of requests on the
\* wire to the slot, across reloads that keep the slot.
THEOREM InFlightCorrect == PushSpec => []InFlightExact
<1>1. PushInv => InFlightExact
  BY DEF PushInv, WireInv
<1> QED
  BY <1>1, PushInvariant, PTL

\* The dispatcher's task sleeps next to nothing it could do.  The futures of
\* its select! are enabled before it reads the flags, loads the endpoints and
\* leases; a delivery's is enabled before it loads the set and looks at the
\* breakers; every report, drop of a probe and change of the set or its options
\* ends in a notify_waiters call.
THEOREM TaskStaysAwake == PushSpec => []TaskAwake
<1>1. PushInit => WaitInv
  BY DEF PushInit, WaitInv, Deliveries
<1>2. PushInv /\ WaitInv /\ [PushNext]_allVars => WaitInv'
  BY WaitNext
<1>3. PushInv /\ WaitInv => WaitersHear
  <2>1. SUFFICES ASSUME PushInv, WaitInv, NEW s \in Deliveries, Unheard(s), ~(owedWakes > 0),
                        Healthy # {} \/ targets.slots = <<>> \/ Passed(MaxAgeAt(s, targets.opts))
                 PROVE  Passed(delivery[s].until)
    BY DEF WaitersHear, Unheard
  <2>2. Covered(s)
    BY <2>1 DEF WaitInv
  <2>3. /\ MaxAgeAt(s, targets.opts) \in Nat \cup {NoDeadline} /\ now \in Nat
        /\ \A i \in CurrentSlots : ReopensAt(slot[i]) \in Nat \cup {NoDeadline}
        /\ delivery[s].until \in Nat \cup {NoDeadline}
    BY <2>1, TimesType
  <2>4. ASSUME NEW a \in Nat \cup {NoDeadline}, Passed(a), Sooner(delivery[s].until, a)
        PROVE  Passed(delivery[s].until)
    BY <2>3, <2>4, SentinelAssumption DEF Passed, Sooner
  <2>5. CASE Passed(MaxAgeAt(s, targets.opts))
    BY <2>2, <2>3, <2>4, <2>5 DEF Covered
  <2>6. CASE Healthy # {}
    <3>1. PICK i \in CurrentSlots : Ready(slot[i])
      BY <2>6 DEF Healthy, CurrentSlots
    <3>2. Dormant(delivery[s].until, slot[i])
      BY <2>2 DEF Covered
    <3> QED
      BY <2>3, <2>4, <3>1, <3>2 DEF Ready, Dormant
  <2> QED
    BY <2>1, <2>2, <2>5, <2>6 DEF Covered
<1>4. PushInv /\ WaitInv => TaskAwake
  BY <1>3 DEF TaskAwake, PushInv, AwakeInv
<1> QED
  BY <1>1, <1>2, <1>4, PushInvariant, PTL DEF PushSpec

\* A method call in an answer is executed for the bot whose endpoint gave it,
\* though the runtime endpoint may have changed hands since the request.
THEOREM RepliesBoundToOwner == PushSpec => ReplyBoundToOwner
<1>1. PushInv /\ [PushNext]_allVars => RepliesBound
  BY PushStep DEF Keeps
<1>2. PushInv /\ [PushNext]_allVars => [RepliesBound]_allVars
  BY <1>1
<1> QED
  BY <1>2, PushInvariant, PTL DEF PushSpec, ReplyBoundToOwner, RepliesBound

\* No reload switches the queue's ordering.
OrderingKept == [][cfg'.ordering = cfg.ordering]_allVars

\* Under per-chat ordering requests go out oldest first for every chat, as
\* long as no reload switches the ordering: set_config switches it at once,
\* and updates of one chat that are leased together then stay leased.
THEOREM SentOldestFirst == PushSpec /\ OrderingKept => []SentInOrder
<1>1. PushInit => PushInv /\ OldestFirst
  BY PushStart
<1>2. PushInv /\ OldestFirst /\ [PushNext]_allVars /\ [cfg'.ordering = cfg.ordering]_allVars
        => OldestFirst'
  <2>1. SUFFICES ASSUME PushInv, OldestFirst, [PushNext]_allVars,
                        [cfg'.ordering = cfg.ordering]_allVars
                 PROVE  OldestFirst'
    OBVIOUS
  <2>2. cfg'.ordering = cfg.ordering
    BY <2>1 DEF allVars, vars
  <2> QED
    BY <2>1, <2>2, PushStep DEF Keeps
<1>3. OldestFirst => SentInOrder
  BY DEF OldestFirst, SentInOrder, Sending
<1> QED
  BY <1>1, <1>2, <1>3, PushInvariant, PTL DEF PushSpec, OrderingKept
=============================================================================
