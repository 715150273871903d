-------------------------- MODULE LeaseQueue_proofs --------------------------
(***************************************************************************)
(* Proofs about LeaseQueue, for every set of producers, holders, keys,     *)
(* sizes, ack ids and configs and every value of the bounds.               *)
(*                                                                         *)
(* The inductive invariant IInv says that the indexes of Inner agree with  *)
(* its entries (IndexInv) and that the reservation counters agree with the *)
(* permits (ThreadInv).  The action properties follow from it: one lemma   *)
(* per property looks at a single step.  ByteInv says that the byte totals *)
(* are the sums over the entries and over the permits.                     *)
(***************************************************************************)
EXTENDS LeaseQueue, FiniteSetTheorems, TLAPS

\* What a function's values come to over finitely many arguments is a number.
LEMMA TotalType ==
    ASSUME NEW S, IsFiniteSet(S), NEW f \in [S -> Nat]
    PROVE  IsFiniteSet(Units(f)) /\ Total(f) \in Nat
<1> DEFINE g == [x \in S |-> {x} \X (1 .. f[x])]
           T == {g[x] : x \in S}
<1>1. g \in Surjection(S, T)
  BY DEF Surjection
<1>2. IsFiniteSet(T)
  BY <1>1, FS_Surjection
<1>3. ASSUME NEW x \in S PROVE IsFiniteSet(g[x])
  <2>1. 1 \in Int /\ f[x] \in Int
    OBVIOUS
  <2>2. IsFiniteSet(1 .. f[x]) /\ IsFiniteSet({x})
    BY <2>1, FS_Interval, FS_Singleton
  <2>3. g[x] = {x} \X (1 .. f[x])
    OBVIOUS
  <2> QED
    BY <2>2, <2>3, FS_Product
<1>4. IsFiniteSet(UNION T)
  BY <1>2, <1>3, FS_UNION
<1>5. Units(f) = UNION T
  BY DEF Units
<1> QED
  BY <1>4, <1>5, FS_CardinalityType DEF Total

\* The total over a set is the total over a part of it and over the rest.
LEMMA TotalSplit ==
    ASSUME NEW S, IsFiniteSet(S), NEW f \in [S -> Nat], NEW T \in SUBSET S
    PROVE  Total(f) = Total([x \in T |-> f[x]]) + Total([x \in S \ T |-> f[x]])
<1> DEFINE g == [x \in T |-> f[x]]
           h == [x \in S \ T |-> f[x]]
<1>1. IsFiniteSet(T) /\ IsFiniteSet(S \ T)
  BY FS_Subset
<1>2. g \in [T -> Nat] /\ h \in [S \ T -> Nat]
  OBVIOUS
<1>3. /\ IsFiniteSet(Units(g)) /\ IsFiniteSet(Units(h))
      /\ Total(g) \in Nat /\ Total(h) \in Nat
  BY <1>1, <1>2, TotalType
<1>4. \A u : u \in Units(f) <=> \E x \in S : u \in {x} \X (1 .. f[x])
  BY DEF Units
<1>5. \A u : u \in Units(g) <=> \E x \in T : u \in {x} \X (1 .. f[x])
  BY DEF Units
<1>6. \A u : u \in Units(h) <=> \E x \in S \ T : u \in {x} \X (1 .. f[x])
  BY DEF Units
<1>7. Units(f) = Units(g) \cup Units(h)
  BY <1>4, <1>5, <1>6
<1>8. Units(g) \cap Units(h) = {}
  BY <1>5, <1>6, SMTT(40)
<1>9. Cardinality(Units(g) \cap Units(h)) = 0
  BY <1>8, FS_EmptySet
<1>10. Cardinality(Units(f)) = Cardinality(Units(g)) + Cardinality(Units(h)) - 0
  BY <1>3, <1>7, <1>9, FS_Union
<1> QED
  BY <1>3, <1>10 DEF Total

\* The total of one value is the value.
LEMMA TotalOne ==
    ASSUME NEW x, NEW n \in Nat
    PROVE  Total([y \in {x} |-> n]) = n
<1>1. 1 \in Int /\ n \in Int
  OBVIOUS
<1>2. IsFiniteSet(1 .. n) /\ Cardinality(1 .. n) = n
  BY <1>1, FS_Interval
<1>3. IsFiniteSet({x}) /\ Cardinality({x}) = 1
  BY FS_Singleton
<1>4. Cardinality({x} \X (1 .. n)) = 1 * n
  BY <1>2, <1>3, FS_Product
<1>5. Units([y \in {x} |-> n]) = {x} \X (1 .. n)
  BY DEF Units
<1> QED
  BY <1>4, <1>5 DEF Total

\* Nothing comes to nothing.
LEMMA TotalNone ==
    ASSUME NEW f, DOMAIN f = {}
    PROVE  Total(f) = 0
BY FS_EmptySet DEF Total, Units

\* The shape of Inner's entries and indexes, as the index lemmas use it.
IndexTypeOK ==
    /\ IsFiniteSet(Seqs)
    /\ entries \in [Seqs -> Entry]
    /\ available \subseteq Seqs
    /\ queuedPerKey \in [Keys -> SUBSET Seqs]
    /\ leases \in [Holders -> SUBSET Seqs]
    /\ leasedPerKey \in [Keys -> Nat]
    /\ Seqs \subseteq Nat

\* The unleased items without a key, and what eligible_of gives for each key.
Keyless == OfKey(Unleased, NoKey)
EligibleMap == [k \in Keys |-> EligibleOf(k)]

\* eligible seen the way rekeyed maintains it: it is what a scan of the
\* entries finds just when it is the keyless unleased items together with
\* eligible_of of every key.
LEMMA EligibleForm ==
    IndexTypeOK /\ QueuedAgrees /\ LeasedPerKeyAgrees
      => (EligibleAgrees <=> eligible = Keyless \cup UNION {EligibleMap[k] : k \in Keys})
<1> SUFFICES ASSUME IndexTypeOK, QueuedAgrees, LeasedPerKeyAgrees
             PROVE  EligibleAgrees <=> eligible = Keyless \cup UNION {EligibleMap[k] : k \in Keys}
    OBVIOUS
<1> DEFINE scan == {s \in Unleased :
        entries[s].key # NoKey =>
            \A t \in OfKey(Seqs, entries[s].key) :
                entries[t].holder = NoHolder /\ s <= t}
<1>1. ASSUME NEW k \in Keys
      PROVE  leasedPerKey[k] > 0 <=> OfKey(Leased(Seqs), k) # {}
  <2>1. IsFiniteSet(OfKey(Leased(Seqs), k))
    BY FS_Subset DEF OfKey, Leased, IndexTypeOK
  <2> QED BY <2>1, FS_EmptySet, FS_CardinalityType DEF LeasedPerKeyAgrees
<1>2. ASSUME NEW s \in Seqs, entries[s].key # NoKey
      PROVE  s \in scan <=> s \in EligibleMap[entries[s].key]
  <2> DEFINE k == entries[s].key
  <2>1. k \in Keys BY <1>2 DEF IndexTypeOK, Entry
  <2>2. EligibleMap[k] = EligibleOf(k) BY <2>1 DEF EligibleMap
  <2>3. CASE OfKey(Leased(Seqs), k) # {}
    <3>1. EligibleOf(k) = {} BY <1>1, <2>1, <2>3 DEF EligibleOf
    <3>2. s \notin scan BY <1>2, <2>3 DEF OfKey, Leased
    <3> QED BY <2>2, <3>1, <3>2
  <2>4. CASE OfKey(Leased(Seqs), k) = {}
    <3>1. EligibleOf(k) = First(OfKey(Unleased, k))
      BY <1>1, <2>1, <2>4 DEF EligibleOf, QueuedAgrees
    <3>2. OfKey(Unleased, k) = OfKey(Seqs, k)
      BY <2>4 DEF OfKey, Unleased, Leased
    <3>3. \A t \in OfKey(Seqs, k) : entries[t].holder = NoHolder
      BY <2>4 DEF OfKey, Leased
    <3>4. s \in OfKey(Unleased, k) /\ s \in Unleased BY <3>2 DEF OfKey
    <3>5. s \in scan <=> \A t \in OfKey(Seqs, k) : s <= t
      BY <1>2, <3>3, <3>4
    <3>6. s \in First(OfKey(Unleased, k)) <=> \A t \in OfKey(Seqs, k) : s <= t
      BY <3>2, <3>4 DEF First
    <3> QED BY <2>2, <3>1, <3>5, <3>6
  <2> QED BY <2>3, <2>4
<1>3. ASSUME NEW k \in Keys, NEW s \in EligibleMap[k]
      PROVE  s \in Seqs /\ entries[s].key = k
  BY <1>3 DEF EligibleMap, EligibleOf, First, QueuedAgrees, OfKey, Unleased
<1>4. \A k \in Keys : k # NoKey BY SentinelAssumption
<1>5. ASSUME NEW s PROVE s \in scan <=> s \in Keyless \cup UNION {EligibleMap[k] : k \in Keys}
  <2>1. CASE s \in Seqs /\ entries[s].key = NoKey
    BY <2>1, <1>3, <1>4 DEF Keyless, OfKey, Unleased
  <2>2. CASE s \in Seqs /\ entries[s].key # NoKey
    <3>1. entries[s].key \in Keys BY <2>2 DEF IndexTypeOK, Entry
    <3> QED BY <2>2, <1>2, <1>3, <3>1 DEF Keyless, OfKey
  <2>3. CASE s \notin Seqs
    BY <2>3, <1>3 DEF Keyless, OfKey, Unleased
  <2> QED BY <2>1, <2>2, <2>3
<1> QED BY <1>5 DEF EligibleAgrees

\* rekeyed repairs eligible: if the other indexes are right after a call, and
\* the keyless items that came and left are the ones it is given, then
\* adjusting only the keys whose member changed leaves eligible right.
LEMMA RekeyedStep ==
    ASSUME IndexTypeOK, IndexesAgree,
           IndexTypeOK', QueuedAgrees', LeasedPerKeyAgrees',
           NEW L, NEW U, U \subseteq OfKey(Seqs, NoKey),
           Keyless' = (Keyless \ U) \cup L,
           Rekeyed(L, U)
    PROVE  EligibleAgrees'
<1> DEFINE f == EligibleMap
           g == EligibleMap'
           C == {k \in Keys : f[k] # g[k]}
<1>1. eligible = Keyless \cup UNION {f[k] : k \in Keys}
  BY EligibleForm DEF IndexesAgree
<1>2. \A k \in Keys : \A s \in f[k] : s \in Unleased /\ entries[s].key = k
  BY DEF EligibleMap, EligibleOf, First, IndexesAgree, QueuedAgrees, OfKey
<1>3. \A k, j \in Keys : k # j => f[k] \cap f[j] = {}
  BY <1>2
<1>4. \A k \in Keys : f[k] \cap Keyless = {} /\ f[k] \cap U = {}
  BY <1>2, SentinelAssumption DEF Keyless, OfKey
<1>5. \A k \in Keys : f[k] = EligibleOf(k) /\ g[k] = EligibleOf(k)'
  BY DEF EligibleMap
<1>6. C = {k \in Keys : EligibleOf(k) # EligibleOf(k)'}
  BY <1>5
<1>7. eligible' = ((eligible \ U) \ UNION {EligibleOf(k) : k \in C}) \cup L
                    \cup UNION {EligibleOf(k)' : k \in C}
  BY <1>6 DEF Rekeyed
<1>8. /\ UNION {EligibleOf(k) : k \in C} = UNION {f[k] : k \in C}
      /\ UNION {EligibleOf(k)' : k \in C} = UNION {g[k] : k \in C}
  BY <1>5
<1>9. eligible' = ((eligible \ U) \ UNION {f[k] : k \in C}) \cup L
                    \cup UNION {g[k] : k \in C}
  BY <1>7, <1>8
<1>10. eligible' = ((Keyless \ U) \cup L) \cup UNION {g[k] : k \in Keys}
  <2> HIDE DEF f, g, C
  <2>1. C = {k \in Keys : f[k] # g[k]} BY DEF C
  <2>2. ASSUME NEW x \in eligible'
        PROVE  x \in ((Keyless \ U) \cup L) \cup UNION {g[k] : k \in Keys}
    <3>1. CASE x \in L \cup UNION {g[k] : k \in C} BY <3>1, <2>1
    <3>2. CASE x \in (eligible \ U) \ UNION {f[k] : k \in C}
      <4>1. CASE x \in Keyless BY <3>2, <4>1
      <4>2. CASE x \in UNION {f[k] : k \in Keys}
        <5>1. PICK k \in Keys : x \in f[k] BY <4>2
        <5>2. k \notin C BY <5>1, <3>2
        <5> QED BY <5>1, <5>2, <2>1
      <4> QED BY <3>2, <4>1, <4>2, <1>1
    <3> QED BY <1>9, <2>2, <3>1, <3>2
  <2>3. ASSUME NEW x \in ((Keyless \ U) \cup L) \cup UNION {g[k] : k \in Keys}
        PROVE  x \in eligible'
    <3>1. CASE x \in L BY <3>1, <1>9
    <3>2. CASE x \in Keyless \ U BY <3>2, <1>1, <1>4, <1>9, <2>1
    <3>3. CASE x \in UNION {g[k] : k \in Keys}
      <4>1. PICK k \in Keys : x \in g[k] BY <3>3
      <4>2. CASE k \in C BY <4>1, <4>2, <1>9
      <4>3. CASE k \notin C
        <5>1. x \in f[k] BY <4>1, <4>3, <2>1
        <5>2. x \in eligible /\ x \notin U BY <5>1, <1>1, <1>4
        <5>3. \A j \in C : x \notin f[j] BY <5>1, <4>3, <1>3, <2>1
        <5> QED BY <5>2, <5>3, <1>9
      <4> QED BY <4>2, <4>3
    <3> QED BY <2>3, <3>1, <3>2, <3>3
  <2> QED BY <2>2, <2>3
<1>11. (IndexTypeOK /\ QueuedAgrees /\ LeasedPerKeyAgrees
         => (EligibleAgrees <=>
               eligible = Keyless \cup UNION {EligibleMap[k] : k \in Keys}))'
  BY EligibleForm, PTL
<1> QED BY <1>10, <1>11

\* remove (acks, evictions, purge_where) keeps every index right.
LEMMA RemoveStep ==
    ASSUME IndexTypeOK, IndexesAgree, NEW S \in SUBSET Seqs, Remove(S)
    PROVE  IndexTypeOK' /\ IndexesAgree'
<1> USE DEF IndexTypeOK
<1>1. /\ Seqs' = Seqs \ S
      /\ \A s \in Seqs' : entries'[s] = entries[s]
  BY DEF Remove, Seqs
<1>2. Leased(Seqs)' = Leased(Seqs) \ S
  BY <1>1 DEF Leased
<1>3. Unleased' = Unleased \ S
  BY <1>1, <1>2 DEF Unleased
<1>4. \A k : OfKey(Unleased, k)' = OfKey(Unleased, k) \ S
  BY <1>1, <1>3 DEF OfKey, Unleased
<1>5. AvailableAgrees'
  BY <1>3 DEF AvailableAgrees, IndexesAgree, Remove, Unlink
<1>6. QueuedAgrees'
  BY <1>4 DEF QueuedAgrees, IndexesAgree, Remove, Unlink
<1>7. LeasesAgree'
  BY <1>1 DEF LeasesAgree, IndexesAgree, Remove, EndLease
<1>8. ASSUME NEW k \in Keys
      PROVE  /\ leasedPerKey'[k] = Cardinality(OfKey(Leased(Seqs), k)')
             /\ leasedPerKey'[k] \in Nat
  <2> DEFINE A == OfKey(Leased(Seqs), k)
             B == OfKey(Leased(S), k)
  <2>1. OfKey(Leased(Seqs), k)' = A \ B
    BY <1>1, <1>2 DEF OfKey, Leased
  <2>2. IsFiniteSet(A)
    BY FS_Subset DEF OfKey, Leased
  <2>3. A \cap B = B
    BY DEF OfKey, Leased
  <2>4. /\ Cardinality(A \ B) = Cardinality(A) - Cardinality(A \cap B)
        /\ IsFiniteSet(A \ B)
    BY <2>2, FS_Difference
  <2>5. leasedPerKey'[k] = leasedPerKey[k] - Cardinality(B)
    BY DEF Remove, EndLease
  <2>6. leasedPerKey[k] = Cardinality(A)
    BY DEF IndexesAgree, LeasedPerKeyAgrees
  <2>7. Cardinality(A \ B) \in Nat
    BY <2>4, FS_CardinalityType
  <2> QED BY <2>1, <2>3, <2>4, <2>5, <2>6, <2>7
<1>9. LeasedPerKeyAgrees'
  BY <1>8 DEF LeasedPerKeyAgrees
<1>10. IndexTypeOK'
  <2>1. IsFiniteSet(Seqs') BY <1>1, FS_Subset
  <2>2. entries' \in [Seqs' -> Entry] BY <1>1 DEF Remove
  <2>3. /\ available' \subseteq Seqs'
        /\ queuedPerKey' \in [Keys -> SUBSET Seqs']
        /\ leases' \in [Holders -> SUBSET Seqs']
    BY <1>1 DEF Remove, Unlink, EndLease
  <2>4. leasedPerKey' \in [Keys -> Nat]
    BY <1>8 DEF Remove, EndLease
  <2> QED BY <1>1, <2>1, <2>2, <2>3, <2>4
<1>11. Keyless' = (Keyless \ OfKey(S, NoKey)) \cup {}
  BY <1>4 DEF Keyless, OfKey
<1>12. EligibleAgrees'
  <2>1. OfKey(S, NoKey) \subseteq OfKey(Seqs, NoKey) BY DEF OfKey
  <2>2. Rekeyed({}, OfKey(S, NoKey)) BY DEF Remove
  <2> QED BY <1>6, <1>9, <1>10, <1>11, <2>1, <2>2, RekeyedStep
<1> QED BY <1>5, <1>6, <1>7, <1>9, <1>10, <1>12 DEF IndexesAgree

\* requeue (release_seq, expire) keeps every index right.
LEMMA RequeueStep ==
    ASSUME IndexTypeOK, IndexesAgree, NEW S \in SUBSET Leased(Seqs), Requeue(S)
    PROVE  IndexTypeOK' /\ IndexesAgree'
<1> USE DEF IndexTypeOK
<1>1. /\ Seqs' = Seqs
      /\ \A s \in Seqs : /\ entries'[s] \in Entry
                         /\ entries'[s].key = entries[s].key
                         /\ entries'[s].holder =
                              IF s \in S THEN NoHolder ELSE entries[s].holder
      /\ entries' \in [Seqs -> Entry]
  <2> DEFINE E(s) == [entries[s] EXCEPT !.holder = NoHolder,
                                        !.deadline = NoDeadline]
  <2>1. entries \in [Seqs -> Entry]
    OBVIOUS
  <2>2. ASSUME NEW s \in Seqs
        PROVE  E(s) \in Entry /\ E(s).key = entries[s].key
                              /\ E(s).holder = NoHolder
    <3>1. entries[s] \in Entry BY <2>1
    <3> QED BY ONLY <3>1 DEF Entry
  <2>3. entries' = [s \in Seqs |-> IF s \in S THEN E(s) ELSE entries[s]]
    BY DEF Requeue
  <2> HIDE DEF E
  <2>4. /\ Seqs' = Seqs
        /\ \A s \in Seqs : entries'[s] = IF s \in S THEN E(s) ELSE entries[s]
    BY ONLY <2>3 DEF Seqs
  <2>5. entries' \in [Seqs -> Entry]
    BY ONLY <2>1, <2>2, <2>3
  <2> QED BY ONLY <2>1, <2>2, <2>4, <2>5
<1>2. Leased(Seqs)' = Leased(Seqs) \ S
  BY <1>1 DEF Leased
<1>3. Unleased' = Unleased \cup S
  BY <1>1, <1>2 DEF Unleased, Leased
<1>4. \A k : OfKey(Unleased, k)' = OfKey(Unleased, k) \cup OfKey(S, k)
  BY <1>1, <1>3 DEF OfKey, Unleased, Leased
<1>5. AvailableAgrees'
  BY <1>3 DEF AvailableAgrees, IndexesAgree, Requeue, Link
<1>6. QueuedAgrees'
  BY <1>4 DEF QueuedAgrees, IndexesAgree, Requeue, Link
<1>7. LeasesAgree'
  <2>1. \A h \in Holders : leases'[h] = leases[h] \ S /\ h # NoHolder
    BY SentinelAssumption DEF Requeue, EndLease
  <2> QED BY <1>1, <2>1 DEF LeasesAgree, IndexesAgree
<1>8. ASSUME NEW k \in Keys
      PROVE  /\ leasedPerKey'[k] = Cardinality(OfKey(Leased(Seqs), k)')
             /\ leasedPerKey'[k] \in Nat
  <2> DEFINE A == OfKey(Leased(Seqs), k)
             B == OfKey(Leased(S), k)
  <2>1. OfKey(Leased(Seqs), k)' = A \ B
    BY <1>1, <1>2 DEF OfKey, Leased
  <2>2. IsFiniteSet(A)
    BY FS_Subset DEF OfKey, Leased
  <2>3. A \cap B = B
    BY DEF OfKey, Leased
  <2>4. /\ Cardinality(A \ B) = Cardinality(A) - Cardinality(A \cap B)
        /\ IsFiniteSet(A \ B)
    BY <2>2, FS_Difference
  <2>5. leasedPerKey'[k] = leasedPerKey[k] - Cardinality(B)
    BY DEF Requeue, EndLease
  <2>6. leasedPerKey[k] = Cardinality(A)
    BY DEF IndexesAgree, LeasedPerKeyAgrees
  <2>7. Cardinality(A \ B) \in Nat
    BY <2>4, FS_CardinalityType
  <2> QED BY <2>1, <2>3, <2>4, <2>5, <2>6, <2>7
<1>9. LeasedPerKeyAgrees'
  BY <1>8 DEF LeasedPerKeyAgrees
<1>10. IndexTypeOK'
  <2>1. S \subseteq Seqs BY DEF Leased
  <2>2. /\ available' \subseteq Seqs'
        /\ queuedPerKey' \in [Keys -> SUBSET Seqs']
        /\ leases' \in [Holders -> SUBSET Seqs']
    BY <1>1, <2>1 DEF Requeue, Link, EndLease, OfKey
  <2>3. leasedPerKey' \in [Keys -> Nat]
    BY <1>8 DEF Requeue, EndLease
  <2> QED BY <1>1, <2>2, <2>3
<1>11. Keyless' = (Keyless \ {}) \cup OfKey(S, NoKey)
  BY <1>4 DEF Keyless
<1>12. EligibleAgrees'
  <2>1. Rekeyed(OfKey(S, NoKey), {}) BY DEF Requeue
  <2> QED BY <1>6, <1>9, <1>10, <1>11, <2>1, RekeyedStep
<1> QED BY <1>5, <1>6, <1>7, <1>9, <1>10, <1>12 DEF IndexesAgree

\* start_lease, of a whole batch of lease, keeps every index right.
LEMMA StartLeaseStep ==
    ASSUME IndexTypeOK, IndexesAgree, cfg \in QueueConfig, NEW at \in Nat,
           NEW S \in SUBSET available, NEW h \in Holders, StartLease(S, h, at)
    PROVE  IndexTypeOK' /\ IndexesAgree'
<1> USE DEF IndexTypeOK
<1>0. Deadline(at) \in Nat \cup {NoDeadline}
  BY DEF Deadline, QueueConfig
<1>1. /\ Seqs' = Seqs
      /\ \A s \in Seqs : /\ entries'[s].key = entries[s].key
                         /\ entries'[s].holder =
                              IF s \in S THEN h ELSE entries[s].holder
      /\ entries' \in [Seqs -> Entry]
  <2> DEFINE E(s) == [entries[s] EXCEPT !.holder = h,
                                        !.deadline = Deadline(at)]
  <2>1. entries \in [Seqs -> Entry]
    OBVIOUS
  <2>2. ASSUME NEW s \in Seqs
        PROVE  E(s) \in Entry /\ E(s).key = entries[s].key
                              /\ E(s).holder = h
    <3>1. entries[s] \in Entry /\ h \in Holders BY <2>1
    <3> QED BY ONLY <1>0, <3>1 DEF Entry
  <2>3. entries' = [s \in Seqs |-> IF s \in S THEN E(s) ELSE entries[s]]
    BY DEF StartLease
  <2> HIDE DEF E
  <2>4. /\ Seqs' = Seqs
        /\ \A s \in Seqs : entries'[s] = IF s \in S THEN E(s) ELSE entries[s]
    BY ONLY <2>3 DEF Seqs
  <2>5. entries' \in [Seqs -> Entry]
    BY ONLY <2>1, <2>2, <2>3
  <2> QED BY ONLY <2>1, <2>2, <2>4, <2>5
<1>2. S \subseteq Unleased
  BY DEF IndexesAgree, AvailableAgrees
<1>3. Leased(Seqs)' = Leased(Seqs) \cup S
  BY <1>1, SentinelAssumption DEF Leased
<1>4. Unleased' = Unleased \ S
  BY <1>1, <1>3 DEF Unleased
<1>5. \A k : OfKey(Unleased, k)' = OfKey(Unleased, k) \ S
  BY <1>1, <1>4 DEF OfKey, Unleased
<1>6. AvailableAgrees'
  BY <1>4 DEF AvailableAgrees, IndexesAgree, StartLease, Unlink
<1>7. QueuedAgrees'
  BY <1>5 DEF QueuedAgrees, IndexesAgree, StartLease, Unlink
<1>8. LeasesAgree'
  <2>1. \A s \in S : entries[s].holder = NoHolder
    BY <1>2 DEF Unleased, Leased
  <2>2. \A g \in Holders : leases'[g] = IF g = h THEN leases[g] \cup S
                                                ELSE leases[g]
    BY DEF StartLease
  <2>3. \A g \in Holders : /\ g # NoHolder
                           /\ leases[g] = {s \in Seqs : entries[s].holder = g}
    BY SentinelAssumption DEF LeasesAgree, IndexesAgree
  <2>4. S \subseteq Seqs
    OBVIOUS
  <2>5. ASSUME NEW g \in Holders
        PROVE  leases'[g] = {s \in Seqs : entries'[s].holder = g}
    <3>1. CASE g = h
      <4>1. leases'[g] = leases[g] \cup S
        BY ONLY <2>2, <3>1, g \in Holders
      <4>2. \A s \in Seqs :
              entries'[s].holder = g <=> entries[s].holder = g \/ s \in S
        BY ONLY <1>1, <3>1
      <4>3. leases[g] = {s \in Seqs : entries[s].holder = g}
        BY ONLY <2>3, g \in Holders
      <4> QED BY ONLY <2>4, <4>1, <4>2, <4>3
    <3>2. CASE g # h
      <4>1. leases'[g] = {s \in Seqs : entries[s].holder = g}
        BY ONLY <2>2, <2>3, <3>2, g \in Holders
      <4>2. \A s \in Seqs : entries'[s].holder = g <=> entries[s].holder = g
        BY ONLY <1>1, <2>1, <2>3, <3>2, g \in Holders
      <4> QED BY ONLY <4>1, <4>2
    <3> QED BY <3>1, <3>2
  <2> QED BY ONLY <1>1, <2>5 DEF LeasesAgree
<1>9. ASSUME NEW k \in Keys
      PROVE  /\ leasedPerKey'[k] = Cardinality(OfKey(Leased(Seqs), k)')
             /\ leasedPerKey'[k] \in Nat
  <2> DEFINE A == OfKey(Leased(Seqs), k)
             B == OfKey(S, k)
  <2>1. OfKey(Leased(Seqs), k)' = A \cup B
    BY <1>1, <1>3 DEF OfKey, Leased
  <2>2. IsFiniteSet(A) /\ IsFiniteSet(B)
    BY FS_Subset DEF OfKey, Leased
  <2>3. A \cap B = {}
    BY <1>2 DEF OfKey, Leased, Unleased
  <2>4. /\ Cardinality(A \cup B) =
              Cardinality(A) + Cardinality(B) - Cardinality(A \cap B)
        /\ IsFiniteSet(A \cup B)
    BY <2>2, FS_Union
  <2>5. leasedPerKey'[k] = leasedPerKey[k] + Cardinality(B)
    BY DEF StartLease
  <2>6. leasedPerKey[k] = Cardinality(A)
    BY DEF IndexesAgree, LeasedPerKeyAgrees
  <2>7. Cardinality(A) \in Nat /\ Cardinality(B) \in Nat /\ Cardinality({}) = 0
    BY <2>2, FS_CardinalityType, FS_EmptySet
  <2>8. Cardinality(A \cup B) = Cardinality(A) + Cardinality(B)
    <3>1. Cardinality(A \cap B) = 0 BY <2>3, <2>7
    <3> HIDE DEF A, B
    <3> QED BY <3>1, <2>4, <2>7
  <2> QED BY <2>1, <2>5, <2>6, <2>7, <2>8
<1>10. LeasedPerKeyAgrees'
  BY <1>9 DEF LeasedPerKeyAgrees
<1>11. IndexTypeOK'
  <2>1. /\ available' \subseteq Seqs'
        /\ queuedPerKey' \in [Keys -> SUBSET Seqs']
        /\ leases' \in [Holders -> SUBSET Seqs']
    BY <1>1 DEF StartLease, Unlink
  <2>2. leasedPerKey' \in [Keys -> Nat]
    BY <1>9 DEF StartLease
  <2> QED BY <1>1, <2>1, <2>2
<1>12. Keyless' = (Keyless \ OfKey(S, NoKey)) \cup {}
  BY <1>5 DEF Keyless, OfKey
<1>13. EligibleAgrees'
  <2>1. OfKey(S, NoKey) \subseteq OfKey(Seqs, NoKey) BY DEF OfKey
  <2>2. Rekeyed({}, OfKey(S, NoKey)) BY DEF StartLease
  <2> QED BY <1>7, <1>10, <1>11, <1>12, <2>1, <2>2, RekeyedStep
<1> QED BY <1>6, <1>7, <1>8, <1>10, <1>11, <1>13 DEF IndexesAgree

\* commit keeps every index right: next_seq is above every stored seq.
LEMMA CommitStep ==
    ASSUME StateTypeOK, IndexesAgree, NEW p \in Producers,
           NEW key \in Keys \cup {NoKey}, NEW ackId \in AckIds,
           thread[p].size \in Sizes, Commit(p, key, ackId)
    PROVE  IndexTypeOK' /\ IndexesAgree'
<1> DEFINE n == nextSeq
<1>0. IndexTypeOK /\ n \in Nat /\ n \notin Seqs
  BY DEF StateTypeOK, IndexTypeOK
<1> USE DEF IndexTypeOK
<1>1. /\ Seqs' = Seqs \cup {n}
      /\ \A s \in Seqs : entries'[s] = entries[s]
      /\ entries'[n].key = key /\ entries'[n].holder = NoHolder
      /\ entries' \in [Seqs' -> Entry]
  BY <1>0 DEF Commit, Seqs, Entry
<1>2. Leased(Seqs)' = Leased(Seqs)
  BY <1>0, <1>1 DEF Leased
<1>3. Unleased' = Unleased \cup {n}
  BY <1>0, <1>1, <1>2 DEF Unleased, Leased
<1>4. \A k : OfKey(Unleased, k)' =
              IF k = key THEN OfKey(Unleased, k) \cup {n} ELSE OfKey(Unleased, k)
  BY <1>0, <1>1, <1>3 DEF OfKey, Unleased
<1>5. AvailableAgrees'
  BY <1>3 DEF AvailableAgrees, IndexesAgree, Commit
<1>6. QueuedAgrees'
  BY <1>4 DEF QueuedAgrees, IndexesAgree, Commit
<1>7. LeasesAgree'
  BY <1>0, <1>1, SentinelAssumption DEF LeasesAgree, IndexesAgree, Commit
<1>8. LeasedPerKeyAgrees'
  <2>1. \A k \in Keys : OfKey(Leased(Seqs), k)' = OfKey(Leased(Seqs), k)
    BY <1>1, <1>2 DEF OfKey, Leased
  <2> QED BY <2>1 DEF LeasedPerKeyAgrees, IndexesAgree, Commit
<1>9. IndexTypeOK'
  <2>1. IsFiniteSet(Seqs') BY <1>0, <1>1, FS_AddElement
  <2>2. /\ available' \subseteq Seqs'
        /\ queuedPerKey' \in [Keys -> SUBSET Seqs']
        /\ leases' \in [Holders -> SUBSET Seqs']
        /\ leasedPerKey' \in [Keys -> Nat]
    BY <1>0, <1>1 DEF Commit
  <2> QED BY <1>0, <1>1, <2>1, <2>2
<1>10. Keyless' = (Keyless \ {}) \cup (IF key = NoKey THEN {n} ELSE {})
  BY <1>4 DEF Keyless
<1>11. EligibleAgrees'
  <2>1. Rekeyed(IF key = NoKey THEN {n} ELSE {}, {}) BY DEF Commit
  <2> QED BY <1>0, <1>6, <1>8, <1>9, <1>10, <2>1, RekeyedStep
<1> QED BY <1>5, <1>6, <1>7, <1>8, <1>9, <1>11 DEF IndexesAgree

\* held only moves deadlines and keeps every index right.
LEMMA HeldStep ==
    ASSUME IndexTypeOK, IndexesAgree, cfg \in QueueConfig, NEW at \in Nat,
           NEW h \in Holders, NEW min, Held(h, min, at)
    PROVE  IndexTypeOK' /\ IndexesAgree'
<1>0. Deadline(at) \in Nat \cup {NoDeadline}
  BY DEF Deadline, QueueConfig
<1>1. /\ Seqs' = Seqs
      /\ \A s \in Seqs : /\ entries'[s].key = entries[s].key
                         /\ entries'[s].holder = entries[s].holder
      /\ entries' \in [Seqs -> Entry]
  BY <1>0, SMTT(40) DEF Held, Seqs, Entry, IndexTypeOK
<1>2. /\ Leased(Seqs)' = Leased(Seqs)
      /\ Unleased' = Unleased
  BY <1>1 DEF Leased, Unleased
<1>3. \A k : /\ OfKey(Unleased, k)' = OfKey(Unleased, k)
             /\ OfKey(Leased(Seqs), k)' = OfKey(Leased(Seqs), k)
             /\ OfKey(Seqs, k)' = OfKey(Seqs, k)
  BY <1>1, <1>2 DEF OfKey, Unleased, Leased
<1>4. /\ AvailableAgrees' /\ QueuedAgrees' /\ LeasesAgree' /\ LeasedPerKeyAgrees'
  BY <1>1, <1>2, <1>3 DEF Held, IndexesAgree, AvailableAgrees, QueuedAgrees,
     LeasesAgree, LeasedPerKeyAgrees
<1>5. EligibleAgrees'
  <2>1. \A s \in Unleased : s \in Seqs BY DEF Unleased
  <2>2. \A k : \A t \in OfKey(Seqs, k) : t \in Seqs BY DEF OfKey
  <2>3. eligible' = eligible BY DEF Held
  <2>4. EligibleAgrees BY DEF IndexesAgree
  <2> QED BY <1>1, <1>2, <1>3, <2>1, <2>2, <2>3, <2>4 DEF EligibleAgrees
<1> QED BY <1>1, <1>4, <1>5 DEF Held, IndexesAgree, IndexTypeOK

\* purge, which empties the indexes without remove, keeps them right.
LEMMA PurgeStep ==
    ASSUME IndexTypeOK, IndexesAgree, Purge
    PROVE  IndexTypeOK' /\ IndexesAgree'
<1> USE DEF IndexTypeOK
<1>1. /\ Seqs' = Seqs \ available
      /\ \A s \in Seqs' : entries'[s] = entries[s]
      /\ entries' \in [Seqs' -> Entry]
  BY DEF Purge, Seqs
<1>2. /\ available = Unleased
      /\ Seqs' = Leased(Seqs)
  BY <1>1 DEF IndexesAgree, AvailableAgrees, Unleased, Leased
<1>3. /\ Leased(Seqs)' = Leased(Seqs)
      /\ Unleased' = {}
  BY <1>1, <1>2 DEF Leased, Unleased
<1>4. \A k : /\ OfKey(Unleased, k)' = {}
             /\ OfKey(Leased(Seqs), k)' = OfKey(Leased(Seqs), k)
  BY <1>1, <1>2, <1>3 DEF OfKey
<1>5. AvailableAgrees' /\ QueuedAgrees' /\ LeasedPerKeyAgrees'
  BY <1>3, <1>4 DEF Purge, IndexesAgree, AvailableAgrees, QueuedAgrees,
     LeasedPerKeyAgrees
<1>6. LeasesAgree'
  <2>1. \A s \in Seqs : entries[s].holder \in Holders => s \in Leased(Seqs)
    BY SentinelAssumption DEF Leased
  <2> QED BY <1>1, <1>2, <2>1 DEF Purge, IndexesAgree, LeasesAgree
<1>7. EligibleAgrees'
  BY <1>3 DEF Purge, EligibleAgrees
<1>8. IndexTypeOK'
  <2>1. IsFiniteSet(Seqs') BY <1>1, FS_Subset
  <2>2. leases' \in [Holders -> SUBSET Seqs']
    <3>1. \A h \in Holders : leases[h] \subseteq Leased(Seqs)
      BY SentinelAssumption DEF IndexesAgree, LeasesAgree, Leased
    <3> QED BY <1>2, <3>1 DEF Purge
  <2> QED BY <1>1, <2>1, <2>2 DEF Purge
<1> QED BY <1>5, <1>6, <1>7, <1>8 DEF IndexesAgree

\* drain_all empties the entries and every index.
LEMMA DrainAllStep ==
    ASSUME DrainAll
    PROVE  IndexTypeOK' /\ IndexesAgree'
<1>1. Seqs' = {} /\ entries' \in [Seqs' -> Entry]
  BY DEF DrainAll, Seqs
<1>2. Leased(Seqs)' = {} /\ Unleased' = {}
  BY <1>1 DEF Leased, Unleased
<1>3. \A k : OfKey(Unleased, k)' = {} /\ OfKey(Leased(Seqs), k)' = {}
  BY <1>2 DEF OfKey
<1>4. LeasesAgree' /\ AvailableAgrees' /\ EligibleAgrees' /\ QueuedAgrees'
  BY <1>1, <1>2, <1>3 DEF DrainAll, LeasesAgree, AvailableAgrees,
     EligibleAgrees, QueuedAgrees
<1>5. LeasedPerKeyAgrees'
  BY <1>3, FS_EmptySet DEF DrainAll, LeasedPerKeyAgrees
<1>6. IndexTypeOK'
  BY <1>1, FS_EmptySet DEF DrainAll, IndexTypeOK
<1> QED BY <1>4, <1>5, <1>6 DEF IndexesAgree

\* A permit under way is for the size of some item.
PermitSizes == \A p \in Producers : thread[p].pc # "idle" => thread[p].size \in Sizes

\* The invariant of the reservations: permits and counters agree, whatever
\* the threads inside try_reserve and Permit::drop have done so far.
ThreadInv ==
    /\ thread \in [Producers -> Thread]
    /\ reserved \in [items : Nat, bytes : Int]
    /\ ReservationsAgree
    /\ PermitSizes

\* Only finitely many permits of try_reserve are held.
LEMMA ThreadFinite ==
    /\ IsFiniteSet(InState({"holding"}))
    /\ IsFiniteSet(InState({"holding"})')
BY FiniteAssumption, FS_Subset DEF InState

\* try_reserve takes the mutex when nobody is inside it.
LEMMA TryReserveThread ==
    ASSUME ThreadInv, NEW p \in Producers, NEW size \in Sizes, TryReserve(p, size)
    PROVE  ThreadInv'
<1>1. /\ thread' \in [Producers -> Thread]
      /\ thread'[p] = [pc |-> "loading", size |-> size, loaded |-> reserved.items]
      /\ \A q \in Producers \ {p} : thread'[q] = thread[q]
      /\ thread[p].pc = "idle"
      /\ \A q \in Producers : thread[q].pc # "loading"
      /\ reserved' = reserved
  BY DataAssumption DEF ThreadInv, TryReserve, Thread, Unlocked
<1>2. InState({"holding"})' = InState({"holding"})
  BY <1>1 DEF InState
<1>3. InState({"loading"})' = {p}
  BY <1>1 DEF InState
<1>4. ReservationsAgree'
  BY <1>1, <1>2, <1>3 DEF ReservationsAgree, ThreadInv
<1> QED BY <1>1, <1>4 DEF ThreadInv, PermitSizes

\* A granted permit of try_reserve is one more held and one more counted.
LEMMA GrantThread ==
    ASSUME ThreadInv, NEW p \in Producers, thread[p].pc = "loading", GrantPermit(p)
    PROVE  ThreadInv'
<1>0. thread[p] \in Thread
  BY DEF ThreadInv
<1>1. /\ thread' \in [Producers -> Thread]
      /\ thread'[p].pc = "holding" /\ thread'[p].size = thread[p].size
      /\ \A q \in Producers \ {p} : thread'[q] = thread[q]
      /\ reserved' \in [items : Nat, bytes : Int]
      /\ reserved'.items = reserved.items + 1
  <2> DEFINE t == [thread[p] EXCEPT !.pc = "holding", !.loaded = 0]
  <2>1. t \in Thread /\ t.pc = "holding" /\ t.size = thread[p].size
    BY <1>0 DEF Thread
  <2>2. thread' = [thread EXCEPT ![p] = t]
    BY DEF GrantPermit
  <2>3. thread[p].size \in Nat
    BY <1>0 DEF Thread
  <2>4. /\ reserved' \in [items : Nat, bytes : Int]
        /\ reserved'.items = reserved.items + 1
    BY <2>3 DEF ThreadInv, GrantPermit
  <2> HIDE DEF t
  <2> QED BY <2>1, <2>2, <2>4 DEF ThreadInv
<1>2. /\ InState({"holding"})' = InState({"holding"}) \cup {p}
      /\ p \notin InState({"holding"})
  BY <1>1 DEF InState
<1>3. InState({"loading"})' = {}
  BY <1>1 DEF InState, ThreadInv, ReservationsAgree
<1>4. Cardinality(InState({"holding"})') = Cardinality(InState({"holding"})) + 1
  BY <1>2, ThreadFinite, FS_AddElement
<1>5. ReservationsAgree'
  BY <1>1, <1>3, <1>4 DEF ReservationsAgree, ThreadInv
<1> QED BY <1>1, <1>5 DEF ThreadInv, PermitSizes

\* A refusal, or the last step of Permit::drop, holds nothing any more.
LEMMA RefuseThread ==
    ASSUME ThreadInv, NEW p \in Producers, thread[p].pc \in {"loading", "dropping"},
           thread' = [thread EXCEPT ![p] = Idle],
           reserved' \in [items : Nat, bytes : Int],
           reserved'.items = reserved.items
    PROVE  ThreadInv'
<1>1. /\ thread' \in [Producers -> Thread]
      /\ thread'[p].pc = "idle"
      /\ \A q \in Producers \ {p} : thread'[q] = thread[q]
  BY DEF ThreadInv, Thread, Idle
<1>2. /\ InState({"holding"})' = InState({"holding"})
      /\ InState({"loading"})' \subseteq InState({"loading"}) \ {p}
  BY <1>1 DEF InState
<1>3. ReservationsAgree'
  <2>1. ReservationsAgree
    BY DEF ThreadInv
  <2>2. \A q \in InState({"loading"})' : thread'[q] = thread[q]
    BY <1>1, <1>2 DEF InState
  <2> QED BY ONLY <1>2, <2>1, <2>2, reserved'.items = reserved.items
          DEF ReservationsAgree
<1> QED BY <1>1, <1>3 DEF ThreadInv, PermitSizes

\* Permit::drop, or commit, gives back the item: one permit fewer is held
\* and one fewer counted.
LEMMA DropThread ==
    ASSUME ThreadInv, NEW p \in Producers, thread[p].pc = "holding",
           NEW t \in Thread, t.pc \in {"idle", "dropping"},
           t.pc = "dropping" => t.size \in Sizes,
           thread' = [thread EXCEPT ![p] = t],
           reserved' = [items |-> reserved.items - 1, bytes |-> reserved'.bytes],
           reserved'.bytes \in Int
    PROVE  ThreadInv'
<1>1. /\ thread' \in [Producers -> Thread]
      /\ thread'[p] = t
      /\ \A q \in Producers \ {p} : thread'[q] = thread[q]
  BY DEF ThreadInv
<1>2. /\ InState({"holding"})' = InState({"holding"}) \ {p}
      /\ p \in InState({"holding"})
      /\ InState({"loading"})' = InState({"loading"})
      /\ p \notin InState({"loading"})
  BY <1>1 DEF InState
<1>3. Cardinality(InState({"holding"})') = Cardinality(InState({"holding"})) - 1
  BY <1>2, ThreadFinite, FS_RemoveElement
<1>4. Cardinality(InState({"holding"})') \in Nat
  BY ThreadFinite, FS_CardinalityType
<1>5. /\ reserved'.items = Cardinality(InState({"holding"})')
      /\ reserved'.items <= reserved.items
      /\ reserved' \in [items : Nat, bytes : Int]
  BY <1>3, <1>4 DEF ThreadInv, ReservationsAgree
<1>6. \A q \in InState({"loading"}) :
          thread'[q] = thread[q] /\ thread[q].loaded >= reserved.items
                                 /\ thread[q].loaded \in Nat
  BY <1>1, <1>2 DEF InState, ThreadInv, ReservationsAgree, Thread
<1>7. ReservationsAgree'
  BY <1>2, <1>5, <1>6 DEF ReservationsAgree, ThreadInv
<1> QED BY <1>1, <1>5, <1>7 DEF ThreadInv, PermitSizes

\* The rest of the state: the config, the next seq, the owed wake-ups, the clock.
CallTypeOK ==
    /\ cfg \in Configs
    /\ nextSeq \in 0 .. MaxSeq
    /\ Seqs \subseteq 0 .. nextSeq - 1
    /\ owed \in 0 .. MaxOwed
    /\ now \in 0 .. MaxInstant

\* The invariant of Inner: its shape, and its indexes agree with its entries.
IndexInv == IndexTypeOK /\ IndexesAgree

\* The inductive invariant of LeaseQueue.
IInv == IndexInv /\ ThreadInv /\ CallTypeOK

\* The invariant gives every variable of the queue its shape.
LEMMA IInvTypes == IInv => StateTypeOK
<1> SUFFICES ASSUME IInv PROVE StateTypeOK OBVIOUS
<1>1. eligible \subseteq Seqs
  BY DEF IInv, IndexInv, IndexesAgree, EligibleAgrees, Unleased
<1> QED BY <1>1 DEF IInv, IndexInv, IndexTypeOK, ThreadInv, CallTypeOK, StateTypeOK

\* An empty queue (LeaseQueue::new) satisfies the invariant.
LEMMA InitIInv == Init => IInv
<1> SUFFICES ASSUME Init PROVE IInv OBVIOUS
<1>1. Seqs = {} /\ entries \in [Seqs -> Entry]
  BY DEF Init, Seqs
<1>2. Leased(Seqs) = {} /\ Unleased = {}
  BY <1>1 DEF Leased, Unleased
<1>3. \A k : OfKey(Unleased, k) = {} /\ OfKey(Leased(Seqs), k) = {}
  BY <1>2 DEF OfKey
<1>4. LeasesAgree /\ AvailableAgrees /\ EligibleAgrees /\ QueuedAgrees
  BY <1>1, <1>2, <1>3 DEF Init, LeasesAgree, AvailableAgrees, EligibleAgrees,
     QueuedAgrees
<1>5. LeasedPerKeyAgrees
  BY <1>3, FS_EmptySet DEF Init, LeasedPerKeyAgrees
<1>6. IndexTypeOK
  BY <1>1, FS_EmptySet DEF Init, IndexTypeOK
<1>7. CallTypeOK
  BY <1>1, BoundAssumption DEF Init, CallTypeOK
<1>8. ThreadInv
  <2>1. /\ thread \in [Producers -> Thread]
        /\ \A p \in Producers : thread[p].pc = "idle"
        /\ reserved \in [items : Nat, bytes : Int] /\ reserved.items = 0
    BY DEF Init, Idle, Thread
  <2>2. InState({"holding"}) = {} /\ InState({"loading"}) = {}
    BY <2>1 DEF InState
  <2> QED BY <2>1, <2>2, FS_EmptySet DEF ThreadInv, ReservationsAgree, PermitSizes
<1> QED BY <1>4, <1>5, <1>6, <1>7, <1>8 DEF IInv, IndexInv, IndexesAgree

\* A call that does not touch Inner keeps its indexes right.
LEMMA SameIndex ==
    ASSUME IndexInv, UNCHANGED innerVars
    PROVE  IndexInv'
BY DEF innerVars, IndexInv, IndexTypeOK, IndexesAgree, AvailableAgrees,
   QueuedAgrees, LeasesAgree, LeasedPerKeyAgrees, EligibleAgrees, Unleased,
   OfKey, Leased, Seqs

\* A call that neither reserves nor drops a permit keeps ThreadInv.
LEMMA SameThread ==
    ASSUME ThreadInv, UNCHANGED <<thread, reserved>>
    PROVE  ThreadInv'
BY DEF ThreadInv, ReservationsAgree, PermitSizes, InState

\* A call that adds no item and keeps the config keeps CallTypeOK.
LEMMA SameCall ==
    ASSUME CallTypeOK, UNCHANGED <<cfg, nextSeq, now>>, Seqs' \subseteq Seqs,
           owed' \in 0 .. MaxOwed
    PROVE  CallTypeOK'
BY DEF CallTypeOK

\* A notify_waiters call to be made stays within the bound on them.
LEMMA OweType ==
    ASSUME CallTypeOK, NEW wake, Owe(wake)
    PROVE  owed' \in 0 .. MaxOwed
BY BoundAssumption DEF CallTypeOK, Owe

\* remove takes away just the entries it is given.
LEMMA RemoveSeqs ==
    ASSUME NEW S, Remove(S) PROVE Seqs' = Seqs \ S
BY DEF Remove, Seqs

\* requeue takes no entry away.
LEMMA RequeueSeqs ==
    ASSUME NEW S, Requeue(S) PROVE Seqs' = Seqs
BY DEF Requeue, Seqs

\* The steps of try_reserve, commit and Permit::drop keep the invariant.
LEMMA ProducerIInv ==
    ASSUME IInv, NEW p \in Producers, ProducerStep(p)
    PROVE  IInv'
<1> USE DEF IInv
<1>0. thread[p] \in Thread /\ reserved \in [items : Nat, bytes : Int]
  BY DEF ThreadInv
<1>1. ASSUME NEW size \in Sizes, TryReserve(p, size) PROVE IInv'
  <2>1. IndexInv' BY <1>1, SameIndex DEF TryReserve
  <2>2. ThreadInv' BY <1>1, TryReserveThread
  <2>3. CallTypeOK' BY <1>1 DEF TryReserve, CallTypeOK, innerVars, Seqs
  <2> QED BY <2>1, <2>2, <2>3
<1>2. CASE Grant(p)
  <2>1. IndexInv' BY <1>2, SameIndex DEF Grant
  <2>2. ThreadInv' BY <1>2, GrantThread DEF Grant
  <2>3. CallTypeOK' BY <1>2 DEF Grant, CallTypeOK, innerVars, Seqs
  <2> QED BY <2>1, <2>2, <2>3
<1>3. CASE Refuse(p)
  <2>1. IndexInv' BY <1>3, SameIndex DEF Refuse
  <2>2. ThreadInv' BY <1>0, <1>3, RefuseThread DEF Refuse
  <2>3. CallTypeOK' BY <1>3 DEF Refuse, CallTypeOK, innerVars, Seqs
  <2> QED BY <2>1, <2>2, <2>3
<1>4. CASE Evict(p)
  <2>1. PICK S \in SUBSET available : Remove(S)
    BY <1>4 DEF Evict
  <2>2. S \in SUBSET Seqs BY DEF IndexInv, IndexTypeOK
  <2>3. IndexInv' BY <2>1, <2>2, RemoveStep DEF IndexInv
  <2>4. ThreadInv'
    <3>1. CASE GrantPermit(p)
      BY <1>4, <3>1, GrantThread DEF Evict
    <3>2. CASE thread' = [thread EXCEPT ![p] = Idle] /\ UNCHANGED reserved
      BY <1>0, <1>4, <3>2, RefuseThread DEF Evict
    <3> QED BY <1>4, <3>1, <3>2 DEF Evict
  <2>5. CallTypeOK'
    <3>1. Seqs' \subseteq Seqs BY <2>1, RemoveSeqs
    <3>2. UNCHANGED <<cfg, nextSeq, now>> /\ owed' \in 0 .. MaxOwed
      BY <1>4 DEF Evict, CallTypeOK
    <3> QED BY <3>1, <3>2, SameCall
  <2> QED BY <2>3, <2>4, <2>5
<1>5. CASE Cancel(p)
  <2>1. IndexInv' BY <1>5, SameIndex DEF Cancel
  <2>2. ThreadInv'
    <3> DEFINE t == [thread[p] EXCEPT !.pc = "dropping"]
    <3>1. t \in Thread /\ t.pc = "dropping" /\ t.size = thread[p].size
      BY <1>0 DEF Thread
    <3>2. t.size \in Sizes BY <1>5, <3>1 DEF Cancel, ThreadInv, PermitSizes
    <3>3. thread' = [thread EXCEPT ![p] = t] BY <1>5 DEF Cancel
    <3>4. /\ reserved' = [items |-> reserved.items - 1, bytes |-> reserved'.bytes]
          /\ reserved'.bytes \in Int
      BY <1>0, <1>5 DEF Cancel
    <3>5. thread[p].pc = "holding" BY <1>5 DEF Cancel
    <3> HIDE DEF t
    <3> QED BY <3>1, <3>2, <3>3, <3>4, <3>5, DropThread
  <2>3. CallTypeOK' BY <1>5 DEF Cancel, CallTypeOK, innerVars, Seqs
  <2> QED BY <2>1, <2>2, <2>3
<1>6. CASE FinishCancel(p)
  <2>1. IndexInv' BY <1>6, SameIndex DEF FinishCancel
  <2>2. ThreadInv'
    <3>1. /\ reserved' \in [items : Nat, bytes : Int]
          /\ reserved'.items = reserved.items
      BY <1>0, <1>6 DEF FinishCancel, Thread
    <3> QED BY <1>6, <3>1, RefuseThread DEF FinishCancel
  <2>3. CallTypeOK' BY <1>6 DEF FinishCancel, CallTypeOK, innerVars, Seqs
  <2> QED BY <2>1, <2>2, <2>3
<1>7. ASSUME NEW key \in Keys \cup {NoKey}, NEW ackId \in AckIds, Commit(p, key, ackId)
      PROVE  IInv'
  <2>1. thread[p].pc = "holding" /\ thread[p].size \in Sizes
    BY <1>7 DEF Commit, ThreadInv, PermitSizes
  <2>2. IndexInv' BY <1>7, <2>1, CommitStep, IInvTypes DEF IndexInv
  <2>3. ThreadInv'
    <3>1. Idle \in Thread /\ Idle.pc = "idle" BY DEF Idle, Thread
    <3>2. thread' = [thread EXCEPT ![p] = Idle] BY <1>7 DEF Commit
    <3>3. thread[p].size \in Nat BY <1>0 DEF Thread
    <3>4. /\ reserved' = [items |-> reserved.items - 1, bytes |-> reserved'.bytes]
          /\ reserved'.bytes \in Int
      BY <1>0, <1>7, <3>3 DEF Commit
    <3> QED BY <2>1, <3>1, <3>2, <3>4, DropThread
  <2>4. CallTypeOK'
    <3>1. owed' \in 0 .. MaxOwed BY <1>7, OweType DEF Commit
    <3>2. Seqs' = Seqs \cup {nextSeq} BY <1>7 DEF Commit, Seqs
    <3> QED BY <1>7, <3>1, <3>2, BoundAssumption DEF Commit, CallTypeOK
  <2> QED BY <2>2, <2>3, <2>4
<1> QED BY <1>1, <1>2, <1>3, <1>4, <1>5, <1>6, <1>7 DEF ProducerStep

\* ack_where and ack_seq keep the invariant.
LEMMA AckIInv ==
    ASSUME IInv, NEW S \in SUBSET Seqs, AckWhere(S)
    PROVE  IInv'
<1> USE DEF IInv
<1>1. IndexInv' BY RemoveStep DEF AckWhere, IndexInv
<1>2. ThreadInv' BY SameThread DEF AckWhere
<1>3. CallTypeOK'
  <2>1. Seqs' \subseteq Seqs BY RemoveSeqs DEF AckWhere
  <2>2. owed' \in 0 .. MaxOwed BY OweType DEF AckWhere
  <2> QED BY <2>1, <2>2, SameCall DEF AckWhere
<1> QED BY <1>1, <1>2, <1>3

\* A release or an expiry keeps the invariant.
LEMMA RequeueIInv ==
    ASSUME IInv, NEW S \in SUBSET Leased(Seqs), Requeue(S), Owe(TRUE),
           UNCHANGED <<cfg, nextSeq, reserved, thread, now>>
    PROVE  IInv'
<1> USE DEF IInv
<1>1. IndexInv' BY RequeueStep DEF IndexInv
<1>2. ThreadInv' BY SameThread
<1>3. CallTypeOK'
  <2>1. Seqs' \subseteq Seqs BY RequeueSeqs
  <2>2. owed' \in 0 .. MaxOwed BY OweType
  <2> QED BY <2>1, <2>2, SameCall
<1> QED BY <1>1, <1>2, <1>3

\* What Inner.leases lists for a holder are leased entries.
LEMMA LeasedByHolder ==
    ASSUME IndexInv, NEW h \in Holders
    PROVE  leases[h] \subseteq Leased(Seqs) /\ Leased(Seqs) \subseteq Seqs
BY SentinelAssumption DEF IndexInv, IndexesAgree, LeasesAgree, Leased

\* lease keeps the invariant, however many it may take.
LEMMA LeaseIInv ==
    ASSUME IInv, NEW h \in Holders, NEW max, NEW at \in Nat, Lease(h, max, at)
    PROVE  IInv'
<1> USE DEF IInv
<1> DEFINE S == Take(Candidates, max)
<1>0. cfg \in QueueConfig /\ owed \in 0 .. MaxOwed
  BY DataAssumption DEF CallTypeOK
<1>1. S \in SUBSET available
  BY DEF Take, Candidates, IndexInv, IndexesAgree, EligibleAgrees, AvailableAgrees
<1>2. StartLease(S, h, at) BY DEF Lease
<1>3. IndexInv' BY <1>0, <1>1, <1>2, StartLeaseStep DEF IndexInv
<1>4. ThreadInv' BY SameThread DEF Lease
<1>5. Seqs' = Seqs BY <1>2 DEF StartLease, Seqs
<1>6. CallTypeOK' BY <1>0, <1>5, SameCall DEF Lease
<1> QED BY <1>3, <1>4, <1>6

\* held keeps the invariant, whatever it is asked from.
LEMMA HeldIInv ==
    ASSUME IInv, NEW h \in Holders, NEW min, NEW at \in Nat, Held(h, min, at)
    PROVE  IInv'
<1> USE DEF IInv
<1>0. cfg \in QueueConfig /\ owed \in 0 .. MaxOwed
  BY DataAssumption DEF CallTypeOK
<1>1. IndexInv' BY <1>0, HeldStep DEF IndexInv
<1>2. ThreadInv' BY SameThread DEF Held
<1>3. Seqs' = Seqs BY DEF Held, Seqs
<1>4. CallTypeOK' BY <1>0, <1>3, SameCall DEF Held
<1> QED BY <1>1, <1>2, <1>4

\* A holder's calls (lease, held, acks, release_seq) keep the invariant.
LEMMA HolderIInv ==
    ASSUME IInv, NEW h \in Holders, HolderStep(h)
    PROVE  IInv'
<1> USE DEF IInv
<1>0. now \in Nat
  BY BoundAssumption DEF CallTypeOK
<1>1. ASSUME NEW max \in 1 .. MaxBatch, NEW at \in 0 .. now, Lease(h, max, at) PROVE IInv'
  BY <1>0, <1>1, LeaseIInv
<1>2. ASSUME NEW min \in Offsets, NEW at \in 0 .. now, Held(h, min, at) PROVE IInv'
  BY <1>0, <1>2, HeldIInv
<1>3. ASSUME NEW offset \in Offsets, AckBelow(h, offset) PROVE IInv'
  <2>1. {s \in leases[h] : entries[s].ackId < offset} \in SUBSET Seqs
    BY LeasedByHolder
  <2> QED BY <1>3, <2>1, AckIInv DEF AckBelow
<1>4. CASE AckAll(h)
  <2>1. leases[h] \in SUBSET Seqs BY LeasedByHolder
  <2> QED BY <1>4, <2>1, AckIInv DEF AckAll
<1>5. ASSUME NEW s \in Seqs, AckSeq(h, s) PROVE IInv'
  <2>1. {s} \in SUBSET Seqs OBVIOUS
  <2> QED BY <1>5, <2>1, AckIInv DEF AckSeq
<1>6. ASSUME NEW s \in Seqs, ReleaseSeq(h, s) PROVE IInv'
  <2>1. {s} \in SUBSET Leased(Seqs) BY <1>6, LeasedByHolder DEF ReleaseSeq
  <2> QED BY <1>6, <2>1, RequeueIInv DEF ReleaseSeq
<1> QED BY <1>1, <1>2, <1>3, <1>4, <1>5, <1>6 DEF HolderStep

\* Every step of the queue keeps the invariant.
LEMMA NextIInv == IInv /\ [Next]_vars => IInv'
<1> SUFFICES ASSUME IInv, [Next]_vars PROVE IInv' OBVIOUS
<1> USE DEF IInv
<1>0. owed \in 0 .. MaxOwed BY DEF CallTypeOK
<1>1. ASSUME NEW p \in Producers, ProducerStep(p) PROVE IInv'
  BY <1>1, ProducerIInv
<1>2. ASSUME NEW h \in Holders, HolderStep(h) PROVE IInv'
  BY <1>2, HolderIInv
<1>3. ASSUME NEW at \in 0 .. now, Expire(at) PROVE IInv'
  <2>1. Expired(at) \in SUBSET Leased(Seqs) BY LeasedByHolder DEF Expired
  <2> QED BY <1>3, <2>1, RequeueIInv DEF Expire
<1>4. CASE Purge
  <2>1. IndexInv' BY <1>4, PurgeStep DEF IndexInv
  <2>2. ThreadInv' BY <1>4, SameThread DEF Purge
  <2>3. Seqs' \subseteq Seqs BY <1>4 DEF Purge, Seqs
  <2>4. CallTypeOK' BY <1>0, <1>4, <2>3, SameCall DEF Purge
  <2> QED BY <2>1, <2>2, <2>4
<1>5. ASSUME NEW S \in SUBSET available, PurgeWhere(S) PROVE IInv'
  <2>1. S \in SUBSET Seqs BY DEF IndexInv, IndexTypeOK
  <2>2. IndexInv' BY <1>5, <2>1, RemoveStep DEF PurgeWhere, IndexInv
  <2>3. ThreadInv' BY <1>5, SameThread DEF PurgeWhere
  <2>4. Seqs' \subseteq Seqs BY <1>5, RemoveSeqs DEF PurgeWhere
  <2>5. CallTypeOK' BY <1>0, <1>5, <2>4, SameCall DEF PurgeWhere
  <2> QED BY <2>2, <2>3, <2>5
<1>6. CASE DrainAll
  <2>1. IndexInv' BY <1>6, DrainAllStep DEF IndexInv
  <2>2. ThreadInv' BY <1>6, SameThread DEF DrainAll
  <2>3. Seqs' \subseteq Seqs BY <1>6 DEF DrainAll, Seqs
  <2>4. CallTypeOK' BY <1>0, <1>6, <2>3, SameCall DEF DrainAll
  <2> QED BY <2>1, <2>2, <2>4
<1>7. ASSUME NEW c \in Configs, SetConfig(c) PROVE IInv'
  <2>1. IndexInv' BY <1>7, SameIndex DEF SetConfig
  <2>2. ThreadInv' BY <1>7, SameThread DEF SetConfig
  <2>3. owed' \in 0 .. MaxOwed BY <1>7, OweType DEF SetConfig
  <2>4. CallTypeOK' BY <1>7, <2>3 DEF SetConfig, CallTypeOK, innerVars, Seqs
  <2> QED BY <2>1, <2>2, <2>4
<1>8. CASE NotifyWaiters
  <2>1. IndexInv' BY <1>8, SameIndex DEF NotifyWaiters
  <2>2. ThreadInv' BY <1>8, SameThread DEF NotifyWaiters
  <2>3. CallTypeOK'
    BY <1>8, BoundAssumption DEF NotifyWaiters, CallTypeOK, innerVars, Seqs
  <2> QED BY <2>1, <2>2, <2>3
<1>9. CASE Tick
  <2>1. IndexInv' BY <1>9, SameIndex DEF Tick
  <2>2. ThreadInv' BY <1>9, SameThread DEF Tick
  <2>3. CallTypeOK' BY <1>9, BoundAssumption DEF Tick, CallTypeOK, innerVars, Seqs
  <2> QED BY <2>1, <2>2, <2>3
<1>10. CASE UNCHANGED vars
  <2>1. IndexInv' BY <1>10, SameIndex DEF vars
  <2>2. ThreadInv' BY <1>10, SameThread DEF vars
  <2>3. CallTypeOK' BY <1>10 DEF vars, CallTypeOK, innerVars, Seqs
  <2> QED BY <2>1, <2>2, <2>3
<1> QED BY <1>1, <1>2, <1>3, <1>4, <1>5, <1>6, <1>7, <1>8, <1>9, <1>10 DEF Next

\* The invariant holds of the queue at all times, for all callers and configs.
THEOREM Invariance == Spec => []IInv
BY InitIInv, NextIInv, PTL DEF Spec

\* The indexes of Inner, which every method adjusts and none recomputes, are
\* at all times what a scan of the entries would find.
THEOREM IndexCorrect == Spec => []IndexesAgree
<1>1. IInv => IndexesAgree BY DEF IInv, IndexInv
<1> QED BY <1>1, Invariance, PTL

\* The item counter of Reservations counts the permits held, and what
\* try_reserve loads of it is never too low, although Permit::drop changes
\* the counters without the mutex.
THEOREM ReservationCorrect == Spec => []ReservationsAgree
<1>1. IInv => ReservationsAgree BY DEF IInv, ThreadInv
<1> QED BY <1>1, Invariance, PTL

\* A set of seqs that is not empty has a lowest one, which eligible_of picks.
LEMMA SmallestNat ==
    ASSUME NEW T \in SUBSET Nat, T # {}
    PROVE  \E x \in T : \A y \in T : x <= y
<1> DEFINE R == OpToRel(<, Nat)
<1>1. IsWellFoundedOn(R, Nat) BY NatLessThanWellFounded
<1>2. \A x, y \in Nat : <<y, x>> \in R <=> y < x BY DEF OpToRel
<1> HIDE DEF R
<1>3. PICK x \in T : \A y \in T : ~(<<y, x>> \in R) BY <1>1, WFMin
<1>4. ASSUME NEW y \in T PROVE x <= y
  <2>1. x \in Nat /\ y \in Nat OBVIOUS
  <2>2. ~(y < x) BY <1>2, <1>3, <2>1
  <2> QED BY <2>1, <2>2
<1> QED BY <1>4

\* A finite set of numbers that is not empty has a highest member.
LEMMA LargestNat ==
    ASSUME NEW T \in SUBSET Nat, IsFiniteSet(T), T # {}
    PROVE  \E x \in T : \A y \in T : y <= x
<1> DEFINE above(x) == {y \in T : y > x}
           sizes == {Cardinality(above(x)) : x \in T}
<1>1. ASSUME NEW x \in T PROVE IsFiniteSet(above(x)) /\ Cardinality(above(x)) \in Nat
  BY FS_Subset, FS_CardinalityType
<1>2. sizes \in SUBSET Nat /\ sizes # {}
  BY <1>1
<1>3. PICK n \in sizes : \A m \in sizes : n <= m
  BY <1>2, SmallestNat
<1>4. PICK x \in T : n = Cardinality(above(x))
  BY <1>3
<1>5. ASSUME NEW y \in T, ~(y <= x) PROVE FALSE
  <2>1. x \in Nat /\ y \in Nat /\ y > x
    BY <1>5
  <2>2. PICK A, B : A = above(x) /\ B = above(y)
    OBVIOUS
  <2>3. B \in SUBSET A /\ B # A
    <3>1. \A z \in T : z \in Nat
      OBVIOUS
    <3>2. \A z : z \in B => z \in A
      BY <2>1, <2>2, <3>1
    <3>3. y \in A /\ y \notin B
      BY <2>1, <2>2
    <3> QED
      BY <3>2, <3>3
  <2>4. IsFiniteSet(A) /\ Cardinality(A) \in Nat /\ Cardinality(B) \in Nat
    BY <1>1, <2>2
  <2>5. Cardinality(A) <= Cardinality(B)
    BY <1>3, <1>4, <2>2
  <2>6. Cardinality(B) <= Cardinality(A) /\ (Cardinality(A) = Cardinality(B) => A = B)
    BY <2>3, <2>4, FS_Subset
  <2> QED
    BY <2>3, <2>4, <2>5, <2>6
<1> QED
  BY <1>5

\* When eligible is empty, every unleased item has a key of which another
\* item is leased.
LEMMA NothingEligible ==
    ASSUME IndexInv, eligible = {}, NEW s \in Unleased
    PROVE  /\ entries[s].key # NoKey
           /\ \E t \in Leased(Seqs) : entries[t].key = entries[s].key
<1> DEFINE T == OfKey(Seqs, entries[s].key)
<1>1. T \in SUBSET Nat /\ T # {}
  BY DEF OfKey, IndexInv, IndexTypeOK, Unleased
<1>2. PICK x \in T : \A y \in T : x <= y
  <2> HIDE DEF T
  <2> QED BY <1>1, SmallestNat
<1>3. EligibleAgrees BY DEF IndexInv, IndexesAgree
<1>4. entries[s].key # NoKey BY <1>3 DEF EligibleAgrees
<1>5. CASE \A t \in T : entries[t].holder = NoHolder
  <2>1. x \in Unleased BY <1>2, <1>5 DEF OfKey, Unleased, Leased
  <2>2. entries[x].key = entries[s].key BY <1>2 DEF OfKey
  <2>3. x \in eligible BY <1>2, <1>3, <1>5, <2>1, <2>2 DEF EligibleAgrees
  <2> QED BY <2>3
<1>6. CASE \E t \in T : entries[t].holder # NoHolder
  BY <1>4, <1>6 DEF OfKey, Leased
<1> QED BY <1>5, <1>6

\* A call that only removes items, and under PerKey no keyed leased one,
\* does not make an item leasable when none was.
LEMMA StillNothing ==
    ASSUME IInv, IInv', Candidates = {}, cfg' = cfg, Seqs' \subseteq Seqs,
           \A s \in Seqs' : /\ entries'[s].key = entries[s].key
                            /\ entries'[s].holder = entries[s].holder,
           cfg.ordering = "PerKey" =>
             \A s \in Leased(Seqs) : entries[s].key # NoKey => s \in Seqs'
    PROVE  Candidates' = {}
<1>1. Unleased' \subseteq Unleased
  BY DEF Unleased, Leased
<1>2. CASE cfg.ordering = "PerKey"
  <2>1. eligible = {} BY <1>2 DEF Candidates
  <2>2. SUFFICES ASSUME NEW s \in eligible' PROVE FALSE
    BY <1>2 DEF Candidates
  <2>3. EligibleAgrees' BY DEF IInv, IndexInv, IndexesAgree
  <2>4. s \in Unleased' /\ s \in Seqs'
    BY <2>2, <2>3 DEF EligibleAgrees, Unleased
  <2>5. PICK t \in Leased(Seqs) : entries[t].key = entries[s].key
    BY <1>1, <2>1, <2>4, NothingEligible DEF IInv
  <2>6. entries[s].key # NoKey
    BY <1>1, <2>1, <2>4, NothingEligible DEF IInv
  <2>7. t \in Seqs' /\ entries'[t].holder # NoHolder
                     /\ entries'[t].key = entries'[s].key
    BY <1>2, <2>4, <2>5, <2>6 DEF Leased
  <2>8. entries'[s].key # NoKey BY <2>4, <2>6
  <2>9. t \in OfKey(Seqs, entries[s].key)' BY <2>7 DEF OfKey
  <2> QED BY <2>2, <2>3, <2>7, <2>8, <2>9 DEF EligibleAgrees
<1>3. CASE cfg.ordering # "PerKey"
  BY <1>1, <1>3 DEF Candidates, IInv, IndexInv, IndexesAgree, AvailableAgrees
<1> QED BY <1>2, <1>3

\* remove leaves the entries it does not take away as they are.
LEMMA RemoveKeeps ==
    ASSUME NEW S, Remove(S)
    PROVE  /\ Seqs' = Seqs \ S
           /\ \A s \in Seqs' : entries'[s] = entries[s]
BY DEF Remove, Seqs

\* Nor does an ack, unless it owes a notify_waiters.
LEMMA AckWake ==
    ASSUME IInv, IInv', NEW S \in SUBSET Seqs, AckWhere(S), Candidates = {}, Candidates' # {}
    PROVE  owed' > owed
<1>0. owed \in Nat BY BoundAssumption DEF IInv, CallTypeOK
<1>1. CASE cfg.ordering = "PerKey" /\ OfKey(S, NoKey) # S
  BY <1>0, <1>1 DEF AckWhere, Owe
<1>2. CASE ~(cfg.ordering = "PerKey" /\ OfKey(S, NoKey) # S)
  <2>1. /\ Seqs' = Seqs \ S
        /\ \A s \in Seqs' : entries'[s] = entries[s]
    BY RemoveKeeps DEF AckWhere
  <2>2. cfg' = cfg BY DEF AckWhere
  <2>3. cfg.ordering = "PerKey" =>
           \A s \in Leased(Seqs) : entries[s].key # NoKey => s \in Seqs'
    BY <1>2, <2>1 DEF OfKey, Leased
  <2>4. Candidates' = {} BY <2>1, <2>2, <2>3, StillNothing
  <2> QED BY <2>4
<1> QED BY <1>1, <1>2

\* A step that makes an item leasable when none was owes a notify_waiters.
LEMMA WakeStep ==
    ASSUME IInv, IInv', [Next]_vars, Candidates = {}, Candidates' # {}
    PROVE  owed' > owed
<1>0. owed \in Nat BY BoundAssumption DEF IInv, CallTypeOK
<1>1. ASSUME UNCHANGED <<cfg, innerVars>> PROVE FALSE
  BY <1>1 DEF innerVars, Candidates
<1>2. ASSUME NEW S \in SUBSET available, Remove(S), cfg' = cfg PROVE FALSE
  <2>1. \A s \in Leased(Seqs) : s \notin S
    BY DEF IInv, IndexInv, IndexesAgree, AvailableAgrees, Unleased
  <2>2. Leased(Seqs) \subseteq Seqs BY DEF Leased
  <2>3. /\ Seqs' = Seqs \ S
        /\ \A s \in Seqs' : entries'[s] = entries[s]
    BY <1>2, RemoveKeeps
  <2>4. Candidates' = {} BY <1>2, <2>1, <2>2, <2>3, StillNothing
  <2> QED BY <2>4
<1>3. ASSUME NEW S \in SUBSET Seqs, AckWhere(S) PROVE owed' > owed
  BY <1>3, AckWake
<1>4. ASSUME NEW p \in Producers, ProducerStep(p) PROVE owed' > owed
  <2>1. CASE Evict(p)
    <3>1. PICK S \in SUBSET available : Remove(S) BY <2>1 DEF Evict
    <3>2. cfg' = cfg BY <2>1 DEF Evict
    <3> QED BY <1>2, <3>1, <3>2
  <2>2. CASE \E key \in Keys \cup {NoKey}, ackId \in AckIds : Commit(p, key, ackId)
    BY <1>0, <2>2 DEF Commit, Owe
  <2> QED BY <1>1, <1>4, <2>1, <2>2
    DEF ProducerStep, TryReserve, Grant, Refuse, Cancel, FinishCancel
<1>5. ASSUME NEW h \in Holders, HolderStep(h) PROVE owed' > owed
  <2>0. leases[h] \in SUBSET Seqs BY LeasedByHolder DEF IInv
  <2>1. ASSUME NEW max \in 1 .. MaxBatch, NEW at \in 0 .. now, Lease(h, max, at) PROVE FALSE
    BY <2>1 DEF Lease, Take
  <2>2. ASSUME NEW min \in Offsets, NEW at \in 0 .. now, Held(h, min, at) PROVE FALSE
    BY <2>2 DEF Held, Candidates
  <2>3. ASSUME NEW offset \in Offsets, AckBelow(h, offset) PROVE owed' > owed
    <3>1. {s \in leases[h] : entries[s].ackId < offset} \in SUBSET Seqs BY <2>0
    <3> QED BY <1>3, <2>3, <3>1 DEF AckBelow
  <2>4. CASE AckAll(h) BY <1>3, <2>0, <2>4 DEF AckAll
  <2>5. ASSUME NEW s \in Seqs, AckSeq(h, s) PROVE owed' > owed
    <3>1. {s} \in SUBSET Seqs OBVIOUS
    <3> QED BY <1>3, <2>5, <3>1 DEF AckSeq
  <2>6. ASSUME NEW s \in Seqs, ReleaseSeq(h, s) PROVE owed' > owed
    BY <1>0, <2>6 DEF ReleaseSeq, Owe
  <2> QED BY <1>5, <2>1, <2>2, <2>3, <2>4, <2>5, <2>6 DEF HolderStep
<1>6. ASSUME NEW at, Expire(at) PROVE owed' > owed
  BY <1>0, <1>6 DEF Expire, Owe
<1>7. CASE Purge
  BY <1>7 DEF Purge, Candidates
<1>8. ASSUME NEW S \in SUBSET available, PurgeWhere(S) PROVE FALSE
  BY <1>2, <1>8 DEF PurgeWhere
<1>9. CASE DrainAll
  BY <1>9 DEF DrainAll, Candidates
<1>10. ASSUME NEW c \in Configs, SetConfig(c) PROVE owed' > owed
  BY <1>0, <1>10 DEF SetConfig, Owe
<1>11. CASE NotifyWaiters \/ Tick \/ UNCHANGED vars
  BY <1>1, <1>11 DEF NotifyWaiters, Tick, vars
<1> QED BY <1>4, <1>5, <1>6, <1>7, <1>8, <1>9, <1>10, <1>11 DEF Next

\* The methods that call notify_waiters are enough: no other call of the
\* queue ever makes an item leasable when none was.
THEOREM WakeCorrect == Spec => WakeOwed
<1>1. IInv /\ IInv' /\ [Next]_vars
        => [Candidates = {} /\ Candidates' # {} => owed' > owed]_vars
  BY WakeStep
<1> QED BY <1>1, Invariance, PTL DEF Spec, WakeOwed

\* Under PerKey a step leases the oldest item of its key and no second one.
LEMMA LeaseOrderStep ==
    ASSUME IInv, IInv', [Next]_vars, cfg.ordering = "PerKey",
           NEW s \in Seqs \cap Seqs', entries[s].key # NoKey,
           entries[s].holder = NoHolder, entries'[s].holder # NoHolder,
           NEW t \in OfKey(Seqs, entries[s].key) \ {s}
    PROVE  s < t /\ entries'[t].holder = NoHolder
<1>1. ASSUME UNCHANGED entries PROVE FALSE
  BY <1>1
<1>2. ASSUME NEW S, Remove(S) PROVE FALSE
  BY <1>2, RemoveKeeps
<1>3. ASSUME NEW S, Requeue(S) PROVE FALSE
  BY <1>3 DEF Requeue, IInv, IndexInv, IndexTypeOK, Entry
<1>4. ASSUME NEW h \in Holders, NEW max \in 1 .. MaxBatch, NEW at \in 0 .. now, Lease(h, max, at)
      PROVE  s < t /\ entries'[t].holder = NoHolder
  <2> DEFINE S == Take(Candidates, max)
  <2>1. S \subseteq eligible BY DEF Take, Candidates
  <2>2. EligibleAgrees BY DEF IInv, IndexInv, IndexesAgree
  <2>3. \A r \in Seqs : /\ r \notin S => entries'[r].holder = entries[r].holder
    BY <1>4 DEF Lease, StartLease, IInv, IndexInv, IndexTypeOK, Entry
  <2>4. s \in S BY <2>3
  <2>5. t \in Seqs /\ entries[t].key = entries[s].key /\ t # s
    BY DEF OfKey
  <2>6. entries[t].holder = NoHolder /\ s <= t
    BY <2>1, <2>2, <2>4 DEF EligibleAgrees
  <2>7. s \in Nat /\ t \in Nat
    BY <2>5 DEF IInv, IndexInv, IndexTypeOK
  <2>8. s < t BY <2>5, <2>6, <2>7
  <2>9. t \notin S
    <3>1. ASSUME t \in S PROVE FALSE
      <4>1. \A r \in OfKey(Seqs, entries[t].key) : t <= r
        BY <2>1, <2>2, <2>5, <3>1 DEF EligibleAgrees
      <4>2. t <= s BY <2>5, <4>1 DEF OfKey
      <4> QED BY <2>7, <2>8, <4>2
    <3> QED BY <3>1
  <2> QED BY <2>3, <2>5, <2>6, <2>8, <2>9
<1>5. ASSUME NEW h \in Holders, NEW min, NEW at, Held(h, min, at) PROVE FALSE
  BY <1>5 DEF Held, IInv, IndexInv, IndexTypeOK, Entry
<1>6. ASSUME NEW p \in Producers, ProducerStep(p) PROVE FALSE
  <2>1. ASSUME NEW key, NEW ackId, Commit(p, key, ackId) PROVE FALSE
    BY <2>1 DEF Commit, Seqs
  <2>2. CASE Evict(p) BY <1>2, <2>2 DEF Evict
  <2> QED BY <1>1, <1>6, <2>1, <2>2
    DEF ProducerStep, TryReserve, Grant, Refuse, Cancel, FinishCancel, innerVars
<1>7. ASSUME NEW h \in Holders, HolderStep(h)
      PROVE  s < t /\ entries'[t].holder = NoHolder
  BY <1>2, <1>3, <1>4, <1>5, <1>7
     DEF HolderStep, AckBelow, AckAll, AckSeq, AckWhere, ReleaseSeq
<1>8. CASE Purge BY <1>8 DEF Purge, Seqs
<1>9. CASE DrainAll BY <1>9 DEF DrainAll, Seqs
<1> QED BY <1>1, <1>2, <1>3, <1>6, <1>7, <1>8, <1>9
  DEF Next, Expire, PurgeWhere, SetConfig, NotifyWaiters, Tick, vars, innerVars

\* Per-key ordering: lease hands out the items of a key one at a time and in
\* the order of their commits, through acks, releases, expiries and config
\* switches.
THEOREM LeaseOrderCorrect == Spec => KeyedLeaseOrder
<1>1. IInv /\ IInv' /\ [Next]_vars
        => [cfg.ordering = "PerKey" =>
              \A s \in Seqs \cap Seqs' :
                 /\ entries[s].key # NoKey
                 /\ entries[s].holder = NoHolder
                 /\ entries'[s].holder # NoHolder
                 => \A t \in OfKey(Seqs, entries[s].key) \ {s} :
                       s < t /\ entries'[t].holder = NoHolder]_vars
  BY LeaseOrderStep
<1> QED BY <1>1, Invariance, PTL DEF Spec, KeyedLeaseOrder

\* A call that stores nothing and grants no permit does not add items.
LEMMA FewerItems ==
    ASSUME IInv, IInv', Seqs' \subseteq Seqs, reserved'.items <= reserved.items
    PROVE  /\ ~(reserved'.items > reserved.items)
           /\ ItemTotal' <= ItemTotal
<1>1. /\ Cardinality(Seqs) \in Nat /\ Cardinality(Seqs') \in Nat
      /\ Cardinality(Seqs') <= Cardinality(Seqs)
  BY FS_Subset, FS_CardinalityType DEF IInv, IndexInv, IndexTypeOK
<1>2. reserved.items \in Nat /\ reserved'.items \in Nat
  BY DEF IInv, ThreadInv
<1> QED BY <1>1, <1>2 DEF ItemTotal

\* A permit that try_reserve grants fits within the capacity.
LEMMA GrantedFits ==
    ASSUME IInv, IInv', NEW p \in Producers, thread[p].pc = "loading",
           NEW total, Room(p, Cardinality(Seqs'), total), GrantPermit(p)
    PROVE  reserved'.items > reserved.items /\ ItemTotal' <= cfg.capacity
<1>1. Cardinality(Seqs') \in Nat
  BY FS_CardinalityType DEF IInv, IndexInv, IndexTypeOK
<1>2. /\ reserved.items \in Nat
      /\ thread[p].loaded \in Nat /\ thread[p].loaded >= reserved.items
  BY DEF IInv, ThreadInv, ReservationsAgree, InState, Thread
<1>3. reserved'.items = reserved.items + 1 BY DEF GrantPermit
<1>4. cfg.capacity \in Nat
  BY DataAssumption DEF IInv, CallTypeOK, QueueConfig
<1>5. Cardinality(Seqs') + thread[p].loaded < cfg.capacity BY DEF Room
<1> QED BY <1>1, <1>2, <1>3, <1>4, <1>5 DEF ItemTotal

\* Every step of the queue respects the item capacity.
LEMMA CapacityStep ==
    ASSUME IInv, IInv', [Next]_vars
    PROVE  IF reserved'.items > reserved.items
           THEN ItemTotal' <= cfg.capacity
           ELSE ItemTotal' <= ItemTotal
<1> DEFINE Goal == IF reserved'.items > reserved.items
                   THEN ItemTotal' <= cfg.capacity
                   ELSE ItemTotal' <= ItemTotal
<1> SUFFICES Goal OBVIOUS
<1>0. reserved \in [items : Nat, bytes : Int]
  BY DEF IInv, ThreadInv
<1>1. ASSUME Seqs' \subseteq Seqs, UNCHANGED reserved PROVE Goal
  BY <1>0, <1>1, FewerItems
<1>2. ASSUME NEW S, Remove(S), UNCHANGED reserved PROVE Goal
  BY <1>1, <1>2, RemoveKeeps
<1>3. ASSUME NEW S, Requeue(S), UNCHANGED reserved PROVE Goal
  BY <1>1, <1>3, RequeueSeqs
<1>4. ASSUME NEW p \in Producers, ProducerStep(p) PROVE Goal
  <2>1. CASE Grant(p)
    <3>1. Seqs' = Seqs BY <2>1 DEF Grant, innerVars, Seqs
    <3> QED BY <2>1, <3>1, GrantedFits DEF Grant
  <2>2. CASE Evict(p)
    <3> DEFINE upTo(last) == {s \in available : s <= last}
    <3>1. CASE \E last \in available :
                 /\ Room(p, Cardinality(Seqs \ upTo(last)), bytes - SizeOf(upTo(last)))
                 /\ Remove(upTo(last))
                 /\ GrantPermit(p)
      <4>1. PICK last \in available :
                 /\ Room(p, Cardinality(Seqs \ upTo(last)), bytes - SizeOf(upTo(last)))
                 /\ Remove(upTo(last))
                 /\ GrantPermit(p)
        BY <3>1
      <4>2. Seqs' = Seqs \ upTo(last) BY <4>1, RemoveKeeps
      <4>3. Room(p, Cardinality(Seqs'), bytes - SizeOf(upTo(last)))
        BY <4>1, <4>2
      <4>4. thread[p].pc = "loading" BY <2>2 DEF Evict
      <4> QED BY <4>1, <4>3, <4>4, GrantedFits
    <3>2. CASE Remove(available) /\ UNCHANGED reserved
      BY <1>2, <3>2
    <3> QED BY <2>2, <3>1, <3>2 DEF Evict, First
  <2>3. CASE Cancel(p)
    <3>1. reserved'.items <= reserved.items /\ Seqs' = Seqs
      BY <1>0, <2>3 DEF Cancel, innerVars, Seqs
    <3> QED BY <3>1, FewerItems
  <2>4. CASE FinishCancel(p)
    <3>1. reserved'.items <= reserved.items /\ Seqs' = Seqs
      BY <1>0, <2>4 DEF FinishCancel, innerVars, Seqs
    <3> QED BY <3>1, FewerItems
  <2>5. ASSUME NEW key, NEW ackId, Commit(p, key, ackId) PROVE Goal
    <3>1. Seqs' = Seqs \cup {nextSeq} BY <2>5 DEF Commit, Seqs
    <3>2. IsFiniteSet(Seqs) /\ nextSeq \notin Seqs
      BY DEF IInv, IndexInv, IndexTypeOK, CallTypeOK
    <3>3. Cardinality(Seqs') = Cardinality(Seqs) + 1 /\ Cardinality(Seqs) \in Nat
      BY <3>1, <3>2, FS_AddElement, FS_CardinalityType
    <3>4. reserved'.items = reserved.items - 1 BY <2>5 DEF Commit
    <3> QED BY <1>0, <3>3, <3>4 DEF ItemTotal
  <2>6. ASSUME UNCHANGED <<innerVars, reserved>> PROVE Goal
    BY <1>1, <2>6 DEF innerVars, Seqs
  <2> QED BY <1>4, <2>1, <2>2, <2>3, <2>4, <2>5, <2>6
    DEF ProducerStep, TryReserve, Refuse
<1>5. ASSUME NEW h \in Holders, HolderStep(h) PROVE Goal
  <2>1. ASSUME NEW max, NEW at, Lease(h, max, at) PROVE Goal
    BY <1>1, <2>1 DEF Lease, StartLease, Seqs
  <2>2. ASSUME NEW min, NEW at, Held(h, min, at) PROVE Goal
    BY <1>1, <2>2 DEF Held, Seqs
  <2> QED BY <1>2, <1>3, <1>5, <2>1, <2>2
    DEF HolderStep, AckBelow, AckAll, AckSeq, AckWhere, ReleaseSeq
<1>6. CASE Purge BY <1>1, <1>6 DEF Purge, Seqs
<1>7. CASE DrainAll BY <1>1, <1>7 DEF DrainAll, Seqs
<1>8. ASSUME UNCHANGED <<innerVars, reserved>> PROVE Goal
  BY <1>1, <1>8 DEF innerVars, Seqs
<1>9. ASSUME NEW at, Expire(at) PROVE Goal BY <1>3, <1>9 DEF Expire
<1>10. ASSUME NEW S, PurgeWhere(S) PROVE Goal BY <1>2, <1>10 DEF PurgeWhere
<1>11. ASSUME NEW c, SetConfig(c) PROVE Goal BY <1>8, <1>11 DEF SetConfig
<1>12. CASE NotifyWaiters \/ Tick \/ UNCHANGED vars
  BY <1>8, <1>12 DEF NotifyWaiters, Tick, vars
<1> HIDE DEF Goal
<1> QED BY <1>4, <1>5, <1>6, <1>7, <1>9, <1>10, <1>11, <1>12 DEF Next

\* The byte totals of Inner are what a scan of its entries would add up to, and
\* the reserved bytes are those of the permits held or being dropped.
Permits == InState({"holding", "dropping"})
StoredBytes == bytes = SizeOf(Seqs) /\ leasedBytes = SizeOf(Leased(Seqs))
PermitBytes == reserved.bytes = Total([p \in Permits |-> thread[p].size])
ByteInv == StoredBytes /\ PermitBytes

\* The bytes of some entries of Inner are a number, and those of a part of them
\* and of the rest add up to it.
LEMMA SizeSplit ==
    ASSUME IndexTypeOK, NEW S \in SUBSET Seqs, NEW T \in SUBSET S
    PROVE  /\ SizeOf(S) \in Nat /\ SizeOf(T) \in Nat /\ SizeOf(S \ T) \in Nat
           /\ SizeOf(S) = SizeOf(T) + SizeOf(S \ T)
<1> DEFINE f == [s \in S |-> entries[s].size]
           g == [s \in T |-> f[s]]
           h == [s \in S \ T |-> f[s]]
<1>1. IsFiniteSet(S) /\ IsFiniteSet(T) /\ IsFiniteSet(S \ T)
  BY FS_Subset DEF IndexTypeOK
<1>2. f \in [S -> Nat]
  BY DataAssumption DEF IndexTypeOK, Entry
<1>3. Total(f) = Total(g) + Total(h)
  BY <1>1, <1>2, TotalSplit, ZenonT(40)
<1>4. g \in [T -> Nat] /\ h \in [S \ T -> Nat]
  BY <1>2
<1>5. Total(f) \in Nat /\ Total(g) \in Nat /\ Total(h) \in Nat
  BY <1>1, <1>2, <1>4, TotalType
<1>6. g = [s \in T |-> entries[s].size] /\ h = [s \in S \ T |-> entries[s].size]
  OBVIOUS
<1> QED
  BY <1>3, <1>5, <1>6 DEF SizeOf

\* remove (acks, evictions, purge_where) takes off what it removes.
LEMMA RemoveBytes ==
    ASSUME IndexTypeOK, IndexesAgree, NEW S \in SUBSET Seqs, Remove(S), StoredBytes
    PROVE  StoredBytes'
<1>1. /\ Seqs' = Seqs \ S
      /\ \A s \in Seqs' : entries'[s] = entries[s]
  BY RemoveKeeps
<1>2. Leased(Seqs)' = Leased(Seqs) \ S /\ Leased(Seqs) \ S = Leased(Seqs) \ Leased(S)
  BY <1>1 DEF Leased
<1>3. /\ Leased(Seqs) \in SUBSET Seqs /\ Leased(S) \in SUBSET Leased(Seqs)
      /\ Seqs \in SUBSET Seqs
  BY DEF Leased
<1>4. /\ SizeOf(Seqs) \in Nat /\ SizeOf(S) \in Nat /\ SizeOf(Seqs \ S) \in Nat
      /\ SizeOf(Seqs) = SizeOf(S) + SizeOf(Seqs \ S)
  BY <1>3, SizeSplit
<1>5. /\ SizeOf(Leased(Seqs)) \in Nat /\ SizeOf(Leased(S)) \in Nat
      /\ SizeOf(Leased(Seqs) \ Leased(S)) \in Nat
      /\ SizeOf(Leased(Seqs)) = SizeOf(Leased(S)) + SizeOf(Leased(Seqs) \ Leased(S))
  BY <1>3, SizeSplit
<1>6. bytes' = bytes - SizeOf(S) /\ leasedBytes' = leasedBytes - SizeOf(Leased(S))
  BY DEF Remove, EndLease
<1>7. SizeOf(Seqs)' = SizeOf(Seqs \ S)
  BY <1>1 DEF SizeOf
<1>8. SizeOf(Leased(Seqs))' = SizeOf(Leased(Seqs) \ Leased(S))
  <2>1. \A s \in Leased(Seqs)' : entries'[s] = entries[s]
    BY <1>1 DEF Leased
  <2> QED
    BY <1>2, <2>1 DEF SizeOf
<1> QED
  BY <1>4, <1>5, <1>6, <1>7, <1>8 DEF StoredBytes

\* requeue (release_seq, expire) ends leases and keeps every item.
LEMMA RequeueBytes ==
    ASSUME IndexTypeOK, IndexesAgree, NEW S \in SUBSET Leased(Seqs), Requeue(S), StoredBytes
    PROVE  StoredBytes'
<1>1. /\ Seqs' = Seqs
      /\ \A s \in Seqs : /\ entries'[s].size = entries[s].size
                         /\ entries'[s].holder = IF s \in S THEN NoHolder ELSE entries[s].holder
  <2> DEFINE E(s) == [entries[s] EXCEPT !.holder = NoHolder, !.deadline = NoDeadline]
  <2>1. entries \in [Seqs -> Entry]
    BY DEF IndexTypeOK
  <2>2. ASSUME NEW s \in Seqs
        PROVE  E(s).size = entries[s].size /\ E(s).holder = NoHolder
    <3>1. entries[s] \in Entry BY <2>1
    <3> QED BY ONLY <3>1 DEF Entry
  <2>3. entries' = [s \in Seqs |-> IF s \in S THEN E(s) ELSE entries[s]]
    BY DEF Requeue, IndexTypeOK
  <2> HIDE DEF E
  <2>4. /\ Seqs' = Seqs
        /\ \A s \in Seqs : entries'[s] = IF s \in S THEN E(s) ELSE entries[s]
    BY ONLY <2>3 DEF Seqs
  <2> QED BY ONLY <2>2, <2>4
<1>2. Leased(Seqs)' = Leased(Seqs) \ S /\ Leased(S) = S
  BY <1>1 DEF Leased
<1>3. Leased(Seqs) \in SUBSET Seqs
  BY DEF Leased
<1>4. /\ SizeOf(Leased(Seqs)) \in Nat /\ SizeOf(S) \in Nat /\ SizeOf(Leased(Seqs) \ S) \in Nat
      /\ SizeOf(Leased(Seqs)) = SizeOf(S) + SizeOf(Leased(Seqs) \ S)
  BY <1>3, SizeSplit
<1>5. SizeOf(Seqs)' = SizeOf(Seqs)
  BY <1>1 DEF SizeOf
<1>6. SizeOf(Leased(Seqs))' = SizeOf(Leased(Seqs) \ S)
  <2>1. \A s \in Leased(Seqs)' : entries'[s].size = entries[s].size
    BY <1>1 DEF Leased
  <2> QED
    BY <1>2, <2>1 DEF SizeOf
<1>7. bytes' = bytes /\ leasedBytes' = leasedBytes - SizeOf(S)
  <2>1. bytes' = bytes /\ EndLease(S)
    BY DEF Requeue, IndexTypeOK
  <2> QED
    BY ONLY <1>2, <2>1 DEF EndLease
<1> QED
  BY <1>4, <1>5, <1>6, <1>7 DEF StoredBytes

\* start_lease counts what it leases.
LEMMA StartLeaseBytes ==
    ASSUME IndexTypeOK, IndexesAgree, NEW S \in SUBSET available, NEW h \in Holders, NEW at,
           StartLease(S, h, at), StoredBytes
    PROVE  StoredBytes'
<1>1. /\ Seqs' = Seqs
      /\ \A s \in Seqs : /\ entries'[s].size = entries[s].size
                         /\ entries'[s].holder = IF s \in S THEN h ELSE entries[s].holder
  <2> DEFINE E(s) == [entries[s] EXCEPT !.holder = h, !.deadline = Deadline(at)]
  <2>1. entries \in [Seqs -> Entry]
    BY DEF IndexTypeOK
  <2>2. ASSUME NEW s \in Seqs
        PROVE  E(s).size = entries[s].size /\ E(s).holder = h
    <3>1. entries[s] \in Entry BY <2>1
    <3> QED BY ONLY <3>1 DEF Entry
  <2>3. entries' = [s \in Seqs |-> IF s \in S THEN E(s) ELSE entries[s]]
    BY DEF StartLease, IndexTypeOK
  <2> HIDE DEF E
  <2>4. /\ Seqs' = Seqs
        /\ \A s \in Seqs : entries'[s] = IF s \in S THEN E(s) ELSE entries[s]
    BY ONLY <2>3 DEF Seqs
  <2> QED BY ONLY <2>2, <2>4
<1>2. S \subseteq Unleased
  BY DEF IndexesAgree, AvailableAgrees
<1>3. Leased(Seqs)' = Leased(Seqs) \cup S
  BY <1>1, <1>2, SentinelAssumption DEF Leased, Unleased
<1>4. /\ Leased(Seqs) \cup S \in SUBSET Seqs /\ S \in SUBSET (Leased(Seqs) \cup S)
      /\ (Leased(Seqs) \cup S) \ S = Leased(Seqs)
  BY <1>2 DEF Leased, Unleased
<1>5. /\ SizeOf(Leased(Seqs)) \in Nat /\ SizeOf(S) \in Nat
      /\ SizeOf(Leased(Seqs) \cup S) = SizeOf(S) + SizeOf(Leased(Seqs))
  BY <1>4, SizeSplit
<1>6. SizeOf(Seqs)' = SizeOf(Seqs)
  BY <1>1 DEF SizeOf
<1>7. SizeOf(Leased(Seqs))' = SizeOf(Leased(Seqs) \cup S)
  <2>1. \A s \in Leased(Seqs)' : entries'[s].size = entries[s].size
    BY <1>1 DEF Leased
  <2> QED
    BY <1>3, <2>1 DEF SizeOf
<1>8. bytes' = bytes /\ leasedBytes' = leasedBytes + SizeOf(S)
  BY DEF StartLease, IndexTypeOK
<1> QED
  BY <1>5, <1>6, <1>7, <1>8 DEF StoredBytes

\* commit adds the bytes of its permit.
LEMMA CommitBytes ==
    ASSUME IInv, IndexTypeOK', NEW p \in Producers, NEW key, NEW ackId, Commit(p, key, ackId), StoredBytes
    PROVE  StoredBytes'
<1>1. nextSeq \notin Seqs /\ IndexTypeOK
  BY DEF IInv, CallTypeOK, IndexInv
<1>2. /\ Seqs' = Seqs \cup {nextSeq}
      /\ \A s \in Seqs : entries'[s] = entries[s]
      /\ entries'[nextSeq].size = thread[p].size
      /\ entries'[nextSeq].holder = NoHolder
  BY <1>1 DEF Commit, Seqs
<1>3. Leased(Seqs)' = Leased(Seqs)
  BY <1>1, <1>2 DEF Leased
<1>4. thread[p].size \in Nat
  BY DEF IInv, ThreadInv, Thread
<1>5. SizeOf(Seqs)' = SizeOf(Seqs) + thread[p].size
  <2> DEFINE f == [s \in Seqs' |-> entries'[s].size]
             g == [s \in {nextSeq} |-> f[s]]
             h == [s \in Seqs' \ {nextSeq} |-> f[s]]
  <2>1. IsFiniteSet(Seqs') /\ f \in [Seqs' -> Nat] /\ {nextSeq} \in SUBSET Seqs'
    BY <1>2, DataAssumption DEF IndexTypeOK, Entry
  <2>2. Total(f) = Total(g) + Total(h)
    BY <2>1, TotalSplit
  <2>3. g = [s \in {nextSeq} |-> thread[p].size]
    BY <1>2
  <2>4. Total(g) = thread[p].size
    BY <1>4, <2>3, TotalOne
  <2>5. h = [s \in Seqs |-> entries[s].size]
    BY <1>1, <1>2
  <2>6. SizeOf(Seqs) \in Nat
    BY <1>1, SizeSplit
  <2>7. SizeOf(Seqs) = Total(h) /\ SizeOf(Seqs)' = Total(f)
    BY <2>5 DEF SizeOf
  <2> QED
    BY <1>4, <2>2, <2>4, <2>6, <2>7
<1>6. SizeOf(Leased(Seqs))' = SizeOf(Leased(Seqs))
  <2>1. \A s \in Leased(Seqs)' : entries'[s] = entries[s]
    BY <1>2, <1>3 DEF Leased
  <2> QED
    BY <1>3, <2>1 DEF SizeOf
<1>7. bytes' = bytes + thread[p].size /\ leasedBytes' = leasedBytes
  BY DEF Commit
<1> QED
  BY <1>5, <1>6, <1>7 DEF StoredBytes

\* purge takes off every unleased byte.
LEMMA PurgeBytes ==
    ASSUME IndexTypeOK, IndexesAgree, Purge, StoredBytes
    PROVE  StoredBytes'
<1>1. Seqs' = Seqs \ available /\ \A s \in Seqs' : entries'[s] = entries[s]
  BY DEF Purge, Seqs
<1>2. Leased(Seqs)' = Leased(Seqs)
  BY <1>1 DEF Leased, IndexesAgree, AvailableAgrees, Unleased
<1>3. available \in SUBSET Seqs /\ Seqs \in SUBSET Seqs
  BY DEF IndexTypeOK
<1>4. /\ SizeOf(Seqs) \in Nat /\ SizeOf(available) \in Nat /\ SizeOf(Seqs \ available) \in Nat
      /\ SizeOf(Seqs) = SizeOf(available) + SizeOf(Seqs \ available)
  BY <1>3, SizeSplit
<1>5. SizeOf(Seqs)' = SizeOf(Seqs \ available)
  BY <1>1 DEF SizeOf
<1>6. SizeOf(Leased(Seqs))' = SizeOf(Leased(Seqs))
  <2>1. \A s \in Leased(Seqs)' : entries'[s] = entries[s]
    BY <1>1 DEF Leased
  <2> QED
    BY <1>2, <2>1 DEF SizeOf
<1>7. bytes' = bytes - SizeOf(available) /\ leasedBytes' = leasedBytes
  BY DEF Purge
<1> QED
  BY <1>4, <1>5, <1>6, <1>7 DEF StoredBytes

\* held renews leases and drain_all leaves nothing: the totals stay right.
LEMMA OtherBytes ==
    ASSUME IndexTypeOK, StoredBytes,
           \/ \E h \in Holders, min \in Offsets, at \in Nat : Held(h, min, at)
           \/ DrainAll
           \/ UNCHANGED innerVars
    PROVE  StoredBytes'
<1>1. ASSUME NEW h \in Holders, NEW min, NEW at \in Nat, Held(h, min, at) PROVE StoredBytes'
  <2>1. /\ Seqs' = Seqs
        /\ \A s \in Seqs : entries'[s].size = entries[s].size /\ entries'[s].holder = entries[s].holder
    BY <1>1 DEF Held, Seqs, IndexTypeOK, Entry
  <2>2. Leased(Seqs)' = Leased(Seqs) /\ Leased(Seqs) \subseteq Seqs
    BY <2>1 DEF Leased
  <2>3. SizeOf(Seqs)' = SizeOf(Seqs) /\ SizeOf(Leased(Seqs))' = SizeOf(Leased(Seqs))
    BY <2>1, <2>2 DEF SizeOf
  <2> QED
    BY <1>1, <2>3 DEF Held, StoredBytes
<1>2. CASE DrainAll
  <2>1. Seqs' = {} /\ bytes' = 0 /\ leasedBytes' = 0
    BY <1>2 DEF DrainAll, Seqs
  <2>2. Leased(Seqs)' = {}
    BY <2>1 DEF Leased
  <2>3. SizeOf(Seqs)' = 0 /\ SizeOf(Leased(Seqs))' = 0
    BY <2>1, <2>2, TotalNone DEF SizeOf
  <2> QED
    BY <2>1, <2>3 DEF StoredBytes
<1>3. CASE UNCHANGED innerVars
  BY <1>3 DEF innerVars, StoredBytes, SizeOf, Leased, Seqs
<1> QED
  BY <1>1, <1>2, <1>3


\* The permits of some producers come to a number of bytes.
LEMMA PermitType ==
    ASSUME ThreadInv, NEW S \in SUBSET Producers
    PROVE  /\ IsFiniteSet(S)
           /\ [p \in S |-> thread[p].size] \in [S -> Nat]
           /\ Total([p \in S |-> thread[p].size]) \in Nat
<1>1. IsFiniteSet(S)
  BY FiniteAssumption, FS_Subset
<1>2. [p \in S |-> thread[p].size] \in [S -> Nat]
  BY DEF ThreadInv, Thread
<1> QED
  BY <1>1, <1>2, TotalType

\* One more permit adds its bytes, so one fewer takes them off.
LEMMA OnePermit ==
    ASSUME NEW S \in SUBSET Producers, NEW p \in S, NEW f \in [S -> Nat]
    PROVE  /\ Total(f) \in Nat /\ Total([q \in S \ {p} |-> f[q]]) \in Nat
           /\ Total(f) = Total([q \in S \ {p} |-> f[q]]) + f[p]
<1> DEFINE g == [q \in {p} |-> f[q]]
           h == [q \in S \ {p} |-> f[q]]
<1>1. IsFiniteSet(S) /\ IsFiniteSet(S \ {p})
  BY FiniteAssumption, FS_Subset
<1>2. Total(f) = Total(g) + Total(h)
  BY <1>1, TotalSplit, SMTT(40)
<1>3. g = [q \in {p} |-> f[p]]
  OBVIOUS
<1>4. Total(g) = f[p] /\ f[p] \in Nat
  BY <1>3, TotalOne
<1>5. h \in [S \ {p} -> Nat]
  OBVIOUS
<1>6. Total(f) \in Nat /\ Total(h) \in Nat
  BY <1>1, <1>5, TotalType
<1> QED
  BY <1>2, <1>4, <1>6

\* A permit that try_reserve grants is counted with its bytes.
LEMMA GrantBytes ==
    ASSUME ThreadInv, ThreadInv', PermitBytes, NEW p \in Producers,
           thread[p].pc = "loading", GrantPermit(p)
    PROVE  PermitBytes'
<1> DEFINE f == [q \in Permits' |-> thread'[q].size]
<1>0. thread[p] \in Thread
  BY DEF ThreadInv
<1>1. /\ thread'[p].pc = "holding" /\ thread'[p].size = thread[p].size
      /\ \A q \in Producers \ {p} : thread'[q] = thread[q]
  BY <1>0 DEF GrantPermit, ThreadInv, Thread
<1>2. p \in Permits' /\ Permits' \ {p} = Permits /\ Permits' \in SUBSET Producers
  BY <1>1 DEF Permits, InState
<1>3. f \in [Permits' -> Nat]
  BY DEF ThreadInv, Thread, Permits, InState
<1>4. [q \in Permits' \ {p} |-> f[q]] = [q \in Permits |-> thread[q].size]
  BY <1>1, <1>2
<1>5. f[p] = thread[p].size
  BY <1>1, <1>2
<1> HIDE DEF f
<1>6. Total(f) = Total([q \in Permits' \ {p} |-> f[q]]) + f[p]
  BY <1>2, <1>3, OnePermit
<1>7. reserved'.bytes = reserved.bytes + thread[p].size
  BY DEF GrantPermit
<1> QED
  BY <1>4, <1>5, <1>6, <1>7 DEF PermitBytes, f

\* A permit that commit uses up, or whose drop ends, is counted no more.
LEMMA UnreserveBytes ==
    ASSUME ThreadInv, PermitBytes, NEW p \in Producers,
           thread[p].pc \in {"holding", "dropping"}, thread' = [thread EXCEPT ![p] = Idle],
           reserved'.bytes = reserved.bytes - thread[p].size
    PROVE  PermitBytes'
<1> DEFINE f == [q \in Permits |-> thread[q].size]
<1>1. /\ thread'[p].pc = "idle"
      /\ \A q \in Producers \ {p} : thread'[q] = thread[q]
  BY DEF ThreadInv, Idle
<1>2. p \in Permits /\ Permits' = Permits \ {p} /\ Permits \in SUBSET Producers
  BY <1>1 DEF Permits, InState
<1>3. f \in [Permits -> Nat]
  BY <1>2, PermitType
<1>4. [q \in Permits' |-> thread'[q].size] = [q \in Permits \ {p} |-> f[q]]
  BY <1>1, <1>2
<1>5. f[p] = thread[p].size /\ f[p] \in Nat
  BY <1>2, <1>3
<1>6. reserved.bytes = Total(f)
  BY DEF PermitBytes
<1> HIDE DEF f
<1>7. /\ Total(f) \in Nat /\ Total([q \in Permits \ {p} |-> f[q]]) \in Nat
      /\ Total(f) = Total([q \in Permits \ {p} |-> f[q]]) + f[p]
  BY <1>2, <1>3, OnePermit
<1> QED
  BY <1>4, <1>5, <1>6, <1>7 DEF PermitBytes

\* A step that changes no permit's bytes and no counter of them.
LEMMA SamePermits ==
    ASSUME PermitBytes, reserved'.bytes = reserved.bytes, Permits' = Permits,
           \A q \in Permits : thread'[q].size = thread[q].size
    PROVE  PermitBytes'
BY DEF PermitBytes

\* The permits' bytes stay counted, whatever try_reserve, commit and
\* Permit::drop interleave to.
LEMMA ProducerBytes ==
    ASSUME IInv, IInv', ByteInv, NEW p \in Producers, ProducerStep(p)
    PROVE  ByteInv'
<1>0. /\ thread \in [Producers -> Thread] /\ ThreadInv /\ ThreadInv'
      /\ IndexTypeOK /\ IndexTypeOK' /\ IndexesAgree /\ StoredBytes /\ PermitBytes
  BY DEF IInv, ThreadInv, IndexInv, ByteInv
<1>1. ASSUME NEW size \in Sizes, TryReserve(p, size) PROVE ByteInv'
  <2>1. StoredBytes' BY <1>0, <1>1, OtherBytes DEF TryReserve
  <2>2. /\ thread[p].pc = "idle" /\ thread'[p].pc = "loading"
        /\ \A q \in Producers \ {p} : thread'[q] = thread[q]
        /\ reserved' = reserved
    BY <1>0, <1>1 DEF TryReserve
  <2>3. Permits' = Permits /\ \A q \in Permits : thread'[q].size = thread[q].size
    BY <2>2 DEF Permits, InState
  <2> QED BY <1>0, <2>1, <2>2, <2>3, SamePermits DEF ByteInv
<1>2. CASE Grant(p)
  <2>1. StoredBytes' BY <1>0, <1>2, OtherBytes DEF Grant
  <2> QED BY <1>0, <1>2, <2>1, GrantBytes DEF Grant, ByteInv
<1>3. ASSUME thread[p].pc = "loading", thread' = [thread EXCEPT ![p] = Idle], UNCHANGED reserved
      PROVE  PermitBytes'
  <2>1. /\ thread'[p].pc = "idle"
        /\ \A q \in Producers \ {p} : thread'[q] = thread[q]
    BY <1>0, <1>3 DEF Idle
  <2>2. Permits' = Permits /\ \A q \in Permits : thread'[q].size = thread[q].size
    BY <1>3, <2>1 DEF Permits, InState
  <2> QED BY <1>0, <1>3, <2>2, SamePermits
<1>4. CASE Refuse(p)
  <2>1. StoredBytes' BY <1>0, <1>4, OtherBytes DEF Refuse
  <2> QED BY <1>3, <1>4, <2>1 DEF Refuse, ByteInv
<1>5. CASE Evict(p)
  <2>1. PICK S \in SUBSET available : Remove(S)
    BY <1>5 DEF Evict
  <2>2. S \in SUBSET Seqs BY <1>0 DEF IndexTypeOK
  <2>3. StoredBytes' BY <1>0, <2>1, <2>2, RemoveBytes
  <2>4. PermitBytes'
    <3>1. CASE GrantPermit(p)
      BY <1>0, <1>5, <3>1, GrantBytes DEF Evict
    <3>2. CASE thread' = [thread EXCEPT ![p] = Idle] /\ UNCHANGED reserved
      BY <1>3, <1>5, <3>2 DEF Evict
    <3> QED BY <1>5, <3>1, <3>2 DEF Evict
  <2> QED BY <2>3, <2>4 DEF ByteInv
<1>6. CASE Cancel(p)
  <2>1. StoredBytes' BY <1>0, <1>6, OtherBytes DEF Cancel
  <2>2. reserved'.bytes = reserved.bytes /\ thread[p].pc = "holding"
    BY <1>0, <1>6 DEF Cancel, ThreadInv
  <2>3. thread[p] \in Thread BY <1>0
  <2>4. /\ thread'[p].pc = "dropping" /\ thread'[p].size = thread[p].size
        /\ \A q \in Producers \ {p} : thread'[q] = thread[q]
    BY <1>0, <1>6, <2>3 DEF Cancel, Thread
  <2>5. Permits' = Permits /\ \A q \in Permits : thread'[q].size = thread[q].size
    BY <2>2, <2>4 DEF Permits, InState
  <2> QED BY <1>0, <2>1, <2>2, <2>5, SamePermits DEF ByteInv
<1>7. CASE FinishCancel(p)
  <2>1. StoredBytes' BY <1>0, <1>7, OtherBytes DEF FinishCancel
  <2>2. /\ reserved'.bytes = reserved.bytes - thread[p].size
        /\ thread' = [thread EXCEPT ![p] = Idle] /\ thread[p].pc = "dropping"
    BY <1>0, <1>7 DEF FinishCancel, ThreadInv
  <2> QED BY <1>0, <2>1, <2>2, UnreserveBytes DEF ByteInv
<1>8. ASSUME NEW key \in Keys \cup {NoKey}, NEW ackId \in AckIds, Commit(p, key, ackId)
      PROVE  ByteInv'
  <2>1. StoredBytes' BY <1>0, <1>8, CommitBytes
  <2>2. /\ reserved'.bytes = reserved.bytes - thread[p].size
        /\ thread' = [thread EXCEPT ![p] = Idle] /\ thread[p].pc = "holding"
    BY <1>8 DEF Commit
  <2> QED BY <1>0, <2>1, <2>2, UnreserveBytes DEF ByteInv
<1> QED BY <1>1, <1>2, <1>4, <1>5, <1>6, <1>7, <1>8 DEF ProducerStep

\* The calls that reserve nothing keep the byte totals right.
LEMMA NextBytes == IInv /\ IInv' /\ ByteInv /\ [Next]_vars => ByteInv'
<1> SUFFICES ASSUME IInv, IInv', ByteInv, [Next]_vars PROVE ByteInv' OBVIOUS
<1>0. /\ IndexTypeOK /\ IndexesAgree /\ IndexInv /\ StoredBytes /\ PermitBytes /\ now \in Nat
  BY DEF IInv, IndexInv, ByteInv, CallTypeOK
<1>1. ASSUME UNCHANGED <<reserved, thread>>, StoredBytes' PROVE ByteInv'
  BY <1>0, <1>1 DEF ByteInv, PermitBytes, Permits, InState
<1>2. ASSUME UNCHANGED innerVars PROVE StoredBytes'
  BY <1>0, <1>2, OtherBytes
<1>3. ASSUME NEW S \in SUBSET Seqs, AckWhere(S) PROVE ByteInv'
  <2>1. StoredBytes' BY <1>0, <1>3, RemoveBytes DEF AckWhere
  <2> QED BY <1>1, <1>3, <2>1 DEF AckWhere
<1>4. ASSUME NEW S \in SUBSET Leased(Seqs), Requeue(S), UNCHANGED <<reserved, thread>> PROVE ByteInv'
  <2>1. StoredBytes' BY <1>0, <1>4, RequeueBytes
  <2> QED BY <1>1, <1>4, <2>1
<1>5. ASSUME NEW h \in Holders, HolderStep(h) PROVE ByteInv'
  <2>0. leases[h] \in SUBSET Seqs /\ leases[h] \in SUBSET Leased(Seqs) /\ \A at \in 0 .. now : at \in Nat
    BY <1>0, LeasedByHolder
  <2>1. ASSUME NEW max \in 1 .. MaxBatch, NEW at \in 0 .. now, Lease(h, max, at) PROVE ByteInv'
    <3>1. PICK S \in SUBSET available : StartLease(S, h, at) /\ UNCHANGED <<reserved, thread>>
      BY <1>0, <2>1 DEF Lease, Take, Candidates, IndexesAgree, EligibleAgrees, AvailableAgrees
    <3>2. StoredBytes' BY <1>0, <3>1, StartLeaseBytes
    <3> QED BY <1>1, <3>1, <3>2
  <2>2. ASSUME NEW min \in Offsets, NEW at \in 0 .. now, Held(h, min, at) PROVE ByteInv'
    <3>1. at \in Nat BY <2>0
    <3>2. \E g \in Holders, m \in Offsets, a \in Nat : Held(g, m, a) BY <2>2, <3>1
    <3>3. StoredBytes' BY <1>0, <3>2, OtherBytes
    <3> QED BY <1>1, <2>2, <3>3 DEF Held
  <2>3. ASSUME NEW offset \in Offsets, AckBelow(h, offset) PROVE ByteInv'
    <3>1. {s \in leases[h] : entries[s].ackId < offset} \in SUBSET Seqs BY <2>0
    <3> QED BY <1>3, <2>3, <3>1 DEF AckBelow
  <2>4. CASE AckAll(h) BY <1>3, <2>0, <2>4 DEF AckAll
  <2>5. ASSUME NEW s \in Seqs, AckSeq(h, s) PROVE ByteInv'
    <3>1. {s} \in SUBSET Seqs OBVIOUS
    <3> QED BY <1>3, <2>5, <3>1 DEF AckSeq
  <2>6. ASSUME NEW s \in Seqs, ReleaseSeq(h, s) PROVE ByteInv'
    <3>1. {s} \in SUBSET Leased(Seqs) BY <2>0, <2>6 DEF ReleaseSeq
    <3> QED BY <1>4, <2>6, <3>1 DEF ReleaseSeq
  <2> QED BY <1>5, <2>1, <2>2, <2>3, <2>4, <2>5, <2>6 DEF HolderStep
<1>6. ASSUME NEW at \in 0 .. now, Expire(at) PROVE ByteInv'
  <2>1. Expired(at) \in SUBSET Leased(Seqs)
    <3>1. \A h \in Holders : leases[h] \subseteq Leased(Seqs) BY <1>0, LeasedByHolder
    <3> QED BY <3>1 DEF Expired
  <2> QED BY <1>4, <1>6, <2>1 DEF Expire
<1>7. CASE Purge
  <2>1. StoredBytes' BY <1>0, <1>7, PurgeBytes
  <2> QED BY <1>1, <1>7, <2>1 DEF Purge
<1>8. ASSUME NEW S \in SUBSET available, PurgeWhere(S) PROVE ByteInv'
  <2>1. S \in SUBSET Seqs BY <1>0 DEF IndexTypeOK
  <2>2. StoredBytes' BY <1>0, <1>8, <2>1, RemoveBytes DEF PurgeWhere
  <2> QED BY <1>1, <1>8, <2>2 DEF PurgeWhere
<1>9. CASE DrainAll
  <2>1. StoredBytes' BY <1>0, <1>9, OtherBytes
  <2> QED BY <1>1, <1>9, <2>1 DEF DrainAll
<1>10. ASSUME NEW c \in Configs, SetConfig(c) PROVE ByteInv'
  BY <1>1, <1>2, <1>10 DEF SetConfig
<1>11. CASE NotifyWaiters \/ Tick \/ UNCHANGED vars
  BY <1>1, <1>2, <1>11 DEF NotifyWaiters, Tick, vars
<1>12. ASSUME NEW p \in Producers, ProducerStep(p) PROVE ByteInv'
  BY <1>12, ProducerBytes
<1> QED BY <1>5, <1>6, <1>7, <1>8, <1>9, <1>10, <1>11, <1>12 DEF Next

\* An empty queue holds no byte.
LEMMA InitBytes == Init => ByteInv
<1> SUFFICES ASSUME Init PROVE ByteInv OBVIOUS
<1>1. Seqs = {} /\ Leased(Seqs) = {}
  BY DEF Init, Seqs, Leased
<1>2. Permits = {}
  BY DEF Init, Permits, InState, Idle
<1>3. /\ SizeOf(Seqs) = 0 /\ SizeOf(Leased(Seqs)) = 0
      /\ Total([p \in Permits |-> thread[p].size]) = 0
  BY <1>1, <1>2, TotalNone DEF SizeOf
<1> QED
  BY <1>3 DEF Init, ByteInv, StoredBytes, PermitBytes

\* Inner.bytes, Inner.leased_bytes and the reserved bytes are at all times what
\* a scan of the entries and the permits would add up to.
THEOREM BytesCorrect == Spec => []ByteInv
<1> QED BY InitBytes, NextBytes, Invariance, PTL DEF Spec

\* No counter of the queue (all of them unsigned in the code) goes below 0, and
\* every variable keeps its shape.
THEOREM TypeCorrect == Spec => []TypeOK
<1>1. IInv /\ ByteInv => TypeOK
  <2> SUFFICES ASSUME IInv, ByteInv PROVE TypeOK OBVIOUS
  <2>1. StateTypeOK BY IInvTypes
  <2>2. Leased(Seqs) \in SUBSET Seqs /\ Permits \in SUBSET Producers
    BY DEF Leased, Permits, InState
  <2>3. SizeOf(Seqs) \in Nat /\ SizeOf(Leased(Seqs)) \in Nat
    BY <2>2, SizeSplit DEF IInv, IndexInv
  <2>4. Total([p \in Permits |-> thread[p].size]) \in Nat
    BY <2>2, PermitType DEF IInv
  <2> QED BY <2>1, <2>3, <2>4 DEF TypeOK, ByteInv, StoredBytes, PermitBytes
<1> QED BY <1>1, Invariance, BytesCorrect, PTL


\* What is stored or reserved in bytes, as the queue's counters have it.
LEMMA ByteTotalIs ==
    ASSUME IInv, ByteInv
    PROVE  /\ ByteTotal = bytes + reserved.bytes
           /\ bytes \in Nat /\ reserved.bytes \in Nat
<1>1. Permits \in SUBSET Producers
  BY DEF Permits, InState
<1>2. SizeOf(Seqs) \in Nat
  BY SizeSplit DEF IInv, IndexInv
<1>3. Total([p \in Permits |-> thread[p].size]) \in Nat
  BY <1>1, PermitType DEF IInv
<1> QED
  BY <1>2, <1>3 DEF ByteTotal, ByteInv, StoredBytes, PermitBytes

\* Every step of the queue respects the byte capacity, as every step respects
\* the item capacity.
LEMMA ByteCapacityStep ==
    ASSUME IInv, IInv', ByteInv, ByteInv', [Next]_vars
    PROVE  IF reserved'.items > reserved.items
           THEN ByteTotal' <= cfg.capacityBytes
           ELSE ByteTotal' <= ByteTotal
<1> DEFINE Goal == IF reserved'.items > reserved.items
                   THEN ByteTotal' <= cfg.capacityBytes
                   ELSE ByteTotal' <= ByteTotal
<1> SUFFICES Goal OBVIOUS
<1>0. /\ ByteTotal = bytes + reserved.bytes /\ bytes \in Nat /\ reserved.bytes \in Nat
      /\ ByteTotal' = bytes' + reserved'.bytes /\ bytes' \in Nat /\ reserved'.bytes \in Nat
      /\ reserved.items \in Nat /\ reserved'.items \in Nat
      /\ reserved \in [items : Nat, bytes : Int]
  <2>1. (IInv /\ ByteInv => /\ ByteTotal = bytes + reserved.bytes
                            /\ bytes \in Nat /\ reserved.bytes \in Nat)'
    BY ByteTotalIs, PTL
  <2> QED BY <2>1, ByteTotalIs DEF IInv, ThreadInv
<1>1. ASSUME bytes' <= bytes, reserved'.items <= reserved.items, reserved'.bytes <= reserved.bytes
      PROVE  Goal
  BY <1>0, <1>1
<1>2. ASSUME NEW S \in SUBSET Seqs, Remove(S) PROVE bytes' <= bytes
  <2>1. SizeOf(S) \in Nat BY SizeSplit DEF IInv, IndexInv
  <2>2. bytes' = bytes - SizeOf(S) BY <1>2 DEF Remove
  <2> QED BY <1>0, <2>1, <2>2
<1>3. ASSUME NEW p \in Producers, ProducerStep(p) PROVE Goal
  <2>0. /\ thread[p].size \in Nat /\ cfg.capacityBytes \in Nat
        /\ available \in SUBSET Seqs
    BY DataAssumption DEF IInv, IndexInv, IndexTypeOK, ThreadInv, Thread, CallTypeOK, QueueConfig
  <2>1. ASSUME GrantPermit(p), bytes' + reserved.bytes + thread[p].size <= cfg.capacityBytes
        PROVE  Goal
    <3>1. reserved'.bytes = reserved.bytes + thread[p].size /\ reserved'.items = reserved.items + 1
      BY <2>1 DEF GrantPermit
    <3> QED BY <1>0, <2>0, <2>1, <3>1
  <2>2. CASE Grant(p)
    <3>1. bytes' = bytes BY <2>2 DEF Grant, innerVars
    <3> QED BY <2>1, <2>2, <3>1 DEF Grant, Room
  <2>3. CASE Evict(p)
    <3> DEFINE upTo(last) == {s \in available : s <= last}
    <3>1. CASE \E last \in available :
                 /\ Room(p, Cardinality(Seqs \ upTo(last)), bytes - SizeOf(upTo(last)))
                 /\ Remove(upTo(last))
                 /\ GrantPermit(p)
      <4>1. PICK last \in available :
                 /\ Room(p, Cardinality(Seqs \ upTo(last)), bytes - SizeOf(upTo(last)))
                 /\ Remove(upTo(last))
                 /\ GrantPermit(p)
        BY <3>1
      <4>2. bytes' = bytes - SizeOf(upTo(last)) BY <4>1 DEF Remove
      <4>3. bytes' + reserved.bytes + thread[p].size <= cfg.capacityBytes
        BY <4>1, <4>2 DEF Room
      <4> QED BY <2>1, <4>1, <4>3
    <3>2. CASE Remove(available) /\ UNCHANGED reserved
      BY <1>0, <1>1, <1>2, <2>0, <3>2
    <3> QED BY <2>3, <3>1, <3>2 DEF Evict, First
  <2>4. CASE Cancel(p)
    <3>1. bytes' = bytes /\ reserved'.items = reserved.items - 1 /\ reserved'.bytes = reserved.bytes
      BY <1>0, <2>4 DEF Cancel, innerVars
    <3> QED BY <1>0, <1>1, <3>1
  <2>5. CASE FinishCancel(p)
    <3>1. /\ bytes' = bytes /\ reserved'.items = reserved.items
          /\ reserved'.bytes = reserved.bytes - thread[p].size
      BY <1>0, <2>5 DEF FinishCancel, innerVars
    <3> QED BY <1>0, <1>1, <2>0, <3>1
  <2>6. ASSUME NEW key, NEW ackId, Commit(p, key, ackId) PROVE Goal
    <3>1. /\ bytes' = bytes + thread[p].size /\ reserved'.items = reserved.items - 1
          /\ reserved'.bytes = reserved.bytes - thread[p].size
      BY <2>6 DEF Commit
    <3> QED BY <1>0, <2>0, <3>1
  <2>7. ASSUME UNCHANGED <<innerVars, reserved>> PROVE Goal
    BY <1>0, <1>1, <2>7 DEF innerVars
  <2> QED BY <1>3, <2>2, <2>3, <2>4, <2>5, <2>6, <2>7
    DEF ProducerStep, TryReserve, Refuse
<1>4. ASSUME bytes' <= bytes, UNCHANGED reserved PROVE Goal
  BY <1>0, <1>1, <1>4
<1>5. ASSUME NEW S \in SUBSET Seqs, Remove(S), UNCHANGED reserved PROVE Goal
  BY <1>2, <1>4, <1>5
<1>6. ASSUME bytes' = bytes, UNCHANGED reserved PROVE Goal
  BY <1>0, <1>4, <1>6
<1> HIDE DEF Goal
<1>7. ASSUME NEW h \in Holders, HolderStep(h) PROVE Goal
  <2>0. leases[h] \in SUBSET Seqs BY LeasedByHolder DEF IInv
  <2>1. ASSUME NEW offset, AckBelow(h, offset) PROVE Goal
    <3>1. {s \in leases[h] : entries[s].ackId < offset} \in SUBSET Seqs BY <2>0
    <3> QED BY <1>5, <2>1, <3>1 DEF AckBelow, AckWhere
  <2>2. ASSUME NEW s \in Seqs, AckSeq(h, s) PROVE Goal
    <3>1. {s} \in SUBSET Seqs OBVIOUS
    <3> QED BY <1>5, <2>2, <3>1 DEF AckSeq, AckWhere
  <2>3. CASE AckAll(h) BY <1>5, <2>0, <2>3 DEF AckAll, AckWhere
  <2>4. ASSUME NEW s, ReleaseSeq(h, s) PROVE Goal BY <1>6, <2>4 DEF ReleaseSeq, Requeue
  <2>5. ASSUME NEW max, NEW at, Lease(h, max, at) PROVE Goal BY <1>6, <2>5 DEF Lease, StartLease
  <2>6. ASSUME NEW min, NEW at, Held(h, min, at) PROVE Goal BY <1>6, <2>6 DEF Held
  <2> QED BY <1>7, <2>1, <2>2, <2>3, <2>4, <2>5, <2>6 DEF HolderStep
<1>8. CASE Purge
  <2>1. SizeOf(available) \in Nat BY SizeSplit DEF IInv, IndexInv, IndexTypeOK
  <2>2. bytes' = bytes - SizeOf(available) /\ UNCHANGED reserved BY <1>8 DEF Purge
  <2> QED BY <1>0, <1>4, <2>1, <2>2
<1>9. CASE DrainAll
  <2>1. bytes' = 0 /\ UNCHANGED reserved BY <1>9 DEF DrainAll
  <2> QED BY <1>0, <1>4, <2>1
<1>10. ASSUME NEW at, Expire(at) PROVE Goal BY <1>6, <1>10 DEF Expire, Requeue
<1>11. ASSUME NEW S \in SUBSET available, PurgeWhere(S) PROVE Goal
  <2>1. S \in SUBSET Seqs BY DEF IInv, IndexInv, IndexTypeOK
  <2> QED BY <1>5, <1>11, <2>1 DEF PurgeWhere
<1>12. ASSUME NEW c, SetConfig(c) PROVE Goal BY <1>6, <1>12 DEF SetConfig, innerVars
<1>13. CASE NotifyWaiters \/ Tick \/ UNCHANGED vars
  BY <1>6, <1>13 DEF NotifyWaiters, Tick, vars, innerVars
<1> QED BY <1>3, <1>7, <1>8, <1>9, <1>10, <1>11, <1>12, <1>13 DEF Next

\* capacity and capacity_bytes bound what is stored and reserved at every grant
\* of try_reserve, and commit never goes beyond what was granted.
THEOREM CapacityCorrect == Spec => WithinCapacity
<1>1. IInv /\ IInv' /\ ByteInv /\ ByteInv' /\ [Next]_vars
        => [IF reserved'.items > reserved.items
            THEN ItemTotal' <= cfg.capacity /\ ByteTotal' <= cfg.capacityBytes
            ELSE ItemTotal' <= ItemTotal /\ ByteTotal' <= ByteTotal]_vars
  BY CapacityStep, ByteCapacityStep
<1> QED BY <1>1, Invariance, BytesCorrect, PTL DEF Spec, WithinCapacity

\* Evicting down to the last unleased item leaves the leased ones: if there is
\* room next to those, the eviction of DropOldest finds it.
LEMMA EvictionEnough ==
    ASSUME IInv, ByteInv, NEW p \in Producers, thread[p].pc = "loading",
           ~Room(p, Cardinality(Seqs), bytes), EvictionHelps(p)
    PROVE  \E last \in available :
              LET upTo == {s \in available : s <= last}
              IN  Room(p, Cardinality(Seqs \ upTo), bytes - SizeOf(upTo))
<1>0. /\ IndexTypeOK /\ available = Unleased /\ available \in SUBSET Seqs /\ available \in SUBSET Nat
      /\ bytes = SizeOf(Seqs) /\ leasedBytes = SizeOf(Leased(Seqs))
  BY DEF IInv, IndexInv, IndexTypeOK, IndexesAgree, AvailableAgrees, ByteInv, StoredBytes
<1>1. IsFiniteSet(Seqs) /\ IsFiniteSet(available) /\ Seqs \cap available = available
  BY <1>0, FS_Subset DEF IndexTypeOK
<1>2. Cardinality(Seqs) \in Nat /\ Cardinality(available) \in Nat
  BY <1>1, FS_CardinalityType
<1>3. Cardinality(Seqs \ available) = Cardinality(Seqs) - Cardinality(available)
  BY <1>1, FS_Difference
<1>4. Seqs \ available = Leased(Seqs)
  BY <1>0 DEF Unleased, Leased
<1>5. bytes - SizeOf(available) = leasedBytes
  <2>1. /\ SizeOf(Seqs) \in Nat /\ SizeOf(available) \in Nat /\ SizeOf(Seqs \ available) \in Nat
        /\ SizeOf(Seqs) = SizeOf(available) + SizeOf(Seqs \ available)
    BY <1>0, SizeSplit
  <2>2. PICK a, b, c : a = SizeOf(Seqs) /\ b = SizeOf(available) /\ c = SizeOf(Seqs \ available)
    OBVIOUS
  <2>3. bytes = a /\ leasedBytes = c
    BY <1>0, <1>4, <2>2
  <2>4. a \in Nat /\ b \in Nat /\ c \in Nat /\ a = b + c
    BY <2>1, <2>2
  <2>5. a - b = c
    BY <2>4
  <2> QED BY <2>2, <2>3, <2>5
<1>6. Room(p, Cardinality(Seqs \ available), bytes - SizeOf(available))
  BY <1>3, <1>5 DEF EvictionHelps
<1>7. available # {}
  <2>1. ASSUME available = {} PROVE FALSE
    <3>1. Seqs \ available = Seqs /\ SizeOf(available) = 0
      BY <2>1, TotalNone DEF SizeOf
    <3>2. bytes \in Nat
      BY ByteTotalIs
    <3>3. bytes - SizeOf(available) = bytes
      BY <3>1, <3>2
    <3> QED BY <1>6, <3>1, <3>3
  <2> QED BY <2>1
<1>8. PICK last \in available : \A s \in available : s <= last
  BY <1>0, <1>1, <1>7, LargestNat
<1>9. {s \in available : s <= last} = available
  BY <1>8
<1> QED BY <1>6, <1>8, <1>9

\* What one step of try_reserve evicts under DropOldest.
LEMMA EvictionStep ==
    ASSUME IInv, ByteInv, [Next]_vars, NEW p \in InState({"loading"}), Seqs \ Seqs' # {}
    PROVE  /\ cfg.onFull = "DropOldest"
           /\ Seqs \ Seqs' \subseteq available
           /\ \A g \in Seqs \ Seqs', kept \in available' : g < kept
           /\ thread'[p].pc = "holding"
<1>0. /\ p \in Producers /\ thread[p].pc = "loading" /\ ~Unlocked
      /\ thread \in [Producers -> Thread] /\ available \in SUBSET Seqs /\ Seqs \subseteq Nat
      /\ \A q \in Producers : thread[q].pc = "loading" => q = p
  BY DEF InState, Unlocked, IInv, ThreadInv, ReservationsAgree, IndexInv, IndexTypeOK
<1>1. UNCHANGED entries \/ \E q \in Producers : Evict(q)
  <2>1. ASSUME NEW q \in Producers, ProducerStep(q) PROVE UNCHANGED entries \/ Evict(q)
    BY <1>0, <2>1 DEF ProducerStep, TryReserve, Grant, Refuse, Cancel, FinishCancel, Commit, innerVars
  <2>2. ASSUME NEW h \in Holders, HolderStep(h) PROVE FALSE
    BY <1>0, <2>2 DEF HolderStep, Lease, Held, AckBelow, AckAll, AckSeq, AckWhere, ReleaseSeq
  <2> QED BY <1>0, <2>1, <2>2
    DEF Next, Expire, Purge, PurgeWhere, DrainAll, SetConfig, NotifyWaiters, Tick, vars, innerVars
<1>2. ~UNCHANGED entries
  BY DEF Seqs
<1>3. Evict(p)
  BY <1>0, <1>1, <1>2 DEF Evict
<1> DEFINE upTo(last) == {s \in available : s <= last}
<1>4. PICK last \in available : Remove(upTo(last)) /\ GrantPermit(p)
  <2>1. ~Room(p, Cardinality(Seqs), bytes) /\ EvictionHelps(p) BY <1>3 DEF Evict
  <2>2. \E last \in available : Room(p, Cardinality(Seqs \ upTo(last)), bytes - SizeOf(upTo(last)))
    BY <1>0, <2>1, EvictionEnough
  <2> QED BY <1>3, <2>2 DEF Evict, First
<1>5. Seqs' = Seqs \ upTo(last) /\ available' = available \ upTo(last)
  <2>1. Unlink(upTo(last)) BY <1>4 DEF Remove
  <2> QED BY <1>4, <2>1, RemoveKeeps DEF Unlink
<1>6. Seqs \ Seqs' = upTo(last)
  BY <1>0, <1>5
<1>7. \A g \in upTo(last), kept \in available \ upTo(last) : g < kept
  BY <1>0
<1>8. thread'[p].pc = "holding"
  <2>1. thread[p] \in Thread BY <1>0
  <2> QED BY <1>0, <1>4, <2>1 DEF GrantPermit, Thread
<1>9. cfg.onFull = "DropOldest"
  BY <1>3 DEF Evict
<1> QED BY <1>5, <1>6, <1>7, <1>8, <1>9

\* DropOldest evicts the oldest unleased items, only for a call that gets its
\* permit: try_reserve never empties the queue to refuse in the end.
THEOREM EvictionCorrect == Spec => EvictionSound
<1>1. IInv /\ ByteInv /\ [Next]_vars
        => [\A p \in InState({"loading"}) :
              LET gone == Seqs \ Seqs'
              IN  gone # {} =>
                     /\ cfg.onFull = "DropOldest"
                     /\ gone \subseteq available
                     /\ \A g \in gone, kept \in available' : g < kept
                     /\ thread'[p].pc = "holding"]_vars
  BY EvictionStep
<1> QED BY <1>1, Invariance, BytesCorrect, PTL DEF Spec, EvictionSound
=============================================================================
