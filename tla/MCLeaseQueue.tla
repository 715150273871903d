---------------------------- MODULE MCLeaseQueue ----------------------------
(***************************************************************************)
(* The instance of LeaseQueue for TLC: two families of configs, each with  *)
(* bounds of its own, between which no reload goes.                        *)
(***************************************************************************)
EXTENDS LeaseQueue, TLC

CONSTANTS k1, k2, h1, h2, p1, p2, p3

Config(capacity, capacityBytes, ordering, onFull) ==
    [capacity |-> capacity, capacityBytes |-> capacityBytes,
     leaseTimeout |-> 1, ordering |-> ordering, onFull |-> onFull]

\* Enough room for every item; the ordering switches live.
OrderConfigs ==
    {Config(4, 8, ordering, "Backpressure") : ordering \in {"None", "PerKey"}}

\* Tight limits, lowered and raised live.
RoomConfigs == {Config(3, 5, "PerKey", "Backpressure"),
                Config(3, 5, "PerKey", "DropOldest"),
                Config(1, 3, "None", "DropOldest")}

MCConfigs == OrderConfigs \cup RoomConfigs

\* Order: one producer at a time, three items of one size, two instants.
\* Room: items without a key, one holder, one instant.
Within ==
    IF cfg \in OrderConfigs
    THEN /\ nextSeq <= 3
         /\ Cardinality({p \in Producers : thread[p].pc # "idle"}) <= 1
         /\ \A p \in Producers : thread[p].size <= 1
    ELSE /\ now = 0
         /\ \A s \in Seqs : entries[s].key = NoKey /\ entries[s].ackId = 1
         /\ Cardinality({h \in Holders : leases[h] # {}}) <= 1

MCNext == Next /\ (cfg \in OrderConfigs <=> cfg' \in OrderConfigs) /\ Within'
MCSpec == Init /\ [][MCNext]_vars

MCSymmetry ==
    Permutations({k1, k2}) \cup Permutations({h1, h2}) \cup Permutations({p1, p2, p3})
=============================================================================
