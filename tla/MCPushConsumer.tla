--------------------------- MODULE MCPushConsumer ---------------------------
(***************************************************************************)
(* The instances of PushConsumer for TLC.  A run has one or more families  *)
(* of behaviours, told apart by the queue's config, each with bounds of    *)
(* its own; no reload goes from one family to another.                     *)
(***************************************************************************)
EXTENDS PushConsumer

CONSTANTS k1, b1, b2, p1, push

\* A push queue's leases never expire: the timeout is past the last instant.
Config(items, order) ==
    [capacity |-> items, capacityBytes |-> 2, leaseTimeout |-> MaxInstant + 1,
     ordering |-> order, onFull |-> "Backpressure"]
Probing == Config(2, "None")
Ordered == Config(2, "PerKey")
Reloaded == Config(1, "None")
Families == {Probing, Ordered, Reloaded}
Unordered == {Probing}

OneHash == [k \in Keys |-> 0]

Opts(most, attempts, age, policy, replies) ==
    [maxInFlight |-> most, maxAttempts |-> attempts, maxAge |-> age,
     balance |-> policy, breaker |-> [threshold |-> 1, openFor |-> 1],
     reply |-> replies]

OptionsOf(family) ==
    CASE family = Probing ->    \* two deliveries at once
             {Opts(2, 2, 2, "LeastInFlight", FALSE)}
      [] family = Ordered ->    \* an update is retried until it is old, in order of arrival
             {[Opts(2, 3, 2, "HashChat", FALSE) EXCEPT !.breaker.threshold = 2]}
      [] family = Reloaded ->   \* options that change the breaker or not, replies executed
             {Opts(1, 2, 3, "RoundRobin", TRUE),
              [Opts(1, 2, 3, "RoundRobin", TRUE) EXCEPT !.breaker.openFor = 2]}
MCOptions == UNION {OptionsOf(f) : f \in Families}

\* Probing: two updates without a key, two instants, crashes, no stop, no call.
\* Ordered: two updates of a key, one instant, every stop, crashes, no call.
\* Reloaded: one update, one instant, two calls of two bots, no stop.
Within ==
    /\ targets.opts \in OptionsOf(cfg)
    /\ cfg = Probing =>
          /\ \A s \in Seqs : entries[s].key = NoKey
          /\ stops = {} /\ calls = 0
    /\ cfg = Ordered => now = 0 /\ calls = 0 /\ \A s \in Seqs : entries[s].key # NoKey
    /\ cfg = Reloaded => now = 0 /\ nextSeq <= 1 /\ stops = {} /\ dispatcher.pc # "unwinding"
                         /\ \A s \in Seqs : entries[s].key = NoKey
    /\ cfg # Probing => \A s \in Deliveries : delivery[s].pc = "backoff" => delivery[s].until = 0

MCInit == PushInit /\ Within
MCNext == PushNext /\ cfg' = cfg /\ Within'
MCSpec == MCInit /\ [][MCNext]_allVars

\* An update is max_age old before a breaker reopens.
AgeOptions ==
    {[Opts(2, 2, 1, "RoundRobin", TRUE) EXCEPT !.breaker.openFor = 2]}
=============================================================================
