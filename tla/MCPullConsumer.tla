--------------------------- MODULE MCPullConsumer ---------------------------
(***************************************************************************)
(* The instance of PullConsumer for TLC: two families of configs, each     *)
(* with bounds of its own, between which no reload goes.                   *)
(***************************************************************************)
EXTENDS PullConsumer, TLC

CONSTANTS h1, c1, c2, p1

Config(capacity, ordering) ==
    [capacity |-> capacity, capacityBytes |-> 8, leaseTimeout |-> 1,
     ordering |-> ordering, onFull |-> "Backpressure"]

\* One poll, long enough for a drain hold to end first; the ordering
\* switches live.
LongConfigs == {Config(4, "None"), Config(4, "PerKey")}

\* Two polls, no drain.
TwoConfigs == {Config(2, "PerKey")}
MCConfigs == LongConfigs \cup TwoConfigs

\* Requests that ack everything, nothing or below 2, with a timeout of 1, of
\* MaxTimeout or beyond it, written in every way that pull.rs reads, and
\* some that it does not.
Asked(query, type, body) ==
    [header |-> {h1}, client |-> {}, query |-> query, type |-> type, body |-> body]
MCRequests ==
    {Asked(<<<<"offset", 0 - 1>>, <<"timeout", 1>>>>, "none", <<>>),
     Asked(<<<<"offset", 2>>, <<"timeout", 7>>, <<"limit", 9>>>>, "none", <<>>),
     Asked(<<<<"timeout", 2>>>>, "form", <<<<"offset", 2>>, <<"timeout", 1>>>>),
     Asked(<<>>, "json", <<<<"timeout", NoInteger>>, <<"timeout", 1>>>>),
     Asked(<<>>, "form", <<<<"timeout", NoInteger>>, <<"timeout", 1>>>>),
     Asked(<<>>, "multipart", <<<<"timeout", 1>>>>),
     [Asked(<<<<"offset", 2>>>>, "form", <<<<"timeout", 1>>>>) EXCEPT !.header = {}, !.client = {h1}],
     [Asked(<<<<"timeout", 2>>>>, "json", <<>>) EXCEPT !.header = {NoInstance}, !.client = {h1}],
     Asked(<<<<"timeout", 2>>>>, "json", <<>>),
     Asked(<<<<"timeout", 2>>>>, "json", <<<<"offset", 0 - 1>>>>)}

\* telegram-bot-api reads the query string and then the body, and takes the
\* first match of a name; so does Params::parse, if none comes twice in one
\* of them.
Members == {<<k, n>> : k \in Keywords, n \in {0 - 1, 1, 3}}
Once == {<<>>} \cup {<<a>> : a \in Members} \cup {<<a, b>> : a, b \in {m \in Members : m[2] = 1} \cup {<<"limit", 3>>}}
ASSUME FirstMatch ==
    \A query, body \in {m \in Once : \A i, j \in DOMAIN m : m[i][1] = m[j][1] => i = j} :
        \A key \in Keywords :
            LET all == query \o body
                first == {i \in DOMAIN all : all[i][1] = key /\ \A j \in 1 .. i - 1 : all[j][1] # key}
            IN Param(Asked(query, "form", body), key) = {all[i][2] : i \in first}

Within ==
    IF cfg \in LongConfigs THEN poll[c2].pc = "idle"
    ELSE /\ now <= 1 /\ ~draining
         /\ \A c \in Polls : poll[c].pc = "held" => poll[c].offset = 2 /\ poll[c].deadline <= 1

MCNext == PullNext /\ (cfg \in LongConfigs <=> cfg' \in LongConfigs) /\ Within'

\* The clock of the second family stops before its fairness says so: what is
\* answered in the end is checked by the first.
MCSpec == PullInit /\ [][MCNext]_allVars /\ PullFairness
=============================================================================
