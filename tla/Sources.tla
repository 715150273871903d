------------------------------- MODULE Sources -------------------------------
(***************************************************************************)
(* The bots' sources (tgin/src/sources.rs): the registry, the tokens that  *)
(* stop a source, the data plane's webhook routes, and the sequence that   *)
(* stops, prepares and starts sources, which App::assemble runs once and   *)
(* the reloader runs for every reload and for a move that failed.  Its     *)
(* steps are separate where it awaits a Bot API call or lets a lock go     *)
(* that others look behind.  Bot::prepare cannot fail here: a config that  *)
(* loads has valid tokens and http URLs (config/resolve.rs).               *)
(***************************************************************************)
EXTENDS Supervisor

CONSTANTS
    Upstreams,  \* Bot API servers
    MaxTokens   \* bound: preparations of a source in one behaviour

\* How a bot is configured: absent, without ingress, by long poll, or by a
\* webhook that tgin registers or that its operator sets ("served").  opt
\* stands for the settings whose change restarts the source.
Bot == [ingress : {"none", "poll", "hook", "served"}, up : Upstreams, opt : {1, 2}]
Absent == [ingress |-> "absent"]

NoToken == 0    \* Sources::ingest_of's default, the process's ingest token
Closed == -1    \* a token that was cancelled from the start

VARIABLES
    config,     \* Shared.config: the bots of the config in effect
    started,    \* Registry.started: kind and long poll of each source that runs
    starting, stops, parked,    \* Registry's other fields
    routes,     \* DataRoutes: the token each webhook route answers by
    cancelled,  \* the stop tokens that are cancelled
    ingest,     \* Lifecycle's ingest token is cancelled, their parent
    tokens,     \* the stop tokens made so far
    notReady,   \* Health: the sources that are not ready
    gateParked, \* Gate.parked of the gateway's bots
    calls,      \* the gateway call of each bot: none, counted or sending
    hooks,      \* at the Bot API servers: which webhooks are set
    rejected,   \* the bots whose webhook is logged as not set for good
    work        \* the sequence under way

registryVars == <<started, starting, stops, parked>>
gateVars == <<gateParked, calls>>
serverVars == <<hooks, rejected>>
sourceVars == <<config, registryVars, routes, cancelled, ingest, tokens, notReady,
                gateVars, serverVars, work>>

NotStarted == [kind |-> "none", src |-> NoTask]     \* src: the long poll's token
Present(cfg) == {b \in Bots : cfg[b] # Absent}
Ingress(b) == IF config[b] = Absent THEN "none" ELSE config[b].ingress
Hooked == {b \in Bots : Ingress(b) \in {"hook", "served"}}
Stopped(tok) == ingest \/ tok = Closed \/ tok \in cancelled

\* pc says which step is next; todo are the bots still to be stopped, moved
\* those of them that are on another upstream, bots the bots to start.
Idle == [pc |-> "idle", who |-> "none", todo |-> {}, moved |-> {}, bots |-> {}]

-----------------------------------------------------------------------------
(* Sources::stop, park, unpark and reap.                                   *)

\* Sources::ended: the tasks of the bot are watched until they end.
Watch(b) == {[name |-> n, tok |-> entries[n]] : n \in {m \in Names : m[2] = b /\ entries[m] # NoTask}}

\* Mutant: the source's stop token is only forgotten.
CutNothing(b) == {}

\* The stop token the registry drops is cancelled.
Cut(b) == {stops[b]} \ {NoToken}

StopBot(b, why, unpark) ==
    /\ starting' = IF why = "Restart" THEN starting \cup {b} ELSE starting
    /\ parked' = IF why = "BotGone" \/ unpark THEN parked \ {b} ELSE parked
    /\ gateParked' = IF unpark THEN gateParked \ {b} ELSE gateParked
    /\ stops' = IF why = "Restart" THEN stops ELSE [stops EXCEPT ![b] = NoToken]
    /\ started' = [started EXCEPT ![b] = NotStarted]
    /\ notReady' = IF why = "Restart" THEN notReady ELSE notReady \ {b}
    /\ cancelled' = cancelled \cup Cut(b)
    /\ reapers' = IF started[b] = NotStarted THEN reapers ELSE reapers \cup Watch(b)

Park(b) ==
    /\ parked' = parked \cup {b}
    /\ started' = [started EXCEPT ![b] = NotStarted]
    /\ cancelled' = cancelled \cup Cut(b)
    /\ reapers' = IF started[b] = NotStarted THEN reapers ELSE reapers \cup Watch(b)
    /\ UNCHANGED <<starting, stops, tasks, entries, force>>

\* A reaper whose task has ended forgets the name, unless a long poll owns
\* it by now; it holds the registry's lock meanwhile.
Reap(r) ==
    /\ \E t \in tasks : t.name = r.name /\ t.tok = r.tok /\ Ended(t)
    /\ reapers' = reapers \ {r}
    /\ IF r.name[1] = "source" /\ started[r.name[2]].kind = "poll"
       THEN entries' = entries /\ tasks' = Forget(tasks, entries, reapers')
       ELSE Remove(r.name, reapers')
    /\ UNCHANGED <<force, sourceVars>>

\* REAP_WAIT passes first.
ReapGivesUp(r) ==
    /\ \A t \in tasks : t.name = r.name /\ t.tok = r.tok => ~Ended(t)
    /\ reapers' = reapers \ {r}
    /\ tasks' = Forget(tasks, entries, reapers')
    /\ UNCHANGED <<entries, force, sourceVars>>

\* Mutant: a source that is being started again is not asked about.
AllFailedNow ==
    /\ parked = {}
    /\ \E b \in Bots : started[b] # NotStarted
    /\ \A b \in Bots : started[b] # NotStarted =>
         /\ started[b].kind = "poll"
         /\ \E t \in Listed(<<"source", b>>) : t.state = "failed"

\* Sources::all_failed.
AllFailed ==
    /\ starting = {} /\ parked = {}
    /\ \E b \in Bots : started[b] # NotStarted
    /\ \A b \in Bots : started[b] # NotStarted =>
         /\ started[b].kind = "poll"
         /\ \E t \in Listed(<<"source", b>>) : t.state = "failed"

-----------------------------------------------------------------------------
(* The sequence: Reloader::restart_sources and start_sources, and the same *)
(* calls of App::assemble.                                                 *)

WhyStop(b) == IF config[b] = Absent THEN "BotGone"
              ELSE IF Ingress(b) = "none" THEN "SourceGone" ELSE "Restart"

StopNext ==
    /\ work.pc = "stop" /\ work.todo # {}
    /\ LET b == CHOOSE c \in work.todo : TRUE
           restart == WhyStop(b) = "Restart"
           skip == restart /\ b \in parked /\ b \notin work.moved
       IN /\ IF skip
             THEN UNCHANGED <<registryVars, gateParked, notReady, cancelled, reapers>>
             ELSE StopBot(b, WhyStop(b), b \in work.moved)
          /\ work' = [work EXCEPT !.todo = @ \ {b},
                                  !.bots = IF restart /\ ~skip THEN @ \cup {b} ELSE @]
    /\ UNCHANGED <<tasks, entries, force, config, routes, ingest, tokens, calls, serverVars>>

\* Sources::prepare of each bot: a stop token of its own, a child of ingest.
Prepare ==
    /\ work.pc = "stop" /\ work.todo = {}
    /\ LET n == Cardinality(work.bots)
           new == CHOOSE f \in [work.bots -> tokens + 1 .. tokens + n] :
                    \A b, c \in work.bots : b # c => f[b] # f[c]
       IN /\ tokens + n <= MaxTokens
          /\ tokens' = tokens + n
          /\ stops' = [b \in Bots |-> IF b \in work.bots THEN new[b] ELSE stops[b]]
    /\ starting' = starting \cup work.bots
    /\ notReady' = notReady \cup work.bots
    /\ rejected' = rejected \ work.bots
    /\ work' = [work EXCEPT !.pc = IF work.who = "boot" THEN "identify" ELSE "route"]
    /\ UNCHANGED <<supervisorVars, config, started, parked, routes, cancelled, ingest,
                   gateVars, hooks>>

\* Sources::ingest_of for each webhook bot: DataRoutes::new and rebuild.
Route ==
    /\ work.pc = "route"
    /\ routes' = [b \in Bots |-> IF b \notin Hooked \/ b \in parked THEN Closed ELSE stops[b]]
    /\ work' = [work EXCEPT !.pc = IF work.who = "boot" THEN "hooks" ELSE "identify"]
    /\ UNCHANGED <<supervisorVars, config, registryVars, cancelled, ingest, tokens, notReady,
                   gateVars, serverVars>>

Starting(ingress) == {b \in work.bots : Ingress(b) \in ingress}
On == [b \in work.bots |-> [tok |-> stops[b], up |-> config[b].up]]

\* Sources::identify: the getMe calls of the webhook bots have ended; those
\* that failed for now go on in the background.
Identify ==
    /\ work.pc = "identify"
    /\ \E failed \in SUBSET Starting({"hook", "served"}) :
          Spawn({"identity"} \X failed, On)
    /\ work' = [work EXCEPT !.pc = IF work.who = "boot" THEN "route" ELSE "hooks"]
    /\ UNCHANGED <<force, reapers, config, registryVars, routes, cancelled, ingest, tokens,
                   notReady, gateVars, serverVars>>

\* Sources::start_webhooks up to its calls: the webhook sources have started.
StartWebhooks ==
    /\ work.pc = "hooks"
    /\ LET up == Starting({"hook", "served"})
       IN /\ started' = [b \in Bots |-> IF b \in up THEN [kind |-> "hook", src |-> NoTask]
                                                    ELSE started[b]]
          /\ starting' = starting \ up
    /\ work' = [work EXCEPT !.pc = "register"]
    /\ UNCHANGED <<supervisorVars, config, stops, parked, routes, cancelled, ingest, tokens,
                   notReady, gateVars, serverVars>>

\* Those whose registration goes on in the background (retry_registration).
Retried(answer) == {b \in DOMAIN answer : answer[b] = "retry"}

\* The setWebhook calls have ended: set, to be retried in the background, or
\* given up (rejected for good, not a valid URL or certificate, stopped).
Register ==
    /\ work.pc = "register"
    /\ \E answer \in [Starting({"hook"}) -> {"ok", "retry", "no"}] :
         LET having(r) == {b \in DOMAIN answer : answer[b] = r}
         IN /\ hooks' = hooks \cup {<<config[b].up, b>> : b \in having("ok")}
            /\ rejected' = rejected \cup having("no")
            /\ Spawn({"register"} \X Retried(answer), On)
    /\ notReady' = notReady \ Starting({"hook", "served"})
    /\ work' = [work EXCEPT !.pc = "poll", !.bots = Starting({"poll"})]
    /\ UNCHANGED <<force, reapers, config, registryVars, routes, cancelled, ingest, tokens,
                   gateVars>>

\* Sources::start_long_poll for the next bot, up to and after each lock.
StartPoll ==
    /\ work.pc = "poll" /\ work.bots # {}
    /\ LET b == CHOOSE c \in work.bots : TRUE
       IN started' = [started EXCEPT ![b] = [kind |-> "poll", src |-> NoTask]]
    /\ work' = [work EXCEPT !.pc = "spawn"]
    /\ UNCHANGED <<supervisorVars, config, starting, stops, parked, routes, cancelled, ingest,
                   tokens, notReady, gateVars, serverVars>>

SpawnPoll ==
    /\ work.pc = "spawn"
    /\ LET b == CHOOSE c \in work.bots : TRUE
       IN /\ Spawn({<<"source", b>>}, On)
          /\ started' = [started EXCEPT ![b].src = stops[b]]
    /\ work' = [work EXCEPT !.pc = "ready"]
    /\ UNCHANGED <<force, reapers, config, starting, stops, parked, routes, cancelled, ingest,
                   tokens, notReady, gateVars, serverVars>>

PollReady ==
    /\ work.pc = "ready"
    /\ LET b == CHOOSE c \in work.bots : TRUE
       IN /\ starting' = starting \ {b}
          /\ notReady' = notReady \ {b}
          /\ work' = [work EXCEPT !.pc = "poll", !.bots = @ \ {b}]
    /\ UNCHANGED <<supervisorVars, config, started, stops, parked, routes, cancelled, ingest,
                   tokens, gateVars, serverVars>>

SequenceStep ==
    \/ StopNext \/ Prepare \/ Route \/ Identify \/ StartWebhooks \/ Register
    \/ StartPoll \/ SpawnPoll \/ PollReady

Started == work.pc = "poll" /\ work.bots = {}
=============================================================================
