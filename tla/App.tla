-------------------------------- MODULE App --------------------------------
(***************************************************************************)
(* The process (tgin/src/app.rs and tgin-runtime/src/lifecycle.rs): the    *)
(* start, the run until a signal or until every source failed, and the     *)
(* shutdown, together with the reload task, the supervised tasks and the   *)
(* calls the bots' clients make through the gateway.                       *)
(*                                                                         *)
(* Left out: the admin plane's and the data plane's listeners, which are   *)
(* bound once; what the drain waits for (any time up to the grace).        *)
(***************************************************************************)
EXTENDS Reloader

VARIABLE
    app         \* pc of launch and App::run; left, how many more terminating
                \* signals force the exit (0: signals are no longer read)

vars == <<supervisorVars, sourceVars, reloaderVars, app>>

Boots == {b \in Bots : Ingress(b) # "none"}

Init ==
    /\ SupervisorInit
    /\ budget \in Budgets
    /\ file = budget.first /\ loaded = file /\ config = file.bots
    /\ started = [b \in Bots |-> NotStarted]
    /\ starting = {} /\ parked = {} /\ cancelled = {} /\ gateParked = {} /\ rejected = {}
    /\ stops = [b \in Bots |-> NoToken]
    /\ routes = [b \in Bots |-> Closed]
    /\ ingest = FALSE /\ tokens = 0 /\ notReady = Boots
    /\ calls = [b \in Bots |-> "none"]
    /\ hooks \in SUBSET (Upstreams \X {b \in Bots : Ingress(b) = "served"})
    /\ work = [Idle EXCEPT !.pc = "stop", !.who = "boot", !.bots = Boots]
    /\ phase = "starting" /\ stopReloads = FALSE
    /\ watch = FALSE /\ changed = FALSE
    /\ moves = <<>> /\ reloads = <<>> /\ due = FALSE
    /\ rl = [Free EXCEPT !.pc = "none"]
    /\ app = [pc |-> "boot", left |-> 1]

-----------------------------------------------------------------------------
(* The tasks' attempts.  A long poll ends when it is stopped, or when the  *)
(* server rejects its token; as it starts it deletes the bot's webhook.    *)

TaskBegins(t) ==
    /\ Begin(t)
    /\ hooks' = IF t.name[1] = "source" /\ ~Stopped(t.tok)
                THEN hooks \ {<<t.up, t.name[2]>>} ELSE hooks
    /\ UNCHANGED <<config, registryVars, routes, cancelled, ingest, tokens, notReady, gateVars,
                   rejected, work, reloaderVars, app>>

\* An identity task ends with the call made, refused or stopped; a register
\* task once the webhook is set or the bot stopped.
TaskDone(t) ==
    /\ Done(t)
    /\ LET kind == t.name[1]
           b == t.name[2]
       IN \/ Stopped(t.tok) /\ UNCHANGED hooks
          \/ kind = "identity" /\ UNCHANGED hooks
          \/ /\ kind = "register" /\ ~Stopped(t.tok)
             /\ hooks' = hooks \cup {<<t.up, b>>}
    /\ UNCHANGED <<config, registryVars, routes, cancelled, ingest, tokens, notReady, gateVars,
                   rejected, work, reloaderVars, app>>

TaskFails(t) ==
    /\ Fatal(t)
    /\ LET kind == t.name[1]
           b == t.name[2]
       IN /\ kind # "identity"
          /\ rejected' = IF kind = "register" THEN rejected \cup {b} ELSE rejected
    /\ UNCHANGED <<config, registryVars, routes, cancelled, ingest, tokens, notReady, gateVars,
                   hooks, work, reloaderVars, app>>

\* Exit::Retry of a long poll.
TaskRetries(t) == t.name[1] = "source" /\ Retry(t) /\ UNCHANGED <<sourceVars, reloaderVars, app>>
TaskStops(t) == StopOnCancel(t) /\ UNCHANGED <<sourceVars, reloaderVars, app>>

Reaps(r) == Reap(r) /\ UNCHANGED <<reloaderVars, app>>
ReaperGivesUp(r) == ReapGivesUp(r) /\ UNCHANGED <<reloaderVars, app>>

-----------------------------------------------------------------------------
(* A call of a bot's client through the gateway (gateway/mod.rs): counted, *)
(* then sent unless the bot is parked.  Only a move that closes the gate   *)
(* looks at it: a call begins when one is about to, as one that began      *)
(* before differs in nothing the move can see.                             *)

gateUnchanged == <<supervisorVars, config, registryVars, routes, cancelled, ingest, tokens,
                   notReady, gateParked, serverVars, work, reloaderVars, app>>

Enter(b) ==
    /\ rl.bot = b /\ rl.pc \in {"gate", "sending", "call"} /\ config[b] # Absent /\ calls[b] = "none"
    /\ calls' = [calls EXCEPT ![b] = "counted"]
    /\ UNCHANGED gateUnchanged

\* Mutant: the flag is not read after the call was counted.
PassUnread(b) ==
    /\ calls[b] = "counted"
    /\ calls' = [calls EXCEPT ![b] = "sending"]
    /\ UNCHANGED gateUnchanged

Pass(b) ==
    /\ calls[b] = "counted"
    /\ calls' = [calls EXCEPT ![b] = IF b \in gateParked THEN "none" ELSE "sending"]
    /\ UNCHANGED gateUnchanged

Sent(b) ==
    /\ calls[b] = "sending"
    /\ calls' = [calls EXCEPT ![b] = "none"]
    /\ UNCHANGED gateUnchanged

-----------------------------------------------------------------------------
(* launch, App::run and App::shutdown.                                     *)

Sequence == SequenceStep /\ UNCHANGED <<reloaderVars, app>>
Reloading == ReloaderStep /\ UNCHANGED app
processUnchanged == <<queueVars, fileVars>>
sourcesButIngest == <<config, registryVars, routes, cancelled, tokens, notReady, gateVars,
                      serverVars>>

\* assemble is through: the reload task takes the queues.
BootDone ==
    /\ app.pc = "boot" /\ Started
    /\ phase' = "running"
    /\ work' = Idle
    /\ rl' = At("settle")
    /\ app' = [app EXCEPT !.pc = "run"]
    /\ UNCHANGED <<supervisorVars, sourcesButWork, queueVars, fileVars, stopReloads>>

\* Handles::stop_now: assemble failed (a listener cannot be bound; signals
\* are not read then) or a terminating signal cut it short.
StopNow(left) ==
    /\ app.pc = "boot"
    /\ phase' = "draining" /\ stopReloads' = TRUE /\ ingest' = TRUE /\ force' = TRUE
    /\ work' = Idle
    /\ app' = [pc |-> "drain", left |-> left]
    /\ UNCHANGED <<tasks, entries, reapers, sourcesButIngest, processUnchanged, rl>>

BootFails == budget.stop /\ work.pc = "route" /\ StopNow(0)

\* begin_drain and stop_reloads: a terminating signal, or every source failed.
BeginDrain(left) ==
    /\ app.pc = "run"
    /\ phase' = "draining" /\ stopReloads' = TRUE
    /\ app' = [pc |-> "lame", left |-> left]
    /\ UNCHANGED <<supervisorVars, sourceVars, processUnchanged, rl>>

SourcesFailed == AllFailed /\ BeginDrain(2)

LameDuckOver ==
    /\ app.pc = "lame"
    /\ ingest' = TRUE
    /\ app' = [app EXCEPT !.pc = "drain"]
    /\ UNCHANGED <<supervisorVars, sourcesButIngest, work, reloaderVars>>

\* The drain is over, or stop_now has closed the listeners: the tasks end,
\* the deadline aborts those that do not, Handles::finish.  (A task spawned
\* while the shutdown waits is not waited for; it goes with the process.)
Finish ==
    /\ app.pc = "drain"
    /\ tasks' = Aborted
    /\ force' = TRUE
    /\ phase' = "stopped"
    /\ app' = [app EXCEPT !.pc = "exit"]
    /\ UNCHANGED <<entries, reapers, sourceVars, processUnchanged, stopReloads, rl>>

\* A terminating signal: it begins the shutdown, counts, or forces the exit
\* (Handles::force).
ForceExit ==
    /\ app.pc \in {"lame", "drain"} /\ app.left = 1
    /\ stopReloads' = TRUE /\ force' = TRUE /\ ingest' = TRUE
    /\ tasks' = Aborted
    /\ phase' = "stopped"
    /\ app' = [app EXCEPT !.pc = "exit"]
    /\ UNCHANGED <<entries, reapers, sourcesButIngest, work, processUnchanged, rl>>

Terminate ==
    /\ budget.stop
    /\ \/ StopNow(1)
       \/ BeginDrain(1)
       \/ /\ app.pc \in {"lame", "drain"} /\ app.left = 2
          /\ app' = [app EXCEPT !.left = 1]
          /\ UNCHANGED <<supervisorVars, sourceVars, reloaderVars>>
       \/ ForceExit

Exited == app.pc = "exit" /\ UNCHANGED vars

TaskStep ==
    \E t \in tasks : TaskBegins(t) \/ TaskDone(t) \/ TaskFails(t) \/ TaskRetries(t) \/ TaskStops(t)

Outside ==
    /\ ~Draining
    /\ \/ Hangup
       \/ \E b \in Bots, how \in {"logOut", "close"} : AskMove(b, how)
       \/ \E f \in Files \cup {Bad} : Edit(f)
    /\ UNCHANGED app

Shutdown == SourcesFailed \/ LameDuckOver \/ Finish

Next ==
    \/ Exited
    \/ /\ app.pc # "exit"
       /\ \/ TaskStep
          \/ \E r \in reapers : Reaps(r) \/ ReaperGivesUp(r)
          \/ \E b \in Bots : Enter(b) \/ Pass(b) \/ Sent(b)
          \/ Sequence \/ Reloading \/ BootDone \/ BootFails \/ Terminate \/ Shutdown
          \/ Outside

\* The runtime runs every task that can go on; a stopped attempt ends.
EndTask(t) == TaskBegins(t) \/ TaskStops(t) \/ (Stopped(t.tok) /\ TaskDone(t))
Fairness ==
    /\ WF_vars(app.pc # "exit" /\ Sequence)
    /\ WF_vars(app.pc # "exit" /\ Reloading)
    /\ WF_vars(app.pc # "exit" /\ BootDone)
    /\ \A n \in Names : WF_vars(app.pc # "exit" /\ \E t \in tasks : t.name = n /\ EndTask(t))

Spec == Init /\ [][Next]_vars
FairSpec == Spec /\ Fairness

-----------------------------------------------------------------------------
(* What the reloads, the moves and the shutdown promise about the bots.    *)

Live(t) == ~Ended(t) /\ ~Cancelled(t) /\ ~Stopped(t.tok)
OfBot(b, kind) == {t \in tasks : t.name = <<kind, b>> /\ Live(t)}

\* Whatever reloads, moves, reapers and dying tasks overlap, at most one long
\* poll of a bot goes on (a second one would take the first one's updates),
\* and a parked bot is silent: none of its tasks goes on and no webhook route
\* of it is open, also across reloads that touch it (sources.rs
\* start_long_poll, stop, park, ingest_of; supervisor.rs spawn).
OnePoller ==
    \A b \in Bots :
        /\ Cardinality(OfBot(b, "source")) <= 1
        /\ b \in parked => Stopped(routes[b]) /\ \A n \in Names : n[2] = b => OfBot(b, n[1]) = {}

\* While the server is called to log a bot out, no gateway call of the bot is
\* being sent to it, which would log the bot in again (gateway/mod.rs
\* Gate::enter against reload.rs set_parked and calls_sent).
LogoutQuiet == rl.pc = "call" => calls[rl.bot] # "sending"

SourcesAsConfigured ==
    /\ starting = {} /\ notReady = {}
    /\ \A b \in Bots \ parked :
         /\ b \notin gateParked
         /\ Ingress(b) # "poll" => OfBot(b, "source") = {}
         /\ Ingress(b) # "hook" => OfBot(b, "register") = {}
         /\ Ingress(b) = "poll" =>
              /\ started[b] = [kind |-> "poll", src |-> stops[b]]
              /\ ~Stopped(stops[b])
              /\ \E t \in Listed(<<"source", b>>) :
                   t.tok = stops[b] /\ t.up = config[b].up /\ ~t.cut
         /\ b \in Hooked <=> ~Stopped(routes[b])
         /\ b \in Hooked <=> started[b].kind = "hook"

HooksAsConfigured ==
    \A b \in Bots \ parked :
        \/ Ingress(b) # "hook"
        \/ <<config[b].up, b>> \in hooks
        \/ b \in rejected
        \/ \E t \in OfBot(b, "register") : t.up = config[b].up

\* Between jobs of the reload task the bots are as the config in effect says.
\* A long poll that is not parked is the one the registry and the supervisor
\* list, on the configured server, with a token that only a shutdown has
\* cancelled; a webhook's route is open; what is not configured is closed and
\* has no task; nobody is left starting or not ready.  The webhook of a bot
\* that tgin registers is set at the configured server, or still being
\* retried, or was logged as given up.  So a move that failed leaves no trace
\* and no reload loses a webhook silently (sources.rs stop, start_webhooks,
\* retry_registration, start_long_poll; reload.rs restart_sources, resume).
RunsAsConfigured ==
    (rl.pc = "select" /\ ~ingest) => SourcesAsConfigured /\ HooksAsConfigured

\* When all_failed shuts the process down, each bot's current long poll has
\* failed, not one that a restart is replacing (sources.rs all_failed and
\* the order of start_long_poll).
FailedForGood ==
    AllFailed => \A b \in Bots : started[b] # NotStarted =>
        \E t \in tasks : t.name = <<"source", b>> /\ t.tok = started[b].src /\ t.state = "failed"

\* After every SIGHUP the file is read, or the process shuts down: also when
\* the queue is full, a reload or a move runs or the process still starts
\* (reload.rs signal, run).
SignalCovered == due ~> (~due \/ Draining)

\* reload.rs:261-262: "Waiting moves run first, so a reload never runs before
\* a move asked for earlier".
MovesFirst == [][rl.pc' = "begin" /\ rl.pc # "begin" => moves = <<>>]_vars
=============================================================================
