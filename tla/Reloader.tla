------------------------------ MODULE Reloader ------------------------------
(***************************************************************************)
(* The reload task (tgin/src/reload.rs): it takes moves and reloads from   *)
(* two queues, moves first, and watches the config file.  A reload applies *)
(* the file and runs the sequence of Sources; a move drains a bot's        *)
(* server, parks the bot, closes the gateway's gate and logs the bot out.  *)
(* Times are left out: a wait with a deadline may end at any time.         *)
(***************************************************************************)
EXTENDS Sources, Sequences

CONSTANTS
    Files,      \* what the config file may hold: [bots, watch]; or Bad
    Bad,        \* a file that cannot be read, loaded or applied
    Queue,      \* QUEUE, the room of each channel
    Budgets     \* bound: what the world may do in one behaviour, a set of
                \* [first : the file at the start,
                \*  edits : what it may write to the file, each once,
                \*  moves : the moves it may ask for, stop : may it send signals
                \*  that terminate the process]

ASSUME QueueAssumption == Queue \in Nat \ {0}

\* What config/resolve.rs lets through; a move is one of the two.
ASSUME FilesAssumption ==
    /\ Files \subseteq [bots : [Bots -> Bot \cup {Absent}], watch : BOOLEAN]
    /\ Budgets \subseteq [first : Files, edits : SUBSET (Files \cup {Bad}),
                          moves : SUBSET {"logOut", "close"}, stop : BOOLEAN]

VARIABLES
    phase,          \* Lifecycle.phase
    stopReloads,    \* Handles.stop_reloads is cancelled
    file, loaded,   \* the file now, and as the config in effect was loaded
    watch, changed, \* the file is watched; it reported a change
    moves, reloads, \* the two channels
    due,            \* history: a SIGHUP came and no reload has read the file since
    budget,         \* what is left of it
    rl              \* the task: control state and the move it runs

queueVars == <<moves, reloads, due, budget>>
fileVars == <<file, loaded, watch, changed>>
reloaderVars == <<queueVars, fileVars, phase, stopReloads, rl>>

NoBot == "none"
At(pc) == [rl EXCEPT !.pc = pc]
Free == [pc |-> "select", bot |-> NoBot, how |-> "none", deleted |-> FALSE]
Draining == phase \in {"draining", "stopped"}
sourcesButWork == <<config, registryVars, routes, cancelled, ingest, tokens, notReady,
                    gateVars, serverVars>>

-----------------------------------------------------------------------------
(* ReloadQueue and the world around it.                                    *)

\* Mutant: a signal is dropped while the task is at work.
HangupUnlessBusy ==
    /\ ~Draining
    /\ reloads' = IF Len(reloads) < Queue /\ rl.pc = "select" THEN Append(reloads, "signal") ELSE reloads
    /\ due' = TRUE
    /\ UNCHANGED <<supervisorVars, sourceVars, fileVars, moves, budget, phase, stopReloads, rl>>

\* ReloadQueue::signal: without room, a reload that waits covers it.
Hangup ==
    /\ ~Draining
    /\ reloads' = IF Len(reloads) < Queue THEN Append(reloads, "signal") ELSE reloads
    /\ due' = TRUE
    /\ UNCHANGED <<supervisorVars, sourceVars, fileVars, moves, budget, phase, stopReloads, rl>>

\* ReloadQueue::move_bot, once the channel has room.
AskMove(b, how) ==
    /\ how \in budget.moves /\ rl.pc # "end" /\ Len(moves) < Queue
    /\ budget' = [budget EXCEPT !.moves = @ \ {how}]
    /\ moves' = Append(moves, [bot |-> b, how |-> how])
    /\ UNCHANGED <<supervisorVars, sourceVars, fileVars, reloads, due, phase, stopReloads, rl>>

\* An operator edits the file.  The watch, if there is one, finds bytes other
\* than it last saw and reports it, unless a report waits (Change::check).
Edit(f) ==
    /\ f \in budget.edits /\ f # file
    /\ budget' = [budget EXCEPT !.edits = @ \ {f}]
    /\ file' = f
    /\ changed' = watch
    /\ UNCHANGED <<supervisorVars, sourceVars, moves, reloads, due, loaded, watch, phase,
                   stopReloads, rl>>

-----------------------------------------------------------------------------
(* Reloader::run.                                                          *)

\* Reloader::rewatch in settle: match the watch to the config; a new watch
\* on a file that changed before is a reload at once.  The file may be one
\* that cannot be watched.
Settle ==
    /\ rl.pc = "settle"
    /\ \/ /\ watch = loaded.watch \/ ~loaded.watch
          /\ watch' = loaded.watch
          /\ rl' = Free
       \/ /\ ~watch /\ loaded.watch
          /\ \/ watch' = TRUE /\ rl' = IF file # loaded THEN At("begin") ELSE Free
             \/ watch' = FALSE /\ rl' = Free
    /\ changed' = (changed /\ watch /\ watch')
    /\ UNCHANGED <<supervisorVars, sourceVars, queueVars, file, loaded, phase, stopReloads>>

\* The biased select: stop, then moves, then reloads, then the watcher.
TakeStop ==
    /\ rl.pc = "select" /\ stopReloads
    /\ rl' = At("end")
    /\ UNCHANGED <<supervisorVars, sourceVars, queueVars, fileVars, phase, stopReloads>>

\* Reloader::move_bot up to its first wait: a move that came too late, whose
\* requester went away (Awaited::drop), of no bot or of a parked one ends here.
TakeMove ==
    /\ rl.pc = "select" /\ ~stopReloads /\ moves # <<>>
    /\ LET m == Head(moves)
           runs == ~Draining /\ config[m.bot] # Absent /\ m.bot \notin parked
       IN \/ rl' = Free     \* runs or not: its deadline or its requester is gone
          \/ runs /\ rl' = [Free EXCEPT !.pc = "drain", !.bot = m.bot, !.how = m.how]
    /\ moves' = Tail(moves)
    /\ UNCHANGED <<supervisorVars, sourceVars, fileVars, reloads, due, budget, phase, stopReloads>>

TakeReload ==
    /\ rl.pc = "select" /\ ~stopReloads /\ moves = <<>>
    /\ \/ reloads # <<>> /\ reloads' = Tail(reloads) /\ UNCHANGED changed
       \/ reloads = <<>> /\ changed /\ changed' = FALSE /\ UNCHANGED reloads
    /\ rl' = At("begin")
    /\ UNCHANGED <<supervisorVars, sourceVars, moves, due, budget, file, loaded, watch,
                   phase, stopReloads>>

\* The watcher stopped.
WatchEnds ==
    /\ rl.pc = "select" /\ ~stopReloads /\ moves = <<>> /\ reloads = <<>> /\ watch /\ ~changed
    /\ watch' = FALSE
    /\ UNCHANGED <<supervisorVars, sourceVars, queueVars, file, loaded, changed, phase,
                   stopReloads, rl>>

\* Reloader::reload up to the read: no reload once the drain has begun.
BeginReload ==
    /\ rl.pc = "begin"
    /\ rl' = At(IF Draining THEN "select" ELSE "read")
    /\ UNCHANGED <<supervisorVars, sourceVars, queueVars, fileVars, phase, stopReloads>>

\* The file was read: a bad one changes nothing, another one is applied to
\* the engine and the gateway (Gateway::set_bots keeps the gates of the bots
\* that stay) and the sources are to follow.  Both need the report of
\* Engine::apply: which bots are gone, new, changed or moved.
Reject ==
    /\ rl.pc = "read" /\ file = Bad
    /\ rl' = At("select")
    /\ due' = FALSE
    /\ UNCHANGED <<supervisorVars, sourceVars, fileVars, moves, reloads, budget, phase, stopReloads>>

Apply ==
    /\ rl.pc = "read" /\ file # Bad
    /\ LET new == file.bots
           kept == Present(config) \cap Present(new)
           changedBots == {b \in kept : config[b] # new[b]}
       IN /\ work' = [Idle EXCEPT
                        !.pc = "stop", !.who = "reload",
                        !.todo = (Present(config) \ Present(new)) \cup changedBots,
                        !.moved = {b \in changedBots : config[b].up # new[b].up},
                        !.bots = {b \in Present(new) \ kept : new[b].ingress # "none"}]
          /\ config' = new
          /\ gateParked' = gateParked \cap kept
          /\ calls' = [b \in Bots |-> IF b \in kept THEN calls[b] ELSE "none"]
    /\ loaded' = file
    /\ due' = FALSE
    /\ rl' = At("apply")
    /\ UNCHANGED <<supervisorVars, registryVars, routes, cancelled, ingest, tokens, notReady,
                   serverVars, file, watch, changed, moves, reloads, budget, phase,
                   stopReloads>>

\* The sources follow; then the watch.
Applied ==
    /\ rl.pc = "apply" /\ Started
    /\ work' = Idle
    /\ rl' = At("settle")
    /\ UNCHANGED <<supervisorVars, sourcesButWork, queueVars, fileVars, phase, stopReloads>>

-----------------------------------------------------------------------------
(* Reloader::move_bot from its first wait on.                              *)

moveUnchanged == <<queueVars, fileVars, phase, stopReloads>>
Moving == rl.bot

\* Sources::drain_upstream: the long poll got an empty batch and is held, the
\* server reports no pending update, or there is no ingress.  Then the bot's
\* ingest stops at once.
Drained ==
    /\ rl.pc = "drain" /\ ~ingest
    /\ Ingress(Moving) = "poll" =>
          \E t \in tasks : /\ t.name = <<"source", Moving>> /\ t.tok = started[Moving].src
                          /\ t.state = "running"
    /\ rl' = At("deliver")
    /\ Park(Moving)
    /\ UNCHANGED <<config, routes, ingest, tokens, notReady, gateVars, serverVars, work,
                   moveUnchanged>>

\* Not in time, the requester went away, or the shutdown stopped ingest.
NotDrained ==
    /\ rl.pc = "drain"
    /\ rl' = Free
    /\ UNCHANGED <<supervisorVars, sourceVars, moveUnchanged>>

\* What tgin holds of the bot is delivered, or its time is up.
Delivered ==
    /\ rl.pc = "deliver"
    /\ rl' = IF ingest THEN Free ELSE At("gate")
    /\ UNCHANGED <<supervisorVars, sourceVars, moveUnchanged>>

CloseGate ==
    /\ rl.pc = "gate"
    /\ gateParked' = gateParked \cup {Moving}
    /\ rl' = At("sending")
    /\ UNCHANGED <<supervisorVars, config, registryVars, routes, cancelled, ingest, tokens,
                   notReady, calls, serverVars, work, moveUnchanged>>

\* calls_sent: no call is being sent, or the deadline is there.
CallsSent ==
    /\ rl.pc = "sending"
    /\ \/ /\ ~ingest /\ calls[Moving] = "none"
          /\ rl' = At("call")
          /\ UNCHANGED gateParked
       \/ /\ ~ingest /\ calls[Moving] # "none"
          /\ rl' = At("resume")
          /\ UNCHANGED gateParked
       \/ /\ ingest
          /\ rl' = Free
          /\ gateParked' = gateParked \ {Moving}
    /\ UNCHANGED <<supervisorVars, config, registryVars, routes, cancelled, ingest, tokens,
                   notReady, calls, serverVars, work, moveUnchanged>>

\* logOut, or deleteWebhook and then close; each call may fail.  deleted: the
\* operator's webhook is deleted and the bot was not logged out.
CallServer ==
    /\ rl.pc = "call"
    /\ LET hook == <<config[Moving].up, Moving>>
       IN \/ /\ rl.how = "logOut"
             /\ rl' \in {Free, At("resume")}
             /\ UNCHANGED hooks
          \/ /\ rl.how = "close"
             /\ rl' = At("resume")
             /\ UNCHANGED hooks
          \/ /\ rl.how = "close"
             /\ hooks' = hooks \ {hook}
             /\ \/ rl' = Free
                \/ rl' = [rl EXCEPT !.pc = "resume",
                                    !.deleted = Ingress(Moving) = "served" /\ hook \in hooks]
    /\ UNCHANGED <<supervisorVars, config, registryVars, routes, cancelled, ingest, tokens,
                   notReady, gateVars, rejected, work, moveUnchanged>>

\* Mutant: the bot is let go on, its source stays stopped.
SourceOfNone(b) == {}

\* The bot's source, if it has one.
SourceOf(b) == IF Ingress(b) = "none" THEN {} ELSE {b}

\* Reloader::resume: the bot is unparked and its source starts again.
Resume ==
    /\ rl.pc = "resume"
    /\ parked' = parked \ {Moving}
    /\ gateParked' = gateParked \ {Moving}
    /\ work' = [Idle EXCEPT !.pc = "stop", !.who = "resume",
                            !.bots = SourceOf(Moving)]
    /\ rl' = At("resuming")
    /\ UNCHANGED <<supervisorVars, config, started, starting, stops, routes, cancelled, ingest,
                   tokens, notReady, calls, serverVars, moveUnchanged>>

\* ... and the webhook its operator had set is set again, or logged as lost.
Resumed ==
    /\ rl.pc = "resuming" /\ Started
    /\ LET hook == <<config[Moving].up, Moving>>
       IN \/ ~rl.deleted /\ UNCHANGED serverVars
          \/ rl.deleted /\ hooks' = hooks \cup {hook} /\ UNCHANGED rejected
          \/ rl.deleted /\ rejected' = rejected \cup {Moving} /\ UNCHANGED hooks
    /\ work' = Idle
    /\ rl' = Free
    /\ UNCHANGED <<supervisorVars, config, registryVars, routes, cancelled, ingest, tokens,
                   notReady, gateVars, moveUnchanged>>

ReloaderStep ==
    \/ Settle \/ TakeStop \/ TakeMove \/ TakeReload \/ BeginReload \/ WatchEnds \/ Reject \/ Apply \/ Applied
    \/ Drained \/ NotDrained \/ Delivered \/ CloseGate \/ CallsSent \/ CallServer
    \/ Resume \/ Resumed
=============================================================================
