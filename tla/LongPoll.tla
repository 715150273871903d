------------------------------ MODULE LongPoll ------------------------------
(***************************************************************************)
(* tgin-botapi's long-poll source: getUpdates into a sink that may push    *)
(* back, and the drain that an operator's move of the bot waits for.       *)
(*                                                                         *)
(* The Bot API server keeps an update until a getUpdates asks for a later  *)
(* one.  A request that the source gives up may still be handled by it.    *)
(* The run of the source is one process; it is at an await in the states   *)
(* Awaits.  The supervisor starts it again after a panic.  The drains of a *)
(* source follow each other: the reloader runs one move at a time.         *)
(*                                                                         *)
(* Left out: identities, metrics, last_error, the lengths of the waits,    *)
(* and gaps between update ids.                                            *)
(***************************************************************************)
EXTENDS Integers

CONSTANTS
    Limit,        \* opts.limit: updates per getUpdates
    MaxUpdates,   \* bound: updates in one behaviour
    MaxDrains,    \* bound: drains begun
    MaxFaults     \* bound: webhooks set by another process, and panics

ASSUME LongPollAssumption ==
    /\ Limit \in Nat \ {0}
    /\ {MaxUpdates, MaxDrains, MaxFaults} \subseteq Nat

VARIABLES
    arrived,      \* the server: updates 1 to arrived came
    confirmed,    \* the server: those up to confirmed are forgotten
    hook,         \* the server: a webhook is active
    ghosts,       \* offsets of requests given up, which may still be handled
    wire,         \* the request under way
    batch,        \* its updates, those from batch.from to batch.to
    pc,           \* where the run is
    offset,       \* Poll.offset
    recent,       \* Poll.webhook_deleted is less than 60 s ago
    draining,     \* whether the current poll is a drain's
    deleteWebhookOnStart, \* opts.delete_webhook_on_start
    admitted,     \* the updates that the sink took
    stop,         \* the ingest token is cancelled
    on,           \* Drain.on
    changed,      \* on changed since the run last looked
    drain,        \* the drain under way
    drains,       \* drains begun
    faults        \* webhooks set by another process and panics so far

serverVars == <<arrived, confirmed, hook, ghosts>>
runVars == <<pc, offset, recent, draining>>
drainVars == <<on, changed, drain, drains>>
vars == <<serverVars, wire, batch, runVars, deleteWebhookOnStart, admitted,
          stop, drainVars, faults>>

-----------------------------------------------------------------------------
Awaits == {"getMe", "getMeWait", "deleteWebhook", "poll", "full", "hold",
           "redelete", "wait"}

NoBatch == [from |-> 1, to |-> 0]
NoDrain == [pc |-> "none", notified |-> FALSE, before |-> 0, fresh |-> TRUE]

Init ==
    /\ arrived = 0 /\ confirmed = 0
    /\ hook \in BOOLEAN
    /\ ghosts = {}
    /\ wire = "none" /\ batch = NoBatch
    /\ pc = "getMe" /\ offset = 0 /\ recent = FALSE /\ draining = FALSE
    /\ deleteWebhookOnStart \in BOOLEAN
    /\ admitted = {} /\ faults = 0
    /\ stop = FALSE
    /\ on = FALSE /\ changed = FALSE /\ drains = 0
    /\ drain = NoDrain

-----------------------------------------------------------------------------
\* The Bot API server.

Arrive ==
    /\ arrived < MaxUpdates
    /\ arrived' = arrived + 1
    /\ UNCHANGED <<confirmed, hook, ghosts, wire, batch, runVars,
                   deleteWebhookOnStart, admitted, stop, drainVars, faults>>

\* What the server forgets up to when it gets a request with this offset.
Forget(asked) == IF asked > confirmed THEN asked - 1 ELSE confirmed

\* getUpdates is answered: with the first updates that are left, with none
\* (a long poll, once its timeout is over), or with 409 while a webhook is
\* active.
Serve ==
    /\ wire = "sent"
    /\ IF hook
       THEN wire' = "webhook" /\ UNCHANGED <<confirmed, batch>>
       ELSE LET first == Forget(offset) + 1
            IN  /\ wire' = "batch"
                /\ confirmed' = Forget(offset)
                /\ batch' = [from |-> first,
                             to |-> IF first + Limit - 1 < arrived
                                    THEN first + Limit - 1 ELSE arrived]
    /\ UNCHANGED <<arrived, hook, ghosts, runVars, deleteWebhookOnStart,
                   admitted, stop, drainVars, faults>>

\* A request that was given up is handled.
ServeGhost(asked) ==
    /\ asked \in ghosts
    /\ ghosts' = ghosts \ {asked}
    /\ confirmed' = IF hook THEN confirmed ELSE Forget(asked)
    /\ UNCHANGED <<arrived, hook, wire, batch, runVars, deleteWebhookOnStart,
                   admitted, stop, drainVars, faults>>

\* Another process sets a webhook, which ends a long poll under way.
SetWebhook ==
    /\ faults < MaxFaults
    /\ faults' = faults + 1
    /\ hook' = TRUE
    /\ wire' = IF wire = "sent" /\ ~draining THEN "terminated" ELSE wire
    /\ UNCHANGED <<arrived, confirmed, ghosts, batch, runVars,
                   deleteWebhookOnStart, admitted, stop, drainVars>>

-----------------------------------------------------------------------------
\* The run.

\* The request under way is dropped; the server may still handle it.
Abandon ==
    /\ wire' = "none"
    /\ batch' = NoBatch
    /\ ghosts' = IF wire = "sent" THEN ghosts \cup {offset} ELSE ghosts

\* identify: getMe succeeds.  The first poll has offset 0.
Identify ==
    /\ pc = "getMe"
    /\ pc' = IF deleteWebhookOnStart THEN "deleteWebhook" ELSE "top"
    /\ offset' = 0
    /\ recent' = FALSE
    /\ UNCHANGED <<serverVars, wire, batch, draining, deleteWebhookOnStart,
                   admitted, stop, drainVars, faults>>

\* ... fails, to be tried again, or the token is rejected; the wait after
\* a failure ends.
IdentifyFails ==
    /\ \/ pc = "getMe" /\ pc' \in {"getMeWait", "failed"}
       \/ pc = "getMeWait" /\ pc' = "getMe"
    /\ UNCHANGED <<serverVars, wire, batch, offset, recent, draining,
                   deleteWebhookOnStart, admitted, stop, drainVars, faults>>

\* deleteWebhook, before the first poll and from recover, succeeds ...
DeleteWebhook ==
    /\ pc \in {"deleteWebhook", "redelete"}
    /\ pc' = "top"
    /\ hook' = FALSE
    /\ recent' = TRUE
    /\ UNCHANGED <<arrived, confirmed, ghosts, wire, batch, offset, draining,
                   deleteWebhookOnStart, admitted, stop, drainVars, faults>>

\* ... or fails, done by the server or not.
DeleteWebhookFails ==
    /\ \/ pc = "deleteWebhook" /\ pc' = "top"
       \/ pc = "redelete" /\ pc' = "wait"
    /\ hook' \in {hook, FALSE}
    /\ UNCHANGED <<arrived, confirmed, ghosts, wire, batch, offset, recent,
                   draining, deleteWebhookOnStart, admitted, stop, drainVars,
                   faults>>

\* WEBHOOK_REDELETE_GUARD is over.
Elapse ==
    /\ recent
    /\ recent' = FALSE
    /\ UNCHANGED <<serverVars, wire, batch, pc, offset, draining,
                   deleteWebhookOnStart, admitted, stop, drainVars, faults>>

\* The head of the loop: looks whether a drain is on, and polls.
Poll ==
    /\ pc = "top"
    /\ pc' = "poll"
    /\ draining' = on
    /\ changed' = FALSE
    /\ wire' = "sent"
    /\ UNCHANGED <<serverVars, batch, offset, recent, deleteWebhookOnStart,
                   admitted, stop, on, drain, drains, faults>>

\* A long poll is given up when on changes.
GiveUp ==
    /\ pc = "poll"
    /\ ~draining
    /\ changed
    /\ pc' = "top"
    /\ Abandon
    /\ UNCHANGED <<arrived, confirmed, hook, offset, recent, draining,
                   deleteWebhookOnStart, admitted, stop, drainVars, faults>>

\* hold, up to its wait: a drain under way learns of the empty batch.
Report ==
    drain' = [drain EXCEPT !.notified = @ \/ drain.pc \in {"begun", "waiting"}]

\* Mutant: a drain's batch is reported before it is admitted.
AnswerReportingAll ==
    /\ pc = "poll"
    /\ wire = "batch"
    /\ wire' = "none"
    /\ IF draining
       THEN pc' = "hold" /\ Report
       ELSE /\ pc' = IF batch.from > batch.to THEN "top" ELSE "admit"
            /\ UNCHANGED drain
    /\ UNCHANGED <<serverVars, batch, offset, recent, draining,
                   deleteWebhookOnStart, admitted, stop, on, changed, drains,
                   faults>>

\* A batch arrives; an empty one of a drain holds the source.
Answer ==
    /\ pc = "poll"
    /\ wire = "batch"
    /\ wire' = "none"
    /\ IF batch.from <= batch.to
       THEN pc' = "admit" /\ UNCHANGED drain
       ELSE IF draining
       THEN pc' = "hold" /\ Report
       ELSE pc' = "top" /\ UNCHANGED drain
    /\ UNCHANGED <<serverVars, batch, offset, recent, draining,
                   deleteWebhookOnStart, admitted, stop, on, changed, drains,
                   faults>>

\* recover: a webhook is active, or was just set.
AnswerWebhook ==
    /\ pc = "poll"
    /\ \/ wire = "webhook"
          /\ pc' = IF deleteWebhookOnStart /\ ~recent THEN "redelete" ELSE "wait"
       \/ wire = "terminated"
          /\ pc' = "top"
    /\ wire' = "none"
    /\ UNCHANGED <<serverVars, batch, offset, recent, draining,
                   deleteWebhookOnStart, admitted, stop, drainVars, faults>>

\* recover: any other failure, waited out, or the token rejected.  The
\* server may have handled the request, or still do.
PollFails ==
    /\ pc = "poll"
    /\ wire \in {"sent", "batch"}
    /\ pc' \in {"wait", "failed"}
    /\ Abandon
    /\ UNCHANGED <<arrived, confirmed, hook, offset, recent, draining,
                   deleteWebhookOnStart, admitted, stop, drainVars, faults>>

\* A wait before the next poll ends.
Waited ==
    /\ pc = "wait"
    /\ pc' = "top"
    /\ UNCHANGED <<serverVars, wire, batch, offset, recent, draining,
                   deleteWebhookOnStart, admitted, stop, drainVars, faults>>

\* The first update left of the batch is dealt with.
NextOfBatch ==
    /\ offset' = batch.from + 1
    /\ IF batch.from < batch.to
       THEN batch' = [batch EXCEPT !.from = @ + 1] /\ pc' = "admit"
       ELSE batch' = NoBatch /\ pc' = "top"

\* admit: the sink takes the update (Admitted or Unroutable) ...
Take ==
    /\ pc = "admit"
    /\ admitted' = admitted \cup {batch.from}
    /\ NextOfBatch
    /\ UNCHANGED <<serverVars, wire, recent, draining, deleteWebhookOnStart,
                   stop, drainVars, faults>>

\* Mutant: an update that is pushed back is passed over.
RefuseSkipping ==
    /\ pc = "admit"
    /\ NextOfBatch
    /\ UNCHANGED <<serverVars, wire, recent, draining, admitted,
                   deleteWebhookOnStart, stop, drainVars, faults>>

\* ... or pushes back, and gets it again after a wait.
Refuse ==
    /\ pc = "admit"
    /\ pc' = "full"
    /\ UNCHANGED <<serverVars, wire, batch, offset, recent, draining,
                   deleteWebhookOnStart, admitted, stop, drainVars, faults>>

Retry ==
    /\ pc = "full"
    /\ pc' = "admit"
    /\ UNCHANGED <<serverVars, wire, batch, offset, recent, draining,
                   deleteWebhookOnStart, admitted, stop, drainVars, faults>>

\* hold ends when the drain is called off: the run sees that on is false.
Resumed ==
    /\ pc = "hold"
    /\ ~on
    /\ pc' = "top"
    /\ UNCHANGED <<serverVars, wire, batch, offset, recent, draining,
                   deleteWebhookOnStart, admitted, stop, drainVars, faults>>

\* Every await ends when the ingest token is cancelled.
Stopped ==
    /\ stop
    /\ pc \in Awaits
    /\ pc' = "done"
    /\ Abandon
    /\ UNCHANGED <<arrived, confirmed, hook, offset, recent, draining,
                   deleteWebhookOnStart, admitted, stop, drainVars, faults>>

\* The run panics amid a batch, and the supervisor starts another.
Panic ==
    /\ pc = "admit"
    /\ faults < MaxFaults
    /\ faults' = faults + 1
    /\ pc' = "panicked"
    /\ batch' = NoBatch
    /\ UNCHANGED <<serverVars, wire, offset, recent, draining,
                   deleteWebhookOnStart, admitted, stop, drainVars>>

Restart ==
    /\ pc = "panicked"
    /\ pc' = "getMe"
    /\ UNCHANGED <<serverVars, wire, batch, offset, recent, draining,
                   deleteWebhookOnStart, admitted, stop, drainVars, faults>>

-----------------------------------------------------------------------------
\* The drain, and the end of the source.

\* drain subscribes to the empty batches ...  It is fresh unless the source
\* is still at work for an earlier drain that was called off.
DrainBegins ==
    /\ drain.pc = "none"
    /\ drains < MaxDrains
    /\ ~stop
    /\ drains' = drains + 1
    /\ drain' = [pc |-> "begun", notified |-> FALSE, before |-> arrived,
                 fresh |-> ~(draining /\ pc \in {"poll", "hold"})]
    /\ UNCHANGED <<serverVars, wire, batch, runVars, deleteWebhookOnStart,
                   admitted, stop, on, changed, faults>>

\* ... turns on on ...
DrainOn ==
    /\ drain.pc = "begun"
    /\ drain' = [drain EXCEPT !.pc = "waiting"]
    /\ on' = TRUE
    /\ changed' = TRUE
    /\ UNCHANGED <<serverVars, wire, batch, runVars, deleteWebhookOnStart,
                   admitted, stop, drains, faults>>

\* ... and returns at the first empty batch; on stays as it is.
DrainReturns ==
    /\ drain.pc = "waiting"
    /\ drain.notified
    /\ drain' = [drain EXCEPT !.pc = "returned"]
    /\ UNCHANGED <<serverVars, wire, batch, runVars, deleteWebhookOnStart,
                   admitted, stop, on, changed, drains, faults>>

\* Mutant: the drop of a drain leaves on as it is.
DrainCalledOffSilently ==
    /\ drain.pc = "waiting"
    /\ drain' = NoDrain
    /\ UNCHANGED <<serverVars, wire, batch, runVars, deleteWebhookOnStart,
                   admitted, stop, on, changed, drains, faults>>

\* Its time is over, or its requester is gone: Resume turns off on.
DrainCalledOff ==
    /\ drain.pc = "waiting"
    /\ drain' = NoDrain
    /\ on' = FALSE
    /\ changed' = TRUE
    /\ UNCHANGED <<serverVars, wire, batch, runVars, deleteWebhookOnStart,
                   admitted, stop, drains, faults>>

\* A move (once its drain returned), a reload or the shutdown stops the
\* source.
StopSource ==
    /\ ~stop
    /\ stop' = TRUE
    /\ UNCHANGED <<serverVars, wire, batch, runVars, deleteWebhookOnStart,
                   admitted, drainVars, faults>>

-----------------------------------------------------------------------------
Server == Arrive \/ Serve \/ (\E asked \in ghosts : ServeGhost(asked)) \/ SetWebhook

Run ==
    \/ Identify \/ IdentifyFails \/ DeleteWebhook \/ DeleteWebhookFails
    \/ Poll \/ GiveUp \/ Answer \/ AnswerWebhook \/ PollFails \/ Waited
    \/ Take \/ Refuse \/ Retry \/ Resumed \/ Stopped \/ Panic

Operator ==
    DrainBegins \/ DrainOn \/ DrainReturns \/ DrainCalledOff \/ StopSource

Next == Server \/ Run \/ Elapse \/ Restart \/ Operator

Spec == Init /\ [][Next]_vars

GoesOn ==
    \/ Poll \/ GiveUp \/ AnswerWebhook \/ Waited \/ Retry \/ Resumed \/ Restart
    \/ pc = "getMeWait" /\ IdentifyFails

\* What runs on its own goes on; the server answers; what is tried again
\* and again (getMe, deleteWebhook, a poll, an admission) succeeds at last;
\* and a drain has a timeout.
FairSpec ==
    /\ Spec
    /\ SF_vars(Identify \/ DeleteWebhook \/ Answer \/ Take)
    /\ SF_vars(Serve)
    /\ SF_vars(Stopped)
    /\ WF_vars(GoesOn)
    /\ WF_vars(Elapse)
    /\ WF_vars(DrainOn \/ DrainReturns \/ DrainCalledOff)

-----------------------------------------------------------------------------
\* The server forgets an update only when the sink has taken it: not when a
\* batch is held, a poll given up, an answer lost, the source stopped or
\* started again.
NoUpdateLost == 1 .. confirmed \subseteq admitted

\* A drain that returns found the server dry: every update that had arrived
\* when it began was fetched and admitted.  This and the next two hold for
\* fresh drains.  One that begins while a poll of an earlier drain is under
\* way takes that poll's empty batch for its own.
DrainDry ==
    drain.pc = "returned" /\ drain.fresh => 1 .. drain.before \subseteq admitted

\* After a drain the source polls no more until it is stopped.
HeldAfterDrain ==
    drain.pc = "returned" /\ drain.fresh => pc \in {"hold", "done"}

\* Nobody waits for the other: while a drain waits for an empty batch the
\* source is not held.  A source still held by an earlier drain, which did
\* not run between that one's end and the next one's beginning, has missed
\* that on was false, and stays held until the next one is called off.
DrainPolls ==
    drain.pc = "waiting" /\ ~drain.notified /\ drain.fresh => pc # "hold"

\* The source catches up again and again, unless it is stopped, failed or
\* held by a drain that returned, or a webhook is active that it is told to
\* leave: no error, panic, poll given up or drain called off leaves it idle.
AllAdmitted ==
    []<>(\/ 1 .. arrived \subseteq admitted
         \/ stop
         \/ pc = "failed"
         \/ drain.pc = "returned"
         \/ hook /\ ~deleteWebhookOnStart)
=============================================================================
