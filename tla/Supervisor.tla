----------------------------- MODULE Supervisor -----------------------------
(***************************************************************************)
(* The supervisor of tgin-runtime/src/supervisor.rs, with the tasks the    *)
(* bots' sources give it (tgin/src/sources.rs): a long poll ("source"), a  *)
(* background getMe ("identity") and setWebhook retries ("register").  A   *)
(* task is a process whose control state is the TaskState it publishes     *)
(* (for a background task, running includes starting: until it is first    *)
(* polled).                                                                *)
(* How long a backoff lasts is left out: it ends at some time.  A task     *)
(* that panics does what one that asks to be retried does.                 *)
(***************************************************************************)
EXTENDS Integers, FiniteSets, TLC

CONSTANTS
    Bots        \* the bots' names

ASSUME BotsAssumption == IsFiniteSet(Bots)

Names == {"source", "identity", "register"} \X Bots

VARIABLES
    tasks,      \* the supervised tasks
    entries,    \* Tasks.entries: the task each name lists, by its stop token
    force,      \* Lifecycle's force token is cancelled: the parent of every
                \* task's own token
    reapers     \* the tasks of Sources::reap

supervisorVars == <<tasks, entries, force, reapers>>

\* A task is known by its name and by the stop token tok its attempts watch,
\* which is made for it; up is the Bot API server they call, cut the task's
\* own token.
NoTask == 0
Ended(t) == t.state \in {"failed", "stopped"}
Listed(n) == {t \in tasks : t.name = n /\ t.tok = entries[n]}

-----------------------------------------------------------------------------
(* A task that has ended is forgotten once no name lists it and no reaper  *)
(* watches it.                                                             *)

Forget(all, listed, watching) ==
    {t \in all : \/ ~Ended(t)
                 \/ listed[t.name] = t.tok
                 \/ \E r \in watching : r.name = t.name /\ r.tok = t.tok}

\* Supervisor::spawn for a set of names: each lists its new task only, and
\* the task it listed before is told to stop.  on[b] is what the attempts for
\* bot b get.
Spawn(names, on) ==
    LET new == {[name |-> n, state |-> IF n[1] = "source" THEN "starting" ELSE "running", cut |-> FALSE, tok |-> on[n[2]].tok,
                 up |-> on[n[2]].up] : n \in names}
        previous == UNION {Listed(n) : n \in names}
    IN /\ entries' = [n \in Names |-> IF n \in names THEN on[n[2]].tok ELSE entries[n]]
       /\ tasks' = Forget((tasks \ previous) \cup {[t EXCEPT !.cut = TRUE] : t \in previous}
                          \cup new, entries', reapers)

\* Supervisor::remove, then the reaper is done: a task that still starts,
\* runs or backs off stays listed.
Remove(name, watching) ==
    /\ entries' = IF \E t \in Listed(name) : Ended(t) THEN [entries EXCEPT ![name] = NoTask]
                                                      ELSE entries
    /\ tasks' = Forget(tasks, entries', watching)

-----------------------------------------------------------------------------
(* The steps of supervise.                                                 *)

Publish(t, state) ==
    /\ tasks' = Forget((tasks \ {t}) \cup {[t EXCEPT !.state = state]}, entries, reapers)
    /\ UNCHANGED <<entries, force, reapers>>

Cancelled(t) == t.cut \/ force

\* The first attempt begins, or the next one after a backoff.
Begin(t) ==
    /\ t.state = "starting" \/ (t.state = "backoff" /\ ~Cancelled(t))
    /\ Publish(t, "running")

\* The task's token ends an attempt or a backoff.
StopOnCancel(t) ==
    /\ t.state \in {"running", "backoff"} /\ Cancelled(t)
    /\ Publish(t, "stopped")

\* An attempt ends: Exit::Done, Exit::Fatal, Exit::Retry or a panic.
Done(t) == t.state = "running" /\ Publish(t, "stopped")
Fatal(t) == t.state = "running" /\ Publish(t, "failed")
Retry(t) == t.state = "running" /\ Publish(t, "backoff")

\* What Supervisor::shutdown does to the tasks once its deadline has passed;
\* StopOnDrop publishes that they stopped.
Aborted == {IF Ended(t) THEN t ELSE [t EXCEPT !.state = "stopped"] : t \in tasks}

SupervisorInit ==
    /\ tasks = {}
    /\ entries = [n \in Names |-> NoTask]
    /\ force = FALSE
    /\ reapers = {}
=============================================================================
