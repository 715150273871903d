---------------------------- MODULE PullConsumer ----------------------------
(***************************************************************************)
(* tgin-core's PullConsumer: instances of a bot poll a LeaseQueue, as they *)
(* would poll getUpdates.                                                  *)
(*                                                                         *)
(* A poll is a task of its own; between two of its steps anything else may *)
(* happen.  Its steps are its calls of the queue (each under the queue's   *)
(* mutex) and its reads of the paused and draining flags.  It waits on two *)
(* tokio Notify objects: the queue's, whose notify_waiters calls are owed  *)
(* in LeaseQueue, and the consumer's own, counted here by owedWakes.       *)
(* notify_waiters reaches the futures enabled at that moment and no later  *)
(* one; told says that one of the poll's two futures is complete.          *)
(*                                                                         *)
(* Left out: the depth gauges and the latency metric (update_depth and     *)
(* ack's record), which nothing reads back, and the reply's payloads.      *)
(***************************************************************************)
EXTENDS LeaseQueue, GetUpdates

CONSTANTS
    Polls,        \* poll calls that may be under way at once
    Requests,     \* the getUpdates requests that come
    DrainHold     \* DRAIN_HOLD

ASSUME PollAssumption == DrainHold \in Nat \ {0}
ASSUME RequestsAssumption ==
    \A req \in Requests :
        /\ Instance(req) \subseteq Holders
        /\ \A members \in {req.query, req.body} :
              \A i \in DOMAIN members : members[i][2] \in Int \cup {NoInteger}
        /\ req.type = "none" => req.body = <<>>

VARIABLES
    poll,         \* the local state of each poll call
    paused,       \* PullConsumer.paused
    draining,     \* PullConsumer.draining
    owedWakes     \* wake.notify_waiters calls still to be made

pullVars == <<poll, paused, draining, owedWakes>>
allVars == <<vars, pullVars>>

-----------------------------------------------------------------------------
\* pc is the next step of the poll; at is the instant it last read, deadline
\* when its timeout ends, hold its drain_deadline, until how long it parks.
Poll == [pc : {"idle", "held", "enable", "look", "lease", "decide", "parked"},
         holder : Holders \cup {NoHolder}, offset : Int, limit : Nat,
         at : Nat, deadline : Nat, hold : Nat \cup {NoDeadline}, until : Nat,
         told : BOOLEAN]
IdlePoll == [pc |-> "idle", holder |-> NoHolder, offset |-> 0, limit |-> 0,
             at |-> 0, deadline |-> 0, hold |-> NoDeadline, until |-> 0,
             told |-> FALSE]

\* Mutant: the futures are enabled only when select! first polls them.
EnabledLate == {c \in Polls : poll[c].pc = "parked"}

\* Polls whose two futures are enabled.
Enabled == {c \in Polls : poll[c].pc \in {"look", "lease", "decide", "parked"}}

Goto(c, pc) == poll' = [poll EXCEPT ![c] = [@ EXCEPT !.pc = pc]]
Answer(c) == poll' = [poll EXCEPT ![c] = IdlePoll]

\* The top of poll's loop: only the limit, the deadline and the drain hold
\* live on from what came before.
Loop(c) == poll' = [poll EXCEPT ![c] =
               [@ EXCEPT !.pc = "enable", !.offset = 0, !.at = 0, !.until = 0,
                         !.told = FALSE]]

\* The leases that a poll of h with this offset acks.
Acked(h, offset) ==
    CASE offset = 0 -> {}
      [] offset > 0 -> {s \in leases[h] : entries[s].ackId < offset}
      [] offset < 0 -> leases[h]

Ack(h, offset) ==
    IF Acked(h, offset) = {} THEN UNCHANGED vars ELSE AckWhere(Acked(h, offset))

-----------------------------------------------------------------------------
PullInit ==
    /\ Init
    /\ poll = [c \in Polls |-> IdlePoll]
    /\ paused = FALSE
    /\ draining = FALSE
    /\ owedWakes = 0

\* A poll arrives, reads the clock and acks by its offset; a timeout past
\* the last instant counts as none.
Begin(c, h, offset, limit, timeout) ==
    /\ poll[c].pc = "idle"
    /\ Unlocked
    /\ Ack(h, offset)
    /\ poll' = [poll EXCEPT ![c] =
           [IdlePoll EXCEPT !.pc = "held", !.holder = h, !.offset = offset,
                !.limit = limit, !.at = now,
                !.deadline = IF now + timeout > MaxInstant THEN now
                             ELSE now + timeout]]
    /\ UNCHANGED <<paused, draining, owedWakes>>

\* A request comes; one that cannot be read is answered 400 and changes
\* nothing.
GetUpdates(c, req) ==
    /\ Readable(req)
    /\ \E h \in Instance(req) :
          Begin(c, h, Params(req).offset, Params(req).limit, Params(req).timeout)

\* It renews and answers what its instance holds, if it holds anything.
Redeliver(c) ==
    LET h == poll[c].holder
    IN  /\ poll[c].pc = "held"
        /\ Held(h, poll[c].offset, poll[c].at)
        /\ IF \E s \in leases[h] : entries[s].ackId >= poll[c].offset
           THEN Answer(c)
           ELSE Loop(c)
        /\ UNCHANGED <<paused, draining, owedWakes>>

\* The two futures are made and enabled.
Enable(c) ==
    /\ poll[c].pc = "enable"
    /\ Goto(c, "look")
    /\ UNCHANGED <<vars, paused, draining, owedWakes>>

\* It reads the clock and the paused flag.
Look(c) ==
    /\ poll[c].pc = "look"
    /\ poll' = [poll EXCEPT ![c] =
           [@ EXCEPT !.pc = IF paused THEN "decide" ELSE "lease", !.at = now]]
    /\ UNCHANGED <<vars, paused, draining, owedWakes>>

\* It leases new items and answers them, if there are any.
LeaseNew(c) ==
    /\ poll[c].pc = "lease"
    /\ Unlocked
    /\ IF Candidates = {}
       THEN Goto(c, "decide") /\ UNCHANGED vars
       ELSE Answer(c) /\ Lease(poll[c].holder, poll[c].limit, poll[c].at)
    /\ UNCHANGED <<paused, draining, owedWakes>>

\* The drain hold of c: fixed the first time it finds the consumer draining.
Hold(c) == IF draining /\ poll[c].hold = NoDeadline
           THEN poll[c].at + DrainHold
           ELSE poll[c].hold

\* When the wait of c ends.
Until(c) == IF draining /\ Hold(c) < poll[c].deadline
            THEN Hold(c)
            ELSE poll[c].deadline

\* Mutant: the deadline is left to the timer.
DecideParking(c) ==
    /\ poll[c].pc = "decide"
    /\ poll' = [poll EXCEPT ![c] = [@ EXCEPT !.pc = "parked", !.at = 0, !.hold = Hold(c),
                                            !.until = Until(c)]]
    /\ UNCHANGED <<vars, paused, draining, owedWakes>>

\* It reads the draining flag and answers empty or parks.
Decide(c) ==
    /\ poll[c].pc = "decide"
    /\ IF poll[c].at >= Until(c)
       THEN Answer(c)
       ELSE poll' = [poll EXCEPT ![c] =
               [@ EXCEPT !.pc = "parked", !.at = 0, !.hold = Hold(c),
                         !.until = Until(c)]]
    /\ UNCHANGED <<vars, paused, draining, owedWakes>>

\* select!: one of the futures is complete ...
Wake(c) ==
    /\ poll[c].pc = "parked"
    /\ poll[c].told
    /\ Loop(c)
    /\ UNCHANGED <<vars, paused, draining, owedWakes>>

\* ... or the wait is over ...
TimeOut(c) ==
    /\ poll[c].pc = "parked"
    /\ now >= poll[c].until
    /\ Answer(c)
    /\ UNCHANGED <<vars, paused, draining, owedWakes>>

\* ... or the caller cancels it (or drops it).
CancelPoll(c) ==
    /\ poll[c].pc = "parked"
    /\ Answer(c)
    /\ UNCHANGED <<vars, paused, draining, owedWakes>>

-----------------------------------------------------------------------------
\* notify_waiters completes the futures that are enabled.
Tell == poll' = [c \in Polls |->
            IF c \in Enabled THEN [poll[c] EXCEPT !.told = TRUE] ELSE poll[c]]

NotifyPolls ==
    /\ NotifyWaiters
    /\ Tell
    /\ UNCHANGED <<paused, draining, owedWakes>>

WakePolls ==
    /\ owedWakes > 0
    /\ owedWakes' = owedWakes - 1
    /\ Tell
    /\ UNCHANGED <<vars, paused, draining>>

OweWake == owedWakes < MaxOwed /\ owedWakes' = owedWakes + 1

\* Mutant: parked polls are not woken.
BeginDrainSilently ==
    /\ draining' = TRUE
    /\ UNCHANGED <<vars, poll, paused, owedWakes>>

BeginDrain ==
    /\ draining' = TRUE
    /\ OweWake
    /\ UNCHANGED <<vars, poll, paused>>

EndDrain ==
    /\ draining
    /\ draining' = FALSE
    /\ UNCHANGED <<vars, poll, paused, owedWakes>>

Pause ==
    /\ ~paused
    /\ paused' = TRUE
    /\ UNCHANGED <<vars, poll, draining, owedWakes>>

Resume ==
    /\ paused' = FALSE
    /\ OweWake
    /\ UNCHANGED <<vars, poll, draining>>

\* What others do with the queue: admissions, the expiry task, operators'
\* purges, reloads; and the clock.
Admission(p) == ProducerStep(p) /\ UNCHANGED pullVars
Expiry == (\E at \in 0 .. now : Expire(at)) /\ UNCHANGED pullVars
Operator ==
    /\ \/ Purge
       \/ \E S \in SUBSET available : PurgeWhere(S)
       \/ DrainAll
       \/ \E c \in Configs : SetConfig(c)
    /\ UNCHANGED pullVars
Clock == Tick /\ UNCHANGED pullVars

PollStep(c) ==
    \/ Redeliver(c)
    \/ Enable(c)
    \/ Look(c)
    \/ LeaseNew(c)
    \/ Decide(c)
    \/ Wake(c)
    \/ TimeOut(c)

PullNext ==
    \/ \E c \in Polls, req \in Requests : GetUpdates(c, req)
    \/ \E c \in Polls : PollStep(c) \/ CancelPoll(c)
    \/ NotifyPolls
    \/ WakePolls
    \/ BeginDrain
    \/ EndDrain
    \/ Pause
    \/ Resume
    \/ \E p \in Producers : Admission(p)
    \/ Expiry
    \/ Operator
    \/ Clock

PullSpec == PullInit /\ [][PullNext]_allVars

\* tokio runs every task that is ready and fires every due timer; the
\* queue's mutex (parking_lot) is eventually fair, hence SF for the steps
\* that take it; a thread inside try_reserve goes on.
PullFairness ==
    /\ \A c \in Polls :
          /\ WF_allVars(Enable(c) \/ Look(c) \/ Decide(c) \/ Wake(c) \/ TimeOut(c))
          /\ SF_allVars(Redeliver(c) \/ LeaseNew(c))
    /\ \A p \in Producers :
          WF_allVars((Grant(p) \/ Refuse(p) \/ Evict(p)) /\ UNCHANGED pullVars)
    /\ WF_allVars(Clock)

FairPullSpec == PullSpec /\ PullFairness

-----------------------------------------------------------------------------
\* A poll that looked, found nothing to lease (or the consumer paused) and has
\* not been told since, does not sit next to
\* leasable items of a running consumer without a notify_waiters call on its
\* way.
ItemsHeard ==
    \A c \in Polls :
        /\ poll[c].pc \in {"decide", "parked"}
        /\ ~poll[c].told
        /\ Candidates # {}
        /\ ~paused
        => owed > 0 \/ owedWakes > 0

\* A drain reaches the polls that read its flag just before it began: one that
\* is parked while the consumer drains, and has not been told since, waits no
\* longer than its drain hold, or a notify_waiters call is on its way.
DrainHeard ==
    \A c \in Polls :
        /\ draining
        /\ poll[c].pc = "parked"
        /\ ~poll[c].told
        => \/ poll[c].hold # NoDeadline /\ poll[c].until <= poll[c].hold
           \/ owedWakes > 0

\* No wake-up is lost, whichever of a poll's steps (enable, look, lease, read
\* the flag, park) a commit, a resume or the beginning of a drain falls between
\* (PollWait, Consumer::begin_drain).
NoLostWakeup == ItemsHeard /\ DrainHeard

\* Every poll is answered, however often it is woken for items that others
\* lease, and whatever is paused, drained or reconfigured meanwhile.
PollAnswered == \A c \in Polls : poll[c].pc # "idle" ~> poll[c].pc = "idle"
=============================================================================
