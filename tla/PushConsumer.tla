---------------------------- MODULE PushConsumer ----------------------------
(***************************************************************************)
(* tgin-core's PushConsumer: one dispatcher leases updates from a          *)
(* LeaseQueue and posts each of them to HTTP endpoints, with retries,      *)
(* balancing and a circuit breaker per endpoint.                           *)
(*                                                                         *)
(* The dispatcher and its deliveries are futures of one task: a delivery   *)
(* runs only while the dispatcher is at its select!, and no two of them    *)
(* run at once.  Other threads run in between: they admit updates, replace *)
(* the endpoints, pause, stop and kill.  A step of the task goes from one  *)
(* read of what they share to the next, so the dispatcher enables its      *)
(* futures, reads the flags, loads the endpoint set and leases in four     *)
(* steps, and choose enables its future and loads the set in two.          *)
(* The breakers are called by this task alone: an operation is one step    *)
(* here, and Breaker has the operations' own steps.                        *)
(*                                                                         *)
(* notify_waiters reaches the futures enabled at that moment; told says    *)
(* that one of them is complete.  The drop of a Sending notifies from      *)
(* within the task; owedWakes counts the calls other threads still have    *)
(* to make after they changed the endpoints or resumed.                    *)
(*                                                                         *)
(* Left out: headers and payloads, metrics, logs and the dead-letter       *)
(* reasons, the begin_drain flag, which no step reads, and the timeouts of *)
(* requests.  A request ends in one of the outcomes send tells apart.      *)
(***************************************************************************)
EXTENDS LeaseQueue, Sequences, FiniteSetsExt

CONSTANTS
    PushHolder,    \* HOLDER
    KeyHash,       \* the numbers that HashChat takes the keys for
    Bots,          \* who may set the runtime endpoint (bot and token)
    NoBot,         \* no runtime endpoint, or the owner of a configured one
    Options,       \* the PushOptions the consumer is given
    NoOptions,     \* the options of a delivery that is not sending
    MaxDelay,      \* the longest backoff or Retry-After that is honored
    Tokens,        \* of "cancel", "force" and "kill", those that may fire
    MaxLag,        \* bound: the time from an update's receipt to its commit
    MaxCalls,      \* bound: endpoint changes, pauses and resumes
    MaxEndpoints,  \* bound: configured endpoints
    MaxSlots,      \* bound: slots alive at once
    CursorPeriod   \* bound: the round-robin cursor counts modulo this

PushOptions == [maxInFlight : Nat, maxAttempts : Nat, maxAge : Nat,
                balance : {"RoundRobin", "LeastInFlight", "HashChat"},
                breaker : [threshold : Nat, openFor : Nat], reply : BOOLEAN]

ASSUME PushAssumption ==
    /\ Holders = {PushHolder}
    /\ KeyHash \in [Keys -> Nat]
    /\ NoBot \notin Bots
    /\ Options \subseteq PushOptions
    /\ NoOptions \notin Options
    /\ MaxDelay \in Nat
    /\ Tokens \subseteq {"cancel", "force", "kill"}
    /\ MaxLag \in Nat
    /\ MaxCalls \in Nat
    /\ MaxEndpoints \in Nat
    /\ MaxSlots \in Nat
    /\ MaxEndpoints <= MaxSlots
    /\ CursorPeriod \in Nat \ {0}
    /\ \A n \in 1 .. MaxEndpoints + 1 : CursorPeriod % n = 0

VARIABLES
    targets,      \* PushConsumer.targets
    slot,         \* the slots that targets or a Sending refers to
    delivery,     \* the deliveries, by the seq each of them holds
    dispatcher,   \* the dispatcher's place in its loop
    received,     \* Envelope.received_at, by seq
    cursor,       \* PushConsumer.cursor
    paused,       \* PushConsumer.paused
    owedWakes,    \* changed.notify_waiters calls still to be made
    stops,        \* the cancelled tokens
    calls         \* endpoint changes, pauses and resumes so far

taskVars == <<slot, delivery, dispatcher, cursor>>
controlVars == <<targets, received, paused, owedWakes, stops, calls>>
pushVars == <<taskVars, controlVars>>
allVars == <<vars, pushVars>>

-----------------------------------------------------------------------------
SlotIds == 1 .. MaxSlots
Word == [state : {"Closed", "Open", "HalfOpen"}, openedAt : 0 .. MaxInstant]
Closed == [state |-> "Closed", openedAt |-> 0]

\* A Slot: its breaker, the requests on the wire, and for the runtime
\* endpoint the bot that set it.
Slot == [word : Word, failures : Nat, inFlight : Nat,
         breaker : [threshold : Nat, openFor : Nat], owner : Bots \cup {NoBot}]
NewSlot(owner, opts) ==
    [word |-> Closed, failures |-> 0, inFlight |-> 0,
     breaker |-> opts.breaker, owner |-> owner]

Targets == [slots : UNION {[1 .. n -> SlotIds] : n \in 0 .. MaxEndpoints + 1},
            runtime : Bots \cup {NoBot}, opts : Options]

\* pc: "choose" at the top of choose's loop, "load" behind the enabling of
\* its future, "waiting" in its select!; "sending" awaits the answer,
\* "replying" the execution of the method call in it, "backoff" the retry.
\* slot, opts and bound are the Sending's: its slot, and the options and the
\* runtime endpoint of the set it was taken from.
Delivery == [pc : {"choose", "load", "waiting", "sending", "replying", "backoff"},
             key : Keys \cup {NoKey}, attempt : Nat, slot : SlotIds \cup {0},
             opts : Options \cup {NoOptions}, bound : Bots \cup {NoBot},
             until : Nat \cup {NoDeadline}, told : BOOLEAN]
NewDelivery(key) ==
    [pc |-> "choose", key |-> key, attempt |-> 0, slot |-> 0,
     opts |-> NoOptions, bound |-> NoBot, until |-> NoDeadline, told |-> FALSE]

\* pc: "off" not running, "top" the start of its loop, "look", "load" and
\* "lease" what comes before the select!, where it is "parked"; "returning"
\* and "unwinding" drop the deliveries, after force or a panic or abort;
\* "done" it returned.  room is what max_in_flight leaves.
Dispatcher == [pc : {"off", "top", "look", "load", "lease", "parked",
                     "returning", "unwinding", "done"},
               room : Nat, stopping : BOOLEAN, told : BOOLEAN]
At(pc) == [pc |-> pc, room |-> 0, stopping |-> FALSE, told |-> FALSE]

Deliveries == DOMAIN delivery
Sending(S) == {s \in S : delivery[s].pc = "sending"}
CurrentSlots == {targets.slots[i] : i \in DOMAIN targets.slots}

\* The slots something refers to.
Live == CurrentSlots \cup {delivery[s].slot : s \in Sending(Deliveries)}

\* slot, where one slot changed, without those nobody refers to any more.
SlotsBecome(f) == slot' = [i \in Live' |-> f[i]]

\* checked_add: an instant past the last one is none.
After(instant, duration) ==
    IF instant + duration > MaxInstant THEN NoDeadline ELSE instant + duration
Passed(instant) == instant # NoDeadline /\ now >= instant
Earlier(a, b) ==
    IF a = NoDeadline \/ (b # NoDeadline /\ b < a) THEN b ELSE a

-----------------------------------------------------------------------------
\* The breaker of slot sl: allow's answer at this instant, and the instant
\* it may admit a probe.
ReopensAt(sl) == After(sl.word.openedAt, sl.breaker.openFor)
Ready(sl) == \/ sl.word.state = "Closed"
             \/ sl.word.state = "Open" /\ Passed(ReopensAt(sl))

\* allow and the in-flight count, for a slot that is ready.
Claim(sl) ==
    [sl EXCEPT !.word = IF @.state = "Open" THEN [@ EXCEPT !.state = "HalfOpen"] ELSE @,
               !.inFlight = @ + 1]

Opened(sl) == [sl EXCEPT !.word = [state |-> "Open", openedAt |-> now]]
OnSuccess(sl) == [sl EXCEPT !.word = Closed, !.failures = 0]
OnFailure(sl) ==
    CASE sl.word.state = "HalfOpen" -> Opened(sl)
      [] sl.word.state = "Open" -> sl
      [] sl.word.state = "Closed" ->
            LET counted == [sl EXCEPT !.failures = @ + 1]
            IN  IF counted.failures >= sl.breaker.threshold
                THEN Opened(counted)
                ELSE counted

\* Mutant: a Sending that is dropped without a report leaves the breaker.
DroppedKeepingProbe(sl) == sl

\* Sending::drop without a report: the probe is not lost.
Dropped(sl) == IF sl.word.state = "HalfOpen" THEN OnFailure(sl) ELSE sl

\* The Sending of s is dropped, its slot being sl by now.
EndSending(s, sl) ==
    SlotsBecome([slot EXCEPT ![delivery[s].slot] = [sl EXCEPT !.inFlight = @ - 1]])

\* Mutant: deliveries that wait for a breaker are not told.
ToldNobody(f) == f

\* notify_waiters on changed, for deliveries f and dispatcher d.
Told(f) == [s \in DOMAIN f |->
    IF f[s].pc \in {"load", "waiting"} THEN [f[s] EXCEPT !.told = TRUE] ELSE f[s]]
TellDispatcher(d) ==
    IF d.pc \in {"look", "load", "lease", "parked"} THEN [d EXCEPT !.told = TRUE]
    ELSE d

\* Whether delivery s may run: the dispatcher polls it, and no other one is
\* between two of its steps.
Polled(s, pc) ==
    /\ dispatcher.pc = "parked"
    /\ s \in Deliveries
    /\ delivery[s].pc = pc
    /\ \A t \in Deliveries \ {s} : delivery[t].pc # "load"

Without(s) == [t \in Deliveries \ {s} |-> delivery[t]]

\* Held::ack and Held::drop: an update that a drain took away is not there.
AckHeld(s) ==
    /\ Unlocked
    /\ IF s \in leases[PushHolder] THEN AckSeq(PushHolder, s) ELSE UNCHANGED vars
ReleaseHeld(s) ==
    /\ Unlocked
    /\ IF s \in leases[PushHolder] THEN ReleaseSeq(PushHolder, s) ELSE UNCHANGED vars

\* Delivery s returns, and with it deliveries.next() in the select!.
Return(s) == delivery' = Without(s) /\ dispatcher' = At("top")

-----------------------------------------------------------------------------
PushInit ==
    /\ Init
    /\ \E n \in 0 .. MaxEndpoints, opts \in Options :
          /\ targets = [slots |-> [i \in 1 .. n |-> i], runtime |-> NoBot,
                        opts |-> opts]
          /\ slot = [i \in 1 .. n |-> NewSlot(NoBot, opts)]
    /\ delivery = [s \in {} |-> s]
    /\ dispatcher = At("off")
    /\ received = [s \in 0 .. MaxSeq - 1 |-> 0]
    /\ cursor = 0
    /\ paused = FALSE
    /\ owedWakes = 0
    /\ stops = {}
    /\ calls = 0

\* supervise_dispatcher starts the task, and again after it panicked.
Spawn ==
    /\ dispatcher.pc = "off"
    /\ "kill" \notin stops
    /\ dispatcher' = At("top")
    /\ UNCHANGED <<vars, controlVars, slot, delivery, cursor>>

\* The two futures are made and enabled.
EnableFutures ==
    /\ dispatcher.pc = "top"
    /\ dispatcher' = At("look")
    /\ UNCHANGED <<vars, controlVars, slot, delivery, cursor>>

\* It reads cancel, and whether it is paused.
LookAround ==
    /\ dispatcher.pc = "look"
    /\ dispatcher' =
          IF "cancel" \in stops
          THEN IF Deliveries = {} THEN At("done")
               ELSE [dispatcher EXCEPT !.pc = "parked", !.stopping = TRUE]
          ELSE [dispatcher EXCEPT !.pc = IF paused THEN "parked" ELSE "load"]
    /\ UNCHANGED <<vars, controlVars, slot, delivery, cursor>>

\* It loads the endpoint set: with no endpoint, nothing is leased.
LoadTargets ==
    LET room == targets.opts.maxInFlight - Cardinality(Deliveries)
    IN  /\ dispatcher.pc = "load"
        /\ dispatcher' =
              IF room > 0 /\ targets.slots # <<>>
              THEN [dispatcher EXCEPT !.pc = "lease", !.room = room]
              ELSE [dispatcher EXCEPT !.pc = "parked"]
        /\ UNCHANGED <<vars, controlVars, slot, delivery, cursor>>

\* It leases, and starts a delivery for every lease.
LeaseRoom ==
    LET leased == leases'[PushHolder] \ leases[PushHolder]
    IN  /\ dispatcher.pc = "lease"
        /\ Unlocked
        /\ IF Candidates = {}
           THEN UNCHANGED vars
           ELSE Lease(PushHolder, dispatcher.room, now)
        /\ delivery' = [s \in Deliveries \cup leased |->
               IF s \in leased THEN NewDelivery(entries[s].key) ELSE delivery[s]]
        /\ dispatcher' = [dispatcher EXCEPT !.pc = "parked", !.room = 0]
        /\ UNCHANGED <<controlVars, slot, cursor>>

\* Mutant: an idle dispatcher does not wait for cancel.
WakeUpWhenTold ==
    /\ dispatcher.pc = "parked"
    /\ ~dispatcher.stopping
    /\ dispatcher.told
    /\ \A s \in Deliveries : delivery[s].pc # "load"
    /\ dispatcher' = At("top")
    /\ UNCHANGED <<vars, controlVars, slot, delivery, cursor>>

\* Its select!: a future is complete, or cancel is.
WakeUp ==
    /\ dispatcher.pc = "parked"
    /\ ~dispatcher.stopping
    /\ dispatcher.told \/ "cancel" \in stops
    /\ \A s \in Deliveries : delivery[s].pc # "load"
    /\ dispatcher' = At("top")
    /\ UNCHANGED <<vars, controlVars, slot, delivery, cursor>>

\* Its select!: force is complete, and it returns.
ForceBreak ==
    /\ dispatcher.pc = "parked"
    /\ "force" \in stops
    /\ \A s \in Deliveries : delivery[s].pc # "load"
    /\ dispatcher' = At("returning")
    /\ UNCHANGED <<vars, controlVars, slot, delivery, cursor>>

\* The task panics at a delivery, or the end of its supervision aborts it.
Crash ==
    /\ dispatcher.pc = "parked"
    /\ \A s \in Deliveries : delivery[s].pc # "load"
    /\ dispatcher' = At("unwinding")
    /\ UNCHANGED <<vars, controlVars, slot, delivery, cursor>>

\* Mutant: a dropped delivery that is sending does not release its update.
DropDeliveryKeepingSent(s) ==
    /\ dispatcher.pc \in {"returning", "unwinding"}
    /\ s \in Deliveries
    /\ delivery' = Told(Without(s))
    /\ UNCHANGED <<controlVars, dispatcher, cursor>>
    /\ IF delivery[s].pc = "sending"
       THEN EndSending(s, Dropped(slot[delivery[s].slot])) /\ UNCHANGED vars
       ELSE UNCHANGED slot /\ ReleaseHeld(s)

\* A delivery is dropped with the task: its Sending, if it has one, then
\* its Held.
DropDelivery(s) ==
    /\ dispatcher.pc \in {"returning", "unwinding"}
    /\ s \in Deliveries
    /\ delivery' = Told(Without(s))
    /\ UNCHANGED <<controlVars, dispatcher, cursor>>
    /\ IF delivery[s].pc = "sending"
       THEN EndSending(s, Dropped(slot[delivery[s].slot]))
       ELSE UNCHANGED slot
    /\ ReleaseHeld(s)

\* The last delivery is gone.
End ==
    /\ dispatcher.pc \in {"returning", "unwinding"}
    /\ Deliveries = {}
    /\ dispatcher' = At(IF dispatcher.pc = "returning" THEN "done" ELSE "off")
    /\ UNCHANGED <<vars, controlVars, slot, delivery, cursor>>

-----------------------------------------------------------------------------
\* When update s is max_age old, by the options opts.
MaxAgeAt(s, opts) == After(received[s], opts.maxAge)

\* choose: cancel returns the update, otherwise the future is enabled.
Choose(s) ==
    /\ Polled(s, "choose")
    /\ IF "cancel" \in stops
       THEN ReleaseHeld(s) /\ Return(s)
       ELSE /\ delivery' = [delivery EXCEPT ![s].pc = "load"]
            /\ UNCHANGED <<vars, dispatcher>>
    /\ UNCHANGED <<controlVars, slot, cursor>>

\* choose: with no endpoint left, the update returns to the queue.
NoEndpoint(s) ==
    /\ Polled(s, "load")
    /\ targets.slots = <<>>
    /\ ReleaseHeld(s)
    /\ Return(s)
    /\ UNCHANGED <<controlVars, slot, cursor>>

\* choose: the update is max_age old, and dead-lettered.
TooOld(s) ==
    /\ Polled(s, "load")
    /\ targets.slots # <<>>
    /\ Passed(MaxAgeAt(s, targets.opts))
    /\ AckHeld(s)
    /\ Return(s)
    /\ UNCHANGED <<controlVars, slot, cursor>>

\* The n-th lowest member of S.
Nth(S, n) == CHOOSE i \in S : Cardinality({j \in S : j < i}) = n - 1

\* The places of the current set whose slots are ready.
Healthy == {i \in DOMAIN targets.slots : Ready(slot[targets.slots[i]])}

\* The place that pick takes: by the chat, by the requests on the wire (the
\* first of the least loaded) or in turn.
Picked(key) ==
    LET n == Cardinality(Healthy)
        load(i) == slot[targets.slots[i]].inFlight
    IN  CASE targets.opts.balance = "LeastInFlight" ->
               CHOOSE i \in Healthy : \A j \in Healthy :
                  load(i) <= load(j) /\ (j < i => load(i) < load(j))
          [] targets.opts.balance = "HashChat" /\ key # NoKey ->
               Nth(Healthy, (KeyHash[key] % n) + 1)
          [] OTHER -> Nth(Healthy, (cursor % n) + 1)
TakesTurn(key) ==
    \/ targets.opts.balance = "RoundRobin"
    \/ targets.opts.balance = "HashChat" /\ key = NoKey

\* choose and pick: a slot is ready; the request is sent.
Send(s) ==
    LET d == delivery[s]
        i == targets.slots[Picked(d.key)]
    IN  /\ Polled(s, "load")
        /\ ~Passed(MaxAgeAt(s, targets.opts))
        /\ Healthy # {}
        /\ slot' = [slot EXCEPT ![i] = Claim(@)]
        /\ delivery' = [delivery EXCEPT ![s] =
               [NewDelivery(d.key) EXCEPT !.pc = "sending",
                    !.attempt = d.attempt + 1, !.slot = i,
                    !.opts = targets.opts, !.bound = targets.runtime]]
        /\ cursor' = IF TakesTurn(d.key) THEN (cursor + 1) % CursorPeriod ELSE cursor
        /\ UNCHANGED <<vars, controlVars, dispatcher>>

\* The first instant an open breaker of the current set admits a probe.
FirstReopen ==
    LET open == {i \in CurrentSlots : /\ slot[i].word.state = "Open"
                                      /\ ReopensAt(slot[i]) # NoDeadline}
    IN  IF open = {} THEN NoDeadline
        ELSE Min({ReopensAt(slot[i]) : i \in open})

\* Mutant: a delivery waits for a breaker and not for its own max_age.
WaitUntilReopen(s) ==
    /\ Polled(s, "load")
    /\ targets.slots # <<>>
    /\ ~Passed(MaxAgeAt(s, targets.opts))
    /\ Healthy = {}
    /\ delivery' = [delivery EXCEPT ![s] =
           [@ EXCEPT !.pc = "waiting", !.until = FirstReopen]]
    /\ UNCHANGED <<vars, controlVars, slot, dispatcher, cursor>>

\* choose: no breaker admits a request.
Wait(s) ==
    /\ Polled(s, "load")
    /\ targets.slots # <<>>
    /\ ~Passed(MaxAgeAt(s, targets.opts))
    /\ Healthy = {}
    /\ delivery' = [delivery EXCEPT ![s] =
           [@ EXCEPT !.pc = "waiting",
                     !.until = Earlier(FirstReopen, MaxAgeAt(s, targets.opts))]]
    /\ UNCHANGED <<vars, controlVars, slot, dispatcher, cursor>>

\* choose's select!: it is told or its wait is over, and looks again ...
LookAgain(s) ==
    /\ Polled(s, "waiting")
    /\ delivery[s].told \/ Passed(delivery[s].until)
    /\ delivery' = [delivery EXCEPT ![s] =
           [@ EXCEPT !.pc = "choose", !.until = NoDeadline, !.told = FALSE]]
    /\ UNCHANGED <<vars, controlVars, slot, dispatcher, cursor>>

\* ... or cancel fires, there or during a backoff: the update returns.
GiveBack(s) ==
    /\ Polled(s, "waiting") \/ Polled(s, "backoff")
    /\ "cancel" \in stops
    /\ ReleaseHeld(s)
    /\ Return(s)
    /\ UNCHANGED <<controlVars, slot, cursor>>

\* Mutant: the reply is bound to the runtime endpoint there is by now.
ReplyBindingNow(s) ==
    IF slot[delivery[s].slot].owner = NoBot THEN NoBot ELSE targets.runtime

\* What reply binds the method call of an answer to: nothing, unless the
\* runtime endpoint gave it.
ReplyBinding(s) ==
    IF slot[delivery[s].slot].owner = NoBot THEN NoBot ELSE delivery[s].bound

\* A 2xx answer.  The Sending is dropped; the update stays leased while the
\* method call in the answer, if there is one, is executed.
Delivered(s) ==
    /\ Polled(s, "sending")
    /\ \/ /\ AckHeld(s)
          /\ delivery' = Told(Without(s))
          /\ dispatcher' = At("top")
       \/ /\ delivery[s].opts.reply
          /\ delivery' = Told([delivery EXCEPT ![s] =
                 [NewDelivery(@.key) EXCEPT !.pc = "replying",
                                            !.bound = ReplyBinding(s)]])
          /\ dispatcher' = TellDispatcher(dispatcher)
          /\ UNCHANGED vars
    /\ UNCHANGED <<controlVars, cursor>>
    /\ EndSending(s, OnSuccess(slot[delivery[s].slot]))

\* The reply ran, well or not: the update is done.
Replied(s) ==
    /\ Polled(s, "replying")
    /\ AckHeld(s)
    /\ Return(s)
    /\ UNCHANGED <<controlVars, slot, cursor>>

\* A permanent failure: the endpoint is up, the update is dead-lettered.
Rejected(s) ==
    /\ Polled(s, "sending")
    /\ AckHeld(s)
    /\ delivery' = Told(Without(s))
    /\ dispatcher' = At("top")
    /\ UNCHANGED <<controlVars, cursor>>
    /\ EndSending(s, OnSuccess(slot[delivery[s].slot]))

\* Whether a failed s is not to be retried after delay: it has spent its
\* attempts, or would be max_age old.
Spent(s, delay) ==
    LET opts == delivery[s].opts
        deadline == MaxAgeAt(s, opts)
        retryAt == After(now, delay)
    IN  \/ delivery[s].attempt >= opts.maxAttempts
        \/ /\ deadline # NoDeadline
           /\ retryAt = NoDeadline \/ retryAt >= deadline

\* A transient failure: the update is dead-lettered or retried after delay.
Failed(s, delay) ==
    LET d == delivery[s]
    IN  /\ Polled(s, "sending")
        /\ IF Spent(s, delay)
           THEN /\ AckHeld(s)
                /\ delivery' = Told(Without(s))
                /\ dispatcher' = At("top")
           ELSE /\ delivery' = Told([delivery EXCEPT ![s] =
                       [NewDelivery(d.key) EXCEPT !.pc = "backoff",
                            !.attempt = d.attempt, !.until = After(now, delay)]])
                /\ dispatcher' = TellDispatcher(dispatcher)
                /\ UNCHANGED vars
        /\ UNCHANGED <<controlVars, cursor>>
        /\ EndSending(s, OnFailure(slot[d.slot]))

\* The backoff is over.
Retry(s) ==
    /\ Polled(s, "backoff")
    /\ Passed(delivery[s].until)
    /\ delivery' = [delivery EXCEPT ![s] =
           [@ EXCEPT !.pc = "choose", !.until = NoDeadline]]
    /\ UNCHANGED <<vars, controlVars, slot, dispatcher, cursor>>

-----------------------------------------------------------------------------
OweWake == owedWakes < MaxOwed /\ owedWakes' = owedWakes + 1
Call == calls < MaxCalls /\ calls' = calls + 1

\* The n lowest slot ids that are free, in order.
FreeIds(n) == [k \in 1 .. n |-> Nth(SlotIds \ Live, k)]

\* The configured endpoints of targets.
Configured ==
    SubSeq(targets.slots, 1,
           Len(targets.slots) - (IF targets.runtime = NoBot THEN 0 ELSE 1))

\* Replaces targets; the slots fresh are made for it, by the owners given.
SetTargets(new, fresh, owners) ==
    /\ Call
    /\ targets' = new
    /\ UNCHANGED <<vars, delivery, dispatcher, cursor, received, paused, stops>>
    /\ SlotsBecome([i \in SlotIds |->
           IF \E k \in DOMAIN fresh : fresh[k] = i
           THEN NewSlot(owners[CHOOSE k \in DOMAIN fresh : fresh[k] = i], new.opts)
           ELSE IF i \in Live THEN slot[i] ELSE NewSlot(NoBot, new.opts)])
    /\ OweWake

\* set_endpoints: n new endpoints; the runtime endpoint stays, with its slot
\* unless the breaker settings changed.
SetEndpoints(n, opts) ==
    LET runtime == targets.runtime
        same == targets.opts.breaker = opts.breaker
        anew == IF runtime = NoBot \/ same THEN n ELSE n + 1
        fresh == FreeIds(anew)
        kept == IF runtime # NoBot /\ same
                THEN <<targets.slots[Len(targets.slots)]>> ELSE <<>>
    IN  /\ Cardinality(SlotIds \ Live) >= anew
        /\ SetTargets([slots |-> fresh \o kept, runtime |-> runtime, opts |-> opts],
                      fresh, [k \in 1 .. anew |-> IF k > n THEN runtime ELSE NoBot])

\* set_options: the endpoints stay.
SetOptions(opts) ==
    SetTargets([targets EXCEPT !.opts = opts], <<>>, <<>>)

\* set_runtime_endpoint: bot's endpoint, with a fresh breaker, or none.
SetRuntimeEndpoint(bot) ==
    LET fresh == FreeIds(IF bot = NoBot THEN 0 ELSE 1)
    IN  /\ bot # NoBot => SlotIds \ Live # {}
        /\ SetTargets([targets EXCEPT !.slots = Configured \o fresh, !.runtime = bot],
                      fresh, <<bot>>)

\* The notify_waiters call at the end of these, and of resume.
NotifyChanged ==
    /\ owedWakes > 0
    /\ owedWakes' = owedWakes - 1
    /\ delivery' = Told(delivery)
    /\ dispatcher' = TellDispatcher(dispatcher)
    /\ UNCHANGED <<vars, slot, cursor, targets, received, paused, stops, calls>>

\* notify_waiters of the queue: the dispatcher alone waits for it.
NotifyQueued ==
    /\ NotifyWaiters
    /\ dispatcher' = TellDispatcher(dispatcher)
    /\ UNCHANGED <<controlVars, slot, delivery, cursor>>

Pause ==
    /\ Call
    /\ ~paused
    /\ paused' = TRUE
    /\ UNCHANGED <<vars, taskVars, targets, received, owedWakes, stops>>

\* Mutant: the dispatcher is not woken.
ResumeSilently ==
    /\ paused
    /\ paused' = FALSE
    /\ UNCHANGED <<vars, taskVars, targets, received, owedWakes, stops, calls>>

Resume ==
    /\ Call
    /\ paused' = FALSE
    /\ OweWake
    /\ UNCHANGED <<vars, taskVars, targets, received, stops>>

\* The tokens: stop, then force at the end of a shutdown's patience, or kill
\* when a retired instance is given up.
Stop(token) ==
    /\ token \in Tokens \ stops
    /\ token # "cancel" => "cancel" \in stops
    /\ stops' = stops \cup {token}
    /\ UNCHANGED <<vars, taskVars, targets, received, paused, owedWakes, calls>>

\* Admissions; an update was received some time before it is committed.
Admission(p) ==
    /\ ProducerStep(p)
    /\ IF nextSeq' = nextSeq THEN UNCHANGED received
       ELSE \E at \in (now - MaxLag) .. now : at >= 0 /\ received' = [received EXCEPT ![nextSeq] = at]
    /\ UNCHANGED <<taskVars, targets, paused, owedWakes, stops, calls>>

\* What operators, reloads and the end of a retired instance do to the queue.
Operator ==
    /\ \/ Purge
       \/ \E S \in SUBSET available : PurgeWhere(S)
       \/ DrainAll
       \/ \E c \in Configs : SetConfig(c)
    /\ UNCHANGED pushVars
Clock == Tick /\ UNCHANGED pushVars

\* The steps of the task that its own loop takes ...
DispatcherStep ==
    \/ EnableFutures
    \/ LookAround
    \/ LoadTargets
    \/ LeaseRoom
    \/ WakeUp
    \/ ForceBreak
    \/ \E s \in Deliveries : DropDelivery(s)
    \/ End

\* ... and those of delivery s, but for the answer to its request.
DeliveryStep(s) ==
    \/ Choose(s)
    \/ NoEndpoint(s)
    \/ TooOld(s)
    \/ Send(s)
    \/ Wait(s)
    \/ LookAgain(s)
    \/ GiveBack(s)
    \/ Retry(s)
Answer(s) ==
    \/ Delivered(s)
    \/ Replied(s)
    \/ Rejected(s)
    \/ \E delay \in 0 .. MaxDelay : Failed(s, delay)

PushNext ==
    \/ Spawn
    \/ DispatcherStep
    \/ Crash
    \/ \E s \in 0 .. MaxSeq - 1 : DeliveryStep(s) \/ Answer(s)
    \/ \E n \in 0 .. MaxEndpoints, opts \in Options : SetEndpoints(n, opts)
    \/ \E opts \in Options : SetOptions(opts)
    \/ \E bot \in Bots \cup {NoBot} : SetRuntimeEndpoint(bot)
    \/ NotifyChanged
    \/ NotifyQueued
    \/ Pause
    \/ Resume
    \/ \E token \in Tokens : Stop(token)
    \/ \E p \in Producers : Admission(p)
    \/ Operator
    \/ Clock

PushSpec == PushInit /\ [][PushNext]_allVars

\* tokio runs every task that is ready and fires every due timer.  The steps
\* that take the queue's mutex (parking_lot: eventually fair) get it, and
\* select!, which looks at force first (biased), does not pass it over for
\* ever: hence SF.  Every request is answered or times out, every reply ends,
\* a supervised dispatcher is restarted, and threads finish their calls.
PushFairness ==
    /\ SF_allVars(DispatcherStep)
    /\ \A s \in 0 .. MaxSeq - 1 : SF_allVars(DeliveryStep(s)) /\ SF_allVars(Answer(s))
    /\ WF_allVars(Spawn)
    /\ \A p \in Producers :
          WF_allVars((Grant(p) \/ Refuse(p) \/ Evict(p)) /\ Admission(p))
    /\ WF_allVars(NotifyQueued)
    /\ WF_allVars(Clock)

FairPushSpec == PushSpec /\ PushFairness

-----------------------------------------------------------------------------
\* No lease outlives its delivery.  Push leases never expire, so an update
\* leased to a delivery that is gone (cancelled, forced, crashed, out of
\* endpoints) would never be sent again.
LeasesDelivered == leases[PushHolder] \subseteq Deliveries

\* A half-open breaker, which admits nothing, has a request on the wire whose
\* end will take it out of half-open: also when the probe was forced to stop,
\* and when requests from before it opened end first.
ProbeUnderWay ==
    \A i \in Live : slot[i].word.state = "HalfOpen" =>
        \E s \in Sending(Deliveries) : delivery[s].slot = i

\* No delivery waits for a breaker in vain: one that has not been told of any
\* change since it looked does not wait on, past its time, next to an endpoint
\* that would take its update, without any endpoint, or with an update too
\* old, unless a notify_waiters call is on its way.
WaitersHear ==
    \A s \in Deliveries :
        /\ delivery[s].pc = "waiting"
        /\ ~delivery[s].told
        /\ Healthy # {} \/ targets.slots = <<>> \/ Passed(MaxAgeAt(s, targets.opts))
        => Passed(delivery[s].until) \/ owedWakes > 0

\* The dispatcher does not sleep next to work: parked and untold, with room,
\* an endpoint and something to lease, it is paused or stopping or a
\* notify_waiters call is on its way.
DispatcherAwake ==
    /\ dispatcher.pc = "parked"
    /\ ~dispatcher.told
    /\ ~paused
    /\ "cancel" \notin stops
    /\ targets.slots # <<>>
    /\ Cardinality(Deliveries) < targets.opts.maxInFlight
    /\ Candidates # {}
    => owed > 0 \/ owedWakes > 0

\* The dispatcher's task sleeps neither in its select! nor in its deliveries
\* next to something to do, whatever its looks and its waits race with:
\* commits, resumes, reports to breakers, dropped probes, endpoint changes.
TaskAwake == DispatcherAwake /\ WaitersHear

\* Under per-chat ordering a request is on the wire only for the oldest
\* update of its chat that is still in the queue, whatever retries, releases
\* and restarts of the dispatcher came before, as long as no reload switches
\* the ordering: set_config leaves the updates of a chat leased together that
\* were when it switched to PerKey.
SentInOrder ==
    cfg.ordering = "PerKey" =>
        \A s \in Sending(Deliveries) : delivery[s].key # NoKey =>
            \A t \in OfKey(Seqs, delivery[s].key) : s <= t

\* A method call in an answer is executed for the bot whose setWebhook set
\* the endpoint that gave it, whoever owns the runtime endpoint by then.
ReplyBoundToOwner ==
    [][\A s \in Sending(Deliveries) :
          s \in DOMAIN delivery' /\ delivery'[s].pc = "replying" =>
              delivery'[s].bound = slot[delivery[s].slot].owner]_allVars

\* Once cancelled, the dispatcher comes to its end, and every lease is
\* settled or back in the queue, whatever crashes meanwhile.
Ended == dispatcher.pc = "done" \/ (dispatcher.pc = "off" /\ "kill" \in stops)
StopReturnsLeases ==
    "cancel" \in stops ~> Ended /\ leases[PushHolder] = {}

\* Every delivery that can reach its max_age ends, whatever endpoints and
\* options come and go, and however often it is told to look again.
DeliveryEnds ==
    \A s \in 0 .. MaxSeq - 1 :
        s \in Deliveries /\ (\A o \in Options : MaxAgeAt(s, o) # NoDeadline)
            ~> s \notin Deliveries
=============================================================================
