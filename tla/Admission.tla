------------------------------ MODULE Admission ------------------------------
(***************************************************************************)
(* tgin-core's engine: admissions that route updates to consumer queues,   *)
(* while reloads replace the consumers and drains retire the replaced.     *)
(*                                                                         *)
(* An admission works on the engine state it loaded, however old it gets;  *)
(* its steps are its reads of a slot's closed flag and its calls of the    *)
(* queues.  A reload and the end of a drain each hold the write lock, but  *)
(* admissions do not take it and run in between their steps.               *)
(*                                                                         *)
(* A consumer instance (Slot) is its closed flag and the counts of its     *)
(* LeaseQueue; Capacity is the item limit, and an update may exceed the    *)
(* byte limit of the consumers in Small.  Targets of one pass are taken in *)
(* any order.  Left out: metrics and logging, and the drain modes, pauses  *)
(* and endpoints of the consumers, which admission does not look at.       *)
(***************************************************************************)
EXTENDS Integers, FiniteSets

CONSTANTS
    Names,        \* consumer names
    Slots,        \* consumer instances
    NoSlot,       \* a name that the config does not define
    Admitters,    \* admissions under way at once
    Capacity,     \* the item limit of every queue
    Consumers,    \* for each name what configs define it as
    Small,        \* the consumers that an update may be too large for
    MaxReloads    \* bound: reloads in one behaviour

Modes == {"Pull", "Push"}
OnFull == {"Backpressure", "DropOldest"}

\* A name that a config does not define.
Undefined == [mode |-> "None", onFull |-> "Backpressure"]

ASSUME AdmissionAssumption ==
    /\ NoSlot \notin Slots
    /\ Capacity \in Nat
    /\ Consumers \in [Names -> SUBSET ([mode : Modes, onFull : OnFull] \cup {Undefined})]
    /\ Small \subseteq Names
    /\ MaxReloads \in Nat

VARIABLES
    state,        \* Shared.state: the target of each name
    kind,         \* the name and mode of each instance
    made,         \* the instances created so far
    closed,       \* Slot.closed: the instances where it is set
    queue,        \* the queue of each instance
    retired,      \* Shared.retired
    drains,       \* the drain_retired tasks; one is live until called off
    write,        \* Shared.write: who holds it, and what it still does
    reloads,      \* reloads so far
    adm           \* the local state of each admission

engineVars == <<state, kind, made, closed, retired, drains, write, reloads>>
vars == <<engineVars, queue, adm>>

-----------------------------------------------------------------------------
Target == [slot : Slots \cup {NoSlot}, onFull : OnFull]
NoTarget == [slot |-> NoSlot, onFull |-> "Backpressure"]
Queue == [onFull : OnFull, available : Nat, leased : Nat, reserved : Nat]
EmptyQueue(mode) ==
    [onFull |-> mode, available |-> 0, leased |-> 0, reserved |-> 0]

\* pc is the next step; view is the state the admission works on, todo the
\* targets still to reserve in, at the one it is at, permits those it holds
\* room in, got those it committed to.
Admitter == [pc : {"idle", "route", "check", "reserve", "commit", "late", "done"},
             attempt : 0 .. 2, big : SUBSET Names, view : [Names -> Target],
             todo : SUBSET Names, routed : SUBSET Names, at : Names \cup {NoSlot},
             permits : SUBSET Names, got : SUBSET Names,
             result : {"None", "Admitted", "Backpressure", "Unroutable"}]
Idle == [pc |-> "idle", attempt |-> 0, big |-> {},
         view |-> [n \in Names |-> NoTarget], todo |-> {}, routed |-> {},
         at |-> NoSlot, permits |-> {}, got |-> {}, result |-> "None"]

Free == [op |-> "free"]
Instances(s) == {s[n].slot : n \in Names} \ {NoSlot}
SlotOf(a, n) == adm[a].view[n].slot

Set(a, rec) == adm' = [adm EXCEPT ![a] = rec]
\* The answer: the state that a worked on is let go of.
Done(a, rec, result) ==
    Set(a, [rec EXCEPT !.pc = "done", !.result = result, !.attempt = 0,
                !.at = NoSlot, !.todo = {},
                !.view = [n \in Names |-> [rec.view[n] EXCEPT !.slot = NoSlot]]])

-----------------------------------------------------------------------------
Configs == {cfg \in [Names -> UNION {Consumers[n] : n \in Names}] :
               \A n \in Names : cfg[n] \in Consumers[n]}

\* The name that instance i serves in a config.
NameOf(assign, i) == CHOOSE n \in Names : assign[n] = i

\* No instance serves two names.
OnePerName(assign) ==
    \A n, m \in Names : n # m /\ assign[n] # NoSlot => assign[n] # assign[m]

Used(assign) == {assign[n] : n \in Names} \ {NoSlot}

TargetsOf(cfg, assign) ==
    [n \in Names |-> IF assign[n] = NoSlot THEN NoTarget
                     ELSE [slot |-> assign[n], onFull |-> cfg[n].onFull]]

KindOf(cfg, assign, i) ==
    [name |-> NameOf(assign, i), mode |-> cfg[NameOf(assign, i)].mode]

\* Engine::new: the first config is built like a reload that finds nothing
\* before it.
Start(cfg, assign) ==
    /\ \A n \in Names : assign[n] = NoSlot <=> cfg[n] = Undefined
    /\ OnePerName(assign)
    /\ state = TargetsOf(cfg, assign)
    /\ made = Used(assign)
    /\ kind = [i \in made |-> KindOf(cfg, assign, i)]
    /\ queue = [i \in Slots |->
           EmptyQueue(IF i \in made THEN cfg[NameOf(assign, i)].onFull
                      ELSE "Backpressure")]

Init ==
    /\ \E cfg \in Configs,
          assign \in [Names -> Slots \cup {NoSlot}] : Start(cfg, assign)
    /\ closed = {}
    /\ retired = {}
    /\ drains = {}
    /\ write = Free
    /\ reloads = 0
    /\ adm = [a \in Admitters |-> Idle]

\* admit is called with an update, or tries again: it loads the state and
\* routes the update to the consumers T.
Route(a, T) ==
    LET rec == [adm[a] EXCEPT !.pc = "check", !.attempt = @ + 1, !.todo = T,
                  !.routed = T,
                  !.view = [n \in Names |-> IF n \in T THEN state[n] ELSE NoTarget]]
    IN  /\ adm[a].pc \in {"idle", "route"}
        /\ \A n \in T : state[n].slot # NoSlot
        /\ IF T = {} THEN Done(a, rec, "Unroutable") ELSE Set(a, rec)
        /\ UNCHANGED <<engineVars, queue>>

\* Gives back the room that a holds.
CancelAll(a) ==
    queue' = [i \in Slots |->
        [queue[i] EXCEPT !.reserved =
            @ - Cardinality({n \in adm[a].permits : SlotOf(a, n) = i})]]

\* The targets of the current pass: Backpressure ones first.
Pass(a) ==
    LET first == {n \in adm[a].todo : adm[a].view[n].onFull = "Backpressure"}
    IN  IF first # {} THEN first ELSE adm[a].todo

\* A closed target ends the attempt; the first one is made again on the
\* state of that moment.
Check(a, n) ==
    /\ adm[a].pc = "check"
    /\ n \in Pass(a)
    /\ IF SlotOf(a, n) \notin closed
       THEN /\ Set(a, [adm[a] EXCEPT !.pc = "reserve", !.at = n])
            /\ UNCHANGED queue
       ELSE /\ CancelAll(a)
            /\ IF adm[a].attempt = 1
               THEN Set(a, [Idle EXCEPT !.pc = "route", !.attempt = 1])
               ELSE Done(a, [adm[a] EXCEPT !.permits = {}], "Backpressure")
    /\ UNCHANGED engineVars

\* The target at hand is dealt with, with or without a permit.
Reserved(a, permits, big) ==
    LET rec == [adm[a] EXCEPT !.todo = @ \ {adm[a].at}, !.at = NoSlot,
                              !.permits = permits, !.big = big]
    IN  IF rec.todo # {} THEN Set(a, [rec EXCEPT !.pc = "check"])
        ELSE IF permits # {} THEN Set(a, [rec EXCEPT !.pc = "commit"])
        ELSE Done(a, rec, "Admitted")

Room(q) == q.available + q.leased + q.reserved < Capacity
CanEvict(q) == /\ q.onFull = "DropOldest"
               /\ q.available > 0
               /\ q.leased + q.reserved < Capacity

\* Mutant: a full target is passed over whatever its on_full.
ReserveSkippingFull(a, tooLarge) ==
    LET n == adm[a].at
        i == SlotOf(a, n)
        q == queue[i]
    IN  /\ adm[a].pc = "reserve"
        /\ IF ~tooLarge /\ Room(q)
           THEN /\ queue' = [queue EXCEPT ![i].reserved = @ + 1]
                /\ Reserved(a, adm[a].permits \cup {n}, adm[a].big)
           ELSE /\ Reserved(a, adm[a].permits, adm[a].big)
                /\ UNCHANGED queue
        /\ UNCHANGED engineVars

\* Mutant: a refusal keeps the room already reserved in other targets.
ReserveLeaking(a, tooLarge) ==
    LET n == adm[a].at
        i == SlotOf(a, n)
        q == queue[i]
    IN  /\ adm[a].pc = "reserve"
        /\ ~tooLarge
        /\ IF Room(q)
           THEN /\ queue' = [queue EXCEPT ![i].reserved = @ + 1]
                /\ Reserved(a, adm[a].permits \cup {n}, adm[a].big)
           ELSE /\ Done(a, [adm[a] EXCEPT !.permits = {}], "Backpressure")
                /\ UNCHANGED queue
        /\ UNCHANGED engineVars

\* try_reserve in the target at hand: too large, room (made by evicting the
\* oldest item if the queue drops), or full.
Reserve(a, tooLarge) ==
    LET n == adm[a].at
        i == SlotOf(a, n)
        q == queue[i]
    IN  /\ adm[a].pc = "reserve"
        /\ tooLarge => n \in Small
        /\ \/ /\ tooLarge
              /\ Reserved(a, adm[a].permits, adm[a].big \cup {n})
              /\ UNCHANGED queue
           \/ /\ ~tooLarge
              /\ Room(q) \/ CanEvict(q)
              /\ queue' = [queue EXCEPT
                     ![i].reserved = @ + 1,
                     ![i].available = IF Room(q) THEN @ ELSE @ - 1]
              /\ Reserved(a, adm[a].permits \cup {n}, adm[a].big)
           \/ /\ ~tooLarge
              /\ ~Room(q) /\ ~CanEvict(q)
              /\ IF adm[a].view[n].onFull = "Backpressure"
                 THEN /\ CancelAll(a)
                      /\ Done(a, [adm[a] EXCEPT !.permits = {}], "Backpressure")
                 ELSE /\ Reserved(a, adm[a].permits, adm[a].big)
                      /\ UNCHANGED queue
        /\ UNCHANGED engineVars

\* commit_reserved queues the update in a target ...
Commit(a, n) ==
    /\ adm[a].pc = "commit"
    /\ n \in adm[a].permits
    /\ queue' = [queue EXCEPT ![SlotOf(a, n)].reserved = @ - 1,
                              ![SlotOf(a, n)].available = @ + 1]
    /\ Set(a, [adm[a] EXCEPT !.pc = "late", !.at = n, !.permits = @ \ {n},
                             !.got = @ \cup {n}])
    /\ UNCHANGED engineVars

DrainAll(i) ==
    queue' = [queue EXCEPT ![i].available = 0, ![i].leased = 0]

Committed(a) ==
    IF adm[a].permits = {}
    THEN Done(a, adm[a], "Admitted")
    ELSE Set(a, [adm[a] EXCEPT !.pc = "commit"])

\* Mutant: the flag is not looked at after the commit.
LateNever(a) ==
    /\ adm[a].pc = "late"
    /\ Committed(a)
    /\ UNCHANGED <<engineVars, queue>>

\* ... and drops it again if the target was closed by then.
Late(a) ==
    LET i == SlotOf(a, adm[a].at)
    IN  /\ adm[a].pc = "late"
        /\ IF i \in closed THEN DrainAll(i) ELSE UNCHANGED queue
        /\ Committed(a)
        /\ UNCHANGED engineVars

\* The caller takes the answer.
Return(a) ==
    /\ adm[a].pc = "done"
    /\ Set(a, Idle)
    /\ UNCHANGED <<engineVars, queue>>

-----------------------------------------------------------------------------
\* A consumer leases an item, acks it, or gives it back.
Consume(i) ==
    /\ \/ /\ queue[i].available > 0
          /\ queue' = [queue EXCEPT ![i].available = @ - 1, ![i].leased = @ + 1]
       \/ /\ queue[i].leased > 0
          /\ \/ queue' = [queue EXCEPT ![i].leased = @ - 1]
             \/ queue' = [queue EXCEPT ![i].leased = @ - 1, ![i].available = @ + 1]
    /\ UNCHANGED <<engineVars, adm>>

Kept(n, mode) == state[n].slot # NoSlot /\ kind[state[n].slot].mode = mode
Draining(n, mode) == {i \in retired : kind[i].name = n /\ kind[i].mode = mode}

\* The instance that serves n in the new config, as a set of candidates: the
\* one it has, if the mode is the same; a draining one of the same name and
\* mode, revived; or a new one.
InstanceFor(n, mode) ==
    IF mode = "None" THEN {NoSlot}
    ELSE IF Kept(n, mode) THEN {state[n].slot}
    ELSE IF Draining(n, mode) # {} THEN Draining(n, mode)
    ELSE Slots \ made

\* Kept and revived queues get the config of their name.
Reconfigure(cfg, assign) ==
    queue' = [i \in Slots |->
        IF \E n \in Names : assign[n] = i
        THEN [queue[i] EXCEPT !.onFull = cfg[NameOf(assign, i)].onFull]
        ELSE queue[i]]

\* The drains of revived instances are called off.
Revive(used) ==
    /\ retired' = retired \ used
    /\ drains' = {IF d.slot \in used THEN [d EXCEPT !.live = FALSE] ELSE d :
                      d \in drains}

\* apply: with the write lock, the plan is made and carried out up to the
\* swap of the state; new instances start.
Reload(cfg, assign) ==
    /\ write = Free
    /\ reloads < MaxReloads
    /\ \A n \in Names : assign[n] \in InstanceFor(n, cfg[n].mode)
    /\ OnePerName(assign)
    /\ reloads' = reloads + 1
    /\ made' = made \cup Used(assign)
    /\ kind' = [i \in made' |->
           IF i \in made THEN kind[i] ELSE KindOf(cfg, assign, i)]
    /\ Reconfigure(cfg, assign)
    /\ Revive(Used(assign))
    /\ write' = [op |-> "swap", next |-> TargetsOf(cfg, assign)]
    /\ UNCHANGED <<state, closed, adm>>

\* Then those that the new state leaves out start to drain and the state is
\* swapped in.
Swap ==
    LET retiring == Instances(state) \ Instances(write.next)
    IN  /\ write.op = "swap"
        /\ state' = write.next
        /\ retired' = retired \cup retiring
        /\ drains' = drains \cup [slot : retiring, live : {TRUE}]
        /\ write' = Free
        /\ UNCHANGED <<kind, made, closed, queue, reloads, adm>>

\* A drain that was called off ends.
EndDrain(d) ==
    /\ d \in drains
    /\ ~d.live
    /\ drains' = drains \ {d}
    /\ UNCHANGED <<state, kind, made, closed, queue, retired, write, reloads, adm>>

\* Mutant: whether the drain was called off is not asked under the lock.
RetireRegardless(d) ==
    /\ d \in drains
    /\ write = Free
    /\ drains' = drains \ {d}
    /\ retired' = retired \ {d.slot}
    /\ closed' = closed \cup {d.slot}
    /\ write' = [op |-> "drain", slot |-> d.slot]
    /\ UNCHANGED <<state, kind, made, queue, reloads, adm>>

\* A drain that is over (its instance empty, or out of time) retires its
\* instance for good: with the write lock, it closes the instance ...
Retire(d) ==
    /\ d \in drains
    /\ d.live
    /\ write = Free
    /\ d.slot \in retired
    /\ drains' = drains \ {d}
    /\ retired' = retired \ {d.slot}
    /\ closed' = closed \cup {d.slot}
    /\ write' = [op |-> "drain", slot |-> d.slot]
    /\ UNCHANGED <<state, kind, made, queue, reloads, adm>>

\* ... and drops what it holds.
FinishRetire ==
    /\ write.op = "drain"
    /\ DrainAll(write.slot)
    /\ write' = Free
    /\ UNCHANGED <<state, kind, made, closed, retired, drains, reloads, adm>>

AdmissionStep(a) ==
    \/ \E T \in SUBSET Names : Route(a, T)
    \/ \E n \in Names : Check(a, n)
    \/ \E tooLarge \in BOOLEAN : Reserve(a, tooLarge)
    \/ \E n \in Names : Commit(a, n)
    \/ Late(a)
    \/ Return(a)

Next ==
    \/ \E a \in Admitters : AdmissionStep(a)
    \/ \E i \in Slots : Consume(i)
    \/ \E cfg \in Configs,
          assign \in [Names -> Slots \cup {NoSlot}] : Reload(cfg, assign)
    \/ Swap
    \/ \E d \in drains : EndDrain(d) \/ Retire(d)
    \/ FinishRetire

Spec == Init /\ [][Next]_vars

-----------------------------------------------------------------------------
\* An instance of the current state is open, in use and not about to be
\* retired: no drain outlives the reload that revives its instance, however
\* the two race for the write lock.
CurrentOpen ==
    \A i \in Instances(state) :
        /\ i \notin closed
        /\ i \notin retired
        /\ [slot |-> i, live |-> TRUE] \notin drains

\* An instance that is retired for good ends up empty: what it still holds
\* is what an admission has just committed and is about to drop, or what
\* retire itself is about to drop.
NothingStranded ==
    \A i \in closed :
        \/ queue[i].available + queue[i].leased = 0
        \/ write = [op |-> "drain", slot |-> i]
        \/ \E a \in Admitters :
               adm[a].pc = "late" /\ SlotOf(a, adm[a].at) = i

\* The room reserved in a queue is the room that admissions hold: every way
\* out of an admission gives back what it reserved.
PermitsReturned ==
    \A i \in Slots :
        queue[i].reserved =
            Cardinality({an \in Admitters \X Names :
                /\ an[2] \in adm[an[1]].permits
                /\ SlotOf(an[1], an[2]) = i})

\* Backpressure means that no consumer got the update (the source sends it
\* again); Admitted, that every lossless consumer it was routed to got it,
\* unless it can never fit there.
AllOrNothing ==
    \A a \in Admitters :
        /\ adm[a].result \in {"Backpressure", "Unroutable"} => adm[a].got = {}
        /\ adm[a].result = "Admitted" =>
              \A n \in adm[a].routed :
                  \/ n \in adm[a].got
                  \/ adm[a].view[n].onFull = "DropOldest"
                  \/ n \in adm[a].big
=============================================================================
