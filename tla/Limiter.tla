------------------------------ MODULE Limiter ------------------------------
(***************************************************************************)
(* The rate limits of a bot: the slot calendar and the keyed GCRA of       *)
(* tgin-runtime/src/limit.rs, and the bookings a request makes on three of *)
(* them (tgin-botapi/src/gateway/limit.rs).  Every quota has a lock of its *)
(* own: a booking or a cancellation is one step, and the steps of several  *)
(* requests and of the sweep interleave.  A request reads the clock once,  *)
(* before its first booking.                                               *)
(***************************************************************************)
EXTENDS Integers, Sequences, SequencesExt, FiniteSets, FiniteSetsExt

CONSTANTS
    Requests,       \* requests, with the chat of each and whether it is a group
    ChatOf, Groups,
    Count, Per, BurstOf,    \* by bucket "global", "chat", "group": the quotas
    MaxDelay,       \* the longest a request is held
    MaxInstant,     \* the last instant there is
    MaxNow          \* bound: the clock stops here

ASSUME LimiterAssumption ==
    /\ IsFiniteSet(Requests)
    /\ \A q \in {"global", "chat", "group"} :
           Count[q] \in Nat \ {0} /\ Per[q] \in Nat \ {0} /\ BurstOf[q] \in Nat \ {0}
    /\ MaxDelay \in Nat /\ MaxInstant \in Nat /\ MaxNow \in 0 .. MaxInstant

Buckets == <<"global", "chat", "group">>
Chats == {ChatOf[r] : r \in Requests}
Instants == 0 .. MaxInstant
Never == MaxInstant + 1     \* past the last instant
None == 0 - 1

VARIABLES
    now,
    calendar,       \* SlotCalendar: floor and slots
    tats,           \* KeyedLimiter, by bucket and chat: tat and stamp
    stamps,         \* next_stamp
    req,            \* the requests
    taken, horizon  \* history: what the calendar booked and did not cancel,
                    \* and the latest instant it was asked or swept at

limiterVars == <<now, calendar, tats, stamps, req, taken, horizon>>

-----------------------------------------------------------------------------
(* Quota.                                                                  *)

\* per / count, rounded up.
Spacing(q) == (Per[q] + Count[q] - 1) \div Count[q]
Tolerance(q) == Spacing(q) * (BurstOf[q] - 1)

\* checked_add.
Plus(at, d) == IF at = Never \/ at + d > MaxInstant THEN Never ELSE at + d
Larger(a, b) == IF a > b THEN a ELSE b

-----------------------------------------------------------------------------
(* SlotCalendar.                                                           *)

\* Mutant: the folded booking is remembered, not what it pushed ahead.
FoldForgetting(cal, at) ==
    LET before == SelectSeq(cal.slots, LAMBDA t : t < at)
    IN [floor |-> IF before = <<>> THEN cal.floor ELSE Plus(Last(before), Spacing("global")),
        slots |-> SubSeq(cal.slots, Len(before) + 1, Len(cal.slots))]

\* The floor after the first k bookings: each moves it an interval past the
\* later of the two.
FloorAfter(cal, k) ==
    LET T == Spacing("global")
    IN Max({cal.floor + k * T} \cup {cal.slots[j] + (k - j + 1) * T : j \in 1 .. k})

\* fold_before: the bookings before at, in order, each move the floor; one
\* whose floor would be past the last instant stays, and those after it.
Folded(cal, at) == Cardinality({k \in DOMAIN cal.slots : cal.slots[k] < at /\ FloorAfter(cal, k) <= MaxInstant})
Fold(cal, at) ==
    [floor |-> FloorAfter(cal, Folded(cal, at)), slots |-> SubSeq(cal.slots, Folded(cal, at) + 1, Len(cal.slots))]

\* Mutant: one theoretical arrival time after every booking, so that the free
\* capacity before a booking far ahead is lost.
EarliestBehind(cal, start) ==
    LET t == Larger(start, FloorAfter(cal, Len(cal.slots)) - Tolerance("global"))
    IN IF t > MaxInstant THEN Never ELSE t

\* earliest: s is each booking's instant on the scale that the interval
\* moves; a booking put behind the first p shifts the later ones' s down.
Earliest(cal, start) ==
    LET T == Spacing("global")
        slots == cal.slots
        s(k) == slots[k] - (k - 1) * T
        first == Cardinality({k \in DOMAIN slots : slots[k] <= start})
        before(p) == {s(k) : k \in 1 .. p} \cup ({cal.floor} \ {None})
        after(p) == {s(k) - T : k \in p + 1 .. Len(slots)}
        low(p) == IF p = first THEN start ELSE slots[p]
        lower(p) == IF before(p) = {} THEN low(p)
                    ELSE Larger(low(p), Max(before(p)) - Tolerance("global") + p * T)
        fits(p) ==
            /\ \A b \in before(p), a \in after(p) : b - a <= Tolerance("global")
            /\ \A a \in after(p) : lower(p) <= a + Tolerance("global") + p * T
            /\ p < Len(slots) => lower(p) < slots[p + 1]
        places == {p \in first .. Len(slots) : fits(p)}
    IN IF places = {} \/ lower(Min(places)) > MaxInstant THEN Never ELSE lower(Min(places))

\* partition_point, then insert.
Insert(slots, t) ==
    LET n == Cardinality({k \in DOMAIN slots : slots[k] <= t})
    IN InsertAt(slots, n + 1, t)

-----------------------------------------------------------------------------
(* A request.  It books each quota from its clock on, then again those     *)
(* whose slot is before the latest one, until all agree.                   *)

NoBooking == [delay |-> None, stamp |-> None, prev |-> [tat |-> None, stamp |-> None]]
Fresh == [pc |-> "new", at |-> 0, start |-> 0, delay |-> 0, next |-> 1,
          booked |-> [i \in 1 .. 3 |-> NoBooking], overtaken |-> FALSE]

LimiterInit ==
    /\ now = 0
    /\ calendar = [floor |-> None, slots |-> <<>>]
    /\ tats = [q \in {"chat", "group"} |-> [c \in Chats |-> NoBooking.prev]]
    /\ stamps = [q \in {"chat", "group"} |-> 0]
    /\ req = [r \in Requests |-> Fresh]
    /\ taken = [t \in Instants |-> 0] /\ horizon = 0

LimitedBy(r, i) == Buckets[i] = "group" => ChatOf[r] \in Groups

\* The quotas of a pass still to be booked: not yet, or too early.
ToBook(r, rec, start, from) == {i \in from .. 3 : LimitedBy(r, i) /\ rec.booked[i].delay < start}

\* What the request does next: go on with the pass, make another from the
\* latest delay, or leave.
Continue(r, rec, from) ==
    LET here == ToBook(r, rec, rec.start, from)
        again == ToBook(r, rec, rec.delay, 1)
    IN IF here # {} THEN [rec EXCEPT !.pc = "book", !.next = Min(here)]
       ELSE IF again # {} THEN [rec EXCEPT !.pc = "book", !.start = rec.delay, !.next = Min(again)]
       ELSE [rec EXCEPT !.pc = "leaves"]

Begin(r) ==
    /\ req[r].pc = "new"
    /\ req' = [req EXCEPT ![r] = [Fresh EXCEPT !.pc = "book", !.at = now]]
    /\ UNCHANGED <<now, calendar, tats, stamps, taken, horizon>>

\* A quota books a slot delay after the request's clock, or refuses.
Booked(r, delay, stamp, prev) ==
    LET i == req[r].next
        rec == [req[r] EXCEPT !.delay = Larger(@, delay),
                              !.booked[i] = [delay |-> delay, stamp |-> stamp, prev |-> prev]]
    IN req' = [req EXCEPT ![r] = Continue(r, rec, i + 1)]
Refused(r) == req' = [req EXCEPT ![r].pc = "undo"]

Turn(r, q) == req[r].pc = "book" /\ Buckets[req[r].next] = q /\ req[r].booked[req[r].next] = NoBooking

\* SlotCalendar::acquire.
BookGlobal(r) ==
    /\ Turn(r, "global")
    /\ LET start == Plus(req[r].at, req[r].start)
           cal == Fold(calendar, req[r].at)
           t == IF start = Never THEN Never ELSE Earliest(cal, start)
       IN /\ horizon' = IF start = Never THEN horizon ELSE Larger(horizon, req[r].at)
          /\ IF t = Never \/ t - req[r].at > MaxDelay
             THEN Refused(r) /\ calendar' = (IF start = Never THEN calendar ELSE cal) /\ UNCHANGED taken
             ELSE /\ Booked(r, t - req[r].at, None, NoBooking.prev)
                  /\ calendar' = [cal EXCEPT !.slots = Insert(@, t)]
                  /\ taken' = [taken EXCEPT ![t] = @ + 1]
    /\ UNCHANGED <<now, tats, stamps>>

\* KeyedLimiter::acquire and Quota::book.
BookKeyed(r, q) ==
    /\ Turn(r, q)
    /\ LET at == Plus(req[r].at, req[r].start)
           prev == tats[q][ChatOf[r]]
           tat == Larger(prev.tat, at)
           wait == Larger(tat - at - Tolerance(q), 0)
       IN IF at = Never \/ tat = Never \/ wait > Larger(MaxDelay - req[r].start, 0)
          THEN Refused(r) /\ UNCHANGED <<tats, stamps>>
          ELSE /\ Booked(r, req[r].start + wait, stamps[q], prev)
               /\ tats' = [tats EXCEPT ![q][ChatOf[r]] = [tat |-> Plus(tat, Spacing(q)), stamp |-> stamps[q]]]
               /\ stamps' = [stamps EXCEPT ![q] = @ + 1]
    /\ UNCHANGED <<now, calendar, taken, horizon>>

\* Mutant: a later booking of the key is undone, too.
CancelKeyedAlways(r, i) ==
    /\ tats' = [tats EXCEPT ![Buckets[i]][ChatOf[r]] = req[r].booked[i].prev]
    /\ UNCHANGED <<calendar, taken>>

\* KeyedLimiter::cancel: undone unless the key was booked or forgotten since.
CancelKeyed(r, i) ==
    /\ tats' = IF tats[Buckets[i]][ChatOf[r]].stamp = req[r].booked[i].stamp
               THEN [tats EXCEPT ![Buckets[i]][ChatOf[r]] = req[r].booked[i].prev] ELSE tats
    /\ UNCHANGED <<calendar, taken>>

\* SlotCalendar::cancel: gone, unless it was folded into the floor.
CancelGlobal(t) ==
    LET k == SelectInSeq(calendar.slots, LAMBDA u : u = t)
    IN /\ IF k = 0 THEN UNCHANGED <<calendar, taken>>
          ELSE /\ calendar' = [calendar EXCEPT !.slots = RemoveAt(@, k)]
               /\ taken' = [taken EXCEPT ![t] = @ - 1]
       /\ UNCHANGED tats

Unbook(r, i) ==
    IF Buckets[i] = "global" THEN CancelGlobal(req[r].at + req[r].booked[i].delay)
                             ELSE CancelKeyed(r, i)

\* A slot that is too early is given back before the quota is asked again.
GiveUpEarly(r) ==
    /\ req[r].pc = "book" /\ req[r].booked[req[r].next] # NoBooking
    /\ Unbook(r, req[r].next)
    /\ req' = [req EXCEPT ![r].booked[req[r].next] = NoBooking]
    /\ UNCHANGED <<now, stamps, horizon>>

\* undo: the latest booking first; then the request is refused.
Undo(r) ==
    /\ req[r].pc = "undo"
    /\ LET left == {i \in 1 .. 3 : req[r].booked[i] # NoBooking}
       IN IF left = {} THEN req' = [req EXCEPT ![r].pc = "refused"] /\ UNCHANGED <<calendar, tats, taken>>
          ELSE /\ Unbook(r, Max(left))
               /\ req' = [req EXCEPT ![r].booked[Max(left)] = NoBooking]
    /\ UNCHANGED <<now, stamps, horizon>>

-----------------------------------------------------------------------------
(* BotLimiter::sweep, one quota after the other, and time.                 *)

Overtaken == [r \in Requests |->
    [req[r] EXCEPT !.overtaken = @ \/ (req[r].pc \in {"book", "undo"} /\ req[r].at < now)]]

SweepGlobal ==
    /\ calendar' = Fold(calendar, now) /\ calendar' # calendar
    /\ horizon' = Larger(horizon, now)
    /\ UNCHANGED <<now, tats, stamps, req, taken>>

\* retain_recent: a key whose next slot is free is forgotten.
SweepKeyed(q) ==
    /\ \E c \in Chats : tats[q][c].tat # None /\ tats[q][c].tat <= now
    /\ tats' = [tats EXCEPT ![q] = [c \in Chats |-> IF @[c].tat <= now THEN NoBooking.prev ELSE @[c]]]
    /\ req' = Overtaken
    /\ UNCHANGED <<now, calendar, stamps, taken, horizon>>

Tick == now < MaxNow /\ now' = now + 1 /\ UNCHANGED <<calendar, tats, stamps, req, taken, horizon>>

LimiterNext ==
    \/ \E r \in Requests : \/ Begin(r) \/ BookGlobal(r) \/ GiveUpEarly(r) \/ Undo(r)
                           \/ \E q \in {"chat", "group"} : BookKeyed(r, q)
    \/ SweepGlobal
    \/ \E q \in {"chat", "group"} : SweepKeyed(q)
    \/ Tick

LimiterSpec == LimiterInit /\ [][LimiterNext]_limiterVars

-----------------------------------------------------------------------------
\* What a request asks the calendar for, and the slot it holds there.
SlotAsked(r) ==
    IF Turn(r, "global")
    THEN {[at |-> req[r].at, from |-> Plus(req[r].at, req[r].start), until |-> req[r].at + MaxDelay]} ELSE {}
SlotHeld(r) == IF req[r].booked[1] = NoBooking THEN {} ELSE {req[r].at + req[r].booked[1].delay}

Global == INSTANCE Schedule WITH
    Interval <- Spacing("global"), Burst <- BurstOf["global"], Clients <- Requests,
    asks <- [r \in Requests |-> SlotAsked(r)], got <- [r \in Requests |-> SlotHeld(r)]

\* The calendar, with its floor for what lies behind, books what a schedule
\* of every booking would: nothing beyond the quota, each request at the
\* earliest free instant from the one it asked for on, and none refused that
\* has a free one within its delay (limit.rs fold_before, earliest, acquire,
\* cancel).
CalendarIsSchedule == Global!ScheduleSpec

Leaving(q, c) ==
    {r \in Requests : /\ req[r].pc = "leaves"
                      /\ q # "global" => ChatOf[r] = c /\ ~req[r].overtaken /\ (q = "group" => c \in Groups)}
LeavesAt(r) == req[r].at + req[r].delay

\* The requests that leave, for chat c, keep quota q.
WithinLimit(q, c) ==
    \A x, y \in {LeavesAt(r) : r \in Leaving(q, c)} :
        x <= y =>
            Cardinality({r \in Leaving(q, c) : LeavesAt(r) \in x .. y}) * Spacing(q)
                <= BurstOf[q] * Spacing(q) + (y - x)

\* The requests that leave keep each of their quotas at once, whichever of
\* them was booked again, given back or refused meanwhile (BotLimiter::acquire,
\* KeyedLimiter::cancel).  One that a sweep overtook between its look at the
\* clock and its booking is not counted for its chat: it may find its chat
\* forgotten at a later instant than its own.
LimitsHold == \A q \in {"global", "chat", "group"}, c \in Chats : WithinLimit(q, c)
=============================================================================
