------------------------------ MODULE Schedule ------------------------------
(***************************************************************************)
(* What a rate quota promises its clients, whatever keeps it: at most      *)
(* Burst requests at once and one more per interval, each at the earliest  *)
(* instant, from the one its client asked for on, that leaves the schedule *)
(* so; and a client is refused only if there is no such instant in time.   *)
(***************************************************************************)
EXTENDS Integers, FiniteSets, FiniteSetsExt

CONSTANTS
    Interval,   \* between requests at the steady rate
    Burst,      \* requests at once
    Instants,   \* 0 .. the last one there is
    Clients

VARIABLES
    taken,      \* how many requests are booked for each instant
    horizon,    \* the latest instant somebody asked or swept at
    asks,       \* client -> what it asks for, if anything: at (its clock), from
                \* (the instant asked for), until (the last one it would wait for)
    got         \* client -> the instant booked for it, if any

scheduleVars == <<taken, horizon, asks, got>>

Within(f, x, y) == MapThenSumSet(LAMBDA t : f[t], {t \in Instants : x <= t /\ t <= y})

\* However one looks at it: a stretch of time has Burst requests, and one
\* more for every Interval it lasts.
Conforms(f) ==
    \A x, y \in Instants : x <= y => Within(f, x, y) * Interval <= Burst * Interval + (y - x)

With(t) == [taken EXCEPT ![t] = @ + 1]
Free(t) == Conforms(With(t))

ScheduleInit ==
    /\ taken = [t \in Instants |-> 0] /\ horizon = 0
    /\ asks = [c \in Clients |-> {}] /\ got = [c \in Clients |-> {}]

\* A client asks, one thing at a time; it may ask again for another instant
\* once it has given back the one it got.
Ask(c) ==
    /\ asks[c] = {} /\ got[c] = {} /\ asks'[c] # {}
    /\ UNCHANGED <<taken, horizon, got>>

Looked(ask) == horizon' = Max({horizon, ask.at})

\* The instant a client gets is none that was free before it: what it asked
\* for is what counts, or the horizon where its clock is late, since nobody
\* needs to remember what is behind that.
Book(c, ask, t) ==
    /\ t >= ask.from /\ t <= ask.until /\ Free(t)
    /\ Looked(ask)
    /\ \A u \in Max({ask.from, horizon'}) .. t - 1 : ~Free(u)
    /\ taken' = With(t)
    /\ got' = [got EXCEPT ![c] = {t}] /\ asks' = [asks EXCEPT ![c] = {}]

Refuse(c, ask) ==
    /\ Looked(ask) \/ UNCHANGED horizon
    /\ \A u \in Instants : u >= ask.from /\ u >= horizon' /\ u <= ask.until => ~Free(u)
    /\ asks' = [asks EXCEPT ![c] = {}] /\ UNCHANGED <<taken, got>>

\* What a client gives back is free again, unless it lies behind the horizon,
\* where it may stay charged.  It may ask for another instant at once.
GiveBack(c, t) ==
    /\ got' = [got EXCEPT ![c] = {}]
    /\ taken' = [taken EXCEPT ![t] = @ - 1] \/ (t < horizon /\ UNCHANGED taken)
    /\ UNCHANGED horizon

\* Time passes for the quota, if only because somebody sweeps.
Pass == horizon' \in Instants /\ horizon' > horizon /\ UNCHANGED <<taken, asks, got>>

\* A step of a client leaves what the others ask for and have.
Alone(c) == \A d \in Clients \ {c} : asks'[d] = asks[d] /\ got'[d] = got[d]

ScheduleNext ==
    \/ Pass
    \/ \E c \in Clients :
          /\ Alone(c)
          /\ \/ Ask(c)
             \/ \E ask \in asks[c] : Refuse(c, ask) \/ \E t \in Instants : Book(c, ask, t)
             \/ \E t \in got[c] : GiveBack(c, t)

ScheduleSpec == ScheduleInit /\ [][ScheduleNext]_scheduleVars
=============================================================================
