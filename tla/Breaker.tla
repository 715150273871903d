------------------------------- MODULE Breaker -------------------------------
(***************************************************************************)
(* tgin-runtime's lock-free circuit breaker, with the requests of a push   *)
(* endpoint that call it.                                                  *)
(*                                                                         *)
(* A step is one operation on one of the breaker's two atomics, so every   *)
(* race between callers is a behaviour.  A caller asks allow; once let in, *)
(* it sends its request and reports the outcome (on_success, on_failure),  *)
(* or is dropped before it can report, when it reports a failure if it     *)
(* finds the breaker half-open (Sending's Drop in push.rs).                *)
(*                                                                         *)
(* The word packs the state and opened_at; here it is a record.  A clock   *)
(* value stands for an offset, below MAX_OFFSET (about 146 years).         *)
(***************************************************************************)
EXTENDS Integers, FiniteSets

CONSTANTS
    Callers,      \* requests that use the breaker at once
    Threshold,    \* failure_threshold
    OpenFor,      \* open_for
    MaxInstant    \* bound: the last instant of the clock

ASSUME BreakerAssumption ==
    /\ IsFiniteSet(Callers)
    /\ Threshold \in Nat
    /\ OpenFor \in Nat
    /\ MaxInstant \in Nat

VARIABLES
    word,         \* Breaker.word
    failures,     \* Breaker.failures
    caller,       \* what each request is doing
    now           \* the clock

vars == <<word, failures, caller, now>>

-----------------------------------------------------------------------------
Word == [state : {"Closed", "Open", "HalfOpen"}, openedAt : 0 .. MaxInstant]
Closed == [state |-> "Closed", openedAt |-> 0]
HalfOpen(w) == [w EXCEPT !.state = "HalfOpen"]

\* pc: "swap" in allow, about to make the breaker half-open; "sent" let in,
\* its request under way; "close" in on_success; "fail", "count" and "open"
\* in on_failure.  word is the word it loaded last, at the instant it was
\* called with; a probe is a caller that made the breaker half-open.
Caller == [pc : {"idle", "swap", "sent", "close", "fail", "count", "open"},
           word : Word, at : 0 .. MaxInstant, role : {"request", "probe"}]
Idle == [pc |-> "idle", word |-> Closed, at |-> 0, role |-> "request"]

Set(c, rec) == caller' = [caller EXCEPT ![c] = rec]

Init ==
    /\ word = Closed
    /\ failures = 0
    /\ caller = [c \in Callers |-> Idle]
    /\ now = 0

\* allow loads the word: closed lets the caller in, open lets it try for the
\* probe once open_for has elapsed; the call is refused otherwise.
Allow(c) ==
    /\ caller[c].pc = "idle"
    /\ \/ /\ word.state = "Closed"
          /\ Set(c, [Idle EXCEPT !.pc = "sent"])
       \/ /\ word.state = "Open"
          /\ now >= word.openedAt + OpenFor
          /\ Set(c, [Idle EXCEPT !.pc = "swap", !.word = word])
       \/ /\ \/ word.state = "HalfOpen"
             \/ word.state = "Open" /\ now < word.openedAt + OpenFor
          /\ UNCHANGED caller
    /\ UNCHANGED <<word, failures, now>>

\* The compare-exchange of allow: the caller that wins it is the probe.
TakeProbe(c) ==
    /\ caller[c].pc = "swap"
    /\ IF word = caller[c].word
       THEN /\ word' = HalfOpen(word)
            /\ Set(c, [caller[c] EXCEPT !.pc = "sent", !.word = word',
                                        !.role = "probe"])
       ELSE /\ Set(c, Idle)
            /\ UNCHANGED word
    /\ UNCHANGED <<failures, now>>

\* on_success resets the count ...
OnSuccess(c) ==
    /\ caller[c].pc = "sent"
    /\ failures' = 0
    /\ Set(c, [caller[c] EXCEPT !.pc = "close"])
    /\ UNCHANGED <<word, now>>

\* ... then closes the breaker.
Close(c) ==
    /\ caller[c].pc = "close"
    /\ word' = Closed
    /\ Set(c, Idle)
    /\ UNCHANGED <<failures, now>>

\* A failed request reads the clock for on_failure.
Fail(c) ==
    /\ caller[c].pc = "sent"
    /\ Set(c, [caller[c] EXCEPT !.pc = "fail", !.at = now])
    /\ UNCHANGED <<word, failures, now>>

\* Mutant: a request dropped before its outcome is known reports nothing.
DropSilently(c) ==
    /\ caller[c].pc = "sent"
    /\ Set(c, Idle)
    /\ UNCHANGED <<word, failures, now>>

\* A request dropped before its outcome is known.
Drop(c) ==
    /\ caller[c].pc = "sent"
    /\ IF word.state = "HalfOpen"
       THEN Set(c, [caller[c] EXCEPT !.pc = "fail", !.at = now])
       ELSE Set(c, Idle)
    /\ UNCHANGED <<word, failures, now>>

\* on_failure loads the word; an open breaker is left alone.
OnFailure(c) ==
    /\ caller[c].pc = "fail"
    /\ \/ /\ word.state = "HalfOpen"
          /\ Set(c, [caller[c] EXCEPT !.pc = "open", !.word = word])
       \/ /\ word.state = "Closed"
          /\ Set(c, [caller[c] EXCEPT !.pc = "count", !.word = word])
       \/ /\ word.state = "Open"
          /\ Set(c, Idle)
    /\ UNCHANGED <<word, failures, now>>

\* The failure count of a closed breaker goes up; at the threshold it opens.
Count(c) ==
    /\ caller[c].pc = "count"
    /\ failures' = failures + 1
    /\ IF failures' >= Threshold
       THEN Set(c, [caller[c] EXCEPT !.pc = "open"])
       ELSE Set(c, Idle)
    /\ UNCHANGED <<word, now>>

\* Mutant: the exchange expects a closed breaker, and one that is lost is
\* made again.
OpenRetrying(c) ==
    /\ caller[c].pc = "open"
    /\ IF word = Closed
       THEN word' = [state |-> "Open", openedAt |-> caller[c].at] /\ Set(c, Idle)
       ELSE Set(c, [caller[c] EXCEPT !.pc = "fail"]) /\ UNCHANGED word
    /\ UNCHANGED <<failures, now>>

\* The compare-exchange of open: a lost race changes nothing.
Open(c) ==
    /\ caller[c].pc = "open"
    /\ word' = IF word = caller[c].word
               THEN [state |-> "Open", openedAt |-> caller[c].at]
               ELSE word
    /\ Set(c, Idle)
    /\ UNCHANGED <<failures, now>>

Tick ==
    /\ now < MaxInstant
    /\ now' = now + 1
    /\ UNCHANGED <<word, failures, caller>>

\* The steps by which a caller's request comes to its end.
Outcome(c) ==
    \/ OnSuccess(c)
    \/ Close(c)
    \/ Fail(c)
    \/ Drop(c)
    \/ OnFailure(c)
    \/ Count(c)
    \/ Open(c)

Next ==
    \/ \E c \in Callers : Allow(c) \/ TakeProbe(c) \/ Outcome(c)
    \/ Tick

Spec == Init /\ [][Next]_vars

\* Every request is answered, times out or is dropped (reqwest's timeout).
FairSpec == Spec /\ \A c \in Callers : WF_vars(Outcome(c))

-----------------------------------------------------------------------------
\* The atomics and the callers keep their shape; the breaker is never open
\* from a later instant than the clock's.
TypeOK ==
    /\ word \in Word
    /\ failures \in Nat
    /\ caller \in [Callers -> Caller]
    /\ now \in 0 .. MaxInstant
    /\ word.openedAt <= now

\* Whether c's request is under way and, if the word stays as it is, will
\* take it out of half-open.
WillDecide(c) ==
    \/ caller[c].pc \in {"sent", "close", "fail"}
    \/ caller[c].pc = "open" /\ caller[c].word = word

\* The probe is never lost: a half-open breaker, which refuses every new
\* request, always has a request under way that will close or reopen it,
\* whatever requests from before it opened succeed, fail or are dropped
\* meanwhile, and however their exchanges race.
ProbeNotLost ==
    word.state = "HalfOpen" =>
        \E c \in Callers : caller[c].role = "probe" /\ WillDecide(c)

\* A half-open breaker does not stay half-open for ever.
HalfOpenEnds == word.state = "HalfOpen" ~> word.state # "HalfOpen"

\* breaker.rs says that it is the probe's outcome that closes or reopens a
\* half-open breaker: the step that takes it out of half-open is a step of a
\* request that was let in as a probe.
ProbeDecides ==
    [][word.state = "HalfOpen" /\ word'.state # "HalfOpen" =>
          \E c \in Callers : caller[c].role = "probe" /\ caller'[c] = Idle]_vars
=============================================================================
