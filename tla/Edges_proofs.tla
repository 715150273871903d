---------------------------- MODULE Edges_proofs ----------------------------
(***************************************************************************)
(* Proofs about the edges of the process: a Breaker keeps its shape and    *)
(* never loses its probe, for any number of callers, any threshold and any *)
(* open_for; the webhook ingress has delivered what it acknowledged when   *)
(* the drain ends, for any number of updates and handlers, any sink, any   *)
(* proxies and any allowlist; and the consumer instances, ids and routes   *)
(* are those of the configuration in effect, for any files, environments   *)
(* and sequence of reloads.                                                *)
(***************************************************************************)
EXTENDS Breaker, Webhook, Generations, FiniteSetTheorems, TLAPS

-----------------------------------------------------------------------------
(* The circuit breaker.                                                    *)

\* Every caller was called, and loaded the word it remembers, at or before
\* the present: what makes TypeOK inductive, as open stores that instant.
PastOK ==
    \A c \in Callers : caller[c].at <= now /\ caller[c].word.openedAt <= now

BInv == TypeOK /\ PastOK /\ ProbeNotLost

\* A breaker starts closed, with nobody calling it.
LEMMA InitBInv == Init => BInv
BY BreakerAssumption
DEF Init, BInv, TypeOK, PastOK, ProbeNotLost, Word, Closed, Caller, Idle

\* A caller that moves on to a record of the right shape keeps them all so.
LEMMA SetShape ==
    ASSUME TypeOK, PastOK, NEW c \in Callers, NEW rec \in Caller,
           rec.at <= now, rec.word.openedAt <= now, Set(c, rec), now' = now
    PROVE  caller' \in [Callers -> Caller] /\ PastOK'
BY DEF TypeOK, PastOK, Set

\* Every operation on the two atomics keeps the shapes, and the instants in
\* the past.
LEMMA ShapeStep == TypeOK /\ PastOK /\ [Next]_vars => TypeOK' /\ PastOK'
<1> SUFFICES ASSUME TypeOK, PastOK, [Next]_vars PROVE TypeOK' /\ PastOK'
  OBVIOUS
<1>0. /\ word \in Word /\ word.openedAt <= now /\ now \in 0 .. MaxInstant
      /\ failures \in Nat /\ MaxInstant \in Nat /\ OpenFor \in Nat
      /\ Closed \in Word /\ Closed.openedAt = 0
      /\ Idle \in Caller /\ Idle.at = 0 /\ Idle.word.openedAt = 0
  BY BreakerAssumption DEF TypeOK, Closed, Word, Idle, Caller
<1>1. ASSUME NEW c \in Callers, Allow(c) \/ TakeProbe(c) \/ Outcome(c)
      PROVE  TypeOK' /\ PastOK'
  <2>0. /\ caller[c] \in Caller /\ caller[c].word \in Word
        /\ caller[c].at \in 0 .. MaxInstant
        /\ caller[c].at <= now /\ caller[c].word.openedAt <= now
    BY <1>1 DEF TypeOK, PastOK, Caller
  <2> DEFINE Fine(rec) == /\ rec \in Caller
                          /\ rec.at <= now
                          /\ rec.word.openedAt <= now
  <2>a. Fine(Idle) /\ Fine(caller[c])
    BY <1>0, <2>0
  <2>1. PICK rec : Set(c, rec) /\ Fine(rec)
    <3>1. CASE Allow(c)
      <4>1. Fine([Idle EXCEPT !.pc = "sent"])
        BY <1>0 DEF Caller
      <4>2. Fine([Idle EXCEPT !.pc = "swap", !.word = word])
        <5> DEFINE rec == [Idle EXCEPT !.pc = "swap", !.word = word]
        <5>1. rec \in Caller BY <1>0 DEF Caller
        <5>2. rec.at = 0 /\ rec.word = word BY <1>0 DEF Caller
        <5> QED BY <1>0, <5>1, <5>2
      <4>3. UNCHANGED caller => Set(c, caller[c])
        BY DEF Set, TypeOK
      <4> HIDE DEF Fine
      <4> QED BY <2>a, <3>1, <4>1, <4>2, <4>3 DEF Allow
    <3>2. CASE TakeProbe(c)
      <4>1. HalfOpen(word) \in Word /\ HalfOpen(word).openedAt = word.openedAt
        BY <1>0 DEF HalfOpen, Word
      <4>2. Fine([caller[c] EXCEPT !.pc = "sent", !.word = HalfOpen(word),
                                   !.role = "probe"])
        BY <1>0, <2>0, <4>1 DEF Caller
      <4> HIDE DEF Fine
      <4> QED BY <2>a, <3>2, <4>2 DEF TakeProbe
    <3>3. CASE OnSuccess(c) \/ Close(c) \/ Fail(c) \/ Drop(c)
      <4>1. Fine([caller[c] EXCEPT !.pc = "close"])
        BY <2>0 DEF Caller
      <4>2. Fine([caller[c] EXCEPT !.pc = "fail", !.at = now])
        <5> DEFINE rec == [caller[c] EXCEPT !.pc = "fail", !.at = now]
        <5>1. rec \in Caller BY <1>0, <2>0 DEF Caller
        <5>2. rec.at = now /\ rec.word = caller[c].word BY <2>0 DEF Caller
        <5> QED BY <1>0, <2>0, <5>1, <5>2
      <4> HIDE DEF Fine
      <4> QED BY <2>a, <3>3, <4>1, <4>2 DEF OnSuccess, Close, Fail, Drop
    <3>4. CASE OnFailure(c) \/ Count(c) \/ Open(c)
      <4>1. /\ Fine([caller[c] EXCEPT !.pc = "open", !.word = word])
            /\ Fine([caller[c] EXCEPT !.pc = "count", !.word = word])
        BY <1>0, <2>0 DEF Caller
      <4>2. Fine([caller[c] EXCEPT !.pc = "open"])
        BY <2>0 DEF Caller
      <4> HIDE DEF Fine
      <4> QED BY <2>a, <3>4, <4>1, <4>2 DEF OnFailure, Count, Open
    <3> QED BY <1>1, <3>1, <3>2, <3>3, <3>4 DEF Outcome
  <2>2. now' = now /\ failures' \in Nat
    BY <1>0, <1>1 DEF Allow, TakeProbe, Outcome, OnSuccess, Close, Fail, Drop,
       OnFailure, Count, Open
  <2>3. word' \in Word /\ word'.openedAt <= now
    <3>1. CASE TakeProbe(c)
      BY <1>0, <3>1 DEF TakeProbe, HalfOpen, Word
    <3>2. CASE Open(c)
      BY <1>0, <2>0, <3>2 DEF Open, Word
    <3>3. CASE Close(c)
      BY <1>0, <3>3 DEF Close
    <3> QED BY <1>0, <1>1, <3>1, <3>2, <3>3 DEF Allow, Outcome, OnSuccess, Fail,
       Drop, OnFailure, Count
  <2>4. caller' \in [Callers -> Caller] /\ PastOK'
    BY <2>1, <2>2, SetShape
  <2> QED BY <1>0, <2>2, <2>3, <2>4 DEF TypeOK
<1>2. CASE Tick
  <2>1. /\ now' \in 0 .. MaxInstant /\ now <= now'
        /\ UNCHANGED <<word, failures, caller>>
    BY <1>0, <1>2 DEF Tick
  <2>2. \A c \in Callers : caller[c].at \in Int /\ caller[c].word.openedAt \in Int
    BY <1>0 DEF TypeOK, Caller, Word
  <2> QED BY <1>0, <2>1, <2>2 DEF TypeOK, PastOK, Word
<1>3. CASE UNCHANGED vars
  BY <1>3 DEF vars, TypeOK, PastOK
<1> QED BY <1>1, <1>2, <1>3 DEF Next

\* No operation leaves a half-open breaker without a request that will take
\* it out of half-open: the exchange of allow makes its winner that request,
\* and each step of that request keeps it so or takes the breaker out.
LEMMA ProbeStep == TypeOK /\ ProbeNotLost /\ [Next]_vars => ProbeNotLost'
<1> SUFFICES ASSUME TypeOK, ProbeNotLost, [Next]_vars, word'.state = "HalfOpen"
             PROVE  \E c \in Callers : (caller[c].role = "probe" /\ WillDecide(c))'
  BY DEF ProbeNotLost
<1>1. ASSUME NEW c \in Callers, TakeProbe(c), word = caller[c].word
      PROVE  \E d \in Callers : (caller[d].role = "probe" /\ WillDecide(d))'
  <2>1. caller'[c].role = "probe" /\ caller'[c].pc = "sent"
    BY <1>1 DEF TakeProbe, Set, TypeOK, Caller
  <2> QED BY <2>1 DEF WillDecide
<1>2. CASE \A c \in Callers : TakeProbe(c) => word # caller[c].word
  <2>1. word' = word
    <3>1. ASSUME NEW c \in Callers, Open(c) PROVE word' = word
      BY <3>1 DEF Open
    <3>2. ASSUME NEW c \in Callers, Close(c) PROVE word' = word
      BY <3>2 DEF Close, Closed
    <3>3. ASSUME NEW c \in Callers, TakeProbe(c) PROVE word' = word
      BY <1>2, <3>3 DEF TakeProbe
    <3> QED BY <3>1, <3>2, <3>3
      DEF Next, Outcome, Allow, OnSuccess, Fail, Drop, OnFailure, Count, Tick, vars
  <2>2. PICK c \in Callers : caller[c].role = "probe" /\ WillDecide(c)
    BY <2>1 DEF ProbeNotLost
  <2>3. SUFFICES (caller[c].role = "probe" /\ WillDecide(c))'
    OBVIOUS
  <2>4. CASE caller'[c] = caller[c]
    BY <2>1, <2>2, <2>4 DEF WillDecide
  <2> USE <2>1, <2>2 DEF WillDecide, Set, TypeOK, Caller
  <2>5. CASE OnSuccess(c) BY <2>5 DEF OnSuccess
  <2>6. CASE Close(c) BY <2>6 DEF Close, Closed
  <2>7. CASE Fail(c) BY <2>7 DEF Fail
  <2>8. CASE Drop(c) BY <2>8 DEF Drop
  <2>9. CASE OnFailure(c) BY <2>9 DEF OnFailure
  <2>10. CASE Count(c) BY <2>10 DEF Count
  <2>11. CASE Open(c) BY <2>11 DEF Open
  <2>12. CASE Allow(c) \/ TakeProbe(c) BY <2>12 DEF Allow, TakeProbe
  <2>13. ASSUME NEW d \in Callers, d # c, Allow(d) \/ TakeProbe(d) \/ Outcome(d)
         PROVE  caller'[c] = caller[c]
    BY <2>13 DEF Allow, TakeProbe, Outcome, OnSuccess, Close, Fail, Drop,
       OnFailure, Count, Open
  <2>14. CASE Tick \/ UNCHANGED vars
    BY <2>4, <2>14 DEF Tick, vars
  <2> QED BY <2>4, <2>5, <2>6, <2>7, <2>8, <2>9, <2>10, <2>11, <2>12, <2>13,
             <2>14 DEF Next, Outcome
<1> QED BY <1>1, <1>2

\* The inductive invariant holds of every behaviour of the breaker.
THEOREM BreakerInvariance == Spec => []BInv
<1>1. BInv /\ [Next]_vars => BInv'
  BY ShapeStep, ProbeStep DEF BInv
<1> QED BY <1>1, InitBInv, PTL DEF Spec

\* Breaker.word and Breaker.failures keep their shape, and opened_at is
\* never later than the clock.
THEOREM BreakerTypeCorrect == Spec => []TypeOK
<1>1. BInv => TypeOK BY DEF BInv
<1> QED BY <1>1, BreakerInvariance, PTL

\* A half-open breaker always has a request under way that will close or
\* reopen it (allow, on_success, on_failure and Sending's Drop).
THEOREM ProbeCorrect == Spec => []ProbeNotLost
<1>1. BInv => ProbeNotLost BY DEF BInv
<1> QED BY <1>1, BreakerInvariance, PTL

-----------------------------------------------------------------------------
(* The webhook ingress against the drain.                                  *)

HookStates == {"none", "body", "read", "admit", "admitted", "answer"}
HookRecord == [pc : HookStates, update : Posts \cup {0}, status : Nat, fit : BOOLEAN]

\* The requests under way: they carry an update, and got past the checks on
\* the head only from an address that may post.
HooksOK ==
    /\ hook \in [Handlers -> HookRecord]
    /\ \A h \in Handlers : hook[h].pc # "none" => hook[h].update \in Posts
    /\ \A h \in Handlers : hook[h].pc \in {"body", "read", "admit", "admitted"} => hook[h].fit

\* The sink, the server and the shutdown.
SinkOK ==
    /\ held \in [Posts -> Nat]
    /\ toPost \subseteq Posts /\ acked \subseteq Posts
    /\ ingest \in BOOLEAN
    /\ ~ingest => shutdown = "no"

\* What the sink has of an update: nobody wants it, a copy is held, or a
\* consumer acked one.
Safe(u) == u \in Posts /\ (u \in Stray \cup delivered \/ held[u] > 0)

\* What the server forgot, is about to forget, or committed to the sink is safe.
SafeOK ==
    /\ \A u \in acked : Safe(u)
    /\ \A h \in Handlers : hook[h].status = 200 \/ hook[h].pc = "admitted" => Safe(hook[h].update)

\* Once the drain found nothing pending, what is forgotten is delivered.
DrainedOK ==
    shutdown = "drained" =>
        /\ acked \subseteq delivered \cup Stray
        /\ \A h \in Handlers : hook[h].status = 200 => hook[h].update \in delivered \cup Stray

HookInv == HooksOK /\ SinkOK /\ SafeOK /\ DrainedOK

\* A set of numbers that is not empty has a lowest member.
LEMMA LowestNat ==
    ASSUME NEW T \in SUBSET Nat, T # {}
    PROVE  \E x \in T : \A y \in T : x <= y
<1> DEFINE R == OpToRel(<, Nat)
<1>1. IsWellFoundedOn(R, Nat) BY NatLessThanWellFounded
<1>2. \A x, y \in Nat : <<y, x>> \in R <=> y < x BY DEF OpToRel
<1> HIDE DEF R
<1>3. PICK x \in T : \A y \in T : ~(<<y, x>> \in R) BY <1>1, WFMin
<1>4. ASSUME NEW y \in T PROVE x <= y
  <2>1. x \in Nat /\ y \in Nat OBVIOUS
  <2>2. ~(y < x) BY <1>2, <1>3, <2>1
  <2> QED BY <2>1, <2>2
<1> QED BY <1>4

\* Some positions of a sequence have a last one.
LEMMA LastPosition ==
    ASSUME NEW n \in Nat, NEW T \in SUBSET (1 .. n), T # {}
    PROVE  \E x \in T : \A y \in T : y <= x
<1> DEFINE back == {n - x : x \in T}
<1>1. \A x \in T : x \in 1 .. n /\ n - x \in Nat
  OBVIOUS
<1>2. back \in SUBSET Nat /\ back # {}
  BY <1>1
<1>3. PICK b \in back : \A c \in back : b <= c
  BY <1>2, LowestNat
<1>4. PICK x \in T : b = n - x
  BY <1>3
<1>5. ASSUME NEW y \in T PROVE y <= x
  <2>1. n - y \in back /\ x \in 1 .. n /\ y \in 1 .. n
    BY <1>1
  <2>2. n - x <= n - y
    BY <1>3, <1>4, <2>1
  <2> QED
    BY <2>1, <2>2
<1> QED
  BY <1>5

\* client_ip gives the address the update came from, the nearest on its way
\* that is not a trusted proxy, or no address at all.
LEMMA ClientIsSender ==
    ASSUME NEW head \in Heads
    PROVE  ClientIp(head) \in {{}, {CameFrom(head).ip}}
<1> DEFINE e == FlattenSeq(head.lines)
           n == Len(e)
           fwd == Append(e, head.peer)
           way == Reverse(fwd)
           strangers == {i \in DOMAIN way : way[i].ip \notin Proxies}
           told == {i \in DOMAIN e : e[i] = NoAddress \/ Canonical(e[i]) \notin Proxies}
           last == IF strangers = {} THEN Len(way) ELSE CHOOSE i \in strangers : \A j \in strangers : i <= j
           from == IF told = {} THEN 1 ELSE CHOOSE i \in told : \A j \in told : j <= i
<1>0. /\ e \in Seq(Address) /\ head.peer \in Address /\ n \in Nat
      /\ head.lines = <<>> <=> e = <<>>
      /\ Canonical(NoAddress) \notin Proxies
  BY HooksAssumption
<1>1. /\ fwd \in Seq(Address) /\ Len(fwd) = n + 1 /\ fwd[n + 1] = head.peer
      /\ \A i \in 1 .. n : fwd[i] = e[i]
  BY <1>0
<1> HIDE DEF e, n, fwd
<1>2. /\ DOMAIN way = 1 .. n + 1 /\ Len(way) = n + 1
      /\ way[1] = head.peer
      /\ \A i \in 2 .. n + 1 : way[i] = e[n + 2 - i]
  <2>1. PICK m : m = Len(fwd)
    OBVIOUS
  <2>2. m = n + 1 /\ m \in Nat
    BY <1>0, <1>1, <2>1
  <2>3. way = [i \in 1 .. m |-> fwd[m - i + 1]]
    BY <2>1 DEF Reverse
  <2> HIDE DEF way
  <2>4. DOMAIN way = 1 .. m /\ Len(way) = m /\ \A i \in 1 .. m : way[i] = fwd[m - i + 1]
    BY <2>2, <2>3
  <2>5. m - 1 + 1 = n + 1 /\ 1 \in 1 .. m
    BY <1>0, <2>2
  <2>6. way[1] = head.peer
    BY <1>1, <2>4, <2>5
  <2>7. \A i \in 2 .. n + 1 : i \in 1 .. m /\ m - i + 1 = n + 2 - i /\ n + 2 - i \in 1 .. n
    BY <1>0, <2>2
  <2> QED
    BY <1>1, <2>2, <2>4, <2>6, <2>7
<1>3. DOMAIN e = 1 .. n
  BY <1>0 DEF n
<1> HIDE DEF way
<1>4. CameFrom(head) = way[last]
  BY DEF CameFrom, way, fwd, e
<1>5. CASE Canonical(head.peer) \notin Proxies
  <2>1. 1 \in strangers /\ strangers \subseteq 1 .. n + 1
    BY <1>0, <1>2, <1>5 DEF Canonical
  <2>2. 1 \in strangers /\ \A j \in strangers : 1 <= j
    BY <1>0, <2>1
  <2>3. last \in strangers /\ \A j \in strangers : last <= j
    BY <2>2
  <2>4. last = 1
    BY <1>0, <2>1, <2>2, <2>3
  <2> QED
    BY <1>2, <1>4, <1>5, <2>4 DEF ClientIp, Canonical
<1>6. CASE Canonical(head.peer) \in Proxies /\ head.lines = <<>>
  <2>1. n = 0
    BY <1>0, <1>6 DEF n
  <2>2. last = 1
    <3>1. strangers = {}
      BY <1>2, <1>6, <2>1 DEF Canonical
    <3> QED
      BY <1>2, <2>1, <3>1
  <2> QED
    BY <1>2, <1>4, <1>6, <2>2 DEF ClientIp, Canonical
<1>7. CASE Canonical(head.peer) \in Proxies /\ head.lines # <<>>
  <2>0. n \in Nat /\ n # 0
    BY <1>0, <1>7 DEF n
  <2>1. told = {i \in 1 .. n : e[i].ip \notin Proxies}
    BY <1>0, <1>3 DEF Canonical
  <2>2. \A i \in 1 .. n + 1 : i \in strangers <=> i \in 2 .. n + 1 /\ n + 2 - i \in told
    <3>1. 1 \notin strangers
      BY <1>2, <1>7 DEF Canonical
    <3>2. ASSUME NEW i \in 2 .. n + 1 PROVE i \in strangers <=> n + 2 - i \in told
      <4>1. n + 2 - i \in 1 .. n /\ i \in 1 .. n + 1
        BY <2>0
      <4> QED
        BY <1>2, <2>1, <4>1
    <3>3. \A i \in 1 .. n + 1 : i = 1 \/ i \in 2 .. n + 1
      BY <2>0
    <3> QED
      BY <2>0, <3>1, <3>2, <3>3
  <2>3. strangers \subseteq 1 .. n + 1 /\ told \subseteq 1 .. n
    BY <1>2, <2>1
  <2>4. last = n + 2 - from /\ from \in 1 .. n
    <3>1. CASE told = {}
      <4>1. strangers = {}
        BY <2>2, <2>3, <3>1
      <4> QED
        BY <1>2, <2>0, <3>1, <4>1
    <3>2. CASE told # {}
      <4> HIDE DEF told, strangers
      <4>1. \E x \in told : \A y \in told : y <= x
        BY <2>0, <2>3, <3>2, LastPosition
      <4>2. from \in told /\ \A j \in told : j <= from
        BY <3>2, <4>1
      <4> HIDE DEF from
      <4>3. from \in 1 .. n
        BY <2>3, <4>2
      <4>4. n + 2 - from \in 2 .. n + 1 /\ n + 2 - (n + 2 - from) = from /\ n + 2 - from \in 1 .. n + 1
        BY <2>0, <4>3
      <4>5. n + 2 - from \in strangers
        BY <2>2, <4>2, <4>4
      <4>6. ASSUME NEW j \in strangers PROVE n + 2 - from <= j
        <5>1. j \in 2 .. n + 1 /\ n + 2 - j \in told
          BY <2>2, <2>3
        <5>2. n + 2 - j <= from
          BY <4>2, <5>1
        <5> QED
          BY <2>0, <4>3, <5>1, <5>2
      <4>7. strangers # {}
        BY <4>5
      <4>8. last \in strangers /\ \A j \in strangers : last <= j
        BY <4>5, <4>6, <4>7
      <4> HIDE DEF last
      <4>9. last \in 1 .. n + 1
        BY <2>3, <4>8
      <4>10. last <= n + 2 - from /\ n + 2 - from <= last
        BY <4>5, <4>6, <4>8
      <4> QED
        BY <2>0, <4>3, <4>9, <4>10
    <3> QED
      BY <3>1, <3>2
  <2> HIDE DEF last, from
  <2>5. way[last] = e[from]
    <3>1. last \in 2 .. n + 1 /\ n + 2 - last = from
      BY <2>0, <2>4
    <3> QED
      BY <1>2, <3>1
  <2>6. ClientIp(head) = IF e[from] = NoAddress THEN {} ELSE {Canonical(e[from])}
    BY <1>7 DEF ClientIp, ForwardedClient, e, from
  <2> QED
    BY <1>4, <2>5, <2>6 DEF Canonical
<1> QED
  BY <1>5, <1>6, <1>7


\* A request that gets past the checks on its head came from an address of the
\* allowlist.
LEMMA AllowedIsFit ==
    ASSUME NEW head \in Heads, AddressAllowed(head)
    PROVE  \A ips \in AllowList : CameFrom(head).ip \in ips
BY ClientIsSender DEF AddressAllowed

\* A handler answers about its update.
LEMMA HookAnswers ==
    ASSUME HooksOK, NEW h \in Handlers, NEW s \in Nat, AnsweredWith(h, s)
    PROVE  /\ hook' \in [Handlers -> HookRecord]
           /\ hook'[h].pc = "answer" /\ hook'[h].status = s
           /\ hook'[h].update = hook[h].update
           /\ \A x \in Handlers \ {h} : hook'[x] = hook[x]
<1>1. hook \in [Handlers -> HookRecord] /\ hook[h] \in HookRecord
  BY DEF HooksOK
<1>2. PICK r : r = [hook[h] EXCEPT !.pc = "answer", !.status = s]
  OBVIOUS
<1>3. "answer" \in HookStates
  BY DEF HookStates
<1>4. r \in HookRecord /\ r.pc = "answer" /\ r.status = s /\ r.update = hook[h].update
  BY <1>1, <1>2, <1>3 DEF HookRecord
<1>5. hook' = [hook EXCEPT ![h] = r]
  BY <1>1, <1>2 DEF AnsweredWith
<1> QED
  BY <1>1, <1>4, <1>5

\* A handler moves on with its update.
LEMMA HookGoesOn ==
    ASSUME HooksOK, NEW h \in Handlers, NEW p \in HookStates,
           hook' = [hook EXCEPT ![h].pc = p]
    PROVE  /\ hook' \in [Handlers -> HookRecord]
           /\ hook'[h].pc = p /\ hook'[h].status = hook[h].status
           /\ hook'[h].update = hook[h].update /\ hook'[h].fit = hook[h].fit
           /\ \A x \in Handlers \ {h} : hook'[x] = hook[x]
<1>1. hook \in [Handlers -> HookRecord] /\ hook[h] \in HookRecord
  BY DEF HooksOK
<1>2. PICK r : r = [hook[h] EXCEPT !.pc = p]
  OBVIOUS
<1>3. r \in HookRecord /\ r.pc = p /\ r.status = hook[h].status /\ r.update = hook[h].update /\ r.fit = hook[h].fit
  BY <1>1, <1>2 DEF HookRecord
<1>4. hook' = [hook EXCEPT ![h] = r]
  BY <1>1, <1>2
<1> QED
  BY <1>1, <1>3, <1>4

\* One handler's step that leaves the sink alone keeps the invariant when what
\* it tells the server is safe.
LEMMA HandlerStep ==
    ASSUME HookInv, NEW h \in Handlers,
           hook' \in [Handlers -> HookRecord],
           \A x \in Handlers \ {h} : hook'[x] = hook[x],
           hook'[h].pc # "none" => hook'[h].update \in Posts,
           hook'[h].pc \in {"body", "read", "admit", "admitted"} => hook'[h].fit,
           hook'[h].status = 200 \/ hook'[h].pc = "admitted" => Safe(hook'[h].update),
           shutdown = "drained" /\ hook'[h].status = 200 => hook'[h].update \in delivered \cup Stray,
           toPost' \subseteq Posts, UNCHANGED <<acked, ingest, held, delivered, shutdown>>
    PROVE  HookInv'
<1>1. \A x \in Handlers : x = h \/ hook'[x] = hook[x]
  OBVIOUS
<1>2. HooksOK'
  BY <1>1 DEF HookInv, HooksOK
<1>3. SinkOK'
  BY DEF HookInv, SinkOK
<1>4. \A u : Safe(u) => Safe(u)'
  BY DEF Safe
<1>5. SafeOK'
  BY <1>1, <1>4 DEF HookInv, SafeOK, Safe
<1>6. DrainedOK'
  BY <1>1 DEF HookInv, DrainedOK
<1> QED
  BY <1>2, <1>3, <1>5, <1>6 DEF HookInv

\* Any answer but 200 keeps the invariant.
LEMMA PlainAnswer ==
    ASSUME HookInv, NEW h \in Handlers, NEW s \in {400, 413, 503}, AnsweredWith(h, s),
           hook[h].update \in Posts,
           UNCHANGED <<toPost, acked, ingest, held, delivered, shutdown>>
    PROVE  HookInv'
<1>1. s \in Nat /\ s # 200
  OBVIOUS
<1>3. HooksOK
  BY DEF HookInv
<1>4. /\ hook' \in [Handlers -> HookRecord]
      /\ hook'[h].pc = "answer" /\ hook'[h].status = s
      /\ hook'[h].update = hook[h].update
      /\ \A x \in Handlers \ {h} : hook'[x] = hook[x]
  BY <1>1, <1>3, HookAnswers
<1>5. "answer" # "admitted" /\ ~("answer" \in {"body", "read", "admit", "admitted"})
  OBVIOUS
<1>6. toPost' \subseteq Posts
  BY DEF HookInv, SinkOK
<1> QED
  BY <1>1, <1>4, <1>5, <1>6, HandlerStep

\* The checks on the head let a request in with its update and nothing told.
LEMMA PostInv ==
    ASSUME HookInv, NEW h \in Handlers, NEW u \in toPost, NEW head \in Heads, Post(h, u, head)
    PROVE  HookInv'
<1> DEFINE fit == \A ips \in AllowList : CameFrom(head).ip \in ips
           pc == IF AddressAllowed(head) /\ SecretMatches(head) /\ ~ingest THEN "body" ELSE "answer"
           st == IF ~AddressAllowed(head) THEN 403 ELSE IF ~SecretMatches(head) THEN 401 ELSE 503
<1>1. hook' = [hook EXCEPT ![h] = [update |-> u, fit |-> fit, pc |-> pc, status |-> st]]
  BY DEF Post
<1>2. u \in Posts
  BY DEF HookInv, SinkOK
<1>3. pc \in {"body", "answer"} /\ (pc = "body" => fit)
  BY AllowedIsFit
<1>4. st \in {403, 401, 503}
  OBVIOUS
<1>5. fit \in BOOLEAN
  OBVIOUS
<1> HIDE DEF fit, pc, st
<1>6. st \in Nat /\ st # 200
  BY <1>4
<1>7. pc \in HookStates /\ pc # "admitted" /\ pc # "none"
  BY <1>3 DEF HookStates
<1>8. PICK r : r = [update |-> u, fit |-> fit, pc |-> pc, status |-> st]
  OBVIOUS
<1>9. r \in HookRecord /\ r.update = u /\ r.fit = fit /\ r.pc = pc /\ r.status = st
  BY <1>2, <1>5, <1>6, <1>7, <1>8 DEF HookRecord
<1>10. /\ hook' \in [Handlers -> HookRecord] /\ hook'[h] = r
       /\ \A x \in Handlers \ {h} : hook'[x] = hook[x]
  BY <1>1, <1>8, <1>9 DEF HookInv, HooksOK
<1>11. toPost' \subseteq Posts /\ UNCHANGED <<acked, ingest, held, delivered, shutdown>>
  BY DEF Post, HookInv, SinkOK
<1>12. hook'[h].pc \in {"body", "read", "admit", "admitted"} => hook'[h].fit
  BY <1>3, <1>9, <1>10
<1>13. hook'[h].update \in Posts /\ hook'[h].status # 200 /\ hook'[h].pc # "admitted"
  BY <1>2, <1>6, <1>7, <1>9, <1>10
<1> QED
  BY <1>10, <1>11, <1>12, <1>13, HandlerStep

\* read_body, and the look at ingest after it.
LEMMA BodyInv ==
    ASSUME HookInv, NEW h \in Handlers, ReadBody(h) \/ LookAgain(h)
    PROVE  HookInv'
<1>1. /\ UNCHANGED <<toPost, acked, ingest, held, delivered, shutdown>>
      /\ hook[h].pc \in {"body", "read"}
  BY DEF ReadBody, LookAgain
<1>2. hook[h].update \in Posts /\ hook[h].fit /\ HooksOK
  BY <1>1 DEF HookInv, HooksOK
<1>3. ASSUME NEW s \in {400, 413, 503}, AnsweredWith(h, s) PROVE HookInv'
  BY <1>1, <1>2, <1>3, PlainAnswer
<1>4. ASSUME NEW p \in {"read", "admit"}, hook' = [hook EXCEPT ![h].pc = p] PROVE HookInv'
  <2>1. p \in HookStates /\ p # "admitted"
    BY DEF HookStates
  <2>2. /\ hook' \in [Handlers -> HookRecord]
        /\ hook'[h].pc = p /\ hook'[h].status = hook[h].status
        /\ hook'[h].update = hook[h].update /\ hook'[h].fit = hook[h].fit
        /\ \A x \in Handlers \ {h} : hook'[x] = hook[x]
    BY <1>2, <1>4, <2>1, HookGoesOn
  <2>3. hook[h].status = 200 => Safe(hook[h].update) /\ (shutdown = "drained" => hook[h].update \in delivered \cup Stray)
    BY DEF HookInv, SafeOK, DrainedOK
  <2>4. toPost' \subseteq Posts
    BY <1>1 DEF HookInv, SinkOK
  <2> QED
    BY <1>1, <1>2, <2>1, <2>2, <2>3, <2>4, HandlerStep
<1>5. CASE ReadBody(h)
  BY <1>3, <1>4, <1>5 DEF ReadBody
<1>6. CASE LookAgain(h)
  BY <1>3, <1>4, <1>6 DEF LookAgain
<1> QED
  BY <1>5, <1>6

\* A 200 about an update that is safe, and delivered or stray if the drain is
\* over, keeps the invariant.
LEMMA GoodAnswer ==
    ASSUME HookInv, NEW h \in Handlers, AnsweredWith(h, 200), Safe(hook[h].update),
           shutdown = "drained" => hook[h].update \in delivered \cup Stray,
           UNCHANGED <<toPost, acked, ingest, held, delivered, shutdown>>
    PROVE  HookInv'
<1>1. 200 \in Nat
  OBVIOUS
<1>3. HooksOK
  BY DEF HookInv
<1>4. /\ hook' \in [Handlers -> HookRecord]
      /\ hook'[h].pc = "answer" /\ hook'[h].status = 200
      /\ hook'[h].update = hook[h].update
      /\ \A x \in Handlers \ {h} : hook'[x] = hook[x]
  BY <1>1, <1>3, HookAnswers
<1>5. "answer" # "admitted" /\ ~("answer" \in {"body", "read", "admit", "admitted"})
  OBVIOUS
<1>6. toPost' \subseteq Posts /\ hook[h].update \in Posts
  BY DEF HookInv, SinkOK, Safe
<1> QED
  BY <1>4, <1>5, <1>6, HandlerStep

\* sink.admit: nobody wants the update, there is no room, or a copy is held.
LEMMA OfferInv ==
    ASSUME HookInv, NEW h \in Handlers, Offer(h)
    PROVE  HookInv'
<1>1. /\ hook[h].pc = "admit" /\ hook[h].update \in Posts /\ hook[h].fit /\ HooksOK
      /\ UNCHANGED <<toPost, acked, ingest, delivered, shutdown>>
  BY DEF Offer, HookInv, HooksOK
<1>2. CASE hook[h].update \in Stray /\ AnsweredWith(h, 200) /\ UNCHANGED held
  <2>1. Safe(hook[h].update)
    BY <1>1, <1>2 DEF Safe
  <2> QED
    BY <1>1, <1>2, <2>1, GoodAnswer
<1>3. CASE AnsweredWith(h, 503) /\ UNCHANGED held
  BY <1>1, <1>3, PlainAnswer
<1>4. CASE /\ held' = [held EXCEPT ![hook[h].update] = @ + 1]
           /\ hook' = [hook EXCEPT ![h].pc = "admitted"]
  <2>0. "admitted" \in HookStates
    BY DEF HookStates
  <2>1. /\ hook' \in [Handlers -> HookRecord]
        /\ hook'[h].pc = "admitted" /\ hook'[h].status = hook[h].status
        /\ hook'[h].update = hook[h].update /\ hook'[h].fit = hook[h].fit
        /\ \A x \in Handlers \ {h} : hook'[x] = hook[x]
    BY <1>1, <1>4, <2>0, HookGoesOn
  <2>2. /\ held' \in [Posts -> Nat]
        /\ held'[hook[h].update] > 0
        /\ \A u \in Posts : held[u] > 0 => held'[u] > 0
    BY <1>1, <1>4 DEF HookInv, SinkOK
  <2>3. \A x \in Handlers : x = h \/ hook'[x] = hook[x]
    BY <2>1
  <2>4. HooksOK'
    BY <1>1, <2>1, <2>3 DEF HooksOK
  <2>5. SinkOK'
    BY <1>1, <2>2 DEF HookInv, SinkOK
  <2>6. \A u : Safe(u) => Safe(u)'
    BY <1>1, <2>2 DEF Safe
  <2>7. \A x \in Handlers : hook'[x].update = hook[x].update /\ hook'[x].status = hook[x].status
    BY <2>1, <2>3
  <2>8. SafeOK'
    <3>1. ASSUME NEW u \in acked' PROVE Safe(u)'
      BY <1>1, <2>6 DEF HookInv, SafeOK
    <3>2. ASSUME NEW x \in Handlers, hook'[x].status = 200 \/ hook'[x].pc = "admitted"
          PROVE  hook'[x].update \in Posts /\ (hook'[x].update \in Stray \cup delivered' \/ held'[hook'[x].update] > 0)
      <4>1. CASE x = h
        BY <1>1, <2>1, <2>2, <4>1
      <4>2. CASE x # h
        <5>1. Safe(hook[x].update)
          BY <2>3, <3>2, <4>2 DEF HookInv, SafeOK
        <5> QED
          BY <1>1, <2>2, <2>7, <5>1 DEF Safe
      <4> QED
        BY <4>1, <4>2
    <3> QED
      BY <3>1, <3>2 DEF SafeOK, Safe
  <2>9. DrainedOK'
    BY <1>1, <2>7 DEF HookInv, DrainedOK
  <2> QED
    BY <2>4, <2>5, <2>8, <2>9 DEF HookInv
<1> QED
  BY <1>2, <1>3, <1>4 DEF Offer

\* The answer after the commit: 200 only if ingest still runs, and then the
\* drain is yet to come.
LEMMA AcknowledgeInv ==
    ASSUME HookInv, NEW h \in Handlers, Acknowledge(h)
    PROVE  HookInv'
<1>1. /\ hook[h].pc = "admitted" /\ hook[h].update \in Posts /\ Safe(hook[h].update)
      /\ UNCHANGED <<toPost, acked, ingest, held, delivered, shutdown>>
  BY DEF Acknowledge, HookInv, HooksOK, SafeOK
<1>2. CASE ingest
  <2>1. AnsweredWith(h, 503)
    BY <1>2 DEF Acknowledge
  <2> QED
    BY <1>1, <2>1, PlainAnswer
<1>3. CASE ~ingest
  <2>1. AnsweredWith(h, 200)
    BY <1>3 DEF Acknowledge
  <2>2. shutdown # "drained"
    BY <1>3 DEF HookInv, SinkOK
  <2> QED
    BY <1>1, <2>1, <2>2, GoodAnswer
<1> QED
  BY <1>2, <1>3

\* The server gets the answer, or posts again.
LEMMA AnsweredInv ==
    ASSUME HookInv, NEW h \in Handlers, Answered(h)
    PROVE  HookInv'
<1>0. 0 \in Nat /\ 0 # 200 /\ "none" \in HookStates
  BY DEF HookStates
<1>1. Quiet \in HookRecord /\ Quiet.pc = "none" /\ Quiet.status # 200
  BY <1>0 DEF Quiet, HookRecord
<1>2. /\ hook' \in [Handlers -> HookRecord] /\ hook'[h] = Quiet
      /\ \A x \in Handlers \ {h} : hook'[x] = hook[x]
  BY <1>1 DEF Answered, HookInv, HooksOK
<1>3. /\ hook[h].update \in Posts
      /\ UNCHANGED <<ingest, held, delivered, shutdown>>
  BY DEF Answered, HookInv, HooksOK
<1>4. /\ toPost' \subseteq Posts /\ acked' \subseteq Posts
      /\ \A u \in acked' : u \in acked \/ (u = hook[h].update /\ hook[h].status = 200)
  BY <1>3 DEF Answered, HookInv, SinkOK
<1>5. HooksOK' /\ SinkOK'
  BY <1>1, <1>2, <1>3, <1>4 DEF HookInv, HooksOK, SinkOK
<1>6. SafeOK'
  BY <1>1, <1>2, <1>3, <1>4 DEF HookInv, SafeOK, Safe
<1>7. DrainedOK'
  BY <1>1, <1>2, <1>3, <1>4 DEF HookInv, DrainedOK
<1> QED
  BY <1>5, <1>6, <1>7 DEF HookInv

\* A consumer acks a copy: it is delivered.
LEMMA DeliverInv ==
    ASSUME HookInv, NEW u \in Posts, Deliver(u)
    PROVE  HookInv'
<1>1. /\ UNCHANGED <<hook, toPost, acked, ingest, shutdown>>
      /\ delivered' = delivered \cup {u}
      /\ held' \in [Posts -> Nat]
      /\ \A x \in Posts \ {u} : held'[x] = held[x]
  BY DEF Deliver, HookInv, SinkOK
<1>2. \A x : Safe(x) => Safe(x)'
  BY <1>1 DEF Safe
<1>3. SafeOK'
  BY <1>1, <1>2 DEF HookInv, SafeOK, Safe
<1> QED
  BY <1>1, <1>3 DEF HookInv, HooksOK, SinkOK, DrainedOK

\* Nothing pending means that no copy of any update is held.
LEMMA NothingPending ==
    ASSUME HookInv, Pending = 0, NEW u \in Posts
    PROVE  held[u] = 0
<1>1. held \in [Posts -> Nat] /\ held[u] \in Nat
  BY DEF HookInv, SinkOK
<1> DEFINE g == [x \in Posts |-> {x} \X (1 .. held[x])]
           T == {g[x] : x \in Posts}
<1>2. g \in Surjection(Posts, T)
  BY DEF Surjection
<1>3. IsFiniteSet(T)
  BY <1>2, HooksAssumption, FS_Surjection
<1>4. ASSUME NEW x \in Posts PROVE IsFiniteSet(g[x])
  <2>1. 1 \in Int /\ held[x] \in Int
    BY <1>1
  <2>2. IsFiniteSet(1 .. held[x]) /\ IsFiniteSet({x})
    BY <2>1, FS_Interval, FS_Singleton
  <2>3. g[x] = {x} \X (1 .. held[x])
    OBVIOUS
  <2> QED
    BY <2>2, <2>3, FS_Product
<1>5. IsFiniteSet(UNION T)
  BY <1>3, <1>4, FS_UNION
<1>6. Units(held) = UNION T
  BY <1>1 DEF Units
<1>7. Units(held) = {}
  BY <1>5, <1>6, FS_EmptySet DEF Pending, Total
<1>8. ASSUME held[u] # 0 PROVE FALSE
  <2>1. 1 \in 1 .. held[u]
    BY <1>1, <1>8
  <2>2. <<u, 1>> \in {u} \X (1 .. held[u])
    BY <2>1
  <2>3. <<u, 1>> \in Units(held)
    BY <1>1, <2>2 DEF Units
  <2> QED
    BY <1>7, <2>3
<1> QED
  BY <1>8

\* The shutdown cancels ingest, and closes on a look that finds nothing
\* pending, or when its grace is spent.
LEMMA ShutdownInv ==
    ASSUME HookInv, IngestOff \/ CloseHooks
    PROVE  HookInv'
<1>1. UNCHANGED <<hook, toPost, acked, held, delivered>>
  BY DEF IngestOff, CloseHooks
<1>2. HooksOK' /\ SafeOK'
  BY <1>1 DEF HookInv, HooksOK, SafeOK, Safe
<1>3. SinkOK'
  BY <1>1 DEF HookInv, SinkOK, IngestOff, CloseHooks
<1>4. DrainedOK'
  <2>1. SUFFICES ASSUME shutdown' = "drained" PROVE DrainedOK'
    BY DEF DrainedOK
  <2>2. Pending = 0
    BY <2>1 DEF IngestOff, CloseHooks
  <2>3. \A u \in Posts : ~(held[u] > 0)
    BY <2>2, NothingPending
  <2>4. \A u : Safe(u) => u \in delivered \cup Stray
    BY <2>3 DEF Safe
  <2> QED
    BY <1>1, <2>4 DEF HookInv, SafeOK, DrainedOK
<1> QED
  BY <1>2, <1>3, <1>4 DEF HookInv

\* Every update the Bot API server was told 200 for is delivered when the drain
\* ends with nothing pending, for any number of updates and handlers, any sink
\* and any proxies and allowlist; and only addresses of the allowlist post.
THEOREM AcknowledgedCorrect == WebhookSpec => []AcknowledgedDelivered
<1>1. WebhookInit => HookInv
  <2> SUFFICES ASSUME WebhookInit PROVE HookInv OBVIOUS
  <2>0. 0 \in Nat /\ 0 # 200 /\ "none" \in HookStates
    BY DEF HookStates
  <2>1. Quiet \in HookRecord /\ Quiet.pc = "none" /\ Quiet.status # 200
    BY <2>0 DEF Quiet, HookRecord
  <2>2. hook \in [Handlers -> HookRecord] /\ \A h \in Handlers : hook[h] = Quiet
    BY <2>1 DEF WebhookInit
  <2> QED
    BY <2>0, <2>1, <2>2 DEF WebhookInit, HookInv, HooksOK, SinkOK, SafeOK, DrainedOK
<1>2. HookInv /\ [WebhookNext]_webhookVars => HookInv'
  <2> SUFFICES ASSUME HookInv, [WebhookNext]_webhookVars PROVE HookInv' OBVIOUS
  <2>1. CASE UNCHANGED webhookVars
    BY <2>1 DEF webhookVars, HookInv, HooksOK, SinkOK, SafeOK, DrainedOK, Safe
  <2> QED
    BY <2>1, PostInv, BodyInv, OfferInv, AcknowledgeInv, AnsweredInv, DeliverInv, ShutdownInv
    DEF WebhookNext
<1>3. HookInv => AcknowledgedDelivered
  BY DEF HookInv, HooksOK, DrainedOK, AcknowledgedDelivered
<1> QED
  BY <1>1, <1>2, <1>3, PTL DEF WebhookSpec

-----------------------------------------------------------------------------
(* What a reload leaves running.                                           *)

Configs == UNION {LoadFile(f, env) : f \in Files \cup Changes, env \in Environments}
BotNames == UNION {NamesOf(c.bots) : c \in Configs}
PullNames(c) == {x.name : x \in Pulls(c)}
Targeted == {targets[n] : n \in DOMAIN targets}

\* There is at most one configuration, and it was loaded.
ConfInv ==
    /\ conf \subseteq Configs
    /\ \A c, d \in conf : c = d
    /\ loads \in Nat

\* The ids of the bots of the configuration.
IdsInv ==
    /\ ids \in Seq(BotNames)
    /\ conf = {} => DOMAIN sources = {}
    /\ \A c \in conf : DOMAIN sources = NamesOf(c.bots)
    /\ \A n \in DOMAIN sources :
           /\ sources[n] \in DOMAIN ids /\ ids[sources[n]] = n
           /\ \A i \in DOMAIN ids : ids[i] = n => i <= sources[n]

\* The instances: those of the configuration's consumers bear their names, and
\* all are of an earlier load than the next.
SlotsInv ==
    /\ conf = {} => DOMAIN targets = {} /\ retired = {}
    /\ \A c \in conf : DOMAIN targets = NamesOf(c.consumers)
    /\ \A n \in DOMAIN targets : targets[n][1] = n /\ targets[n] \notin retired
    /\ \A s \in Targeted \cup retired : s \in DOMAIN slots /\ s[2] \in Nat /\ s[2] < loads

\* What the process was set up with has the settings a report may name.
BootInv ==
    /\ \A a, b \in booted : a = b
    /\ \A b \in booted : DOMAIN b = {"listen", "connections", "header", "tls", "admin", "threads", "format"}

\* The paths the configuration gives away.
Taken(c) == {a[1] : a \in AliasesOf(c)} \cup WebhookPaths(c)

\* The pull consumers that are no longer configured and drain.
Former(c) == {s[1] : s \in {r \in retired : slots[r].mode = "pull"}} \ PullNames(c)

\* The routes serve consumer n with what it had.
ServedAsHad(n) ==
    /\ n \in DOMAIN served.auth /\ served.auth[n] = had[n].auth
    /\ \A p \in had[n].paths : <<p, n>> \in served.aliases

\* The history has what the configuration says of pull consumer n.
HadAsWritten(c, n) ==
    /\ had[n].auth = (CHOOSE x \in Pulls(c) : x.name = n).auth
    /\ \A p \in had[n].paths : <<p, n>> \in AliasesOf(c)

\* The routes, up to date or a commit behind.
RoutesInv ==
    /\ \A c \in conf : PullNames(c) \cup Former(c) \subseteq DOMAIN had
    /\ \A c \in conf : \A n \in PullNames(c) : HadAsWritten(c, n)
    /\ \A c \in conf : \A n \in Former(c) : had[n].paths \cap Taken(c) = {}
    /\ \A c \in conf, b \in booted : b.listen # {} =>
           /\ \A x, y \in served.aliases : x[1] = y[1] => x = y
           /\ \A n \in Former(c) : ServedAsHad(n)
           /\ ~behind => \A n \in PullNames(c) : ServedAsHad(n)
           /\ ~behind /\ c.server # {} => {a[1] : a \in served.aliases} \cap WebhookPaths(c) = {}

GenInv == ConfInv /\ IdsInv /\ SlotsInv /\ BootInv /\ RoutesInv /\ InstancesAsWritten /\ RestartsReported

\* The order of some positions numbers them from 1 without a gap.
LEMMA RankBijection ==
    ASSUME NEW S \in SUBSET Nat, IsFiniteSet(S)
    PROVE  /\ Cardinality(S) \in Nat
           /\ \A i \in S : Rank(i, S) \in 1 .. Cardinality(S)
           /\ \A i, j \in S : Rank(i, S) = Rank(j, S) => i = j
           /\ \A k \in 1 .. Cardinality(S) : \E i \in S : Rank(i, S) = k
<1>0. Cardinality(S) \in Nat
  BY FS_CardinalityType
<1> DEFINE up(i) == {j \in S : j <= i}
<1>1. ASSUME NEW i \in S
      PROVE  IsFiniteSet(up(i)) /\ Cardinality(up(i)) \in Nat /\ Cardinality(up(i)) <= Cardinality(S)
  <2>1. up(i) \in SUBSET S
    OBVIOUS
  <2> HIDE DEF up
  <2>2. IsFiniteSet(up(i)) /\ Cardinality(up(i)) <= Cardinality(S)
    BY <2>1, FS_Subset
  <2> QED
    BY <2>2, FS_CardinalityType
<1>2. ASSUME NEW i \in S PROVE Cardinality(up(i)) # 0
  <2>1. i \in up(i)
    OBVIOUS
  <2>2. up(i) # {}
    BY <2>1
  <2> HIDE DEF up
  <2> QED
    BY <1>1, <2>2, FS_EmptySet
<1>3. ASSUME NEW i \in S, NEW j \in S, i < j PROVE Cardinality(up(i)) # Cardinality(up(j))
  <2>0. i \in Nat /\ j \in Nat /\ \A x \in S : x \in Nat
    OBVIOUS
  <2>1. ASSUME NEW x \in up(i) PROVE x \in up(j)
    <3>1. x \in S /\ x \in Nat /\ x <= i
      BY <2>0
    <3>2. x <= j
      BY <1>3, <2>0, <3>1
    <3> QED
      BY <3>1, <3>2
  <2>2. j \in up(j) /\ j \notin up(i)
    BY <1>3
  <2>3. up(i) # up(j)
    BY <2>2
  <2> HIDE DEF up
  <2> QED
    BY <1>1, <2>1, <2>3, FS_Subset
<1>4. \A i \in S : Rank(i, S) = Cardinality(up(i))
  BY DEF Rank
<1> HIDE DEF up
<1>5. \A i \in S : Rank(i, S) \in 1 .. Cardinality(S)
  <2>1. ASSUME NEW i \in S PROVE Rank(i, S) \in 1 .. Cardinality(S)
    <3>1. Cardinality(up(i)) \in Nat /\ Cardinality(up(i)) <= Cardinality(S) /\ Cardinality(up(i)) # 0
      BY <1>1, <1>2
    <3> QED
      BY <1>0, <1>4, <3>1
  <2> QED
    BY <2>1
<1>6. ASSUME NEW i \in S, NEW j \in S, Rank(i, S) = Rank(j, S) PROVE i = j
  <2>1. i \in Nat /\ j \in Nat
    OBVIOUS
  <2>2. ~(i < j) /\ ~(j < i)
    BY <1>3, <1>4, <1>6
  <2> QED
    BY <2>1, <2>2
<1> DEFINE T == 1 .. Cardinality(S)
           f == [i \in S |-> Rank(i, S)]
<1>7. f \in Injection(S, T)
  BY <1>5, <1>6 DEF Injection, IsInjective
<1>8. IsFiniteSet(T) /\ Cardinality(T) = Cardinality(S)
  <2>1. 1 \in Int /\ Cardinality(S) \in Int
    BY <1>0
  <2>2. IsFiniteSet(T) /\ Cardinality(T) = IF 1 > Cardinality(S) THEN 0 ELSE Cardinality(S) - 1 + 1
    BY <2>1, FS_Interval
  <2> HIDE DEF T
  <2> QED
    BY <1>0, <2>2
<1>9. f \in Surjection(S, T)
  <2> HIDE DEF f, T
  <2> QED
    BY <1>7, <1>8, FS_Injection
<1>10. \A k \in T : \E i \in S : Rank(i, S) = k
  BY <1>9 DEF Surjection
<1> QED
  BY <1>0, <1>5, <1>6, <1>10

\* What was loaded is loadable.
LEMMA Loaded == \A c \in Configs : Loadable(c)
BY LoadAssumption DEF Configs

\* A configuration names a consumer once.
LEMMA NamedOnce ==
    ASSUME NEW c, Loadable(c), NEW x \in ToSet(c.consumers)
    PROVE  /\ ConsumerNamed(c, x.name) = {x}
           /\ (CHOOSE y \in ConsumerNamed(c, x.name) : TRUE) = x
           /\ x.name \in NamesOf(c.consumers)
<1>1. \A y \in ToSet(c.consumers) : y.name = x.name => y = x
  BY DEF Loadable, ToSet
<1>2. ConsumerNamed(c, x.name) = {x}
  BY <1>1 DEF ConsumerNamed
<1> QED
  BY <1>2 DEF ToSet, NamesOf

\* Each name of a consumer is the name of one.
LEMMA HasConsumer ==
    ASSUME NEW c, NEW n \in NamesOf(c.consumers)
    PROVE  \E x \in ToSet(c.consumers) : x.name = n
BY DEF NamesOf, ToSet

\* The ids given to the bots that have none: each name once, in order.
LEMMA NewIdsAre ==
    ASSUME NEW c \in Configs
    PROVE  /\ NewIds(c) \in Seq(BotNames)
           /\ \A k \in 1 .. Len(NewIds(c)) : \E i \in NewBots(c) : NewIds(c)[k] = c.bots[i].name
           /\ \A i \in NewBots(c) : \E k \in 1 .. Len(NewIds(c)) : NewIds(c)[k] = c.bots[i].name
           /\ \A k, l \in 1 .. Len(NewIds(c)) : NewIds(c)[k] = NewIds(c)[l] => k = l
<1> DEFINE S == NewBots(c)
           N == Cardinality(S)
           at(k) == CHOOSE i \in S : Rank(i, S) = k
<1>1. Loadable(c)
  BY Loaded
<1>2. /\ c.bots \in Seq(ToSet(c.bots)) /\ Len(c.bots) \in Nat /\ DOMAIN c.bots = 1 .. Len(c.bots)
      /\ \A i, j \in DOMAIN c.bots : c.bots[i].name = c.bots[j].name => i = j
  BY <1>1 DEF Loadable
<1>3. S \subseteq DOMAIN c.bots
  BY DEF NewBots
<1>4. S \in SUBSET Nat /\ IsFiniteSet(S)
  <2>1. 1 \in Int /\ Len(c.bots) \in Int
    BY <1>2
  <2>2. IsFiniteSet(1 .. Len(c.bots))
    BY <2>1, FS_Interval
  <2> HIDE DEF S
  <2>3. IsFiniteSet(S)
    BY <1>2, <1>3, <2>2, FS_Subset
  <2> QED
    BY <1>2, <1>3, <2>3
<1>5. /\ N \in Nat
      /\ \A i \in S : Rank(i, S) \in 1 .. N
      /\ \A i, j \in S : Rank(i, S) = Rank(j, S) => i = j
      /\ \A k \in 1 .. N : \E i \in S : Rank(i, S) = k
  <2> HIDE DEF S
  <2> QED
    BY <1>4, RankBijection
<1>6. \A k \in 1 .. N : at(k) \in S /\ Rank(at(k), S) = k
  <2> HIDE DEF S, N
  <2> QED
    BY <1>5
<1>7. NewIds(c) = [k \in 1 .. N |-> c.bots[at(k)].name]
  BY DEF NewIds
<1> HIDE DEF S, N, at
<1>8. \A k \in 1 .. N : c.bots[at(k)].name \in BotNames
  BY <1>3, <1>6 DEF BotNames, NamesOf
<1>9. NewIds(c) \in Seq(BotNames) /\ Len(NewIds(c)) = N
  BY <1>5, <1>7, <1>8
<1>10. \A k \in 1 .. N : NewIds(c)[k] = c.bots[at(k)].name /\ at(k) \in S
  BY <1>6, <1>7
<1>11. ASSUME NEW i \in S PROVE \E k \in 1 .. N : NewIds(c)[k] = c.bots[i].name
  <2>1. PICK k \in 1 .. N : k = Rank(i, S)
    BY <1>5
  <2>2. at(k) \in S /\ Rank(at(k), S) = Rank(i, S)
    BY <1>6, <2>1
  <2>3. at(k) = i
    BY <1>5, <2>2
  <2> QED
    BY <1>10, <2>3
<1>12. ASSUME NEW k \in 1 .. N, NEW l \in 1 .. N, NewIds(c)[k] = NewIds(c)[l] PROVE k = l
  <2>1. c.bots[at(k)].name = c.bots[at(l)].name /\ at(k) \in DOMAIN c.bots /\ at(l) \in DOMAIN c.bots
    BY <1>3, <1>10, <1>12
  <2>2. at(k) = at(l)
    BY <1>2, <2>1
  <2> QED
    BY <1>6, <2>2
<1> QED
  BY <1>9, <1>10, <1>11, <1>12 DEF S

\* The ids a configuration comes with: those before, and the new ones.
LEMMA IdsGrow ==
    ASSUME ConfInv, IdsInv, NEW c \in Configs
    PROVE  /\ Len(ids) \in Nat /\ DOMAIN ids = 1 .. Len(ids)
           /\ IdsOf(c) \in Seq(BotNames) /\ DOMAIN IdsOf(c) = 1 .. Len(ids) + Len(NewIds(c))
           /\ Len(NewIds(c)) \in Nat /\ Len(IdsOf(c)) = Len(ids) + Len(NewIds(c))
           /\ \A i \in 1 .. Len(ids) : IdsOf(c)[i] = ids[i]
           /\ \A i \in 1 .. Len(NewIds(c)) : IdsOf(c)[Len(ids) + i] = NewIds(c)[i]
           /\ Len(IdsOf(c)) = Len(ids) => IdsOf(c) = ids
<1>1. ids \in Seq(BotNames) /\ NewIds(c) \in Seq(BotNames)
  BY NewIdsAre DEF IdsInv
<1>2. PICK t : t = NewIds(c)
  OBVIOUS
<1>3. IdsOf(c) = ids \o t /\ t \in Seq(BotNames)
  BY <1>1, <1>2 DEF IdsOf
<1>4. /\ Len(ids) \in Nat /\ DOMAIN ids = 1 .. Len(ids) /\ Len(t) \in Nat
      /\ ids \o t \in Seq(BotNames) /\ Len(ids \o t) = Len(ids) + Len(t)
      /\ DOMAIN (ids \o t) = 1 .. Len(ids) + Len(t)
      /\ \A i \in 1 .. Len(ids) : (ids \o t)[i] = ids[i]
      /\ \A i \in 1 .. Len(t) : (ids \o t)[Len(ids) + i] = t[i]
  BY <1>1, <1>3
<1>5. ASSUME Len(ids) + Len(t) = Len(ids) PROVE ids \o t = ids
  <2>1. Len(t) = 0
    BY <1>4, <1>5
  <2>2. t = <<>>
    BY <1>3, <2>1
  <2> QED
    BY <1>1, <2>2
<1> QED
  BY <1>2, <1>3, <1>4, <1>5

\* A commit keeps the ids of the bots that stay and gives the others theirs.
LEMMA CommitIds ==
    ASSUME ConfInv, IdsInv, NEW c \in Configs, NEW f, Commit(c, f)
    PROVE  IdsInv'
<1> DEFINE L == Len(ids)
           M == Len(NewIds(c))
<1>1. /\ L \in Nat /\ DOMAIN ids = 1 .. L /\ M \in Nat
      /\ IdsOf(c) \in Seq(BotNames) /\ DOMAIN IdsOf(c) = 1 .. L + M
      /\ \A i \in 1 .. L : IdsOf(c)[i] = ids[i]
      /\ \A i \in 1 .. M : IdsOf(c)[L + i] = NewIds(c)[i]
  BY IdsGrow
<1>2. /\ ids' = IdsOf(c) /\ conf' = {c} /\ DOMAIN sources' = NamesOf(c.bots)
      /\ \A n \in NamesOf(c.bots) :
             sources'[n] = IF n \in DOMAIN sources THEN sources[n]
                           ELSE CHOOSE i \in DOMAIN IdsOf(c) : i > Len(ids) /\ IdsOf(c)[i] = n
  BY DEF Commit
<1> HIDE DEF L, M
<1>3. ASSUME NEW i \in 1 .. L + M, i > L PROVE i - L \in 1 .. M /\ IdsOf(c)[i] = NewIds(c)[i - L]
  <2>1. i - L \in 1 .. M /\ L + (i - L) = i
    BY <1>1, <1>3
  <2> QED
    BY <1>1, <2>1
<1>4. ASSUME NEW n \in NamesOf(c.bots)
      PROVE  /\ sources'[n] \in DOMAIN ids' /\ ids'[sources'[n]] = n
             /\ \A i \in DOMAIN ids' : ids'[i] = n => i <= sources'[n]
  <2>1. CASE n \in DOMAIN sources
    <3>1. /\ sources'[n] = sources[n] /\ sources[n] \in 1 .. L /\ ids[sources[n]] = n
          /\ \A i \in 1 .. L : ids[i] = n => i <= sources[n]
      BY <1>1, <1>2, <2>1 DEF IdsInv
    <3>2. ASSUME NEW i \in 1 .. L + M, i > L PROVE IdsOf(c)[i] # n
      <4>1. PICK k \in NewBots(c) : NewIds(c)[i - L] = c.bots[k].name
        BY <1>3, <3>2, NewIdsAre DEF M
      <4> QED
        BY <1>3, <2>1, <3>2, <4>1 DEF NewBots
    <3>3. ASSUME NEW i \in 1 .. L + M, IdsOf(c)[i] = n PROVE i <= sources[n]
      <4>1. ~(i > L)
        BY <3>2, <3>3
      <4>2. i \in 1 .. L
        BY <1>1, <4>1
      <4> QED
        BY <1>1, <3>1, <3>3, <4>2
    <3>4. sources[n] \in 1 .. L + M
      BY <1>1, <3>1
    <3> QED
      BY <1>1, <1>2, <3>1, <3>3, <3>4
  <2>2. CASE n \notin DOMAIN sources
    <3>1. PICK j \in DOMAIN c.bots : c.bots[j].name = n
      BY DEF NamesOf
    <3>2. j \in NewBots(c)
      BY <2>2, <3>1 DEF NewBots
    <3>3. PICK k \in 1 .. M : NewIds(c)[k] = n
      BY <3>1, <3>2, NewIdsAre DEF M
    <3>4. L + k \in 1 .. L + M /\ L + k > L /\ IdsOf(c)[L + k] = n
      BY <1>1, <3>3
    <3>5. PICK i : i = sources'[n]
      OBVIOUS
    <3>6. i \in 1 .. L + M /\ i > L /\ IdsOf(c)[i] = n
      <4>1. i = CHOOSE y \in 1 .. L + M : y > L /\ IdsOf(c)[y] = n
        BY <1>1, <1>2, <2>2, <3>5 DEF L
      <4> QED
        BY <3>4, <4>1
    <3>7. ASSUME NEW y \in 1 .. L + M, IdsOf(c)[y] = n PROVE y <= i
      <4>1. CASE y > L
        <5>1. i - L \in 1 .. M /\ y - L \in 1 .. M /\ NewIds(c)[y - L] = NewIds(c)[i - L]
          BY <1>3, <3>6, <3>7, <4>1
        <5>2. y - L = i - L
          BY <5>1, NewIdsAre DEF M
        <5> QED
          BY <1>1, <3>6, <5>2
      <4>2. CASE ~(y > L)
        BY <1>1, <3>6, <4>2
      <4> QED
        BY <4>1, <4>2
    <3> QED
      BY <1>1, <1>2, <3>5, <3>6, <3>7
  <2> QED
    BY <2>1, <2>2
<1> QED
  BY <1>1, <1>2, <1>4 DEF IdsInv


\* The instance a consumer gets bears its name; one in use is of its mode, and
\* one that is new is of this load.
LEMMA InstanceIs ==
    ASSUME ConfInv, SlotsInv, NEW x, NEW s, s = InstanceOf(x, loads)
    PROVE  /\ s[1] = x.name /\ s[2] \in Nat /\ s[2] <= loads
           /\ s \in Targeted => slots[s].mode = x.kind
<1> DEFINE same(r) == r[1] = x.name /\ slots[r].mode = x.kind
           current == {r \in Targeted : same(r)}
           draining == {r \in retired : same(r)}
           own == {<<x.name, loads>>}
<1>0. loads \in Nat
  BY DEF ConfInv
<1>1. s = CHOOSE r \in IF current # {} THEN current ELSE IF draining # {} THEN draining ELSE own : TRUE
  BY DEF InstanceOf, Targeted
<1>2. s \in current \/ s \in draining \/ s \in own
  <2> HIDE DEF current, draining
  <2> QED
    BY <1>1
<1>3. CASE s \in current
  BY <1>0, <1>3 DEF SlotsInv
<1>4. CASE s \in draining
  BY <1>0, <1>4 DEF SlotsInv
<1>5. CASE s \in own
  <2>1. s = <<x.name, loads>>
    BY <1>5
  <2>2. s[1] = x.name /\ s[2] = loads
    BY <2>1
  <2>3. s \notin Targeted
    BY <1>0, <2>2 DEF SlotsInv
  <2> QED
    BY <1>0, <2>2, <2>3
<1> QED
  BY <1>2, <1>3, <1>4, <1>5

\* live_change leaves an instance with the settings written.
LEMMA ChangedAsWritten ==
    ASSUME NEW old, NEW new, NEW before, NEW names, NEW grew \in BOOLEAN,
           old.name = new.name, old.kind = new.kind,
           new.kind = "push" /\ ~grew => before = names
    PROVE  LET r == LiveChange(NewSlot(old, before), old, new, grew, names)
           IN r = NewSlot(new, IF new.kind = "push" THEN names ELSE r.options.names)
<1> DEFINE slot == [name |-> old.name, mode |-> old.kind, queue |-> old.queue,
                    endpoints |-> old.endpoints, options |-> OptionsOf(old, before)]
           delivery == old.endpoints # new.endpoints \/ old.delivery # new.delivery
           refresh == grew \/ old.reply # new.reply
           options == IF delivery \/ refresh THEN OptionsOf(new, names) ELSE OptionsOf(old, before)
           r == LiveChange(NewSlot(old, before), old, new, grew, names)
<1>1. r = [slot EXCEPT
              !.queue = IF old.queue # new.queue THEN new.queue ELSE @,
              !.endpoints = IF delivery THEN new.endpoints ELSE @,
              !.options = IF delivery \/ refresh THEN OptionsOf(new, names) ELSE @]
  BY DEF LiveChange, Changed, NewSlot
<1>2. r = [name |-> old.name, mode |-> old.kind, queue |-> new.queue,
           endpoints |-> new.endpoints, options |-> options]
  BY <1>1
<1> HIDE DEF r, slot
<1>3. PICK after : options = OptionsOf(new, after) /\ (new.kind = "push" => after = names)
  <2>1. CASE delivery \/ refresh
    BY <2>1
  <2>2. CASE ~(delivery \/ refresh)
    BY <2>2 DEF OptionsOf
  <2> QED
    BY <2>1, <2>2
<1> HIDE DEF options, delivery, refresh
<1>4. r.options = options /\ options.names = after
  BY <1>2, <1>3 DEF OptionsOf
<1>5. r = NewSlot(new, after)
  BY <1>2, <1>3 DEF NewSlot
<1>6. r = NewSlot(new, IF new.kind = "push" THEN names ELSE r.options.names)
  BY <1>3, <1>4, <1>5
<1> QED
  BY <1>6 DEF r

\* What the instance of a consumer runs with is what is written.
LEMMA SlotAsWritten ==
    ASSUME ConfInv, IdsInv, SlotsInv, InstancesAsWritten, NEW c \in Configs,
           NEW x, NEW s, s = InstanceOf(x, loads)
    PROVE  LET r == SlotOf(s, x, IdsOf(c))
           IN r = NewSlot(x, IF x.kind = "push" THEN IdsOf(c) ELSE r.options.names)
<1> DEFINE names == IdsOf(c)
           r == SlotOf(s, x, names)
<1>1. s[1] = x.name /\ (s \in Targeted => slots[s].mode = x.kind)
  BY InstanceIs
<1>2. CASE s \notin Targeted
  <2>1. r = NewSlot(x, names)
    BY <1>2 DEF SlotOf, Targeted
  <2>2. NewSlot(x, names).options.names = names
    BY DEF NewSlot, OptionsOf
  <2> HIDE DEF names, r
  <2>3. r = NewSlot(x, IF x.kind = "push" THEN names ELSE r.options.names)
    BY <2>1, <2>2
  <2> QED
    BY <2>3 DEF names, r
<1>3. CASE s \in Targeted
  <2>1. PICK n \in DOMAIN targets : s = targets[n]
    BY <1>3 DEF Targeted
  <2>2. n = x.name
    BY <1>1, <2>1 DEF SlotsInv
  <2>3. PICK d \in conf : x.name \in NamesOf(d.consumers)
    BY <2>1, <2>2 DEF SlotsInv
  <2>4. conf = {d} /\ Loadable(d)
    BY <2>3, Loaded DEF ConfInv
  <2>5. PICK old \in ToSet(d.consumers) : old.name = x.name
    BY <2>3, HasConsumer
  <2>6. ConsumerNamed(d, x.name) = {old}
    BY <2>4, <2>5, NamedOnce
  <2>7. UNION {ConsumerNamed(y, x.name) : y \in conf} = {old}
    BY <2>4, <2>6
  <2>8. r = LiveChange(slots[s], old, x, Len(names) # Len(ids), names)
    BY <1>3, <2>7 DEF SlotOf, Targeted
  <2>9. PICK before : /\ slots[s] = NewSlot(old, before)
                      /\ old.kind = "push" => before = ids
    BY <2>1, <2>2, <2>3, <2>5 DEF InstancesAsWritten
  <2>10. old.kind = x.kind
    BY <1>1, <1>3, <2>9 DEF NewSlot
  <2>11. Len(names) = Len(ids) => names = ids
    BY IdsGrow
  <2>12. PICK grew \in BOOLEAN : grew = (Len(names) # Len(ids))
    OBVIOUS
  <2>13. r = LiveChange(NewSlot(old, before), old, x, grew, names)
    BY <2>8, <2>9, <2>12
  <2>14. x.kind = "push" /\ ~grew => before = names
    BY <2>9, <2>10, <2>11, <2>12
  <2> HIDE DEF names, r
  <2>15. r = NewSlot(x, IF x.kind = "push" THEN names ELSE r.options.names)
    BY <2>5, <2>10, <2>13, <2>14, ChangedAsWritten
  <2> QED
    BY <2>15 DEF names, r
<1> QED
  BY <1>2, <1>3

\* A commit: the consumers' instances, those that drain, and the settings.
LEMMA CommitPlaces ==
    ASSUME ConfInv, SlotsInv, NEW c \in Configs, NEW f, Commit(c, f)
    PROVE  /\ DOMAIN targets' = NamesOf(c.consumers)
           /\ retired' = (retired \cup Targeted) \ Targeted'
           /\ DOMAIN slots' = Targeted' \cup retired'
           /\ \A s \in retired' : slots'[s] = slots[s]
           /\ \A x \in ToSet(c.consumers) :
                  /\ targets'[x.name] = InstanceOf(x, loads) /\ targets'[x.name][1] = x.name
                  /\ targets'[x.name] \in Targeted'
                  /\ slots'[targets'[x.name]] = SlotOf(targets'[x.name], x, IdsOf(c))
<1> DEFINE placed == [n \in NamesOf(c.consumers) |-> InstanceOf(CHOOSE x \in ConsumerNamed(c, n) : TRUE, loads)]
           used == {placed[n] : n \in DOMAIN placed}
<1>1. /\ targets' = placed
      /\ retired' = (retired \cup {targets[n] : n \in DOMAIN targets}) \ used
      /\ slots' = [s \in used \cup retired' |->
                       IF s \in used THEN SlotOf(s, CHOOSE x \in ConsumerNamed(c, s[1]) : TRUE, IdsOf(c)) ELSE slots[s]]
  BY DEF Commit
<1>2. Loadable(c)
  BY Loaded
<1>3. used = Targeted' /\ DOMAIN targets' = NamesOf(c.consumers)
  BY <1>1 DEF Targeted
<1>4. ASSUME NEW x \in ToSet(c.consumers)
      PROVE  targets'[x.name] = InstanceOf(x, loads) /\ x.name \in DOMAIN targets'
  <2>1. x.name \in NamesOf(c.consumers) /\ (CHOOSE y \in ConsumerNamed(c, x.name) : TRUE) = x
    BY <1>2, NamedOnce
  <2> QED
    BY <1>1, <2>1
<1>5. ASSUME NEW x \in ToSet(c.consumers)
      PROVE  /\ targets'[x.name][1] = x.name /\ targets'[x.name] \in used
             /\ (CHOOSE y \in ConsumerNamed(c, x.name) : TRUE) = x
  <2>1. targets'[x.name][1] = x.name
    BY <1>4, InstanceIs
  <2>2. targets'[x.name] \in used
    BY <1>3, <1>4 DEF Targeted
  <2> QED
    BY <1>2, <2>1, <2>2, NamedOnce
<1> HIDE DEF used, placed
<1>6. ASSUME NEW x \in ToSet(c.consumers)
      PROVE  slots'[targets'[x.name]] = SlotOf(targets'[x.name], x, IdsOf(c))
  BY <1>1, <1>5
<1>7. \A s \in retired' : slots'[s] = slots[s]
  BY <1>1
<1>8. DOMAIN slots' = used \cup retired'
  BY <1>1
<1> QED
  BY <1>1, <1>3, <1>4, <1>5, <1>6, <1>7, <1>8 DEF Targeted

\* A commit leaves every consumer with its instance, of the settings written.
LEMMA CommitSlots ==
    ASSUME ConfInv, IdsInv, SlotsInv, InstancesAsWritten, NEW c \in Configs, NEW f, Commit(c, f),
           loads' = loads + 1
    PROVE  SlotsInv' /\ InstancesAsWritten'
<1>1. /\ DOMAIN targets' = NamesOf(c.consumers)
      /\ retired' = (retired \cup Targeted) \ Targeted'
      /\ DOMAIN slots' = Targeted' \cup retired'
      /\ \A x \in ToSet(c.consumers) :
             /\ targets'[x.name] = InstanceOf(x, loads) /\ targets'[x.name][1] = x.name
             /\ targets'[x.name] \in Targeted'
             /\ slots'[targets'[x.name]] = SlotOf(targets'[x.name], x, IdsOf(c))
  BY CommitPlaces
<1>2. conf' = {c} /\ ids' = IdsOf(c) /\ loads \in Nat
  BY DEF Commit, ConfInv
<1>3. ASSUME NEW s \in Targeted' PROVE s[2] \in Nat /\ s[2] < loads'
  <2>1. PICK n \in DOMAIN targets' : s = targets'[n]
    BY DEF Targeted
  <2>2. PICK x \in ToSet(c.consumers) : x.name = n
    BY <1>1, <2>1, HasConsumer
  <2>3. s = InstanceOf(x, loads)
    BY <1>1, <2>1, <2>2
  <2>4. s[2] \in Nat /\ s[2] <= loads
    BY <2>3, InstanceIs
  <2> QED
    BY <1>2, <2>4
<1>4. ASSUME NEW s \in retired' PROVE s[2] \in Nat /\ s[2] < loads'
  <2>1. s[2] \in Nat /\ s[2] < loads
    BY <1>1 DEF SlotsInv
  <2> QED
    BY <1>2, <2>1
<1>5. ASSUME NEW n \in DOMAIN targets' PROVE targets'[n][1] = n /\ targets'[n] \notin retired'
  <2>1. PICK x \in ToSet(c.consumers) : x.name = n
    BY <1>1, HasConsumer
  <2> QED
    BY <1>1, <2>1
<1>6. SlotsInv'
  BY <1>1, <1>2, <1>3, <1>4, <1>5 DEF SlotsInv
<1>7. ASSUME NEW x \in ToSet(c.consumers)
      PROVE  LET s == slots'[targets'[x.name]]
             IN /\ targets'[x.name] \notin retired'
                /\ s = NewSlot(x, IF x.kind = "push" THEN ids' ELSE s.options.names)
  <2>1. PICK s : s = targets'[x.name]
    OBVIOUS
  <2>2. s = InstanceOf(x, loads) /\ slots'[s] = SlotOf(s, x, IdsOf(c)) /\ s \notin retired'
    BY <1>1, <2>1
  <2>3. slots'[s] = NewSlot(x, IF x.kind = "push" THEN IdsOf(c) ELSE slots'[s].options.names)
    BY <2>2, SlotAsWritten
  <2> QED
    BY <1>2, <2>1, <2>2, <2>3
<1>8. InstancesAsWritten'
  BY <1>2, <1>7 DEF InstancesAsWritten, NewSlot, OptionsOf
<1> QED
  BY <1>6, <1>8


\* What a commit leaves of the pull consumers that drain: they were configured
\* or drained before.
LEMMA CommitFormer ==
    ASSUME ConfInv, SlotsInv, InstancesAsWritten, NEW c \in Configs, NEW f, Commit(c, f)
    PROVE  /\ Former(c)' \cap PullNames(c) = {}
           /\ \A n \in Former(c)' : \E d \in conf : n \in PullNames(d) \cup Former(d)
<1>1. /\ retired' = (retired \cup Targeted) \ Targeted'
      /\ \A s \in retired' : slots'[s] = slots[s]
  BY CommitPlaces
<1>2. ASSUME NEW n \in Former(c)' PROVE \E d \in conf : n \in PullNames(d) \cup Former(d)
  <2>1. PICK s \in retired' : slots'[s].mode = "pull" /\ s[1] = n
    BY DEF Former
  <2>2. slots[s].mode = "pull" /\ s \in retired \cup Targeted
    BY <1>1, <2>1
  <2>3. PICK d \in conf : TRUE
    BY <2>2 DEF SlotsInv, Targeted
  <2>4. CASE s \in retired
    BY <2>1, <2>2, <2>3, <2>4 DEF Former
  <2>5. CASE s \in Targeted
    <3>1. PICK m \in DOMAIN targets : s = targets[m]
      BY <2>5 DEF Targeted
    <3>2. m = n /\ n \in NamesOf(d.consumers)
      BY <2>1, <2>3, <3>1 DEF SlotsInv
    <3>3. PICK x \in ToSet(d.consumers) : x.name = n
      BY <3>2, HasConsumer
    <3>4. PICK names : slots[s] = NewSlot(x, names)
      BY <2>3, <3>1, <3>2, <3>3 DEF InstancesAsWritten
    <3>5. x.kind = "pull"
      BY <2>2, <3>4 DEF NewSlot
    <3>6. n \in PullNames(d)
      BY <3>3, <3>5 DEF PullNames, Pulls
    <3> QED
      BY <2>3, <3>6
  <2> QED
    BY <2>2, <2>4, <2>5
<1>3. Former(c)' \cap PullNames(c) = {}
  BY DEF Former, PullNames, Pulls
<1> QED
  BY <1>2, <1>3

\* The history after a commit.
LEMMA HadIs ==
    ASSUME NEW c
    PROVE  /\ DOMAIN HadOf(c) = PullNames(c) \cup DOMAIN had
           /\ \A n \in PullNames(c) :
                  /\ HadOf(c)[n].auth = (CHOOSE x \in Pulls(c) : x.name = n).auth
                  /\ \A p \in HadOf(c)[n].paths : <<p, n>> \in AliasesOf(c)
           /\ \A n \in DOMAIN had \ PullNames(c) :
                  /\ HadOf(c)[n].auth = had[n].auth
                  /\ HadOf(c)[n].paths = had[n].paths \ Taken(c)
<1> DEFINE paths(n) == {a[1] : a \in {b \in AliasesOf(c) : b[2] = n}}
<1>1. HadOf(c) = [n \in PullNames(c) \cup DOMAIN had |->
           IF n \in PullNames(c)
           THEN [auth |-> (CHOOSE x \in Pulls(c) : x.name = n).auth, paths |-> paths(n)]
           ELSE [auth |-> had[n].auth, paths |-> had[n].paths \ Taken(c)]]
  BY DEF HadOf, PullNames, Taken
<1>2. ASSUME NEW n, NEW p \in paths(n) PROVE <<p, n>> \in AliasesOf(c)
  <2>1. PICK a \in AliasesOf(c) : a[2] = n /\ a[1] = p
    OBVIOUS
  <2>2. PICK q, m : a = <<q, m>>
    BY <2>1 DEF AliasesOf
  <2> QED
    BY <2>1, <2>2
<1> HIDE DEF paths
<1> QED
  BY <1>1, <1>2

\* What the routes serve after they are built.
LEMMA ServedIs ==
    ASSUME NEW c, NEW previous, NEW v, v = Served(c, previous)
    PROVE  /\ \A n \in PullNames(c) : /\ n \in DOMAIN v.auth
                                      /\ v.auth[n] = (CHOOSE x \in Pulls(c) : x.name = n).auth
           /\ \A n \in DOMAIN previous.auth \ PullNames(c) :
                  Drains(n) => n \in DOMAIN v.auth /\ v.auth[n] = previous.auth[n]
           /\ AliasesOf(c) \subseteq v.aliases
           /\ \A a \in previous.aliases :
                  a[2] \in DOMAIN previous.auth \ PullNames(c) /\ Drains(a[2]) /\ a[1] \notin Taken(c) => a \in v.aliases
           /\ \A a \in v.aliases : a \in AliasesOf(c) \/ (a \in previous.aliases /\ a[1] \notin Taken(c))
<1> DEFINE kept == {n \in DOMAIN previous.auth \ PullNames(c) : Drains(n)}
           auth == [n \in PullNames(c) \cup kept |->
                       IF n \in PullNames(c) THEN (CHOOSE x \in Pulls(c) : x.name = n).auth ELSE previous.auth[n]]
           aliases == AliasesOf(c) \cup {a \in previous.aliases : a[2] \in kept /\ a[1] \notin Taken(c)}
<1>1. v = [auth |-> auth, aliases |-> aliases]
  BY DEF Served, PullNames, Taken
<1> HIDE DEF auth, aliases
<1>2. v.auth = auth /\ v.aliases = aliases
  BY <1>1
<1> USE DEF auth, aliases
<1>3. \A n \in PullNames(c) : n \in DOMAIN auth /\ auth[n] = (CHOOSE x \in Pulls(c) : x.name = n).auth
  OBVIOUS
<1>4. \A n \in DOMAIN previous.auth \ PullNames(c) : Drains(n) => n \in DOMAIN auth /\ auth[n] = previous.auth[n]
  OBVIOUS
<1> QED
  BY <1>2, <1>3, <1>4

\* Building the routes of a configuration gives no path two owners.
LEMMA OneOwner ==
    ASSUME NEW c, Loadable(c), NEW previous, NEW v, v = Served(c, previous),
           \A x, y \in previous.aliases : x[1] = y[1] => x = y
    PROVE  /\ \A x, y \in v.aliases : x[1] = y[1] => x = y
           /\ {a[1] : a \in v.aliases} \cap WebhookPaths(c) = {}
<1>1. \A a \in v.aliases : a \in AliasesOf(c) \/ (a \in previous.aliases /\ a[1] \notin Taken(c))
  BY ServedIs
<1>2. /\ \A a, b \in AliasesOf(c) : a[1] = b[1] => a = b
      /\ {a[1] : a \in AliasesOf(c)} \cap WebhookPaths(c) = {}
  BY DEF Loadable
<1>3. \A a \in AliasesOf(c) : a[1] \in Taken(c)
  BY DEF Taken
<1>4. ASSUME NEW x \in v.aliases, NEW y \in v.aliases, x[1] = y[1] PROVE x = y
  BY <1>1, <1>2, <1>3, <1>4
<1>5. ASSUME NEW a \in v.aliases PROVE a[1] \notin WebhookPaths(c)
  <2>1. CASE a \in AliasesOf(c)
    BY <1>2, <2>1
  <2>2. CASE a[1] \notin Taken(c)
    BY <2>2 DEF Taken
  <2> QED
    BY <1>1, <2>1, <2>2
<1> QED
  BY <1>4, <1>5

\* Routes built anew serve every pull consumer of the configuration with what
\* it has, and every former one that drains with what it had.
LEMMA RoutesBuilt ==
    ASSUME ConfInv, RoutesInv, NEW c \in conf, NEW b \in booted, b.listen # {}, served' = Served(c, served),
           UNCHANGED <<conf, booted, had, retired, slots>>
    PROVE  /\ \A x, y \in served'.aliases : x[1] = y[1] => x = y
           /\ \A n \in PullNames(c) \cup Former(c) : ServedAsHad(n)'
           /\ {a[1] : a \in served'.aliases} \cap WebhookPaths(c) = {}
<1>1. Loadable(c) /\ \A x, y \in served.aliases : x[1] = y[1] => x = y
  BY Loaded DEF ConfInv, RoutesInv
<1>2. /\ \A x, y \in served'.aliases : x[1] = y[1] => x = y
      /\ {a[1] : a \in served'.aliases} \cap WebhookPaths(c) = {}
  BY <1>1, OneOwner
<1>3. /\ \A n \in PullNames(c) : /\ n \in DOMAIN served'.auth
                                 /\ served'.auth[n] = (CHOOSE x \in Pulls(c) : x.name = n).auth
      /\ \A n \in DOMAIN served.auth \ PullNames(c) :
                  Drains(n) => n \in DOMAIN served'.auth /\ served'.auth[n] = served.auth[n]
      /\ AliasesOf(c) \subseteq served'.aliases
      /\ \A a \in served.aliases :
                  a[2] \in DOMAIN served.auth \ PullNames(c) /\ Drains(a[2]) /\ a[1] \notin Taken(c) => a \in served'.aliases
  BY ServedIs
<1>4. ASSUME NEW n \in PullNames(c) PROVE ServedAsHad(n)'
  <2>1. /\ had[n].auth = (CHOOSE x \in Pulls(c) : x.name = n).auth
        /\ \A p \in had[n].paths : <<p, n>> \in AliasesOf(c)
    BY DEF RoutesInv, HadAsWritten
  <2> QED
    BY <1>3, <2>1 DEF ServedAsHad
<1>5. ASSUME NEW n \in Former(c) PROVE ServedAsHad(n)'
  <2>1. Drains(n) /\ n \notin PullNames(c)
    BY DEF Former, Drains
  <2>2. /\ n \in DOMAIN served.auth /\ served.auth[n] = had[n].auth
        /\ \A p \in had[n].paths : <<p, n>> \in served.aliases
    BY DEF RoutesInv, ServedAsHad
  <2>3. n \in DOMAIN served'.auth /\ served'.auth[n] = had[n].auth
    BY <1>3, <2>1, <2>2
  <2>4. ASSUME NEW p \in had[n].paths PROVE <<p, n>> \in served'.aliases
    <3>1. p \notin Taken(c)
      BY DEF RoutesInv
    <3>2. PICK a : a = <<p, n>>
      OBVIOUS
    <3>3. a \in served.aliases /\ a[1] = p /\ a[2] = n
      BY <2>2, <3>2
    <3>4. a \in served'.aliases
      BY <1>3, <2>1, <2>2, <3>1, <3>3
    <3> QED
      BY <3>2, <3>4
  <2> QED
    BY <2>3, <2>4 DEF ServedAsHad
<1> QED
  BY <1>2, <1>4, <1>5

\* What a commit leaves of the history.
LEMMA CommitHad ==
    ASSUME ConfInv, SlotsInv, InstancesAsWritten, RoutesInv, NEW c \in Configs, NEW f, Commit(c, f)
    PROVE  /\ PullNames(c) \cup Former(c)' \subseteq DOMAIN had'
           /\ \A n \in PullNames(c) : HadAsWritten(c, n)'
           /\ \A n \in Former(c)' : /\ had'[n].paths \cap Taken(c) = {}
                                    /\ had'[n].auth = had[n].auth /\ had'[n].paths \subseteq had[n].paths
<1>1. had' = HadOf(c)
  BY DEF Commit
<1>2. /\ DOMAIN had' = PullNames(c) \cup DOMAIN had
      /\ \A n \in PullNames(c) :
                  /\ had'[n].auth = (CHOOSE x \in Pulls(c) : x.name = n).auth
                  /\ \A p \in had'[n].paths : <<p, n>> \in AliasesOf(c)
      /\ \A n \in DOMAIN had \ PullNames(c) :
                  /\ had'[n].auth = had[n].auth
                  /\ had'[n].paths = had[n].paths \ Taken(c)
  BY <1>1, HadIs
<1>3. ASSUME NEW n \in Former(c)' PROVE n \in DOMAIN had \ PullNames(c)
  <2>1. PICK d \in conf : n \in PullNames(d) \cup Former(d)
    BY CommitFormer
  <2>2. n \in DOMAIN had
    BY <2>1 DEF RoutesInv
  <2> QED
    BY <2>2, CommitFormer
<1>4. \A n \in PullNames(c) : HadAsWritten(c, n)'
  BY <1>2 DEF HadAsWritten
<1> QED
  BY <1>2, <1>3, <1>4

\* A reload: the routes are a commit behind, and still serve what drains.
LEMMA ReloadRoutes ==
    ASSUME ConfInv, SlotsInv, InstancesAsWritten, RoutesInv, NEW c \in Configs, NEW f, Commit(c, f),
           conf # {}, ~behind, behind', UNCHANGED <<booted, served>>
    PROVE  RoutesInv'
<1>1. conf' = {c}
  BY DEF Commit
<1>2. /\ PullNames(c) \cup Former(c)' \subseteq DOMAIN had'
      /\ \A n \in PullNames(c) : HadAsWritten(c, n)'
      /\ \A n \in Former(c)' : /\ had'[n].paths \cap Taken(c) = {}
                               /\ had'[n].auth = had[n].auth /\ had'[n].paths \subseteq had[n].paths
  BY CommitHad
<1>3. ASSUME NEW b \in booted', b.listen # {}, NEW n \in Former(c)' PROVE ServedAsHad(n)'
  <2>1. PICK d \in conf : n \in PullNames(d) \cup Former(d)
    BY CommitFormer
  <2>2. ServedAsHad(n)
    BY <1>3, <2>1 DEF RoutesInv
  <2> QED
    BY <1>2, <2>2 DEF ServedAsHad
<1>4. ASSUME NEW b \in booted', b.listen # {}, NEW x \in served'.aliases, NEW y \in served'.aliases, x[1] = y[1]
      PROVE  x = y
  <2>1. PICK d \in conf : TRUE
    OBVIOUS
  <2> QED
    BY <1>4, <2>1 DEF RoutesInv
<1> QED
  BY <1>1, <1>2, <1>3, <1>4 DEF RoutesInv


\* What the process sets up once has the settings a report names.
LEMMA SettingsAre == \A c : DOMAIN SettingsOf(c) = {"listen", "connections", "header", "tls", "admin", "threads", "format"}
BY DEF SettingsOf

\* The first configuration, and the routes that come with it.
LEMMA BootStep ==
    ASSUME GenInv, NEW f \in Files, NEW env \in Environments, Boot(f, env)
    PROVE  GenInv'
<1>1. PICK c \in LoadFile(f, env) :
          /\ Commit(c, f) /\ booted' = {SettingsOf(c)}
          /\ served' = IF c.server = {} THEN NothingServed ELSE Served(c, NothingServed)
  BY DEF Boot
<1>2. c \in Configs /\ conf = {} /\ loads' = loads + 1 /\ report' = report
  BY DEF Boot, Configs
<1>3. conf' = {c}
  BY <1>1 DEF Commit
<1>4. ConfInv'
  BY <1>2, <1>3 DEF GenInv, ConfInv
<1>5. IdsInv' /\ SlotsInv' /\ InstancesAsWritten'
  BY <1>1, <1>2, CommitIds, CommitSlots DEF GenInv
<1>6. BootInv'
  BY <1>1, SettingsAre DEF BootInv
<1>7. RestartsReported'
  BY <1>1, <1>3 DEF RestartsReported
<1>8. RoutesInv'
  <2>1. Loadable(c)
    BY <1>2, Loaded
  <2>2. /\ PullNames(c) \cup Former(c)' \subseteq DOMAIN had'
        /\ \A n \in PullNames(c) : HadAsWritten(c, n)'
        /\ \A n \in Former(c)' : had'[n].paths \cap Taken(c) = {}
    BY <1>1, <1>2, CommitHad DEF GenInv
  <2>3. Former(c)' = {}
    BY <1>1, <1>2, CommitFormer DEF GenInv
  <2>4. ASSUME NEW b \in booted', b.listen # {}
        PROVE  /\ \A x, y \in served'.aliases : x[1] = y[1] => x = y
               /\ {a[1] : a \in served'.aliases} \cap WebhookPaths(c) = {}
               /\ \A n \in PullNames(c) : ServedAsHad(n)'
    <3>1. c.server # {}
      BY <1>1, <2>4 DEF SettingsOf
    <3>2. PICK previous : previous = NothingServed /\ served' = Served(c, previous)
      BY <1>1, <3>1
    <3>3. previous.aliases = {}
      BY <3>2 DEF NothingServed
    <3>4. /\ \A x, y \in served'.aliases : x[1] = y[1] => x = y
          /\ {a[1] : a \in served'.aliases} \cap WebhookPaths(c) = {}
      BY <2>1, <3>2, <3>3, OneOwner
    <3>5. /\ \A n \in PullNames(c) : /\ n \in DOMAIN served'.auth
                                     /\ served'.auth[n] = (CHOOSE x \in Pulls(c) : x.name = n).auth
          /\ AliasesOf(c) \subseteq served'.aliases
      BY <3>2, ServedIs
    <3>6. ASSUME NEW n \in PullNames(c) PROVE ServedAsHad(n)'
      BY <2>2, <3>5 DEF ServedAsHad, HadAsWritten
    <3> QED
      BY <3>4, <3>6
  <2> QED
    BY <1>3, <2>2, <2>3, <2>4 DEF RoutesInv
<1> QED
  BY <1>4, <1>5, <1>6, <1>7, <1>8 DEF GenInv

\* A setting that a reload changes, or changed before, is reported.
LEMMA ReloadReports ==
    ASSUME ConfInv, BootInv, RestartsReported, conf # {}, NEW c, conf' = {c}, booted' = booted,
           report' = report \cup UNION {RestartRequired(old, c) : old \in conf}
    PROVE  RestartsReported'
<1>1. PICK d \in conf : TRUE
  OBVIOUS
<1>2. ASSUME NEW b \in booted, NEW s \in DOMAIN b, b[s] # SettingsOf(c)[s] PROVE s \in report'
  <2>1. s \in DOMAIN SettingsOf(c)
    BY SettingsAre DEF BootInv
  <2>2. CASE b[s] # SettingsOf(d)[s]
    BY <1>1, <2>2 DEF RestartsReported
  <2>3. CASE b[s] = SettingsOf(d)[s]
    <3>1. s \in RestartRequired(d, c)
      BY <1>2, <2>1, <2>3 DEF RestartRequired
    <3> QED
      BY <1>1, <3>1
  <2> QED
    BY <2>2, <2>3
<1> QED
  BY <1>2 DEF RestartsReported

\* A reload that is applied.
LEMMA ReloadStep ==
    ASSUME GenInv, NEW f \in Changes, NEW env \in Environments, Reload(f, env)
    PROVE  GenInv'
<1>1. PICK c \in LoadFile(f, env) :
          /\ Commit(c, f) /\ behind'
          /\ report' = report \cup UNION {RestartRequired(old, c) : old \in conf}
  BY DEF Reload
<1>2. /\ c \in Configs /\ conf # {} /\ ~behind /\ loads' = loads + 1
      /\ booted' = booted /\ served' = served
  BY DEF Reload, Configs
<1>3. conf' = {c}
  BY <1>1 DEF Commit
<1>4. ConfInv'
  BY <1>2, <1>3 DEF GenInv, ConfInv
<1>5. IdsInv' /\ SlotsInv' /\ InstancesAsWritten'
  BY <1>1, <1>2, CommitIds, CommitSlots DEF GenInv
<1>6. BootInv'
  BY <1>2 DEF GenInv, BootInv
<1>7. RestartsReported'
  BY <1>1, <1>2, <1>3, ReloadReports DEF GenInv
<1>8. RoutesInv'
  BY <1>1, <1>2, ReloadRoutes DEF GenInv
<1> QED
  BY <1>4, <1>5, <1>6, <1>7, <1>8 DEF GenInv

\* A rejected reload changes nothing.
LEMMA RejectedStep ==
    ASSUME GenInv, NEW f, NEW env, Rejected(f, env)
    PROVE  GenInv'
<1>1. /\ UNCHANGED <<conf, written, ids, sources, slots, targets, retired, booted, report, served, behind, had>>
      /\ loads' = loads + 1
  BY DEF Rejected
<1>2. loads \in Nat
  BY DEF GenInv, ConfInv
<1>3. ConfInv'
  BY <1>1, <1>2 DEF GenInv, ConfInv
<1>4. IdsInv' /\ BootInv' /\ InstancesAsWritten' /\ RestartsReported'
  BY <1>1 DEF GenInv, IdsInv, BootInv, InstancesAsWritten, RestartsReported
<1>5. RoutesInv'
  BY <1>1 DEF GenInv, RoutesInv, Former, ServedAsHad, HadAsWritten
<1>6. SlotsInv'
  <2>1. Targeted' = Targeted
    BY <1>1 DEF Targeted
  <2>2. \A s \in Targeted \cup retired : s[2] \in Nat /\ s[2] < loads'
    BY <1>1, <1>2 DEF GenInv, SlotsInv
  <2> QED
    BY <1>1, <2>1, <2>2 DEF GenInv, SlotsInv
<1> QED
  BY <1>3, <1>4, <1>5, <1>6 DEF GenInv

\* The routes are rebuilt after a commit, or once more.
LEMMA RouteStep ==
    ASSUME GenInv, Rebuild \/ ResumeBot
    PROVE  GenInv'
<1>1. UNCHANGED <<conf, written, ids, sources, slots, targets, retired, booted, report, loads, had>>
  BY DEF Rebuild, ResumeBot
<1>2. ConfInv' /\ IdsInv' /\ BootInv' /\ InstancesAsWritten' /\ RestartsReported'
  BY <1>1 DEF GenInv, ConfInv, IdsInv, BootInv, InstancesAsWritten, RestartsReported
<1>3. SlotsInv'
  BY <1>1 DEF GenInv, SlotsInv, Targeted
<1>4. PICK c \in conf, b \in booted :
          \/ b.listen # {} /\ c.server # {} /\ served' = Served(c, served)
          \/ (b.listen = {} \/ c.server = {}) /\ served' = served
  BY DEF Rebuild, ResumeBot
<1>5. conf = {c} /\ Loadable(c)
  BY <1>4, Loaded DEF GenInv, ConfInv
<1>6. Former(c)' = Former(c)
  BY <1>1 DEF Former
<1>7. /\ PullNames(c) \cup Former(c) \subseteq DOMAIN had'
      /\ \A n \in PullNames(c) : HadAsWritten(c, n)'
      /\ \A n \in Former(c) : had'[n].paths \cap Taken(c) = {}
  BY <1>1, <1>4 DEF GenInv, RoutesInv, HadAsWritten
<1>8. ASSUME NEW a \in booted, a.listen # {}
      PROVE  /\ \A x, y \in served'.aliases : x[1] = y[1] => x = y
             /\ \A n \in PullNames(c) \cup Former(c) : ServedAsHad(n)'
             /\ c.server # {} => {p[1] : p \in served'.aliases} \cap WebhookPaths(c) = {}
  <2>1. CASE served' = Served(c, served)
    BY <1>1, <1>4, <1>8, <2>1, RoutesBuilt DEF GenInv
  <2>2. CASE c.server = {} /\ served' = served
    <3>1. PullNames(c) = {}
      BY <1>5, <2>2 DEF Loadable, PullNames
    <3>2. \A x, y \in served'.aliases : x[1] = y[1] => x = y
      BY <1>4, <1>8, <2>2 DEF GenInv, RoutesInv
    <3>3. \A n \in Former(c) : ServedAsHad(n)
      BY <1>4, <1>8 DEF GenInv, RoutesInv
    <3>4. \A n \in Former(c) : ServedAsHad(n)'
      BY <1>1, <2>2, <3>3 DEF ServedAsHad
    <3> QED
      BY <2>2, <3>1, <3>2, <3>4
  <2>3. a = b
    BY <1>4 DEF GenInv, BootInv
  <2> QED
    BY <1>4, <1>8, <2>1, <2>2, <2>3
<1>9. RoutesInv'
  BY <1>1, <1>5, <1>6, <1>7, <1>8 DEF RoutesInv
<1> QED
  BY <1>2, <1>3, <1>9 DEF GenInv

\* An instance has drained.
LEMMA DrainedStep ==
    ASSUME GenInv, NEW s \in retired, Drained(s)
    PROVE  GenInv'
<1>1. /\ UNCHANGED <<conf, written, ids, sources, targets, booted, report, served, behind, loads, had>>
      /\ retired' = retired \ {s} /\ DOMAIN slots' = DOMAIN slots \ {s}
      /\ \A x \in DOMAIN slots \ {s} : slots'[x] = slots[x]
  BY DEF Drained
<1>2. ConfInv' /\ IdsInv' /\ BootInv' /\ RestartsReported'
  BY <1>1 DEF GenInv, ConfInv, IdsInv, BootInv, RestartsReported
<1>3. Targeted' = Targeted /\ s \notin Targeted
  BY <1>1 DEF GenInv, SlotsInv, Targeted
<1>4. SlotsInv'
  BY <1>1, <1>3 DEF GenInv, SlotsInv
<1>5. ASSUME NEW c \in conf, NEW x \in ToSet(c.consumers)
      PROVE  targets[x.name] \in DOMAIN slots \ {s}
  <2>1. x.name \in DOMAIN targets
    BY NamedOnce, Loaded DEF GenInv, ConfInv, SlotsInv
  <2>2. targets[x.name] \in Targeted
    BY <2>1 DEF Targeted
  <2> QED
    BY <1>3, <2>2 DEF GenInv, SlotsInv
<1>6. InstancesAsWritten'
  <2>1. ASSUME NEW c \in conf, NEW x \in ToSet(c.consumers)
        PROVE  /\ targets'[x.name] = targets[x.name] /\ slots'[targets[x.name]] = slots[targets[x.name]]
               /\ targets[x.name] \notin retired'
    BY <1>1, <1>5 DEF GenInv, InstancesAsWritten
  <2> QED
    BY <1>1, <2>1 DEF GenInv, InstancesAsWritten, NewSlot, OptionsOf
<1>7. ASSUME NEW c \in conf PROVE Former(c)' \subseteq Former(c)
  <2>1. \A r \in retired' : r \in retired /\ slots'[r] = slots[r]
    BY <1>1 DEF GenInv, SlotsInv
  <2> QED
    BY <2>1 DEF Former, PullNames, Pulls
<1>8. \A n : (ServedAsHad(n) => ServedAsHad(n)') /\ \A c : HadAsWritten(c, n) => HadAsWritten(c, n)'
  BY <1>1 DEF ServedAsHad, HadAsWritten
<1>9. RoutesInv'
  BY <1>1, <1>7, <1>8 DEF GenInv, RoutesInv
<1> QED
  BY <1>2, <1>4, <1>6, <1>9 DEF GenInv

\* After any sequence of reloads, drains and rebuilds the process runs what its
\* configuration says, for any files and environments, however loading works,
\* as long as it returns configurations with unique names and paths.
THEOREM ReloadCorrect == GenerationsSpec => []ReloadComplete
<1>1. GenerationsInit => GenInv
  <2> SUFFICES ASSUME GenerationsInit PROVE GenInv OBVIOUS
  <2>1. 0 \in Nat /\ <<>> \in Seq(BotNames) /\ DOMAIN <<>> = {}
    OBVIOUS
  <2>2. ConfInv /\ IdsInv /\ BootInv
    BY <2>1 DEF GenerationsInit, ConfInv, IdsInv, BootInv
  <2>3. SlotsInv
    BY <2>1 DEF GenerationsInit, SlotsInv, Targeted
  <2>4. RoutesInv /\ InstancesAsWritten /\ RestartsReported
    BY DEF GenerationsInit, RoutesInv, InstancesAsWritten, RestartsReported
  <2> QED
    BY <2>2, <2>3, <2>4 DEF GenInv
<1>2. GenInv /\ [GenerationsNext]_genVars => GenInv'
  <2> SUFFICES ASSUME GenInv, [GenerationsNext]_genVars PROVE GenInv' OBVIOUS
  <2>1. CASE UNCHANGED genVars
    <3>1. ConfInv' /\ IdsInv' /\ BootInv' /\ InstancesAsWritten' /\ RestartsReported'
      BY <2>1 DEF genVars, GenInv, ConfInv, IdsInv, BootInv, InstancesAsWritten, RestartsReported
    <3>2. SlotsInv' /\ RoutesInv'
      BY <2>1 DEF genVars, GenInv, SlotsInv, Targeted, RoutesInv, Former, ServedAsHad, HadAsWritten
    <3> QED
      BY <3>1, <3>2 DEF GenInv
  <2>2. CASE GenerationsNext
    BY <2>2, BootStep, ReloadStep, RejectedStep, RouteStep, DrainedStep DEF GenerationsNext
  <2> QED
    BY <2>1, <2>2
<1>3. GenInv => ReloadComplete
  <2> SUFFICES ASSUME GenInv PROVE ReloadComplete OBVIOUS
  <2>1. IdsKept
    BY DEF GenInv, IdsInv, IdsKept
  <2>2. RoutesAsWritten
    <3>1. ASSUME NEW c \in conf, NEW b \in booted, b.listen # {}, ~behind
          PROVE  /\ \A x, y \in served.aliases : x[1] = y[1] => x = y
                 /\ c.server # {} => {a[1] : a \in served.aliases} \cap WebhookPaths(c) = {}
                 /\ \A n \in PullNames(c) \cup Former(c) : ServedAsHad(n)
      BY <3>1 DEF GenInv, RoutesInv
    <3>2. ASSUME NEW c \in conf
          PROVE  {x.name : x \in Pulls(c)} \cup {s[1] : s \in {r \in retired : slots[r].mode = "pull"}}
                     = PullNames(c) \cup Former(c)
      BY DEF PullNames, Former
    <3> QED
      BY <3>1, <3>2 DEF RoutesAsWritten, ServedAsHad
  <2> QED
    BY <2>1, <2>2 DEF GenInv, ReloadComplete
<1> QED
  BY <1>1, <1>2, <1>3, PTL DEF GenerationsSpec
=============================================================================
