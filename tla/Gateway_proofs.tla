--------------------------- MODULE Gateway_proofs ---------------------------
(***************************************************************************)
(* What Gateway promises, for any number of calls of any kinds, and any    *)
(* sequence of reloads in which a bot is added only where it was removed.  *)
(* The invariant has four parts: the record of each call, the counts of    *)
(* calls (in flight and in each gate), the bot in the engine and in the    *)
(* table, and what the drain has seen.                                     *)
(*                                                                         *)
(* And what Limiter promises, for any quotas, requests and chats: see      *)
(* LimInv, whose parts are the bookings of the calendar and whose they     *)
(* are, and the order of the slots of each chat.                           *)
(***************************************************************************)
EXTENDS Gateway, Limiter, FiniteSetTheorems, SequenceTheorems, WellFoundedInduction, TLAPS

Pcs == {"new", "body", "drop", "set", "replied", "counted", "disk", "prepare",
        "admit", "go", "gate", "wire", "flood", "relay", "closing", "done"}
Answers == {"none", "ok", "429", "error", "401", "rejected", "local", "parked",
            "too_large", "closed", "refused", "unreachable", "unserved", "file",
            "no_answer", "gone", "unknown"}
Id == Nat \X Nat
Request == [pc : Pcs, kind : Kinds, id : Id, cell : Nat, gate : Nat, bound : Id,
            up : {"none", "part", "ended"}, srv : {"none", "ok", "429", "error"},
            again : BOOLEAN, ran : Nat, counts : Nat, ans : Answers, old : BOOLEAN]

-----------------------------------------------------------------------------
(* The record of a call.                                                   *)

\* Each kind of call takes its own way, and has a gate once it is on it.
Way(kind, pc, gate) ==
    /\ kind = "hook" => pc \in {"new", "body", "drop", "set", "done"}
    /\ kind = "reply" => pc \in {"new", "replied", "admit", "go", "gate", "wire", "done"}
    /\ kind = "disk" => pc \in {"new", "counted", "disk", "relay", "closing", "done"}
    /\ kind \notin {"hook", "reply"} => pc \notin {"body", "drop", "set", "replied"}
    /\ pc = "disk" => kind = "disk"
    /\ pc \in {"new", "body", "drop", "set", "replied"} \/ kind = "hook" => gate = 0
    /\ pc \notin {"new", "body", "drop", "set", "replied", "done"} => gate # 0
OnItsWay(q) == Way(q.kind, q.pc, q.gate)

\* The outcome is counted as the call ends, a file from disk before; so what
\* is relayed is an answer, and none of the ways to end uncounted.
Counts(kind, a) == IF Uncounted(kind, a) THEN 0 ELSE 1
CountedSoFar(q) ==
    /\ q.pc \notin {"relay", "closing", "done"} => q.counts = 0
    /\ q.pc = "relay" => /\ q.counts = IF q.kind = "disk" THEN 1 ELSE 0
                         /\ q.ans \in {"ok", "429", "error"}
    /\ q.pc \in Ended => q.counts = Counts(q.kind, q.ans)

\* The server runs a call that it has whole, and what it ran is never sent
\* again nor called unreachable.
RunSoFar(q) ==
    /\ q.ran <= 1
    /\ q.pc \notin {"wire", "relay", "closing", "done"} => q.ran = 0
    /\ q.pc = "wire" => /\ q.srv = "ok" => q.up = "ended"
                        /\ q.srv # "ok" => q.ran = 0
    /\ q.ans = "unreachable" => q.ran = 0 /\ q.pc \in Ended

\* A reply past the check of its endpoint's token goes out with that token.
BoundSoFar(q) ==
    /\ q.kind # "reply" => q.bound = NoId
    /\ q.pc \in {"gate", "wire"} /\ q.bound # NoId => q.bound = q.id

CallOK(q) == /\ q \in Request
             /\ OnItsWay(q) /\ CountedSoFar(q) /\ RunSoFar(q) /\ BoundSoFar(q)

CallsOK == /\ reqs \in [Reqs -> Request]
           /\ \A r \in Reqs : CallOK(reqs[r])

-----------------------------------------------------------------------------
(* The counts.                                                             *)
InFlight == {r \in Reqs : Forwarded(r) /\ reqs[r].pc \notin {"new", "done"}}
InGate(g) == {r \in Reqs : reqs[r].pc \in {"gate", "wire"} /\ reqs[r].gate = g}

GateRecord == [parked : BOOLEAN, sending : Int]
Gates == Seq(GateRecord)

CountsOK ==
    /\ gates \in Gates
    /\ flight \in [count : Int, recent : BOOLEAN]
    /\ IsFiniteSet(InFlight) /\ flight.count = Cardinality(InFlight)
    /\ \A g \in 1 .. Len(gates) :
          IsFiniteSet(InGate(g)) /\ gates[g].sending = Cardinality(InGate(g))

-----------------------------------------------------------------------------
(* The bot.                                                                *)
WorldTypeOK ==
    /\ plan \in [kinds : [Reqs -> Kinds], changes : Seq(Changes),
                 move : BOOLEAN, drain : BOOLEAN]
    /\ engine \in [on : BOOLEAN, id : Id, fed : BOOLEAN, cap : Id]
    /\ entry \in [on : BOOLEAN, id : Id, cell : Nat, gate : Nat]
    /\ reload \in BOOLEAN
    /\ move \in {"no", "parked", "out"}

\* A bot is added only where it was removed: then the table does not have it
\* yet, and its source's id is new.
PlanOK ==
    /\ \A i \in 2 .. Len(plan.changes) :
          plan.changes[i] = "add" => plan.changes[i - 1] = "remove"
    /\ reload => /\ plan.changes # <<>>
                 /\ Head(plan.changes) = "remove" => ~engine.on
    /\ ~reload /\ plan.changes # <<>> /\ Head(plan.changes) = "add" => ~engine.on

SourceOK ==
    /\ ~reload => entry.on = engine.on /\ entry.id = engine.id
    /\ engine.id[1] = IF engine.on /\ ~entry.on THEN entry.id[1] + 1 ELSE entry.id[1]

\* A call of the bot that the table has is in the gate that the table has.
GateOK ==
    /\ entry.gate \in 1 .. Len(gates)
    /\ \A r \in Reqs : reqs[r].gate # 0 =>
          /\ reqs[r].gate \in 1 .. Len(gates)
          /\ reqs[r].id[1] <= entry.id[1]
          /\ reqs[r].id[1] = entry.id[1] => reqs[r].gate = entry.gate

MoveOK ==
    /\ move # "no" => entry.on /\ gates[entry.gate].parked
    /\ move = "parked" => ~reload
    /\ move = "out" => \A r \in Reqs : OnWire(r) => reqs[r].gate # entry.gate

CapOK == engine.cap # NoId => engine.on /\ engine.fed /\ engine.cap = engine.id

BotOK == WorldTypeOK /\ PlanOK /\ SourceOK /\ GateOK /\ MoveOK /\ CapOK

-----------------------------------------------------------------------------
(* The drain.                                                              *)
DrainOK ==
    /\ drain \in [pc : {"no", "last", "quiet"}, before : SUBSET Reqs, missed : SUBSET Reqs]
    /\ \A r \in Reqs : /\ Forwarded(r) /\ reqs[r].gate # 0
                       /\ reqs[r].pc \in Ended /\ ~reqs[r].old
                       => flight.recent
    /\ drain.pc = "last" =>
          \A r \in drain.before :
              Forwarded(r) /\ reqs[r].gate # 0 /\ reqs[r].pc = "done"
    /\ drain.pc = "quiet" => drain.missed = {}

GatewayInv == CallsOK /\ CountsOK /\ BotOK /\ DrainOK

-----------------------------------------------------------------------------
(* Every step of a call keeps its record.                                  *)
OnlyCall(r) == reqs' = [reqs EXCEPT ![r] = reqs'[r]]

\* The fields that most steps leave alone.
Kept(r) ==
    /\ reqs'[r].kind = reqs[r].kind /\ reqs'[r].id = reqs[r].id
    /\ reqs'[r].cell = reqs[r].cell /\ reqs'[r].gate = reqs[r].gate
    /\ reqs'[r].bound = reqs[r].bound /\ reqs'[r].up = reqs[r].up
    /\ reqs'[r].srv = reqs[r].srv /\ reqs'[r].again = reqs[r].again
    /\ reqs'[r].ran = reqs[r].ran /\ reqs'[r].old = reqs[r].old

LEMMA OnlyCallOK ==
    ASSUME CallsOK, NEW r \in Reqs, OnlyCall(r), CallOK(reqs'[r])
    PROVE  CallsOK'
  BY DEF CallsOK, OnlyCall, CallOK

LEMMA GotoKeeps ==
    ASSUME CallsOK, NEW r \in Reqs, NEW pc \in Pcs, Goto(r, pc)
    PROVE  /\ OnlyCall(r) /\ Kept(r) /\ reqs'[r] \in Request
           /\ reqs'[r].pc = pc /\ reqs'[r].ans = reqs[r].ans
           /\ reqs'[r].counts = reqs[r].counts
  BY DEF CallsOK, OnlyCall, Kept, Request, Goto

\* The record that End and Refuse leave.
Ending(r, pc, a, c) ==
    reqs' = [reqs EXCEPT ![r].pc = pc, ![r].ans = a, ![r].counts = @ + c]

LEMMA EndKeeps ==
    ASSUME CallsOK, NEW r \in Reqs, NEW a \in Answers, NEW c \in {0, 1},
           NEW pc \in Pcs, Ending(r, pc, a, c)
    PROVE  /\ OnlyCall(r) /\ Kept(r) /\ reqs'[r] \in Request
           /\ reqs'[r].pc = pc /\ reqs'[r].ans = a
           /\ reqs'[r].counts = reqs[r].counts + c
<1>1. reqs[r].counts + c \in Nat
  BY DEF CallsOK, Request
<1> QED
  BY <1>1, ZenonT(40) DEF CallsOK, OnlyCall, Kept, Request, Ending

\* A call that is on its way ends with its outcome counted as it is due, and is
\* called unreachable only if it did not run.
LEMMA EndOK ==
    ASSUME CallsOK, NEW r \in Reqs, NEW a \in Answers, NEW c \in {0, 1},
           reqs[r].gate # 0, reqs[r].pc \notin Ended,
           reqs[r].counts + c = Counts(reqs[r].kind, a),
           a = "unreachable" => reqs[r].ran = 0, End(r, a, c)
    PROVE  CallsOK'
<1> DEFINE pc == IF Forwarded(r) THEN "closing" ELSE "done"
<1>1. CallOK(reqs[r])
  BY DEF CallsOK
<1>2. pc \in Pcs
  BY DEF Pcs
<1>3. /\ OnlyCall(r) /\ Kept(r) /\ reqs'[r] \in Request
      /\ reqs'[r].pc = pc /\ reqs'[r].ans = a
      /\ reqs'[r].counts = Counts(reqs[r].kind, a)
  <2>1. Ending(r, pc, a, c)
    BY DEF End, Ending
  <2> HIDE DEF pc
  <2> QED
    BY <1>2, <2>1, EndKeeps
<1>4. CallOK(reqs'[r])
  BY <1>1, <1>3 DEF CallOK, OnItsWay, Way, CountedSoFar, RunSoFar, BoundSoFar, Kept,
     Forwarded, Ended, Request
<1> QED
  BY <1>3, <1>4, OnlyCallOK

\* A call is refused before it is forwarded.
LEMMA RefuseOK ==
    ASSUME CallsOK, NEW r \in Reqs, NEW a \in Answers, NEW c \in {0, 1},
           reqs[r].counts = 0, reqs[r].ran = 0, reqs[r].pc \notin {"gate", "wire"},
           c = Counts(reqs[r].kind, a), Refuse(r, a, c)
    PROVE  CallsOK'
<1>1. CallOK(reqs[r])
  BY DEF CallsOK
<1>2. "done" \in Pcs
  BY DEF Pcs
<1>3. /\ OnlyCall(r) /\ Kept(r) /\ reqs'[r] \in Request
      /\ reqs'[r].pc = "done" /\ reqs'[r].ans = a
      /\ reqs'[r].counts = reqs[r].counts + c
  <2>1. Ending(r, "done", a, c)
    BY DEF Refuse, Ending
  <2> QED
    BY <1>2, <2>1, EndKeeps
<1>4. CallOK(reqs'[r])
  BY <1>1, <1>3 DEF CallOK, OnItsWay, Way, CountedSoFar, RunSoFar, BoundSoFar, Kept,
     Ended, Request
<1> QED
  BY <1>3, <1>4, OnlyCallOK

\* A call goes on, to where its kind goes.
LEMMA GotoOK ==
    ASSUME CallsOK, NEW r \in Reqs, NEW pc \in Pcs \ {"wire", "relay", "closing", "done"},
           reqs[r].pc \notin {"relay", "closing", "done"}, reqs[r].ran = 0,
           Way(reqs[r].kind, pc, reqs[r].gate),
           pc = "gate" => (reqs[r].bound # NoId => reqs[r].bound = reqs[r].id),
           Goto(r, pc)
    PROVE  CallsOK'
<1>1. CallOK(reqs[r])
  BY DEF CallsOK
<1>2. /\ OnlyCall(r) /\ Kept(r) /\ reqs'[r] \in Request
      /\ reqs'[r].pc = pc /\ reqs'[r].ans = reqs[r].ans
      /\ reqs'[r].counts = reqs[r].counts
  BY GotoKeeps
<1>3. OnItsWay(reqs'[r])
  BY <1>2 DEF Kept, OnItsWay
<1>4. CallOK(reqs'[r])
  BY <1>1, <1>2, <1>3 DEF CallOK, CountedSoFar, RunSoFar, BoundSoFar, Kept, Ended
<1> QED
  BY <1>2, <1>4, OnlyCallOK

LEMMA StampOK == ASSUME CallsOK, NEW r \in Reqs, Stamp(r) PROVE CallsOK'
<1> DEFINE pc == CASE reqs[r].kind \in {"send", "upload"} -> "prepare"
                   [] reqs[r].kind = "disk" -> "disk"
                   [] OTHER -> "go"
<1>1. CallOK(reqs[r]) /\ reqs[r].pc = "counted" /\ Goto(r, pc)
  BY DEF CallsOK, Stamp
<1>2. pc \in {"prepare", "disk", "go"}
  OBVIOUS
<1>3. Way(reqs[r].kind, pc, reqs[r].gate)
  BY <1>1 DEF CallOK, OnItsWay, Way
<1> HIDE DEF pc
<1> QED
  BY <1>1, <1>2, <1>3, GotoOK DEF CallOK, RunSoFar, Pcs

LEMMA ServeFileOK == ASSUME CallsOK, NEW r \in Reqs, ServeFile(r) PROVE CallsOK'
<1>1. CallOK(reqs[r]) /\ reqs[r].pc = "disk"
  BY DEF CallsOK, ServeFile
<1>2. PICK a \in {"ok", "error"} : Ending(r, "relay", a, 1)
  BY DEF ServeFile, Ending
<1>3. /\ OnlyCall(r) /\ Kept(r) /\ reqs'[r] \in Request
      /\ reqs'[r].pc = "relay" /\ reqs'[r].ans = a
      /\ reqs'[r].counts = reqs[r].counts + 1
  <2>1. a \in Answers /\ "relay" \in Pcs
    BY DEF Answers, Pcs
  <2> QED
    BY <1>2, <2>1, EndKeeps
<1>4. reqs[r].kind = "disk"
  BY <1>1 DEF CallOK, OnItsWay, Way
<1>5. CallOK(reqs'[r])
  BY <1>1, <1>3, <1>4 DEF CallOK, OnItsWay, Way, CountedSoFar, RunSoFar, BoundSoFar,
     Kept, Ended
<1> QED
  BY <1>3, <1>5, OnlyCallOK

LEMMA ReadHookOK == ASSUME CallsOK, NEW r \in Reqs, ReadHook(r) PROVE CallsOK'
<1>1. CallOK(reqs[r]) /\ reqs[r].pc = "body"
  BY DEF CallsOK, ReadHook
<1>2. /\ Way(reqs[r].kind, "drop", reqs[r].gate)
      /\ reqs[r].ran = 0 /\ reqs[r].counts = 0
  BY <1>1 DEF CallOK, OnItsWay, Way, RunSoFar, CountedSoFar
<1>3. CASE Goto(r, "drop")
  BY <1>1, <1>2, <1>3, GotoOK DEF Pcs
<1>4. ASSUME NEW a \in Answers \ {"gone", "unknown"}, Refuse(r, a, 1) PROVE CallsOK'
  BY <1>1, <1>2, <1>4, RefuseOK DEF Counts, Uncounted
<1> QED
  BY <1>3, <1>4 DEF ReadHook, Answers

LEMMA DropPendingOK == ASSUME CallsOK, NEW r \in Reqs, DropPending(r) PROVE CallsOK'
<1>1. CallOK(reqs[r]) /\ reqs[r].pc = "drop"
  BY DEF CallsOK, DropPending
<1>2. /\ Way(reqs[r].kind, "set", reqs[r].gate)
      /\ reqs[r].ran = 0 /\ reqs[r].counts = 0
  BY <1>1 DEF CallOK, OnItsWay, Way, RunSoFar, CountedSoFar
<1>3. CASE Goto(r, "set")
  BY <1>1, <1>2, <1>3, GotoOK DEF Pcs
<1>4. CASE Refuse(r, "401", 1)
  BY <1>1, <1>2, <1>4, RefuseOK DEF Answers, Counts, Uncounted
<1> QED
  BY <1>3, <1>4 DEF DropPending

LEMMA SetWebhookOK == ASSUME CallsOK, NEW r \in Reqs, SetWebhook(r) PROVE CallsOK'
<1>1. CallOK(reqs[r]) /\ reqs[r].pc = "set"
  BY DEF CallsOK, SetWebhook
<1>2. reqs[r].ran = 0 /\ reqs[r].counts = 0
  BY <1>1 DEF CallOK, RunSoFar, CountedSoFar
<1>3. Refuse(r, "local", 1) \/ Refuse(r, "401", 1)
  BY DEF SetWebhook
<1> QED
  BY <1>1, <1>2, <1>3, RefuseOK DEF Answers, Counts, Uncounted

LEMMA PrepareOK == ASSUME CallsOK, NEW r \in Reqs, Prepare(r) PROVE CallsOK'
<1>1. CallOK(reqs[r]) /\ reqs[r].pc = "prepare"
  BY DEF CallsOK, Prepare
<1>2. /\ Way(reqs[r].kind, "admit", reqs[r].gate)
      /\ reqs[r].ran = 0 /\ reqs[r].counts = 0 /\ reqs[r].gate # 0
  BY <1>1 DEF CallOK, OnItsWay, Way, RunSoFar, CountedSoFar
<1>3. CASE Goto(r, "admit")
  BY <1>1, <1>2, <1>3, GotoOK DEF Pcs
<1>4. ASSUME NEW a \in Answers \ {"gone", "unknown"}, End(r, a, 1) PROVE CallsOK'
  BY <1>1, <1>2, <1>4, EndOK DEF Ended, Counts, Uncounted
<1> QED
  BY <1>3, <1>4 DEF Prepare, Answers

LEMMA AdmitOK == ASSUME CallsOK, NEW r \in Reqs, Admit(r) PROVE CallsOK'
<1>1. CallOK(reqs[r]) /\ reqs[r].pc = "admit"
  BY DEF CallsOK, Admit
<1>2. /\ Way(reqs[r].kind, "go", reqs[r].gate)
      /\ reqs[r].ran = 0 /\ reqs[r].counts = 0 /\ reqs[r].gate # 0
  BY <1>1 DEF CallOK, OnItsWay, Way, RunSoFar, CountedSoFar
<1>3. CASE Goto(r, "go")
  BY <1>1, <1>2, <1>3, GotoOK DEF Pcs
<1>4. CASE End(r, "429", 1)
  BY <1>1, <1>2, <1>4, EndOK DEF Ended, Answers, Counts, Uncounted
<1> QED
  BY <1>3, <1>4 DEF Admit

LEMMA ArriveOK ==
    ASSUME CallsOK, WorldTypeOK, GateOK, NEW r \in Reqs, NEW t, Arrive(r, t)
    PROVE  CallsOK'
<1>1. CallOK(reqs[r]) /\ reqs[r].pc = "new" /\ reqs[r].kind # "reply"
  BY DEF CallsOK, Arrive
<1>2. reqs[r].ran = 0 /\ reqs[r].counts = 0 /\ reqs[r].gate = 0
  BY <1>1 DEF CallOK, OnItsWay, Way, RunSoFar, CountedSoFar
<1>3. /\ entry.id \in Id /\ entry.cell \in Nat /\ entry.gate \in Nat
      /\ entry.gate # 0
  BY DEF WorldTypeOK, GateOK
<1>4. ASSUME NEW a \in Answers, NEW c \in {0, 1}, c = Counts(reqs[r].kind, a), Refuse(r, a, c)
      PROVE  CallsOK'
  BY <1>1, <1>2, <1>4, RefuseOK
<1>5. CASE /\ reqs[r].kind = "hook"
           /\ reqs' = [reqs EXCEPT ![r].pc = "body", ![r].id = entry.id]
  <2>1. /\ OnlyCall(r) /\ reqs'[r] =
               [reqs[r] EXCEPT !.pc = "body", !.id = entry.id]
    BY <1>5 DEF OnlyCall, CallsOK
  <2>2. reqs[r].kind = "hook"
    BY <1>5
  <2>3. CallOK(reqs'[r])
    BY <1>1, <1>2, <1>3, <2>1, <2>2 DEF CallOK, OnItsWay, Way, CountedSoFar,
       RunSoFar, BoundSoFar, Request, Pcs, Ended
  <2> QED
    BY <2>1, <2>3, OnlyCallOK
<1>6. CASE /\ Forwarded(r)
           /\ reqs' = [reqs EXCEPT ![r].pc = "counted", ![r].id = entry.id,
                                   ![r].cell = entry.cell, ![r].gate = entry.gate]
  <2>1. /\ OnlyCall(r) /\ reqs'[r] =
               [reqs[r] EXCEPT !.pc = "counted", !.id = entry.id,
                               !.cell = entry.cell, !.gate = entry.gate]
    BY <1>6 DEF OnlyCall, CallsOK
  <2>2. reqs[r].kind \notin {"hook", "reply"}
    BY <1>6 DEF Forwarded
  <2>5. CallOK(reqs'[r])
    BY <1>1, <1>2, <1>3, <2>1, <2>2, ZenonT(40) DEF CallOK, OnItsWay, Way, CountedSoFar,
       RunSoFar, BoundSoFar, Request, Pcs, Ended
  <2> QED
    BY <2>1, <2>5, OnlyCallOK
<1>7. CASE Refuse(r, "unknown", 0)
  BY <1>4, <1>7 DEF Answers, Counts, Uncounted
<1>8. CASE Refuse(r, "rejected", 1) \/ Refuse(r, "local", 1) \/ Refuse(r, "parked", 1)
  BY <1>4, <1>8 DEF Answers, Counts, Uncounted
<1> QED
  BY <1>5, <1>6, <1>7, <1>8 DEF Arrive

LEMMA PostedOK ==
    ASSUME CallsOK, WorldTypeOK, NEW r \in Reqs, Posted(r) PROVE CallsOK'
<1>1. CallOK(reqs[r]) /\ reqs[r].pc = "new" /\ reqs[r].kind = "reply"
  BY DEF CallsOK, Posted
<1>2. PICK bound \in {NoId, engine.cap} :
          reqs' = [reqs EXCEPT ![r].pc = "replied", ![r].id = engine.id, ![r].bound = bound]
  BY DEF Posted
<1>3. bound \in Id /\ engine.id \in Id
  BY DEF WorldTypeOK, NoId, Id
<1>4. /\ OnlyCall(r)
      /\ reqs'[r] = [reqs[r] EXCEPT !.pc = "replied", !.id = engine.id, !.bound = bound]
  BY <1>2 DEF OnlyCall, CallsOK
<1>5. CallOK(reqs'[r])
  BY <1>1, <1>3, <1>4 DEF CallOK, OnItsWay, Way, CountedSoFar,
     RunSoFar, BoundSoFar, Request, Pcs, Ended
<1> QED
  BY <1>4, <1>5, OnlyCallOK

LEMMA ReplyOK ==
    ASSUME CallsOK, WorldTypeOK, GateOK, NEW r \in Reqs, Reply(r) PROVE CallsOK'
<1>1. CallOK(reqs[r]) /\ reqs[r].pc = "replied"
  BY DEF CallsOK, Reply
<1>2. /\ reqs[r].ran = 0 /\ reqs[r].counts = 0 /\ reqs[r].kind = "reply"
  BY <1>1 DEF CallOK, OnItsWay, Way, RunSoFar, CountedSoFar
<1>3. /\ entry.id \in Id /\ entry.gate \in Nat /\ entry.gate # 0
  BY DEF WorldTypeOK, GateOK
<1>4. ASSUME NEW a \in Answers \ {"gone", "unknown"}, Refuse(r, a, 1)
      PROVE  CallsOK'
  BY <1>1, <1>2, <1>4, RefuseOK DEF Counts, Uncounted
<1>5. CASE reqs' = [reqs EXCEPT ![r].pc = "admit", ![r].id = entry.id,
                                ![r].gate = entry.gate]
  <2>1. /\ OnlyCall(r)
        /\ reqs'[r] = [reqs[r] EXCEPT !.pc = "admit", !.id = entry.id,
                                      !.gate = entry.gate]
    BY <1>5 DEF OnlyCall, CallsOK
  <2>2. CallOK(reqs'[r])
    BY <1>1, <1>2, <1>3, <2>1, ZenonT(60) DEF CallOK, OnItsWay, Way, CountedSoFar,
       RunSoFar, BoundSoFar, Request, Pcs, Ended
  <2> QED
    BY <2>1, <2>2, OnlyCallOK
<1> QED
  BY <1>4, <1>5 DEF Reply, Answers

LEMMA EnterOK == ASSUME CallsOK, NEW r \in Reqs, Enter(r) PROVE CallsOK'
<1>1. CallOK(reqs[r]) /\ reqs[r].pc = "go"
  BY DEF CallsOK, Enter
<1>2. /\ Way(reqs[r].kind, "gate", reqs[r].gate)
      /\ reqs[r].ran = 0 /\ reqs[r].counts = 0
  BY <1>1 DEF CallOK, OnItsWay, Way, RunSoFar, CountedSoFar
<1>3. CASE Refuse(r, "refused", 1)
  BY <1>1, <1>2, <1>3, RefuseOK DEF Answers, Counts, Uncounted
<1>4. CASE Goto(r, "gate") /\ ~(reqs[r].kind = "reply" /\ ~HoldsToken(r))
  <2>1. reqs[r].bound # NoId => reqs[r].bound = reqs[r].id
    BY <1>1, <1>4 DEF CallOK, BoundSoFar, HoldsToken
  <2> QED
    BY <1>1, <1>2, <1>4, <2>1, GotoOK DEF Pcs
<1> QED
  BY <1>3, <1>4 DEF Enter

LEMMA PassOK == ASSUME CallsOK, NEW r \in Reqs, Pass(r) PROVE CallsOK'
<1>1. CallOK(reqs[r]) /\ reqs[r].pc = "gate"
  BY DEF CallsOK, Pass
<1>2. reqs[r].ran = 0 /\ reqs[r].counts = 0 /\ reqs[r].gate # 0
  BY <1>1 DEF CallOK, OnItsWay, Way, RunSoFar, CountedSoFar
<1>3. CASE End(r, "parked", 1)
  BY <1>1, <1>2, <1>3, EndOK DEF Ended, Answers, Counts, Uncounted
<1>4. CASE reqs' = [reqs EXCEPT ![r].pc = "wire", ![r].up = "none", ![r].srv = "none"]
  <2>1. /\ OnlyCall(r)
        /\ reqs'[r] = [reqs[r] EXCEPT !.pc = "wire", !.up = "none", !.srv = "none"]
    BY <1>4 DEF OnlyCall, CallsOK
  <2>2. CallOK(reqs'[r])
    BY <1>1, <1>2, <2>1, ZenonT(40) DEF CallOK, OnItsWay, Way, CountedSoFar,
       RunSoFar, BoundSoFar, Request, Pcs, Ended
  <2> QED
    BY <2>1, <2>2, OnlyCallOK
<1> QED
  BY <1>3, <1>4 DEF Pass

LEMMA UploadOK == ASSUME CallsOK, NEW r \in Reqs, Upload(r) PROVE CallsOK'
<1>1. CallOK(reqs[r]) /\ reqs[r].pc = "wire" /\ reqs[r].up # "ended"
  BY DEF CallsOK, Upload, OnWire
<1>2. PICK to \in {"part", "ended"} : reqs' = [reqs EXCEPT ![r].up = to]
  BY DEF Upload
<1>3. OnlyCall(r) /\ reqs'[r] = [reqs[r] EXCEPT !.up = to]
  BY <1>2 DEF OnlyCall, CallsOK
<1>4. CallOK(reqs'[r])
  BY <1>1, <1>3 DEF CallOK, OnItsWay, Way, CountedSoFar,
     RunSoFar, BoundSoFar, Request, Ended
<1> QED
  BY <1>3, <1>4, OnlyCallOK

LEMMA ServerOK == ASSUME CallsOK, NEW r \in Reqs, Server(r) PROVE CallsOK'
<1>1. CallOK(reqs[r]) /\ reqs[r].pc = "wire" /\ reqs[r].srv = "none"
  BY DEF CallsOK, Server, OnWire
<1>2. PICK s \in {"ok", "429", "error"} :
          /\ s = "error" \/ reqs[r].up = "ended"
          /\ reqs' = [reqs EXCEPT ![r].srv = s, ![r].ran = @ + (IF s = "ok" THEN 1 ELSE 0)]
  BY DEF Server
<1>3. PICK ran \in Nat : /\ ran = reqs[r].ran + (IF s = "ok" THEN 1 ELSE 0)
                         /\ ran <= 1 /\ (s # "ok" => ran = 0)
  <2>1. reqs[r].ran = 0
    BY <1>1 DEF CallOK, RunSoFar
  <2> QED
    BY <2>1
<1>4. reqs' = [reqs EXCEPT ![r].srv = s, ![r].ran = ran]
  BY <1>2, <1>3 DEF CallsOK, Request
<1>5. OnlyCall(r) /\ reqs'[r] = [reqs[r] EXCEPT !.srv = s, !.ran = ran]
  BY <1>4 DEF OnlyCall, CallsOK
<1>6. s = "error" \/ reqs[r].up = "ended"
  BY <1>2
<1>7. CallOK(reqs'[r])
  BY <1>1, <1>3, <1>5, <1>6, ZenonT(40) DEF CallOK, OnItsWay, Way, CountedSoFar,
     RunSoFar, BoundSoFar, Request, Ended
<1> QED
  BY <1>5, <1>7, OnlyCallOK

LEMMA FailsOK == ASSUME CallsOK, NEW r \in Reqs, Fails(r) PROVE CallsOK'
<1>1. CallOK(reqs[r]) /\ reqs[r].pc = "wire" /\ End(r, NoAnswer(r), 1)
  BY DEF CallsOK, Fails, OnWire
<1>2. reqs[r].counts = 0 /\ reqs[r].gate # 0
  BY <1>1 DEF CallOK, OnItsWay, Way, CountedSoFar
<1>3. NoAnswer(r) \in Answers \ {"gone", "unknown"} /\ (NoAnswer(r) = "unreachable" => reqs[r].ran = 0)
  BY <1>1 DEF CallOK, RunSoFar, NoAnswer, Answers
<1> QED
  BY <1>1, <1>2, <1>3, EndOK DEF Ended, Counts, Uncounted

LEMMA BodyFailsOK == ASSUME CallsOK, NEW r \in Reqs, BodyFails(r) PROVE CallsOK'
<1>1. CallOK(reqs[r]) /\ reqs[r].pc = "wire"
  BY DEF CallsOK, BodyFails, OnWire
<1>2. reqs[r].counts = 0 /\ reqs[r].gate # 0
  BY <1>1 DEF CallOK, OnItsWay, Way, CountedSoFar
<1>3. End(r, "closed", 1) \/ End(r, "refused", 1)
  BY DEF BodyFails
<1> QED
  BY <1>1, <1>2, <1>3, EndOK DEF Ended, Answers, Counts, Uncounted

LEMMA AnswerOK == ASSUME CallsOK, NEW r \in Reqs, Answer(r) PROVE CallsOK'
<1>1. CallOK(reqs[r]) /\ reqs[r].pc = "wire" /\ reqs[r].srv # "none"
  BY DEF CallsOK, Answer, OnWire
<1>2. /\ reqs[r].counts = 0 /\ reqs[r].gate # 0
      /\ reqs[r].srv \in {"ok", "429", "error"}
  BY <1>1 DEF CallOK, OnItsWay, Way, CountedSoFar, Request
<1>3. CASE reqs[r].kind = "reply" /\ End(r, reqs[r].srv, 1)
  BY <1>1, <1>2, <1>3, EndOK DEF Ended, Answers, Counts, Uncounted
<1>4. CASE reqs[r].kind = "send" /\ reqs[r].srv = "429" /\ Goto(r, "flood")
  <2>1. reqs[r].ran = 0 /\ Way(reqs[r].kind, "flood", reqs[r].gate)
    BY <1>1, <1>2, <1>4 DEF CallOK, RunSoFar, Way
  <2> QED
    BY <1>1, <1>4, <2>1, GotoOK DEF Pcs
<1>5. CASE reqs[r].kind # "reply" /\ Relayed(r)
  <2>1. /\ OnlyCall(r)
        /\ reqs'[r] = [reqs[r] EXCEPT !.pc = "relay", !.ans = reqs[r].srv]
    BY <1>5 DEF OnlyCall, CallsOK, Relayed
  <2>2. reqs[r].kind # "disk" /\ reqs[r].kind # "hook" /\ reqs[r].kind # "reply"
    BY <1>1, <1>5 DEF CallOK, OnItsWay, Way
  <2>3. CallOK(reqs'[r])
    BY <1>1, <1>2, <2>1, <2>2, ZenonT(40) DEF CallOK, OnItsWay, Way, CountedSoFar,
       RunSoFar, BoundSoFar, Request, Pcs, Ended, Answers
  <2> QED
    BY <2>1, <2>3, OnlyCallOK
<1> QED
  BY <1>3, <1>4, <1>5 DEF Answer, ReplyAnswered

LEMMA FloodOK == ASSUME CallsOK, NEW r \in Reqs, Flood(r) PROVE CallsOK'
<1>1. CallOK(reqs[r]) /\ reqs[r].pc = "flood"
  BY DEF CallsOK, Flood
<1>2. reqs[r].ran = 0 /\ reqs[r].counts = 0 /\ reqs[r].gate # 0
  BY <1>1 DEF CallOK, OnItsWay, Way, RunSoFar, CountedSoFar
<1>3. CASE End(r, "429", 1) \/ End(r, "unreachable", 1)
  BY <1>1, <1>2, <1>3, EndOK DEF Ended, Answers, Counts, Uncounted
<1>4. CASE reqs' = [reqs EXCEPT ![r].pc = "admit", ![r].again = TRUE]
  <2>1. OnlyCall(r) /\ reqs'[r] = [reqs[r] EXCEPT !.pc = "admit", !.again = TRUE]
    BY <1>4 DEF OnlyCall, CallsOK
  <2>2. CallOK(reqs'[r])
    BY <1>1, <1>2, <2>1 DEF CallOK, OnItsWay, Way, CountedSoFar,
       RunSoFar, BoundSoFar, Request, Pcs, Ended
  <2> QED
    BY <2>1, <2>2, OnlyCallOK
<1> QED
  BY <1>3, <1>4 DEF Flood

LEMMA RelayOK == ASSUME CallsOK, NEW r \in Reqs, Relay(r) PROVE CallsOK'
<1>1. CallOK(reqs[r]) /\ reqs[r].pc = "relay"
  BY DEF CallsOK, Relay
<1>2. /\ reqs[r].gate # 0 /\ reqs[r].counts + Tallied(r) = 1 /\ Tallied(r) \in {0, 1}
      /\ reqs[r].ans \in {"ok", "429", "error"}
  BY <1>1 DEF CallOK, OnItsWay, Way, CountedSoFar, RunSoFar, Ended, Tallied, Request
<1>3. PICK a \in Answers \ {"unreachable", "gone", "unknown"} : End(r, a, Tallied(r))
  BY <1>2 DEF Relay, Learn, Answers
<1> QED
  BY <1>1, <1>2, <1>3, EndOK DEF Ended, Counts, Uncounted

LEMMA ClosedOK == ASSUME CallsOK, NEW r \in Reqs, Closed(r) PROVE CallsOK'
<1>1. CallOK(reqs[r]) /\ reqs[r].pc = "closing" /\ Goto(r, "done")
  BY DEF CallsOK, Closed, Goto
<1>2. /\ OnlyCall(r) /\ Kept(r) /\ reqs'[r] \in Request
      /\ reqs'[r].pc = "done" /\ reqs'[r].ans = reqs[r].ans
      /\ reqs'[r].counts = reqs[r].counts
  BY <1>1, GotoKeeps DEF Pcs
<1>3. CallOK(reqs'[r])
  BY <1>1, <1>2 DEF CallOK, OnItsWay, Way, CountedSoFar, RunSoFar, BoundSoFar, Kept, Ended
<1> QED
  BY <1>2, <1>3, OnlyCallOK

LEMMA ClientGoneOK == ASSUME CallsOK, NEW r \in Reqs, ClientGone(r) PROVE CallsOK'
<1>1. CallOK(reqs[r]) /\ reqs[r].kind # "reply"
  BY DEF CallsOK, ClientGone
<1>2. CASE /\ \/ reqs[r].pc \in {"prepare", "flood", "wire"}
              \/ reqs[r].pc = "go" /\ reqs[r].kind \in {"send", "upload"}
           /\ End(r, "gone", 1)
  <2>1. /\ reqs[r].counts = 0 /\ reqs[r].gate # 0
        /\ reqs[r].kind \notin {"hook", "disk", "reply"}
    BY <1>1, <1>2 DEF CallOK, OnItsWay, Way, CountedSoFar, Ended
  <2> QED
    BY <1>2, <2>1, EndOK DEF Ended, Answers, Counts, Uncounted
<1>3. CASE reqs[r].pc = "disk" /\ End(r, "gone", 0)
  <2>1. reqs[r].counts = 0 /\ reqs[r].gate # 0 /\ reqs[r].kind = "disk"
    BY <1>1, <1>3 DEF CallOK, OnItsWay, Way, CountedSoFar
  <2> QED
    BY <1>3, <2>1, EndOK DEF Ended, Answers, Counts, Uncounted
<1>4. CASE reqs[r].pc = "body" /\ Refuse(r, "gone", 0)
  <2>1. reqs[r].ran = 0 /\ reqs[r].counts = 0 /\ reqs[r].kind = "hook"
    BY <1>1, <1>4 DEF CallOK, OnItsWay, Way, RunSoFar, CountedSoFar, Request, Kinds
  <2> QED
    BY <1>1, <1>4, <2>1, RefuseOK DEF Answers, Counts, Uncounted
<1> QED
  BY <1>2, <1>3, <1>4 DEF ClientGone

LEMMA ReplyDroppedOK == ASSUME CallsOK, NEW r \in Reqs, ReplyDropped(r) PROVE CallsOK'
<1>1. CallOK(reqs[r]) /\ reqs[r].kind = "reply" /\ reqs[r].pc \in {"go", "wire"}
  BY DEF CallsOK, ReplyDropped
<1>2. reqs[r].counts = 0 /\ reqs[r].gate # 0 /\ End(r, "gone", 0)
  BY <1>1 DEF CallOK, OnItsWay, Way, CountedSoFar, ReplyDropped
<1> QED
  BY <1>1, <1>2, EndOK DEF Ended, Answers, Counts, Uncounted

LEMMA QuietPassesOK == ASSUME CallsOK, QuietPasses PROVE CallsOK'
<1>1. reqs' = [r \in Reqs |-> [reqs[r] EXCEPT !.old = reqs[r].pc \in Ended]]
  BY DEF QuietPasses
<1>2. ASSUME NEW r \in Reqs PROVE CallOK(reqs'[r])
  <2>1. PICK b \in BOOLEAN : b = (reqs[r].pc \in Ended)
    <3>1. CASE reqs[r].pc \in Ended
      BY <3>1, TRUE = (reqs[r].pc \in Ended), Zenon
    <3>2. CASE reqs[r].pc \notin Ended
      BY <3>2, FALSE = (reqs[r].pc \in Ended), Zenon
    <3> QED
      BY <3>1, <3>2
  <2>2. reqs'[r] = [reqs[r] EXCEPT !.old = b]
    BY <1>1, <2>1
  <2>3. CallOK(reqs[r])
    BY DEF CallsOK
  <2> QED
    BY <2>2, <2>3 DEF CallOK, OnItsWay, Way, CountedSoFar, RunSoFar, BoundSoFar, Request,
       Ended
<1>3. reqs' \in [Reqs -> Request]
  BY <1>1, <1>2 DEF CallOK
<1> QED
  BY <1>2, <1>3 DEF CallsOK

CallStep(r) == Steps(r) \/ Posted(r) \/ ClientGone(r) \/ ReplyDropped(r) \/ \E t \in {1, 2} : Arrive(r, t)

LEMMA CallsStep ==
    ASSUME CallsOK, WorldTypeOK, GateOK, [Next]_vars
    PROVE  CallsOK'
<1>1. ASSUME NEW r \in Reqs, CallStep(r) PROVE CallsOK'
  BY <1>1, StampOK, ServeFileOK, ReadHookOK, DropPendingOK, SetWebhookOK, PrepareOK,
     ReplyOK, AdmitOK, EnterOK, PassOK, UploadOK, ServerOK, FailsOK, BodyFailsOK,
     AnswerOK, FloodOK, RelayOK, ClosedOK, PostedOK, ClientGoneOK, ReplyDroppedOK, ArriveOK
     DEF CallStep, Steps
<1>2. CASE QuietPasses
  BY <1>2, QuietPassesOK
<1>3. CASE reqs' = reqs
  BY <1>3 DEF CallsOK
<1> QED
  BY <1>1, <1>2, <1>3 DEF Next, CallStep, Around, vars, Apply, SetBots, SetIdentity,
     Park, LogOut, DrainLooks, DrainDecides

-----------------------------------------------------------------------------
(* What a step of a call does to the counts: it moves that call only, into *)
(* the count of those in flight or of those in its gate, or out of it.     *)

FlightType == flight \in [count : Int, recent : BOOLEAN]

Flies(q) == q.kind \notin {"hook", "reply"} /\ q.pc \notin {"new", "done"}
Flying(q) == IF Flies(q) THEN 1 ELSE 0
Sent(q) == q.pc \in {"gate", "wire"}

\* The call and the count of those in flight; its end is stamped.
Moves(r) ==
    /\ OnlyCall(r) /\ reqs[r].pc # "done"
    /\ reqs'[r].kind = reqs[r].kind /\ reqs'[r].old = reqs[r].old
    /\ \/ reqs'[r].gate = reqs[r].gate /\ (reqs[r].gate # 0 => reqs'[r].id = reqs[r].id)
       \/ /\ reqs[r].gate = 0 /\ reqs'[r].gate = entry.gate /\ reqs'[r].id = entry.id
          /\ ~Sent(reqs'[r])
    /\ FlightType'
    /\ flight'.count = flight.count + Flying(reqs'[r]) - Flying(reqs[r])
    /\ flight.recent => flight'.recent
    /\ Forwarded(r) /\ reqs'[r].gate # 0 /\ reqs'[r].pc \in Ended =>
          flight'.recent \/ reqs[r].pc \in Ended

\* The count of those in the call's gate.
Sends(r) ==
    \/ gates' = gates /\ (Sent(reqs'[r]) <=> Sent(reqs[r]))
    \/ ~Sent(reqs[r]) /\ Sent(reqs'[r]) /\ gates' = [gates EXCEPT ![reqs[r].gate].sending = @ + 1]
    \/ Sent(reqs[r]) /\ ~Sent(reqs'[r]) /\ Leave(r)

\* Only a call that finds its gate open goes on the wire.
GoesOut(r) == reqs'[r].pc = "wire" => reqs[r].pc = "wire" \/ ~gates[reqs[r].gate].parked

LEMMA EndMoves ==
    ASSUME CallsOK, FlightType, NEW r \in Reqs, NEW a \in Answers, NEW c \in {0, 1},
           reqs[r].gate # 0, reqs[r].pc \notin Ended, End(r, a, c)
    PROVE  Moves(r) /\ ~Sent(reqs'[r])
<1> DEFINE pc == IF Forwarded(r) THEN "closing" ELSE "done"
<1>1. CallOK(reqs[r])
  BY DEF CallsOK
<1>2. pc \in Pcs
  BY DEF Pcs
<1>3. /\ OnlyCall(r) /\ Kept(r) /\ reqs'[r].pc = pc
  <2>1. Ending(r, pc, a, c)
    BY DEF End, Ending
  <2> HIDE DEF pc
  <2> QED
    BY <1>2, <2>1, EndKeeps
<1>4. Flies(reqs'[r]) <=> Flies(reqs[r])
  BY <1>1, <1>3 DEF Flies, Kept, CallOK, OnItsWay, Way, Forwarded, Ended
<1>5. CASE Forwarded(r)
  <2>1. flight' = [flight EXCEPT !.recent = TRUE]
    BY <1>5 DEF End
  <2>2. FlightType' /\ flight'.count = flight.count /\ flight'.recent
    BY <2>1 DEF FlightType
  <2> QED
    BY <1>3, <1>4, <1>5, <2>2 DEF Moves, Kept, Flying, FlightType, Ended, Sent
<1>6. CASE ~Forwarded(r)
  <2>1. flight' = flight
    BY <1>6 DEF End
  <2> QED
    BY <1>3, <1>4, <1>6, <2>1 DEF Moves, Kept, Flying, FlightType, Ended, Sent
<1> QED
  BY <1>5, <1>6

LEMMA RefuseMoves ==
    ASSUME CallsOK, FlightType, NEW r \in Reqs, NEW a \in Answers, NEW c \in {0, 1},
           reqs[r].pc # "done", reqs[r].pc = "new" \/ ~Forwarded(r), Refuse(r, a, c)
    PROVE  Moves(r) /\ ~Sent(reqs'[r])
<1>1. CallOK(reqs[r])
  BY DEF CallsOK
<1>2. OnlyCall(r) /\ Kept(r) /\ reqs'[r].pc = "done"
  <2>1. Ending(r, "done", a, c) /\ "done" \in Pcs
    BY DEF Refuse, Ending, Pcs
  <2> QED
    BY <2>1, EndKeeps
<1>3. flight' = flight
  BY DEF Refuse
<1>4. ~Flies(reqs[r]) /\ ~Flies(reqs'[r])
  BY <1>2 DEF Flies, Kept, Forwarded
<1>5. ~(Forwarded(r) /\ reqs'[r].gate # 0)
  BY <1>1, <1>2 DEF CallOK, OnItsWay, Way, Kept, Forwarded
<1> QED
  BY <1>2, <1>3, <1>4, <1>5 DEF Moves, Kept, Flying, FlightType, Sent

LEMMA GotoMoves ==
    ASSUME CallsOK, FlightType, NEW r \in Reqs, NEW pc \in Pcs \ {"new", "closing", "done"},
           reqs[r].pc \notin {"new", "closing", "done"}, Goto(r, pc), flight' = flight
    PROVE  Moves(r) /\ reqs'[r].pc = pc
<1>1. OnlyCall(r) /\ Kept(r) /\ reqs'[r].pc = pc
  BY GotoKeeps
<1>2. Flies(reqs[r]) <=> Flies(reqs'[r])
  BY <1>1 DEF Flies, Kept
<1> QED
  BY <1>1, <1>2 DEF Moves, Kept, Flying, FlightType, Ended

AllMoves(r) == Moves(r) /\ Sends(r) /\ GoesOut(r)

LEMMA StampMoves ==
    ASSUME CallsOK, FlightType, NEW r \in Reqs, Stamp(r) PROVE AllMoves(r)
<1> DEFINE pc == CASE reqs[r].kind \in {"send", "upload"} -> "prepare"
                   [] reqs[r].kind = "disk" -> "disk"
                   [] OTHER -> "go"
<1>1. pc \in Pcs /\ pc \in {"prepare", "disk", "go"}
  BY DEF Pcs
<1>2. reqs[r].pc = "counted" /\ Goto(r, pc) /\ gates' = gates
  BY DEF Stamp
<1>3. FlightType' /\ flight'.count = flight.count /\ flight'.recent
  BY DEF Stamp, FlightType
<1> HIDE DEF pc
<1>4. OnlyCall(r) /\ Kept(r) /\ reqs'[r].pc = pc
  BY <1>1, <1>2, GotoKeeps
<1>5. Flies(reqs[r]) <=> Flies(reqs'[r])
  BY <1>1, <1>2, <1>4 DEF Flies, Kept
<1> QED
  BY <1>1, <1>2, <1>3, <1>4, <1>5
     DEF AllMoves, Moves, Sends, GoesOut, Kept, Flying, FlightType, Ended, Sent

LEMMA HookMoves ==
    ASSUME CallsOK, FlightType, NEW r \in Reqs,
           ReadHook(r) \/ DropPending(r) \/ SetWebhook(r)
    PROVE  AllMoves(r)
<1>1. CallOK(reqs[r]) /\ reqs[r].pc \in {"body", "drop", "set"} /\ gates' = gates
  BY DEF CallsOK, ReadHook, DropPending, SetWebhook
<1>2. ~Forwarded(r) /\ ~Sent(reqs[r])
  BY <1>1 DEF CallOK, OnItsWay, Way, Forwarded, Sent
<1>3. ASSUME NEW a \in Answers, Refuse(r, a, 1) PROVE AllMoves(r)
  <2>1. Moves(r) /\ ~Sent(reqs'[r])
    BY <1>1, <1>2, <1>3, RefuseMoves
  <2> QED
    BY <1>1, <1>2, <2>1 DEF AllMoves, Sends, GoesOut, Sent
<1>4. ASSUME NEW pc \in {"drop", "set"}, Goto(r, pc), flight' = flight PROVE AllMoves(r)
  <2>1. Moves(r) /\ reqs'[r].pc = pc
    BY <1>1, <1>4, GotoMoves DEF Pcs
  <2> QED
    BY <1>1, <1>2, <2>1 DEF AllMoves, Sends, GoesOut, Sent
<1> QED
  BY <1>3, <1>4 DEF ReadHook, DropPending, SetWebhook, Answers

\* The call is the same one, of the same bot.
SameCall(r) == /\ reqs'[r].kind = reqs[r].kind /\ reqs'[r].id = reqs[r].id
               /\ reqs'[r].gate = reqs[r].gate /\ reqs'[r].old = reqs[r].old

LEMMA ServeFileMoves ==
    ASSUME CallsOK, FlightType, NEW r \in Reqs, ServeFile(r) PROVE AllMoves(r)
<1>1. reqs[r].pc = "disk" /\ gates' = gates /\ flight' = flight
  BY DEF ServeFile
<1>2. PICK a \in {"ok", "error"} : Ending(r, "relay", a, 1)
  BY DEF ServeFile, Ending
<1>3. OnlyCall(r) /\ Kept(r) /\ reqs'[r].pc = "relay"
  <2>1. a \in Answers /\ "relay" \in Pcs
    BY DEF Answers, Pcs
  <2> QED
    BY <1>2, <2>1, EndKeeps
<1>4. Flies(reqs[r]) <=> Flies(reqs'[r])
  BY <1>1, <1>3 DEF Flies, Kept
<1> QED
  BY <1>1, <1>3, <1>4
     DEF AllMoves, Moves, Sends, GoesOut, Kept, Flying, FlightType, Ended, Sent

LEMMA AdmitMoves ==
    ASSUME CallsOK, FlightType, NEW r \in Reqs, Prepare(r) \/ Admit(r) PROVE AllMoves(r)
<1>1. CallOK(reqs[r]) /\ reqs[r].pc \in {"prepare", "admit"} /\ gates' = gates
  BY DEF CallsOK, Prepare, Admit
<1>2. reqs[r].gate # 0 /\ ~Sent(reqs[r])
  BY <1>1 DEF CallOK, OnItsWay, Way, Sent
<1>3. ASSUME NEW a \in Answers, End(r, a, 1) PROVE AllMoves(r)
  <2>1. Moves(r) /\ ~Sent(reqs'[r])
    BY <1>1, <1>2, <1>3, EndMoves DEF Ended
  <2> QED
    BY <1>1, <1>2, <2>1 DEF AllMoves, Sends, GoesOut, Sent
<1>4. ASSUME NEW pc \in {"admit", "go"}, Goto(r, pc), flight' = flight PROVE AllMoves(r)
  <2>1. Moves(r) /\ reqs'[r].pc = pc
    BY <1>1, <1>4, GotoMoves DEF Pcs
  <2> QED
    BY <1>1, <1>2, <2>1 DEF AllMoves, Sends, GoesOut, Sent
<1> QED
  BY <1>3, <1>4 DEF Prepare, Admit, Answers

LEMMA ArriveMoves ==
    ASSUME CallsOK, FlightType, NEW r \in Reqs, NEW t, Arrive(r, t) PROVE AllMoves(r)
<1>1. CallOK(reqs[r]) /\ reqs[r].pc = "new" /\ gates' = gates
  BY DEF CallsOK, Arrive
<1>2. ~Sent(reqs[r]) /\ ~Flies(reqs[r]) /\ reqs[r].gate = 0
  BY <1>1 DEF CallOK, OnItsWay, Way, Sent, Flies
<1>3. ASSUME NEW a \in Answers, NEW c \in {0, 1}, Refuse(r, a, c) PROVE AllMoves(r)
  <2>1. Moves(r) /\ ~Sent(reqs'[r])
    BY <1>1, <1>3, RefuseMoves
  <2> QED
    BY <1>1, <1>2, <2>1 DEF AllMoves, Sends, GoesOut, Sent
<1>4. CASE /\ reqs[r].kind = "hook"
           /\ reqs' = [reqs EXCEPT ![r].pc = "body", ![r].id = entry.id]
           /\ flight' = flight
  <2>1. /\ OnlyCall(r)
        /\ reqs'[r] = [reqs[r] EXCEPT !.pc = "body", !.id = entry.id]
    BY <1>4 DEF OnlyCall, CallsOK
  <2>2. reqs[r].kind = "hook" /\ flight' = flight
    BY <1>4
  <2>3. /\ reqs'[r].pc = "body" /\ reqs'[r].kind = "hook"
        /\ reqs'[r].gate = 0 /\ reqs'[r].old = reqs[r].old
    BY <1>1, <1>2, <2>1, <2>2 DEF CallOK, Request
  <2> HIDE <1>4
  <2>4. ~Flies(reqs'[r])
    BY <2>3 DEF Flies
  <2> QED
    BY <1>1, <1>2, <2>1, <2>2, <2>3, <2>4
       DEF AllMoves, Moves, Sends, GoesOut, Flying, FlightType, Ended, Sent
<1>5. CASE /\ Forwarded(r)
           /\ reqs' = [reqs EXCEPT ![r].pc = "counted", ![r].id = entry.id,
                                   ![r].cell = entry.cell, ![r].gate = entry.gate]
           /\ flight' = [flight EXCEPT !.count = @ + 1]
  <2>1. /\ OnlyCall(r)
        /\ reqs'[r] = [reqs[r] EXCEPT !.pc = "counted", !.id = entry.id,
                                      !.cell = entry.cell, !.gate = entry.gate]
    BY <1>5 DEF OnlyCall, CallsOK
  <2>2. /\ FlightType' /\ flight'.count = flight.count + 1 /\ flight'.recent = flight.recent
    BY <1>5 DEF FlightType
  <2>3. reqs[r].kind \notin {"hook", "reply"}
    BY <1>5 DEF Forwarded
  <2>4. /\ reqs'[r].pc = "counted" /\ reqs'[r].kind = reqs[r].kind
        /\ reqs'[r].id = entry.id /\ reqs'[r].gate = entry.gate
        /\ reqs'[r].old = reqs[r].old
    BY <1>1, <2>1 DEF CallOK, Request
  <2>5. Flies(reqs'[r])
    BY <2>3, <2>4 DEF Flies
  <2> QED
    BY <1>1, <1>2, <2>1, <2>2, <2>4, <2>5
       DEF AllMoves, Moves, Sends, GoesOut, Flying, FlightType, Ended, Sent
<1> QED
  BY <1>3, <1>4, <1>5 DEF Arrive, Answers

LEMMA ReplyMoves ==
    ASSUME CallsOK, FlightType, NEW r \in Reqs, Posted(r) \/ Reply(r) PROVE AllMoves(r)
<1>1. /\ CallOK(reqs[r]) /\ gates' = gates
      /\ reqs[r].pc = "replied" \/ (reqs[r].pc = "new" /\ reqs[r].kind = "reply")
  BY DEF CallsOK, Posted, Reply
<1>2. ~Sent(reqs[r]) /\ reqs[r].kind = "reply" /\ reqs[r].gate = 0
  BY <1>1 DEF CallOK, OnItsWay, Way, Sent
<1>3. ASSUME NEW a \in Answers, Refuse(r, a, 1) PROVE AllMoves(r)
  <2>1. Moves(r) /\ ~Sent(reqs'[r])
    BY <1>1, <1>2, <1>3, RefuseMoves DEF Forwarded
  <2> QED
    BY <1>1, <1>2, <2>1 DEF AllMoves, Sends, GoesOut, Sent
<1>4. ASSUME flight' = flight, OnlyCall(r), reqs'[r].pc \in {"replied", "admit"},
             reqs'[r].kind = reqs[r].kind, reqs'[r].old = reqs[r].old,
             reqs'[r].gate = 0 \/ (reqs'[r].gate = entry.gate /\ reqs'[r].id = entry.id)
      PROVE  AllMoves(r)
  <2>1. ~Flies(reqs[r]) /\ ~Flies(reqs'[r]) /\ ~Sent(reqs'[r]) /\ ~Forwarded(r)
    BY <1>2, <1>4 DEF Flies, Sent, Forwarded
  <2> QED
    BY <1>1, <1>2, <1>4, <2>1
       DEF AllMoves, Moves, Sends, GoesOut, Flying, FlightType, Sent
<1>5. CASE Posted(r)
  <2>1. PICK bound \in {NoId, engine.cap} :
            reqs' = [reqs EXCEPT ![r].pc = "replied", ![r].id = engine.id, ![r].bound = bound]
    BY <1>5 DEF Posted
  <2>2. /\ OnlyCall(r) /\ flight' = flight
        /\ reqs'[r] = [reqs[r] EXCEPT !.pc = "replied", !.id = engine.id, !.bound = bound]
    BY <1>5, <2>1 DEF OnlyCall, CallsOK, Posted
  <2>3. /\ reqs'[r].pc = "replied" /\ reqs'[r].kind = reqs[r].kind
        /\ reqs'[r].old = reqs[r].old /\ reqs'[r].gate = 0
    BY <1>1, <1>2, <2>2 DEF CallOK, Request
  <2> QED
    BY <1>4, <2>2, <2>3
<1>6. CASE Reply(r)
  <2>1. CASE /\ flight' = flight
             /\ reqs' = [reqs EXCEPT ![r].pc = "admit", ![r].id = entry.id,
                                     ![r].gate = entry.gate]
    <3>1. /\ OnlyCall(r) /\ flight' = flight
          /\ reqs'[r] = [reqs[r] EXCEPT !.pc = "admit", !.id = entry.id, !.gate = entry.gate]
      BY <2>1 DEF OnlyCall, CallsOK
    <3>2. /\ reqs'[r].pc = "admit" /\ reqs'[r].kind = reqs[r].kind
          /\ reqs'[r].old = reqs[r].old /\ reqs'[r].gate = entry.gate
          /\ reqs'[r].id = entry.id
      BY <1>1, <3>1 DEF CallOK, Request
    <3> QED
      BY <1>4, <3>1, <3>2
  <2> QED
    BY <1>3, <1>6, <2>1 DEF Reply, Answers
<1> QED
  BY <1>5, <1>6

LEMMA EnterMoves ==
    ASSUME CallsOK, FlightType, NEW r \in Reqs, Enter(r) PROVE AllMoves(r)
<1>1. CallOK(reqs[r]) /\ reqs[r].pc = "go" /\ ~Sent(reqs[r])
  BY DEF CallsOK, Enter, Sent
<1>2. CASE reqs[r].kind = "reply" /\ Refuse(r, "refused", 1) /\ gates' = gates
  <2>1. Moves(r) /\ ~Sent(reqs'[r])
    BY <1>1, <1>2, RefuseMoves DEF Forwarded, Answers
  <2> QED
    BY <1>1, <1>2, <2>1 DEF AllMoves, Sends, GoesOut, Sent
<1>3. CASE /\ Goto(r, "gate") /\ flight' = flight
           /\ gates' = [gates EXCEPT ![reqs[r].gate].sending = @ + 1]
  <2>1. Moves(r) /\ reqs'[r].pc = "gate"
    BY <1>1, <1>3, GotoMoves DEF Pcs
  <2> QED
    BY <1>1, <1>3, <2>1 DEF AllMoves, Sends, GoesOut, Sent
<1> QED
  BY <1>2, <1>3 DEF Enter

LEMMA PassMoves ==
    ASSUME CallsOK, FlightType, NEW r \in Reqs, Pass(r) PROVE AllMoves(r)
<1>1. CallOK(reqs[r]) /\ reqs[r].pc = "gate" /\ Sent(reqs[r])
  BY DEF CallsOK, Pass, Sent
<1>2. reqs[r].gate # 0
  BY <1>1 DEF CallOK, OnItsWay, Way
<1>3. CASE End(r, "parked", 1) /\ Leave(r)
  <2>1. Moves(r) /\ ~Sent(reqs'[r])
    BY <1>1, <1>2, <1>3, EndMoves DEF Ended, Answers
  <2> QED
    BY <1>1, <1>3, <2>1 DEF AllMoves, Sends, GoesOut, Sent
<1>4. CASE /\ ~gates[reqs[r].gate].parked /\ gates' = gates /\ flight' = flight
           /\ reqs' = [reqs EXCEPT ![r].pc = "wire", ![r].up = "none", ![r].srv = "none"]
  <2>1. /\ OnlyCall(r)
        /\ reqs'[r] = [reqs[r] EXCEPT !.pc = "wire", !.up = "none", !.srv = "none"]
    BY <1>4 DEF OnlyCall, CallsOK
  <2>2. reqs'[r].pc = "wire" /\ SameCall(r)
    BY <1>1, <2>1 DEF CallOK, Request, SameCall
  <2>3. Flies(reqs[r]) <=> Flies(reqs'[r])
    BY <1>1, <2>2 DEF Flies, SameCall
  <2>4. ~gates[reqs[r].gate].parked /\ gates' = gates /\ flight' = flight
    BY <1>4
  <2> QED
    BY <1>1, <2>1, <2>2, <2>3, <2>4
       DEF AllMoves, Moves, Sends, GoesOut, SameCall, Flying, FlightType, Ended, Sent
<1> QED
  BY <1>3, <1>4 DEF Pass

LEMMA WireMoves ==
    ASSUME CallsOK, FlightType, NEW r \in Reqs, Upload(r) \/ Server(r) PROVE AllMoves(r)
<1>1. /\ CallOK(reqs[r]) /\ reqs[r].pc = "wire" /\ Sent(reqs[r])
      /\ gates' = gates /\ flight' = flight
  BY DEF CallsOK, Upload, Server, OnWire, Sent
<1>2. OnlyCall(r) /\ reqs'[r].pc = "wire" /\ SameCall(r)
  <2>1. CASE Upload(r)
    <3>1. PICK to \in {"part", "ended"} : reqs' = [reqs EXCEPT ![r].up = to]
      BY <2>1 DEF Upload
    <3>2. OnlyCall(r) /\ reqs'[r] = [reqs[r] EXCEPT !.up = to]
      BY <3>1 DEF OnlyCall, CallsOK
    <3> QED
      BY <1>1, <3>2 DEF CallOK, Request, SameCall
  <2>2. CASE Server(r)
    <3>1. PICK s, ran : reqs' = [reqs EXCEPT ![r].srv = s, ![r].ran = ran]
      BY <2>2 DEF Server
    <3>2. OnlyCall(r) /\ reqs'[r] = [reqs[r] EXCEPT !.srv = s, !.ran = ran]
      BY <3>1 DEF OnlyCall, CallsOK
    <3> QED
      BY <1>1, <3>2 DEF CallOK, Request, SameCall
  <2> QED
    BY <2>1, <2>2
<1>3. Flies(reqs[r]) <=> Flies(reqs'[r])
  BY <1>1, <1>2 DEF Flies, SameCall
<1> QED
  BY <1>1, <1>2, <1>3
     DEF AllMoves, Moves, Sends, GoesOut, SameCall, Flying, FlightType, Ended, Sent

LEMMA LeavesMoves ==
    ASSUME CallsOK, FlightType, NEW r \in Reqs, NEW a \in Answers, NEW c \in {0, 1},
           OnWire(r), End(r, a, c), Leave(r)
    PROVE  AllMoves(r)
<1>1. CallOK(reqs[r]) /\ reqs[r].pc = "wire" /\ Sent(reqs[r])
  BY DEF CallsOK, OnWire, Sent
<1>2. reqs[r].gate # 0
  BY <1>1 DEF CallOK, OnItsWay, Way
<1>3. Moves(r) /\ ~Sent(reqs'[r])
  BY <1>1, <1>2, EndMoves DEF Ended
<1> QED
  BY <1>1, <1>3 DEF AllMoves, Sends, GoesOut, Sent

LEMMA FailsMoves ==
    ASSUME CallsOK, FlightType, NEW r \in Reqs, Fails(r) \/ BodyFails(r) PROVE AllMoves(r)
<1>1. OnWire(r) /\ Leave(r)
  BY DEF Fails, BodyFails
<1>2. PICK a \in Answers : End(r, a, 1)
  <2>1. NoAnswer(r) \in Answers /\ "closed" \in Answers /\ "refused" \in Answers
    BY DEF NoAnswer, Answers
  <2> QED
    BY <2>1 DEF Fails, BodyFails
<1> QED
  BY <1>1, <1>2, LeavesMoves

LEMMA AnswerMoves ==
    ASSUME CallsOK, FlightType, NEW r \in Reqs, Answer(r) PROVE AllMoves(r)
<1>1. /\ CallOK(reqs[r]) /\ reqs[r].pc = "wire" /\ Sent(reqs[r]) /\ OnWire(r) /\ Leave(r)
  BY DEF CallsOK, Answer, OnWire, Sent
<1>2. CASE End(r, reqs[r].srv, 1)
  <2>1. reqs[r].srv \in Answers
    BY <1>1 DEF CallOK, Request, Answers
  <2> QED
    BY <1>1, <1>2, <2>1, LeavesMoves
<1>3. CASE Goto(r, "flood") /\ flight' = flight
  <2>1. Moves(r) /\ reqs'[r].pc = "flood"
    BY <1>1, <1>3, GotoMoves DEF Pcs
  <2> QED
    BY <1>1, <2>1 DEF AllMoves, Sends, GoesOut, Sent
<1>4. CASE Relayed(r)
  <2>1. /\ OnlyCall(r) /\ flight' = flight
        /\ reqs'[r] = [reqs[r] EXCEPT !.pc = "relay", !.ans = reqs[r].srv]
    BY <1>4 DEF OnlyCall, CallsOK, Relayed
  <2>2. reqs'[r].pc = "relay" /\ SameCall(r)
    BY <1>1, <2>1 DEF CallOK, Request, SameCall
  <2>3. Flies(reqs[r]) <=> Flies(reqs'[r])
    BY <1>1, <2>2 DEF Flies, SameCall
  <2> QED
    BY <1>1, <2>1, <2>2, <2>3
       DEF AllMoves, Moves, Sends, GoesOut, SameCall, Flying, FlightType, Ended, Sent
<1> QED
  BY <1>2, <1>3, <1>4 DEF Answer, ReplyAnswered

LEMMA FloodMoves ==
    ASSUME CallsOK, FlightType, NEW r \in Reqs, Flood(r) PROVE AllMoves(r)
<1>1. CallOK(reqs[r]) /\ reqs[r].pc = "flood" /\ ~Sent(reqs[r]) /\ gates' = gates
  BY DEF CallsOK, Flood, Sent
<1>2. reqs[r].gate # 0
  BY <1>1 DEF CallOK, OnItsWay, Way
<1>3. CASE End(r, "429", 1) \/ End(r, "unreachable", 1)
  <2>1. Moves(r) /\ ~Sent(reqs'[r])
    BY <1>1, <1>2, <1>3, EndMoves DEF Ended, Answers
  <2> QED
    BY <1>1, <2>1 DEF AllMoves, Sends, GoesOut, Sent
<1>4. CASE /\ reqs' = [reqs EXCEPT ![r].pc = "admit", ![r].again = TRUE]
           /\ flight' = flight
  <2>1. /\ OnlyCall(r) /\ flight' = flight
        /\ reqs'[r] = [reqs[r] EXCEPT !.pc = "admit", !.again = TRUE]
    BY <1>4 DEF OnlyCall, CallsOK
  <2>2. reqs'[r].pc = "admit" /\ SameCall(r)
    BY <1>1, <2>1 DEF CallOK, Request, SameCall
  <2>3. Flies(reqs[r]) <=> Flies(reqs'[r])
    BY <1>1, <2>2 DEF Flies, SameCall
  <2> QED
    BY <1>1, <2>1, <2>2, <2>3
       DEF AllMoves, Moves, Sends, GoesOut, SameCall, Flying, FlightType, Ended, Sent
<1> QED
  BY <1>3, <1>4 DEF Flood

LEMMA RelayMoves ==
    ASSUME CallsOK, FlightType, NEW r \in Reqs, Relay(r) PROVE AllMoves(r)
<1>1. CallOK(reqs[r]) /\ reqs[r].pc = "relay" /\ ~Sent(reqs[r]) /\ gates' = gates
  BY DEF CallsOK, Relay, Sent
<1>2. reqs[r].gate # 0 /\ Tallied(r) \in {0, 1} /\ reqs[r].ans \in Answers
  BY <1>1 DEF CallOK, OnItsWay, Way, Tallied, Request
<1>3. PICK a \in Answers : End(r, a, Tallied(r))
  BY <1>2 DEF Relay, Learn, Answers
<1>4. Moves(r) /\ ~Sent(reqs'[r])
  BY <1>1, <1>2, <1>3, EndMoves DEF Ended
<1> QED
  BY <1>1, <1>4 DEF AllMoves, Sends, GoesOut, Sent

LEMMA ClosedMoves ==
    ASSUME CallsOK, FlightType, NEW r \in Reqs, Closed(r) PROVE AllMoves(r)
<1>1. CallOK(reqs[r]) /\ reqs[r].pc = "closing" /\ Goto(r, "done") /\ gates' = gates
  BY DEF CallsOK, Closed, Goto
<1>2. OnlyCall(r) /\ Kept(r) /\ reqs'[r].pc = "done"
  BY <1>1, GotoKeeps DEF Pcs
<1>3. Flies(reqs[r]) /\ ~Flies(reqs'[r])
  BY <1>1, <1>2 DEF CallOK, OnItsWay, Way, Flies, Kept, Request, Kinds
<1>4. FlightType' /\ flight'.count = flight.count - 1 /\ flight'.recent = flight.recent
  BY DEF Closed, FlightType
<1> QED
  BY <1>1, <1>2, <1>3, <1>4
     DEF AllMoves, Moves, Sends, GoesOut, Kept, Flying, FlightType, Ended, Sent

LEMMA ClientGoneMoves ==
    ASSUME CallsOK, FlightType, NEW r \in Reqs, ClientGone(r) PROVE AllMoves(r)
<1>1. CallOK(reqs[r])
  BY DEF CallsOK
<1>2. CASE /\ reqs[r].pc \in {"prepare", "flood", "go", "disk"} /\ gates' = gates
           /\ End(r, "gone", 1) \/ End(r, "gone", 0)
  <2>1. reqs[r].gate # 0
    BY <1>1, <1>2 DEF CallOK, OnItsWay, Way
  <2>2. Moves(r) /\ ~Sent(reqs'[r])
    BY <1>2, <2>1, EndMoves DEF Ended, Answers
  <2> QED
    BY <1>2, <2>2 DEF AllMoves, Sends, GoesOut, Sent
<1>3. CASE OnWire(r) /\ End(r, "gone", 1) /\ Leave(r)
  BY <1>3, LeavesMoves DEF Answers
<1>4. CASE reqs[r].pc = "body" /\ Refuse(r, "gone", 0) /\ gates' = gates
  <2>1. ~Forwarded(r)
    BY <1>1, <1>4 DEF CallOK, OnItsWay, Way, Forwarded
  <2>2. Moves(r) /\ ~Sent(reqs'[r])
    BY <1>4, <2>1, RefuseMoves DEF Answers
  <2> QED
    BY <1>4, <2>2 DEF AllMoves, Sends, GoesOut, Sent
<1> QED
  BY <1>2, <1>3, <1>4 DEF ClientGone, OnWire

LEMMA ReplyDroppedMoves ==
    ASSUME CallsOK, FlightType, NEW r \in Reqs, ReplyDropped(r) PROVE AllMoves(r)
<1>1. CallOK(reqs[r]) /\ End(r, "gone", 0)
  BY DEF CallsOK, ReplyDropped
<1>2. CASE reqs[r].pc = "go" /\ gates' = gates
  <2>1. reqs[r].gate # 0
    BY <1>1, <1>2 DEF CallOK, OnItsWay, Way
  <2>2. Moves(r) /\ ~Sent(reqs'[r])
    BY <1>1, <1>2, <2>1, EndMoves DEF Ended, Answers
  <2> QED
    BY <1>2, <2>2 DEF AllMoves, Sends, GoesOut, Sent
<1>3. CASE OnWire(r) /\ Leave(r)
  BY <1>1, <1>3, LeavesMoves DEF Answers
<1> QED
  BY <1>2, <1>3 DEF ReplyDropped, OnWire

LEMMA CallMoves ==
    ASSUME CallsOK, FlightType, NEW r \in Reqs, CallStep(r) PROVE AllMoves(r)
  BY StampMoves, HookMoves, ServeFileMoves, AdmitMoves, ArriveMoves, ReplyMoves, EnterMoves,
     PassMoves, WireMoves, FailsMoves, AnswerMoves, FloodMoves, RelayMoves, ClosedMoves,
     ClientGoneMoves, ReplyDroppedMoves
     DEF CallStep, Steps

LEMMA InFlightIs == ASSUME CallsOK PROVE InFlight = {r \in Reqs : Flies(reqs[r])}
  BY DEF InFlight, Forwarded, Flies

LEMMA CallFlight ==
    ASSUME CallsOK, CallsOK', CountsOK, NEW r \in Reqs, Moves(r)
    PROVE  FlightType' /\ IsFiniteSet(InFlight') /\ flight'.count = Cardinality(InFlight')
<1>1. /\ OnlyCall(r) /\ FlightType'
      /\ flight'.count = flight.count + Flying(reqs'[r]) - Flying(reqs[r])
  BY DEF Moves
<1>2. /\ IsFiniteSet(InFlight) /\ flight.count = Cardinality(InFlight)
      /\ flight.count \in Int
  BY DEF CountsOK
<1>3. \A s \in Reqs : s # r => reqs'[s] = reqs[s]
  BY <1>1 DEF OnlyCall, CallsOK
<1>4. /\ InFlight = {s \in Reqs : Flies(reqs[s])}
      /\ InFlight' = {s \in Reqs : Flies(reqs'[s])}
  <2>1. InFlight' = {s \in Reqs : Flies(reqs'[s])}
    BY DEF InFlight, Forwarded, Flies
  <2> QED
    BY <2>1, InFlightIs
<1>5. CASE Flies(reqs'[r]) <=> Flies(reqs[r])
  <2>1. InFlight' = InFlight
    BY <1>3, <1>4, <1>5
  <2> QED
    BY <1>1, <1>2, <1>5, <2>1 DEF Flying
<1>6. CASE Flies(reqs'[r]) /\ ~Flies(reqs[r])
  <2>1. InFlight' = InFlight \cup {r} /\ r \notin InFlight
    BY <1>3, <1>4, <1>6
  <2>2. IsFiniteSet(InFlight') /\ Cardinality(InFlight') = Cardinality(InFlight) + 1
    BY <1>2, <2>1, FS_AddElement
  <2> QED
    BY <1>1, <1>2, <1>6, <2>2 DEF Flying
<1>7. CASE ~Flies(reqs'[r]) /\ Flies(reqs[r])
  <2>1. InFlight' = InFlight \ {r} /\ r \in InFlight
    BY <1>3, <1>4, <1>7
  <2>2. IsFiniteSet(InFlight') /\ Cardinality(InFlight') = Cardinality(InFlight) - 1
    BY <1>2, <2>1, FS_RemoveElement
  <2> QED
    BY <1>1, <1>2, <1>7, <2>2 DEF Flying
<1> QED
  BY <1>5, <1>6, <1>7

LEMMA GateRecords ==
    ASSUME gates \in Gates
    PROVE  \A g \in 1 .. Len(gates) : gates[g] \in GateRecord
  BY DEF Gates

\* One gate changes.
LEMMA OneGate ==
    ASSUME gates \in Gates, NEW h \in 1 .. Len(gates),
           NEW w \in GateRecord, gates' = [gates EXCEPT ![h] = w]
    PROVE  /\ gates' \in Gates /\ Len(gates') = Len(gates) /\ gates'[h] = w
           /\ \A g \in 1 .. Len(gates) : g # h => gates'[g] = gates[g]
<1>1. gates \in [1 .. Len(gates) -> GateRecord] /\ Len(gates) \in Nat
  BY DEF Gates
<1>2. gates' \in [1 .. Len(gates) -> GateRecord]
  BY <1>1
<1>3. gates' \in Seq(GateRecord) /\ Len(gates') = Len(gates)
  BY <1>1, <1>2
<1> QED
  BY <1>1, <1>3 DEF Gates

\* A gate that neither gains nor loses a call keeps its count.
LEMMA CallGates ==
    ASSUME CallsOK, CallsOK', CountsOK, GateOK, NEW r \in Reqs, Moves(r), Sends(r)
    PROVE  /\ gates' \in Gates /\ Len(gates') = Len(gates)
           /\ \A g \in 1 .. Len(gates) :
                 /\ gates'[g].parked = gates[g].parked
                 /\ IsFiniteSet(InGate(g)') /\ gates'[g].sending = Cardinality(InGate(g)')
<1>1. \A s \in Reqs : s # r => reqs'[s] = reqs[s]
  BY DEF OnlyCall, CallsOK, Moves
<1>2. /\ gates \in Gates
      /\ \A g \in 1 .. Len(gates) :
            /\ IsFiniteSet(InGate(g)) /\ gates[g].sending = Cardinality(InGate(g))
            /\ gates[g] \in GateRecord
  <2>1. gates \in Gates
    BY DEF CountsOK
  <2>2. \A g \in 1 .. Len(gates) : gates[g] \in GateRecord
    BY <2>1, GateRecords
  <2> QED
    BY <2>1, <2>2 DEF CountsOK
<1>3. \A g : /\ InGate(g) = {s \in Reqs : Sent(reqs[s]) /\ reqs[s].gate = g}
             /\ InGate(g)' = {s \in Reqs : Sent(reqs'[s]) /\ reqs'[s].gate = g}
  BY DEF InGate, Sent
<1>4. /\ Sent(reqs[r]) => reqs[r].gate # 0
      /\ Sent(reqs'[r]) => reqs'[r].gate = reqs[r].gate
      /\ reqs[r].gate # 0 => /\ reqs'[r].gate = reqs[r].gate
                             /\ reqs[r].gate \in 1 .. Len(gates)
  BY DEF Sent, CallsOK, CallOK, OnItsWay, Way, GateOK, Moves
<1>5. CASE gates' = gates /\ (Sent(reqs'[r]) <=> Sent(reqs[r]))
  <2>1. ASSUME NEW g PROVE InGate(g)' = InGate(g)
    BY <1>1, <1>3, <1>4, <1>5
  <2> QED
    BY <1>2, <1>5, <2>1
<1>6. CASE /\ ~Sent(reqs[r]) /\ Sent(reqs'[r])
           /\ gates' = [gates EXCEPT ![reqs[r].gate].sending = @ + 1]
  <2>1. reqs'[r].gate = reqs[r].gate /\ reqs[r].gate \in 1 .. Len(gates)
    <3>1. CallOK(reqs'[r])
      BY DEF CallsOK
    <3>2. reqs'[r].gate # 0
      BY <1>6, <3>1 DEF Sent, CallOK, OnItsWay, Way
    <3> QED
      BY <1>4, <1>6, <3>2
  <2>2. PICK h \in 1 .. Len(gates) : h = reqs[r].gate
    BY <2>1
  <2>3. /\ gates' \in Gates /\ Len(gates') = Len(gates)
        /\ gates'[h].parked = gates[h].parked
        /\ gates'[h].sending = gates[h].sending + 1
        /\ \A g \in 1 .. Len(gates) : g # h => gates'[g] = gates[g]
    <3>1. gates[h] \in GateRecord
      BY <1>2
    <3>2. PICK w : w = [gates[h] EXCEPT !.sending = @ + 1]
      OBVIOUS
    <3>3. /\ w \in GateRecord
          /\ w.parked = gates[h].parked /\ w.sending = gates[h].sending + 1
      BY <3>1, <3>2 DEF GateRecord
    <3>4. gates' = [gates EXCEPT ![h] = w]
      BY <1>6, <2>2, <3>2 DEF Leave
    <3>5. /\ gates' \in Gates /\ Len(gates') = Len(gates) /\ gates'[h] = w
          /\ \A g \in 1 .. Len(gates) : g # h => gates'[g] = gates[g]
      BY <1>2, <3>3, <3>4, OneGate
    <3> QED
      BY <3>3, <3>5
  <2>4. ASSUME NEW g \in 1 .. Len(gates), g # h PROVE InGate(g)' = InGate(g)
    BY <1>1, <1>3, <1>6, <2>1, <2>2, <2>4
  <2>5. /\ IsFiniteSet(InGate(h)') /\ Cardinality(InGate(h)') = Cardinality(InGate(h)) + 1
    <3>1. InGate(h)' = InGate(h) \cup {r} /\ r \notin InGate(h)
      BY <1>1, <1>3, <1>6, <2>1, <2>2
    <3> QED
      BY <1>2, <2>2, <3>1, FS_AddElement
  <2>6. ASSUME NEW g \in 1 .. Len(gates)
        PROVE  /\ gates'[g].parked = gates[g].parked
               /\ IsFiniteSet(InGate(g)') /\ gates'[g].sending = Cardinality(InGate(g)')
    <3>1. CASE g = h
      BY <1>2, <2>2, <2>3, <2>5, <3>1
    <3>2. CASE g # h
      BY <1>2, <2>3, <2>4, <3>2
    <3> QED
      BY <3>1, <3>2
  <2> QED
    BY <2>3, <2>6
<1>7. CASE Sent(reqs[r]) /\ ~Sent(reqs'[r]) /\ Leave(r)
  <2>1. reqs[r].gate \in 1 .. Len(gates)
    BY <1>4, <1>7
  <2>2. PICK h \in 1 .. Len(gates) : h = reqs[r].gate
    BY <2>1
  <2>3. /\ gates' \in Gates /\ Len(gates') = Len(gates)
        /\ gates'[h].parked = gates[h].parked
        /\ gates'[h].sending = gates[h].sending - 1
        /\ \A g \in 1 .. Len(gates) : g # h => gates'[g] = gates[g]
    <3>1. gates[h] \in GateRecord
      BY <1>2
    <3>2. PICK w : w = [gates[h] EXCEPT !.sending = @ - 1]
      OBVIOUS
    <3>3. /\ w \in GateRecord
          /\ w.parked = gates[h].parked /\ w.sending = gates[h].sending - 1
      BY <3>1, <3>2 DEF GateRecord
    <3>4. gates' = [gates EXCEPT ![h] = w]
      BY <1>7, <2>2, <3>2 DEF Leave
    <3>5. /\ gates' \in Gates /\ Len(gates') = Len(gates) /\ gates'[h] = w
          /\ \A g \in 1 .. Len(gates) : g # h => gates'[g] = gates[g]
      BY <1>2, <3>3, <3>4, OneGate
    <3> QED
      BY <3>3, <3>5
  <2>4. ASSUME NEW g \in 1 .. Len(gates), g # h PROVE InGate(g)' = InGate(g)
    BY <1>1, <1>3, <1>7, <2>2, <2>4
  <2>5. /\ IsFiniteSet(InGate(h)') /\ Cardinality(InGate(h)') = Cardinality(InGate(h)) - 1
    <3>1. InGate(h)' = InGate(h) \ {r} /\ r \in InGate(h)
      BY <1>1, <1>3, <1>7, <2>2
    <3> QED
      BY <1>2, <2>2, <3>1, FS_RemoveElement
  <2>6. ASSUME NEW g \in 1 .. Len(gates)
        PROVE  /\ gates'[g].parked = gates[g].parked
               /\ IsFiniteSet(InGate(g)') /\ gates'[g].sending = Cardinality(InGate(g)')
    <3>1. CASE g = h
      BY <1>2, <2>2, <2>3, <2>5, <3>1
    <3>2. CASE g # h
      BY <1>2, <2>3, <2>4, <3>2
    <3> QED
      BY <3>1, <3>2
  <2> QED
    BY <2>3, <2>6
<1> QED
  BY <1>5, <1>6, <1>7 DEF Sends

LEMMA CallCounts ==
    ASSUME CallsOK, CallsOK', CountsOK, GateOK, NEW r \in Reqs, AllMoves(r)
    PROVE  CountsOK'
  BY CallFlight, CallGates DEF CountsOK, AllMoves, FlightType

\* Steps around the calls: the counts depend on where each call is.
SamePlaces ==
    \A r \in Reqs : /\ reqs'[r].kind = reqs[r].kind /\ reqs'[r].pc = reqs[r].pc
                    /\ reqs'[r].gate = reqs[r].gate

LEMMA SameSets ==
    ASSUME SamePlaces
    PROVE  InFlight' = InFlight /\ \A g : InGate(g)' = InGate(g)
  BY DEF SamePlaces, InFlight, InGate, Forwarded

LEMMA QuietKeeps ==
    ASSUME CallsOK, FlightType, QuietPasses
    PROVE  /\ SamePlaces /\ FlightType' /\ flight'.count = flight.count
           /\ \A r \in Reqs : reqs'[r].id = reqs[r].id
           /\ \A r \in Reqs : reqs'[r].pc \in Ended => reqs'[r].old
<1>1. reqs' = [r \in Reqs |-> [reqs[r] EXCEPT !.old = reqs[r].pc \in Ended]]
  BY DEF QuietPasses
<1>2. ASSUME NEW r \in Reqs
      PROVE  /\ reqs'[r].kind = reqs[r].kind /\ reqs'[r].pc = reqs[r].pc
             /\ reqs'[r].gate = reqs[r].gate /\ reqs'[r].id = reqs[r].id
             /\ reqs'[r].old = (reqs[r].pc \in Ended)
  BY <1>1 DEF CallsOK, Request
<1>3. FlightType' /\ flight'.count = flight.count
  BY DEF QuietPasses, FlightType
<1> QED
  BY <1>2, <1>3 DEF SamePlaces

LEMMA AroundCounts ==
    ASSUME CallsOK, CountsOK, WorldTypeOK, GateOK, Around
    PROVE  CountsOK'
<1>1. FlightType /\ gates \in Gates
  BY DEF CountsOK, FlightType
<1>2. CASE QuietPasses
  <2>1. gates' = gates
    BY <1>2 DEF QuietPasses
  <2> QED
    BY <1>1, <1>2, <2>1, QuietKeeps, SameSets DEF CountsOK, FlightType
<1>3. ASSUME reqs' = reqs, flight' = flight, gates' \in Gates, Len(gates') >= Len(gates),
             \A g \in 1 .. Len(gates) : gates'[g].sending = gates[g].sending,
             \A g \in 1 .. Len(gates') : g > Len(gates) => gates'[g].sending = 0
      PROVE  CountsOK'
  <2>1. InFlight' = InFlight /\ \A g : InGate(g)' = InGate(g)
    BY <1>3, SameSets DEF SamePlaces
  <2>2. ASSUME NEW g \in 1 .. Len(gates')
        PROVE  IsFiniteSet(InGate(g)') /\ gates'[g].sending = Cardinality(InGate(g)')
    <3>1. CASE g \in 1 .. Len(gates)
      BY <1>3, <2>1, <3>1 DEF CountsOK
    <3>2. CASE g > Len(gates)
      <4>1. InGate(g) = {}
        BY <1>1, <3>2 DEF InGate, GateOK, CallsOK, CallOK, OnItsWay, Way, Gates
      <4> QED
        BY <1>3, <2>1, <3>2, <4>1, FS_EmptySet
    <3> QED
      BY <1>1, <1>3, <3>1, <3>2 DEF Gates
  <2> QED
    BY <1>3, <2>1, <2>2 DEF CountsOK
<1>4. CASE gates' = gates /\ reqs' = reqs /\ flight' = flight
  <2>1. \A g \in 1 .. Len(gates') : ~(g > Len(gates))
    BY <1>1, <1>4 DEF Gates
  <2> QED
    BY <1>1, <1>3, <1>4, <2>1 DEF Gates
<1>5. CASE SetBots
  <2>1. reqs' = reqs /\ flight' = flight
    BY <1>5 DEF SetBots
  <2>2. CASE gates' = gates
    BY <1>4, <2>1, <2>2
  <2>3. CASE gates' = Append(gates, [parked |-> FALSE, sending |-> 0])
    <3>1. /\ gates' \in Gates /\ Len(gates') >= Len(gates)
          /\ \A g \in 1 .. Len(gates) : gates'[g].sending = gates[g].sending
          /\ \A g \in 1 .. Len(gates') : g > Len(gates) => gates'[g].sending = 0
      <4>1. PICK w \in GateRecord : w.sending = 0 /\ gates' = Append(gates, w)
        <5>1. PICK w : w = [parked |-> FALSE, sending |-> 0]
          OBVIOUS
        <5>2. w \in GateRecord /\ w.sending = 0
          BY <5>1 DEF GateRecord
        <5> QED
          BY <2>3, <5>1, <5>2, Zenon
      <4>2. /\ gates' \in Gates /\ Len(gates') = Len(gates) + 1 /\ Len(gates) \in Nat
            /\ \A g \in 1 .. Len(gates) : gates'[g] = gates[g]
            /\ gates'[Len(gates) + 1] = w
        BY <1>1, <4>1 DEF Gates
      <4> QED
        BY <4>1, <4>2
    <3> QED
      BY <1>3, <2>1, <3>1
  <2> QED
    BY <1>5, <2>2, <2>3 DEF SetBots
<1>6. ASSUME NEW b \in BOOLEAN, reqs' = reqs, flight' = flight,
             gates' = [gates EXCEPT ![entry.gate].parked = b]
      PROVE  CountsOK'
  <2>1. entry.gate \in 1 .. Len(gates)
    BY DEF GateOK
  <2>2. /\ gates' \in Gates /\ Len(gates') >= Len(gates) /\ Len(gates') = Len(gates)
        /\ \A g \in 1 .. Len(gates) : gates'[g].sending = gates[g].sending
    <3>1. PICK h \in 1 .. Len(gates) : h = entry.gate
      BY <2>1
    <3>2. gates[h] \in GateRecord
      BY <1>1, GateRecords
    <3>3. PICK w : w = [gates[h] EXCEPT !.parked = b]
      OBVIOUS
    <3>4. w \in GateRecord /\ w.sending = gates[h].sending
      BY <3>2, <3>3 DEF GateRecord
    <3>5. gates' = [gates EXCEPT ![h] = w]
      BY <1>6, <3>1, <3>3
    <3>6. /\ gates' \in Gates /\ Len(gates') = Len(gates) /\ gates'[h] = w
          /\ \A g \in 1 .. Len(gates) : g # h => gates'[g] = gates[g]
      BY <1>1, <3>4, <3>5, OneGate
    <3>7. Len(gates) \in Nat
      BY <1>1 DEF Gates
    <3> QED
      BY <3>4, <3>6, <3>7
  <2>3. \A g \in 1 .. Len(gates') : ~(g > Len(gates))
    BY <1>1, <2>2 DEF Gates
  <2> QED
    BY <1>3, <1>6, <2>2, <2>3
<1>7. CASE Park
  BY <1>6, <1>7 DEF Park
<1>8. CASE LogOut
  BY <1>4, <1>6, <1>8 DEF LogOut
<1> QED
  BY <1>2, <1>4, <1>5, <1>7, <1>8
     DEF Around, Apply, SetIdentity, DrainLooks, DrainDecides

LEMMA CountsStep ==
    ASSUME CallsOK, CallsOK', CountsOK, WorldTypeOK, GateOK, [Next]_vars
    PROVE  CountsOK'
<1>1. ASSUME NEW r \in Reqs, CallStep(r) PROVE CountsOK'
  <2>1. FlightType
    BY DEF CountsOK, FlightType
  <2> QED
    BY <1>1, <2>1, CallMoves, CallCounts
<1>2. CASE Around
  BY <1>2, AroundCounts
<1>3. CASE UNCHANGED vars
  <2>1. reqs' = reqs /\ flight' = flight /\ gates' = gates
    BY <1>3 DEF vars
  <2>2. InFlight' = InFlight /\ \A g : InGate(g)' = InGate(g)
    BY <2>1, SameSets DEF SamePlaces
  <2> QED
    BY <2>1, <2>2 DEF CountsOK
<1> QED
  BY <1>1, <1>2, <1>3 DEF Next, CallStep

-----------------------------------------------------------------------------
(* The bot, through the calls' steps and the steps around them.            *)

\* A call changes at most the consumer's endpoint, and only with the bot's
\* own token.
LEMMA CallWorld ==
    ASSUME CallsOK, WorldTypeOK, CapOK, NEW r \in Reqs, CallStep(r)
    PROVE  /\ UNCHANGED <<plan, entry, reload, move, drain>>
           /\ engine' \in [on : BOOLEAN, id : Id, fed : BOOLEAN, cap : Id]
           /\ engine'.on = engine.on /\ engine'.id = engine.id
           /\ CapOK'
<1>1. CASE SetWebhook(r) /\ Authenticated(reqs[r].id)
  <2>1. PICK cap \in {reqs[r].id, NoId} :
            engine' = [engine EXCEPT !.cap = IF engine.fed THEN cap ELSE @]
    BY <1>1 DEF SetWebhook
  <2>2. PICK new \in Id : new = IF engine.fed THEN cap ELSE engine.cap
    BY DEF WorldTypeOK, CallsOK, Request, Id, NoId
  <2>3. engine' = [engine EXCEPT !.cap = new]
    BY <2>1, <2>2 DEF WorldTypeOK
  <2>4. /\ engine' \in [on : BOOLEAN, id : Id, fed : BOOLEAN, cap : Id]
        /\ engine'.on = engine.on /\ engine'.id = engine.id
        /\ engine'.fed = engine.fed /\ engine'.cap = new
    BY <2>3 DEF WorldTypeOK
  <2>5. engine.on /\ engine.id = reqs[r].id
    BY <1>1 DEF Authenticated
  <2>6. CapOK'
    BY <2>2, <2>4, <2>5 DEF CapOK
  <2>7. UNCHANGED <<plan, entry, reload, move, drain>>
    BY <1>1 DEF SetWebhook
  <2> QED
    BY <2>4, <2>6, <2>7
<1>2. CASE UNCHANGED worldVars
  BY <1>2 DEF worldVars, WorldTypeOK, CapOK
<1> QED
  BY <1>1, <1>2 DEF CallStep, Steps, Stamp, ServeFile, ReadHook, DropPending, SetWebhook,
     Prepare, Reply, Admit, Enter, Pass, Upload, Server, Fails, BodyFails, Answer, Flood,
     Relay, Closed, Posted, ClientGone, ReplyDropped, Arrive, worldVars

LEMMA CallBot ==
    ASSUME CallsOK, CallsOK', CountsOK, BotOK, NEW r \in Reqs, CallStep(r)
    PROVE  BotOK'
<1>1. /\ WorldTypeOK /\ PlanOK /\ SourceOK /\ GateOK /\ MoveOK /\ CapOK
  BY DEF BotOK
<1>2. Moves(r) /\ Sends(r) /\ GoesOut(r)
  <2>1. FlightType
    BY DEF CountsOK, FlightType
  <2> QED
    BY <2>1, CallMoves DEF AllMoves
<1>3. /\ Len(gates') = Len(gates)
      /\ \A g \in 1 .. Len(gates) : gates'[g].parked = gates[g].parked
  BY <1>1, <1>2, CallGates
<1>4. /\ UNCHANGED <<plan, entry, reload, move, drain>>
      /\ engine' \in [on : BOOLEAN, id : Id, fed : BOOLEAN, cap : Id]
      /\ engine'.on = engine.on /\ engine'.id = engine.id
      /\ CapOK'
  BY <1>1, CallWorld
<1>5. \A s \in Reqs : s # r => reqs'[s] = reqs[s]
  BY <1>2 DEF OnlyCall, CallsOK, Moves
<1>6. WorldTypeOK'
  BY <1>1, <1>4 DEF WorldTypeOK
<1>7. PlanOK' /\ SourceOK'
  BY <1>1, <1>4 DEF PlanOK, SourceOK
<1>8. GateOK'
  <2>1. ASSUME NEW s \in Reqs, reqs'[s].gate # 0
        PROVE  /\ reqs'[s].gate \in 1 .. Len(gates)
               /\ reqs'[s].id[1] <= entry.id[1]
               /\ reqs'[s].id[1] = entry.id[1] => reqs'[s].gate = entry.gate
    <3>1. CASE reqs'[s].gate = reqs[s].gate /\ reqs'[s].id = reqs[s].id
      BY <1>1, <2>1, <3>1 DEF GateOK
    <3>2. CASE s = r /\ reqs'[s].gate = entry.gate /\ reqs'[s].id = entry.id
      <4>1. entry.id[1] \in Nat /\ entry.gate \in 1 .. Len(gates)
        BY <1>1 DEF WorldTypeOK, GateOK, Id
      <4> QED
        BY <3>2, <4>1
    <3> QED
      BY <1>2, <1>5, <2>1, <3>1, <3>2 DEF Moves
  <2> QED
    BY <1>1, <1>3, <1>4, <2>1 DEF GateOK
<1>9. MoveOK'
  <2>1. ASSUME move = "out", NEW s \in Reqs, reqs'[s].pc = "wire"
        PROVE  reqs'[s].gate # entry.gate
    <3>1. gates[entry.gate].parked
      BY <1>1, <2>1 DEF MoveOK
    <3>2. CASE s # r
      BY <1>1, <1>5, <2>1, <3>2 DEF MoveOK, OnWire
    <3>3. CASE s = r
      <4>1. reqs'[r].gate = reqs[r].gate
        BY <1>2, <2>1, <3>3 DEF Moves, Sent
      <4>2. CASE reqs[r].pc = "wire"
        BY <1>1, <2>1, <3>3, <4>1, <4>2 DEF MoveOK, OnWire
      <4>3. CASE ~gates[reqs[r].gate].parked
        BY <3>1, <3>3, <4>1, <4>3
      <4> QED
        BY <1>2, <2>1, <3>3, <4>2, <4>3 DEF GoesOut
    <3> QED
      BY <3>2, <3>3
  <2>2. entry.gate \in 1 .. Len(gates)
    BY <1>1 DEF GateOK
  <2>3. move # "no" => gates'[entry.gate].parked
    BY <1>1, <1>3, <2>2 DEF MoveOK
  <2> QED
    BY <1>1, <1>4, <2>1, <2>3 DEF MoveOK, OnWire
<1> QED
  BY <1>4, <1>6, <1>7, <1>8, <1>9 DEF BotOK

\* What a reload makes of the bot in the engine.
LEMMA Applied ==
    ASSUME BotOK, Apply
    PROVE  /\ engine' \in [on : BOOLEAN, id : Id, fed : BOOLEAN, cap : Id]
           /\ CapOK' /\ plan.changes # <<>> /\ ~reload /\ move # "parked"
           /\ Head(plan.changes) = "remove" => ~engine'.on
           /\ engine'.id[1] = IF engine'.on /\ ~entry.on THEN entry.id[1] + 1 ELSE entry.id[1]
<1> DEFINE change == Head(plan.changes)
           src == engine.id[1]
           tok == engine.id[2]
           to == CASE change = "rotate" -> [engine EXCEPT !.id = <<src, tok + 1>>]
                   [] change = "edit" -> engine
                   [] change = "unfeed" -> [engine EXCEPT !.fed = FALSE]
                   [] change = "remove" -> [engine EXCEPT !.on = FALSE]
                   [] change = "add" -> [engine EXCEPT !.on = TRUE, !.id = <<src + 1, tok>>]
           kept == to.on /\ to.fed /\ to.cap = to.id
<1>1. /\ plan.changes # <<>> /\ ~reload /\ move # "parked"
      /\ engine' = [to EXCEPT !.cap = IF kept THEN @ ELSE NoId]
  BY DEF Apply
<1>2. /\ WorldTypeOK /\ entry.on = engine.on /\ entry.id = engine.id
      /\ change = "add" => ~engine.on
  BY <1>1 DEF BotOK, SourceOK, PlanOK
<1>3. /\ change \in Changes
      /\ engine \in [on : BOOLEAN, id : Id, fed : BOOLEAN, cap : Id]
      /\ src \in Nat /\ tok \in Nat
  <2>1. plan.changes \in Seq(Changes)
    BY <1>2 DEF WorldTypeOK
  <2> QED
    BY <1>1, <1>2, <2>1 DEF WorldTypeOK, Id
<1> HIDE DEF change
<1>4. /\ to \in [on : BOOLEAN, id : Id, fed : BOOLEAN, cap : Id]
      /\ change = "remove" => ~to.on
      /\ to.id[1] = IF to.on /\ ~entry.on THEN entry.id[1] + 1 ELSE entry.id[1]
  <2>1. CASE change = "rotate"
    <3> HIDE DEF src, tok
    <3>0. PICK id : id = <<src, tok + 1>>
      OBVIOUS
    <3>1. id \in Id /\ id = <<src, tok + 1>> /\ id[1] = src
      BY <1>3, <3>0 DEF Id
    <3>2. to = [engine EXCEPT !.id = id]
      BY <2>1, <3>1
    <3> QED
      BY <1>2, <1>3, <2>1, <3>1, <3>2 DEF src
  <2>2. CASE change = "edit" \/ change = "unfeed" \/ change = "remove"
    <3>1. /\ to \in [on : BOOLEAN, id : Id, fed : BOOLEAN, cap : Id] /\ to.id = engine.id
          /\ to.on = IF change = "remove" THEN FALSE ELSE engine.on
      BY <1>3, <2>2
    <3> HIDE DEF to
    <3> QED
      BY <1>2, <2>2, <3>1
  <2>3. CASE change = "add"
    <3> HIDE DEF src, tok
    <3>0. PICK id : id = <<src + 1, tok>>
      OBVIOUS
    <3>1. id \in Id /\ id = <<src + 1, tok>> /\ id[1] = src + 1
      BY <1>3, <3>0 DEF Id
    <3>2. to = [engine EXCEPT !.on = TRUE, !.id = id]
      BY <2>3, <3>1
    <3> QED
      BY <1>2, <1>3, <2>3, <3>1, <3>2 DEF src
  <2> QED
    BY <1>3, <2>1, <2>2, <2>3 DEF Changes
<1> HIDE DEF to
<1>5. PICK cap \in Id : cap = (IF kept THEN to.cap ELSE NoId)
  BY <1>4 DEF Id, NoId
<1>6. engine' = [to EXCEPT !.cap = cap]
  BY <1>1, <1>4, <1>5
<1>7. /\ engine' \in [on : BOOLEAN, id : Id, fed : BOOLEAN, cap : Id]
      /\ engine'.on = to.on /\ engine'.id = to.id /\ engine'.fed = to.fed
      /\ engine'.cap = cap
  BY <1>4, <1>6
<1>8. CapOK'
  BY <1>5, <1>7 DEF CapOK
<1> QED
  BY <1>1, <1>4, <1>7, <1>8 DEF change

LEMMA ApplyBot == ASSUME BotOK, Apply PROVE BotOK'
<1>1. UNCHANGED <<plan, entry, gates, reqs, move>> /\ reload' = TRUE
  BY DEF Apply
<1>2. WorldTypeOK' /\ PlanOK' /\ SourceOK' /\ CapOK'
  BY <1>1, Applied DEF BotOK, WorldTypeOK, PlanOK, SourceOK
<1>3. GateOK' /\ MoveOK'
  BY <1>1, Applied DEF BotOK, GateOK, MoveOK, OnWire
<1> QED
  BY <1>2, <1>3 DEF BotOK

\* What set_bots makes of the table: a gate of its own for a bot that is new.
LEMMA BotsSet ==
    ASSUME CountsOK, BotOK, SetBots
    PROVE  /\ entry' \in [on : BOOLEAN, id : Id, cell : Nat, gate : Nat]
           /\ entry'.on = engine.on /\ entry'.id = engine.id
           /\ \/ /\ Stays \/ ~engine.on
                 /\ entry'.gate = entry.gate /\ gates' = gates
              \/ /\ engine.on /\ ~entry.on /\ entry'.gate = Len(gates) + 1
                 /\ gates' = Append(gates, [parked |-> FALSE, sending |-> 0])
<1> DEFINE cell == IF Stays /\ entry.id[2] = engine.id[2] THEN entry.cell ELSE entry.cell + 1
           fresh == Len(gates) + 1
           gate == IF Stays \/ ~engine.on THEN entry.gate ELSE fresh
<1>1. /\ entry' = [on |-> engine.on, id |-> engine.id, cell |-> cell, gate |-> gate]
      /\ gates' = IF entry'.gate = fresh
                  THEN Append(gates, [parked |-> FALSE, sending |-> 0]) ELSE gates
  BY DEF SetBots
<1>2. /\ entry.cell \in Nat /\ entry.gate \in Nat /\ entry.gate <= Len(gates)
      /\ Len(gates) \in Nat /\ engine.on \in BOOLEAN /\ engine.id \in Id
      /\ entry.on \in BOOLEAN
  BY DEF BotOK, WorldTypeOK, GateOK, CountsOK, Gates
<1>3. cell \in Nat /\ gate \in Nat
  BY <1>2
<1> HIDE DEF cell
<1>4. CASE Stays \/ ~engine.on
  <2>1. gate = entry.gate /\ entry.gate # fresh
    BY <1>2, <1>4
  <2> QED
    BY <1>1, <1>2, <1>3, <1>4, <2>1
<1>5. CASE ~(Stays \/ ~engine.on)
  <2>1. gate = fresh /\ engine.on /\ ~entry.on
    BY <1>2, <1>5 DEF Stays
  <2> QED
    BY <1>1, <1>2, <1>3, <2>1
<1> QED
  BY <1>4, <1>5

LEMMA SetBotsBot == ASSUME CallsOK, CountsOK, BotOK, SetBots PROVE BotOK'
<1>1. /\ WorldTypeOK /\ PlanOK /\ SourceOK /\ GateOK /\ MoveOK /\ CapOK
  BY DEF BotOK
<1>2. /\ UNCHANGED <<engine, reqs>> /\ reload /\ reload' = FALSE
      /\ plan' = [plan EXCEPT !.changes = Tail(@)]
      /\ move' = IF engine.on THEN move ELSE "no"
  BY DEF SetBots
<1>3. /\ entry' \in [on : BOOLEAN, id : Id, cell : Nat, gate : Nat]
      /\ entry'.on = engine.on /\ entry'.id = engine.id
  BY BotsSet
<1>4. /\ plan.changes \in Seq(Changes) /\ plan.changes # <<>>
      /\ plan' \in [kinds : [Reqs -> Kinds], changes : Seq(Changes),
                    move : BOOLEAN, drain : BOOLEAN]
      /\ plan'.changes = Tail(plan.changes)
  <2>1. plan.changes \in Seq(Changes) /\ plan.changes # <<>>
    BY <1>1, <1>2 DEF WorldTypeOK, PlanOK
  <2>2. Tail(plan.changes) \in Seq(Changes)
    BY <2>1
  <2> QED
    BY <1>1, <1>2, <2>1, <2>2 DEF WorldTypeOK
<1>5. WorldTypeOK'
  BY <1>1, <1>2, <1>3, <1>4 DEF WorldTypeOK
<1>6. PlanOK'
  <2> DEFINE c == plan.changes
  <2>1. /\ c \in Seq(Changes) /\ c # <<>> /\ plan'.changes = Tail(c)
        /\ \A i \in 2 .. Len(c) : c[i] = "add" => c[i - 1] = "remove"
        /\ Head(c) = "remove" => ~engine.on
    BY <1>1, <1>2, <1>4 DEF PlanOK
  <2> HIDE DEF c
  <2>2. /\ Len(Tail(c)) = Len(c) - 1 /\ Len(c) \in Nat \ {0}
        /\ \A i \in 1 .. Len(c) - 1 : Tail(c)[i] = c[i + 1]
        /\ Head(c) = c[1]
    BY <2>1
  <2>3. \A i \in 2 .. Len(Tail(c)) : Tail(c)[i] = "add" => Tail(c)[i - 1] = "remove"
    <3>1. ASSUME NEW i \in 2 .. Len(Tail(c)), Tail(c)[i] = "add"
          PROVE  Tail(c)[i - 1] = "remove"
      <4>1. /\ i \in 1 .. Len(c) - 1 /\ i - 1 \in 1 .. Len(c) - 1
            /\ i + 1 \in 2 .. Len(c) /\ (i - 1) + 1 = i /\ (i + 1) - 1 = i
        BY <2>2
      <4>2. Tail(c)[i] = c[i + 1] /\ Tail(c)[i - 1] = c[i]
        BY <2>2, <4>1
      <4> QED
        BY <2>1, <3>1, <4>1, <4>2
    <3> QED
      BY <3>1
  <2>4. Tail(c) # <<>> /\ Head(Tail(c)) = "add" => ~engine.on
    <3>1. SUFFICES ASSUME Tail(c) # <<>>, Head(Tail(c)) = "add" PROVE ~engine.on
      OBVIOUS
    <3>2. Len(Tail(c)) > 0 /\ Head(Tail(c)) = Tail(c)[1]
      BY <2>1, <3>1
    <3>3. 1 \in 1 .. Len(c) - 1 /\ 2 \in 2 .. Len(c)
      BY <2>2, <3>2
    <3>4. c[2] = "add"
      BY <2>2, <3>1, <3>2, <3>3
    <3> QED
      BY <2>1, <2>2, <3>3, <3>4
  <2> QED
    BY <1>2, <2>1, <2>3, <2>4 DEF PlanOK
<1>7. SourceOK'
  BY <1>2, <1>3 DEF SourceOK
<1>8. CapOK'
  BY <1>1, <1>2 DEF CapOK
<1>9. GateOK' /\ MoveOK'
  <2>1. entry.id[1] \in Nat /\ Len(gates) \in Nat /\ gates \in Gates
    BY <1>1 DEF WorldTypeOK, Id, CountsOK, Gates
  <2>2. \A r \in Reqs : reqs[r].id[1] \in Nat
    BY DEF CallsOK, Request, Id
  <2>3. CASE /\ Stays \/ ~engine.on
             /\ entry'.gate = entry.gate /\ gates' = gates
    <3>1. engine.id[1] = entry.id[1]
      BY <1>1, <2>3 DEF SourceOK, Stays
    <3>2. GateOK'
      BY <1>1, <1>2, <1>3, <2>3, <3>1 DEF GateOK
    <3>3. MoveOK'
      BY <1>1, <1>2, <1>3, <2>3 DEF MoveOK, OnWire
    <3> QED
      BY <3>2, <3>3
  <2>4. CASE /\ engine.on /\ ~entry.on /\ entry'.gate = Len(gates) + 1
             /\ gates' = Append(gates, [parked |-> FALSE, sending |-> 0])
    <3>1. engine.id[1] = entry.id[1] + 1
      BY <1>1, <2>4 DEF SourceOK
    <3>2. Len(gates') = Len(gates) + 1
      BY <2>1, <2>4 DEF Gates
    <3>3. GateOK'
      BY <1>1, <1>2, <1>3, <2>1, <2>2, <2>4, <3>1, <3>2 DEF GateOK
    <3>4. move' = "no"
      BY <1>1, <1>2, <2>4 DEF MoveOK, WorldTypeOK
    <3>5. MoveOK'
      BY <3>4 DEF MoveOK
    <3> QED
      BY <3>3, <3>5
  <2> QED
    BY <2>3, <2>4, BotsSet
<1> QED
  BY <1>5, <1>6, <1>7, <1>8, <1>9 DEF BotOK

LEMMA ParkedIs ==
    ASSUME CountsOK, GateOK, NEW b \in BOOLEAN, gates' = [gates EXCEPT ![entry.gate].parked = b]
    PROVE  Len(gates') = Len(gates) /\ gates'[entry.gate].parked = b
<1>1. PICK h \in 1 .. Len(gates) : h = entry.gate
  BY DEF GateOK
<1>2. gates \in Gates /\ gates[h] \in GateRecord
  BY GateRecords DEF CountsOK
<1>3. PICK w : w = [gates[h] EXCEPT !.parked = b]
  OBVIOUS
<1>4. w \in GateRecord /\ w.parked = b
  BY <1>2, <1>3 DEF GateRecord
<1>5. gates' = [gates EXCEPT ![h] = w]
  BY <1>1, <1>3
<1>6. Len(gates') = Len(gates) /\ gates'[h] = w
  BY <1>2, <1>4, <1>5, OneGate
<1> QED
  BY <1>1, <1>4, <1>6

LEMMA ParkBot == ASSUME CountsOK, BotOK, Park PROVE BotOK'
<1>1. /\ UNCHANGED <<engine, entry, reload, reqs>> /\ ~reload /\ entry.on
      /\ move' = "parked" /\ plan' = [plan EXCEPT !.move = FALSE]
      /\ gates' = [gates EXCEPT ![entry.gate].parked = TRUE]
  BY DEF Park, configVars
<1>2. Len(gates') = Len(gates) /\ gates'[entry.gate].parked
  BY <1>1, ParkedIs DEF BotOK
<1>3. WorldTypeOK' /\ plan'.changes = plan.changes
  BY <1>1 DEF BotOK, WorldTypeOK
<1>4. PlanOK' /\ SourceOK' /\ CapOK'
  BY <1>1, <1>3 DEF BotOK, PlanOK, SourceOK, CapOK
<1>5. GateOK'
  BY <1>1, <1>2 DEF BotOK, GateOK
<1>6. MoveOK'
  BY <1>1, <1>2 DEF MoveOK
<1> QED
  BY <1>3, <1>4, <1>5, <1>6 DEF BotOK

\* The gate's count is 0 only when none of its calls is on the wire.
LEMMA LogOutBot == ASSUME CallsOK, CountsOK, BotOK, LogOut PROVE BotOK'
<1>1. /\ UNCHANGED <<plan, engine, entry, reload, reqs>> /\ move = "parked"
  BY DEF LogOut, configVars
<1>2. entry.gate \in 1 .. Len(gates)
  BY DEF BotOK, GateOK
<1>3. CASE gates[entry.gate].sending = 0 /\ move' = "out" /\ gates' = gates
  <2>1. InGate(entry.gate) = {}
    BY <1>2, <1>3, FS_EmptySet DEF CountsOK
  <2>2. \A r \in Reqs : OnWire(r) => reqs[r].gate # entry.gate
    BY <2>1 DEF InGate, OnWire
  <2>3. MoveOK'
    BY <1>1, <1>3, <2>2 DEF BotOK, MoveOK, OnWire
  <2> QED
    BY <1>1, <1>3, <2>3 DEF BotOK, WorldTypeOK, PlanOK, SourceOK, CapOK, GateOK
<1>4. CASE move' = "no" /\ gates' = [gates EXCEPT ![entry.gate].parked = FALSE]
  <2>1. Len(gates') = Len(gates)
    BY <1>4, ParkedIs DEF BotOK
  <2>2. WorldTypeOK' /\ PlanOK' /\ SourceOK' /\ CapOK'
    BY <1>1, <1>4 DEF BotOK, WorldTypeOK, PlanOK, SourceOK, CapOK
  <2>3. GateOK'
    BY <1>1, <2>1 DEF BotOK, GateOK
  <2>4. MoveOK'
    BY <1>4 DEF MoveOK
  <2> QED
    BY <2>2, <2>3, <2>4 DEF BotOK
<1> QED
  BY <1>3, <1>4 DEF LogOut

LEMMA BotStep ==
    ASSUME CallsOK, CallsOK', CountsOK, BotOK, [Next]_vars
    PROVE  BotOK'
<1>1. ASSUME NEW r \in Reqs, CallStep(r) PROVE BotOK'
  BY <1>1, CallBot
<1>2. CASE QuietPasses
  <2>1. FlightType
    BY DEF CountsOK, FlightType
  <2>2. SamePlaces /\ \A r \in Reqs : reqs'[r].id = reqs[r].id
    BY <1>2, <2>1, QuietKeeps
  <2>3. UNCHANGED <<plan, engine, entry, reload, move, gates>>
    BY <1>2 DEF QuietPasses, worldVars
  <2>4. GateOK' /\ MoveOK'
    BY <2>2, <2>3 DEF BotOK, GateOK, MoveOK, OnWire, SamePlaces
  <2> QED
    BY <2>3, <2>4 DEF BotOK, WorldTypeOK, PlanOK, SourceOK, CapOK
<1>3. CASE UNCHANGED <<plan, engine, entry, reload, move, gates, reqs>>
  BY <1>3 DEF BotOK, WorldTypeOK, PlanOK, SourceOK, CapOK, GateOK, MoveOK, OnWire
<1> QED
  BY <1>1, <1>2, <1>3, ApplyBot, SetBotsBot, ParkBot, LogOutBot
     DEF Next, CallStep, Around, vars, SetIdentity, DrainLooks, DrainDecides, worldVars

-----------------------------------------------------------------------------
(* The drain: what it saw has ended, and an end is stamped for as long as  *)
(* it is recent.                                                           *)
LEMMA CallDrain ==
    ASSUME CallsOK, CountsOK, BotOK, DrainOK, NEW r \in Reqs, CallStep(r)
    PROVE  DrainOK'
<1>1. Moves(r)
  <2>1. FlightType
    BY DEF CountsOK, FlightType
  <2> QED
    BY <2>1, CallMoves DEF AllMoves
<1>2. drain' = drain
  BY CallWorld DEF BotOK
<1>3. \A s \in Reqs : s # r => reqs'[s] = reqs[s]
  BY <1>1 DEF OnlyCall, CallsOK, Moves
<1>4. ASSUME NEW s \in Reqs, Forwarded(s)', reqs'[s].gate # 0, reqs'[s].pc \in Ended,
             ~reqs'[s].old
      PROVE  flight'.recent
  <2>1. CASE s # r
    <3>1. flight.recent
      BY <1>3, <1>4, <2>1 DEF DrainOK, Forwarded
    <3> QED
      BY <1>1, <3>1 DEF Moves
  <2>2. CASE s = r
    <3>1. Forwarded(r)
      BY <1>1, <1>4, <2>2 DEF Moves, Forwarded
    <3>2. CASE reqs[r].pc \in Ended
      <4>1. reqs[r].gate # 0
        BY <1>1, <3>2 DEF CallsOK, CallOK, OnItsWay, Way, Ended, Moves
      <4>2. ~reqs[r].old
        BY <1>1, <1>4, <2>2 DEF Moves
      <4>3. flight.recent
        BY <3>1, <3>2, <4>1, <4>2 DEF DrainOK
      <4> QED
        BY <1>1, <4>3 DEF Moves
    <3> QED
      BY <1>1, <1>4, <2>2, <3>1, <3>2 DEF Moves
  <2> QED
    BY <2>1, <2>2
<1>5. ASSUME drain.pc = "last", NEW s \in drain.before
      PROVE  Forwarded(s)' /\ reqs'[s].gate # 0 /\ reqs'[s].pc = "done"
  <2>1. /\ s \in Reqs /\ Forwarded(s) /\ reqs[s].gate # 0 /\ reqs[s].pc = "done"
    BY <1>5 DEF DrainOK
  <2>2. s # r
    BY <1>1, <2>1 DEF Moves
  <2> QED
    BY <1>3, <2>1, <2>2 DEF Forwarded
<1> QED
  BY <1>2, <1>4, <1>5 DEF DrainOK

LEMMA AroundDrain ==
    ASSUME CallsOK, CountsOK, DrainOK, Around
    PROVE  DrainOK'
<1>1. CASE UNCHANGED <<reqs, flight, drain>>
  BY <1>1 DEF DrainOK, Forwarded
<1>2. CASE QuietPasses
  <2>1. /\ SamePlaces /\ \A r \in Reqs : reqs'[r].pc \in Ended => reqs'[r].old
    BY <1>2, QuietKeeps DEF CountsOK, FlightType
  <2>2. drain' = drain
    BY <1>2 DEF QuietPasses, worldVars
  <2> QED
    BY <2>1, <2>2 DEF DrainOK, SamePlaces, Forwarded
<1>3. CASE DrainLooks
  <2> DEFINE before == {r \in Reqs : /\ Forwarded(r) /\ reqs[r].gate # 0
                                     /\ reqs[r].pc # "counted" /\ ~reqs[r].old}
  <2>1. /\ reqs' = reqs /\ flight' = flight /\ flight.count = 0
        /\ drain' = [drain EXCEPT !.pc = "last", !.before = before]
    BY <1>3 DEF DrainLooks
  <2>2. InFlight = {}
    BY <2>1, FS_EmptySet DEF CountsOK
  <2>3. \A r \in before : reqs[r].pc = "done" /\ Forwarded(r) /\ reqs[r].gate # 0
    <3>1. SUFFICES ASSUME NEW r \in before PROVE reqs[r].pc = "done"
      OBVIOUS
    <3>2. r \in Reqs /\ Forwarded(r) /\ reqs[r].gate # 0
      OBVIOUS
    <3>3. reqs[r].pc \in {"new", "done"}
      BY <2>2, <3>2 DEF InFlight
    <3> QED
      BY <3>2, <3>3 DEF CallsOK, CallOK, OnItsWay, Way
  <2>4. before \in SUBSET Reqs
    OBVIOUS
  <2> HIDE DEF before
  <2>5. /\ drain' \in [pc : {"no", "last", "quiet"}, before : SUBSET Reqs,
                       missed : SUBSET Reqs]
        /\ drain'.pc = "last" /\ drain'.before = before
    BY <2>1, <2>4 DEF DrainOK
  <2> QED
    BY <2>1, <2>3, <2>5 DEF DrainOK, Forwarded
<1>4. CASE DrainDecides
  <2> DEFINE missed == {r \in drain.before : ~reqs[r].old}
  <2>1. reqs' = reqs /\ flight' = flight /\ drain.pc = "last"
    BY <1>4 DEF DrainDecides
  <2>2. CASE flight.recent /\ drain' = [pc |-> "no", before |-> {}, missed |-> {}]
    BY <2>1, <2>2 DEF DrainOK, Forwarded
  <2>3. CASE ~flight.recent /\ drain' = [drain EXCEPT !.pc = "quiet", !.missed = missed]
    <3>1. missed = {}
      BY <2>1, <2>3 DEF DrainOK, Ended
    <3>2. /\ drain' \in [pc : {"no", "last", "quiet"}, before : SUBSET Reqs,
                         missed : SUBSET Reqs]
          /\ drain'.pc = "quiet" /\ drain'.missed = {}
      BY <2>3, <3>1 DEF DrainOK
    <3> QED
      BY <2>1, <3>2 DEF DrainOK, Forwarded
  <2> QED
    BY <1>4, <2>2, <2>3 DEF DrainDecides
<1> QED
  BY <1>1, <1>2, <1>3, <1>4
     DEF Around, Apply, SetBots, SetIdentity, Park, LogOut, worldVars

LEMMA DrainStep ==
    ASSUME CallsOK, CountsOK, BotOK, DrainOK, [Next]_vars
    PROVE  DrainOK'
<1>1. ASSUME NEW r \in Reqs, CallStep(r) PROVE DrainOK'
  BY <1>1, CallDrain
<1>2. CASE Around
  BY <1>2, AroundDrain
<1>3. CASE UNCHANGED vars
  BY <1>3 DEF vars, DrainOK, Forwarded
<1> QED
  BY <1>1, <1>2, <1>3 DEF Next, CallStep

-----------------------------------------------------------------------------
(* The invariant and what it says.                                         *)
LEMMA GatewayInit == Init => GatewayInv
<1> SUFFICES ASSUME Init PROVE GatewayInv
  OBVIOUS
<1>1. /\ plan \in [kinds : [Reqs -> Kinds], changes : Seq(Changes),
                   move : BOOLEAN, drain : BOOLEAN]
      /\ \A i \in 1 .. Len(plan.changes) :
            plan.changes[i] = "add" => i > 1 /\ plan.changes[i - 1] = "remove"
  BY PlansAssumption DEF Init
<1>2. /\ plan.kinds \in [Reqs -> Kinds] /\ plan.changes \in Seq(Changes)
  BY <1>1
<1>3. ASSUME NEW r \in Reqs
      PROVE  /\ reqs[r] \in Request /\ CallOK(reqs[r])
             /\ reqs[r].pc = "new" /\ reqs[r].gate = 0
  <2>1. PICK k \in Kinds : reqs[r] = New(k)
    BY <1>2 DEF Init
  <2>2. NoId \in Id /\ "new" \in Pcs /\ "none" \in Answers /\ 0 \in Nat
    BY DEF NoId, Id, Pcs, Answers
  <2>3. reqs[r] \in Request
    BY <2>1, <2>2 DEF New, Request
  <2>4. OnItsWay(reqs[r]) /\ CountedSoFar(reqs[r]) /\ RunSoFar(reqs[r]) /\ BoundSoFar(reqs[r])
    BY <2>1 DEF New, OnItsWay, Way, CountedSoFar, RunSoFar, BoundSoFar, NoId, Ended
  <2> QED
    BY <2>1, <2>3, <2>4 DEF New, CallOK
<1>4. CallsOK
  <2>1. reqs = [r \in Reqs |-> New(plan.kinds[r])]
    BY DEF Init
  <2> QED
    BY <1>3, <2>1 DEF CallsOK
<1>5. gates = <<[parked |-> FALSE, sending |-> 0]>>
  BY DEF Init
<1>6. gates \in Gates /\ Len(gates) = 1 /\ gates[1].sending = 0
  <2>1. PICK w : w = [parked |-> FALSE, sending |-> 0]
    OBVIOUS
  <2>2. w \in GateRecord /\ w.sending = 0
    BY <2>1 DEF GateRecord
  <2>3. gates = <<w>>
    BY <1>5, <2>1
  <2> QED
    BY <2>2, <2>3 DEF Gates
<1>7. CountsOK
  <2>1. InFlight = {} /\ \A g : InGate(g) = {}
    BY <1>3 DEF InFlight, InGate
  <2>2. flight \in [count : Int, recent : BOOLEAN] /\ flight.count = 0
    BY DEF Init
  <2> QED
    BY <1>6, <2>1, <2>2, FS_EmptySet DEF CountsOK
<1>8. WorldTypeOK
  <2>1. <<1, 1>> \in Id /\ NoId \in Id /\ 1 \in Nat
    BY DEF Id, NoId
  <2> QED
    BY <1>1, <2>1 DEF Init, WorldTypeOK
<1>9. /\ engine.on /\ engine.id = <<1, 1>> /\ engine.cap = NoId
      /\ entry.on /\ entry.id = <<1, 1>> /\ entry.gate = 1
      /\ reload = FALSE /\ move = "no"
  BY DEF Init
<1>10. PlanOK
  <2>1. \A i \in 2 .. Len(plan.changes) :
            plan.changes[i] = "add" => plan.changes[i - 1] = "remove"
    BY <1>1, <1>2
  <2>2. plan.changes # <<>> => Head(plan.changes) # "add"
    <3>1. SUFFICES ASSUME plan.changes # <<>> PROVE Head(plan.changes) # "add"
      OBVIOUS
    <3>2. 1 \in 1 .. Len(plan.changes) /\ Head(plan.changes) = plan.changes[1]
      BY <1>2, <3>1
    <3> QED
      BY <1>1, <3>2
  <2> QED
    BY <1>9, <2>1, <2>2 DEF PlanOK
<1>11. SourceOK /\ GateOK /\ MoveOK /\ CapOK
  <2>1. 1 \in 1 .. Len(gates)
    BY <1>6
  <2> QED
    BY <1>3, <1>9, <2>1 DEF SourceOK, GateOK, MoveOK, CapOK
<1>12. DrainOK
  <2>1. drain = [pc |-> "no", before |-> {}, missed |-> {}]
    BY DEF Init
  <2> QED
    BY <1>3, <2>1 DEF DrainOK
<1> QED
  BY <1>4, <1>7, <1>8, <1>10, <1>11, <1>12 DEF GatewayInv, BotOK

LEMMA GatewayNext == GatewayInv /\ [Next]_vars => GatewayInv'
<1> SUFFICES ASSUME GatewayInv, [Next]_vars PROVE GatewayInv'
  OBVIOUS
<1>1. CallsOK /\ CountsOK /\ BotOK /\ WorldTypeOK /\ GateOK /\ DrainOK
  BY DEF GatewayInv, BotOK
<1>2. CallsOK'
  BY <1>1, CallsStep
<1>3. CountsOK' /\ BotOK' /\ DrainOK'
  BY <1>1, <1>2, CountsStep, BotStep, DrainStep
<1> QED
  BY <1>2, <1>3 DEF GatewayInv

\* The gateway's inductive invariant: every call is on the way of its kind and
\* counted, run and bound as that way says; in_flight and each gate's count
\* are the numbers of calls there; the table has the engine's bot or is about
\* to; and a recent end is stamped.
THEOREM GatewayInvariant == Spec => []GatewayInv
  BY GatewayInit, GatewayNext, PTL DEF Spec

\* A call's outcome is counted once, whichever of the handler, the dropped
\* call and the body's tally ends it, and never where nothing counts it: a
\* client that leaves while its file is opened or its intercept's body read,
\* a reply dropped with its delivery.
THEOREM OutcomesCountedOnce == Spec => []CountedOnce
<1>1. GatewayInv => CountedOnce
  <2> SUFFICES ASSUME GatewayInv, NEW r \in Reqs
               PROVE  /\ reqs[r].counts <= 1
                      /\ reqs[r].pc \in Ended => reqs[r].counts = Counts(reqs[r].kind, reqs[r].ans)
    BY DEF CountedOnce, Counts
  <2>1. CountedSoFar(reqs[r])
    BY DEF GatewayInv, CallsOK, CallOK
  <2> QED
    BY <2>1 DEF CountedSoFar, Counts, Ended
<1> QED
  BY <1>1, GatewayInvariant, PTL

\* No call runs twice, and one called unreachable has not run.
THEOREM RetryIsSafe == Spec => []SafeToRetry
<1>1. GatewayInv => SafeToRetry
  BY DEF GatewayInv, CallsOK, CallOK, RunSoFar, SafeToRetry
<1> QED
  BY <1>1, GatewayInvariant, PTL

\* A bot that a move has logged out has no call on the wire, whatever reloads
\* come after, as long as it stays configured.
THEOREM MovedBotIsQuiet == Spec => []QuietOnceOut
<1>1. GatewayInv => QuietOnceOut
  <2> SUFFICES ASSUME GatewayInv, move = "out", NEW r \in Reqs, OnWire(r)
               PROVE  reqs[r].id[1] # entry.id[1]
    BY DEF QuietOnceOut
  <2>1. reqs[r].gate # 0
    BY DEF GatewayInv, CallsOK, CallOK, OnItsWay, Way, OnWire
  <2>2. reqs[r].gate # entry.gate
    BY DEF GatewayInv, BotOK, MoveOK
  <2> QED
    BY <2>1, <2>2 DEF GatewayInv, BotOK, GateOK
<1> QED
  BY <1>1, GatewayInvariant, PTL

\* A runtime endpoint and its replies stay with the token that set it.
THEOREM EndpointStaysWithToken == Spec => []EndpointOfToken
<1>1. GatewayInv => EndpointOfToken
  BY DEF GatewayInv, BotOK, CapOK, CallsOK, CallOK, BoundSoFar, OnWire, EndpointOfToken
<1> QED
  BY <1>1, GatewayInvariant, PTL

\* The drain takes the gateway for quiet only when it is.
THEOREM DrainSeesEveryCall == Spec => []DrainWaits
<1>1. GatewayInv => DrainWaits
  BY DEF GatewayInv, DrainOK, DrainWaits
<1> QED
  BY <1>1, GatewayInvariant, PTL

-----------------------------------------------------------------------------
(* The rate limits.                                                        *)

Quotas == {"global", "chat", "group"}

\* The interval between requests is a number above 0, the tolerance a number.
LEMMA SpacingType ==
    ASSUME NEW q \in Quotas
    PROVE  /\ Spacing(q) \in Nat /\ Spacing(q) > 0
           /\ Tolerance(q) \in Nat
           /\ Tolerance(q) + Spacing(q) = BurstOf[q] * Spacing(q)
<1>1. PICK c, p, b : c = Count[q] /\ p = Per[q] /\ b = BurstOf[q]
  OBVIOUS
<1>2. c \in Nat \ {0} /\ p \in Nat \ {0} /\ b \in Nat \ {0}
  BY <1>1, LimiterAssumption DEF Quotas
<1>3. PICK T : T = (p + c - 1) \div c
  OBVIOUS
<1>4. p + c - 1 \in Nat /\ p + c - 1 >= c /\ c > 0
  BY <1>2
<1>5. T \in Nat /\ T > 0
  BY <1>2, <1>3, <1>4
<1>6. Spacing(q) = T /\ Tolerance(q) = T * (b - 1)
  BY <1>1, <1>3 DEF Spacing, Tolerance
<1>7. T * (b - 1) \in Nat /\ T * (b - 1) + T = b * T
  BY <1>2, <1>5
<1> QED
  BY <1>1, <1>5, <1>6, <1>7

\* Numbers that are an interval apart from each other are few in a stretch.
LEMMA SpacedCount ==
    ASSUME NEW R, IsFiniteSet(R), NEW f \in [R -> Int], NEW T \in Nat, T > 0,
           NEW lo \in Int, NEW hi \in Int, lo <= hi + T,
           \A r \in R : lo <= f[r] /\ f[r] <= hi,
           \A r, s \in R : r # s => f[r] - f[s] >= T \/ f[s] - f[r] >= T
    PROVE  Cardinality(R) \in Nat /\ Cardinality(R) * T <= hi - lo + T
<1> DEFINE J == 0 .. T - 1
           K == lo .. hi + T - 1
           P == R \X J
           g == [w \in P |-> f[w[1]] + w[2]]
<1>1. Cardinality(R) \in Nat
  BY FS_CardinalityType
<1>2. IsFiniteSet(J) /\ Cardinality(J) = T
  <2>1. 0 \in Int /\ T - 1 \in Int
    OBVIOUS
  <2>2. IsFiniteSet(J) /\ Cardinality(J) = IF 0 > T - 1 THEN 0 ELSE T - 1 - 0 + 1
    BY <2>1, FS_Interval
  <2> HIDE DEF J
  <2> QED
    BY <2>2
<1>3. IsFiniteSet(K) /\ Cardinality(K) = hi - lo + T
  <2>1. hi + T - 1 \in Int
    OBVIOUS
  <2>2. IsFiniteSet(K) /\ Cardinality(K) = IF lo > hi + T - 1 THEN 0 ELSE hi + T - 1 - lo + 1
    BY <2>1, FS_Interval
  <2> HIDE DEF K
  <2>3. CASE lo > hi + T - 1
    BY <2>2, <2>3
  <2>4. CASE ~(lo > hi + T - 1)
    BY <2>2, <2>4
  <2> QED
    BY <2>3, <2>4
<1>4. IsFiniteSet(P) /\ Cardinality(P) = Cardinality(R) * T
  <2> HIDE DEF J
  <2>1. IsFiniteSet(R \X J) /\ Cardinality(R \X J) = Cardinality(R) * Cardinality(J)
    BY <1>2, FS_Product
  <2> QED
    BY <1>2, <2>1
<1>5. ASSUME NEW w \in P PROVE g[w] \in K
  <2>1. PICK r \in R, j \in J : w = <<r, j>>
    OBVIOUS
  <2>2. g[w] = f[r] + j
    BY <2>1
  <2>3. f[r] \in Int /\ lo <= f[r] /\ f[r] <= hi
    OBVIOUS
  <2> HIDE DEF g
  <2> QED
    BY <2>2, <2>3
<1>6. ASSUME NEW w \in P, NEW v \in P, g[w] = g[v] PROVE w = v
  <2>1. PICK r \in R, j \in J : w = <<r, j>>
    OBVIOUS
  <2>2. PICK s \in R, k \in J : v = <<s, k>>
    OBVIOUS
  <2>3. f[r] + j = f[s] + k
    BY <1>6, <2>1, <2>2
  <2>4. f[r] \in Int /\ f[s] \in Int /\ j \in 0 .. T - 1 /\ k \in 0 .. T - 1
    OBVIOUS
  <2>5. r = s
    BY <2>3, <2>4
  <2>6. j = k
    BY <2>3, <2>4, <2>5
  <2> QED
    BY <2>1, <2>2, <2>5, <2>6
<1>7. g \in Injection(P, K)
  <2>1. g \in [P -> K]
    BY <1>5
  <2>2. IsInjective(g)
    BY <1>6 DEF IsInjective
  <2> QED
    BY <2>1, <2>2 DEF Injection
<1> HIDE DEF P, K, g
<1>8. Cardinality(P) <= Cardinality(K)
  BY <1>3, <1>7, FS_Injection
<1> QED
  BY <1>1, <1>3, <1>4, <1>8

\* A set of numbers that is not empty has a smallest one.
LEMMA FirstNat ==
    ASSUME NEW S \in SUBSET Nat, S # {}
    PROVE  \E x \in S : \A y \in S : x <= y
<1> DEFINE R == OpToRel(<, Nat)
<1>1. IsWellFoundedOn(R, Nat)
  BY NatLessThanWellFounded
<1>2. \A x, y \in Nat : <<y, x>> \in R <=> y < x
  BY DEF OpToRel
<1> HIDE DEF R
<1>3. PICK x \in S : \A y \in S : ~(<<y, x>> \in R)
  BY <1>1, WFMin
<1>4. ASSUME NEW y \in S PROVE x <= y
  <2>1. x \in Nat /\ y \in Nat
    OBVIOUS
  <2>2. ~(y < x)
    BY <1>2, <1>3, <2>1
  <2> QED
    BY <2>1, <2>2
<1> QED
  BY <1>4

\* Max is the largest of a finite set of integers that is not empty.
LEMMA MaxIsLargest ==
    ASSUME NEW S \in SUBSET Int, IsFiniteSet(S), S # {}
    PROVE  Max(S) \in S /\ \A y \in S : y <= Max(S)
<1> DEFINE above(x) == {y \in S : y > x}
           sizes == {Cardinality(above(x)) : x \in S}
<1>1. ASSUME NEW x \in S PROVE IsFiniteSet(above(x)) /\ Cardinality(above(x)) \in Nat
  BY FS_Subset, FS_CardinalityType
<1>2. sizes \in SUBSET Nat /\ sizes # {}
  BY <1>1
<1>3. PICK n \in sizes : \A m \in sizes : n <= m
  BY <1>2, FirstNat
<1>4. PICK x \in S : n = Cardinality(above(x))
  BY <1>3
<1>5. ASSUME NEW y \in S, ~(x >= y) PROVE FALSE
  <2>1. x \in Int /\ y \in Int /\ y > x
    BY <1>5
  <2>2. PICK A, B : A = above(x) /\ B = above(y)
    OBVIOUS
  <2>3. B \in SUBSET A /\ B # A
    <3>1. \A z \in S : z \in Int
      OBVIOUS
    <3>2. \A z : z \in B => z \in A
      BY <2>1, <2>2, <3>1
    <3>3. y \in A /\ y \notin B
      BY <2>1, <2>2
    <3> QED
      BY <3>2, <3>3
  <2>4. IsFiniteSet(A) /\ Cardinality(A) \in Nat /\ Cardinality(B) \in Nat
    BY <1>1, <2>2
  <2>5. Cardinality(A) <= Cardinality(B)
    BY <1>3, <1>4, <2>2
  <2>6. Cardinality(B) <= Cardinality(A) /\ (Cardinality(A) = Cardinality(B) => A = B)
    BY <2>3, <2>4, FS_Subset
  <2> QED
    BY <2>3, <2>4, <2>5, <2>6
<1>6. \E z \in S : \A y \in S : z >= y
  BY <1>5
<1>7. Max(S) \in S /\ \A y \in S : Max(S) >= y
  BY <1>6 DEF Max
<1> QED
  BY <1>7

\* Min is the smallest of a set of naturals that is not empty.
LEMMA MinIsSmallest ==
    ASSUME NEW S \in SUBSET Nat, S # {}
    PROVE  Min(S) \in S /\ \A y \in S : Min(S) <= y
BY FirstNat DEF Min

\* What a function of 1 .. n takes is finite.
LEMMA FiniteRange ==
    ASSUME NEW n \in Nat, NEW f \in [1 .. n -> Int]
    PROVE  IsFiniteSet({f[k] : k \in 1 .. n})
<1> DEFINE J == 1 .. n
           K == {f[k] : k \in 1 .. n}
<1>1. 1 \in Int /\ n \in Int
  OBVIOUS
<1>2. IsFiniteSet(J)
  BY <1>1, FS_Interval
<1>3. f \in Surjection(J, K)
  BY DEF Surjection
<1> HIDE DEF J, K
<1>4. IsFiniteSet(K)
  BY <1>2, <1>3, FS_Surjection
<1> QED
  BY <1>4 DEF K

\* partition_point: in a sorted sequence, those up to v are the first so many.
LEMMA PrefixCount ==
    ASSUME NEW s \in Seq(Int), \A i, j \in DOMAIN s : i <= j => s[i] <= s[j], NEW v \in Int
    PROVE  LET n == Cardinality({k \in DOMAIN s : s[k] <= v})
           IN n \in 0 .. Len(s) /\ \A k \in DOMAIN s : s[k] <= v <=> k <= n
<1> DEFINE S == {k \in DOMAIN s : s[k] <= v}
<1>0. SUFFICES Cardinality(S) \in 0 .. Len(s) /\ \A k \in DOMAIN s : s[k] <= v <=> k <= Cardinality(S)
  OBVIOUS
<1>1. DOMAIN s = 1 .. Len(s) /\ Len(s) \in Nat /\ \A k \in 1 .. Len(s) : s[k] \in Int
  OBVIOUS
<1>2. S \in SUBSET Int /\ S \in SUBSET (1 .. Len(s))
  BY <1>1
<1>3. IsFiniteSet(S)
  <2>1. 1 \in Int /\ Len(s) \in Int
    BY <1>1
  <2>2. IsFiniteSet(1 .. Len(s))
    BY <2>1, FS_Interval
  <2> QED
    BY <1>2, <2>2, FS_Subset
<1>4. CASE S = {}
  <2>1. Cardinality(S) = 0
    BY <1>4, FS_EmptySet
  <2>2. \A k \in DOMAIN s : ~(s[k] <= v)
    BY <1>4
  <2>3. \A k \in DOMAIN s : ~(k <= 0)
    BY <1>1
  <2> HIDE DEF S
  <2> QED
    BY <1>0, <1>1, <2>1, <2>2, <2>3
<1>5. CASE S # {}
  <2>1. PICK m : m = Max(S)
    OBVIOUS
  <2>2. m \in S /\ \A y \in S : y <= m
    BY <1>2, <1>3, <1>5, <2>1, MaxIsLargest
  <2>3. m \in 1 .. Len(s) /\ s[m] <= v
    BY <1>1, <2>2
  <2>4. ASSUME NEW k \in DOMAIN s PROVE s[k] <= v <=> k <= m
    <3>1. k \in 1 .. Len(s) /\ s[k] \in Int /\ s[m] \in Int
      BY <1>1, <2>3
    <3>2. k <= m => s[k] <= s[m]
      BY <1>1, <2>3
    <3>3. s[k] <= v => k <= m
      BY <2>2
    <3> QED
      BY <2>3, <3>1, <3>2, <3>3
  <2>5. \A k : k \in S <=> k \in 1 .. m
    BY <1>1, <2>3, <2>4
  <2>6. S = 1 .. m
    BY <2>5
  <2>7. Cardinality(1 .. m) = m
    <3>1. 1 \in Int /\ m \in Int /\ ~(1 > m)
      BY <2>3
    <3>2. Cardinality(1 .. m) = IF 1 > m THEN 0 ELSE m - 1 + 1
      BY <3>1, FS_Interval
    <3> QED
      BY <3>1, <3>2
  <2>8. Cardinality(S) = m
    BY <2>6, <2>7
  <2> HIDE DEF S
  <2> QED
    BY <1>0, <1>1, <2>3, <2>4, <2>8
<1> QED
  BY <1>4, <1>5

\* u is s with t behind the first p.
Inserted(s, p, t, u) ==
    /\ Len(u) = Len(s) + 1
    /\ \A k \in 1 .. Len(s) + 1 : u[k] = IF k <= p THEN s[k] ELSE IF k = p + 1 THEN t ELSE s[k - 1]

\* Vec::insert: what is before keeps its place, what is behind moves by one.
LEMMA InsertPlaces ==
    ASSUME NEW S, NEW s \in Seq(S), NEW p \in 0 .. Len(s), NEW t \in S
    PROVE  InsertAt(s, p + 1, t) \in Seq(S) /\ Inserted(s, p, t, InsertAt(s, p + 1, t))
<1>1. PICK a, b : a = SubSeq(s, 1, p) /\ b = SubSeq(s, p + 1, Len(s))
  OBVIOUS
<1>2. Len(s) \in Nat /\ p \in Nat
  OBVIOUS
<1>3. /\ a \in Seq(S) /\ Len(a) = p /\ \A k \in 1 .. p : a[k] = s[k]
      /\ b \in Seq(S) /\ Len(b) = Len(s) - p /\ \A k \in 1 .. Len(s) - p : b[k] = s[p + k]
  BY <1>1, <1>2
<1>0. PICK i, ins : i = p + 1 /\ ins = InsertAt(s, i, t)
  OBVIOUS
<1>4. ins = a \o <<t>> \o b
  <2>1. i - 1 = p
    BY <1>0, <1>2
  <2>2. ins = SubSeq(s, 1, i - 1) \o <<t>> \o SubSeq(s, i, Len(s))
    BY <1>0, Zenon DEF InsertAt
  <2>3. SubSeq(s, 1, i - 1) = a /\ SubSeq(s, i, Len(s)) = b
    BY <1>0, <1>1, <2>1
  <2> QED
    BY <2>2, <2>3, Zenon
<1>5. PICK c : c = a \o <<t>>
  OBVIOUS
<1>6. c \in Seq(S) /\ Len(c) = p + 1 /\ c[p + 1] = t /\ \A k \in 1 .. p : c[k] = s[k]
  <2>1. PICK b1 : b1 = <<t>>
    OBVIOUS
  <2>2. b1 \in Seq(S) /\ Len(b1) = 1 /\ b1[1] = t
    BY <2>1
  <2>3. c = a \o b1
    BY <1>5, <2>1, Zenon
  <2>4. /\ c \in Seq(S) /\ Len(c) = Len(a) + Len(b1)
        /\ \A k \in 1 .. Len(a) + Len(b1) : c[k] = IF k <= Len(a) THEN a[k] ELSE b1[k - Len(a)]
    <3>1. a \in Seq(S)
      BY <1>3
    <3>2. /\ a \o b1 \in Seq(S) /\ Len(a \o b1) = Len(a) + Len(b1)
          /\ \A k \in 1 .. Len(a) + Len(b1) : (a \o b1)[k] = IF k <= Len(a) THEN a[k] ELSE b1[k - Len(a)]
      BY <2>2, <3>1, ConcatProperties
    <3> QED
      BY <2>3, <3>2, Zenon
  <2>5. c \in Seq(S) /\ Len(c) = p + 1 /\ \A k \in 1 .. p + 1 : c[k] = IF k <= p THEN a[k] ELSE b1[k - p]
    BY <1>2, <1>3, <2>2, <2>4
  <2>6. p + 1 \in 1 .. p + 1 /\ ~(p + 1 <= p) /\ p + 1 - p = 1
    BY <1>2
  <2>7. c[p + 1] = t
    BY <2>2, <2>5, <2>6
  <2>8. ASSUME NEW k \in 1 .. p PROVE c[k] = s[k]
    BY <1>2, <1>3, <2>5
  <2> QED
    BY <2>5, <2>7, <2>8
<1>7. /\ c \o b \in Seq(S) /\ Len(c \o b) = Len(s) + 1
      /\ \A k \in 1 .. Len(s) + 1 : (c \o b)[k] = IF k <= p + 1 THEN c[k] ELSE b[k - p - 1]
  <2>1. /\ c \o b \in Seq(S) /\ Len(c \o b) = Len(c) + Len(b)
        /\ \A k \in 1 .. Len(c) + Len(b) : (c \o b)[k] = IF k <= Len(c) THEN c[k] ELSE b[k - Len(c)]
    BY <1>3, <1>6, ConcatProperties, ZenonT(40)
  <2>2. Len(c) + Len(b) = Len(s) + 1
    BY <1>2, <1>3, <1>6
  <2>3. \A k \in 1 .. Len(s) + 1 : k - Len(c) = k - p - 1
    BY <1>2, <1>6
  <2> QED
    BY <1>6, <2>1, <2>2, <2>3
<1>8. ASSUME NEW k \in 1 .. Len(s) + 1, k > p + 1 PROVE b[k - p - 1] = s[k - 1]
  <2>1. k - p - 1 \in 1 .. Len(s) - p /\ p + (k - p - 1) = k - 1
    BY <1>2, <1>8
  <2> QED
    BY <1>3, <2>1
<1>9. ins = c \o b
  BY <1>4, <1>5, Zenon
<1>10. PICK d : d = c \o b
  OBVIOUS
<1>11. /\ d \in Seq(S) /\ Len(d) = Len(s) + 1
       /\ \A k \in 1 .. Len(s) + 1 : d[k] = IF k <= p + 1 THEN c[k] ELSE b[k - p - 1]
  BY <1>7, <1>10, Zenon
<1>12. ASSUME NEW k \in 1 .. Len(s) + 1
       PROVE  d[k] = IF k <= p THEN s[k] ELSE IF k = p + 1 THEN t ELSE s[k - 1]
  <2>1. CASE k <= p
    BY <1>2, <1>6, <1>11, <2>1
  <2>2. CASE k = p + 1
    BY <1>2, <1>6, <1>11, <2>2
  <2>3. CASE k > p + 1
    <3>1. ~(k <= p + 1) /\ ~(k <= p) /\ k # p + 1
      BY <1>2, <2>3
    <3>2. d[k] = b[k - p - 1]
      BY <1>11, <3>1
    <3>3. b[k - p - 1] = s[k - 1]
      BY <1>8, <2>3
    <3> QED
      BY <3>1, <3>2, <3>3
  <2> QED
    BY <1>2, <2>1, <2>2, <2>3
<1>13. InsertAt(s, p + 1, t) = d
  BY <1>0, <1>9, <1>10, Zenon
<1> QED
  BY <1>11, <1>12, <1>13, Zenon DEF Inserted

\* Vec::remove: what is before keeps its place, what is behind moves by one.
LEMMA RemovePlaces ==
    ASSUME NEW S, NEW s \in Seq(S), NEW p \in 1 .. Len(s)
    PROVE  /\ RemoveAt(s, p) \in Seq(S)
           /\ Len(RemoveAt(s, p)) = Len(s) - 1
           /\ \A k \in 1 .. Len(s) - 1 : RemoveAt(s, p)[k] = IF k < p THEN s[k] ELSE s[k + 1]
<1>1. PICK a, b : a = SubSeq(s, 1, p - 1) /\ b = SubSeq(s, p + 1, Len(s))
  OBVIOUS
<1>2. Len(s) \in Nat /\ p \in Nat /\ p >= 1 /\ p <= Len(s)
  OBVIOUS
<1>3. /\ a \in Seq(S) /\ Len(a) = p - 1 /\ \A k \in 1 .. p - 1 : a[k] = s[k]
      /\ b \in Seq(S) /\ Len(b) = Len(s) - p /\ \A k \in 1 .. Len(s) - p : b[k] = s[p + k]
  BY <1>1, <1>2
<1>4. RemoveAt(s, p) = a \o b
  BY <1>1 DEF RemoveAt
<1>5. /\ a \o b \in Seq(S) /\ Len(a \o b) = Len(s) - 1
      /\ \A k \in 1 .. Len(s) - 1 : (a \o b)[k] = IF k <= p - 1 THEN a[k] ELSE b[k - p + 1]
  <2>1. /\ a \o b \in Seq(S) /\ Len(a \o b) = Len(a) + Len(b)
        /\ \A k \in 1 .. Len(a) + Len(b) : (a \o b)[k] = IF k <= Len(a) THEN a[k] ELSE b[k - Len(a)]
    BY <1>3, ConcatProperties
  <2>2. Len(a) + Len(b) = Len(s) - 1
    BY <1>2, <1>3
  <2>3. \A k \in 1 .. Len(s) - 1 : k - Len(a) = k - p + 1
    BY <1>2, <1>3
  <2> QED
    BY <1>3, <2>1, <2>2, <2>3
<1>6. ASSUME NEW k \in 1 .. Len(s) - 1, ~(k < p) PROVE b[k - p + 1] = s[k + 1]
  <2>1. k - p + 1 \in 1 .. Len(s) - p /\ p + (k - p + 1) = k + 1
    BY <1>2, <1>6
  <2> QED
    BY <1>3, <2>1
<1> QED
  BY <1>2, <1>3, <1>4, <1>5, <1>6

-----------------------------------------------------------------------------
(* The calendar.  It conforms when its bookings, in order, keep the         *)
(* distance the quota asks of each other and of the floor; the floor after  *)
(* the first k of them is then at most an interval and the tolerance past   *)
(* booking k.                                                               *)

T1 == Spacing("global")
D1 == Tolerance("global")

Calendar == [floor : Int, slots : Seq(Instants)]

Conformant(cal) ==
    /\ \A i, j \in 1 .. Len(cal.slots) :
           i <= j => /\ cal.slots[i] <= cal.slots[j]
                     /\ cal.slots[j] >= cal.slots[i] + (j - i) * T1 - D1
    /\ \A j \in 1 .. Len(cal.slots) : cal.slots[j] >= cal.floor + (j - 1) * T1 - D1

\* Two bookings of a calendar that conforms, and one and the floor.
LEMMA ConformantAt ==
    ASSUME NEW cal, Conformant(cal), NEW i \in 1 .. Len(cal.slots), NEW j \in 1 .. Len(cal.slots)
    PROVE  /\ i <= j => cal.slots[i] <= cal.slots[j] /\ cal.slots[j] >= cal.slots[i] + (j - i) * T1 - D1
           /\ cal.slots[j] >= cal.floor + (j - 1) * T1 - D1
BY DEF Conformant

\* The interval and the tolerance of the calendar.
LEMMA GlobalType == T1 \in Nat /\ T1 > 0 /\ D1 \in Nat /\ D1 + T1 = BurstOf["global"] * T1
BY SpacingType DEF Quotas, T1, D1

\* Instants are numbers.
LEMMA InstantsType == MaxInstant \in Nat /\ Instants \in SUBSET Nat /\ \A t : t \in Instants <=> t \in 0 .. MaxInstant
BY LimiterAssumption DEF Instants

\* A calendar's parts.
LEMMA CalendarType ==
    ASSUME NEW cal \in Calendar
    PROVE  /\ cal.floor \in Int /\ cal.slots \in Seq(Instants) /\ cal.slots \in Seq(Int)
           /\ Len(cal.slots) \in Nat /\ DOMAIN cal.slots = 1 .. Len(cal.slots)
           /\ \A k \in 1 .. Len(cal.slots) : cal.slots[k] \in Nat /\ cal.slots[k] \in Instants
<1>1. cal.floor \in Int /\ cal.slots \in Seq(Instants)
  BY DEF Calendar
<1>2. PICK s : s = cal.slots
  OBVIOUS
<1>3. Len(s) \in Nat /\ DOMAIN s = 1 .. Len(s) /\ \A k \in 1 .. Len(s) : s[k] \in Instants
  BY <1>1, <1>2
<1>4. \A k \in 1 .. Len(s) : s[k] \in Nat /\ s[k] \in Int
  BY <1>3, InstantsType
<1>5. Instants \in SUBSET Int
  BY InstantsType
<1>6. s \in Seq(Int)
  BY <1>1, <1>2, <1>5, SeqMonotonic
<1> QED
  BY <1>1, <1>2, <1>3, <1>4, <1>6

\* More intervals last longer.
LEMMA Longer ==
    ASSUME NEW a \in Int, NEW b \in Int
    PROVE  /\ a * T1 \in Int /\ b * T1 \in Int
           /\ a <= b => a * T1 <= b * T1
           /\ a < b => a * T1 + T1 <= b * T1
<1>1. PICK n : n = T1
  OBVIOUS
<1>2. n \in Nat
  BY <1>1, GlobalType
<1>3. a * n \in Int /\ b * n \in Int
  BY <1>2
<1>4. a <= b => a * n <= b * n
  BY <1>2
<1>5. a < b => a * n + n <= b * n
  BY <1>2
<1> QED
  BY <1>1, <1>3, <1>4, <1>5

\* fold_before: the floor after k bookings is past the floor and past each
\* of them, by one of which it is determined.
LEMMA FloorAfterIsMax ==
    ASSUME NEW cal \in Calendar, NEW n \in 0 .. Len(cal.slots)
    PROVE  /\ FloorAfter(cal, n) \in Int
           /\ FloorAfter(cal, n) >= cal.floor + n * T1
           /\ \A j \in 1 .. n : FloorAfter(cal, n) >= cal.slots[j] + (n - j + 1) * T1
           /\ \/ FloorAfter(cal, n) = cal.floor + n * T1
              \/ \E j \in 1 .. n : FloorAfter(cal, n) = cal.slots[j] + (n - j + 1) * T1
<1>1. T1 \in Nat /\ n \in Nat /\ cal.floor \in Int
      /\ \A k \in 1 .. n : cal.slots[k] \in Nat
  BY GlobalType, CalendarType
<1> DEFINE f == [j \in 1 .. n |-> cal.slots[j] + (n - j + 1) * T1]
           A == {cal.floor + n * T1}
           B == {f[j] : j \in 1 .. n}
<1>2. f \in [1 .. n -> Int]
  BY <1>1
<1>3. IsFiniteSet(B)
  <2> HIDE DEF f
  <2> QED
    BY <1>1, <1>2, FiniteRange
<1>4. B \in SUBSET Int
  BY <1>2
<1>5. cal.floor + n * T1 \in Int
  BY <1>1
<1>6. IsFiniteSet(A \cup B) /\ A \cup B \in SUBSET Int /\ A \cup B # {}
  BY <1>3, <1>4, <1>5, FS_Singleton, FS_Union
<1>7. Max(A \cup B) \in A \cup B /\ \A y \in A \cup B : y <= Max(A \cup B)
  BY <1>6, MaxIsLargest
<1>8. {cal.slots[j] + (n - j + 1) * T1 : j \in 1 .. n} = B
  OBVIOUS
<1>9. FloorAfter(cal, n) = Max(A \cup B)
  BY <1>8 DEF FloorAfter, T1
<1>10. \A j \in 1 .. n : f[j] = cal.slots[j] + (n - j + 1) * T1
  OBVIOUS
<1>11. PICK m : m = FloorAfter(cal, n)
  OBVIOUS
<1>12. m \in A \cup B /\ m \in Int /\ \A y \in A \cup B : y <= m
  BY <1>6, <1>7, <1>9, <1>11
<1>13. cal.floor + n * T1 \in A \cup B /\ \A j \in 1 .. n : f[j] \in A \cup B
  OBVIOUS
<1>14. m >= cal.floor + n * T1
  BY <1>5, <1>12, <1>13
<1>15. ASSUME NEW j \in 1 .. n PROVE m >= cal.slots[j] + (n - j + 1) * T1
  <2>1. f[j] \in Int /\ f[j] <= m
    BY <1>2, <1>12, <1>13
  <2> QED
    BY <1>10, <1>12, <2>1
<1>16. m = cal.floor + n * T1 \/ \E j \in 1 .. n : m = cal.slots[j] + (n - j + 1) * T1
  BY <1>12
<1> QED
  BY <1>11, <1>12, <1>14, <1>15, <1>16

\* Of the floors after so many bookings each is an interval past the one before.
LEMMA FloorAfterSpaced ==
    ASSUME NEW cal \in Calendar, NEW n \in 0 .. Len(cal.slots), NEW m \in 0 .. Len(cal.slots), n < m
    PROVE  FloorAfter(cal, m) >= FloorAfter(cal, n) + T1
<1>1. T1 \in Nat /\ n \in Nat /\ m \in Nat /\ cal.floor \in Int
      /\ \A k \in 1 .. m : cal.slots[k] \in Nat
  BY GlobalType, CalendarType
<1>2. PICK x, y : x = FloorAfter(cal, n) /\ y = FloorAfter(cal, m)
  OBVIOUS
<1>3. /\ x \in Int
      /\ x = cal.floor + n * T1 \/ \E j \in 1 .. n : x = cal.slots[j] + (n - j + 1) * T1
  BY <1>2, FloorAfterIsMax
<1>4. /\ y \in Int /\ y >= cal.floor + m * T1
      /\ \A j \in 1 .. m : y >= cal.slots[j] + (m - j + 1) * T1
  BY <1>2, FloorAfterIsMax
<1>5. CASE x = cal.floor + n * T1
  <2>1. n \in Int /\ m \in Int
    BY <1>1
  <2>2. n * T1 \in Int /\ m * T1 \in Int /\ n * T1 + T1 <= m * T1
    BY <2>1, Longer
  <2>3. PICK u, v : u = n * T1 /\ v = m * T1
    OBVIOUS
  <2>4. u \in Int /\ v \in Int /\ u + T1 <= v /\ x = cal.floor + u /\ y >= cal.floor + v /\ y \in Int
    BY <1>4, <1>5, <2>2, <2>3
  <2>5. y >= x + T1
    BY <1>1, <2>4
  <2> QED
    BY <1>2, <2>5
<1>6. CASE \E j \in 1 .. n : x = cal.slots[j] + (n - j + 1) * T1
  <2>1. PICK j \in 1 .. n : x = cal.slots[j] + (n - j + 1) * T1
    BY <1>6
  <2>2. PICK a, b : a = n - j + 1 /\ b = m - j + 1
    OBVIOUS
  <2>3. a \in Int /\ b \in Int /\ a < b /\ cal.slots[j] \in Nat /\ j \in 1 .. m
    BY <1>1, <2>2
  <2>4. a * T1 \in Int /\ b * T1 \in Int /\ a * T1 + T1 <= b * T1
    BY <2>3, Longer
  <2>5. y >= cal.slots[j] + b * T1 /\ x = cal.slots[j] + a * T1
    BY <1>4, <2>1, <2>2, <2>3
  <2>6. PICK u, v : u = a * T1 /\ v = b * T1
    OBVIOUS
  <2>7. u \in Int /\ v \in Int /\ u + T1 <= v /\ x = cal.slots[j] + u /\ y >= cal.slots[j] + v /\ y \in Int
    BY <1>4, <2>4, <2>5, <2>6
  <2>8. y >= x + T1
    BY <1>1, <2>3, <2>7
  <2> QED
    BY <1>2, <2>8
<1> QED
  BY <1>3, <1>5, <1>6

\* The floor after a booking is an interval past it, or the tolerance more.
LEMMA FloorAfterNear ==
    ASSUME NEW cal \in Calendar, Conformant(cal), NEW n \in 1 .. Len(cal.slots)
    PROVE  /\ FloorAfter(cal, n) >= cal.slots[n] + T1
           /\ FloorAfter(cal, n) <= cal.slots[n] + D1 + T1
           /\ FloorAfter(cal, n) >= cal.floor + T1
<1>1. T1 \in Nat /\ D1 \in Nat /\ n \in Nat /\ n >= 1 /\ cal.floor \in Int /\ n \in 0 .. Len(cal.slots)
      /\ \A k \in 1 .. n : cal.slots[k] \in Nat
  BY GlobalType, CalendarType
<1>2. PICK x : x = FloorAfter(cal, n)
  OBVIOUS
<1>3. /\ x \in Int /\ x >= cal.floor + n * T1
      /\ \A j \in 1 .. n : x >= cal.slots[j] + (n - j + 1) * T1
      /\ x = cal.floor + n * T1 \/ \E j \in 1 .. n : x = cal.slots[j] + (n - j + 1) * T1
  BY <1>1, <1>2, FloorAfterIsMax
<1>4. x >= cal.slots[n] + T1
  <2>1. (n - n + 1) * T1 = T1 /\ n \in 1 .. n
    BY <1>1
  <2> QED
    BY <1>3, <2>1
<1>5. x >= cal.floor + T1
  <2>1. 1 * T1 <= n * T1 /\ 1 * T1 = T1 /\ n * T1 \in Int
    BY <1>1, Longer
  <2> QED
    BY <1>1, <1>3, <2>1
<1>6. x <= cal.slots[n] + D1 + T1
  <2>1. CASE x = cal.floor + n * T1
    <3>1. cal.slots[n] >= cal.floor + (n - 1) * T1 - D1
      BY DEF Conformant
    <3>2. (n - 1) * T1 = n * T1 - T1 /\ n * T1 \in Int
      BY <1>1
    <3>3. PICK z, e, w : z = n * T1 /\ e = cal.floor /\ w = cal.slots[n]
      OBVIOUS
    <3>4. z \in Int /\ e \in Int /\ w \in Nat /\ w >= e + (z - T1) - D1 /\ x = e + z
      <4>1. n \in 1 .. n
        BY <1>1
      <4> QED
        BY <1>1, <2>1, <3>1, <3>2, <3>3, <4>1
    <3>5. x <= w + D1 + T1
      BY <1>1, <3>4
    <3> QED
      BY <3>3, <3>5
  <2>2. CASE \E j \in 1 .. n : x = cal.slots[j] + (n - j + 1) * T1
    <3>1. PICK j \in 1 .. n : x = cal.slots[j] + (n - j + 1) * T1
      BY <2>2
    <3>2. cal.slots[n] >= cal.slots[j] + (n - j) * T1 - D1
      BY <1>1, SMTT(30) DEF Conformant
    <3>3. (n - j + 1) * T1 = (n - j) * T1 + T1 /\ (n - j) * T1 \in Int
      BY <1>1
    <3> QED
      BY <1>1, <3>1, <3>2, <3>3, SMTT(30)
  <2> QED
    BY <1>3, <2>1, <2>2
<1> QED
  BY <1>2, <1>4, <1>5, <1>6

\* fold_before: the bookings left keep their distance to the new floor.
LEMMA FoldConforms ==
    ASSUME NEW cal \in Calendar, Conformant(cal), NEW at, NEW n, n = Folded(cal, at),
           NEW new, new = Fold(cal, at)
    PROVE  /\ n \in 0 .. Len(cal.slots)
           /\ new \in Calendar /\ Conformant(new)
           /\ new.floor = FloorAfter(cal, n) /\ new.floor >= cal.floor
           /\ Len(new.slots) = Len(cal.slots) - n
           /\ \A j \in 1 .. Len(cal.slots) - n : new.slots[j] = cal.slots[n + j]
<1>1. PICK s : s = cal.slots
  OBVIOUS
<1>2. T1 \in Nat /\ D1 \in Nat /\ Len(s) \in Nat /\ cal.floor \in Int /\ s \in Seq(Instants)
      /\ DOMAIN s = 1 .. Len(s) /\ \A k \in 1 .. Len(s) : s[k] \in Nat /\ s[k] \in Instants
  BY <1>1, GlobalType, CalendarType
<1>3. n \in 0 .. Len(s)
  <2> DEFINE S == {k \in DOMAIN cal.slots : cal.slots[k] < at /\ FloorAfter(cal, k) <= MaxInstant}
             J == 1 .. Len(s)
  <2>1. S \in SUBSET J
    BY <1>1, <1>2
  <2>2. IsFiniteSet(J) /\ Cardinality(J) = Len(s)
    <3>1. 1 \in Int /\ Len(s) \in Int
      BY <1>2
    <3>2. IsFiniteSet(1 .. Len(s)) /\ Cardinality(1 .. Len(s)) = IF 1 > Len(s) THEN 0 ELSE Len(s) - 1 + 1
      BY <3>1, FS_Interval
    <3>3. (IF 1 > Len(s) THEN 0 ELSE Len(s) - 1 + 1) = Len(s)
      BY <1>2
    <3> QED
      BY <3>2, <3>3
  <2>3. n = Cardinality(S)
    BY DEF Folded
  <2> HIDE DEF S, J
  <2>4. Cardinality(S) \in Nat /\ Cardinality(S) <= Len(s)
    BY <2>1, <2>2, FS_Subset, FS_CardinalityType
  <2> QED
    BY <1>2, <2>3, <2>4
<1>4. PICK t : t = SubSeq(s, n + 1, Len(s))
  OBVIOUS
<1>5. n \in Nat /\ n <= Len(s)
  BY <1>2, <1>3
<1>6. t \in Seq(Instants) /\ Len(t) = Len(s) - n /\ \A j \in 1 .. Len(s) - n : t[j] = s[n + j]
  <2>1. n + 1 \in Int /\ Len(s) \in Int /\ \A i \in n + 1 .. Len(s) : s[i] \in Instants
    BY <1>2, <1>5
  <2>2. /\ t \in Seq(Instants)
        /\ Len(t) = IF n + 1 <= Len(s) THEN Len(s) - (n + 1) + 1 ELSE 0
        /\ \A i \in 1 .. Len(s) - (n + 1) + 1 : t[i] = s[n + 1 + i - 1]
    BY <1>4, <2>1, SubSeqProperties
  <2>3. Len(s) - (n + 1) + 1 = Len(s) - n /\ (~(n + 1 <= Len(s)) => Len(s) - n = 0)
    BY <1>2, <1>5
  <2>4. \A i \in 1 .. Len(s) - n : n + 1 + i - 1 = n + i
    BY <1>2, <1>5
  <2> QED
    BY <2>2, <2>3, <2>4
<1>7. new = [floor |-> FloorAfter(cal, n), slots |-> t]
  BY <1>1, <1>4 DEF Fold
<1>8. PICK x : x = FloorAfter(cal, n)
  OBVIOUS
<1>9. /\ x \in Int /\ x >= cal.floor + n * T1
      /\ x = cal.floor + n * T1 \/ \E j \in 1 .. n : x = s[j] + (n - j + 1) * T1
  BY <1>1, <1>3, <1>8, FloorAfterIsMax
<1>10. new.floor = x /\ new.slots = t /\ new \in Calendar
  BY <1>6, <1>7, <1>8, <1>9 DEF Calendar
<1>11. x >= cal.floor
  <2>1. 0 \in Int /\ n \in Int /\ 0 <= n
    BY <1>5
  <2>2. 0 * T1 <= n * T1 /\ n * T1 \in Int
    BY <2>1, Longer
  <2>3. 0 * T1 = 0
    BY <1>2
  <2> QED
    BY <1>2, <1>9, <2>2, <2>3
<1>12. ASSUME NEW i \in 1 .. Len(t), NEW j \in 1 .. Len(t), i <= j
       PROVE  t[i] <= t[j] /\ t[j] >= t[i] + (j - i) * T1 - D1
  <2>1. PICK a, b : a = n + i /\ b = n + j
    OBVIOUS
  <2>5. Len(s) \in Nat /\ Len(t) = Len(s) - n
    BY <1>2, <1>6
  <2>6. i \in Int /\ j \in Int /\ 1 <= i /\ i <= j /\ j <= Len(s) - n
    BY <1>12, <2>5
  <2>9. n \in Int /\ i \in Int /\ j \in Int
    BY <1>5
  <2>10. a \in Int /\ b \in Int
    BY <2>1, <2>9
  <2>7. a \in Int /\ b \in Int /\ b - a = j - i /\ a <= b
    <3>1. b - a = j - i
      BY <2>1, <2>9, <2>10
    <3> QED
      BY <2>1, <2>6, <2>9, <2>10, <3>1
  <2>8. 1 <= a /\ b <= Len(s)
    BY <1>5, <2>1, <2>5, <2>6
  <2>2. a \in 1 .. Len(s) /\ b \in 1 .. Len(s) /\ a <= b /\ b - a = j - i
    BY <2>5, <2>7, <2>8
  <2>3. s[a] <= s[b] /\ s[b] >= s[a] + (b - a) * T1 - D1
    BY <1>1, <2>2, ConformantAt
  <2>4. t[i] = s[a] /\ t[j] = s[b]
    BY <1>6, <2>1
  <2> QED
    BY <2>2, <2>3, <2>4
<1>13. ASSUME NEW j \in 1 .. Len(t)
       PROVE  t[j] >= x + (j - 1) * T1 - D1
  <2>0. PICK b : b = n + j
    OBVIOUS
  <2>1. b \in 1 .. Len(s) /\ t[j] = s[b] /\ s[b] \in Nat
    BY <1>2, <1>5, <1>6, <2>0
  <2>2. CASE x = cal.floor + n * T1
    <3>1. s[b] >= cal.floor + (b - 1) * T1 - D1
      BY <1>1, <2>1, ConformantAt
    <3>2. (b - 1) * T1 = n * T1 + (j - 1) * T1
      BY <1>2, <1>5, <2>0
    <3>3. n * T1 \in Int /\ (j - 1) * T1 \in Int
      BY <1>2, <1>5
    <3> QED
      BY <1>2, <2>1, <2>2, <3>1, <3>2, <3>3, SMTT(30)
  <2>3. CASE \E i \in 1 .. n : x = s[i] + (n - i + 1) * T1
    <3>1. PICK i \in 1 .. n : x = s[i] + (n - i + 1) * T1
      BY <2>3
    <3>2. i \in 1 .. Len(s) /\ i <= b /\ s[i] \in Nat
      BY <1>2, <1>5, <2>0
    <3>3. s[b] >= s[i] + (b - i) * T1 - D1
      BY <1>1, <2>1, <3>2, ConformantAt
    <3>4. (b - i) * T1 = (n - i + 1) * T1 + (j - 1) * T1
      BY <1>2, <1>5, <2>0, SMTT(30)
    <3>5. (n - i + 1) * T1 \in Int /\ (j - 1) * T1 \in Int
      BY <1>2, <1>5
    <3> QED
      BY <1>2, <2>1, <3>1, <3>2, <3>3, <3>4, <3>5, SMTT(30)
  <2> QED
    BY <1>9, <2>2, <2>3
<1>14. Conformant(new)
  BY <1>10, <1>12, <1>13 DEF Conformant
<1> QED
  BY <1>1, <1>3, <1>6, <1>8, <1>10, <1>11, <1>14

\* What a place in the calendar must offer for a booking at t behind the
\* first p: its distance to those before and behind, and theirs.
Offers(cal, p, t) ==
    LET s == cal.slots
    IN /\ p \in 0 .. Len(s) /\ t \in Instants
       /\ \A k \in 1 .. Len(s) : s[k] <= t <=> k <= p
       /\ \A i \in 1 .. p : t >= s[i] + (p + 1 - i) * T1 - D1
       /\ \A j \in p + 1 .. Len(s) : s[j] >= t + (j - p) * T1 - D1
       /\ \A i \in 1 .. p, j \in p + 1 .. Len(s) : s[j] >= s[i] + (j + 1 - i) * T1 - D1
       /\ t >= cal.floor + p * T1 - D1
       /\ \A j \in p + 1 .. Len(s) : s[j] >= cal.floor + j * T1 - D1

WithSlot(cal, t) == [cal EXCEPT !.slots = Insert(@, t)]

\* acquire: with the booking the calendar conforms as well.
LEMMA InsertConforms ==
    ASSUME NEW cal \in Calendar, Conformant(cal), NEW p, NEW t, Offers(cal, p, t),
           NEW new, new = WithSlot(cal, t)
    PROVE  /\ new \in Calendar /\ Conformant(new) /\ new.floor = cal.floor
           /\ Inserted(cal.slots, p, t, new.slots)
<1>1. PICK s : s = cal.slots
  OBVIOUS
<1>2. T1 \in Nat /\ D1 \in Nat /\ Len(s) \in Nat /\ cal.floor \in Int /\ s \in Seq(Instants) /\ s \in Seq(Int)
      /\ DOMAIN s = 1 .. Len(s) /\ \A k \in 1 .. Len(s) : s[k] \in Nat
  BY <1>1, GlobalType, CalendarType
<1>3. p \in 0 .. Len(s) /\ t \in Instants /\ t \in Nat /\ t \in Int /\ \A k \in 1 .. Len(s) : s[k] <= t <=> k <= p
  BY <1>1, InstantsType DEF Offers
<1>4. Cardinality({k \in DOMAIN s : s[k] <= t}) = p
  <2> DEFINE S == {k \in DOMAIN s : s[k] <= t}
  <2>1. p \in Nat /\ p <= Len(s)
    BY <1>2, <1>3
  <2>2. \A k : k \in S <=> k \in 1 .. p
    BY <1>2, <1>3, <2>1
  <2>3. S = 1 .. p
    BY <2>2
  <2>4. 1 \in Int /\ p \in Int
    BY <2>1
  <2>5. Cardinality(1 .. p) = IF 1 > p THEN 0 ELSE p - 1 + 1
    BY <2>4, FS_Interval
  <2>6. (IF 1 > p THEN 0 ELSE p - 1 + 1) = p
    BY <2>1
  <2> QED
    BY <2>3, <2>5, <2>6
<1>5. PICK u : u = Insert(s, t)
  OBVIOUS
<1>6. u = InsertAt(s, p + 1, t)
  BY <1>4, <1>5 DEF Insert
<1>7. /\ u \in Seq(Instants) /\ Len(u) = Len(s) + 1
      /\ \A k \in 1 .. Len(s) + 1 : u[k] = IF k <= p THEN s[k] ELSE IF k = p + 1 THEN t ELSE s[k - 1]
  <2>1. InsertAt(s, p + 1, t) \in Seq(Instants) /\ Inserted(s, p, t, InsertAt(s, p + 1, t))
    BY <1>2, <1>3, InsertPlaces
  <2> QED
    BY <1>6, <2>1, Zenon DEF Inserted
<1>8. new.floor = cal.floor /\ new.slots = u /\ new \in Calendar
  BY <1>1, <1>2, <1>5, <1>7 DEF Calendar, WithSlot
<1>9. p \in Nat /\ p <= Len(s) /\ Len(s) \in Nat /\ Len(u) = Len(s) + 1
  BY <1>2, <1>3, <1>7
<1>10. /\ \A k \in 1 .. p : u[k] = s[k]
       /\ u[p + 1] = t
       /\ \A k \in p + 2 .. Len(u) : u[k] = s[k - 1] /\ k - 1 \in p + 1 .. Len(s)
  <2>1. \A k \in 1 .. p : k \in 1 .. Len(s) + 1 /\ k <= p
    BY <1>2, <1>9
  <2>2. p + 1 \in 1 .. Len(s) + 1 /\ ~(p + 1 <= p)
    BY <1>2, <1>9
  <2>3. \A k \in p + 2 .. Len(u) : k \in 1 .. Len(s) + 1 /\ ~(k <= p) /\ k # p + 1 /\ k - 1 \in p + 1 .. Len(s)
    BY <1>2, <1>7, <1>9
  <2> QED
    BY <1>7, <2>1, <2>2, <2>3
<1>11. ASSUME NEW i \in 1 .. Len(u), NEW j \in 1 .. Len(u), i <= j
       PROVE  u[i] <= u[j] /\ u[j] >= u[i] + (j - i) * T1 - D1
  <2>1. CASE j <= p
    <3>1. i \in 1 .. p /\ j \in 1 .. p /\ i \in 1 .. Len(s) /\ j \in 1 .. Len(s)
      BY <1>2, <1>9, <1>11, <2>1
    <3>2. s[i] <= s[j] /\ s[j] >= s[i] + (j - i) * T1 - D1
      BY <1>1, <1>11, <3>1 DEF Conformant
    <3> QED
      BY <1>10, <3>1, <3>2
  <2>2. CASE j = p + 1 /\ i <= p
    <3>1. i \in 1 .. p /\ i \in 1 .. Len(s)
      BY <1>2, <1>9, <2>2
    <3>2. s[i] <= t /\ t >= s[i] + (p + 1 - i) * T1 - D1
      BY <1>1, <3>1 DEF Offers
    <3>3. u[j] = t /\ u[i] = s[i]
      BY <1>10, <2>2, <3>1, Zenon
    <3>4. j - i = p + 1 - i
      BY <1>9, <2>2
    <3> QED
      BY <3>2, <3>3, <3>4
  <2>3. CASE j = p + 1 /\ i = p + 1
    <3>1. (j - i) * T1 = 0 /\ u[i] = t /\ u[j] = t
      BY <1>2, <1>9, <1>10, <2>3
    <3> QED
      BY <1>2, <1>3, <3>1
  <2>4. CASE j > p + 1 /\ i <= p
    <3>1. i \in 1 .. p /\ j \in p + 2 .. Len(u) /\ j - 1 \in 1 .. Len(s) /\ i \in 1 .. Len(s) /\ i <= j - 1
          /\ j - 1 + 1 - i = j - i
      BY <1>9, <1>11, <2>4
    <3>2. j - 1 \in p + 1 .. Len(s) /\ u[i] = s[i] /\ u[j] = s[j - 1]
      BY <1>10, <3>1
    <3>3. s[i] <= s[j - 1]
      BY <1>1, <3>1 DEF Conformant
    <3>4. s[j - 1] >= s[i] + (j - 1 + 1 - i) * T1 - D1
      BY <1>1, <3>1, <3>2 DEF Offers
    <3> QED
      BY <3>1, <3>2, <3>3, <3>4
  <2>5. CASE j > p + 1 /\ i = p + 1
    <3>1. j \in p + 2 .. Len(u) /\ j - 1 \in 1 .. Len(s) /\ ~(j - 1 <= p) /\ j - 1 - p = j - i
      BY <1>2, <1>7, <1>9, <1>11, <2>5
    <3>2. j - 1 \in p + 1 .. Len(s) /\ u[i] = t /\ u[j] = s[j - 1] /\ s[j - 1] \in Nat
      BY <1>2, <1>10, <2>5, <3>1
    <3>3. ~(s[j - 1] <= t)
      BY <1>3, <3>1
    <3>4. s[j - 1] >= t + (j - 1 - p) * T1 - D1
      BY <1>1, <3>2 DEF Offers
    <3>5. t <= s[j - 1]
      BY <1>3, <3>2, <3>3
    <3> QED
      BY <3>1, <3>2, <3>4, <3>5
  <2>6. CASE i > p + 1
    <3>1. i \in p + 2 .. Len(u) /\ j \in p + 2 .. Len(u) /\ i - 1 \in 1 .. Len(s) /\ j - 1 \in 1 .. Len(s)
          /\ i - 1 <= j - 1 /\ j - 1 - (i - 1) = j - i
      BY <1>9, <1>11, <2>6
    <3>2. u[i] = s[i - 1] /\ u[j] = s[j - 1]
      BY <1>10, <3>1
    <3>3. s[i - 1] <= s[j - 1] /\ s[j - 1] >= s[i - 1] + (j - 1 - (i - 1)) * T1 - D1
      BY <1>1, <3>1 DEF Conformant
    <3> QED
      BY <3>1, <3>2, <3>3
  <2> QED
    BY <1>9, <1>11, <2>1, <2>2, <2>3, <2>4, <2>5, <2>6
<1>12. ASSUME NEW j \in 1 .. Len(u)
       PROVE  u[j] >= cal.floor + (j - 1) * T1 - D1
  <2>1. CASE j <= p
    <3>1. j \in 1 .. p /\ j \in 1 .. Len(s)
      BY <1>2, <1>9, <2>1
    <3> QED
      BY <1>1, <1>10, <3>1 DEF Conformant
  <2>2. CASE j = p + 1
    <3>1. j - 1 = p
      BY <1>9, <2>2
    <3>2. t >= cal.floor + p * T1 - D1
      BY DEF Offers
    <3> QED
      BY <1>10, <2>2, <3>1, <3>2
  <2>3. CASE j > p + 1
    <3>1. j \in p + 2 .. Len(u)
      BY <1>2, <1>7, <1>9, <2>3
    <3>2. j - 1 \in p + 1 .. Len(s) /\ u[j] = s[j - 1]
      BY <1>10, <3>1
    <3> QED
      BY <1>1, <3>2 DEF Offers
  <2> QED
    BY <1>9, <2>1, <2>2, <2>3
<1>13. Conformant(new)
  BY <1>8, <1>11, <1>12 DEF Conformant
<1>14. Inserted(s, p, t, u)
  BY <1>7, Zenon DEF Inserted
<1> QED
  BY <1>1, <1>8, <1>13, <1>14, Zenon

\* u is s without its booking p.
Removed(s, p, u) ==
    /\ Len(u) = Len(s) - 1
    /\ \A k \in 1 .. Len(s) - 1 : u[k] = IF k < p THEN s[k] ELSE s[k + 1]

\* cancel: without a booking the calendar conforms as well.
LEMMA RemoveConforms ==
    ASSUME NEW cal \in Calendar, Conformant(cal), NEW p \in 1 .. Len(cal.slots),
           NEW new, new = [cal EXCEPT !.slots = RemoveAt(@, p)]
    PROVE  /\ new \in Calendar /\ Conformant(new) /\ new.floor = cal.floor
           /\ Removed(cal.slots, p, new.slots)
<1>1. PICK s : s = cal.slots
  OBVIOUS
<1>2. T1 \in Nat /\ D1 \in Nat /\ Len(s) \in Nat /\ cal.floor \in Int /\ s \in Seq(Instants)
      /\ p \in 1 .. Len(s) /\ \A k \in 1 .. Len(s) : s[k] \in Nat
  BY <1>1, GlobalType, CalendarType
<1>3. PICK u : u = RemoveAt(s, p)
  OBVIOUS
<1>4. /\ u \in Seq(Instants) /\ Len(u) = Len(s) - 1
      /\ \A k \in 1 .. Len(s) - 1 : u[k] = IF k < p THEN s[k] ELSE s[k + 1]
  BY <1>2, <1>3, RemovePlaces
<1>5. new.floor = cal.floor /\ new.slots = u /\ new \in Calendar
  BY <1>1, <1>2, <1>3, <1>4 DEF Calendar
<1> DEFINE o(k) == IF k < p THEN k ELSE k + 1
<1>6. p \in Nat /\ p >= 1 /\ p <= Len(s) /\ Len(s) \in Nat /\ Len(u) = Len(s) - 1
  BY <1>2, <1>4
<1>7. ASSUME NEW k \in 1 .. Len(u) PROVE o(k) \in 1 .. Len(s) /\ u[k] = s[o(k)] /\ k <= o(k)
  <2>1. k \in 1 .. Len(s) - 1
    BY <1>6
  <2>2. CASE k < p
    BY <1>4, <1>6, <2>1, <2>2
  <2>3. CASE ~(k < p)
    BY <1>4, <1>6, <2>1, <2>3
  <2> QED
    BY <2>2, <2>3
<1>8. ASSUME NEW i \in 1 .. Len(u), NEW j \in 1 .. Len(u), i <= j
      PROVE  u[i] <= u[j] /\ u[j] >= u[i] + (j - i) * T1 - D1
  <2>1. PICK a, b : a = o(i) /\ b = o(j)
    OBVIOUS
  <2>2. a \in 1 .. Len(s) /\ b \in 1 .. Len(s) /\ u[i] = s[a] /\ u[j] = s[b]
    BY <1>7, <2>1
  <2>3. a <= b /\ j - i <= b - a
    BY <1>6, <1>8, <2>1
  <2>4. s[a] <= s[b] /\ s[b] >= s[a] + (b - a) * T1 - D1
    BY <1>1, <2>2, <2>3, ConformantAt
  <2>5. PICK d, e : d = j - i /\ e = b - a
    OBVIOUS
  <2>6. d \in Int /\ e \in Int /\ d <= e
    BY <1>6, <2>2, <2>3, <2>5
  <2>7. d * T1 <= e * T1 /\ d * T1 \in Int /\ e * T1 \in Int
    BY <2>6, Longer
  <2>8. s[b] >= s[a] + e * T1 - D1
    BY <2>4, <2>5
  <2>9. PICK x, y : x = d * T1 /\ y = e * T1
    OBVIOUS
  <2>11. s[a] \in Nat /\ s[b] \in Nat
    BY <1>2, <2>2
  <2>12. x \in Int /\ y \in Int /\ x <= y /\ s[b] >= s[a] + y - D1
    BY <2>7, <2>8, <2>9
  <2>10. s[b] >= s[a] + x - D1
    BY <1>2, <2>11, <2>12, SMTT(30)
  <2> QED
    BY <2>2, <2>4, <2>5, <2>9, <2>10
<1>9. ASSUME NEW j \in 1 .. Len(u) PROVE u[j] >= cal.floor + (j - 1) * T1 - D1
  <2>1. PICK b : b = o(j)
    OBVIOUS
  <2>2. b \in 1 .. Len(s) /\ u[j] = s[b] /\ j <= b
    BY <1>7, <2>1
  <2>3. s[b] >= cal.floor + (b - 1) * T1 - D1
    BY <1>1, <2>2, ConformantAt
  <2>5. PICK d, e : d = j - 1 /\ e = b - 1
    OBVIOUS
  <2>6. d \in Int /\ e \in Int /\ d <= e
    BY <1>6, <2>2, <2>5
  <2>7. d * T1 <= e * T1 /\ d * T1 \in Int /\ e * T1 \in Int
    BY <2>6, Longer
  <2>8. s[b] >= cal.floor + e * T1 - D1
    BY <2>3, <2>5
  <2>9. PICK x, y : x = d * T1 /\ y = e * T1
    OBVIOUS
  <2>10. s[b] >= cal.floor + x - D1
    BY <1>2, <2>2, <2>7, <2>8, <2>9
  <2> QED
    BY <2>2, <2>5, <2>9, <2>10
<1>10. Conformant(new)
  BY <1>5, <1>8, <1>9 DEF Conformant
<1> QED
  BY <1>1, <1>4, <1>5, <1>10 DEF Removed

\* earliest: the instant it finds is not before start and has a place.
LEMMA EarliestOffers ==
    ASSUME NEW cal \in Calendar, Conformant(cal), NEW start \in Instants,
           NEW t, t = Earliest(cal, start), t # Never
    PROVE  t \in Instants /\ t >= start /\ \E p : Offers(cal, p, t)
<1> DEFINE slots == cal.slots
<1>1. slots = cal.slots
  OBVIOUS
<1>2. T1 \in Nat /\ D1 \in Nat /\ Len(slots) \in Nat /\ cal.floor \in Int /\ slots \in Seq(Int)
      /\ DOMAIN slots = 1 .. Len(slots) /\ \A k \in 1 .. Len(slots) : slots[k] \in Nat
  BY <1>1, GlobalType, CalendarType
<1>3. start \in Nat /\ start \in Int /\ MaxInstant \in Nat
  BY InstantsType
<1> DEFINE s(k) == slots[k] - (k - 1) * T1
           first == Cardinality({k \in DOMAIN slots : slots[k] <= start})
           before(p) == {s(k) : k \in 1 .. p} \cup ({cal.floor} \ {None})
           after(p) == {s(k) - T1 : k \in p + 1 .. Len(slots)}
           low(p) == IF p = first THEN start ELSE slots[p]
           lower(p) == IF before(p) = {} THEN low(p)
                       ELSE Larger(low(p), Max(before(p)) - D1 + p * T1)
           fits(p) ==
               /\ \A b \in before(p), a \in after(p) : b - a <= D1
               /\ \A a \in after(p) : lower(p) <= a + D1 + p * T1
               /\ p < Len(slots) => lower(p) < slots[p + 1]
           places == {p \in first .. Len(slots) : fits(p)}
<1>4. t = IF places = {} \/ lower(Min(places)) > MaxInstant THEN Never ELSE lower(Min(places))
  BY DEF Earliest, T1, D1
<1> HIDE DEF slots
<1>5. first \in 0 .. Len(slots) /\ \A k \in 1 .. Len(slots) : slots[k] <= start <=> k <= first
  <2>1. \A i, j \in DOMAIN slots : i <= j => slots[i] <= slots[j]
    BY <1>1, <1>2 DEF Conformant
  <2> HIDE DEF s, before, after, low, lower, fits, places
  <2> QED
    BY <1>2, <1>3, <2>1, PrefixCount
<1>6. PICK p : p = Min(places)
  OBVIOUS
<1>7. places # {} /\ t = lower(p) /\ ~(t > MaxInstant)
  <2> HIDE DEF places, lower
  <2> QED
    BY <1>4, <1>6
<1>8. p \in places
  <2>0. \A x \in first .. Len(slots) : x \in Nat
    <3> HIDE DEF first
    <3> QED
      BY <1>2, <1>5
  <2>2. \A x \in places : x \in first .. Len(slots)
    <3> HIDE DEF first, fits
    <3> QED
      OBVIOUS
  <2>1. places \in SUBSET Nat
    <3> HIDE DEF places, first
    <3> QED
      BY <2>0, <2>2
  <2> HIDE DEF places
  <2> QED
    BY <1>6, <1>7, <2>1, MinIsSmallest
<1>9. p \in first .. Len(slots) /\ fits(p)
  BY <1>8
<1> HIDE DEF places, first
<1>10. p \in Nat /\ p <= Len(slots) /\ first \in Nat /\ first <= p /\ p \in 0 .. Len(slots)
  BY <1>2, <1>5, <1>9
<1>11. before(p) \in SUBSET Int /\ IsFiniteSet(before(p))
  <2> DEFINE f == [k \in 1 .. p |-> s(k)]
             A == {f[k] : k \in 1 .. p}
             B == {cal.floor} \ {None}
  <2>1. f \in [1 .. p -> Int]
    BY <1>2, <1>10
  <2>2. IsFiniteSet(A) /\ A \in SUBSET Int
    <3> HIDE DEF f
    <3> QED
      BY <1>10, <2>1, FiniteRange
  <2>3. {s(k) : k \in 1 .. p} = A
    OBVIOUS
  <2>4. IsFiniteSet(B) /\ B \in SUBSET Int
    <3>1. IsFiniteSet({cal.floor}) /\ B \in SUBSET {cal.floor}
      BY FS_Singleton
    <3>2. IsFiniteSet(B)
      BY <3>1, FS_Subset
    <3> QED
      BY <1>2, <3>2
  <2>5. before(p) = A \cup B
    BY <2>3
  <2> HIDE DEF A, B, before
  <2> QED
    BY <2>2, <2>4, <2>5, FS_Union
<1>12. low(p) \in Int /\ low(p) >= start /\ (p # first => low(p) = slots[p] /\ p \in 1 .. Len(slots))
  <2>1. CASE p = first
    BY <1>3, <2>1
  <2>2. CASE p # first
    <3>1. p \in 1 .. Len(slots) /\ ~(p <= first)
      BY <1>10, <2>2
    <3>2. slots[p] \in Nat /\ ~(slots[p] <= start)
      BY <1>2, <1>5, <3>1
    <3> QED
      BY <1>3, <2>2, <3>1, <3>2
  <2> QED
    BY <2>1, <2>2
<1>13. t \in Int /\ t >= low(p) /\ \A b \in before(p) : t >= b - D1 + p * T1
  <2> HIDE DEF before, low
  <2>1. CASE before(p) = {}
    BY <1>7, <1>12, <2>1
  <2>2. CASE before(p) # {}
    <3>1. PICK m : m = Max(before(p))
      OBVIOUS
    <3>2. m \in before(p) /\ m \in Int /\ \A b \in before(p) : b <= m
      BY <1>11, <2>2, <3>1, MaxIsLargest
    <3>3. PICK w, z : w = m - D1 + p * T1 /\ z = p * T1
      OBVIOUS
    <3>4. z \in Int /\ w = m - D1 + z /\ w \in Int
      BY <1>2, <1>10, <3>2, <3>3
    <3>5. t = Larger(low(p), w)
      BY <1>7, <2>2, <3>1, <3>3
    <3>6. t \in Int /\ t >= low(p) /\ t >= w
      BY <1>12, <3>4, <3>5 DEF Larger
    <3>7. ASSUME NEW b \in before(p) PROVE t >= b - D1 + z
      <4>1. b \in Int /\ b <= m
        BY <1>11, <3>2
      <4> QED
        BY <1>2, <3>2, <3>4, <3>6, <4>1
    <3> QED
      BY <3>3, <3>6, <3>7
  <2> QED
    BY <2>1, <2>2
<1>14. t \in Instants /\ t >= start /\ t \in Nat
  <2> HIDE DEF low, lower, before
  <2>1. t \in 0 .. MaxInstant
    BY <1>3, <1>7, <1>12, <1>13
  <2> QED
    BY <1>3, <1>12, <1>13, <2>1, InstantsType
<1>15. PICK z : z = p * T1
  OBVIOUS
<1>16. z \in Int
  BY <1>2, <1>10, <1>15
<1>17. ASSUME NEW i \in 1 .. p PROVE s(i) \in before(p) /\ i \in 1 .. Len(slots) /\ slots[i] \in Nat
  <2>1. s(i) \in before(p)
    <3> HIDE DEF s
    <3> QED
      OBVIOUS
  <2>2. i \in 1 .. Len(slots)
    BY <1>2, <1>10
  <2> QED
    BY <1>2, <2>1, <2>2
<1>18. ASSUME NEW j \in p + 1 .. Len(slots)
       PROVE  s(j) - T1 \in after(p) /\ j \in 1 .. Len(slots) /\ slots[j] \in Nat /\ s(j) - T1 = slots[j] - j * T1
  <2>1. j \in 1 .. Len(slots) /\ slots[j] \in Nat /\ s(j) - T1 \in after(p)
    BY <1>2, <1>10
  <2>2. (j - 1) * T1 + T1 = j * T1
    BY <1>2, <1>10
  <2>3. (j - 1) * T1 \in Int /\ j * T1 \in Int
    BY <1>2, <1>10
  <2> QED
    BY <1>2, <2>1, <2>2, <2>3
<1>19. cal.floor # None => cal.floor \in before(p)
  OBVIOUS
<1>20. /\ \A b \in before(p), a \in after(p) : b - a <= D1
       /\ \A a \in after(p) : t <= a + D1 + z
       /\ p < Len(slots) => t < slots[p + 1]
  <2> HIDE DEF before, after, lower
  <2> QED
    BY <1>7, <1>9, <1>15
<1> HIDE DEF before, after, lower, low, fits
<1>21. ASSUME NEW k \in 1 .. Len(slots) PROVE slots[k] <= t <=> k <= p
  <2>0. slots[k] \in Nat /\ k \in Nat
    BY <1>2
  <2>1. CASE k <= p
    <3>1. CASE p = first
      <4>1. slots[k] <= start
        BY <1>5, <2>1, <3>1
      <4> QED
        BY <1>3, <1>14, <2>0, <2>1, <4>1
    <3>2. CASE p # first
      <4>1. p \in 1 .. Len(slots) /\ low(p) = slots[p] /\ slots[p] \in Nat
        BY <1>2, <1>12, <3>2
      <4>2. slots[k] <= slots[p]
        BY <1>1, <2>1, <4>1, ConformantAt
      <4> QED
        BY <1>13, <2>0, <2>1, <4>1, <4>2
    <3> QED
      BY <3>1, <3>2
  <2>2. CASE ~(k <= p)
    <3>1. p + 1 \in 1 .. Len(slots) /\ p < Len(slots) /\ p + 1 <= k
      BY <1>2, <1>10, <2>0, <2>2
    <3>2. t < slots[p + 1] /\ slots[p + 1] \in Nat
      BY <1>2, <1>20, <3>1
    <3>3. slots[p + 1] <= slots[k]
      BY <1>1, <3>1, ConformantAt
    <3> QED
      BY <1>14, <2>0, <2>2, <3>2, <3>3
  <2> QED
    BY <2>1, <2>2
<1>22. ASSUME NEW i \in 1 .. p PROVE t >= slots[i] + (p + 1 - i) * T1 - D1
  <2>1. t >= slots[i] - (i - 1) * T1 - D1 + p * T1
    BY <1>13, <1>17
  <2>2. p * T1 - (i - 1) * T1 = (p + 1 - i) * T1
    BY <1>2, <1>10
  <2>3. (i - 1) * T1 \in Int /\ p * T1 \in Int /\ (p + 1 - i) * T1 \in Int
    BY <1>2, <1>10
  <2> QED
    BY <1>2, <1>14, <1>17, <2>1, <2>2, <2>3, SMTT(30)
<1>23. ASSUME NEW j \in p + 1 .. Len(slots) PROVE slots[j] >= t + (j - p) * T1 - D1
  <2>1. t <= slots[j] - j * T1 + D1 + p * T1
    BY <1>15, <1>18, <1>20
  <2>2. j * T1 - p * T1 = (j - p) * T1
    BY <1>2, <1>10
  <2>3. j * T1 \in Int /\ p * T1 \in Int /\ (j - p) * T1 \in Int
    BY <1>2, <1>10
  <2>4. PICK x, y, w : x = j * T1 /\ y = p * T1 /\ w = (j - p) * T1
    OBVIOUS
  <2>5. x \in Int /\ y \in Int /\ w \in Int /\ x - y = w /\ t <= slots[j] - x + D1 + y
    BY <2>1, <2>2, <2>3, <2>4
  <2>7. slots[j] \in Nat /\ D1 \in Nat /\ t \in Nat
    BY <1>2, <1>14, <1>18
  <2>6. slots[j] >= t + w - D1
    BY <2>5, <2>7
  <2> QED
    BY <2>4, <2>6
<1>24. ASSUME NEW i \in 1 .. p, NEW j \in p + 1 .. Len(slots)
       PROVE  slots[j] >= slots[i] + (j + 1 - i) * T1 - D1
  <2>1. slots[i] - (i - 1) * T1 - (slots[j] - j * T1) <= D1
    BY <1>17, <1>18, <1>20
  <2>2. j * T1 - (i - 1) * T1 = (j + 1 - i) * T1
    BY <1>2, <1>10
  <2>3. j * T1 \in Int /\ (i - 1) * T1 \in Int /\ (j + 1 - i) * T1 \in Int
    BY <1>2, <1>10
  <2> QED
    BY <1>2, <1>17, <1>18, <2>1, <2>2, <2>3, SMTT(30)
<1>25. t >= cal.floor + z - D1 /\ \A j \in p + 1 .. Len(slots) : slots[j] >= cal.floor + j * T1 - D1
  <2>1. CASE cal.floor # None
    <3>1. t >= cal.floor - D1 + z
      BY <1>13, <1>15, <1>19, <2>1
    <3>2. ASSUME NEW j \in p + 1 .. Len(slots) PROVE slots[j] >= cal.floor + j * T1 - D1
      <4>1. cal.floor - (slots[j] - j * T1) <= D1
        BY <1>18, <1>19, <1>20, <2>1
      <4>2. j * T1 \in Int
        BY <1>2, <1>10
      <4> QED
        BY <1>2, <1>18, <4>1, <4>2
    <3> QED
      BY <1>2, <1>14, <1>16, <3>1, <3>2
  <2>2. CASE cal.floor = None /\ p = 0
    <3>1. z = 0 /\ cal.floor = 0 - 1
      BY <1>2, <1>15, <2>2 DEF None
    <3>2. t >= cal.floor + z - D1
      BY <1>2, <1>14, <3>1
    <3>3. ASSUME NEW j \in p + 1 .. Len(slots) PROVE slots[j] >= cal.floor + j * T1 - D1
      <4>1. slots[j] >= t + (j - p) * T1 - D1 /\ j - p = j
        BY <1>10, <1>23, <2>2
      <4>2. j * T1 \in Int /\ slots[j] \in Nat
        BY <1>2, <1>10, <1>18
      <4>3. slots[j] >= t + j * T1 - D1
        BY <4>1
      <4> QED
        BY <1>2, <1>14, <3>1, <4>2, <4>3
    <3> QED
      BY <3>2, <3>3
  <2>3. CASE cal.floor = None /\ p # 0
    <3>1. 1 \in 1 .. p /\ cal.floor = 0 - 1 /\ slots[1] \in Nat
      BY <1>10, <1>17, <2>3 DEF None
    <3>2. t >= slots[1] + (p + 1 - 1) * T1 - D1
      BY <1>22, <3>1
    <3>3. p + 1 - 1 = p
      BY <1>10
    <3>4. t >= slots[1] + z - D1
      BY <1>15, <3>2, <3>3
    <3>5. t >= cal.floor + z - D1
      BY <1>2, <1>14, <1>16, <3>1, <3>4
    <3>6. ASSUME NEW j \in p + 1 .. Len(slots) PROVE slots[j] >= cal.floor + j * T1 - D1
      <4>1. slots[j] >= slots[1] + (j + 1 - 1) * T1 - D1 /\ j + 1 - 1 = j
        BY <1>10, <1>24, <3>1
      <4>2. j * T1 \in Int /\ slots[j] \in Nat
        BY <1>2, <1>10, <1>18
      <4>3. slots[j] >= slots[1] + j * T1 - D1
        BY <4>1
      <4> QED
        BY <1>2, <3>1, <4>2, <4>3
    <3> QED
      BY <3>5, <3>6
  <2> QED
    BY <2>1, <2>2, <2>3
<1>26. Offers(cal, p, t)
  BY <1>1, <1>10, <1>14, <1>15, <1>21, <1>22, <1>23, <1>24, <1>25, Zenon DEF Offers
<1> QED
  BY <1>14, <1>26

-----------------------------------------------------------------------------
(* The requests.  A slot a request holds is at most its delay away; when it *)
(* leaves, each of its slots is exactly that.                               *)

Keyed == {"chat", "group"}
Entry == [tat : Int, stamp : Int]
Slot == [delay : Int, stamp : Int, prev : Entry]
Asked == [pc : {"new", "book", "undo", "leaves", "refused"}, at : Nat, start : Nat, delay : Nat, next : 1 .. 3,
          booked : [1 .. 3 -> Slot], overtaken : BOOLEAN]

\* The slots of a request.
SlotsOK(rec) ==
    \A i \in 1 .. 3 : rec.booked[i] # NoBooking => rec.booked[i].delay \in Nat /\ rec.booked[i].delay <= rec.delay

LeavesOK(r, rec) == rec.pc = "leaves" => \A i \in 1 .. 3 : LimitedBy(r, i) => rec.booked[i].delay >= rec.delay

RecOK(r, rec) ==
    /\ rec \in Asked /\ SlotsOK(rec)
    /\ rec.pc = "new" => \A i \in 1 .. 3 : rec.booked[i] = NoBooking
    /\ LeavesOK(r, rec)

LimType ==
    /\ now \in 0 .. MaxNow
    /\ tats \in [Keyed -> [Chats -> Entry]]
    /\ stamps \in [Keyed -> Nat]
    /\ DOMAIN req = Requests
    /\ \A r \in Requests : RecOK(r, req[r])

\* No booking is a booking record, of no delay.
LEMMA NoBookingType == NoBooking \in Slot /\ NoBooking.prev \in Entry /\ NoBooking.delay = 0 - 1
                       /\ NoBooking.prev.tat = None /\ NoBooking.prev.stamp = None /\ None \in Int /\ None = 0 - 1
<1>1. 0 - 1 \in Int
  OBVIOUS
<1> QED
  BY <1>1 DEF NoBooking, Slot, Entry, None

\* The fields of a request.
LEMMA AskedType ==
    ASSUME NEW rec \in Asked
    PROVE  /\ rec.pc \in {"new", "book", "undo", "leaves", "refused"} /\ rec.at \in Nat /\ rec.start \in Nat
           /\ rec.delay \in Nat /\ rec.next \in 1 .. 3 /\ rec.overtaken \in BOOLEAN
           /\ \A i \in 1 .. 3 : /\ rec.booked[i] \in Slot
                                /\ rec.booked[i].delay \in Int /\ rec.booked[i].stamp \in Int
                                /\ rec.booked[i].prev \in Entry
                                /\ rec.booked[i].prev.tat \in Int /\ rec.booked[i].prev.stamp \in Int
BY DEF Asked, Slot, Entry

\* acquire, between two bookings: the request goes on or leaves; its slots stay.
LEMMA ContinueOK ==
    ASSUME NEW r, NEW rec \in Asked, NEW from \in Nat, from >= 1, NEW new, new = Continue(r, rec, from)
    PROVE  /\ new \in Asked /\ new.pc \in {"book", "leaves"}
           /\ new.at = rec.at /\ new.delay = rec.delay /\ new.booked = rec.booked /\ new.overtaken = rec.overtaken
           /\ LeavesOK(r, new)
<1> DEFINE here == ToBook(r, rec, rec.start, from)
           again == ToBook(r, rec, rec.delay, 1)
<1>1. here \in SUBSET (1 .. 3) /\ here \in SUBSET Nat
  BY DEF ToBook
<1>2. again \in SUBSET (1 .. 3) /\ again \in SUBSET Nat
  BY DEF ToBook
<1>3. new = IF here # {} THEN [rec EXCEPT !.pc = "book", !.next = Min(here)]
            ELSE IF again # {} THEN [rec EXCEPT !.pc = "book", !.start = rec.delay, !.next = Min(again)]
            ELSE [rec EXCEPT !.pc = "leaves"]
  BY DEF Continue
<1>4. CASE here # {}
  <2> HIDE DEF here, again
  <2>1. PICK n : n = Min(here)
    OBVIOUS
  <2>2. n \in 1 .. 3
    BY <1>1, <1>4, <2>1, MinIsSmallest
  <2>3. new = [rec EXCEPT !.pc = "book", !.next = n]
    BY <1>3, <1>4, <2>1
  <2> QED
    BY <2>2, <2>3 DEF Asked, LeavesOK
<1>5. CASE here = {} /\ again # {}
  <2> HIDE DEF here, again
  <2>1. PICK n : n = Min(again)
    OBVIOUS
  <2>2. n \in 1 .. 3
    BY <1>2, <1>5, <2>1, MinIsSmallest
  <2>3. new = [rec EXCEPT !.pc = "book", !.start = rec.delay, !.next = n]
    BY <1>3, <1>5, <2>1
  <2> QED
    BY <2>2, <2>3 DEF Asked, LeavesOK
<1>6. CASE here = {} /\ again = {}
  <2>1. \A i \in 1 .. 3 : LimitedBy(r, i) => ~(rec.booked[i].delay < rec.delay)
    BY <1>6 DEF ToBook
  <2> HIDE DEF here, again
  <2>2. new = [rec EXCEPT !.pc = "leaves"]
    BY <1>3, <1>6
  <2>3. /\ new \in Asked /\ new.pc = "leaves"
        /\ new.at = rec.at /\ new.delay = rec.delay /\ new.booked = rec.booked /\ new.overtaken = rec.overtaken
    BY <2>2 DEF Asked
  <2>4. \A i \in 1 .. 3 : LimitedBy(r, i) => rec.booked[i].delay >= rec.delay
    BY <2>1, AskedType
  <2> QED
    BY <2>3, <2>4 DEF LeavesOK
<1> QED
  BY <1>4, <1>5, <1>6

\* A quota books a slot for a request: the others keep theirs, it keeps its
\* other slots, and goes on or leaves.
LEMMA BookedOK ==
    ASSUME LimType, NEW r \in Requests, req[r].pc = "book", NEW delay \in Nat, NEW stamp \in Int, NEW prev \in Entry,
           Booked(r, delay, stamp, prev), NEW i, i = req[r].next
    PROVE  /\ DOMAIN req' = Requests
           /\ \A s \in Requests : s # r => req'[s] = req[s]
           /\ RecOK(r, req'[r]) /\ req'[r].pc \in {"book", "leaves"}
           /\ req'[r].at = req[r].at /\ req'[r].overtaken = req[r].overtaken
           /\ i \in 1 .. 3 /\ req'[r].booked[i] = [delay |-> delay, stamp |-> stamp, prev |-> prev]
           /\ \A j \in 1 .. 3 : j # i => req'[r].booked[j] = req[r].booked[j]
<1>1. PICK old : old = req[r]
  OBVIOUS
<1>2. old \in Asked /\ SlotsOK(old) /\ DOMAIN req = Requests
  BY <1>1 DEF LimType, RecOK
<1>3. PICK b : b = [delay |-> delay, stamp |-> stamp, prev |-> prev]
  OBVIOUS
<1>4. b \in Slot /\ b.delay = delay
  BY <1>3 DEF Slot
<1>5. i \in 1 .. 3 /\ old.booked \in [1 .. 3 -> Slot] /\ old.delay \in Nat
  BY <1>1, <1>2 DEF Asked
<1>6. PICK d : d = Larger(old.delay, delay)
  OBVIOUS
<1>7. d \in Nat /\ d >= old.delay /\ d >= delay
  BY <1>5, <1>6 DEF Larger
<1>8. PICK rec : rec = [old EXCEPT !.delay = d, !.booked = [@ EXCEPT ![i] = b]]
  OBVIOUS
<1>9. /\ rec \in Asked /\ rec.at = old.at /\ rec.overtaken = old.overtaken /\ rec.delay = d
      /\ rec.booked = [old.booked EXCEPT ![i] = b]
  BY <1>2, <1>4, <1>5, <1>7, <1>8 DEF Asked
<1>10. rec.booked[i] = b /\ \A j \in 1 .. 3 : j # i => rec.booked[j] = old.booked[j]
  BY <1>5, <1>9
<1>11. req' = [req EXCEPT ![r] = Continue(r, rec, i + 1)]
  BY <1>1, <1>3, <1>6, <1>8 DEF Booked
<1>18. PICK from : from = i + 1
  OBVIOUS
<1>12. PICK new : new = Continue(r, rec, from)
  OBVIOUS
<1>13. from \in Nat /\ from >= 1
  BY <1>5, <1>18
<1>14. /\ new \in Asked /\ new.pc \in {"book", "leaves"}
       /\ new.at = rec.at /\ new.delay = rec.delay /\ new.booked = rec.booked /\ new.overtaken = rec.overtaken
       /\ LeavesOK(r, new)
  BY <1>9, <1>12, <1>13, ContinueOK
<1>15. ASSUME NEW j \in 1 .. 3, new.booked[j] # NoBooking
       PROVE  new.booked[j].delay \in Nat /\ new.booked[j].delay <= new.delay
  <2>1. CASE j = i
    BY <1>4, <1>7, <1>9, <1>10, <1>14, <2>1
  <2>2. CASE j # i
    <3>1. new.booked[j] = old.booked[j]
      BY <1>10, <1>14, <2>2
    <3>2. old.booked[j].delay \in Nat /\ old.booked[j].delay <= old.delay
      BY <1>2, <1>15, <3>1 DEF SlotsOK
    <3> QED
      BY <1>5, <1>7, <1>9, <1>14, <3>1, <3>2
  <2> QED
    BY <2>1, <2>2
<1>16. RecOK(r, new)
  BY <1>14, <1>15 DEF RecOK, SlotsOK, LeavesOK
<1>17. req'[r] = new /\ DOMAIN req' = Requests /\ \A s \in Requests : s # r => req'[s] = req[s]
  BY <1>2, <1>11, <1>12, <1>18
<1> QED
  BY <1>1, <1>3, <1>5, <1>9, <1>10, <1>14, <1>16, <1>17

\* undo, and a slot given back: it is gone, the other slots stay.
LEMMA UnbookedOK ==
    ASSUME LimType, NEW r \in Requests, req[r].pc \in {"book", "undo"}, NEW i \in 1 .. 3,
           req' = [req EXCEPT ![r].booked[i] = NoBooking]
    PROVE  /\ DOMAIN req' = Requests
           /\ \A s \in Requests : s # r => req'[s] = req[s]
           /\ RecOK(r, req'[r]) /\ req'[r].pc = req[r].pc
           /\ req'[r].at = req[r].at /\ req'[r].overtaken = req[r].overtaken
           /\ req'[r].booked[i] = NoBooking
           /\ \A j \in 1 .. 3 : j # i => req'[r].booked[j] = req[r].booked[j]
<1>1. PICK old : old = req[r]
  OBVIOUS
<1>2. old \in Asked /\ SlotsOK(old) /\ DOMAIN req = Requests
  BY <1>1 DEF LimType, RecOK
<1>3. PICK none : none = NoBooking
  OBVIOUS
<1>4. none \in Slot
  BY <1>3, NoBookingType
<1>5. PICK new : new = [old EXCEPT !.booked = [@ EXCEPT ![i] = none]]
  OBVIOUS
<1>6. /\ new \in Asked /\ new.at = old.at /\ new.overtaken = old.overtaken /\ new.delay = old.delay /\ new.pc = old.pc
      /\ new.booked = [old.booked EXCEPT ![i] = none]
  BY <1>2, <1>4, <1>5 DEF Asked
<1>7. old.booked \in [1 .. 3 -> Slot]
  BY <1>2 DEF Asked
<1>8. new.booked[i] = none /\ \A j \in 1 .. 3 : j # i => new.booked[j] = old.booked[j]
  BY <1>6, <1>7
<1>9. req' = [req EXCEPT ![r] = new]
  BY <1>1, <1>3, <1>5
<1>10. req'[r] = new /\ DOMAIN req' = Requests /\ \A s \in Requests : s # r => req'[s] = req[s]
  BY <1>2, <1>9
<1>11. SlotsOK(new)
  <2>1. ASSUME NEW j \in 1 .. 3, new.booked[j] # NoBooking
        PROVE  new.booked[j].delay \in Nat /\ new.booked[j].delay <= new.delay
    <3>1. j # i
      BY <1>3, <1>8, <2>1
    <3>2. new.booked[j] = old.booked[j]
      BY <1>8, <3>1
    <3> QED
      BY <1>2, <1>6, <2>1, <3>2 DEF SlotsOK
  <2> QED
    BY <2>1 DEF SlotsOK
<1>12. RecOK(r, new)
  BY <1>1, <1>6, <1>11 DEF RecOK, LeavesOK
<1> QED
  BY <1>1, <1>3, <1>6, <1>8, <1>10, <1>12

\* A request whose pc alone changes, to one of those that end it or undo.
LEMMA PcOK ==
    ASSUME LimType, NEW r \in Requests, NEW pc \in {"undo", "refused"}, req' = [req EXCEPT ![r].pc = pc]
    PROVE  /\ DOMAIN req' = Requests
           /\ \A s \in Requests : s # r => req'[s] = req[s]
           /\ RecOK(r, req'[r]) /\ req'[r].pc = pc
           /\ req'[r].at = req[r].at /\ req'[r].overtaken = req[r].overtaken /\ req'[r].booked = req[r].booked
<1>1. PICK old : old = req[r]
  OBVIOUS
<1>2. old \in Asked /\ SlotsOK(old) /\ DOMAIN req = Requests
  BY <1>1 DEF LimType, RecOK
<1>3. PICK new : new = [old EXCEPT !.pc = pc]
  OBVIOUS
<1>4. /\ new \in Asked /\ new.at = old.at /\ new.overtaken = old.overtaken /\ new.delay = old.delay /\ new.pc = pc
      /\ new.booked = old.booked
  BY <1>2, <1>3 DEF Asked
<1>5. req'[r] = new /\ DOMAIN req' = Requests /\ \A s \in Requests : s # r => req'[s] = req[s]
  BY <1>1, <1>2, <1>3
<1>6. RecOK(r, new)
  BY <1>2, <1>4 DEF RecOK, SlotsOK, LeavesOK
<1> QED
  BY <1>1, <1>4, <1>5, <1>6

\* A request that begins has the clock's instant and no slots.
LEMMA BeginOK ==
    ASSUME LimType, NEW r \in Requests, Begin(r)
    PROVE  /\ DOMAIN req' = Requests
           /\ \A s \in Requests : s # r => req'[s] = req[s]
           /\ RecOK(r, req'[r]) /\ req'[r].at = now /\ req'[r].overtaken = FALSE
           /\ \A i \in 1 .. 3 : req'[r].booked[i] = NoBooking /\ req[r].booked[i] = NoBooking
<1>1. DOMAIN req = Requests /\ RecOK(r, req[r]) /\ now \in Nat
  BY LimiterAssumption DEF LimType
<1>2. PICK new : new = [Fresh EXCEPT !.pc = "book", !.at = now]
  OBVIOUS
<1>3. PICK none : none = NoBooking
  OBVIOUS
<1>4. none \in Slot
  BY <1>3, NoBookingType
<1>5. Fresh = [pc |-> "new", at |-> 0, start |-> 0, delay |-> 0, next |-> 1,
               booked |-> [i \in 1 .. 3 |-> none], overtaken |-> FALSE]
  BY <1>3 DEF Fresh
<1>6. /\ new \in Asked /\ new.pc = "book" /\ new.at = now /\ new.overtaken = FALSE
      /\ new.booked = [i \in 1 .. 3 |-> none]
  <2>1. PICK f : f = [i \in 1 .. 3 |-> none]
    OBVIOUS
  <2>2. f \in [1 .. 3 -> Slot]
    BY <1>4, <2>1
  <2>3. 0 \in Nat /\ 1 \in 1 .. 3 /\ FALSE \in BOOLEAN
    OBVIOUS
  <2>4. new = [pc |-> "book", at |-> now, start |-> 0, delay |-> 0, next |-> 1, booked |-> f, overtaken |-> FALSE]
    BY <1>2, <1>5, <2>1
  <2> QED
    BY <1>1, <2>1, <2>2, <2>3, <2>4 DEF Asked
<1>7. \A i \in 1 .. 3 : new.booked[i] = NoBooking
  BY <1>3, <1>6
<1>8. req' = [req EXCEPT ![r] = new] /\ req[r].pc = "new"
  BY <1>2 DEF Begin
<1>9. req'[r] = new /\ DOMAIN req' = Requests /\ \A s \in Requests : s # r => req'[s] = req[s]
  BY <1>1, <1>8
<1>10. RecOK(r, new)
  BY <1>6, <1>7 DEF RecOK, SlotsOK, LeavesOK
<1>11. \A i \in 1 .. 3 : req[r].booked[i] = NoBooking
  BY <1>1, <1>8 DEF RecOK
<1> QED
  BY <1>6, <1>7, <1>9, <1>10, <1>11

\* A sweep marks the requests under way whose instant has passed.
LEMMA OvertakenOK ==
    ASSUME LimType, req' = Overtaken
    PROVE  /\ DOMAIN req' = Requests
           /\ \A r \in Requests :
                  /\ RecOK(r, req'[r]) /\ req'[r].pc = req[r].pc /\ req'[r].at = req[r].at
                  /\ req'[r].booked = req[r].booked
                  /\ req[r].overtaken => req'[r].overtaken
                  /\ req'[r].pc = "book" /\ ~req'[r].overtaken => req'[r].at >= now
<1>1. DOMAIN req' = Requests
  BY DEF Overtaken
<1>2. ASSUME NEW r \in Requests
      PROVE  /\ RecOK(r, req'[r]) /\ req'[r].pc = req[r].pc /\ req'[r].at = req[r].at
             /\ req'[r].booked = req[r].booked
             /\ req[r].overtaken => req'[r].overtaken
             /\ req'[r].pc = "book" /\ ~req'[r].overtaken => req'[r].at >= now
  <2>1. PICK old : old = req[r]
    OBVIOUS
  <2>2. old \in Asked /\ RecOK(r, old) /\ now \in Nat
    BY <2>1, LimiterAssumption DEF LimType, RecOK
  <2>3. PICK o \in BOOLEAN : o = (old.overtaken \/ (old.pc \in {"book", "undo"} /\ old.at < now))
    OBVIOUS
  <2>4. req'[r] = [old EXCEPT !.overtaken = o]
    BY <2>1, <2>3 DEF Overtaken
  <2>5. PICK new : new = req'[r]
    OBVIOUS
  <2>6. /\ new \in Asked /\ new.at = old.at /\ new.overtaken = o /\ new.delay = old.delay /\ new.pc = old.pc
        /\ new.booked = old.booked
    BY <2>2, <2>4, <2>5 DEF Asked
  <2>7. RecOK(r, new)
    BY <2>2, <2>6 DEF RecOK, SlotsOK, LeavesOK
  <2>8. old.at \in Nat
    BY <2>2 DEF Asked
  <2>9. old.pc = "book" /\ ~o => old.at >= now
    <3>1. old.pc = "book" /\ ~o => ~(old.at < now)
      BY <2>3, Zenon
    <3> QED
      BY <2>2, <2>8, <3>1
  <2> QED
    BY <2>1, <2>3, <2>5, <2>6, <2>7, <2>9
<1> QED
  BY <1>1, <1>2

-----------------------------------------------------------------------------
(* A keyed limit.  Due is where a slot moves its chat's arrival time to.    *)
(* The entry of the chat, and the entry each later slot would restore, know *)
(* of every slot that is held: they are past its due, or it is settled, for *)
(* no request under way is earlier, except those that a sweep overtook.     *)

Due(r, i) == Larger(req[r].booked[i].prev.tat, req[r].at + req[r].booked[i].delay) + Spacing(Buckets[i])

Settled(f) == f <= now /\ \A r \in Requests : req[r].pc = "book" /\ ~req[r].overtaken => req[r].at >= f

Known(e, r, i) ==
    /\ e.stamp = None \/ req[r].booked[i].stamp <= e.stamp
    /\ req[r].overtaken \/ e.tat = Never \/ Due(r, i) <= e.tat \/ Settled(Due(r, i))

Held(i, c) == {r \in Requests : ChatOf[r] = c /\ req[r].booked[i] # NoBooking}

HeldOK(r, i) ==
    /\ req[r].booked[i].stamp \in 0 .. stamps[Buckets[i]] - 1
    /\ req[r].booked[i].prev.tat <= req[r].at + req[r].booked[i].delay + Tolerance(Buckets[i])

Ordered(r, s, i) ==
    /\ req[r].booked[i].stamp # req[s].booked[i].stamp
    /\ req[r].booked[i].stamp < req[s].booked[i].stamp =>
           /\ Known(req[s].booked[i].prev, r, i)
           /\ req[r].overtaken \/ req[s].overtaken \/ Due(s, i) >= Due(r, i) + Spacing(Buckets[i])

KeyInv(i, c) ==
    /\ \A r \in Held(i, c) : HeldOK(r, i) /\ Known(tats[Buckets[i]][c], r, i)
    /\ \A r, s \in Held(i, c) : r # s => Ordered(r, s, i)

\* A step that starts no request earlier than now, and takes nobody back.
Steady ==
    /\ now' >= now
    /\ \A r \in Requests :
           req'[r].pc = "book" /\ ~req'[r].overtaken =>
               \/ req[r].pc = "book" /\ ~req[r].overtaken /\ req'[r].at = req[r].at
               \/ req'[r].at >= now

\* A step that leaves a slot of a request alone.
Keeps(r, i) ==
    /\ req'[r].at = req[r].at /\ req'[r].booked[i] = req[r].booked[i]
    /\ req[r].overtaken => req'[r].overtaken

\* The buckets by number.
LEMMA BucketAt ==
    /\ Buckets[1] = "global" /\ Buckets[2] = "chat" /\ Buckets[3] = "group"
    /\ \A i \in {2, 3} : Buckets[i] \in Keyed /\ Buckets[i] \in Quotas /\ i \in 1 .. 3
BY DEF Buckets, Keyed, Quotas

\* The clock is an instant.
LEMMA NowType == LimType => now \in Nat /\ now <= MaxInstant /\ now < Never /\ Never \in Int
BY LimiterAssumption DEF LimType, Never

\* The parts of a slot that a request holds.
LEMMA SlotType ==
    ASSUME LimType, NEW r \in Requests, NEW i \in 1 .. 3
    PROVE  /\ req[r] \in Asked /\ req[r].at \in Nat /\ req[r].overtaken \in BOOLEAN
           /\ req[r].booked[i].delay \in Int /\ req[r].booked[i].stamp \in Int
           /\ req[r].booked[i].prev \in Entry
           /\ req[r].booked[i].prev.tat \in Int /\ req[r].booked[i].prev.stamp \in Int
<1>1. req[r] \in Asked
  BY DEF LimType, RecOK
<1> QED
  BY <1>1, AskedType

\* A due is an instant, or past the last.
LEMMA DueType ==
    ASSUME LimType, NEW r \in Requests, NEW i \in {2, 3}
    PROVE  Due(r, i) \in Int
<1>1. Spacing(Buckets[i]) \in Nat /\ i \in 1 .. 3
  BY BucketAt, SpacingType
<1>2. PICK a, b : a = req[r].booked[i].prev.tat /\ b = req[r].at + req[r].booked[i].delay
  OBVIOUS
<1>3. a \in Int /\ b \in Int
  BY <1>1, <1>2, SlotType
<1>4. Due(r, i) = Larger(a, b) + Spacing(Buckets[i])
  BY <1>2 DEF Due
<1> QED
  BY <1>1, <1>3, <1>4 DEF Larger

\* What is settled stays so.
LEMMA SettledKept ==
    ASSUME LimType, LimType', Steady, NEW f \in Int, Settled(f)
    PROVE  Settled(f)'
<1>1. now \in Nat /\ now' \in Nat /\ now' >= now /\ f <= now
  BY LimiterAssumption DEF LimType, Steady, Settled
<1>2. f <= now'
  BY <1>1
<1>3. ASSUME NEW r \in Requests, req'[r].pc = "book", ~req'[r].overtaken
      PROVE  req'[r].at >= f
  <2>1. req'[r].at \in Nat
    BY DEF LimType, RecOK, Asked
  <2>2. \/ req[r].pc = "book" /\ ~req[r].overtaken /\ req'[r].at = req[r].at
        \/ req'[r].at >= now
    BY <1>3 DEF Steady
  <2>3. CASE req[r].pc = "book" /\ ~req[r].overtaken /\ req'[r].at = req[r].at
    BY <2>3 DEF Settled
  <2>4. CASE req'[r].at >= now
    BY <1>1, <2>1, <2>4
  <2> QED
    BY <2>2, <2>3, <2>4
<1> QED
  BY <1>2, <1>3 DEF Settled

\* What an entry knows of a slot it still knows after a step that leaves the slot alone.
LEMMA KnownKept ==
    ASSUME LimType, LimType', Steady, NEW r \in Requests, NEW i \in {2, 3}, Keeps(r, i), NEW e, Known(e, r, i)
    PROVE  Known(e, r, i)' /\ Due(r, i)' = Due(r, i)
<1>1. Due(r, i)' = Due(r, i)
  BY DEF Due, Keeps
<1>2. Due(r, i) \in Int
  BY DueType
<1>3. e.stamp = None \/ req'[r].booked[i].stamp <= e.stamp
  BY DEF Known, Keeps
<1>4. req'[r].overtaken \/ e.tat = Never \/ Due(r, i)' <= e.tat \/ Settled(Due(r, i))'
  <2>1. PICK f : f = Due(r, i)
    OBVIOUS
  <2>2. Settled(f) => Settled(f)'
    BY <1>2, <2>1, SettledKept
  <2>3. req[r].overtaken \/ e.tat = Never \/ f <= e.tat \/ Settled(f)
    BY <2>1 DEF Known
  <2>4. req[r].overtaken => req'[r].overtaken
    BY DEF Keeps
  <2>5. Settled(f)' => Settled(Due(r, i))'
    BY <1>1, <2>1 DEF Settled
  <2> QED
    BY <1>1, <2>1, <2>2, <2>3, <2>4, <2>5, Zenon
<1> QED
  BY <1>1, <1>3, <1>4 DEF Known

\* A step that leaves the slots still held alone, and after which the entry
\* of the chat knows of them.
LEMMA KeyStep ==
    ASSUME LimType, LimType', Steady, NEW i \in {2, 3}, NEW c \in Chats, KeyInv(i, c),
           stamps'[Buckets[i]] >= stamps[Buckets[i]],
           \A r \in Held(i, c)' : Keeps(r, i) /\ Known(tats[Buckets[i]][c], r, i)'
    PROVE  KeyInv(i, c)'
<1>0. i \in 1 .. 3 /\ Buckets[i] \in Keyed
  BY BucketAt
<1>1. ASSUME NEW r \in Held(i, c)' PROVE r \in Requests /\ r \in Held(i, c) /\ Keeps(r, i)
  BY DEF Held, Keeps
<1>2. ASSUME NEW r \in Held(i, c)' PROVE HeldOK(r, i)'
  <2>1. r \in Requests /\ HeldOK(r, i) /\ Keeps(r, i)
    BY <1>1 DEF KeyInv
  <2>2. PICK n, m : n = stamps[Buckets[i]] /\ m = stamps'[Buckets[i]]
    OBVIOUS
  <2>3. n \in Nat /\ m \in Nat /\ n <= m
    BY <1>0, <2>2 DEF LimType
  <2>4. req[r].booked[i].stamp \in 0 .. n - 1
    BY <2>1, <2>2 DEF HeldOK
  <2>5. req'[r].booked[i].stamp \in 0 .. m - 1
    BY <2>1, <2>3, <2>4 DEF Keeps
  <2> QED
    BY <2>1, <2>2, <2>5 DEF HeldOK, Keeps
<1>3. ASSUME NEW r \in Held(i, c)', NEW s \in Held(i, c)', r # s PROVE Ordered(r, s, i)'
  <2>1. r \in Requests /\ s \in Requests /\ Ordered(r, s, i) /\ Keeps(r, i) /\ Keeps(s, i)
    BY <1>1, <1>3 DEF KeyInv
  <2>2. req'[r].booked[i] = req[r].booked[i] /\ req'[s].booked[i] = req[s].booked[i]
    BY <2>1 DEF Keeps
  <2>3. req'[r].booked[i].stamp # req'[s].booked[i].stamp
    BY <2>1, <2>2 DEF Ordered
  <2>4. ASSUME req[r].booked[i].stamp < req[s].booked[i].stamp
        PROVE  /\ Known(req[s].booked[i].prev, r, i)'
               /\ req'[r].overtaken \/ req'[s].overtaken \/ Due(s, i)' >= Due(r, i)' + Spacing(Buckets[i])
    <3>1. PICK e : e = req[s].booked[i].prev
      OBVIOUS
    <3>2. Known(e, r, i)
      BY <2>1, <2>4, <3>1 DEF Ordered
    <3>3. Known(e, r, i)' /\ Due(r, i)' = Due(r, i)
      BY <2>1, <3>2, KnownKept
    <3>4. Known(req[s].booked[i].prev, r, i)'
      BY <2>2, <3>1, <3>3 DEF Known
    <3>5. Due(s, i)' = Due(s, i)
      BY <2>1 DEF Due, Keeps
    <3>6. req[r].overtaken \/ req[s].overtaken \/ Due(s, i) >= Due(r, i) + Spacing(Buckets[i])
      BY <2>1, <2>4 DEF Ordered
    <3>7. (req[r].overtaken => req'[r].overtaken) /\ (req[s].overtaken => req'[s].overtaken)
      BY <2>1 DEF Keeps
    <3> QED
      BY <3>3, <3>4, <3>5, <3>6, <3>7, Zenon
  <2> QED
    BY <2>2, <2>3, <2>4 DEF Ordered
<1> QED
  BY <1>2, <1>3 DEF KeyInv

\* A step that leaves a chat's entry and the slots still held alone.
LEMMA KeySame ==
    ASSUME LimType, LimType', Steady, NEW i \in {2, 3}, NEW c \in Chats, KeyInv(i, c),
           stamps'[Buckets[i]] >= stamps[Buckets[i]], tats'[Buckets[i]][c] = tats[Buckets[i]][c],
           \A r \in Held(i, c)' : Keeps(r, i)
    PROVE  KeyInv(i, c)'
<1>1. ASSUME NEW r \in Held(i, c)' PROVE Known(tats[Buckets[i]][c], r, i)'
  <2>1. r \in Requests /\ r \in Held(i, c) /\ Keeps(r, i)
    BY DEF Held, Keeps
  <2>2. PICK e : e = tats[Buckets[i]][c]
    OBVIOUS
  <2>3. Known(e, r, i)
    BY <2>1, <2>2 DEF KeyInv
  <2>4. Known(e, r, i)'
    BY <2>1, <2>3, KnownKept
  <2> QED
    BY <2>2, <2>4 DEF Known
<1> QED
  BY <1>1, KeyStep

\* retain_recent: what the entry knew of is settled when the entry goes.
LEMMA KeySwept ==
    ASSUME LimType, LimType', Steady, NEW i \in {2, 3}, NEW c \in Chats, KeyInv(i, c),
           stamps' = stamps, now' = now,
           tats[Buckets[i]][c].tat <= now, tats'[Buckets[i]][c] = NoBooking.prev,
           \A r \in Requests : Keeps(r, i),
           \A r \in Requests : req'[r].pc = "book" /\ ~req'[r].overtaken => req'[r].at >= now
    PROVE  KeyInv(i, c)'
<1>0. Buckets[i] \in Keyed /\ i \in 1 .. 3 /\ now \in Nat /\ now < Never /\ Never \in Int
  BY BucketAt, NowType
<1>1. ASSUME NEW r \in Held(i, c)' PROVE Known(tats[Buckets[i]][c], r, i)' /\ Keeps(r, i)
  <2>1. r \in Requests /\ r \in Held(i, c) /\ Keeps(r, i)
    BY DEF Held, Keeps
  <2>2. PICK e : e = tats[Buckets[i]][c]
    OBVIOUS
  <2>3. Known(e, r, i)
    BY <2>1, <2>2 DEF KeyInv
  <2>4. Known(e, r, i)' /\ Due(r, i)' = Due(r, i)
    BY <2>1, <2>3, KnownKept
  <2>5. PICK f : f = Due(r, i)
    OBVIOUS
  <2>6. f \in Int
    BY <2>1, <2>5, DueType
  <2>7. e.tat \in Int /\ e.tat <= now /\ e.tat # Never
    <3>1. e \in Entry
      BY <1>0, <2>2 DEF LimType
    <3>2. e.tat \in Int
      BY <3>1 DEF Entry
    <3> QED
      BY <1>0, <2>2, <3>2
  <2>8. f <= e.tat => Settled(f)'
    <3> SUFFICES ASSUME f <= e.tat PROVE Settled(f)'
      OBVIOUS
    <3>1. f <= now
      BY <1>0, <2>6, <2>7
    <3>2. ASSUME NEW s \in Requests, req'[s].pc = "book", ~req'[s].overtaken PROVE req'[s].at >= f
      <4>1. req'[s].at \in Nat /\ req'[s].at >= now
        BY <3>2 DEF LimType, RecOK, Asked
      <4> QED
        BY <1>0, <2>6, <3>1, <4>1
    <3> QED
      BY <3>1, <3>2 DEF Settled
  <2>9. req'[r].overtaken \/ Settled(Due(r, i))'
    <3>1. req'[r].overtaken \/ e.tat = Never \/ Due(r, i)' <= e.tat \/ Settled(Due(r, i))'
      BY <2>4 DEF Known
    <3>2. Settled(f)' => Settled(Due(r, i))'
      BY <2>4, <2>5 DEF Settled
    <3> QED
      BY <2>4, <2>5, <2>7, <2>8, <3>1, <3>2, Zenon
  <2>10. tats'[Buckets[i]][c].stamp = None
    BY NoBookingType
  <2> QED
    BY <2>1, <2>9, <2>10 DEF Known
<1>2. stamps'[Buckets[i]] >= stamps[Buckets[i]]
  BY <1>0 DEF LimType
<1> QED
  BY <1>1, <1>2, KeyStep

\* cancel: the entry that comes back knows of the slots that are left.
LEMMA KeyCancelled ==
    ASSUME LimType, LimType', Steady, NEW i \in {2, 3}, NEW c \in Chats, KeyInv(i, c),
           NEW x \in Held(i, c), stamps' = stamps,
           tats'[Buckets[i]][c] = IF tats[Buckets[i]][c].stamp = req[x].booked[i].stamp
                                  THEN req[x].booked[i].prev ELSE tats[Buckets[i]][c],
           \A r \in Held(i, c)' : r # x /\ Keeps(r, i)
    PROVE  KeyInv(i, c)'
<1>0. Buckets[i] \in Keyed /\ i \in 1 .. 3 /\ None = 0 - 1
  BY BucketAt, NoBookingType
<1>1. stamps'[Buckets[i]] >= stamps[Buckets[i]]
  BY <1>0 DEF LimType
<1>2. CASE tats[Buckets[i]][c].stamp # req[x].booked[i].stamp
  <2>1. tats'[Buckets[i]][c] = tats[Buckets[i]][c]
    BY <1>2
  <2> QED
    BY <1>1, <2>1, KeySame
<1>3. CASE tats[Buckets[i]][c].stamp = req[x].booked[i].stamp
  <2>1. ASSUME NEW r \in Held(i, c)' PROVE Known(tats[Buckets[i]][c], r, i)' /\ Keeps(r, i)
    <3>1. r \in Requests /\ r \in Held(i, c) /\ Keeps(r, i) /\ r # x /\ x \in Requests
      BY DEF Held, Keeps
    <3>2. PICK e : e = req[x].booked[i].prev
      OBVIOUS
    <3>3. Ordered(r, x, i) /\ HeldOK(x, i) /\ Known(tats[Buckets[i]][c], r, i)
      BY <3>1 DEF KeyInv
    <3>4. PICK a, b, n : a = req[r].booked[i].stamp /\ b = req[x].booked[i].stamp /\ n = stamps[Buckets[i]]
      OBVIOUS
    <3>5. a \in Int /\ b \in Int /\ n \in Nat
      BY <1>0, <3>1, <3>4, SlotType DEF LimType
    <3>6. b \in 0 .. n - 1 /\ a # b
      BY <3>3, <3>4 DEF HeldOK, Ordered
    <3>7. b = None \/ a <= b
      BY <1>3, <3>3, <3>4 DEF Known
    <3>8. a < b
      BY <1>0, <3>5, <3>6, <3>7
    <3>9. Known(e, r, i)
      BY <3>2, <3>3, <3>4, <3>8 DEF Ordered
    <3>10. Known(e, r, i)'
      BY <3>1, <3>9, KnownKept
    <3>11. tats'[Buckets[i]][c] = e
      BY <1>3, <3>2
    <3> QED
      BY <3>1, <3>10, <3>11 DEF Known
  <2> QED
    BY <1>1, <2>1, KeyStep
<1> QED
  BY <1>2, <1>3

\* What Quota::book finds of a key whose arrival time is prev, at instant at.
BookedAt(prev, at, tol, tat, wait) ==
    /\ tat \in Int /\ tat >= prev /\ tat >= at /\ wait \in Nat
    /\ Larger(prev, at + wait) = tat
    /\ prev <= at + wait + tol

\* Quota::book: the slot is due an interval past the arrival time it found,
\* or past its own start.
LEMMA BookArithmetic ==
    ASSUME NEW prev \in Int, NEW at \in Int, NEW tol \in Nat,
           NEW tat, tat = Larger(prev, at), NEW wait, wait = Larger(tat - at - tol, 0)
    PROVE  BookedAt(prev, at, tol, tat, wait)
<1>1. tat \in Int /\ tat >= prev /\ tat >= at /\ (tat = prev \/ tat = at)
  BY DEF Larger
<1>2. PICK d : d = tat - at - tol
  OBVIOUS
<1>3. d \in Int
  BY <1>1, <1>2
<1>4. wait \in Int /\ wait >= d /\ wait >= 0 /\ (wait = d \/ wait = 0)
  BY <1>2, <1>3 DEF Larger
<1>5. PICK x : x = at + wait
  OBVIOUS
<1>6. x \in Int /\ x >= at /\ x <= tat /\ prev <= x + tol
  BY <1>1, <1>2, <1>3, <1>4, <1>5
<1>7. Larger(prev, x) = tat
  <2>1. CASE prev > x
    BY <1>1, <1>6, <2>1 DEF Larger
  <2>2. CASE ~(prev > x)
    BY <1>1, <1>6, <2>2 DEF Larger
  <2> QED
    BY <2>1, <2>2
<1> QED
  BY <1>1, <1>4, <1>5, <1>6, <1>7 DEF BookedAt

\* acquire: the new entry knows of the new slot and of those before, and the
\* new slot is due an interval after each of them.
LEMMA KeyBooked ==
    ASSUME LimType, LimType', Steady, NEW i \in {2, 3}, NEW c \in Chats, KeyInv(i, c),
           NEW x \in Requests, ChatOf[x] = c, req[x].pc = "book", req[x].booked[i] = NoBooking,
           NEW at \in Nat, at = req[x].at + req[x].start, at <= MaxInstant,
           NEW e, e = tats[Buckets[i]][c],
           NEW tat, tat = Larger(e.tat, at), tat # Never,
           NEW wait, wait = Larger(tat - at - Tolerance(Buckets[i]), 0),
           NEW n, n = stamps[Buckets[i]], stamps'[Buckets[i]] = n + 1,
           tats'[Buckets[i]][c] = [tat |-> Plus(tat, Spacing(Buckets[i])), stamp |-> n],
           \A s \in Requests : s # x => req'[s] = req[s],
           req'[x].at = req[x].at, req'[x].overtaken = req[x].overtaken,
           req'[x].booked[i] = [delay |-> req[x].start + wait, stamp |-> n, prev |-> e]
    PROVE  KeyInv(i, c)'
<1>0. Buckets[i] \in Keyed /\ Buckets[i] \in Quotas /\ i \in 1 .. 3 /\ None = 0 - 1 /\ Never = MaxInstant + 1
      /\ MaxInstant \in Nat
  BY BucketAt, NoBookingType, InstantsType DEF Never
<1>1. PICK T, D : T = Spacing(Buckets[i]) /\ D = Tolerance(Buckets[i])
  OBVIOUS
<1>2. T \in Nat /\ D \in Nat
  BY <1>0, <1>1, SpacingType
<1>3. e \in Entry /\ e.tat \in Int /\ e.stamp \in Int /\ n \in Nat
  <2>1. e \in Entry /\ n \in Nat
    BY <1>0 DEF LimType
  <2> QED
    BY <2>1 DEF Entry
<1>4. tat \in Int /\ tat >= e.tat /\ tat >= at /\ wait \in Nat /\ Larger(e.tat, at + wait) = tat
      /\ e.tat <= at + wait + D
  <2>1. PICK p : p = e.tat
    OBVIOUS
  <2>2. p \in Int /\ at \in Int /\ tat = Larger(p, at) /\ wait = Larger(tat - at - D, 0)
    BY <1>1, <1>3, <2>1
  <2>3. BookedAt(p, at, D, tat, wait)
    BY <1>2, <2>2, BookArithmetic
  <2> QED
    BY <2>1, <2>3 DEF BookedAt
<1>5. PICK f : f = [tat |-> Plus(tat, T), stamp |-> n]
  OBVIOUS
<1>6. tats'[Buckets[i]][c] = f /\ f.stamp = n /\ (f.tat = Never \/ f.tat = tat + T)
  BY <1>1, <1>5 DEF Plus
<1>7. req[x].at \in Nat /\ req[x].start \in Nat
  BY DEF LimType, RecOK, Asked
<1>8. PICK b : b = req'[x].booked[i]
  OBVIOUS
<1>9. b.delay = req[x].start + wait /\ b.stamp = n /\ b.prev = e /\ req'[x].at + b.delay = at + wait
  BY <1>4, <1>7, <1>8
<1>10. Due(x, i)' = tat + T
  <2>1. Due(x, i)' = Larger(b.prev.tat, req'[x].at + b.delay) + T
    BY <1>1, <1>8 DEF Due
  <2> QED
    BY <1>4, <1>9, <2>1
<1>11. ASSUME NEW r \in Held(i, c)', r # x PROVE r \in Requests /\ r \in Held(i, c) /\ Keeps(r, i)
  BY <1>11 DEF Held, Keeps
<1>12. HeldOK(x, i)'
  <2>1. b.stamp \in 0 .. stamps'[Buckets[i]] - 1
    BY <1>3, <1>9
  <2>2. b.prev.tat <= req'[x].at + b.delay + D
    BY <1>4, <1>9
  <2> QED
    BY <1>1, <1>8, <2>1, <2>2 DEF HeldOK
<1>13. Known(tats[Buckets[i]][c], x, i)'
  <2>1. f.stamp = None \/ b.stamp <= f.stamp
    BY <1>3, <1>6, <1>9
  <2>2. f.tat = Never \/ Due(x, i)' <= f.tat
    BY <1>2, <1>4, <1>6, <1>10
  <2> QED
    BY <1>6, <1>8, <2>1, <2>2 DEF Known
<1>14. ASSUME NEW r \in Held(i, c)', r # x
       PROVE  /\ HeldOK(r, i)' /\ req[r].booked[i].stamp < n
              /\ Known(tats[Buckets[i]][c], r, i)'
              /\ Known(e, r, i)'
              /\ req'[r].overtaken \/ req'[x].overtaken \/ Due(x, i)' >= Due(r, i)' + T
  <2>1. r \in Requests /\ r \in Held(i, c) /\ Keeps(r, i) /\ HeldOK(r, i) /\ Known(e, r, i)
    BY <1>11, <1>14 DEF KeyInv
  <2>2. PICK a : a = req[r].booked[i].stamp
    OBVIOUS
  <2>3. a \in 0 .. n - 1 /\ a \in Int
    BY <1>0, <2>1, <2>2, SlotType DEF HeldOK
  <2>4. a < n /\ a \in 0 .. n + 1 - 1
    BY <1>3, <2>3
  <2>5. HeldOK(r, i)'
    <3>1. PICK m : m = stamps'[Buckets[i]]
      OBVIOUS
    <3>2. a \in 0 .. m - 1
      BY <1>3, <2>4, <3>1
    <3>3. req'[r].booked[i].stamp \in 0 .. m - 1
      BY <2>1, <2>2, <3>2 DEF Keeps
    <3> QED
      BY <2>1, <3>1, <3>3 DEF HeldOK, Keeps
  <2>6. Known(e, r, i)' /\ Due(r, i)' = Due(r, i)
    BY <2>1, KnownKept
  <2>7. PICK d : d = Due(r, i)
    OBVIOUS
  <2>8. d \in Int
    BY <2>1, <2>7, DueType
  <2>9. e.tat # Never
    <3>1. e.tat = Never => tat = Never
      BY <1>0, <1>3 DEF Larger
    <3> QED
      BY <3>1
  <2>10. req'[r].overtaken \/ d <= e.tat \/ Settled(d)
    <3>1. req[r].overtaken \/ e.tat = Never \/ d <= e.tat \/ Settled(d)
      BY <2>1, <2>7 DEF Known
    <3>2. req[r].overtaken => req'[r].overtaken
      BY <2>1 DEF Keeps
    <3> QED
      BY <2>9, <3>1, <3>2, Zenon
  <2>11. Settled(d) => Settled(Due(r, i))'
    <3>1. Settled(d) => Settled(d)'
      BY <2>8, SettledKept
    <3>2. Settled(d)' => Settled(Due(r, i))'
      BY <2>6, <2>7 DEF Settled
    <3> QED
      BY <3>1, <3>2
  <2>12. Settled(d) => req[x].overtaken \/ d <= tat
    <3> SUFFICES ASSUME Settled(d), ~req[x].overtaken PROVE d <= tat
      OBVIOUS
    <3>1. req[x].at >= d
      BY DEF Settled
    <3> QED
      BY <1>4, <1>7, <2>8, <3>1
  <2>13. d <= e.tat => d <= tat
    BY <1>3, <1>4, <2>8
  <2>14. Known(tats[Buckets[i]][c], r, i)'
    <3>1. f.stamp = None \/ req'[r].booked[i].stamp <= f.stamp
      <4>1. req'[r].booked[i].stamp = a
        BY <2>1, <2>2 DEF Keeps
      <4> QED
        BY <1>3, <1>6, <2>3, <2>4, <4>1
    <3>2. d <= e.tat => f.tat = Never \/ d <= f.tat
      BY <1>2, <1>3, <1>4, <1>6, <2>8
    <3>3. req'[r].overtaken \/ f.tat = Never \/ Due(r, i)' <= f.tat \/ Settled(Due(r, i))'
      BY <2>6, <2>7, <2>10, <2>11, <3>2, Zenon
    <3> QED
      BY <1>6, <3>1, <3>3 DEF Known
  <2>15. req'[r].overtaken \/ req'[x].overtaken \/ d <= tat
    BY <2>10, <2>12, <2>13, Zenon
  <2>16. d <= tat => Due(x, i)' >= Due(r, i)' + T
    BY <1>2, <1>4, <1>10, <2>6, <2>7, <2>8
  <2> QED
    BY <2>2, <2>4, <2>5, <2>6, <2>14, <2>15, <2>16, Zenon
<1>15. ASSUME NEW r \in Held(i, c)', NEW s \in Held(i, c)', r # s PROVE Ordered(r, s, i)'
  <2>1. CASE r # x /\ s # x
    <3>1. r \in Requests /\ s \in Requests /\ Ordered(r, s, i) /\ Keeps(r, i) /\ Keeps(s, i)
      BY <1>11, <1>15, <2>1 DEF KeyInv
    <3>2. req'[r].booked[i] = req[r].booked[i] /\ req'[s].booked[i] = req[s].booked[i]
      BY <3>1 DEF Keeps
    <3>3. req'[r].booked[i].stamp # req'[s].booked[i].stamp
      BY <3>1, <3>2 DEF Ordered
    <3>4. ASSUME req[r].booked[i].stamp < req[s].booked[i].stamp
          PROVE  /\ Known(req[s].booked[i].prev, r, i)'
                 /\ req'[r].overtaken \/ req'[s].overtaken \/ Due(s, i)' >= Due(r, i)' + Spacing(Buckets[i])
      <4>1. PICK g : g = req[s].booked[i].prev
        OBVIOUS
      <4>2. Known(g, r, i)
        BY <3>1, <3>4, <4>1 DEF Ordered
      <4>3. Known(g, r, i)' /\ Due(r, i)' = Due(r, i)
        BY <3>1, <4>2, KnownKept
      <4>4. Known(req[s].booked[i].prev, r, i)'
        BY <3>2, <4>1, <4>3 DEF Known
      <4>5. Due(s, i)' = Due(s, i)
        BY <3>1 DEF Due, Keeps
      <4>6. req[r].overtaken \/ req[s].overtaken \/ Due(s, i) >= Due(r, i) + Spacing(Buckets[i])
        BY <3>1, <3>4 DEF Ordered
      <4>7. (req[r].overtaken => req'[r].overtaken) /\ (req[s].overtaken => req'[s].overtaken)
        BY <3>1 DEF Keeps
      <4> QED
        BY <4>3, <4>4, <4>5, <4>6, <4>7, Zenon
    <3> QED
      BY <3>2, <3>3, <3>4 DEF Ordered
  <2>2. CASE r # x /\ s = x
    <3>1. req[r].booked[i].stamp < n /\ Known(e, r, i)' /\ Keeps(r, i) /\ r \in Requests
          /\ (req'[r].overtaken \/ req'[x].overtaken \/ Due(x, i)' >= Due(r, i)' + T)
      BY <1>11, <1>14, <2>2
    <3>2. req'[r].booked[i].stamp < req'[s].booked[i].stamp /\ req'[r].booked[i].stamp \in Int
          /\ req'[s].booked[i].stamp = n
      BY <1>0, <1>8, <1>9, <2>2, <3>1, SlotType DEF Keeps
    <3>3. req'[r].booked[i].stamp # req'[s].booked[i].stamp
      BY <1>3, <3>2
    <3>4. Known(req[s].booked[i].prev, r, i)'
      BY <1>8, <1>9, <2>2, <3>1 DEF Known
    <3> QED
      BY <1>1, <2>2, <3>1, <3>3, <3>4 DEF Ordered
  <2>3. CASE r = x /\ s # x
    <3>1. req[s].booked[i].stamp < n /\ Keeps(s, i) /\ s \in Requests
      BY <1>11, <1>14, <2>3
    <3>2. req'[s].booked[i].stamp < n /\ req'[s].booked[i].stamp \in Int /\ req'[r].booked[i].stamp = n
      BY <1>0, <1>8, <1>9, <2>3, <3>1, SlotType DEF Keeps
    <3>3. req'[r].booked[i].stamp # req'[s].booked[i].stamp /\ ~(req'[r].booked[i].stamp < req'[s].booked[i].stamp)
      BY <1>3, <3>2
    <3> QED
      BY <3>3 DEF Ordered
  <2> QED
    BY <1>15, <2>1, <2>2, <2>3
<1>16. ASSUME NEW r \in Held(i, c)' PROVE HeldOK(r, i)' /\ Known(tats[Buckets[i]][c], r, i)'
  BY <1>12, <1>13, <1>14
<1> QED
  BY <1>15, <1>16 DEF KeyInv

-----------------------------------------------------------------------------
(* The calendar's bookings belong to the requests that hold them: each to   *)
(* another, in the calendar (k is its place) or folded (k is 0, fin the     *)
(* floor after it).                                                         *)

Apart(a, b) == a - b >= T1 \/ b - a >= T1

Owned(cal, H, X, k, fin) ==
    /\ \A r \in H :
           /\ k[r] \in 0 .. Len(cal.slots)
           /\ k[r] # 0 => cal.slots[k[r]] = X[r]
           /\ k[r] = 0 => X[r] + T1 <= fin[r] /\ fin[r] <= X[r] + D1 + T1 /\ fin[r] <= cal.floor
    /\ \A r, s \in H : s # r /\ k[r] = k[s] => k[r] = 0 /\ Apart(fin[r], fin[s])

OwnedBy(cal, H, X) == \E k \in [Requests -> Nat], fin \in [Requests -> Int] : Owned(cal, H, X, k, fin)

\* Fewer requests, with the same slots.
LEMMA OwnedSubset ==
    ASSUME NEW cal, NEW H, NEW X, OwnedBy(cal, H, X), NEW G \in SUBSET H, NEW Y, \A r \in G : Y[r] = X[r]
    PROVE  OwnedBy(cal, G, Y)
<1>1. PICK k \in [Requests -> Nat], fin \in [Requests -> Int] : Owned(cal, H, X, k, fin)
  BY DEF OwnedBy
<1>2. Owned(cal, G, Y, k, fin)
  BY <1>1 DEF Owned
<1> QED
  BY <1>2 DEF OwnedBy

\* fold_before: the bookings folded keep the floor after them.
LEMMA OwnedFold ==
    ASSUME NEW cal \in Calendar, Conformant(cal), NEW at, NEW H \in SUBSET Requests, NEW X \in [Requests -> Int],
           OwnedBy(cal, H, X), NEW new, new = Fold(cal, at)
    PROVE  OwnedBy(new, H, X)
<1>1. PICK k \in [Requests -> Nat], fin \in [Requests -> Int] : Owned(cal, H, X, k, fin)
  BY DEF OwnedBy
<1>2. PICK n : n = Folded(cal, at)
  OBVIOUS
<1>3. PICK s, u : s = cal.slots /\ u = new.slots
  OBVIOUS
<1>4. /\ n \in 0 .. Len(s) /\ new.floor = FloorAfter(cal, n) /\ new.floor >= cal.floor
      /\ Len(u) = Len(s) - n /\ \A j \in 1 .. Len(s) - n : u[j] = s[n + j]
  BY <1>2, <1>3, FoldConforms
<1>5. T1 \in Nat /\ D1 \in Nat /\ Len(s) \in Nat /\ cal.floor \in Int /\ n \in Nat /\ n <= Len(s)
      /\ \A j \in 1 .. Len(s) : s[j] \in Nat
  BY <1>3, <1>4, GlobalType, CalendarType
<1>6. new.floor \in Int
  BY <1>3, <1>4, FloorAfterIsMax
<1> DEFINE l == [r \in Requests |-> IF k[r] > n THEN k[r] - n ELSE 0]
           end == [r \in Requests |-> IF k[r] \in 1 .. n THEN FloorAfter(cal, k[r]) ELSE fin[r]]
<1>7. \A r \in Requests : k[r] \in Nat /\ fin[r] \in Int /\ X[r] \in Int
  OBVIOUS
<1>8. l \in [Requests -> Nat]
  BY <1>5, <1>7
<1>9. ASSUME NEW j \in 1 .. n
      PROVE  /\ FloorAfter(cal, j) \in Int /\ s[j] + T1 <= FloorAfter(cal, j)
             /\ FloorAfter(cal, j) <= s[j] + D1 + T1
             /\ FloorAfter(cal, j) >= cal.floor + T1 /\ FloorAfter(cal, j) <= new.floor
  <2>1. j \in 1 .. Len(s) /\ j \in 0 .. Len(s) /\ n \in 0 .. Len(s) /\ s[j] \in Nat
    BY <1>5
  <2>2. FloorAfter(cal, j) \in Int
    BY <1>3, <2>1, FloorAfterIsMax
  <2>3. /\ FloorAfter(cal, j) >= s[j] + T1 /\ FloorAfter(cal, j) <= s[j] + D1 + T1
        /\ FloorAfter(cal, j) >= cal.floor + T1
    BY <1>3, <2>1, FloorAfterNear
  <2>4. CASE j = n
    BY <1>4, <1>5, <1>6, <2>1, <2>2, <2>3, <2>4
  <2>5. CASE j # n
    <3>1. j < n
      BY <1>5, <2>5
    <3>2. FloorAfter(cal, n) >= FloorAfter(cal, j) + T1
      BY <1>3, <2>1, <3>1, FloorAfterSpaced
    <3>3. FloorAfter(cal, j) <= new.floor
      BY <1>4, <1>5, <1>6, <2>2, <3>2
    <3> QED
      BY <1>5, <2>1, <2>2, <2>3, <3>3
  <2> QED
    BY <2>4, <2>5
<1>10. end \in [Requests -> Int]
  BY <1>7, <1>9
<1>11. ASSUME NEW r \in H
       PROVE  /\ l[r] \in 0 .. Len(u)
              /\ l[r] # 0 => u[l[r]] = X[r]
              /\ l[r] = 0 => X[r] + T1 <= end[r] /\ end[r] <= X[r] + D1 + T1 /\ end[r] <= new.floor
  <2>1. /\ r \in Requests /\ k[r] \in 0 .. Len(s) /\ k[r] \in Nat /\ fin[r] \in Int /\ X[r] \in Int
        /\ k[r] # 0 => s[k[r]] = X[r]
        /\ k[r] = 0 => X[r] + T1 <= fin[r] /\ fin[r] <= X[r] + D1 + T1 /\ fin[r] <= cal.floor
    BY <1>1, <1>3, <1>7 DEF Owned
  <2>2. PICK j, e : j = k[r] /\ e = fin[r]
    OBVIOUS
  <2>3. CASE j > n
    <3>1. l[r] = j - n
      BY <2>1, <2>2, <2>3
    <3>2. j - n \in 1 .. Len(s) - n /\ n + (j - n) = j /\ j # 0 /\ j - n # 0 /\ j - n \in 0 .. Len(u)
      BY <1>4, <1>5, <2>1, <2>2, <2>3
    <3>3. u[j - n] = s[j]
      BY <1>4, <3>2
    <3> HIDE DEF l
    <3> QED
      BY <2>1, <2>2, <3>1, <3>2, <3>3
  <2>4. CASE j \in 1 .. n
    <3>1. l[r] = 0 /\ end[r] = FloorAfter(cal, j)
      BY <1>5, <2>1, <2>2, <2>4
    <3>2. s[j] = X[r]
      BY <2>1, <2>2, <2>4
    <3>3. 0 \in 0 .. Len(u)
      BY <1>4, <1>5
    <3> HIDE DEF l, end
    <3> QED
      BY <1>9, <2>4, <3>1, <3>2, <3>3
  <2>5. CASE j = 0
    <3>5. ~(j > n) /\ j \notin 1 .. n
      BY <1>5, <2>5
    <3>1. l[r] = 0 /\ end[r] = e
      BY <2>1, <2>2, <3>5
    <3>2. e \in Int /\ X[r] + T1 <= e /\ e <= X[r] + D1 + T1 /\ e <= cal.floor
      BY <2>1, <2>2, <2>5
    <3>3. e <= new.floor
      BY <1>4, <1>5, <1>6, <3>2
    <3>4. 0 \in 0 .. Len(u)
      BY <1>4, <1>5
    <3> HIDE DEF l, end
    <3> QED
      BY <3>1, <3>2, <3>3, <3>4
  <2>6. j \in Nat
    BY <2>1, <2>2
  <2> HIDE DEF l, end
  <2> QED
    BY <1>5, <2>3, <2>4, <2>5, <2>6
<1>12. ASSUME NEW r \in H, NEW q \in H, q # r, l[r] = l[q]
       PROVE  l[r] = 0 /\ Apart(end[r], end[q])
  <2>1. /\ r \in Requests /\ q \in Requests /\ k[r] \in Nat /\ k[q] \in Nat /\ fin[r] \in Int /\ fin[q] \in Int
        /\ k[r] = k[q] => k[r] = 0 /\ Apart(fin[r], fin[q])
        /\ k[r] = 0 => fin[r] <= cal.floor
        /\ k[q] = 0 => fin[q] <= cal.floor
    BY <1>1, <1>7, <1>12 DEF Owned
  <2>2. PICK i, j, d, e : i = k[r] /\ j = k[q] /\ d = fin[r] /\ e = fin[q]
    OBVIOUS
  <2>3. /\ i \in Nat /\ j \in Nat /\ d \in Int /\ e \in Int
        /\ i = j => i = 0 /\ Apart(d, e)
        /\ i = 0 => d <= cal.floor
        /\ j = 0 => e <= cal.floor
    BY <2>1, <2>2
  <2>4. /\ l[r] = IF i > n THEN i - n ELSE 0
        /\ l[q] = IF j > n THEN j - n ELSE 0
        /\ end[r] = IF i \in 1 .. n THEN FloorAfter(cal, i) ELSE d
        /\ end[q] = IF j \in 1 .. n THEN FloorAfter(cal, j) ELSE e
    BY <2>1, <2>2
  <2> HIDE DEF l, end
  <2>5. i <= n /\ j <= n
    <3>1. CASE i > n /\ j > n
      <4>1. i - n = j - n
        BY <1>12, <2>4, <3>1
      <4>2. i = j
        BY <1>5, <2>3, <4>1
      <4> QED
        BY <1>5, <2>3, <3>1, <4>2
    <3>2. CASE i > n /\ ~(j > n)
      <4>1. i - n = 0
        BY <1>12, <2>4, <3>2
      <4> QED
        BY <1>5, <2>3, <3>2, <4>1
    <3>3. CASE ~(i > n) /\ j > n
      <4>1. 0 = j - n
        BY <1>12, <2>4, <3>3
      <4> QED
        BY <1>5, <2>3, <3>3, <4>1
    <3> QED
      BY <1>5, <2>3, <3>1, <3>2, <3>3
  <2>6. ~(i > n) /\ ~(j > n)
    BY <1>5, <2>3, <2>5
  <2>7. l[r] = 0
    BY <2>4, <2>6
  <2>8. CASE i = 0 /\ j = 0
    <3>1. i \notin 1 .. n /\ j \notin 1 .. n
      BY <2>8
    <3> QED
      BY <2>3, <2>4, <2>7, <2>8, <3>1
  <2>9. CASE i = 0 /\ j # 0
    <3>1. i \notin 1 .. n /\ j \in 1 .. n
      BY <1>5, <2>3, <2>5, <2>9
    <3>2. FloorAfter(cal, j) \in Int /\ FloorAfter(cal, j) >= cal.floor + T1 /\ d <= cal.floor
      BY <1>9, <2>3, <2>9, <3>1
    <3>3. FloorAfter(cal, j) - d >= T1
      BY <1>5, <2>3, <3>2, SMTT(30)
    <3> QED
      BY <2>4, <2>7, <3>1, <3>3 DEF Apart
  <2>10. CASE i # 0 /\ j = 0
    <3>1. j \notin 1 .. n /\ i \in 1 .. n
      BY <1>5, <2>3, <2>5, <2>10
    <3>2. FloorAfter(cal, i) \in Int /\ FloorAfter(cal, i) >= cal.floor + T1 /\ e <= cal.floor
      BY <1>9, <2>3, <2>10, <3>1
    <3>3. FloorAfter(cal, i) - e >= T1
      BY <1>5, <2>3, <3>2, SMTT(30)
    <3> QED
      BY <2>4, <2>7, <3>1, <3>3 DEF Apart
  <2>11. CASE i # 0 /\ j # 0
    <3>1. j \in 1 .. n /\ i \in 1 .. n /\ i # j /\ i \in 0 .. Len(s) /\ j \in 0 .. Len(s)
      BY <1>5, <2>3, <2>5, <2>11
    <3>2. FloorAfter(cal, i) \in Int /\ FloorAfter(cal, j) \in Int
      BY <1>9, <3>1
    <3>3. i < j \/ j < i
      BY <2>3, <3>1
    <3>4. i < j => FloorAfter(cal, j) >= FloorAfter(cal, i) + T1
      BY <1>3, <3>1, FloorAfterSpaced
    <3>5. j < i => FloorAfter(cal, i) >= FloorAfter(cal, j) + T1
      BY <1>3, <3>1, FloorAfterSpaced
    <3>6. FloorAfter(cal, i) - FloorAfter(cal, j) >= T1 \/ FloorAfter(cal, j) - FloorAfter(cal, i) >= T1
      BY <1>5, <3>2, <3>3, <3>4, <3>5
    <3> QED
      BY <2>4, <2>7, <3>1, <3>6 DEF Apart
  <2> QED
    BY <2>8, <2>9, <2>10, <2>11
<1> HIDE DEF l, end
<1>13. Owned(new, H, X, l, end)
  BY <1>3, <1>11, <1>12 DEF Owned
<1> QED
  BY <1>8, <1>10, <1>13 DEF OwnedBy

\* Y are the slots X of the requests H, and slot t of x.
SlotsAdd(H, X, x, t, Y) == Y[x] = t /\ \A r \in H : Y[r] = X[r]

\* acquire: the new booking is the request's, the later ones move by a place.
LEMMA OwnedBook ==
    ASSUME NEW cal \in Calendar, NEW H \in SUBSET Requests, NEW X, OwnedBy(cal, H, X),
           NEW p \in 0 .. Len(cal.slots), NEW t,
           NEW new, Inserted(cal.slots, p, t, new.slots), new.floor = cal.floor,
           NEW x \in Requests, x \notin H, NEW Y, SlotsAdd(H, X, x, t, Y)
    PROVE  OwnedBy(new, H \cup {x}, Y)
<1>0. Y[x] = t /\ \A r \in H : Y[r] = X[r]
  BY DEF SlotsAdd
<1>1. PICK k \in [Requests -> Nat], fin \in [Requests -> Int] : Owned(cal, H, X, k, fin)
  BY DEF OwnedBy
<1>2. PICK s, u : s = cal.slots /\ u = new.slots
  OBVIOUS
<1>3. /\ Len(u) = Len(s) + 1 /\ p \in 0 .. Len(s)
      /\ \A j \in 1 .. Len(s) + 1 : u[j] = IF j <= p THEN s[j] ELSE IF j = p + 1 THEN t ELSE s[j - 1]
  BY <1>2 DEF Inserted
<1>4. Len(s) \in Nat /\ p \in Nat /\ p <= Len(s)
  BY <1>2, <1>3, CalendarType
<1> DEFINE l == [r \in Requests |-> IF r = x THEN p + 1 ELSE IF k[r] > p THEN k[r] + 1 ELSE k[r]]
<1>5. l \in [Requests -> Nat]
  BY <1>4
<1>6. ASSUME NEW r \in H
      PROVE  /\ r \in Requests /\ r # x /\ k[r] \in Nat /\ k[r] \in 0 .. Len(s)
             /\ k[r] # 0 => s[k[r]] = X[r]
             /\ k[r] = 0 => X[r] + T1 <= fin[r] /\ fin[r] <= X[r] + D1 + T1 /\ fin[r] <= cal.floor
             /\ l[r] = IF k[r] > p THEN k[r] + 1 ELSE k[r]
  BY <1>1, <1>2 DEF Owned
<1>7. l[x] = p + 1
  OBVIOUS
<1> HIDE DEF l
<1>8. ASSUME NEW r \in H \cup {x}
      PROVE  /\ l[r] \in 0 .. Len(u)
             /\ l[r] # 0 => u[l[r]] = Y[r]
             /\ l[r] = 0 => Y[r] + T1 <= fin[r] /\ fin[r] <= Y[r] + D1 + T1 /\ fin[r] <= new.floor
  <2>1. CASE r = x
    <3>1. p + 1 \in 0 .. Len(u) /\ p + 1 \in 1 .. Len(s) + 1 /\ ~(p + 1 <= p) /\ p + 1 # 0
      BY <1>3, <1>4
    <3>2. u[p + 1] = t
      BY <1>3, <3>1
    <3> QED
      BY <1>0, <1>7, <2>1, <3>1, <3>2
  <2>2. CASE r # x
    <3>1. PICK j : j = k[r]
      OBVIOUS
    <3>2. /\ r \in H /\ j \in Nat /\ j \in 0 .. Len(s) /\ (j # 0 => s[j] = Y[r])
          /\ j = 0 => Y[r] + T1 <= fin[r] /\ fin[r] <= Y[r] + D1 + T1 /\ fin[r] <= new.floor
          /\ l[r] = IF j > p THEN j + 1 ELSE j
      BY <1>0, <1>6, <2>2, <3>1
    <3>3. CASE j > p
      <4>1. j + 1 \in 0 .. Len(u) /\ j + 1 \in 1 .. Len(s) + 1 /\ ~(j + 1 <= p) /\ j + 1 # p + 1 /\ j + 1 - 1 = j
            /\ j # 0 /\ j + 1 # 0
        BY <1>3, <1>4, <3>2, <3>3
      <4>2. u[j + 1] = s[j]
        <5>1. PICK g : g = j + 1
          OBVIOUS
        <5>2. g \in 1 .. Len(s) + 1 /\ ~(g <= p) /\ g # p + 1 /\ g - 1 = j
          BY <3>2, <4>1, <5>1
        <5>3. u[g] = s[g - 1]
          BY <1>3, <5>2
        <5> QED
          BY <5>1, <5>2, <5>3
      <4> QED
        BY <3>2, <3>3, <4>1, <4>2
    <3>4. CASE ~(j > p) /\ j # 0
      <4>1. j \in 0 .. Len(u) /\ j \in 1 .. Len(s) + 1 /\ j <= p
        BY <1>3, <1>4, <3>2, <3>4
      <4>2. u[j] = s[j]
        BY <1>3, <4>1
      <4> QED
        BY <3>2, <3>4, <4>1, <4>2
    <3>5. CASE j = 0
      <4>1. 0 \in 0 .. Len(u) /\ ~(0 > p)
        BY <1>3, <1>4
      <4> QED
        BY <3>2, <3>5, <4>1
    <3> QED
      BY <3>3, <3>4, <3>5
  <2> QED
    BY <2>1, <2>2
<1>9. ASSUME NEW r \in H \cup {x}, NEW q \in H \cup {x}, q # r, l[r] = l[q]
      PROVE  l[r] = 0 /\ Apart(fin[r], fin[q])
  <2>1. ASSUME NEW g \in H PROVE l[g] # p + 1
    BY <1>4, <1>6
  <2>2. r \in H /\ q \in H
    BY <1>7, <1>9, <2>1
  <2>3. PICK i, j : i = k[r] /\ j = k[q]
    OBVIOUS
  <2>4. /\ i \in Nat /\ j \in Nat /\ l[r] = (IF i > p THEN i + 1 ELSE i) /\ l[q] = (IF j > p THEN j + 1 ELSE j)
        /\ (i = j => i = 0 /\ Apart(fin[r], fin[q]))
    BY <1>1, <1>6, <1>9, <2>2, <2>3 DEF Owned
  <2>5. i = j
    <3>1. CASE i > p /\ j > p
      <4>1. i + 1 = j + 1
        BY <1>9, <2>4, <3>1
      <4> QED
        BY <2>4, <4>1
    <3>2. CASE i > p /\ ~(j > p)
      <4>1. i + 1 = j
        BY <1>9, <2>4, <3>2
      <4> QED
        BY <1>4, <2>4, <3>2, <4>1
    <3>3. CASE ~(i > p) /\ j > p
      <4>1. i = j + 1
        BY <1>9, <2>4, <3>3
      <4> QED
        BY <1>4, <2>4, <3>3, <4>1
    <3>4. CASE ~(i > p) /\ ~(j > p)
      BY <1>9, <2>4, <3>4
    <3> QED
      BY <3>1, <3>2, <3>3, <3>4
  <2>6. i = 0 /\ ~(i > p)
    BY <1>4, <2>4, <2>5
  <2> QED
    BY <2>4, <2>5, <2>6
<1>10. Owned(new, H \cup {x}, Y, l, fin)
  BY <1>2, <1>8, <1>9 DEF Owned
<1> QED
  BY <1>5, <1>10 DEF OwnedBy

\* cancel: whichever of the bookings for the instant it takes, one is left to
\* each of the other requests.
LEMMA OwnedCancel ==
    ASSUME NEW cal \in Calendar, NEW H \in SUBSET Requests, NEW X, OwnedBy(cal, H, X),
           NEW x \in H, NEW p \in 1 .. Len(cal.slots), cal.slots[p] = X[x],
           NEW new, Removed(cal.slots, p, new.slots), new.floor = cal.floor
    PROVE  OwnedBy(new, H \ {x}, X)
<1>1. PICK k \in [Requests -> Nat], fin \in [Requests -> Int] : Owned(cal, H, X, k, fin)
  BY DEF OwnedBy
<1>2. PICK s, u, G : s = cal.slots /\ u = new.slots /\ G = H \ {x}
  OBVIOUS
<1>3. /\ Len(u) = Len(s) - 1 /\ p \in 1 .. Len(s)
      /\ \A j \in 1 .. Len(s) - 1 : u[j] = IF j < p THEN s[j] ELSE s[j + 1]
  BY <1>2 DEF Removed
<1>4. Len(s) \in Nat /\ p \in Nat /\ p <= Len(s) /\ p >= 1 /\ p # 0
  BY <1>2, <1>3, CalendarType
<1> DEFINE m == [r \in Requests |-> IF k[r] = p THEN k[x] ELSE k[r]]
           end == [r \in Requests |-> IF k[r] = p THEN fin[x] ELSE fin[r]]
           l == [r \in Requests |-> IF m[r] > p THEN m[r] - 1 ELSE m[r]]
<1>5. x \in Requests /\ \A r \in Requests : k[r] \in Nat /\ fin[r] \in Int
  OBVIOUS
<1>6. m \in [Requests -> Nat] /\ end \in [Requests -> Int]
  BY <1>5
<1>7. ASSUME NEW r \in H
      PROVE  /\ r \in Requests /\ k[r] \in Nat /\ k[r] \in 0 .. Len(s)
             /\ k[r] # 0 => s[k[r]] = X[r]
             /\ k[r] = 0 => X[r] + T1 <= fin[r] /\ fin[r] <= X[r] + D1 + T1 /\ fin[r] <= cal.floor
             /\ m[r] = (IF k[r] = p THEN k[x] ELSE k[r]) /\ end[r] = (IF k[r] = p THEN fin[x] ELSE fin[r])
  BY <1>1, <1>2 DEF Owned
<1>8. ASSUME NEW r \in H, NEW q \in H, q # r, k[r] = k[q]
      PROVE  k[r] = 0 /\ Apart(fin[r], fin[q])
  BY <1>1, <1>8 DEF Owned
<1> HIDE DEF m, end
<1>9. ASSUME NEW r \in G
      PROVE  /\ r \in H /\ r \in Requests /\ m[r] \in Nat /\ m[r] \in 0 .. Len(s) /\ m[r] # p
             /\ m[r] # 0 => s[m[r]] = X[r]
             /\ m[r] = 0 => X[r] + T1 <= end[r] /\ end[r] <= X[r] + D1 + T1 /\ end[r] <= cal.floor
  <2>1. r \in H /\ r # x
    BY <1>2
  <2>2. CASE k[r] # p
    BY <1>7, <2>1, <2>2
  <2>3. CASE k[r] = p
    <3>1. X[r] = X[x]
      BY <1>2, <1>4, <1>7, <2>1, <2>3
    <3>2. k[x] # p
      BY <1>4, <1>8, <2>1, <2>3
    <3>3. m[r] = k[x] /\ end[r] = fin[x]
      BY <1>7, <2>1, <2>3
    <3> QED
      BY <1>7, <2>1, <3>1, <3>2, <3>3
  <2> QED
    BY <2>2, <2>3
<1>10. ASSUME NEW r \in G, NEW q \in G, q # r, m[r] = m[q]
       PROVE  m[r] = 0 /\ Apart(end[r], end[q])
  <2>1. r \in H /\ q \in H /\ r # x /\ q # x
    BY <1>2
  <2>2. CASE k[r] # p /\ k[q] # p
    BY <1>7, <1>8, <1>10, <2>1, <2>2
  <2>3. CASE k[r] = p /\ k[q] # p
    <3>1. k[x] = k[q] /\ m[r] = k[x] /\ end[r] = fin[x] /\ end[q] = fin[q]
      BY <1>7, <1>10, <2>1, <2>3
    <3>2. k[x] = 0 /\ Apart(fin[x], fin[q])
      BY <1>8, <2>1, <3>1
    <3> QED
      BY <3>1, <3>2
  <2>4. CASE k[r] # p /\ k[q] = p
    <3>1. k[r] = k[x] /\ m[r] = k[r] /\ end[q] = fin[x] /\ end[r] = fin[r]
      BY <1>7, <1>10, <2>1, <2>4
    <3>2. k[r] = 0 /\ Apart(fin[r], fin[x])
      BY <1>8, <2>1, <3>1
    <3> QED
      BY <3>1, <3>2
  <2>5. CASE k[r] = p /\ k[q] = p
    BY <1>4, <1>8, <1>10, <2>1, <2>5
  <2> QED
    BY <2>2, <2>3, <2>4, <2>5
<1>11. \A r \in Requests : m[r] \in Nat
  BY <1>6
<1>12. l \in [Requests -> Nat]
  <2>1. ASSUME NEW r \in Requests PROVE (IF m[r] > p THEN m[r] - 1 ELSE m[r]) \in Nat
    BY <1>4, <1>11
  <2> QED
    BY <2>1
<1>13. ASSUME NEW r \in G
       PROVE  /\ l[r] \in 0 .. Len(u)
              /\ l[r] # 0 => u[l[r]] = X[r]
              /\ l[r] = 0 => X[r] + T1 <= end[r] /\ end[r] <= X[r] + D1 + T1 /\ end[r] <= cal.floor
  <2>1. PICK j : j = m[r]
    OBVIOUS
  <2>2. /\ r \in Requests /\ j \in Nat /\ j \in 0 .. Len(s) /\ j # p
        /\ j # 0 => s[j] = X[r]
        /\ j = 0 => X[r] + T1 <= end[r] /\ end[r] <= X[r] + D1 + T1 /\ end[r] <= cal.floor
    BY <1>9, <2>1
  <2>3. l[r] = IF j > p THEN j - 1 ELSE j
    BY <2>1, <2>2
  <2> HIDE DEF l
  <2>4. CASE j > p
    <3>1. j - 1 \in 0 .. Len(u) /\ j - 1 \in 1 .. Len(s) - 1 /\ ~(j - 1 < p) /\ j - 1 + 1 = j /\ j # 0 /\ j - 1 # 0
      BY <1>3, <1>4, <2>2, <2>4
    <3>2. u[j - 1] = s[j]
      BY <1>3, <3>1
    <3> QED
      BY <2>2, <2>3, <2>4, <3>1, <3>2
  <2>5. CASE ~(j > p) /\ j # 0
    <3>1. j \in 0 .. Len(u) /\ j \in 1 .. Len(s) - 1 /\ j < p
      BY <1>3, <1>4, <2>2, <2>5
    <3>2. u[j] = s[j]
      BY <1>3, <3>1
    <3> QED
      BY <2>2, <2>3, <2>5, <3>1, <3>2
  <2>6. CASE j = 0
    <3>1. 0 \in 0 .. Len(u) /\ ~(0 > p)
      BY <1>3, <1>4
    <3> QED
      BY <2>2, <2>3, <2>6, <3>1
  <2> QED
    BY <2>4, <2>5, <2>6
<1>14. ASSUME NEW r \in G, NEW q \in G, q # r, l[r] = l[q]
       PROVE  l[r] = 0 /\ Apart(end[r], end[q])
  <2>1. PICK i, j : i = m[r] /\ j = m[q]
    OBVIOUS
  <2>2. i \in Nat /\ j \in Nat /\ i # p /\ j # p /\ r \in Requests /\ q \in Requests
    BY <1>9, <2>1
  <2>3. l[r] = (IF i > p THEN i - 1 ELSE i) /\ l[q] = (IF j > p THEN j - 1 ELSE j)
    BY <2>1, <2>2
  <2> HIDE DEF l
  <2>4. i = j
    <3>1. CASE i > p /\ j > p
      <4>1. i - 1 = j - 1
        BY <1>14, <2>3, <3>1
      <4> QED
        BY <2>2, <4>1
    <3>2. CASE i > p /\ ~(j > p)
      <4>1. i - 1 = j
        BY <1>14, <2>3, <3>2
      <4> QED
        BY <1>4, <2>2, <3>2, <4>1
    <3>3. CASE ~(i > p) /\ j > p
      <4>1. i = j - 1
        BY <1>14, <2>3, <3>3
      <4> QED
        BY <1>4, <2>2, <3>3, <4>1
    <3>4. CASE ~(i > p) /\ ~(j > p)
      BY <1>14, <2>3, <3>4
    <3> QED
      BY <3>1, <3>2, <3>3, <3>4
  <2>5. i = 0 /\ Apart(end[r], end[q])
    BY <1>10, <1>14, <2>1, <2>4
  <2>6. ~(i > p)
    BY <1>4, <2>5
  <2> QED
    BY <2>3, <2>5, <2>6
<1> HIDE DEF l
<1>15. Owned(new, G, X, l, end)
  BY <1>2, <1>13, <1>14 DEF Owned
<1> QED
  BY <1>2, <1>6, <1>12, <1>15 DEF OwnedBy

\* Requests with a slot each between two instants are as few as the quota says.
LEMMA OwnedCount ==
    ASSUME NEW cal \in Calendar, Conformant(cal), NEW H \in SUBSET Requests, NEW X \in [Requests -> Int],
           OwnedBy(cal, H, X), NEW R \in SUBSET H, NEW a \in Int, NEW b \in Int, a <= b,
           \A r \in R : a <= X[r] /\ X[r] <= b
    PROVE  Cardinality(R) * T1 <= BurstOf["global"] * T1 + (b - a)
<1>1. PICK k \in [Requests -> Nat], fin \in [Requests -> Int] : Owned(cal, H, X, k, fin)
  BY DEF OwnedBy
<1>2. T1 \in Nat /\ T1 > 0 /\ D1 \in Nat /\ D1 + T1 = BurstOf["global"] * T1
  BY GlobalType
<1>3. cal.floor \in Int /\ Len(cal.slots) \in Nat /\ \A j \in 1 .. Len(cal.slots) : cal.slots[j] \in Nat
  BY CalendarType
<1>4. IsFiniteSet(R)
  BY LimiterAssumption, FS_Subset
<1>5. ASSUME NEW j \in 1 .. Len(cal.slots)
      PROVE  /\ FloorAfter(cal, j) \in Int
             /\ FloorAfter(cal, j) >= cal.slots[j] + T1 /\ FloorAfter(cal, j) <= cal.slots[j] + D1 + T1
             /\ FloorAfter(cal, j) >= cal.floor + T1
  <2>1. j \in 0 .. Len(cal.slots)
    BY <1>3
  <2> QED
    BY <2>1, FloorAfterIsMax, FloorAfterNear
<1> DEFINE f == [r \in R |-> IF k[r] = 0 THEN fin[r] ELSE FloorAfter(cal, k[r])]
           lo == a + T1
           hi == b + D1 + T1
<1>6. ASSUME NEW r \in R
      PROVE  /\ r \in Requests /\ r \in H /\ k[r] \in Nat /\ fin[r] \in Int /\ X[r] \in Int
             /\ k[r] \in 0 .. Len(cal.slots)
             /\ k[r] # 0 => cal.slots[k[r]] = X[r] /\ k[r] \in 1 .. Len(cal.slots)
             /\ k[r] = 0 => X[r] + T1 <= fin[r] /\ fin[r] <= X[r] + D1 + T1 /\ fin[r] <= cal.floor
             /\ f[r] = IF k[r] = 0 THEN fin[r] ELSE FloorAfter(cal, k[r])
  <2>1. r \in Requests /\ r \in H /\ k[r] \in Nat /\ fin[r] \in Int /\ X[r] \in Int
    OBVIOUS
  <2>2. /\ k[r] \in 0 .. Len(cal.slots)
        /\ k[r] # 0 => cal.slots[k[r]] = X[r]
        /\ k[r] = 0 => X[r] + T1 <= fin[r] /\ fin[r] <= X[r] + D1 + T1 /\ fin[r] <= cal.floor
    BY <1>1, <2>1 DEF Owned
  <2>3. k[r] # 0 => k[r] \in 1 .. Len(cal.slots)
    BY <1>3, <2>1, <2>2
  <2> QED
    BY <2>1, <2>2, <2>3
<1>7. ASSUME NEW r \in R PROVE f[r] \in Int /\ lo <= f[r] /\ f[r] <= hi
  <2>1. PICK v, w : v = X[r] /\ w = f[r]
    OBVIOUS
  <2>2. v \in Int /\ a <= v /\ v <= b
    BY <1>6, <2>1
  <2>3. w \in Int /\ v + T1 <= w /\ w <= v + D1 + T1
    <3> HIDE DEF f
    <3>1. CASE k[r] = 0
      BY <1>6, <2>1, <3>1
    <3>2. CASE k[r] # 0
      BY <1>5, <1>6, <2>1, <3>2
    <3> QED
      BY <3>1, <3>2
  <2> HIDE DEF f
  <2> QED
    BY <1>2, <2>1, <2>2, <2>3
<1>8. ASSUME NEW r \in R, NEW q \in R, r # q PROVE f[r] - f[q] >= T1 \/ f[q] - f[r] >= T1
  <2> HIDE DEF f
  <2>1. PICK i, j : i = k[r] /\ j = k[q]
    OBVIOUS
  <2>2. i \in Nat /\ j \in Nat /\ (i = j => i = 0 /\ Apart(fin[r], fin[q]))
    BY <1>1, <1>6, <1>8, <2>1 DEF Owned
  <2>3. CASE i = 0 /\ j = 0
    BY <1>6, <2>1, <2>2, <2>3 DEF Apart
  <2>4. CASE i = 0 /\ j # 0
    <3>1. f[r] = fin[r] /\ fin[r] \in Int /\ fin[r] <= cal.floor /\ f[q] = FloorAfter(cal, j)
          /\ j \in 1 .. Len(cal.slots)
      BY <1>6, <2>1, <2>4
    <3>2. FloorAfter(cal, j) \in Int /\ FloorAfter(cal, j) >= cal.floor + T1
      BY <1>5, <3>1
    <3> QED
      BY <1>2, <1>3, <3>1, <3>2
  <2>5. CASE i # 0 /\ j = 0
    <3>1. f[q] = fin[q] /\ fin[q] \in Int /\ fin[q] <= cal.floor /\ f[r] = FloorAfter(cal, i)
          /\ i \in 1 .. Len(cal.slots)
      BY <1>6, <2>1, <2>5
    <3>2. FloorAfter(cal, i) \in Int /\ FloorAfter(cal, i) >= cal.floor + T1
      BY <1>5, <3>1
    <3> QED
      BY <1>2, <1>3, <3>1, <3>2
  <2>6. CASE i # 0 /\ j # 0
    <3>1. f[q] = FloorAfter(cal, j) /\ f[r] = FloorAfter(cal, i) /\ i \in 1 .. Len(cal.slots) /\ j \in 1 .. Len(cal.slots)
          /\ i \in 0 .. Len(cal.slots) /\ j \in 0 .. Len(cal.slots)
      BY <1>6, <2>1, <2>6
    <3>2. FloorAfter(cal, i) \in Int /\ FloorAfter(cal, j) \in Int
      BY <1>5, <3>1
    <3>3. i < j \/ j < i
      BY <2>2, <2>6
    <3>4. i < j => FloorAfter(cal, j) >= FloorAfter(cal, i) + T1
      BY <3>1, FloorAfterSpaced
    <3>5. j < i => FloorAfter(cal, i) >= FloorAfter(cal, j) + T1
      BY <3>1, FloorAfterSpaced
    <3> QED
      BY <1>2, <3>1, <3>2, <3>3, <3>4, <3>5
  <2> QED
    BY <2>3, <2>4, <2>5, <2>6
<1>9. f \in [R -> Int] /\ lo \in Int /\ hi \in Int /\ lo <= hi + T1
  BY <1>2, <1>7
<1> HIDE DEF f, lo, hi
<1>10. Cardinality(R) \in Nat /\ Cardinality(R) * T1 <= hi - lo + T1
  BY <1>2, <1>4, <1>7, <1>8, <1>9, SpacedCount
<1>11. hi - lo + T1 = D1 + T1 + (b - a)
  BY <1>2 DEF hi, lo
<1> QED
  BY <1>2, <1>10, <1>11

-----------------------------------------------------------------------------
(* The invariant, and the steps.                                            *)

Holding == {r \in Requests : req[r].booked[1] # NoBooking}
SlotAt == [r \in Requests |-> req[r].at + req[r].booked[1].delay]

CalendarInv == calendar \in Calendar /\ Conformant(calendar) /\ OwnedBy(calendar, Holding, SlotAt)

LimInv == LimType /\ CalendarInv /\ \A i \in {2, 3}, c \in Chats : KeyInv(i, c)

\* A step of request r that leaves its clock alone.
MovesAlone(r) ==
    /\ now' = now /\ DOMAIN req' = Requests
    /\ \A s \in Requests : s # r => req'[s] = req[s]
    /\ RecOK(r, req'[r]) /\ req'[r].at = req[r].at /\ req'[r].overtaken = req[r].overtaken
    /\ req'[r].pc = "book" => req[r].pc = "book"

\* The slots are instants.
LEMMA HoldingType ==
    ASSUME LimType
    PROVE  Holding \in SUBSET Requests /\ SlotAt \in [Requests -> Int]
<1>1. ASSUME NEW r \in Requests PROVE req[r].at + req[r].booked[1].delay \in Int
  <2>1. 1 \in 1 .. 3
    OBVIOUS
  <2>2. req[r].at \in Nat /\ req[r].booked[1].delay \in Int
    BY <2>1, SlotType
  <2> QED
    BY <2>2
<1> QED
  BY <1>1 DEF Holding, SlotAt

\* A step of one request keeps the types, and no request goes back.
LEMMA MovesOK ==
    ASSUME LimType, NEW r \in Requests, MovesAlone(r),
           tats' \in [Keyed -> [Chats -> Entry]], stamps' \in [Keyed -> Nat]
    PROVE  LimType' /\ Steady
<1>1. now' \in 0 .. MaxNow /\ DOMAIN req' = Requests
  BY DEF LimType, MovesAlone
<1>2. ASSUME NEW s \in Requests PROVE RecOK(s, req'[s])
  BY DEF LimType, MovesAlone
<1>3. LimType'
  BY <1>1, <1>2 DEF LimType
<1>4. now' >= now
  BY LimiterAssumption DEF LimType, MovesAlone
<1>5. ASSUME NEW s \in Requests, req'[s].pc = "book", ~req'[s].overtaken
      PROVE  req[s].pc = "book" /\ ~req[s].overtaken /\ req'[s].at = req[s].at
  BY <1>5 DEF MovesAlone
<1> QED
  BY <1>3, <1>4, <1>5 DEF Steady

\* A quota that a step of one request does not touch, but for a slot given back.
LEMMA KeyUnmoved ==
    ASSUME LimType, LimType', Steady, NEW i \in {2, 3}, NEW c \in Chats, KeyInv(i, c),
           stamps'[Buckets[i]] >= stamps[Buckets[i]], tats'[Buckets[i]][c] = tats[Buckets[i]][c],
           NEW r \in Requests, MovesAlone(r),
           ChatOf[r] = c => req'[r].booked[i] = NoBooking \/ req'[r].booked[i] = req[r].booked[i]
    PROVE  KeyInv(i, c)'
<1>1. ASSUME NEW s \in Held(i, c)' PROVE Keeps(s, i)
  <2>1. s \in Requests /\ ChatOf[s] = c /\ req'[s].booked[i] # NoBooking
    BY DEF Held
  <2>2. CASE s = r
    BY <2>1, <2>2 DEF Keeps, MovesAlone
  <2>3. CASE s # r
    BY <2>1, <2>3 DEF Keeps, MovesAlone
  <2> QED
    BY <2>2, <2>3
<1> QED
  BY <1>1, KeySame

\* The calendar as it was, or folded, and no new slot.
LEMMA CalendarKept ==
    ASSUME LimType, LimType', CalendarInv, NEW at, calendar' = calendar \/ calendar' = Fold(calendar, at),
           \A r \in Requests : req'[r].booked[1] # NoBooking => Keeps(r, 1)
    PROVE  CalendarInv'
<1>1. PICK cal, H, X : cal = calendar /\ H = Holding /\ X = SlotAt
  OBVIOUS
<1>2. PICK new, G, Y : new = calendar' /\ G = Holding' /\ Y = SlotAt'
  OBVIOUS
<1>3. cal \in Calendar /\ Conformant(cal) /\ OwnedBy(cal, H, X)
  BY <1>1 DEF CalendarInv
<1>4. H \in SUBSET Requests /\ X \in [Requests -> Int]
  BY <1>1, HoldingType
<1>5. ASSUME NEW r \in G PROVE r \in H /\ Y[r] = X[r]
  <2>1. r \in Requests /\ req'[r].booked[1] # NoBooking
    BY <1>2 DEF Holding
  <2>2. req'[r].at = req[r].at /\ req'[r].booked[1] = req[r].booked[1]
    BY <2>1 DEF Keeps
  <2> QED
    BY <1>1, <1>2, <2>1, <2>2 DEF Holding, SlotAt
<1>6. new \in Calendar /\ Conformant(new) /\ OwnedBy(new, H, X)
  <2>1. CASE new = cal
    BY <1>3, <2>1
  <2>2. CASE new = Fold(cal, at)
    <3>1. PICK n : n = Folded(cal, at)
      OBVIOUS
    <3>2. new \in Calendar /\ Conformant(new)
      BY <1>3, <2>2, <3>1, FoldConforms
    <3>3. OwnedBy(new, H, X)
      BY <1>3, <1>4, <2>2, OwnedFold
    <3> QED
      BY <3>2, <3>3
  <2> QED
    BY <1>1, <1>2, <2>1, <2>2
<1>7. G \in SUBSET H
  BY <1>5
<1>8. OwnedBy(new, G, Y)
  BY <1>5, <1>6, <1>7, OwnedSubset
<1> QED
  BY <1>2, <1>6, <1>8 DEF CalendarInv

\* SlotCalendar::acquire: the calendar with the request's booking.
LEMMA CalendarBooked ==
    ASSUME LimType, LimType', CalendarInv, NEW at, NEW cal, cal = Fold(calendar, at),
           NEW start \in Instants, NEW t, t = Earliest(cal, start), t # Never,
           calendar' = WithSlot(cal, t),
           NEW x \in Requests, req[x].booked[1] = NoBooking, req'[x].at + req'[x].booked[1].delay = t,
           \A r \in Requests : r # x => req'[r] = req[r]
    PROVE  CalendarInv'
<1>1. PICK old, H, X : old = calendar /\ H = Holding /\ X = SlotAt
  OBVIOUS
<1>2. PICK new, G, Y : new = calendar' /\ G = Holding' /\ Y = SlotAt'
  OBVIOUS
<1>3. old \in Calendar /\ Conformant(old) /\ OwnedBy(old, H, X)
  BY <1>1 DEF CalendarInv
<1>4. H \in SUBSET Requests /\ X \in [Requests -> Int] /\ x \notin H
  BY <1>1, HoldingType DEF Holding
<1>5. PICK n : n = Folded(old, at)
  OBVIOUS
<1>6. cal = Fold(old, at)
  BY <1>1
<1>7. cal \in Calendar /\ Conformant(cal)
  BY <1>3, <1>5, <1>6, FoldConforms
<1>8. OwnedBy(cal, H, X)
  BY <1>3, <1>4, <1>6, OwnedFold
<1>9. PICK p : Offers(cal, p, t)
  BY <1>7, EarliestOffers
<1>10. new = WithSlot(cal, t)
  BY <1>2
<1>11. new \in Calendar /\ Conformant(new) /\ new.floor = cal.floor /\ Inserted(cal.slots, p, t, new.slots)
  BY <1>7, <1>9, <1>10, InsertConforms
<1>12. p \in 0 .. Len(cal.slots)
  BY <1>9 DEF Offers
<1>13. Y[x] = t
  BY <1>2 DEF SlotAt
<1>14. ASSUME NEW r \in H PROVE Y[r] = X[r]
  <2>1. r \in Requests /\ r # x
    BY <1>4
  <2> QED
    BY <1>1, <1>2, <2>1 DEF SlotAt
<1>15. OwnedBy(new, H \cup {x}, Y)
  <2>1. SlotsAdd(H, X, x, t, Y)
    BY <1>13, <1>14 DEF SlotsAdd
  <2> QED
    BY <1>4, <1>7, <1>8, <1>11, <1>12, <2>1, OwnedBook
<1>16. G \in SUBSET (H \cup {x})
  BY <1>1, <1>2 DEF Holding
<1>17. OwnedBy(new, G, Y)
  BY <1>15, <1>16, OwnedSubset
<1> QED
  BY <1>2, <1>11, <1>17 DEF CalendarInv

\* SlotCalendar::cancel: the calendar without a booking for the request's instant.
LEMMA CalendarCancelled ==
    ASSUME LimType, LimType', CalendarInv, NEW x \in Requests, req[x].booked[1] # NoBooking,
           CancelGlobal(req[x].at + req[x].booked[1].delay),
           req'[x].booked[1] = NoBooking, \A r \in Requests : r # x => req'[r] = req[r]
    PROVE  CalendarInv'
<1>1. PICK cal, H, X : cal = calendar /\ H = Holding /\ X = SlotAt
  OBVIOUS
<1>2. PICK new, G, Y : new = calendar' /\ G = Holding' /\ Y = SlotAt'
  OBVIOUS
<1>3. cal \in Calendar /\ Conformant(cal) /\ OwnedBy(cal, H, X)
  BY <1>1 DEF CalendarInv
<1>4. H \in SUBSET Requests /\ X \in [Requests -> Int] /\ x \in H
  BY <1>1, HoldingType DEF Holding
<1>5. PICK t : t = req[x].at + req[x].booked[1].delay
  OBVIOUS
<1>6. X[x] = t
  BY <1>1, <1>5 DEF SlotAt
<1>7. Len(cal.slots) \in Nat
  BY <1>3, CalendarType
<1> DEFINE I == {i \in 1 .. Len(cal.slots) : cal.slots[i] = t}
<1>8. PICK k : k = IF I # {} THEN Min(I) ELSE 0
  OBVIOUS
<1>9. CancelGlobal(t)
  BY <1>5
<1>10. IF k = 0 THEN new = cal ELSE new = [cal EXCEPT !.slots = RemoveAt(@, k)]
  BY <1>1, <1>2, <1>8, <1>9 DEF CancelGlobal, SelectInSeq
<1>11. G \in SUBSET (H \ {x})
  BY <1>1, <1>2 DEF Holding
<1>12. ASSUME NEW r \in G PROVE Y[r] = X[r]
  <2>1. r \in Requests /\ r # x
    BY <1>4, <1>11
  <2> QED
    BY <1>1, <1>2, <2>1 DEF SlotAt
<1>13. CASE I = {}
  <2>1. new = cal
    BY <1>8, <1>10, <1>13
  <2>2. G \in SUBSET H
    BY <1>11
  <2>3. OwnedBy(cal, G, Y)
    BY <1>3, <1>12, <2>2, OwnedSubset
  <2> QED
    BY <1>2, <1>3, <2>1, <2>3 DEF CalendarInv
<1>14. CASE I # {}
  <2>1. I \in SUBSET Nat
    OBVIOUS
  <2>2. Min(I) \in I
    <3> HIDE DEF I
    <3> QED
      BY <1>14, <2>1, MinIsSmallest
  <2>3. k \in 1 .. Len(cal.slots) /\ cal.slots[k] = X[x] /\ k # 0
    BY <1>6, <1>7, <1>8, <1>14, <2>2
  <2>4. new = [cal EXCEPT !.slots = RemoveAt(@, k)]
    BY <1>10, <2>3
  <2> HIDE DEF I
  <2>5. new \in Calendar /\ Conformant(new) /\ new.floor = cal.floor /\ Removed(cal.slots, k, new.slots)
    BY <1>3, <2>3, <2>4, RemoveConforms
  <2>6. OwnedBy(new, H \ {x}, X)
    BY <1>3, <1>4, <2>3, <2>5, OwnedCancel
  <2>7. OwnedBy(new, G, Y)
    BY <1>11, <1>12, <2>6, OwnedSubset
  <2> QED
    BY <1>2, <2>5, <2>7 DEF CalendarInv
<1> QED
  BY <1>13, <1>14

\* Initially nothing is booked.
LEMMA LimInitInv == LimiterInit => LimInv
<1> SUFFICES ASSUME LimiterInit PROVE LimInv
  OBVIOUS
<1>1. NoBooking \in Slot /\ NoBooking.prev \in Entry /\ None \in Int
  BY NoBookingType
<1>2. PICK rec : rec = Fresh
  OBVIOUS
<1>3. /\ rec \in Asked /\ rec.pc = "new" /\ rec.at = 0
      /\ \A i \in 1 .. 3 : rec.booked[i] = NoBooking
  <2>1. 0 \in Nat /\ 1 \in 1 .. 3
    OBVIOUS
  <2> QED
    BY <1>1, <1>2, <2>1 DEF Fresh, Asked
<1>4. ASSUME NEW r \in Requests PROVE RecOK(r, rec)
  BY <1>3 DEF RecOK, SlotsOK, LeavesOK
<1>5. \A r \in Requests : req[r] = rec
  BY <1>2 DEF LimiterInit
<1>6. LimType
  <2>1. now \in 0 .. MaxNow
    <3>1. 0 \in 0 .. MaxNow
      BY LimiterAssumption
    <3> QED
      BY <3>1 DEF LimiterInit
  <2>2. tats \in [Keyed -> [Chats -> Entry]]
    BY <1>1 DEF LimiterInit, Keyed
  <2>3. stamps \in [Keyed -> Nat]
    <3>1. 0 \in Nat
      OBVIOUS
    <3> QED
      BY <3>1 DEF LimiterInit, Keyed
  <2>4. DOMAIN req = Requests
    BY DEF LimiterInit
  <2> QED
    BY <1>4, <1>5, <2>1, <2>2, <2>3, <2>4 DEF LimType
<1>7. CalendarInv
  <2>1. PICK cal, H, X : cal = calendar /\ H = Holding /\ X = SlotAt
    OBVIOUS
  <2>2. cal \in Calendar /\ cal.slots = <<>> /\ Len(cal.slots) = 0
    <3>1. << >> \in Seq(Instants)
      OBVIOUS
    <3> QED
      BY <1>1, <2>1, <3>1 DEF LimiterInit, Calendar
  <2>3. Conformant(cal)
    BY <2>2 DEF Conformant
  <2>4. H = {}
    <3>1. 1 \in 1 .. 3
      OBVIOUS
    <3> QED
      BY <1>3, <1>5, <2>1, <3>1 DEF Holding
  <2>5. OwnedBy(cal, H, X)
    <3>1. PICK k, fin : k = [r \in Requests |-> 0] /\ fin = [r \in Requests |-> 0]
      OBVIOUS
    <3>2. 0 \in Nat /\ 0 \in Int
      OBVIOUS
    <3>3. k \in [Requests -> Nat] /\ fin \in [Requests -> Int]
      BY <3>1, <3>2
    <3>4. Owned(cal, H, X, k, fin)
      BY <2>4 DEF Owned
    <3> QED
      BY <3>3, <3>4 DEF OwnedBy
  <2> QED
    BY <2>1, <2>2, <2>3, <2>5 DEF CalendarInv
<1>8. ASSUME NEW i \in {2, 3}, NEW c \in Chats PROVE KeyInv(i, c)
  <2>1. i \in 1 .. 3
    OBVIOUS
  <2>2. Held(i, c) = {}
    BY <1>3, <1>5, <2>1 DEF Held
  <2> QED
    BY <2>2 DEF KeyInv
<1> QED
  BY <1>6, <1>7, <1>8 DEF LimInv

\* A request looks at the clock.
LEMMA BeginStep ==
    ASSUME LimInv, NEW x \in Requests, Begin(x)
    PROVE  LimInv'
<1>1. LimType /\ CalendarInv /\ now' = now /\ calendar' = calendar /\ tats' = tats /\ stamps' = stamps
  BY DEF LimInv, Begin
<1>2. /\ DOMAIN req' = Requests
      /\ \A s \in Requests : s # x => req'[s] = req[s]
      /\ RecOK(x, req'[x]) /\ req'[x].at = now
      /\ \A i \in 1 .. 3 : req'[x].booked[i] = NoBooking
  BY <1>1, BeginOK
<1>3. LimType'
  <2>1. ASSUME NEW s \in Requests PROVE RecOK(s, req'[s])
    BY <1>1, <1>2 DEF LimType
  <2> QED
    BY <1>1, <1>2, <2>1 DEF LimType
<1>4. Steady
  <2>1. now \in Nat
    BY <1>1, NowType
  <2>2. now' >= now /\ req'[x].at >= now
    BY <1>1, <1>2, <2>1
  <2> QED
    BY <1>2, <2>2 DEF Steady
<1>5. ASSUME NEW i \in 1 .. 3, NEW r \in Requests, req'[r].booked[i] # NoBooking PROVE Keeps(r, i)
  <2>1. r # x
    BY <1>2, <1>5
  <2> QED
    BY <1>2, <2>1 DEF Keeps
<1>6. CalendarInv'
  <2>1. 1 \in 1 .. 3
    OBVIOUS
  <2> QED
    BY <1>1, <1>3, <1>5, <2>1, CalendarKept
<1>7. ASSUME NEW i \in {2, 3}, NEW c \in Chats PROVE KeyInv(i, c)'
  <2>1. i \in 1 .. 3 /\ Buckets[i] \in Keyed /\ KeyInv(i, c)
    BY BucketAt DEF LimInv
  <2>2. stamps'[Buckets[i]] >= stamps[Buckets[i]] /\ tats'[Buckets[i]][c] = tats[Buckets[i]][c]
    BY <1>1, <2>1 DEF LimType
  <2>3. ASSUME NEW r \in Held(i, c)' PROVE Keeps(r, i)
    BY <1>5, <2>1 DEF Held
  <2> QED
    BY <1>1, <1>3, <1>4, <2>1, <2>2, <2>3, KeySame
<1> QED
  BY <1>3, <1>6, <1>7 DEF LimInv

\* A step of one request that leaves every quota and every slot alone.
LEMMA QuietStep ==
    ASSUME LimInv, NEW x \in Requests, MovesAlone(x), req'[x].booked = req[x].booked,
           NEW at, calendar' = calendar \/ calendar' = Fold(calendar, at), tats' = tats, stamps' = stamps
    PROVE  LimInv'
<1>1. LimType /\ CalendarInv
  BY DEF LimInv
<1>2. LimType' /\ Steady
  <2>1. tats' \in [Keyed -> [Chats -> Entry]] /\ stamps' \in [Keyed -> Nat]
    BY <1>1 DEF LimType
  <2> QED
    BY <1>1, <2>1, MovesOK
<1>3. CalendarInv'
  <2>1. ASSUME NEW r \in Requests PROVE Keeps(r, 1)
    BY DEF Keeps, MovesAlone
  <2> QED
    BY <1>1, <1>2, <2>1, CalendarKept
<1>4. ASSUME NEW i \in {2, 3}, NEW c \in Chats PROVE KeyInv(i, c)'
  <2>1. Buckets[i] \in Keyed /\ KeyInv(i, c)
    BY BucketAt DEF LimInv
  <2>2. stamps'[Buckets[i]] >= stamps[Buckets[i]] /\ tats'[Buckets[i]][c] = tats[Buckets[i]][c]
    BY <1>1, <2>1 DEF LimType
  <2> QED
    BY <1>1, <1>2, <2>1, <2>2, KeyUnmoved
<1> QED
  BY <1>2, <1>3, <1>4 DEF LimInv

\* A quota refuses: the request will undo its bookings.
LEMMA RefusedStep ==
    ASSUME LimInv, NEW x \in Requests, NEW pc \in {"undo", "refused"}, req' = [req EXCEPT ![x].pc = pc], now' = now,
           NEW at, calendar' = calendar \/ calendar' = Fold(calendar, at), tats' = tats, stamps' = stamps
    PROVE  LimInv'
<1>1. LimType
  BY DEF LimInv
<1>2. MovesAlone(x) /\ req'[x].booked = req[x].booked
  BY <1>1, PcOK DEF MovesAlone
<1> QED
  BY <1>2, QuietStep

\* SlotCalendar::acquire, for a request.
LEMMA BookGlobalStep ==
    ASSUME LimInv, NEW x \in Requests, BookGlobal(x)
    PROVE  LimInv'
<1>1. LimType /\ CalendarInv /\ now' = now /\ tats' = tats /\ stamps' = stamps
  BY DEF LimInv, BookGlobal
<1>2. PICK at, from : at = req[x].at /\ from = req[x].start
  OBVIOUS
<1>3. PICK start : start = Plus(at, from)
  OBVIOUS
<1>4. PICK cal : cal = Fold(calendar, at)
  OBVIOUS
<1>5. PICK t : t = IF start = Never THEN Never ELSE Earliest(cal, start)
  OBVIOUS
<1>6. /\ req[x].pc = "book" /\ Buckets[req[x].next] = "global" /\ req[x].booked[req[x].next] = NoBooking
      /\ IF t = Never \/ t - at > MaxDelay
         THEN Refused(x) /\ calendar' = (IF start = Never THEN calendar ELSE cal)
         ELSE Booked(x, t - at, None, NoBooking.prev) /\ calendar' = WithSlot(cal, t)
  BY <1>2, <1>3, <1>4, <1>5, Zenon DEF BookGlobal, Turn, WithSlot
<1>7. CASE t = Never \/ t - at > MaxDelay
  <2>1. Refused(x) /\ (calendar' = calendar \/ calendar' = Fold(calendar, at))
    BY <1>4, <1>6, <1>7
  <2>2. req' = [req EXCEPT ![x].pc = "undo"]
    BY <2>1 DEF Refused
  <2> QED
    BY <1>1, <2>1, <2>2, RefusedStep
<1>8. CASE ~(t = Never \/ t - at > MaxDelay)
  <2>1. Booked(x, t - at, None, NoBooking.prev) /\ calendar' = WithSlot(cal, t)
    BY <1>6, <1>8
  <2>2. start # Never /\ t = Earliest(cal, start) /\ t # Never
    BY <1>5, <1>8
  <2>3. req[x] \in Asked /\ at \in Nat /\ from \in Nat /\ req[x].next \in 1 .. 3
    BY <1>1, <1>2, AskedType DEF LimType, RecOK
  <2>4. start = at + from /\ start \in Instants /\ start >= at
    BY <1>3, <2>2, <2>3, InstantsType DEF Plus, Instants
  <2>5. req[x].next = 1
    BY <1>6, <2>3, BucketAt
  <2>6. PICK old, n : old = calendar /\ n = Folded(old, at)
    OBVIOUS
  <2>7. cal \in Calendar /\ Conformant(cal)
    <3>1. old \in Calendar /\ Conformant(old) /\ cal = Fold(old, at)
      BY <1>1, <1>4, <2>6 DEF CalendarInv
    <3> QED
      BY <2>6, <3>1, FoldConforms
  <2>8. t \in Instants /\ t >= start
    BY <2>2, <2>4, <2>7, EarliestOffers
  <2>9. PICK delay : delay = t - at
    OBVIOUS
  <2>10. delay \in Nat /\ at + delay = t
    BY <2>3, <2>4, <2>8, <2>9, InstantsType
  <2>11. Booked(x, delay, None, NoBooking.prev) /\ None \in Int /\ NoBooking.prev \in Entry
    BY <2>1, <2>9, NoBookingType
  <2>12. PICK i : i = req[x].next
    OBVIOUS
  <2>13. /\ DOMAIN req' = Requests
         /\ \A s \in Requests : s # x => req'[s] = req[s]
         /\ RecOK(x, req'[x])
         /\ req'[x].at = req[x].at /\ req'[x].overtaken = req[x].overtaken
         /\ i \in 1 .. 3 /\ req'[x].booked[i] = [delay |-> delay, stamp |-> None, prev |-> NoBooking.prev]
         /\ \A j \in 1 .. 3 : j # i => req'[x].booked[j] = req[x].booked[j]
    BY <1>1, <1>6, <2>10, <2>11, <2>12, BookedOK
  <2>14. MovesAlone(x)
    BY <1>1, <1>6, <2>13 DEF MovesAlone
  <2>15. LimType' /\ Steady
    <3>1. tats' \in [Keyed -> [Chats -> Entry]] /\ stamps' \in [Keyed -> Nat]
      BY <1>1 DEF LimType
    <3> QED
      BY <1>1, <2>14, <3>1, MovesOK
  <2>16. req[x].booked[1] = NoBooking /\ req'[x].at + req'[x].booked[1].delay = t
    BY <1>2, <1>6, <2>5, <2>10, <2>12, <2>13
  <2>17. CalendarInv'
    BY <1>1, <1>4, <2>1, <2>2, <2>4, <2>13, <2>15, <2>16, CalendarBooked
  <2>18. ASSUME NEW j \in {2, 3}, NEW c \in Chats PROVE KeyInv(j, c)'
    <3>1. Buckets[j] \in Keyed /\ KeyInv(j, c)
      BY BucketAt DEF LimInv
    <3>2. stamps'[Buckets[j]] >= stamps[Buckets[j]] /\ tats'[Buckets[j]][c] = tats[Buckets[j]][c]
      BY <1>1, <3>1 DEF LimType
    <3>3. req'[x].booked[j] = req[x].booked[j]
      BY <2>5, <2>12, <2>13
    <3> QED
      BY <1>1, <2>14, <2>15, <3>1, <3>2, <3>3, KeyUnmoved
  <2> QED
    BY <2>15, <2>17, <2>18 DEF LimInv
<1> QED
  BY <1>7, <1>8

\* KeyedLimiter::acquire, for a request.
LEMMA BookKeyedStep ==
    ASSUME LimInv, NEW x \in Requests, NEW q \in {"chat", "group"}, BookKeyed(x, q)
    PROVE  LimInv'
<1>1. LimType /\ CalendarInv /\ now' = now /\ calendar' = calendar
  BY DEF LimInv, BookKeyed
<1>2. PICK at, from, c, e : at = Plus(req[x].at, req[x].start) /\ from = req[x].start /\ c = ChatOf[x] /\ e = tats[q][c]
  OBVIOUS
<1>3. PICK tat : tat = Larger(e.tat, at)
  OBVIOUS
<1>4. PICK wait : wait = Larger(tat - at - Tolerance(q), 0)
  OBVIOUS
<1>5. PICK n : n = stamps[q]
  OBVIOUS
<1>6. /\ req[x].pc = "book" /\ Buckets[req[x].next] = q /\ req[x].booked[req[x].next] = NoBooking
      /\ IF at = Never \/ tat = Never \/ wait > Larger(MaxDelay - from, 0)
         THEN Refused(x) /\ tats' = tats /\ stamps' = stamps
         ELSE /\ Booked(x, from + wait, n, e)
              /\ tats' = [tats EXCEPT ![q][c] = [tat |-> Plus(tat, Spacing(q)), stamp |-> n]]
              /\ stamps' = [stamps EXCEPT ![q] = n + 1]
  BY <1>2, <1>3, <1>4, <1>5, Zenon DEF BookKeyed, Turn
<1>7. CASE at = Never \/ tat = Never \/ wait > Larger(MaxDelay - from, 0)
  <2>1. Refused(x) /\ tats' = tats /\ stamps' = stamps
    BY <1>6, <1>7
  <2>2. req' = [req EXCEPT ![x].pc = "undo"]
    BY <2>1 DEF Refused
  <2> QED
    BY <1>1, <2>1, <2>2, RefusedStep
<1>8. CASE ~(at = Never \/ tat = Never \/ wait > Larger(MaxDelay - from, 0))
  <2>1. /\ Booked(x, from + wait, n, e) /\ at # Never /\ tat # Never
        /\ tats' = [tats EXCEPT ![q][c] = [tat |-> Plus(tat, Spacing(q)), stamp |-> n]]
        /\ stamps' = [stamps EXCEPT ![q] = n + 1]
    BY <1>6, <1>8
  <2>2. PICK i : i = req[x].next
    OBVIOUS
  <2>3. req[x] \in Asked /\ req[x].at \in Nat /\ from \in Nat /\ i \in 1 .. 3
    BY <1>1, <1>2, <2>2, AskedType DEF LimType, RecOK
  <2>4. i \in {2, 3} /\ Buckets[i] = q /\ q \in Keyed /\ q \in Quotas
    BY <1>6, <2>2, <2>3, BucketAt DEF Keyed, Quotas
  <2>5. at = req[x].at + req[x].start /\ at \in Nat /\ at <= MaxInstant
    BY <1>2, <2>1, <2>3, InstantsType DEF Plus
  <2>6. c \in Chats /\ e \in Entry /\ n \in Nat /\ n \in Int /\ e.tat \in Int
    <3>1. c \in Chats
      BY <1>2 DEF Chats
    <3>2. e \in Entry /\ n \in Nat
      BY <1>1, <1>2, <1>5, <2>4, <3>1 DEF LimType
    <3> QED
      BY <3>1, <3>2 DEF Entry
  <2>7. Spacing(q) \in Nat /\ Tolerance(q) \in Nat
    BY <2>4, SpacingType
  <2>8. tat \in Int
    BY <1>3, <2>5, <2>6 DEF Larger
  <2>9. wait \in Nat
    BY <1>4, <2>5, <2>7, <2>8 DEF Larger
  <2>10. PICK delay, nt : delay = from + wait /\ nt = [tat |-> Plus(tat, Spacing(q)), stamp |-> n]
    OBVIOUS
  <2>11. delay \in Nat /\ Booked(x, delay, n, e)
    BY <2>1, <2>3, <2>9, <2>10
  <2>12. nt \in Entry
    <3>1. Plus(tat, Spacing(q)) \in Int
      BY <2>7, <2>8, InstantsType DEF Plus, Never
    <3> QED
      BY <2>6, <2>10, <3>1 DEF Entry
  <2>13. /\ DOMAIN req' = Requests
         /\ \A s \in Requests : s # x => req'[s] = req[s]
         /\ RecOK(x, req'[x])
         /\ req'[x].at = req[x].at /\ req'[x].overtaken = req[x].overtaken
         /\ i \in 1 .. 3 /\ req'[x].booked[i] = [delay |-> delay, stamp |-> n, prev |-> e]
         /\ \A j \in 1 .. 3 : j # i => req'[x].booked[j] = req[x].booked[j]
    BY <1>1, <1>6, <2>2, <2>6, <2>11, BookedOK
  <2>14. MovesAlone(x)
    BY <1>1, <1>6, <2>13 DEF MovesAlone
  <2>15. /\ tats' \in [Keyed -> [Chats -> Entry]]
         /\ tats'[q][c] = nt
         /\ \A p \in Keyed, d \in Chats : p # q \/ d # c => tats'[p][d] = tats[p][d]
    <3>1. tats \in [Keyed -> [Chats -> Entry]] /\ tats' = [tats EXCEPT ![q][c] = nt]
      BY <1>1, <2>1, <2>10 DEF LimType
    <3> QED
      BY <2>4, <2>6, <2>12, <3>1
  <2>16. /\ stamps' \in [Keyed -> Nat] /\ stamps'[q] = n + 1
         /\ \A p \in Keyed : stamps'[p] >= stamps[p]
    <3>1. stamps \in [Keyed -> Nat] /\ n + 1 \in Nat
      BY <1>1, <2>6 DEF LimType
    <3>2. stamps' \in [Keyed -> Nat] /\ stamps'[q] = n + 1
      BY <2>1, <2>4, <3>1
    <3>3. ASSUME NEW p \in Keyed PROVE stamps'[p] >= stamps[p]
      <4>1. CASE p = q
        BY <1>5, <2>6, <3>2, <4>1
      <4>2. CASE p # q
        <5>1. stamps'[p] = stamps[p] /\ stamps[p] \in Nat
          BY <2>1, <3>1, <4>2
        <5> QED
          BY <5>1
      <4> QED
        BY <4>1, <4>2
    <3> QED
      BY <3>2, <3>3
  <2>17. LimType' /\ Steady
    BY <1>1, <2>14, <2>15, <2>16, MovesOK
  <2>18. CalendarInv'
    <3>1. ASSUME NEW r \in Requests PROVE Keeps(r, 1)
      <4>1. 1 \in 1 .. 3 /\ 1 # i
        BY <2>4
      <4> QED
        BY <2>13, <4>1 DEF Keeps
    <3> QED
      BY <1>1, <2>17, <3>1, CalendarKept
  <2>19. ASSUME NEW j \in {2, 3}, NEW d \in Chats PROVE KeyInv(j, d)'
    <3>1. Buckets[j] \in Keyed /\ j \in 1 .. 3 /\ KeyInv(j, d)
      BY BucketAt DEF LimInv
    <3>2. CASE j = i /\ d = c
      <4>1. KeyInv(i, c)
        BY <3>1, <3>2
      <4>2. req[x].booked[i] = NoBooking
        BY <1>6, <2>2
      <4>3. e = tats[Buckets[i]][c] /\ wait = Larger(tat - at - Tolerance(Buckets[i]), 0) /\ n = stamps[Buckets[i]]
            /\ stamps'[Buckets[i]] = n + 1
            /\ tats'[Buckets[i]][c] = [tat |-> Plus(tat, Spacing(Buckets[i])), stamp |-> n]
            /\ req'[x].booked[i] = [delay |-> req[x].start + wait, stamp |-> n, prev |-> e]
        BY <1>2, <1>4, <1>5, <2>4, <2>10, <2>13, <2>15, <2>16
      <4>4. KeyInv(i, c)'
        <5>1. /\ LimType /\ LimType' /\ Steady /\ ChatOf[x] = c /\ req[x].pc = "book" /\ tat = Larger(e.tat, at)
              /\ tat # Never /\ i \in {2, 3} /\ c \in Chats
              /\ req'[x].at = req[x].at /\ req'[x].overtaken = req[x].overtaken
          BY <1>1, <1>2, <1>3, <1>6, <2>1, <2>4, <2>6, <2>13, <2>17
        <5>2. \A s \in Requests : s # x => req'[s] = req[s]
          BY <2>13
        <5> QED
          BY <2>5, <4>1, <4>2, <4>3, <5>1, <5>2, KeyBooked
      <4> QED
        BY <3>2, <4>4
    <3>3. CASE j # i \/ d # c
      <4>1. Buckets[j] # q \/ d # c
        BY <2>4, <3>3, BucketAt
      <4>2. stamps'[Buckets[j]] >= stamps[Buckets[j]] /\ tats'[Buckets[j]][d] = tats[Buckets[j]][d]
        BY <2>15, <2>16, <3>1, <4>1
      <4>3. ChatOf[x] = d => req'[x].booked[j] = req[x].booked[j]
        BY <1>2, <2>13, <3>1, <3>3
      <4> QED
        BY <1>1, <2>14, <2>17, <3>1, <4>2, <4>3, KeyUnmoved
    <3> QED
      BY <3>2, <3>3
  <2> QED
    BY <2>17, <2>18, <2>19 DEF LimInv
<1> QED
  BY <1>7, <1>8

\* A booking is given back.
LEMMA UnbookStep ==
    ASSUME LimInv, NEW x \in Requests, NEW i \in 1 .. 3, req[x].pc \in {"book", "undo"},
           req[x].booked[i] # NoBooking, Unbook(x, i), req' = [req EXCEPT ![x].booked[i] = NoBooking],
           now' = now, stamps' = stamps
    PROVE  LimInv'
<1>1. LimType /\ CalendarInv
  BY DEF LimInv
<1>2. /\ DOMAIN req' = Requests
      /\ \A s \in Requests : s # x => req'[s] = req[s]
      /\ RecOK(x, req'[x]) /\ req'[x].pc = req[x].pc
      /\ req'[x].at = req[x].at /\ req'[x].overtaken = req[x].overtaken
      /\ req'[x].booked[i] = NoBooking
      /\ \A j \in 1 .. 3 : j # i => req'[x].booked[j] = req[x].booked[j]
  BY <1>1, UnbookedOK
<1>3. MovesAlone(x)
  BY <1>2 DEF MovesAlone
<1>4. tats \in [Keyed -> [Chats -> Entry]] /\ stamps' \in [Keyed -> Nat] /\ ChatOf[x] \in Chats
  BY <1>1 DEF LimType, Chats
<1>5. ASSUME NEW r \in Requests, NEW j \in 1 .. 3, req'[r].booked[j] # NoBooking PROVE Keeps(r, j)
  <2>1. CASE r = x
    <3>1. j # i
      BY <1>2, <1>5, <2>1
    <3> QED
      BY <1>2, <2>1, <3>1 DEF Keeps
  <2>2. CASE r # x
    BY <1>2, <2>2 DEF Keeps
  <2> QED
    BY <2>1, <2>2
<1>6. CASE i = 1
  <2>1. CancelGlobal(req[x].at + req[x].booked[1].delay)
    BY <1>6, BucketAt DEF Unbook
  <2>2. tats' = tats
    BY <2>1 DEF CancelGlobal
  <2>3. LimType' /\ Steady
    BY <1>1, <1>3, <1>4, <2>2, MovesOK
  <2>4. CalendarInv'
    <3>1. req[x].booked[1] # NoBooking /\ req'[x].booked[1] = NoBooking
      BY <1>2, <1>6
    <3> QED
      BY <1>1, <1>2, <2>1, <2>3, <3>1, CalendarCancelled
  <2>5. ASSUME NEW j \in {2, 3}, NEW c \in Chats PROVE KeyInv(j, c)'
    <3>1. Buckets[j] \in Keyed /\ KeyInv(j, c)
      BY BucketAt DEF LimInv
    <3>2. stamps'[Buckets[j]] >= stamps[Buckets[j]] /\ tats'[Buckets[j]][c] = tats[Buckets[j]][c]
      BY <1>1, <2>2, <3>1 DEF LimType
    <3>3. req'[x].booked[j] = req[x].booked[j]
      BY <1>2, <1>6
    <3> QED
      BY <1>1, <1>3, <2>3, <3>1, <3>2, <3>3, KeyUnmoved
  <2> QED
    BY <2>3, <2>4, <2>5 DEF LimInv
<1>7. CASE i \in {2, 3}
  <2>1. PICK q, c : q = Buckets[i] /\ c = ChatOf[x]
    OBVIOUS
  <2>2. q \in Keyed /\ c \in Chats /\ q # "global"
    BY <1>4, <1>7, <2>1, BucketAt DEF Keyed
  <2>3. CancelKeyed(x, i) /\ calendar' = calendar
    BY <2>1, <2>2 DEF Unbook, CancelKeyed
  <2>4. PICK e : e = req[x].booked[i].prev
    OBVIOUS
  <2>5. e \in Entry
    BY <1>1, <2>4, SlotType
  <2>6. tats' = IF tats[q][c].stamp = req[x].booked[i].stamp THEN [tats EXCEPT ![q][c] = e] ELSE tats
    BY <2>1, <2>3, <2>4, Zenon DEF CancelKeyed
  <2>7. /\ tats' \in [Keyed -> [Chats -> Entry]]
        /\ tats'[q][c] = IF tats[q][c].stamp = req[x].booked[i].stamp THEN e ELSE tats[q][c]
        /\ \A p \in Keyed, d \in Chats : p # q \/ d # c => tats'[p][d] = tats[p][d]
    <3>1. CASE tats[q][c].stamp = req[x].booked[i].stamp
      <4>1. tats' = [tats EXCEPT ![q][c] = e]
        BY <2>6, <3>1
      <4>2. /\ tats' \in [Keyed -> [Chats -> Entry]]
            /\ tats'[q][c] = e
            /\ \A p \in Keyed, d \in Chats : p # q \/ d # c => tats'[p][d] = tats[p][d]
        BY <1>4, <2>2, <2>5, <4>1
      <4> QED
        BY <3>1, <4>2
    <3>2. CASE tats[q][c].stamp # req[x].booked[i].stamp
      BY <1>4, <2>6, <3>2
    <3> QED
      BY <3>1, <3>2
  <2>8. LimType' /\ Steady
    BY <1>1, <1>3, <1>4, <2>7, MovesOK
  <2>9. CalendarInv'
    <3>1. 1 \in 1 .. 3
      OBVIOUS
    <3> QED
      BY <1>1, <1>5, <2>3, <2>8, <3>1, CalendarKept
  <2>10. ASSUME NEW j \in {2, 3}, NEW d \in Chats PROVE KeyInv(j, d)'
    <3>1. Buckets[j] \in Keyed /\ j \in 1 .. 3 /\ KeyInv(j, d)
      BY BucketAt DEF LimInv
    <3>2. CASE j = i /\ d = c
      <4>1. x \in Held(i, c)
        BY <2>1 DEF Held
      <4>2. ASSUME NEW r \in Held(i, c)' PROVE r # x /\ Keeps(r, i)
        BY <1>2, <1>5 DEF Held
      <4>3. KeyInv(i, c) /\ i \in {2, 3} /\ c \in Chats
        BY <1>7, <2>2, <3>1, <3>2
      <4>4. tats'[Buckets[i]][c] = IF tats[Buckets[i]][c].stamp = req[x].booked[i].stamp
                                   THEN req[x].booked[i].prev ELSE tats[Buckets[i]][c]
        BY <2>1, <2>4, <2>7
      <4>5. KeyInv(i, c)'
        BY <1>1, <2>8, <4>1, <4>2, <4>3, <4>4, KeyCancelled
      <4> QED
        BY <3>2, <4>5
    <3>3. CASE j # i \/ d # c
      <4>1. Buckets[j] # q \/ d # c
        BY <1>7, <2>1, <3>3, BucketAt
      <4>2. stamps'[Buckets[j]] >= stamps[Buckets[j]] /\ tats'[Buckets[j]][d] = tats[Buckets[j]][d]
        BY <1>1, <2>7, <3>1, <4>1 DEF LimType
      <4>3. ChatOf[x] = d => req'[x].booked[j] = req[x].booked[j]
        BY <1>2, <2>1, <3>1, <3>3
      <4> QED
        BY <1>1, <1>3, <2>8, <3>1, <4>2, <4>3, KeyUnmoved
    <3> QED
      BY <3>2, <3>3
  <2> QED
    BY <2>8, <2>9, <2>10 DEF LimInv
<1> QED
  BY <1>6, <1>7

\* A slot that is too early is given back.
LEMMA GiveUpEarlyStep ==
    ASSUME LimInv, NEW x \in Requests, GiveUpEarly(x)
    PROVE  LimInv'
<1>1. PICK i : i = req[x].next
  OBVIOUS
<1>2. /\ req[x].pc = "book" /\ req[x].booked[i] # NoBooking /\ Unbook(x, i)
      /\ req' = [req EXCEPT ![x].booked[i] = NoBooking] /\ now' = now /\ stamps' = stamps
  BY <1>1, Zenon DEF GiveUpEarly
<1>3. req[x] \in Asked
  BY DEF LimInv, LimType, RecOK
<1>4. i \in 1 .. 3
  BY <1>1, <1>3, AskedType
<1> QED
  BY <1>2, <1>4, UnbookStep

\* The bookings of a request that was refused are given back.
LEMMA UndoStep ==
    ASSUME LimInv, NEW x \in Requests, Undo(x)
    PROVE  LimInv'
<1> DEFINE left == {i \in 1 .. 3 : req[x].booked[i] # NoBooking}
<1>1. req[x].pc = "undo" /\ now' = now /\ stamps' = stamps
  BY DEF Undo
<1>2. CASE left = {}
  <2>1. req' = [req EXCEPT ![x].pc = "refused"] /\ calendar' = calendar /\ tats' = tats
    BY <1>2 DEF Undo
  <2> HIDE DEF left
  <2> QED
    BY <1>1, <2>1, RefusedStep
<1>3. CASE left # {}
  <2>1. PICK i : i = Max(left)
    OBVIOUS
  <2>2. Unbook(x, i) /\ req' = [req EXCEPT ![x].booked[i] = NoBooking]
    BY <1>3, <2>1, Zenon DEF Undo
  <2>3. left \in SUBSET Int /\ IsFiniteSet(left)
    <3>1. left \in SUBSET (1 .. 3) /\ 1 \in Int /\ 3 \in Int
      OBVIOUS
    <3>2. IsFiniteSet(1 .. 3)
      BY <3>1, FS_Interval
    <3> QED
      BY <3>1, <3>2, FS_Subset
  <2>4. i \in left
    <3> HIDE DEF left
    <3> QED
      BY <1>3, <2>1, <2>3, MaxIsLargest
  <2>5. i \in 1 .. 3 /\ req[x].booked[i] # NoBooking
    BY <2>4
  <2> HIDE DEF left
  <2> QED
    BY <1>1, <2>2, <2>5, UnbookStep
<1> QED
  BY <1>2, <1>3

\* BotLimiter::sweep, the calendar.
LEMMA SweepGlobalStep ==
    ASSUME LimInv, SweepGlobal
    PROVE  LimInv'
<1>1. LimType /\ CalendarInv /\ now' = now /\ tats' = tats /\ stamps' = stamps /\ req' = req
      /\ calendar' = Fold(calendar, now)
  BY DEF LimInv, SweepGlobal
<1>2. LimType'
  BY <1>1 DEF LimType
<1>3. CalendarInv'
  <2>1. ASSUME NEW r \in Requests PROVE Keeps(r, 1)
    BY <1>1 DEF Keeps
  <2>2. PICK at : at = now
    OBVIOUS
  <2>3. calendar' = Fold(calendar, at)
    BY <1>1, <2>2
  <2> QED
    BY <1>1, <1>2, <2>1, <2>3, CalendarKept
<1>4. ASSUME NEW i \in {2, 3}, NEW c \in Chats PROVE KeyInv(i, c)'
  <2>1. KeyInv(i, c)
    BY DEF LimInv
  <2> QED
    BY <1>1, <2>1 DEF KeyInv, Held, HeldOK, Known, Ordered, Due, Settled
<1> QED
  BY <1>2, <1>3, <1>4 DEF LimInv

\* BotLimiter::sweep, a keyed quota: a request that is under way is overtaken.
LEMMA SweepKeyedStep ==
    ASSUME LimInv, NEW q \in {"chat", "group"}, SweepKeyed(q)
    PROVE  LimInv'
<1>1. /\ LimType /\ CalendarInv /\ now' = now /\ stamps' = stamps /\ req' = Overtaken /\ calendar' = calendar
      /\ q \in Keyed /\ tats \in [Keyed -> [Chats -> Entry]]
  BY DEF LimInv, LimType, SweepKeyed, Keyed
<1>2. /\ DOMAIN req' = Requests
      /\ \A r \in Requests :
             /\ RecOK(r, req'[r]) /\ req'[r].pc = req[r].pc /\ req'[r].at = req[r].at
             /\ req'[r].booked = req[r].booked
             /\ req[r].overtaken => req'[r].overtaken
             /\ req'[r].pc = "book" /\ ~req'[r].overtaken => req'[r].at >= now
  BY <1>1, OvertakenOK
<1>3. PICK row : row = [c \in Chats |-> IF tats[q][c].tat <= now THEN NoBooking.prev ELSE tats[q][c]]
  OBVIOUS
<1>4. tats' = [tats EXCEPT ![q] = row]
  BY <1>3, Zenon DEF SweepKeyed
<1>5. row \in [Chats -> Entry]
  <2>1. ASSUME NEW c \in Chats PROVE (IF tats[q][c].tat <= now THEN NoBooking.prev ELSE tats[q][c]) \in Entry
    BY <1>1, NoBookingType
  <2> QED
    BY <1>3, <2>1
<1>6. /\ tats' \in [Keyed -> [Chats -> Entry]] /\ tats'[q] = row
      /\ \A p \in Keyed : p # q => tats'[p] = tats[p]
  BY <1>1, <1>4, <1>5
<1>7. LimType'
  BY <1>1, <1>2, <1>6 DEF LimType
<1>8. Steady
  <2>1. now' >= now
    BY <1>1, NowType
  <2> QED
    BY <1>2, <2>1 DEF Steady
<1>9. ASSUME NEW r \in Requests, NEW i \in 1 .. 3 PROVE Keeps(r, i)
  BY <1>2 DEF Keeps
<1>10. CalendarInv'
  <2>1. 1 \in 1 .. 3
    OBVIOUS
  <2> QED
    BY <1>1, <1>7, <1>9, <2>1, CalendarKept
<1>11. ASSUME NEW i \in {2, 3}, NEW c \in Chats PROVE KeyInv(i, c)'
  <2>1. Buckets[i] \in Keyed /\ i \in 1 .. 3 /\ KeyInv(i, c)
    BY BucketAt DEF LimInv
  <2>2. CASE Buckets[i] = q /\ tats[q][c].tat <= now
    <3>1. tats'[Buckets[i]][c] = NoBooking.prev /\ tats[Buckets[i]][c].tat <= now
      BY <1>3, <1>6, <2>2
    <3>2. \A r \in Requests : Keeps(r, i)
      BY <1>9, <2>1
    <3>3. \A r \in Requests : req'[r].pc = "book" /\ ~req'[r].overtaken => req'[r].at >= now
      BY <1>2
    <3> QED
      BY <1>1, <1>7, <1>8, <2>1, <3>1, <3>2, <3>3, KeySwept
  <2>3. CASE ~(Buckets[i] = q /\ tats[q][c].tat <= now)
    <3>1. tats'[Buckets[i]][c] = tats[Buckets[i]][c]
      BY <1>3, <1>6, <2>1, <2>3
    <3>2. stamps'[Buckets[i]] >= stamps[Buckets[i]]
      <4>1. PICK n : n = stamps[Buckets[i]]
        OBVIOUS
      <4>2. n \in Nat /\ stamps'[Buckets[i]] = n
        BY <1>1, <2>1, <4>1 DEF LimType
      <4> QED
        BY <4>1, <4>2
    <3>3. ASSUME NEW r \in Held(i, c)' PROVE Keeps(r, i)
      BY <1>9, <2>1 DEF Held
    <3> QED
      BY <1>1, <1>7, <1>8, <2>1, <3>1, <3>2, <3>3, KeySame
  <2> QED
    BY <2>2, <2>3
<1> QED
  BY <1>7, <1>10, <1>11 DEF LimInv

\* Time passes.
LEMMA TickStep ==
    ASSUME LimInv, Tick
    PROVE  LimInv'
<1>1. /\ LimType /\ CalendarInv /\ now < MaxNow /\ now' = now + 1 /\ tats' = tats /\ stamps' = stamps /\ req' = req
      /\ calendar' = calendar
  BY DEF LimInv, Tick
<1>2. now \in Nat /\ now' \in 0 .. MaxNow /\ now' >= now
  BY <1>1, LimiterAssumption DEF LimType
<1>3. LimType'
  BY <1>1, <1>2 DEF LimType
<1>4. Steady
  BY <1>1, <1>2 DEF Steady
<1>5. ASSUME NEW r \in Requests, NEW i \in 1 .. 3 PROVE Keeps(r, i)
  BY <1>1 DEF Keeps
<1>6. CalendarInv'
  <2>1. 1 \in 1 .. 3
    OBVIOUS
  <2> QED
    BY <1>1, <1>3, <1>5, <2>1, CalendarKept
<1>7. ASSUME NEW i \in {2, 3}, NEW c \in Chats PROVE KeyInv(i, c)'
  <2>1. Buckets[i] \in Keyed /\ i \in 1 .. 3 /\ KeyInv(i, c)
    BY BucketAt DEF LimInv
  <2>2. tats'[Buckets[i]][c] = tats[Buckets[i]][c] /\ stamps'[Buckets[i]] >= stamps[Buckets[i]]
    BY <1>1, <2>1 DEF LimType
  <2>3. ASSUME NEW r \in Held(i, c)' PROVE Keeps(r, i)
    BY <1>5, <2>1 DEF Held
  <2> QED
    BY <1>1, <1>3, <1>4, <2>1, <2>2, <2>3, KeySame
<1> QED
  BY <1>3, <1>6, <1>7 DEF LimInv

\* Every step keeps the invariant.
LEMMA LimNextInv == LimInv /\ [LimiterNext]_limiterVars => LimInv'
<1>1. ASSUME LimInv, UNCHANGED limiterVars PROVE LimInv'
  <2>1. now' = now /\ calendar' = calendar /\ tats' = tats /\ stamps' = stamps /\ req' = req
    BY <1>1 DEF limiterVars
  <2>2. LimType'
    BY <1>1, <2>1 DEF LimInv, LimType
  <2>3. Holding' = Holding /\ SlotAt' = SlotAt
    BY <2>1 DEF Holding, SlotAt
  <2>4. CalendarInv'
    BY <1>1, <2>1, <2>3 DEF LimInv, CalendarInv
  <2>5. ASSUME NEW i \in {2, 3}, NEW c \in Chats PROVE KeyInv(i, c)'
    <3>1. KeyInv(i, c)
      BY <1>1 DEF LimInv
    <3> QED
      BY <2>1, <3>1 DEF KeyInv, Held, HeldOK, Known, Ordered, Due, Settled
  <2> QED
    BY <2>2, <2>4, <2>5 DEF LimInv
<1> QED
  BY <1>1, BeginStep, BookGlobalStep, BookKeyedStep, GiveUpEarlyStep, UndoStep, SweepGlobalStep, SweepKeyedStep,
     TickStep DEF LimiterNext

\* A request that leaves holds a slot of each of its quotas, for the instant it leaves at.
LEMMA LeavingSlot ==
    ASSUME LimType, NEW r \in Requests, req[r].pc = "leaves", NEW i \in 1 .. 3, LimitedBy(r, i)
    PROVE  /\ req[r].booked[i] # NoBooking /\ LeavesAt(r) \in Nat
           /\ LeavesAt(r) = req[r].at + req[r].booked[i].delay
<1>1. PICK at, delay, d : at = req[r].at /\ delay = req[r].delay /\ d = req[r].booked[i].delay
  OBVIOUS
<1>2. RecOK(r, req[r])
  BY DEF LimType
<1>3. at \in Nat /\ delay \in Nat /\ d \in Int
  BY <1>1, <1>2, AskedType DEF RecOK
<1>4. d >= delay
  BY <1>1, <1>2 DEF RecOK, LeavesOK
<1>5. req[r].booked[i] # NoBooking
  <2>1. NoBooking.delay = 0 - 1
    BY NoBookingType
  <2>2. d # 0 - 1
    BY <1>3, <1>4
  <2> QED
    BY <1>1, <2>1, <2>2
<1>6. d <= delay
  BY <1>1, <1>2, <1>5 DEF RecOK, SlotsOK
<1>7. d = delay /\ at + delay \in Nat
  BY <1>3, <1>4, <1>6
<1> QED
  BY <1>1, <1>5, <1>7 DEF LeavesAt

\* The bot's own quota, whatever the chats.
LEMMA GlobalKept ==
    ASSUME LimInv, NEW c
    PROVE  WithinLimit("global", c)
<1>1. LimType /\ CalendarInv
  BY DEF LimInv
<1>2. ASSUME NEW r \in Leaving("global", c)
      PROVE  r \in Requests /\ r \in Holding /\ LeavesAt(r) \in Nat /\ SlotAt[r] = LeavesAt(r)
  <2>1. r \in Requests /\ req[r].pc = "leaves"
    BY DEF Leaving
  <2>2. LimitedBy(r, 1) /\ 1 \in 1 .. 3
    BY BucketAt DEF LimitedBy
  <2>3. req[r].booked[1] # NoBooking /\ LeavesAt(r) \in Nat /\ LeavesAt(r) = req[r].at + req[r].booked[1].delay
    BY <1>1, <2>1, <2>2, LeavingSlot
  <2> QED
    BY <2>1, <2>3 DEF Holding, SlotAt
<1>3. ASSUME NEW x \in {LeavesAt(r) : r \in Leaving("global", c)}, NEW y \in {LeavesAt(r) : r \in Leaving("global", c)},
             x <= y
      PROVE  Cardinality({r \in Leaving("global", c) : LeavesAt(r) \in x .. y}) * Spacing("global")
                 <= BurstOf["global"] * Spacing("global") + (y - x)
  <2>1. PICK R, a, b : R = {r \in Leaving("global", c) : LeavesAt(r) \in x .. y} /\ a = x /\ b = y
    OBVIOUS
  <2>2. PICK cal, H, X : cal = calendar /\ H = Holding /\ X = SlotAt
    OBVIOUS
  <2>3. cal \in Calendar /\ Conformant(cal) /\ OwnedBy(cal, H, X) /\ H \in SUBSET Requests /\ X \in [Requests -> Int]
    BY <1>1, <2>2, HoldingType DEF CalendarInv
  <2>4. a \in Int /\ b \in Int /\ a <= b
    BY <1>2, <1>3, <2>1
  <2>5. ASSUME NEW r \in R PROVE r \in H /\ a <= X[r] /\ X[r] <= b
    <3>1. r \in Leaving("global", c) /\ LeavesAt(r) \in a .. b
      BY <2>1
    <3>2. r \in H /\ X[r] = LeavesAt(r) /\ LeavesAt(r) \in Nat
      BY <1>2, <2>2, <3>1
    <3> QED
      BY <2>4, <3>1, <3>2
  <2>6. R \in SUBSET H
    BY <2>5
  <2>7. Cardinality(R) * T1 <= BurstOf["global"] * T1 + (b - a)
    BY <2>3, <2>4, <2>5, <2>6, OwnedCount
  <2> QED
    BY <2>1, <2>7 DEF T1
<1> QED
  BY <1>3 DEF WithinLimit

\* The quota of a chat.
LEMMA KeyedKept ==
    ASSUME LimInv, NEW i \in {2, 3}, NEW q, q = Buckets[i], NEW c \in Chats
    PROVE  WithinLimit(q, c)
<1>1. LimType /\ KeyInv(i, c) /\ i \in 1 .. 3 /\ q \in Keyed /\ q \in Quotas /\ q # "global"
  BY BucketAt DEF LimInv, Keyed
<1>2. PICK T, D : T = Spacing(q) /\ D = Tolerance(q)
  OBVIOUS
<1>3. T \in Nat /\ T > 0 /\ D \in Nat /\ D + T = BurstOf[q] * T
  BY <1>1, <1>2, SpacingType
<1>4. ASSUME NEW r \in Leaving(q, c)
      PROVE  /\ r \in Requests /\ r \in Held(i, c) /\ ~req[r].overtaken /\ LeavesAt(r) \in Nat
             /\ LeavesAt(r) = req[r].at + req[r].booked[i].delay
  <2>1. r \in Requests /\ req[r].pc = "leaves" /\ ChatOf[r] = c /\ ~req[r].overtaken /\ (q = "group" => c \in Groups)
    BY <1>1 DEF Leaving
  <2>2. LimitedBy(r, i)
    BY <2>1 DEF LimitedBy
  <2>3. req[r].booked[i] # NoBooking /\ LeavesAt(r) \in Nat /\ LeavesAt(r) = req[r].at + req[r].booked[i].delay
    BY <1>1, <2>1, <2>2, LeavingSlot
  <2> QED
    BY <2>1, <2>3 DEF Held
<1>5. ASSUME NEW r \in Leaving(q, c)
      PROVE  Due(r, i) \in Int /\ LeavesAt(r) + T <= Due(r, i) /\ Due(r, i) <= LeavesAt(r) + D + T
  <2>1. PICK v, p : v = LeavesAt(r) /\ p = req[r].booked[i].prev.tat
    OBVIOUS
  <2>2. v \in Nat /\ p \in Int
    BY <1>1, <1>4, <2>1, SlotType
  <2>3. p <= v + D
    <3>1. HeldOK(r, i)
      BY <1>1, <1>4 DEF KeyInv
    <3> QED
      BY <1>2, <1>4, <2>1, <3>1 DEF HeldOK
  <2>4. Due(r, i) = Larger(p, v) + T
    BY <1>2, <1>4, <2>1 DEF Due
  <2>5. PICK w : w = Larger(p, v)
    OBVIOUS
  <2>6. w \in Int /\ v <= w /\ w <= v + D
    BY <1>3, <2>2, <2>3, <2>5 DEF Larger
  <2>7. w + T \in Int /\ v + T <= w + T /\ w + T <= v + D + T
    BY <1>3, <2>2, <2>6
  <2> QED
    BY <2>1, <2>4, <2>5, <2>7
<1>6. ASSUME NEW r \in Leaving(q, c), NEW s \in Leaving(q, c), r # s
      PROVE  Due(r, i) - Due(s, i) >= T \/ Due(s, i) - Due(r, i) >= T
  <2>1. PICK d, e : d = Due(r, i) /\ e = Due(s, i)
    OBVIOUS
  <2>2. d \in Int /\ e \in Int
    BY <1>5, <2>1
  <2>3. Ordered(r, s, i) /\ Ordered(s, r, i) /\ ~req[r].overtaken /\ ~req[s].overtaken
    BY <1>1, <1>4, <1>6 DEF KeyInv
  <2>4. req[r].booked[i].stamp \in Int /\ req[s].booked[i].stamp \in Int
    BY <1>1, <1>4, SlotType
  <2>5. req[r].booked[i].stamp < req[s].booked[i].stamp \/ req[s].booked[i].stamp < req[r].booked[i].stamp
    BY <2>3, <2>4 DEF Ordered
  <2>6. e >= d + T \/ d >= e + T
    BY <1>2, <2>1, <2>3, <2>5, Zenon DEF Ordered
  <2> QED
    BY <1>3, <2>1, <2>2, <2>6
<1>7. ASSUME NEW x \in {LeavesAt(r) : r \in Leaving(q, c)}, NEW y \in {LeavesAt(r) : r \in Leaving(q, c)}, x <= y
      PROVE  Cardinality({r \in Leaving(q, c) : LeavesAt(r) \in x .. y}) * Spacing(q)
                 <= BurstOf[q] * Spacing(q) + (y - x)
  <2>1. PICK R, a, b : R = {r \in Leaving(q, c) : LeavesAt(r) \in x .. y} /\ a = x /\ b = y
    OBVIOUS
  <2>2. a \in Int /\ b \in Int /\ a <= b
    BY <1>4, <1>7, <2>1
  <2>3. PICK lo, hi : lo = a + T /\ hi = b + D + T
    OBVIOUS
  <2>4. lo \in Int /\ hi \in Int /\ lo <= hi + T
    BY <1>3, <2>2, <2>3
  <2>5. ASSUME NEW r \in R PROVE r \in Leaving(q, c) /\ Due(r, i) \in Int /\ lo <= Due(r, i) /\ Due(r, i) <= hi
    <3>1. r \in Leaving(q, c) /\ LeavesAt(r) \in a .. b
      BY <2>1
    <3>2. PICK v, d : v = LeavesAt(r) /\ d = Due(r, i)
      OBVIOUS
    <3>3. v \in Nat /\ v \in a .. b /\ d \in Int /\ v + T <= d /\ d <= v + D + T
      BY <1>4, <1>5, <3>1, <3>2
    <3>4. lo <= d /\ d <= hi
      BY <1>3, <2>2, <2>3, <3>3
    <3> QED
      BY <3>1, <3>2, <3>3, <3>4
  <2>6. PICK f : f = [r \in R |-> Due(r, i)]
    OBVIOUS
  <2>7. f \in [R -> Int] /\ \A r \in R : f[r] = Due(r, i)
    BY <2>5, <2>6
  <2>8. IsFiniteSet(R)
    <3>1. R \in SUBSET Requests
      BY <2>1 DEF Leaving
    <3> QED
      BY <3>1, LimiterAssumption, FS_Subset
  <2>9. \A r \in R : lo <= f[r] /\ f[r] <= hi
    BY <2>5, <2>7
  <2>10. \A r, s \in R : r # s => f[r] - f[s] >= T \/ f[s] - f[r] >= T
    BY <1>6, <2>5, <2>7
  <2>11. Cardinality(R) \in Nat /\ Cardinality(R) * T <= hi - lo + T
    BY <1>3, <2>4, <2>7, <2>8, <2>9, <2>10, SpacedCount
  <2>12. hi - lo + T = (D + T) + (b - a)
    BY <1>3, <2>2, <2>3
  <2>13. Cardinality(R) * T <= BurstOf[q] * T + (b - a)
    BY <1>3, <2>11, <2>12
  <2> QED
    BY <1>2, <2>1, <2>13
<1> QED
  BY <1>7 DEF WithinLimit

\* The invariant gives the limits.
LEMMA LimInvHolds == LimInv => LimitsHold
<1> SUFFICES ASSUME LimInv, NEW q \in {"global", "chat", "group"}, NEW c \in Chats PROVE WithinLimit(q, c)
  BY DEF LimitsHold
<1>1. CASE q = "global"
  BY <1>1, GlobalKept
<1>2. CASE q # "global"
  <2>1. PICK i \in {2, 3} : q = Buckets[i]
    BY <1>2, BucketAt
  <2> QED
    BY <2>1, KeyedKept
<1> QED
  BY <1>1, <1>2

\* The requests that leave keep each of their quotas at once: the bot's own
\* for all of them, that of the chat and of the group for those that no sweep
\* overtook, for all quotas, chats and interleavings (BotLimiter::acquire).
THEOREM LimitsCorrect == LimiterSpec => []LimitsHold
<1>1. LimiterInit => LimInv
  BY LimInitInv
<1>2. LimInv /\ [LimiterNext]_limiterVars => LimInv'
  BY LimNextInv
<1>3. LimInv => LimitsHold
  BY LimInvHolds
<1> QED
  BY <1>1, <1>2, <1>3, PTL DEF LimiterSpec
=============================================================================
