------------------------------ MODULE Gateway ------------------------------
(***************************************************************************)
(* The Bot API gateway (tgin-botapi/src/gateway): the calls of one bot's   *)
(* clients and its webhook replies, each from the request to the count of  *)
(* its outcome, while reloads replace the bot's entry, a move parks the    *)
(* bot, and the shutdown watches for the gateway to fall quiet.            *)
(*                                                                         *)
(* A call is of one of these kinds:                                        *)
(*   send    a limited method, its small body buffered, sent again once    *)
(*           after a 429;                                                  *)
(*   upload  a limited method whose body streams through the scan;         *)
(*   getMe   answered from the identity the gateway knows, else forwarded; *)
(*   hook    setWebhook on a push consumer's path, answered here;          *)
(*   origin  a file proxied from a file origin, not the Bot API server;    *)
(*   disk    a file served from disk;                                      *)
(*   reply   a webhook reply, executed by the gateway itself.              *)
(* Which slot the limits give is in Limiter, what the scan refuses in      *)
(* Scan; here both are free choices.  Left out: bodies' bytes, headers,    *)
(* the updates drop_pending_updates purges (LeaseQueue).                   *)
(***************************************************************************)
EXTENDS Integers, Sequences, FiniteSets

CONSTANTS
    Reqs,       \* the calls
    Plans       \* worlds: kinds (the calls' kinds), changes (the reloads to come),
                \* move and drain (whether the bot is moved, the process stopped)

NoId == <<0, 0>>
Kinds == {"send", "upload", "getMe", "hook", "origin", "disk", "reply"}
Changes == {"rotate", "edit", "unfeed", "remove", "add"}

\* A bot is added where it was removed before.
ASSUME PlansAssumption ==
    /\ Plans \subseteq [kinds : [Reqs -> Kinds], changes : Seq(Changes),
                        move : BOOLEAN, drain : BOOLEAN]
    /\ \A p \in Plans : \A i \in 1 .. Len(p.changes) :
           p.changes[i] = "add" => i > 1 /\ p.changes[i - 1] = "remove"

VARIABLES
    plan,
    engine,     \* the bot in the engine: on, id (its source id and token), fed (a rule
                \* feeds the consumer), cap (whose setWebhook the consumer holds, or NoId)
    entry,      \* the bot in the gateway's table: on, id, cell (of its identity), gate
    known,      \* identity cells that hold an identity
    gates,      \* gate -> parked, sending
    reqs,       \* the calls' states
    flight,     \* Upstreams: count (in_flight), recent (last is within GATEWAY_QUIET)
    reload,     \* whether the engine has the new config and the table not yet
    move,       \* "no", "parked", "out": the bot is logged out of its server
    drain       \* the drain's look: pc; before and missed, see DrainWaits

vars == <<plan, engine, entry, known, gates, reqs, flight, reload, move, drain>>
configVars == <<engine, entry, reload>>
worldVars == <<plan, engine, entry, reload, move, drain>>

New(k) ==
    [pc |-> "new", kind |-> k, id |-> NoId, cell |-> 0, gate |-> 0, bound |-> NoId,
     up |-> "none", srv |-> "none", again |-> FALSE, ran |-> 0, counts |-> 0, ans |-> "none",
     old |-> FALSE]      \* GATEWAY_QUIET has passed since it ended (for DrainWaits)

Init ==
    /\ plan \in Plans
    /\ engine = [on |-> TRUE, id |-> <<1, 1>>, fed |-> TRUE, cap |-> NoId]
    /\ entry = [on |-> TRUE, id |-> <<1, 1>>, cell |-> 1, gate |-> 1]
    /\ known = {}
    /\ gates = <<[parked |-> FALSE, sending |-> 0]>>
    /\ reqs = [r \in Reqs |-> New(plan.kinds[r])]
    /\ flight = [count |-> 0, recent |-> FALSE]
    /\ reload = FALSE /\ move = "no"
    /\ drain = [pc |-> "no", before |-> {}, missed |-> {}]

Forwarded(r) == reqs[r].kind \notin {"hook", "reply"}
Ended == {"closing", "done"}

\* Mutant: the end of a forwarded call is not stamped.
EndUnstamped(r, a, c) ==
    /\ reqs' = [reqs EXCEPT ![r].pc = IF Forwarded(r) THEN "closing" ELSE "done",
                            ![r].ans = a, ![r].counts = @ + c]
    /\ UNCHANGED flight

\* The request ends with the answer a, its outcome counted c times.  A
\* forwarded one stamps the end first and leaves in_flight after (Forwarding).
End(r, a, c) ==
    /\ reqs' = [reqs EXCEPT ![r].pc = IF Forwarded(r) THEN "closing" ELSE "done",
                            ![r].ans = a, ![r].counts = @ + c]
    /\ flight' = IF Forwarded(r) THEN [flight EXCEPT !.recent = TRUE] ELSE flight

\* An end before anything was forwarded.
Refuse(r, a, c) ==
    /\ reqs' = [reqs EXCEPT ![r].pc = "done", ![r].ans = a, ![r].counts = @ + c]
    /\ UNCHANGED flight

Closed(r) ==
    /\ reqs[r].pc = "closing"
    /\ reqs' = [reqs EXCEPT ![r].pc = "done"]
    /\ flight' = [flight EXCEPT !.count = @ - 1]
    /\ UNCHANGED <<worldVars, known, gates>>

Goto(r, pc) == reqs' = [reqs EXCEPT ![r].pc = pc]

-----------------------------------------------------------------------------
(* The request: its token, its route, the intercepts, the parked check.    *)

\* Call::route: a getMe is answered from the identity known.
Routed(r) == reqs[r].kind = "getMe" /\ entry.cell \in known

\* A client calls with the token t: the entry it finds is the one the call
\* keeps, whatever set_bots does meanwhile.
Arrive(r, t) ==
    /\ reqs[r].pc = "new" /\ reqs[r].kind # "reply"
    /\ IF ~entry.on \/ entry.id[2] # t THEN Refuse(r, "unknown", 0)
       ELSE \/ Refuse(r, "rejected", 1)     \* the path's consumer or the method is not served
            \/ /\ reqs[r].kind = "hook"
               /\ reqs' = [reqs EXCEPT ![r].pc = "body", ![r].id = entry.id]
               /\ UNCHANGED flight
            \/ Routed(r) /\ Refuse(r, "local", 1)
            \/ /\ reqs[r].kind \notin {"hook", "disk"} /\ ~Routed(r)
               /\ gates[entry.gate].parked
               /\ Refuse(r, "parked", 1)
            \/ /\ Forwarded(r) /\ ~Routed(r)
               /\ reqs[r].kind = "disk" \/ ~gates[entry.gate].parked
               /\ reqs' = [reqs EXCEPT ![r].pc = "counted", ![r].id = entry.id,
                                       ![r].cell = entry.cell, ![r].gate = entry.gate]
               /\ flight' = [flight EXCEPT !.count = @ + 1]
    /\ UNCHANGED <<worldVars, known, gates>>

\* Forwarding::new: counted in flight, then stamped.
Stamp(r) ==
    /\ reqs[r].pc = "counted"
    /\ Goto(r, CASE reqs[r].kind \in {"send", "upload"} -> "prepare"
                 [] reqs[r].kind = "disk" -> "disk"
                 [] OTHER -> "go")
    /\ flight' = [flight EXCEPT !.recent = TRUE]
    /\ UNCHANGED <<worldVars, known, gates>>

\* The file from disk is counted by its status as its body starts.
ServeFile(r) ==
    /\ reqs[r].pc = "disk"
    /\ \E a \in {"ok", "error"} :
          reqs' = [reqs EXCEPT ![r].pc = "relay", ![r].ans = a, ![r].counts = @ + 1]
    /\ UNCHANGED <<worldVars, known, gates, flight>>

\* setWebhook reads its body; a client that stalls or closes it is counted.
\* A bad URL, or a consumer that takes no webhook, is answered at once.
ReadHook(r) ==
    /\ reqs[r].pc = "body"
    /\ \/ Goto(r, "drop") /\ UNCHANGED flight
       \/ Refuse(r, "local", 1)
       \/ Refuse(r, "too_large", 1)
       \/ Refuse(r, "closed", 1)
    /\ UNCHANGED <<worldVars, known, gates>>

\* Mutant: the bot is known by its source alone.
AuthenticatedSource(id) == engine.on /\ engine.id[1] = id[1]

\* Engine::authenticated: the bot of the current config, by source and token.
Authenticated(id) == engine.on /\ engine.id = id

\* drop_pending_updates, where asked for, under the engine's write lock.
DropPending(r) ==
    /\ reqs[r].pc = "drop"
    /\ \/ Goto(r, "set") /\ UNCHANGED flight
       \/ ~Authenticated(reqs[r].id) /\ Refuse(r, "401", 1)
    /\ UNCHANGED <<worldVars, known, gates>>

\* Engine::set_runtime_endpoint.
SetWebhook(r) ==
    /\ reqs[r].pc = "set"
    /\ IF Authenticated(reqs[r].id)
       THEN /\ Refuse(r, "local", 1)
            /\ \E cap \in {reqs[r].id, NoId} :
                  engine' = [engine EXCEPT !.cap = IF engine.fed THEN cap ELSE @]
       ELSE Refuse(r, "401", 1) /\ UNCHANGED engine
    /\ UNCHANGED <<plan, entry, reload, move, drain, known, gates>>

-----------------------------------------------------------------------------
(* The limits and the gate.                                                *)

\* A body read before anything is sent: read whole, or handed on to stream
\* through the scan; refused by the scan; closed or stalled by the client.
Prepare(r) ==
    /\ reqs[r].pc = "prepare"
    /\ \/ Goto(r, "admit") /\ UNCHANGED flight
       \/ End(r, "refused", 1)
       \/ End(r, "closed", 1)
       \/ reqs[r].kind = "send" /\ End(r, "unreachable", 1)
    /\ UNCHANGED <<worldVars, known, gates>>

\* Call::admit: the slot booked and waited for, or refused.  A resend that
\* is refused answers with the 429 as it came.
Admit(r) ==
    /\ reqs[r].pc = "admit"
    /\ \/ Goto(r, "go") /\ UNCHANGED flight
       \/ End(r, "429", 1)
    /\ UNCHANGED <<worldVars, known, gates>>

\* A push consumer posts an update of the bot, to its configured endpoint or
\* to the one setWebhook set, and gets a reply.
Posted(r) ==
    /\ reqs[r].pc = "new" /\ reqs[r].kind = "reply"
    /\ \E bound \in {NoId, engine.cap} :
          reqs' = [reqs EXCEPT ![r].pc = "replied", ![r].id = engine.id, ![r].bound = bound]
    /\ UNCHANGED <<worldVars, known, gates, flight>>

\* Gateway::run_reply: the entry of the update's source, the checks of the
\* reply's method and parameters.
Reply(r) ==
    /\ reqs[r].pc = "replied"
    /\ IF entry.on /\ entry.id[1] = reqs[r].id[1]
       THEN \/ /\ reqs' = [reqs EXCEPT ![r].pc = "admit", ![r].id = entry.id, ![r].gate = entry.gate]
               /\ UNCHANGED flight
            \/ Refuse(r, "refused", 1)
       ELSE Refuse(r, "unserved", 1)
    /\ UNCHANGED <<worldVars, known, gates>>

\* Engine::holds_token, of a reply from a runtime endpoint.
HoldsToken(r) == reqs[r].bound = NoId \/ (Authenticated(reqs[r].bound) /\ reqs[r].bound = reqs[r].id)

\* Gate::enter counts the call, then reads the flag.
Enter(r) ==
    /\ reqs[r].pc = "go"
    /\ IF reqs[r].kind = "reply" /\ ~HoldsToken(r)
       THEN Refuse(r, "refused", 1) /\ UNCHANGED gates
       ELSE /\ Goto(r, "gate")
            /\ gates' = [gates EXCEPT ![reqs[r].gate].sending = @ + 1]
            /\ UNCHANGED flight
    /\ UNCHANGED <<worldVars, known>>

Leave(r) == gates' = [gates EXCEPT ![reqs[r].gate].sending = @ - 1]

Pass(r) ==
    /\ reqs[r].pc = "gate"
    /\ IF gates[reqs[r].gate].parked
       THEN End(r, "parked", 1) /\ Leave(r)
       ELSE /\ reqs' = [reqs EXCEPT ![r].pc = "wire", ![r].up = "none", ![r].srv = "none"]
            /\ UNCHANGED <<gates, flight>>
    /\ UNCHANGED <<worldVars, known>>

-----------------------------------------------------------------------------
(* The exchange: the body goes up, the server takes it, the answer or      *)
(* nothing comes back.                                                     *)

OnWire(r) == reqs[r].pc = "wire"

\* The body moves: begun, then handed on whole (Progress::finish).
Upload(r) ==
    /\ OnWire(r) /\ reqs[r].up # "ended"
    /\ \E to \in {"part", "ended"} : to # reqs[r].up /\ reqs' = [reqs EXCEPT ![r].up = to]
    /\ UNCHANGED <<worldVars, known, gates, flight>>

\* The server has the whole request and runs it, refuses it with 429, or
\* fails it; it may answer an error before it has it all.
Server(r) ==
    /\ OnWire(r) /\ reqs[r].srv = "none" /\ reqs[r].up # "none"
    /\ \E s \in {"ok", "429", "error"} :
          /\ s = "error" \/ reqs[r].up = "ended"
          /\ reqs' = [reqs EXCEPT ![r].srv = s, ![r].ran = @ + (IF s = "ok" THEN 1 ELSE 0)]
    /\ UNCHANGED <<worldVars, known, gates, flight>>

\* Mutant: whether the body had gone whole is not asked.
NoAnswerUnreachable(r) == IF reqs[r].kind = "origin" THEN "file" ELSE "unreachable"

\* What a request without an answer says: whether the server may have run it.
NoAnswer(r) ==
    IF reqs[r].kind = "origin" THEN "file"
    ELSE IF reqs[r].up = "ended" THEN "no_answer" ELSE "unreachable"

\* The connection fails, or one of the bounds passes: the idle one until the
\* body has ended, the response timeout after it.
Fails(r) ==
    /\ OnWire(r)
    /\ End(r, NoAnswer(r), 1) /\ Leave(r)
    /\ UNCHANGED <<worldVars, known>>

\* The client's body fails, or the scan fails it: the upstream request ends
\* incomplete.
BodyFails(r) ==
    /\ OnWire(r) /\ reqs[r].up # "ended" /\ reqs[r].kind \notin {"reply", "send"}
    /\ \/ End(r, "closed", 1)
       \/ reqs[r].kind = "upload" /\ End(r, "refused", 1)
    /\ Leave(r)
    /\ UNCHANGED <<worldVars, known>>

\* A reply's answer is counted; any other is relayed, and counted as its
\* body ends.
ReplyAnswered(r) == End(r, reqs[r].srv, 1)
Relayed(r) ==
    /\ reqs' = [reqs EXCEPT ![r].pc = "relay", ![r].ans = reqs[r].srv]
    /\ UNCHANGED flight

\* The answer's headers: a buffered request's first 429 is waited out.
Answer(r) ==
    /\ OnWire(r) /\ reqs[r].srv # "none" /\ Leave(r)
    /\ CASE reqs[r].kind = "reply" -> ReplyAnswered(r)
         [] reqs[r].kind = "send" /\ reqs[r].srv = "429" /\ ~reqs[r].again ->
               Goto(r, "flood") /\ UNCHANGED flight
         [] OTHER -> Relayed(r)
    /\ UNCHANGED <<worldVars, known>>

\* Call::flood: the 429's body is too long, breaks off, or asks for too long
\* a wait; else the call is admitted again and goes once more.
Flood(r) ==
    /\ reqs[r].pc = "flood"
    /\ \/ End(r, "429", 1)
       \/ End(r, "unreachable", 1)
       \/ /\ reqs' = [reqs EXCEPT ![r].pc = "admit", ![r].again = TRUE]
          /\ UNCHANGED flight
    /\ UNCHANGED <<worldVars, known, gates>>

\* Mutant: the tally counts a file from disk too.
TalliedAgain(r) == 1

\* What a Tally counts as its body ends: a file from disk was counted before.
Tallied(r) == IF reqs[r].kind = "disk" THEN 0 ELSE 1

\* learn_identity: a getMe's answer is read before it is passed on; whole,
\* it is remembered.
Learn(r) ==
    /\ reqs[r].kind = "getMe" /\ reqs[r].ans = "ok"
    /\ \/ End(r, "no_answer", Tallied(r)) /\ UNCHANGED known
       \/ End(r, "ok", Tallied(r)) /\ known' = known \cup {reqs[r].cell}

\* The relayed body ends, fails or is dropped.
Relay(r) ==
    /\ reqs[r].pc = "relay"
    /\ \/ End(r, reqs[r].ans, Tallied(r)) /\ UNCHANGED known
       \/ Learn(r)
    /\ UNCHANGED <<worldVars, gates>>

\* The client goes away and the handler's future is dropped where it waits.
\* A forwarded call is counted as it is dropped (Call::drop); there is none
\* while a file from disk is opened or an intercept reads its body.
ClientGone(r) ==
    /\ reqs[r].kind # "reply"
    /\ \/ /\ \/ reqs[r].pc \in {"prepare", "flood"}
             \/ reqs[r].pc = "go" /\ reqs[r].kind \in {"send", "upload"}
          /\ End(r, "gone", 1) /\ UNCHANGED gates
       \/ /\ reqs[r].pc = "wire"
          /\ End(r, "gone", 1) /\ Leave(r)
       \/ /\ reqs[r].pc = "disk"
          /\ End(r, "gone", 0) /\ UNCHANGED gates
       \/ /\ reqs[r].pc = "body"
          /\ Refuse(r, "gone", 0) /\ UNCHANGED gates
    /\ UNCHANGED <<worldVars, known>>

\* The dispatcher is forced, aborted or panics, and a reply's future is
\* dropped while it waits for its slot or for the answer.
ReplyDropped(r) ==
    /\ reqs[r].kind = "reply"
    /\ \/ reqs[r].pc = "go" /\ UNCHANGED gates
       \/ reqs[r].pc = "wire" /\ Leave(r)
    /\ End(r, "gone", 0)
    /\ UNCHANGED <<worldVars, known>>

-----------------------------------------------------------------------------
(* Reloads, moves, the drain.                                              *)

\* Engine::apply, with what it does to the consumer's runtime endpoint.
Apply ==
    /\ ~reload /\ plan.changes # <<>> /\ move # "parked"
    /\ LET change == Head(plan.changes)
           src == engine.id[1]
           tok == engine.id[2]
           to == CASE change = "rotate" -> [engine EXCEPT !.id = <<src, tok + 1>>]
                   [] change = "edit" -> engine
                   [] change = "unfeed" -> [engine EXCEPT !.fed = FALSE]
                   [] change = "remove" -> [engine EXCEPT !.on = FALSE]
                   [] change = "add" -> [engine EXCEPT !.on = TRUE, !.id = <<src + 1, tok>>]
           kept == to.on /\ to.fed /\ to.cap = to.id
       IN engine' = [to EXCEPT !.cap = IF kept THEN @ ELSE NoId]
    /\ reload' = TRUE
    /\ UNCHANGED <<plan, entry, known, gates, reqs, flight, move, drain>>

\* Mutant: the bot stays only while its token does.
StaysWithToken == entry.on /\ engine.on /\ entry.id = engine.id

\* The table and the config both have the bot.
Stays == entry.on /\ engine.on

\* Gateway::set_bots.  The entry keeps its identity while the token stays,
\* its gate while the bot stays.
SetBots ==
    /\ reload
    /\ LET fresh == Len(gates) + 1
       IN /\ entry' = [on |-> engine.on, id |-> engine.id,
                       cell |-> IF Stays /\ entry.id[2] = engine.id[2] THEN entry.cell
                                ELSE entry.cell + 1,
                       gate |-> IF Stays \/ ~engine.on THEN entry.gate ELSE fresh]
          /\ gates' = IF entry'.gate = fresh
                      THEN Append(gates, [parked |-> FALSE, sending |-> 0]) ELSE gates
    /\ reload' = FALSE
    /\ plan' = [plan EXCEPT !.changes = Tail(@)]
    /\ move' = IF engine.on THEN move ELSE "no"
    /\ UNCHANGED <<engine, known, reqs, flight, drain>>

\* Gateway::set_identity: the source's own getMe.
SetIdentity ==
    /\ entry.on /\ entry.cell \notin known
    /\ known' = known \cup {entry.cell}
    /\ UNCHANGED <<worldVars, gates, reqs, flight>>

\* A move parks the bot, waits until none of its calls is being sent, and
\* logs it out; a wait that times out parks nothing.
Park ==
    /\ plan.move /\ move = "no" /\ ~reload /\ entry.on
    /\ plan' = [plan EXCEPT !.move = FALSE]
    /\ gates' = [gates EXCEPT ![entry.gate].parked = TRUE]
    /\ move' = "parked"
    /\ UNCHANGED <<configVars, known, reqs, flight, drain>>

LogOut ==
    /\ move = "parked"
    /\ \/ gates[entry.gate].sending = 0 /\ move' = "out" /\ UNCHANGED gates
       \/ move' = "no" /\ gates' = [gates EXCEPT ![entry.gate].parked = FALSE]
    /\ UNCHANGED <<plan, configVars, known, reqs, flight, drain>>

\* Time: GATEWAY_QUIET passes since the last call began or ended.
QuietPasses ==
    /\ plan.drain
    /\ flight.recent \/ \E r \in Reqs : reqs[r].pc \in Ended /\ ~reqs[r].old
    /\ flight' = [flight EXCEPT !.recent = FALSE]
    /\ reqs' = [r \in Reqs |-> [reqs[r] EXCEPT !.old = reqs[r].pc \in Ended]]
    /\ UNCHANGED <<worldVars, known, gates>>

\* upstream_busy_at reads in_flight, then when a call last began or ended.
\* before: the calls begun by then and not ended GATEWAY_QUIET ago.
DrainLooks ==
    /\ plan.drain /\ drain.pc = "no" /\ flight.count = 0
    /\ drain' = [drain EXCEPT !.pc = "last",
                   !.before = {r \in Reqs : /\ Forwarded(r) /\ reqs[r].gate # 0
                                            /\ reqs[r].pc # "counted" /\ ~reqs[r].old}]
    /\ UNCHANGED <<plan, engine, entry, reload, move, known, gates, reqs, flight>>

DrainDecides ==
    /\ drain.pc = "last"
    /\ drain' = IF flight.recent
                THEN [pc |-> "no", before |-> {}, missed |-> {}]
                ELSE [drain EXCEPT !.pc = "quiet", !.missed = {r \in drain.before : ~reqs[r].old}]
    /\ UNCHANGED <<plan, engine, entry, reload, move, known, gates, reqs, flight>>

-----------------------------------------------------------------------------
Steps(r) ==
    \/ Stamp(r) \/ ServeFile(r) \/ ReadHook(r) \/ DropPending(r) \/ SetWebhook(r)
    \/ Prepare(r) \/ Reply(r) \/ Admit(r) \/ Enter(r) \/ Pass(r)
    \/ Upload(r) \/ Server(r) \/ Fails(r) \/ BodyFails(r) \/ Answer(r)
    \/ Flood(r) \/ Relay(r) \/ Closed(r)

Around ==
    \/ Apply \/ SetBots \/ SetIdentity
    \/ Park \/ LogOut
    \/ QuietPasses \/ DrainLooks \/ DrainDecides

Next ==
    \/ \E r \in Reqs : \/ Steps(r) \/ Posted(r) \/ ClientGone(r) \/ ReplyDropped(r)
                      \/ \E t \in {1, 2} : Arrive(r, t)
    \/ Around

Spec == Init /\ [][Next]_vars

-----------------------------------------------------------------------------
(* Properties.                                                             *)

\* How a call may end that no count tells of: it was no configured bot's; its
\* client left while the intercept read its body or its file was opened; or
\* it was a reply, dropped with its delivery.
Uncounted(kind, a) == a = "unknown" \/ (a = "gone" /\ kind \in {"hook", "disk", "reply"})

\* A call's outcome is counted once and only once, whichever of the handler,
\* the dropped call and the response body's tally ends it, a file whose body
\* is dropped half way included, unless it ends in one of the ways above;
\* then it is not counted at all (Call::count, Call::drop, Tally,
\* Download::drop, Gateway::handle).
CountedOnce ==
    \A r \in Reqs :
        /\ reqs[r].counts <= 1
        /\ reqs[r].pc \in Ended =>
              reqs[r].counts = IF Uncounted(reqs[r].kind, reqs[r].ans) THEN 0 ELSE 1

\* The server never runs a call twice for tgin's sake, and a client told that
\* the server is unreachable may send the call again: it has not run
\* (proxy.rs UNREACHABLE, Call::exchange, Call::flood).
SafeToRetry ==
    \A r \in Reqs : /\ reqs[r].ran <= 1
                     /\ reqs[r].ans = "unreachable" => reqs[r].ran = 0

\* Once a move has seen the bot's last call through, no call of it is on the
\* wire while it stays configured, through whatever reloads (Gate, set_bots).
\* A bot is told by its source's id: what is left of one that was removed
\* before has nothing to do with the move of the one added since.
QuietOnceOut ==
    move = "out" =>
        \A r \in Reqs : OnWire(r) => reqs[r].id[1] # entry.id[1]

\* A runtime endpoint, and the replies that come back from it, stay with the
\* token that set it: the consumer's endpoint is never one set with a token
\* the bot no longer has, whichever of setWebhook and the reload comes first,
\* and a reply goes out only with the token, and for the bot, that set the
\* endpoint (Engine::set_runtime_endpoint, keep_runtime_endpoints,
\* Gateway::run_reply, holds_token).
EndpointOfToken ==
    /\ engine.cap # NoId => engine.on /\ engine.fed /\ engine.cap = engine.id
    /\ \A r \in Reqs : OnWire(r) /\ reqs[r].bound # NoId => reqs[r].bound = reqs[r].id

\* The drain never takes the gateway for quiet while a call it could have
\* seen is in flight or ended less than GATEWAY_QUIET ago (Forwarding,
\* upstream_busy_at).
DrainWaits ==
    drain.pc = "quiet" => drain.missed = {}

=============================================================================
