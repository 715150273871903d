------------------------------ MODULE Webhook ------------------------------
(***************************************************************************)
(* tgin-botapi's webhook ingress against the drain of the shutdown.  The   *)
(* Bot API server posts updates and posts each again until it gets a 200.  *)
(* The handler offers an update to the sink between looks at the ingest    *)
(* token, which the shutdown cancels on another thread; after that the     *)
(* shutdown looks whether anything is pending and closes.                  *)
(*                                                                         *)
(* The sink is the engine (Admission): one queue with room for HookRoom    *)
(* updates, and no consumer for those in Stray.  A posted head is [peer,   *)
(* lines, secret]: the TCP peer, the X-Forwarded-For lines, each a         *)
(* sequence of entries, and the secret header as an option.  An address is *)
(* [ip, mapped], mapped when it is written as IPv6; NoAddress does not     *)
(* parse.  The body is bytes that arrive, or fail to.                      *)
(***************************************************************************)
EXTENDS Integers, Sequences, FiniteSets, SequencesExt, Totals

CONSTANTS
    Posts,          \* the updates
    Stray,          \* those no rule matches
    Handlers,       \* requests under way at once
    Heads,          \* heads of requests
    Proxies,        \* opts.trusted_proxies, as canonical addresses
    AllowList,      \* opts.ip_allowlist: an option of a set; {} lets anyone post
    HookSecret,     \* opts.secret, an option
    HookRoom        \* bound: what the sink has room for

Address == [ip : STRING, mapped : BOOLEAN]
NoAddress == [ip |-> "none", mapped |-> FALSE]

\* to_canonical.
Canonical(address) == address.ip

\* A header line that is there has an entry, if only one that does not parse.
ASSUME HooksAssumption ==
    /\ IsFiniteSet(Posts) /\ HookRoom \in Nat
    /\ Canonical(NoAddress) \notin Proxies
    /\ \A head \in Heads : /\ head.peer \in Address
                           /\ FlattenSeq(head.lines) \in Seq(Address)
                           /\ head.lines = <<>> <=> FlattenSeq(head.lines) = <<>>

VARIABLES
    hook,           \* the requests: pc, the update and the status answered
    toPost,         \* the server: updates it has to post (again)
    acked,          \* the server got a 200 for these
    ingest,         \* the ingest token is cancelled
    held,           \* copies of each update not yet acked by the consumers
    delivered,      \* updates they acked
    shutdown        \* "no", "draining", "drained" or "graceSpent"

webhookVars == <<hook, toPost, acked, ingest, held, delivered, shutdown>>

Quiet == [pc |-> "none", update |-> 0, status |-> 0, fit |-> TRUE]

WebhookInit ==
    /\ hook = [h \in Handlers |-> Quiet]
    /\ toPost = Posts /\ acked = {} /\ delivered = {}
    /\ held = [u \in Posts |-> 0]
    /\ ingest = FALSE /\ shutdown = "no"

-----------------------------------------------------------------------------
(* Who may post.                                                           *)

\* forwarded_client: the lines as one list, read from its end up to the
\* first entry that is not a proxy or not an address; {} for the latter.
ForwardedClient(lines) ==
    LET entries == FlattenSeq(lines)
        told == {i \in DOMAIN entries : entries[i] = NoAddress \/ Canonical(entries[i]) \notin Proxies}
        from == IF told = {} THEN 1 ELSE CHOOSE i \in told : \A j \in told : j <= i
    IN IF entries[from] = NoAddress THEN {} ELSE {Canonical(entries[from])}

\* client_ip: the peer, or who a trusted peer says it posts for.
ClientIp(head) ==
    LET peer == Canonical(head.peer)
    IN IF peer \notin Proxies \/ head.lines = <<>> THEN {peer} ELSE ForwardedClient(head.lines)

AddressAllowed(head) == \A ips \in AllowList : ClientIp(head) \cap ips # {}
SecretMatches(head) == HookSecret = {} \/ head.secret = HookSecret

-----------------------------------------------------------------------------
(* handle.                                                                 *)

AnsweredWith(h, status) == hook' = [hook EXCEPT ![h].pc = "answer", ![h].status = status]

\* The way the update came, from the peer back: the client is the first on
\* it that is no proxy.
CameFrom(head) ==
    LET way == Reverse(Append(FlattenSeq(head.lines), head.peer))
        strangers == {i \in DOMAIN way : way[i].ip \notin Proxies}
        last == IF strangers = {} THEN Len(way) ELSE CHOOSE i \in strangers : \A j \in strangers : i <= j
    IN way[last]

\* The checks on the head.
Post(h, u, head) ==
    /\ hook[h].pc = "none" /\ u \in toPost
    /\ toPost' = toPost \ {u}
    /\ hook' = [hook EXCEPT ![h] =
           [update |-> u, fit |-> \A ips \in AllowList : CameFrom(head).ip \in ips,
            pc |-> IF AddressAllowed(head) /\ SecretMatches(head) /\ ~ingest THEN "body" ELSE "answer",
            status |-> IF ~AddressAllowed(head) THEN 403 ELSE IF ~SecretMatches(head) THEN 401 ELSE 503]]
    /\ UNCHANGED <<acked, ingest, held, delivered, shutdown>>

\* read_body and extract: a body too large, broken off or not an update is
\* refused.
ReadBody(h) ==
    /\ hook[h].pc = "body"
    /\ \/ \E status \in {413, 400} : AnsweredWith(h, status)
       \/ hook' = [hook EXCEPT ![h].pc = "read"]
    /\ UNCHANGED <<toPost, acked, ingest, held, delivered, shutdown>>

\* Reading awaited: ingest is looked at again.
LookAgain(h) ==
    /\ hook[h].pc = "read"
    /\ IF ingest THEN AnsweredWith(h, 503) ELSE hook' = [hook EXCEPT ![h].pc = "admit"]
    /\ UNCHANGED <<toPost, acked, ingest, held, delivered, shutdown>>

\* Engine::pending.
Pending == Total(held)

\* sink.admit, and the answers that need no further look.
Offer(h) ==
    /\ hook[h].pc = "admit"
    /\ LET u == hook[h].update
       IN \/ u \in Stray /\ AnsweredWith(h, 200) /\ UNCHANGED held
          \/ u \notin Stray /\ Pending >= HookRoom /\ AnsweredWith(h, 503) /\ UNCHANGED held
          \/ /\ u \notin Stray /\ Pending < HookRoom
             /\ held' = [held EXCEPT ![u] = @ + 1]
             /\ hook' = [hook EXCEPT ![h].pc = "admitted"]
    /\ UNCHANGED <<toPost, acked, ingest, delivered, shutdown>>

\* Mutant: an admitted update is acknowledged without another look.
AcknowledgeAtOnce(h) ==
    /\ hook[h].pc = "admitted"
    /\ AnsweredWith(h, 200)
    /\ UNCHANGED <<toPost, acked, ingest, held, delivered, shutdown>>

\* Only while ingest still runs after the commit is the update acknowledged.
Acknowledge(h) ==
    /\ hook[h].pc = "admitted"
    /\ AnsweredWith(h, IF ingest THEN 503 ELSE 200)
    /\ UNCHANGED <<toPost, acked, ingest, held, delivered, shutdown>>

-----------------------------------------------------------------------------
(* The server, the consumers and the shutdown.                             *)

\* The server gets the answer, or the connection breaks while the body is
\* read or the answer sent; without a 200 it posts the update again.
Answered(h) ==
    /\ hook[h].pc \in {"body", "answer"}
    /\ hook' = [hook EXCEPT ![h] = Quiet]
    /\ LET u == hook[h].update
       IN \/ hook[h].pc = "answer" /\ hook[h].status = 200
             /\ acked' = acked \cup {u} /\ UNCHANGED toPost
          \/ toPost' = toPost \cup {u} /\ UNCHANGED acked
    /\ UNCHANGED <<ingest, held, delivered, shutdown>>

\* A consumer acks a copy, until the shutdown stops it.
Deliver(u) ==
    /\ held[u] > 0 /\ shutdown \in {"no", "draining"}
    /\ held' = [held EXCEPT ![u] = @ - 1]
    /\ delivered' = delivered \cup {u}
    /\ UNCHANGED <<hook, toPost, acked, ingest, shutdown>>

\* App::shutdown after the lame duck: ingest off, then the drain ...
IngestOff ==
    /\ ~ingest
    /\ ingest' = TRUE /\ shutdown' = "draining"
    /\ UNCHANGED <<hook, toPost, acked, held, delivered>>

\* ... whose last look finds nothing pending, or whose grace is spent.
CloseHooks ==
    /\ shutdown = "draining"
    /\ \/ Pending = 0 /\ shutdown' = "drained"
       \/ shutdown' = "graceSpent"
    /\ UNCHANGED <<hook, toPost, acked, ingest, held, delivered>>

WebhookNext ==
    \/ \E h \in Handlers : \/ \E u \in toPost, head \in Heads : Post(h, u, head)
                           \/ ReadBody(h) \/ LookAgain(h) \/ Offer(h) \/ Acknowledge(h) \/ Answered(h)
    \/ \E u \in Posts : Deliver(u)
    \/ IngestOff \/ CloseHooks

WebhookSpec == WebhookInit /\ [][WebhookNext]_webhookVars

-----------------------------------------------------------------------------
\* What the Bot API server was told 200 for, or is about to be, it forgets:
\* a drain that ends with nothing pending has delivered all of it, however
\* the handlers' steps and the shutdown's fall (webhook.rs handle).  And an
\* update gets past the head only from an address of the allowlist, the
\* nearest on its way that is not a trusted proxy (client_ip).
AcknowledgedDelivered ==
    /\ shutdown = "drained" =>
           acked \cup {hook[h].update : h \in {x \in Handlers : hook[x].status = 200}} \subseteq delivered \cup Stray
    /\ \A h \in Handlers : hook[h].pc \in {"body", "read", "admit", "admitted"} => hook[h].fit
=============================================================================
