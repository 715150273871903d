----------------------------- MODULE Generations -----------------------------
(***************************************************************************)
(* What a reload leaves running (tgin-core reload.rs, tgin data_server.rs  *)
(* and reload.rs).  Plan::build compares the new configuration with the    *)
(* one in effect and keeps, changes, revives or starts a consumer instance *)
(* for each name; commit applies it.  The data plane's routes are rebuilt  *)
(* after that, and keep serving the pull consumers that still drain.  What *)
(* the process sets up once is only reported.                              *)
(*                                                                         *)
(* The order of commit's steps against admissions and drains is Admission, *)
(* the sources of the bots Sources and Reloader, captured endpoints        *)
(* Gateway; here the settings each part runs with are kept.                *)
(***************************************************************************)
EXTENDS Integers, Sequences, FiniteSets, SequencesExt, Blocks

CONSTANTS
    Files,          \* the files the process may start with
    Changes,        \* the files a reload may find
    Environments,   \* what references may expand to when a file is loaded
    LoadFile(_, _), \* load (Config): a file in an environment, as an option of a configuration
    MaxReloads      \* bound: loads in a behaviour

VARIABLES
    conf,       \* the configuration in effect, once there is one
    written,    \* the file it was loaded from
    ids,        \* source_names: names by id, ids never reused
    sources,    \* the id of each bot of conf
    slots,      \* the instances, by <<name, generation>>: the settings each runs with
    targets,    \* the instance of each consumer of conf
    retired,    \* the instances that drain
    booted,     \* the settings the process was set up with
    report,     \* restart_required of the reloads since
    served,     \* what the router serves of the pull consumers: [auth, aliases]
    behind,     \* commit is done and the routes are not rebuilt yet
    loads,      \* how many loads were tried
    had         \* history: the auth and aliases each pull consumer last had

genVars == <<conf, written, ids, sources, slots, targets, retired, booted, report, served, behind, loads, had>>

-----------------------------------------------------------------------------
(* Plan::build                                                             *)

\* The settings the process sets up once.
SettingsOf(c) ==
    [listen |-> {s.listen : s \in c.server},
     connections |-> {s.nums.connections : s \in c.server},
     header |-> {s.nums.headerTimeout : s \in c.server},
     tls |-> \E s \in c.server : s.tls # {},
     admin |-> c.admin.listen, threads |-> c.process.threads, format |-> c.process.format]

RestartRequired(old, new) ==
    {s \in DOMAIN SettingsOf(new) : SettingsOf(old)[s] # SettingsOf(new)[s]}

\* A bot of the configuration in effect keeps its id; the others, one of an
\* earlier configuration too, take the next ids in file order.
NewBots(c) == {i \in DOMAIN c.bots : c.bots[i].name \notin DOMAIN sources}
Rank(i, S) == Cardinality({j \in S : j <= i})
NewIds(c) ==
    [k \in 1 .. Cardinality(NewBots(c)) |-> c.bots[CHOOSE i \in NewBots(c) : Rank(i, NewBots(c)) = k].name]
IdsOf(c) == ids \o NewIds(c)

\* options: what a push instance runs with besides its endpoints.
OptionsOf(c, names) == [delivery |-> c.delivery, reply |-> c.reply, names |-> names]

\* new_slot; an instance draining is given the same when it is revived.
NewSlot(c, names) ==
    [name |-> c.name, mode |-> c.kind, queue |-> c.queue,
     endpoints |-> c.endpoints, options |-> OptionsOf(c, names)]

\* What changes from the written settings `old` to `new`: new endpoints come
\* with new options, and a refresh brings new options alone.
Changed(slot, old, new, refresh, names) ==
    LET delivery == old.endpoints # new.endpoints \/ old.delivery # new.delivery
    IN [slot EXCEPT
           !.queue = IF old.queue # new.queue THEN new.queue ELSE @,
           !.endpoints = IF delivery THEN new.endpoints ELSE @,
           !.options = IF delivery \/ refresh THEN OptionsOf(new, names) ELSE @]

\* New bots alone do not reach the instances kept.
LiveChangeUnlessGrown(slot, old, new, grew, names) == Changed(slot, old, new, old.reply # new.reply, names)

\* live_change: new bots, or another webhook_reply, refresh the options.
LiveChange(slot, old, new, grew, names) == Changed(slot, old, new, grew \/ old.reply # new.reply, names)

ConsumerNamed(c, name) == {x \in ToSet(c.consumers) : x.name = name}

\* The instance of consumer x under the new configuration: the one its name
\* has, of the same mode; else one of its name and mode that drains; else its own.
InstanceOf(x, generation) ==
    LET same(s) == s[1] = x.name /\ slots[s].mode = x.kind
        current == {s \in {targets[n] : n \in DOMAIN targets} : same(s)}
        draining == {s \in retired : same(s)}
    IN CHOOSE s \in IF current # {} THEN current ELSE IF draining # {} THEN draining
                    ELSE {<<x.name, generation>>} : TRUE

\* What instance s of consumer x runs with from now on.
SlotOf(s, x, names) ==
    IF s \in {targets[n] : n \in DOMAIN targets}
    THEN LiveChange(slots[s], CHOOSE old \in UNION {ConsumerNamed(c, x.name) : c \in conf} : TRUE, x,
                    Len(names) # Len(ids), names)
    ELSE NewSlot(x, names)

-----------------------------------------------------------------------------
(* The data plane's routes.                                                *)

Pulls(c) == {x \in ToSet(c.consumers) : x.kind = "pull"}

AliasesOf(c) == UNION {{<<p, x.name>> : p \in ToSet(x.aliases)} : x \in Pulls(c)}

WebhookPaths(c) == UNION {{g.path : g \in {h \in b.ingress : h.kind = "hook"}} : b \in ToSet(c.bots)}

\* pull_consumer: the name has a pull instance, current or draining.
Drains(name) == \E s \in retired : s[1] = name /\ slots[s].mode = "pull"

\* served: the pull consumers of the configuration, plus those served before
\* that still drain, with their token and the aliases nothing else took.
Served(c, previous) ==
    LET current == {x.name : x \in Pulls(c)}
        kept == {n \in DOMAIN previous.auth \ current : Drains(n)}
    IN [auth |-> [n \in current \cup kept |->
                     IF n \in current THEN (CHOOSE x \in Pulls(c) : x.name = n).auth ELSE previous.auth[n]],
        aliases |-> AliasesOf(c) \cup
                    {a \in previous.aliases :
                        /\ a[2] \in kept
                        /\ a[1] \notin {b[1] : b \in AliasesOf(c)} \cup WebhookPaths(c)}]

NothingServed == [auth |-> <<>>, aliases |-> {}]

\* What each pull consumer of the configuration has, and what a former one
\* had, less the paths the configuration gives away.
HadOf(c) ==
    LET current == {x.name : x \in Pulls(c)}
        taken == {a[1] : a \in AliasesOf(c)} \cup WebhookPaths(c)
    IN [n \in current \cup DOMAIN had |->
           IF n \in current
           THEN [auth |-> (CHOOSE x \in Pulls(c) : x.name = n).auth, paths |-> {a[1] : a \in {b \in AliasesOf(c) : b[2] = n}}]
           ELSE [auth |-> had[n].auth, paths |-> had[n].paths \ taken]]

-----------------------------------------------------------------------------
(* The process.                                                            *)

\* What load takes care of: names are unique, and so are paths; without a
\* server there is neither a pull consumer nor a webhook.
Loadable(c) ==
    /\ c.consumers \in Seq(ToSet(c.consumers)) /\ c.bots \in Seq(ToSet(c.bots))
    /\ \A i, j \in DOMAIN c.consumers : c.consumers[i].name = c.consumers[j].name => i = j
    /\ \A i, j \in DOMAIN c.bots : c.bots[i].name = c.bots[j].name => i = j
    /\ \A a, b \in AliasesOf(c) : a[1] = b[1] => a = b
    /\ {a[1] : a \in AliasesOf(c)} \cap WebhookPaths(c) = {}
    /\ c.server = {} => Pulls(c) = {} /\ WebhookPaths(c) = {}

ASSUME LoadAssumption ==
    /\ \A f \in Files \cup Changes, env \in Environments : \A c \in LoadFile(f, env) : Loadable(c)
    /\ MaxReloads \in Nat

GenerationsInit ==
    /\ conf = {} /\ written = {} /\ ids = <<>> /\ sources = <<>> /\ slots = <<>> /\ targets = <<>> /\ retired = {}
    /\ booted = {} /\ report = {} /\ served = NothingServed /\ behind = FALSE /\ loads = 0 /\ had = <<>>

\* The engine takes configuration c, loaded from file f.
Commit(c, f) ==
    LET names == IdsOf(c)
        placed == [n \in NamesOf(c.consumers) |-> InstanceOf(CHOOSE x \in ConsumerNamed(c, n) : TRUE, loads)]
        used == {placed[n] : n \in DOMAIN placed}
    IN /\ Len(names) <= MaxIds
       /\ ids' = names
       /\ sources' = [n \in NamesOf(c.bots) |->
                         IF n \in DOMAIN sources THEN sources[n]
                         ELSE CHOOSE i \in DOMAIN names : i > Len(ids) /\ names[i] = n]
       /\ targets' = placed
       /\ retired' = (retired \cup {targets[n] : n \in DOMAIN targets}) \ used
       /\ slots' = [s \in used \cup retired' |->
                       IF s \in used THEN SlotOf(s, CHOOSE x \in ConsumerNamed(c, s[1]) : TRUE, names) ELSE slots[s]]
       /\ conf' = {c} /\ written' = {f} /\ had' = HadOf(c)

\* The first configuration, at start; the routes come with it.
Boot(f, env) ==
    /\ conf = {} /\ loads < MaxReloads
    /\ loads' = loads + 1
    /\ \E c \in LoadFile(f, env) :
           /\ Commit(c, f)
           /\ booted' = {SettingsOf(c)}
           /\ served' = IF c.server = {} THEN NothingServed ELSE Served(c, NothingServed)
    /\ UNCHANGED <<report, behind>>

\* A reload: rejected, or applied; its report says what needs a restart.
Reload(f, env) ==
    /\ conf # {} /\ ~behind /\ loads < MaxReloads
    /\ loads' = loads + 1
    /\ \E c \in LoadFile(f, env) :
           /\ Commit(c, f)
           /\ report' = report \cup UNION {RestartRequired(old, c) : old \in conf}
           /\ behind' = TRUE
    /\ UNCHANGED <<booted, served>>

\* The reload is rejected: the file does not load, or the ids are exhausted.
Rejected(f, env) ==
    /\ conf # {} /\ ~behind /\ loads < MaxReloads
    /\ \A c \in LoadFile(f, env) : Len(IdsOf(c)) > MaxIds
    /\ loads' = loads + 1
    /\ UNCHANGED <<conf, written, ids, sources, slots, targets, retired, booted, report, served, behind, had>>

\* DataRoutes::rebuild, if the process has a data plane and the configuration too.
Rebuild ==
    /\ behind /\ behind' = FALSE
    /\ \E c \in conf, b \in booted :
           served' = IF b.listen = {} \/ c.server = {} THEN served ELSE Served(c, served)
    /\ UNCHANGED <<conf, written, ids, sources, slots, targets, retired, booted, report, loads, had>>

\* A bot that was to move is resumed: the routes are rebuilt once more.
ResumeBot ==
    /\ ~behind /\ retired # {}
    /\ \E c \in conf, b \in booted :
           /\ b.listen # {} /\ c.server # {}
           /\ served' = Served(c, served)
    /\ UNCHANGED <<conf, written, ids, sources, slots, targets, retired, booted, report, behind, loads, had>>

\* A retired instance is empty, or its drain timed out.
Drained(s) ==
    /\ retired' = retired \ {s}
    /\ slots' = [x \in DOMAIN slots \ {s} |-> slots[x]]
    /\ UNCHANGED <<conf, written, ids, sources, targets, booted, report, served, behind, loads, had>>

GenerationsNext ==
    \/ \E f \in Files, env \in Environments : Boot(f, env)
    \/ \E f \in Changes, env \in Environments : Reload(f, env) \/ Rejected(f, env)
    \/ Rebuild
    \/ ResumeBot
    \/ \E s \in retired : Drained(s)

GenerationsSpec == GenerationsInit /\ [][GenerationsNext]_genVars

-----------------------------------------------------------------------------
(* Properties.                                                             *)

\* Every consumer has one instance, not a draining one, of its mode, that runs
\* with the settings written, and its deliveries know every bot's name.
InstancesAsWritten ==
    \A c \in conf : \A x \in ToSet(c.consumers) :
        LET s == slots[targets[x.name]]
        IN /\ targets[x.name] \notin retired
           /\ s = NewSlot(x, IF x.kind = "push" THEN ids ELSE s.options.names)

\* The ids of the bots configured are named for them, and are not those of an
\* earlier bot of the name: its updates may still be queued.
IdsKept ==
    \A c \in conf : \A n \in NamesOf(c.bots) :
        n \in DOMAIN sources /\ ids[sources[n]] = n /\ \A i \in DOMAIN ids : ids[i] = n => i <= sources[n]

\* What the process runs with is what is configured, or was reported.
RestartsReported ==
    \A c \in conf, b \in booted : \A s \in DOMAIN b : b[s] # SettingsOf(c)[s] => s \in report

\* Once rebuilt, the routes serve every pull consumer with its own token and
\* aliases, and every one that drains with what it had; no path has two
\* owners, which the router would not take.
RoutesAsWritten ==
    \A c \in conf, b \in booted :
        b.listen # {} /\ ~behind =>
            /\ \A x, y \in served.aliases : x[1] = y[1] => x = y
            /\ c.server # {} => {a[1] : a \in served.aliases} \cap WebhookPaths(c) = {}
            /\ \A n \in {x.name : x \in Pulls(c)} \cup {s[1] : s \in {r \in retired : slots[r].mode = "pull"}} :
                   /\ n \in DOMAIN served.auth /\ served.auth[n] = had[n].auth
                   /\ \A p \in had[n].paths : <<p, n>> \in served.aliases

\* After any sequence of reloads, drains and route rebuilds, the process runs
\* what its configuration says: consumer instances, ids, routes, and of the
\* settings set up once, those no reload reported (Plan::build, live_change,
\* restart_required, served).
ReloadComplete == InstancesAsWritten /\ IdsKept /\ RestartsReported /\ RoutesAsWritten
=============================================================================
