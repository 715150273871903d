------------------------------- MODULE Config -------------------------------
(***************************************************************************)
(* Loading a configuration file (tgin-core config/): validate checks the   *)
(* file as written, resolve expands its references against the environment *)
(* and turns names into ids.  Both report errors on the side and go on:    *)
(* resolve leaves out what it cannot resolve and puts stand-ins where      *)
(* validation complained.  load returns the result only when neither       *)
(* reported anything.                                                      *)
(*                                                                         *)
(* A file is a record.  An option is a set of at most one element; a       *)
(* written text is [ref, of]: a literal, or a reference the environment    *)
(* expands.  A URL is [scheme, host, port] (scheme "" when it does not     *)
(* parse), an HTTP path the sequence of its segments.  Numbers and         *)
(* durations of a block are its `nums`, a function from setting to value.  *)
(* Settings that validate and resolve only pass on are left out.           *)
(***************************************************************************)
EXTENDS Integers, Sequences, FiniteSets, SequencesExt, Blocks

CONSTANTS
    ValidNames,     \* names valid_name accepts
    ValidTokens,    \* texts valid_bot_token accepts
    HeaderSafe,     \* texts header_safe_secret accepts
    OddSegments,    \* path segments a router or a URL would not keep as they are
    TokenSegments,  \* segments shaped bot<id>:
    RelativePaths   \* file paths without a root

Most == 100000

\* The values validate accepts of each number and duration.
Allowed ==
    [version |-> 1..1, debounce |-> 10..Most, connections |-> 1..Most, headerTimeout |-> 1..Most,
     capacity |-> 1..Most, leaseTimeout |-> 1..Most, maxInFlight |-> 1..Most, timeout |-> 1..Most,
     retry |-> 1..Most, threshold |-> 1..Most, response |-> 1..3600, pollTimeout |-> 1..Most,
     pollLimit |-> 1..100, idle |-> 1..Most, maxDelay |-> 0..60, maxWait |-> 0..60,
     count |-> 1..Most, per |-> 1..Most, burst |-> 1..Most]

InBounds(nums) == \A s \in DOMAIN nums : nums[s] \in Allowed[s]

-----------------------------------------------------------------------------
(* The file as it is read (model.rs): blocks with unknown or missing       *)
(* fields are no file at all.                                              *)

IsText(t) == DOMAIN t = {"ref", "of"} /\ t.ref \in BOOLEAN
IsOption(opt, Is(_)) == Cardinality(opt) <= 1 /\ \A x \in opt : Is(x)
IsList(list, Is(_)) == \A i \in DOMAIN list : Is(list[i])
AreSettings(nums, known) == DOMAIN nums \subseteq known /\ \A s \in DOMAIN nums : nums[s] \in Nat

IsEndpoint(e) ==
    /\ DOMAIN e = {"url", "secret", "nums"}
    /\ IsText(e.url) /\ IsOption(e.secret, IsText) /\ AreSettings(e.nums, {"timeout"})

QueueSettings == {"capacity", "leaseTimeout"}

IsPull(c) ==
    /\ c.kind = "pull" /\ AreSettings(c.queue, QueueSettings)
    /\ IsOption(c.auth, IsText) /\ IsList(c.aliases, IsText)
    /\ c.endpoints = <<>> /\ ~c.capture

\* retry, breaker and max_in_flight are its delivery.
IsPush(c) ==
    /\ c.kind = "push" /\ AreSettings(c.queue, QueueSettings \ {"leaseTimeout"})
    /\ AreSettings(c.delivery, {"retry", "threshold", "maxInFlight"})
    /\ IsList(c.endpoints, IsEndpoint)
    /\ c.capture \in BOOLEAN /\ c.reply \in {"execute", "ignore"}
    /\ c.auth = {} /\ c.aliases = <<>>

IsConsumer(c) ==
    /\ DOMAIN c = {"name", "kind", "queue", "capture", "auth", "aliases", "endpoints", "delivery", "reply"}
    /\ IsPull(c) \/ IsPush(c)

RECURSIVE IsTarget(_)
IsTarget(t) ==
    \/ t.to = "consumer" /\ DOMAIN t = {"to", "name"}
    \/ t.to = "all" /\ DOMAIN t = {"to", "among"} /\ IsList(t.among, IsTarget)
    \/ /\ t.to = "split" /\ DOMAIN t = {"to", "how", "among", "weights"}
       /\ t.how \in {"roundRobin", "hash", "weighted"} /\ IsList(t.among, IsTarget)
       /\ IsOption(t.weights, LAMBDA w : \A k \in DOMAIN w : w[k] \in Nat)

\* `matchers` says whether its patterns compile, `odd` holds its commands
\* that are none.
IsRoute(r) ==
    DOMAIN r = {"commands", "odd", "matchers", "to"} /\ r.matchers \in BOOLEAN /\ IsList(r.to, IsTarget)

IsLongPoll(g) ==
    g.kind = "poll" /\ DOMAIN g = {"kind", "nums"} /\ AreSettings(g.nums, {"pollTimeout", "pollLimit"})

IsWebhook(g) ==
    /\ g.kind = "hook"
    /\ DOMAIN g = {"kind", "path", "public", "register", "certificate", "connections", "allow", "secret"}
    /\ IsOption(g.path, IsText) /\ IsOption(g.public, IsText) /\ IsOption(g.secret, IsText)
    /\ IsOption(g.certificate, IsText) /\ IsOption(g.connections, LAMBDA n : n \in Nat)
    /\ g.register \in BOOLEAN /\ g.allow \in {"none", "telegram", "networks"}

IsRate(r) == AreSettings(r, {"count", "per", "burst"})

IsGateway(g) ==
    /\ DOMAIN g = {"nums", "rates", "mode", "methods"}
    /\ AreSettings(g.nums, {"idle", "maxDelay", "maxWait"})
    /\ DOMAIN g.rates = {"global", "chat", "group"} /\ \A b \in DOMAIN g.rates : IsRate(g.rates[b])
    /\ g.mode \in {"shape", "reject", "off"}

IsBot(b) ==
    /\ DOMAIN b = {"name", "token", "upstream", "api", "ingress", "gateway", "routes"}
    /\ IsText(b.token) /\ IsOption(b.api, IsText) /\ IsOption(b.upstream, LAMBDA n : TRUE)
    /\ IsOption(b.ingress, LAMBDA g : IsLongPoll(g) \/ IsWebhook(g))
    /\ IsGateway(b.gateway) /\ IsList(b.routes, IsRoute)

IsFiles(f) == DOMAIN f = {"dir", "url", "serverDir"} /\ \A k \in DOMAIN f : IsOption(f[k], IsText)

IsUpstream(u) ==
    /\ DOMAIN u = {"name", "kind", "url", "local", "files", "nums"}
    /\ u.kind \in {"cloud", "local"} /\ u.local \in BOOLEAN
    /\ IsText(u.url) /\ IsOption(u.files, IsFiles) /\ AreSettings(u.nums, {"response"})

IsServer(s) ==
    /\ DOMAIN s = {"listen", "tls", "nums"}
    /\ IsOption(s.tls, LAMBDA f : DOMAIN f = {"cert", "key"} /\ IsText(f.cert) /\ IsText(f.key))
    /\ AreSettings(s.nums, {"connections", "headerTimeout"})

\* `remote`: it listens beyond loopback.
IsAdmin(a) == DOMAIN a = {"listen", "remote", "token"} /\ a.remote \in BOOLEAN /\ IsOption(a.token, IsText)

\* What only the start of the process reads: runtime and log.
IsProcess(p) == DOMAIN p = {"threads", "format"} /\ p.threads \in Nat \ {0} /\ p.format \in {"text", "json"}

IsFile(f) ==
    /\ DOMAIN f = {"nums", "server", "admin", "process", "consumers", "upstreams", "bots"}
    /\ AreSettings(f.nums, {"version", "debounce"})
    /\ IsOption(f.server, IsServer) /\ IsAdmin(f.admin) /\ IsProcess(f.process)
    /\ IsList(f.consumers, IsConsumer) /\ IsList(f.upstreams, IsUpstream) /\ IsList(f.bots, IsBot)

-----------------------------------------------------------------------------
(* validate: checks that need no environment.                              *)

ConsumerValid(file, c) ==
    /\ c.name \in ValidNames
    /\ InBounds(c.queue)
    /\ c.kind = "pull" => file.server # {}
    /\ c.kind = "push" => /\ c.endpoints = <<>> => c.capture
                          /\ InBounds(c.delivery)
                          /\ \A i \in DOMAIN c.endpoints : InBounds(c.endpoints[i].nums)

\* `files` takes either; with neither, a server_dir is what is reported.
FilesShape(f) ==
    /\ f.dir = {} \/ f.url = {}
    /\ f.dir = {} /\ f.url = {} => f.serverDir # {}

FilesValid(f) == FilesShape(f) /\ (f.serverDir # {} => f.dir # {})

Shorthand == "api_url"

UpstreamValid(u) ==
    /\ u.name # Shorthand /\ u.name \in ValidNames
    /\ u.kind = "cloud" => ~u.local /\ u.files = {}
    /\ \A f \in u.files : FilesValid(f)
    /\ InBounds(u.nums)

UpstreamOf(file, bot) == {u \in ToSet(file.upstreams) : u.name \in bot.upstream}

\* Telegram's rules, unless the server is local and in local mode.
WebhookRules(file, bot) ==
    LET free == \E u \in UpstreamOf(file, bot) : u.kind = "local" /\ u.local
    IN [http |-> free, anyPort |-> free, connections |-> IF free THEN Most ELSE 100]

IngressValid(file, bot, g) ==
    IF g.kind = "poll" THEN InBounds(g.nums) ELSE
    /\ file.server # {}
    /\ g.register => g.public # {}
    /\ g.certificate # {} => g.register
    /\ \A m \in g.connections :
           /\ m \in 1..WebhookRules(file, bot).connections
           /\ m > 100 => \A s \in file.server : m <= s.nums.connections
    /\ g.allow = "telegram" => \A u \in UpstreamOf(file, bot) : u.kind # "local"

GatewayValid(g) ==
    /\ InBounds(g.nums) /\ \A b \in DOMAIN g.rates : InBounds(g.rates[b])
    /\ g.methods = {} => g.mode = "off"

BotUpstreamValid(file, bot) == bot.upstream # {} => bot.api = {} /\ UpstreamOf(file, bot) # {}

\* weights, for a split.
WeightsValid(t) ==
    IF t.weights = {} THEN t.how # "weighted" ELSE
    /\ t.how = "weighted"
    /\ \A w \in t.weights : Len(w) = Len(t.among) /\ \A k \in DOMAIN w : w[k] # 0

\* The consumers the targets name, known or not.
RECURSIVE Named(_)
Named(targets) ==
    UNION {IF targets[k].to = "consumer" THEN {targets[k].name} ELSE Named(targets[k].among) :
           k \in DOMAIN targets}

RECURSIVE SplitsValid(_)
SplitsValid(targets) ==
    \A k \in DOMAIN targets :
        /\ targets[k].to = "split" => WeightsValid(targets[k])
        /\ targets[k].to # "consumer" => SplitsValid(targets[k].among)

Feeds(bot) == UNION {Named(bot.routes[j].to) : j \in DOMAIN bot.routes}

BotValid(file, bot) ==
    /\ bot.name \in ValidNames
    /\ BotUpstreamValid(file, bot)
    /\ \A g \in bot.ingress : IngressValid(file, bot, g)
    /\ GatewayValid(bot.gateway)
    /\ \A j \in DOMAIN bot.routes : SplitsValid(bot.routes[j].to) /\ bot.routes[j].odd = {}
    /\ Feeds(bot) \subseteq NamesOf(file.consumers)

\* A consumer that serves one bot: whoever polls it, or sets its webhook,
\* gets or redirects everything it holds.
Exclusive(c) == c.kind = "pull" \/ c.capture

OwnersValid(file) ==
    \A c \in {x \in ToSet(file.consumers) : Exclusive(x)} :
        Cardinality({b.name : b \in {x \in ToSet(file.bots) : c.name \in Feeds(x)}}) <= 1

AdminValid(admin) == admin.remote => admin.token # {}

Validate(file) ==
    /\ InBounds(file.nums) /\ AdminValid(file.admin)
    /\ \A s \in file.server : InBounds(s.nums)
    /\ \A i \in DOMAIN file.consumers : ConsumerValid(file, file.consumers[i])
    /\ \A i \in DOMAIN file.upstreams : UpstreamValid(file.upstreams[i])
    /\ \A i \in DOMAIN file.bots : BotValid(file, file.bots[i])
    /\ Cardinality(NamesOf(file.bots)) = Len(file.bots)
    /\ OwnersValid(file)

-----------------------------------------------------------------------------
(* resolve: what each text means; an empty option was reported, unless     *)
(* said otherwise.                                                         *)

Expand(t, env) == IF t.ref THEN env[t.of] ELSE {t.of}

SecretOf(t, env) == Expand(t, env) \ {""}
HeaderSecret(t, env) == SecretOf(t, env) \cap HeaderSafe
BotToken(t, env) == SecretOf(t, env) \cap ValidTokens
FileOf(t, env) == Expand(t, env) \ {""}
UrlOf(t, env, schemes) == {u \in Expand(t, env) : u.scheme \in schemes}
Web == {"http", "https"}

\* An option of a text, through the reader `Of`.
Maybe(opt, env, Of(_, _)) == UNION {Of(t, env) : t \in opt}

\* Whether every text of `opt` could be read.
AllRead(opt, env, Of(_, _)) == \A t \in opt : Of(t, env) # {}

Kept(options) == LET s == SelectSeq(options, LAMBDA o : o # {}) IN [i \in DOMAIN s |-> CHOOSE x \in s[i] : TRUE]

EndpointOf(e, env) ==
    {[url |-> u, secret |-> Maybe(e.secret, env, HeaderSecret), timeout |-> e.nums] : u \in UrlOf(e.url, env, Web)}

ConsumerOf(c, env) ==
    [name |-> c.name, kind |-> c.kind, queue |-> c.queue, capture |-> c.capture,
     auth |-> Maybe(c.auth, env, SecretOf),
     aliases |-> Kept([i \in DOMAIN c.aliases |-> Expand(c.aliases[i], env)]),
     endpoints |-> Kept([i \in DOMAIN c.endpoints |-> EndpointOf(c.endpoints[i], env)]),
     delivery |-> c.delivery, reply |-> c.reply]

ConsumerReported(c, env) ==
    \/ ~AllRead(c.auth, env, SecretOf)
    \/ \E i \in DOMAIN c.endpoints : \/ EndpointOf(c.endpoints[i], env) = {}
                                     \/ ~AllRead(c.endpoints[i].secret, env, HeaderSecret)

\* files: a url, or a dir with the server's view of it, which is absolute.
\* Without either there is nothing to resolve, and nothing is reported here.
FilesOf(f, env) ==
    IF f.url # {} THEN {<<"url", u>> : u \in Maybe(f.url, env, LAMBDA t, e : UrlOf(t, e, Web))}
    ELSE UNION {{<<"dir", d, s>> : s \in IF f.serverDir = {} THEN {d}
                                         ELSE Maybe(f.serverDir, env, Expand) \ RelativePaths} :
                d \in Maybe(f.dir, env, FileOf)}

FilesReported(f, env) == FilesOf(f, env) = {} /\ (f.url # {} \/ f.dir # {})

ResponseDefault(kind) == IF kind = "cloud" THEN 60 ELSE 600

\* An upstream that fails to resolve is left out.
NamedUpstream(u, env) ==
    {[name |-> u.name, kind |-> u.kind, url |-> x, local |-> u.local, files |-> f,
      response |-> IF "response" \in DOMAIN u.nums THEN u.nums.response ELSE ResponseDefault(u.kind)] :
     x \in UrlOf(u.url, env, Web),
     f \in IF u.files = {} THEN {{}} ELSE UNION {{{y} : y \in FilesOf(g, env)} : g \in u.files}}

UpstreamReported(u, env) ==
    UrlOf(u.url, env, Web) = {} \/ \E f \in u.files : FilesReported(f, env)

UpstreamsOf(file, env) == UNION {NamedUpstream(u, env) : u \in ToSet(file.upstreams)}

DefaultApi == [scheme |-> "https", host |-> "telegram", port |-> 443]

\* The named upstream, or the bot's own; a name that did not resolve is
\* reported where the upstream is.
BotUpstream(bot, upstreams, env) ==
    IF bot.upstream # {} THEN {u \in upstreams : u.name \in bot.upstream} ELSE
    {[name |-> Shorthand, kind |-> "cloud", url |-> u, local |-> FALSE, files |-> {}, response |-> ResponseDefault("cloud")] :
     u \in IF bot.api = {} THEN {DefaultApi} ELSE Maybe(bot.api, env, LAMBDA t, e : UrlOf(t, e, Web))}

PublicUrl(t, env, rules) ==
    {u \in UrlOf(t, env, IF rules.http THEN Web ELSE {"https"}) : rules.anyPort \/ u.port \in {443, 80, 88, 8443}}

\* Every webhook has a path; one that cannot be expanded stands as empty.
PathOf(bot, g, env) ==
    IF g.path = {} THEN {<<"webhook", bot.name>>} ELSE Maybe(g.path, env, Expand)

IngressOf(file, bot, g, env) ==
    IF g.kind = "poll" THEN [kind |-> "poll", nums |-> g.nums] ELSE
    [kind |-> "hook", register |-> g.register, connections |-> g.connections, allow |-> g.allow,
     path |-> IF PathOf(bot, g, env) = {} THEN <<>> ELSE CHOOSE p \in PathOf(bot, g, env) : TRUE,
     public |-> Maybe(g.public, env, LAMBDA t, e : PublicUrl(t, e, WebhookRules(file, bot))),
     secret |-> Maybe(g.secret, env, HeaderSecret),
     certificate |-> Maybe(g.certificate, env, FileOf)]

IngressReported(file, bot, g, env) ==
    g.kind = "hook" /\ \/ PathOf(bot, g, env) = {}
                       \/ ~AllRead(g.public, env, LAMBDA t, e : PublicUrl(t, e, WebhookRules(file, bot)))
                       \/ ~AllRead(g.secret, env, HeaderSecret)
                       \/ ~AllRead(g.certificate, env, FileOf)

\* The stand-ins of a rejected rate.
RateOf(r) == [s \in DOMAIN r |-> IF s \in {"count", "burst"} /\ r[s] = 0 THEN 1 ELSE r[s]]
GatewayOf(g) == [g EXCEPT !.rates = [b \in DOMAIN @ |-> RateOf(@[b])]]

\* The stand-in of a consumer that does not exist.
Placeholder == MaxIds

Index(consumers, name) ==
    LET at == {i \in DOMAIN consumers : consumers[i].name = name}
    IN IF at = {} THEN Placeholder ELSE (CHOOSE i \in at : TRUE) - 1

\* target_spec, with a unit weight each in place of rejected weights.
RECURSIVE TargetOf(_, _)
TargetOf(consumers, t) ==
    IF t.to = "consumer" THEN [to |-> "consumer", id |-> Index(consumers, t.name)] ELSE
    LET among == [k \in DOMAIN t.among |-> TargetOf(consumers, t.among[k])]
        given == {w \in t.weights : Len(w) = Len(among) /\ \A k \in DOMAIN w : w[k] # 0}
    IN IF t.to = "all" THEN [to |-> "all", among |-> among]
       ELSE [to |-> "split", how |-> t.how, among |-> among,
             weights |-> IF t.how # "weighted" THEN <<>>
                         ELSE IF given = {} THEN [k \in DOMAIN among |-> 1] ELSE CHOOSE w \in given : TRUE]

\* The rule with its invalid commands (`odd`) left out.
RuleOf(consumers, r) ==
    [commands |-> r.commands, matchers |-> r.matchers, to |-> [k \in DOMAIN r.to |-> TargetOf(consumers, r.to[k])]]

RECURSIVE TargetCompiles(_)
TargetCompiles(t) ==
    t.to = "consumer" \/ (t.among # <<>> /\ \A k \in DOMAIN t.among : TargetCompiles(t.among[k]))

\* RouteTable::compile of one rule; `matchers` says whether its patterns compile.
RuleCompiles(r) == r.matchers /\ r.to # <<>> /\ \A k \in DOMAIN r.to : TargetCompiles(r.to[k])

\* A bot without a token or an upstream is left out.
BotOf(file, bot, upstreams, env) ==
    {[name |-> bot.name, token |-> t, upstream |-> u, gateway |-> GatewayOf(bot.gateway),
      ingress |-> {IngressOf(file, bot, g, env) : g \in bot.ingress},
      rules |-> [j \in DOMAIN bot.routes |-> RuleOf(file.consumers, bot.routes[j])]] :
     t \in BotToken(bot.token, env), u \in BotUpstream(bot, upstreams, env)}

BotReported(file, bot, env) ==
    \/ BotToken(bot.token, env) = {}
    \/ ~AllRead(bot.api, env, LAMBDA t, e : UrlOf(t, e, Web))
    \/ \E g \in bot.ingress : IngressReported(file, bot, g, env)
    \/ \E j \in DOMAIN bot.routes : ~RuleCompiles(RuleOf(file.consumers, bot.routes[j]))

\* Every HTTP path in the file, in the order it is added; each may be used once.
PathsOf(file, env) ==
    FlattenSeq([i \in DOMAIN file.consumers |->
                   [k \in DOMAIN file.consumers[i].aliases |-> Expand(file.consumers[i].aliases[k], env)]])
    \o FlattenSeq([i \in DOMAIN file.bots |->
                   SetToSeq({PathOf(file.bots[i], g, env) : g \in {x \in file.bots[i].ingress : x.kind = "hook"}})])

ReservedRoots == {"c", "mtproto", "v1", "livez", "readyz", "metrics"}

PathProblem(p) ==
    \/ p = <<>> \/ \E i \in DOMAIN p : p[i] \in OddSegments
    \/ p[1] \in ReservedRoots \cup TokenSegments
    \/ p[1] = "file" /\ Len(p) > 1 /\ p[2] \in TokenSegments

PathsReported(file, env) ==
    LET paths == PathsOf(file, env)
    IN \E i \in DOMAIN paths : \/ paths[i] = {} \/ \E p \in paths[i] : PathProblem(p)
                               \/ \E j \in 1..(i - 1) : paths[i] = paths[j]

Tokens(file, env) == [i \in DOMAIN file.bots |-> BotToken(file.bots[i].token, env)]

ServerReported(s, env) == \E f \in s.tls : FileOf(f.cert, env) = {} \/ FileOf(f.key, env) = {}

ServerOf(s, env) ==
    [listen |-> s.listen, nums |-> s.nums,
     tls |-> UNION {{<<c, k>> : c \in FileOf(f.cert, env), k \in FileOf(f.key, env)} : f \in s.tls}]

Reported(file, env) ==
    \/ \E i \in DOMAIN file.consumers : ConsumerReported(file.consumers[i], env)
    \/ \E i \in DOMAIN file.upstreams : UpstreamReported(file.upstreams[i], env)
    \/ \E i \in DOMAIN file.bots : BotReported(file, file.bots[i], env)
    \/ \E s \in file.server : ServerReported(s, env)
    \/ ~AllRead(file.admin.token, env, SecretOf)
    \/ PathsReported(file, env)
    \/ \E i, j \in DOMAIN file.bots : i < j /\ Tokens(file, env)[i] \cap Tokens(file, env)[j] # {}
    \/ Len(file.bots) > MaxIds \/ Len(file.consumers) > MaxIds

ResolveFile(file, env) ==
    LET upstreams == UpstreamsOf(file, env) IN
    [server |-> {ServerOf(s, env) : s \in file.server},
     admin |-> [listen |-> file.admin.listen, token |-> Maybe(file.admin.token, env, SecretOf)],
     process |-> file.process,
     upstreams |-> upstreams,
     consumers |-> [i \in DOMAIN file.consumers |-> ConsumerOf(file.consumers[i], env)],
     bots |-> Kept([i \in DOMAIN file.bots |-> BotOf(file, file.bots[i], upstreams, env)])]

\* load: the resolved file, if nothing was reported.
Load(file, env) == IF Validate(file) /\ ~Reported(file, env) THEN {ResolveFile(file, env)} ELSE {}

-----------------------------------------------------------------------------
(* What a loaded configuration is, without stand-ins.                      *)

\* A resolved target as its file would write it.
RECURSIVE WrittenTarget(_, _)
WrittenTarget(consumers, t) ==
    IF t.to = "consumer"
    THEN [to |-> "consumer", name |-> IF t.id < Len(consumers) THEN consumers[t.id + 1].name ELSE ""] ELSE
    LET among == [k \in DOMAIN t.among |-> WrittenTarget(consumers, t.among[k])]
    IN IF t.to = "all" THEN [to |-> "all", among |-> among]
       ELSE [to |-> "split", how |-> t.how, among |-> among,
             weights |-> IF t.how = "weighted" THEN {t.weights} ELSE {}]

FedBy(conf, name) ==
    {b \in ToSet(conf.bots) :
        \E j \in DOMAIN b.rules :
            name \in Named([k \in DOMAIN b.rules[j].to |-> WrittenTarget(conf.consumers, b.rules[j].to[k])])}

Same(list, other) == Len(list) = Len(other) /\ \A i \in DOMAIN list : list[i].name = other[i].name

\* Every bot stands, with the upstream, the rules and the rates it was written with.
BotsExact(file, conf) ==
    /\ Same(conf.bots, file.bots)
    /\ \A i \in DOMAIN file.bots :
           LET b == conf.bots[i]
               f == file.bots[i]
           IN /\ f.upstream # {} => b.upstream.name \in f.upstream
              /\ b.gateway = f.gateway
              /\ \A g \in b.ingress : g.kind = "hook" => g.path # <<>>
              /\ \A j \in DOMAIN f.routes :
                     [k \in DOMAIN f.routes[j].to |-> WrittenTarget(conf.consumers, b.rules[j].to[k])] = f.routes[j].to

\* Every consumer stands, with all its endpoints, their secrets and its aliases.
ConsumersExact(file, conf) ==
    /\ Same(conf.consumers, file.consumers)
    /\ \A i \in DOMAIN file.consumers :
           LET c == conf.consumers[i]
               f == file.consumers[i]
           IN /\ Len(c.aliases) = Len(f.aliases) /\ Cardinality(c.auth) = Cardinality(f.auth)
              /\ Len(c.endpoints) = Len(f.endpoints)
              /\ \A k \in DOMAIN f.endpoints : Cardinality(c.endpoints[k].secret) = Cardinality(f.endpoints[k].secret)
              /\ Exclusive(c) => Cardinality(FedBy(conf, c.name)) <= 1

Exact(file, conf) == BotsExact(file, conf) /\ ConsumersExact(file, conf)
=============================================================================
