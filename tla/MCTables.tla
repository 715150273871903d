------------------------------ MODULE MCTables ------------------------------
(***************************************************************************)
(* TLC model of five parts that share nothing: the rate limits (Limiter),  *)
(* the rules (Routing), the local-file guard (Scan), the webhook ingress   *)
(* (Webhook), and loading (Config) and reloading (Generations) a           *)
(* configuration.                                                          *)
(* Each behaviour runs one of them; the others keep their first state.     *)
(***************************************************************************)
EXTENDS Limiter, Routing, Scan, Webhook, Config, Generations

VARIABLE part

-----------------------------------------------------------------------------
(* Limiter: three requests, two to a group chat.                           *)

MCChatOf == [r \in Requests |-> IF r = 3 THEN "d" ELSE "c"]
MCCount == [global |-> 1, chat |-> 1, group |-> 1]
MCPer == [global |-> 2, chat |-> 3, group |-> 2]
MCBurst == [global |-> 2, chat |-> 1, group |-> 2]

-----------------------------------------------------------------------------
(* Routing: two rule sets and updates that tell their rules apart.  A      *)
(* character is plain of a byte, escaped, or of two bytes.                 *)

U(c) == [c |-> c, w |-> 1, esc |-> FALSE]
Esc(c) == [c |-> c, w |-> 1, esc |-> TRUE]
Wide(c) == [c |-> c, w |-> 2, esc |-> FALSE]
F(key, val) == [key |-> key, esc |-> FALSE, val |-> val]
Obj(f) == [k |-> "obj", v |-> f]
Num(n) == [k |-> "int", v |-> n]
Txt(s) == [k |-> "str", v |-> s]
Chat(n, t) == F("chat", Obj(<<F("id", Num(n)), F("type", [k |-> "type", v |-> t])>>))
Id == F("update_id", Num(7))
Up(type, fields) == <<Id, F(type, Obj(fields))>>

MCUpdates == {
    Up("message", <<Chat(5, "group"), F("text", Txt(<<Esc("/"), U("A"), U(" "), U("b")>>))>>),
    Up("message", <<F("from", Obj(<<F("id", Num(2))>>)), F("text", Txt(<<U("/"), U("a"), U("@"), U("z")>>))>>),
    Up("message", <<Chat(4, "private"), F("caption", Txt(<<U("b"), U("c"), U("x"), Wide("c")>>))>>),
    \* Both texts are escaped, and the chat is the message's.
    Up("callback_query", <<F("data", Txt(<<Esc("c"), U("b")>>)), F("text", Txt(<<U("b"), Esc("b")>>)),
                           F("message", Obj(<<Chat(6, "new")>>))>>),
    \* An escaped name that is not known, then one that is.
    <<[key |-> "later", esc |-> TRUE, val |-> Obj(<<>>)], [key |-> "message", esc |-> TRUE, val |-> Obj(<<>>)], Id>>}

Rule == [types |-> {}, chats |-> {}, kinds |-> {}, users |-> {}, commands |-> {}, text |-> {}, data |-> {}, targets |-> <<>>]
To(id) == [to |-> "consumer", id |-> id]
All(t) == [to |-> "all", among |-> t]
Split(how, t, w) == [to |-> "split", how |-> how, among |-> t, weights |-> w]
RegexOf(list) == {[how |-> "regex", list |-> list]}

MCRuleSets == <<
    <<[Rule EXCEPT !.commands = {<<"a">>, <<"a", "b">>}, !.targets = <<Split("weighted", <<To(1), To(2)>>, <<4, 2>>)>>],
      [Rule EXCEPT !.text = RegexOf(<<"x">>), !.kinds = {"private"}, !.targets = <<To(1), All(<<To(2), To(1)>>)>>],
      [Rule EXCEPT !.text = RegexOf(<<"b">>), !.data = RegexOf(<<"x", "c">>),
                   !.targets = <<Split("hash", <<To(3), Split("hash", <<To(1), To(2)>>, <<>>)>>, <<>>)>>],
      [Rule EXCEPT !.types = {"message"}, !.users = {2}, !.targets = <<To(3)>>]>>,
    <<[Rule EXCEPT !.data = RegexOf(<<"b">>), !.text = {[how |-> "prefix", list |-> <<<<"b">>>>]}, !.targets = <<To(2)>>],
      [Rule EXCEPT !.text = RegexOf(<<"c", "x">>), !.targets = <<Split("roundRobin", <<To(1), To(3)>>, <<>>), To(1)>>],
      [Rule EXCEPT !.text = {[how |-> "equals", list |-> <<<<"b", "b">>>>]}, !.targets = <<To(3)>>],
      [Rule EXCEPT !.chats = {5}, !.targets = <<Split("hash", <<To(1), To(2)>>, <<>>)>>],
      [Rule EXCEPT !.targets = <<To(1)>>]>>>>

-----------------------------------------------------------------------------
(* Scan: bodies put together from the pieces the scanners tell apart.      *)

Words(words, n) == {FlattenSeq(ws) : ws \in UNION {[1 .. k -> words] : k \in 0 .. n}}
Dash == <<"-">>
Part == <<"-", "-", "-", "b">>
End == <<"\r", "\n">> \o Part
MCBodies == [
  json |-> {<<"'">> \o w : w \in Words({<<"'">>, <<"f">>, <<":">>, <<"\\">>, <<"[">>, <<"u", "6">>, <<"6">>}, 4)}
           \cup {<<"'", "[", "\\", "'">> \o w : w \in Words({<<"f", ":">>, <<"[">>, <<"\\", "\\", "u", "6", "6", ":">>, <<"\\", "'", "f">>}, 2)},
  form |-> Words({<<"=">>, <<"f", ":">>, <<"%", "6">>, <<"6", ":">>, <<"&">>, <<"[", "'">>, <<"+">>}, 4),
  multipart |->
    {pre \o Part \o <<"\r", "\n">> \o head \o Blank \o text \o End \o <<"-", "-", "f">> :
        pre \in {<<>>, Dash}, head \in {<<"N">>, <<"F">>, <<"N", "\r", "\n", "T">>, <<"X">>},
        text \in Words({<<"f", ":">>, <<"\r", "\n", "-">>, <<"=", "%", "6", "6">>}, 2)}
    \cup {Part \o <<"\r", "\n", "N">> \o Blank \o End \o rest :
        rest \in {<<>>, <<"-">>, <<"\r", "\n", "N">> \o Blank \o <<"f", ":">> \o End \o <<"-", "-">>,
                  <<"-", "\n", "F">> \o Blank \o <<"f", ":">> \o End \o <<"-", "-">>}}]
MCPrefix == <<"f", ":">>
MCBoundary == <<"-", "b">>

-----------------------------------------------------------------------------
(* Webhook: Telegram (t) posts by way of a proxy (p) or on its own; others *)
(* (x) post too, also by way of the proxy.                                 *)

Ip(a, mapped) == [ip |-> a, mapped |-> mapped]
Entries == {Ip("t", FALSE), Ip("p", TRUE), Ip("x", FALSE), NoAddress}
ForwardedFor == {<<>>} \cup {<<e>> : e \in SeqOf(Entries, 2) \ {<<>>}} \cup {<<<<e>>, <<f, g>>>> : e, f, g \in Entries}
MCHeads ==
    {[peer |-> p, lines |-> l, secret |-> {"k"}] : p \in {Ip("t", TRUE), Ip("p", FALSE), Ip("x", FALSE)}, l \in ForwardedFor}
    \cup {[peer |-> Ip("t", FALSE), lines |-> <<>>, secret |-> {}]}
MCAllowList == {{"t"}}

-----------------------------------------------------------------------------
(* Generations.                                                            *)

Lit(v) == [ref |-> FALSE, of |-> v]
Ref(v) == [ref |-> TRUE, of |-> v]
Url(scheme, port) == [scheme |-> scheme, host |-> "host", port |-> port]
Target(n) == [to |-> "consumer", name |-> n]
SplitTo(how, list, w) == [to |-> "split", how |-> how, among |-> list, weights |-> w]
AllOf(list) == [to |-> "all", among |-> list]
Route(to) == [commands |-> {}, odd |-> {}, matchers |-> TRUE, to |-> to]

PullC(name, cap, auth, aliases) ==
    [name |-> name, kind |-> "pull", queue |-> [capacity |-> cap, leaseTimeout |-> 120], capture |-> FALSE, auth |-> auth,
     aliases |-> aliases, endpoints |-> <<>>, delivery |-> [retry |-> 1], reply |-> "execute"]
PushC(name, cap, eps, retry, reply, capture) ==
    [name |-> name, kind |-> "push", queue |-> [capacity |-> cap], capture |-> capture, auth |-> {}, aliases |-> <<>>,
     endpoints |-> eps, delivery |-> [retry |-> retry, maxInFlight |-> 8], reply |-> reply]
Ep(scheme, secret) == [url |-> Lit(Url(scheme, 443)), secret |-> secret, nums |-> [timeout |-> 10]]

Limits(count, mode, methods) ==
    [nums |-> [idle |-> 60, maxDelay |-> 5, maxWait |-> 10], rates |-> [b \in {"global", "chat", "group"} |-> [count |-> count, per |-> 1, burst |-> 1]],
     mode |-> mode, methods |-> methods]
BotF(name, token, up, ingress, routes) ==
    [name |-> name, token |-> token, upstream |-> up, api |-> {}, ingress |-> ingress,
     gateway |-> Limits(30, "shape", {"send"}), routes |-> routes]
Poll == [kind |-> "poll", nums |-> [pollTimeout |-> 30, pollLimit |-> 100]]
Hook(path, public) ==
    [kind |-> "hook", path |-> path, public |-> public, register |-> public # {}, certificate |-> {},
     connections |-> {}, allow |-> "none", secret |-> {}]
ServerF(listen, tls) == {[listen |-> listen, tls |-> tls, nums |-> [connections |-> 200, headerTimeout |-> 10]]}
File(server, consumers, upstreams, bots) ==
    [nums |-> [version |-> 1, debounce |-> 500], server |-> server,
     admin |-> [listen |-> 1, remote |-> FALSE, token |-> {}], process |-> [threads |-> 1, format |-> "text"],
     consumers |-> consumers, upstreams |-> upstreams, bots |-> bots]

\* Files as operators write them, with at most one thing wrong in each block.
LocalUp(f) == [name |-> "l", kind |-> "local", url |-> Lit(Url("http", 8081)), local |-> TRUE, files |-> f, nums |-> <<>>]
NoFiles == [dir |-> {}, url |-> {}, serverDir |-> {}]
FileChoices ==
    {{}, {[NoFiles EXCEPT !.dir = {Lit("d")}]}, {[NoFiles EXCEPT !.url = {Lit(Url("http", 80))}]},
     {NoFiles}, {[NoFiles EXCEPT !.serverDir = {Lit("/s")}]},
     {[NoFiles EXCEPT !.dir = {Lit("d")}, !.serverDir = {Lit("relative")}]},
     {[NoFiles EXCEPT !.dir = {Lit("d")}, !.serverDir = {Lit("/s")}]},
     {[NoFiles EXCEPT !.dir = {Lit("d")}, !.url = {Lit(Url("http", 80))}]},
     {[NoFiles EXCEPT !.url = {Lit(Url("ftp", 21))}]}}
UpstreamChoices ==
    {<<>>} \cup {<<LocalUp(f)>> : f \in FileChoices}
    \cup {<<[LocalUp({}) EXCEPT !.kind = "cloud"]>>, <<[LocalUp({}) EXCEPT !.name = "api_url"]>>,
          <<[LocalUp({}) EXCEPT !.kind = "cloud", !.local = FALSE, !.nums = [response |-> 0]]>>,
          <<[LocalUp({}) EXCEPT !.url = Ref("gone")]>>}
ConsumerChoices ==
    {<<PushC("p", 1, <<Ep("https", {Ref("key")}), Ep("http", {})>>, 1, "execute", FALSE), PullC("q", 1, {Ref("key")}, <<Lit(<<"x">>)>>)>>,
     <<PushC("p", 1, <<>>, 1, "execute", TRUE)>>, <<PushC("p", 1, <<>>, 1, "execute", FALSE)>>,
     <<PushC("p", 1, <<Ep("ftp", {})>>, 1, "ignore", FALSE)>>, <<PushC("p", 1, <<Ep("https", {Ref("gone")})>>, 1, "ignore", FALSE)>>,
     <<PullC("p", 0, {}, <<>>)>>, <<PullC("p", 1, {Ref("gone")}, <<>>)>>,
     <<PullC("p", 1, {}, <<Lit(<<"webhook", "a">>)>>)>>, <<PullC("p", 1, {}, <<Lit(<<"c", "p">>)>>)>>,
     <<PullC("p", 1, {}, <<Lit(<<"file", "bot1:">>), Lit(<<"x">>)>>)>>, <<PullC("p", 1, {}, <<Lit(<<"x">>), Lit(<<"x">>)>>)>>,
     <<PullC("p", 1, {}, <<>>), PullC("q", 1, {}, <<>>), PullC("r", 1, {}, <<>>), PullC("s", 1, {}, <<>>), PullC("t", 1, {}, <<>>)>>}
RouteChoices ==
    {<<Route(<<Target("p")>>)>>, <<Route(<<Target("gone")>>)>>, <<Route(<<>>)>>,
     <<Route(<<SplitTo("weighted", <<Target("p"), AllOf(<<Target("p")>>)>>, {<<2, 1>>})>>)>>,
     <<Route(<<SplitTo("weighted", <<Target("p"), Target("p")>>, {<<2, 0>>})>>)>>,
     <<Route(<<SplitTo("weighted", <<Target("p")>>, {<<1, 1>>})>>)>>,
     <<Route(<<SplitTo("weighted", <<Target("p")>>, {})>>)>>, <<Route(<<SplitTo("hash", <<Target("p")>>, {<<1>>})>>)>>,
     <<Route(<<AllOf(<<>>)>>)>>, <<[Route(<<Target("p")>>) EXCEPT !.odd = {"a@b"}]>>, <<[Route(<<Target("p")>>) EXCEPT !.matchers = FALSE]>>}
A == BotF("a", Ref("token"), {}, {Poll}, <<Route(<<Target("p")>>)>>)
BotChoices ==
    {<<A>>, <<[A EXCEPT !.upstream = {"l"}]>>, <<[A EXCEPT !.upstream = {"l"}, !.api = {Lit(Url("https", 443))}]>>,
     <<[A EXCEPT !.token = Ref("gone")]>>, <<[A EXCEPT !.token = Lit("bad token")]>>, <<[A EXCEPT !.api = {Lit(Url("", 0))}]>>,
     <<[A EXCEPT !.gateway = Limits(0, "off", {})]>>, <<[A EXCEPT !.gateway = Limits(30, "shape", {})]>>,
     <<[A EXCEPT !.ingress = {Hook({}, {})}]>>,
     <<[A EXCEPT !.upstream = {"l"}, !.ingress = {[Hook({Ref("gone")}, {Lit(Url("http", 90))}) EXCEPT !.connections = {150}]}]>>,
     <<[A EXCEPT !.upstream = {"l"}, !.ingress = {[Hook({}, {Lit(Url("http", 90))}) EXCEPT !.connections = {201}]}]>>,
     <<[A EXCEPT !.upstream = {"l"}, !.ingress = {[Hook({}, {Lit(Url("http", 90))}) EXCEPT !.connections = {150}]}]>>,
     <<[A EXCEPT !.ingress = {[Hook({}, {Lit(Url("https", 443))}) EXCEPT !.connections = {101}]}]>>,
     <<[A EXCEPT !.ingress = {Hook({}, {Lit(Url("http", 80))})}]>>, <<[A EXCEPT !.ingress = {Hook({}, {Lit(Url("https", 90))})}]>>,
     <<[A EXCEPT !.upstream = {"l"}, !.ingress = {[Hook({}, {}) EXCEPT !.allow = "telegram"]}]>>,
     <<[A EXCEPT !.ingress = {[Hook({}, {}) EXCEPT !.register = TRUE]}]>>,
     <<[A EXCEPT !.ingress = {[Hook({}, {}) EXCEPT !.certificate = {Lit("f")}]}]>>,
     <<A, [A EXCEPT !.name = "b"]>>, <<A, [A EXCEPT !.token = Lit("u")]>>, <<[A EXCEPT !.name = "B"]>>,
     <<A, BotF("b", Lit("u"), {}, {}, <<Route(<<Target("p")>>)>>)>>, <<A, BotF("b", Lit("u"), {}, {}, <<>>)>>}
    \cup {<<[A EXCEPT !.routes = r]>> : r \in RouteChoices}
Tls(cert) == {[cert |-> cert, key |-> Lit("k")]}
ServerChoices == {{}, ServerF(1, {}), ServerF(1, Tls(Ref("gone")))}
Plain == File(ServerF(1, {}), <<PushC("p", 1, <<Ep("https", {Ref("key")}), Ep("http", {})>>, 1, "execute", FALSE)>>, <<>>, <<A>>)
\* Any two blocks of the plain file written in any of their ways.
Broad ==
    {[Plain EXCEPT !.server = s, !.consumers = c] : s \in ServerChoices, c \in ConsumerChoices}
    \cup {[Plain EXCEPT !.server = s, !.bots = b] : s \in ServerChoices, b \in BotChoices}
    \cup {[Plain EXCEPT !.upstreams = u, !.bots = b] : u \in UpstreamChoices, b \in BotChoices}
    \cup {[Plain EXCEPT !.consumers = c, !.bots = b] : c \in ConsumerChoices, b \in BotChoices}
    \cup {[Plain EXCEPT !.admin.remote = TRUE], [Plain EXCEPT !.nums.debounce = 5]}

\* Files an operator goes through, one reload after another.
Eps == <<Ep("https", {})>>
P(retry, reply) == PushC("p", 1, Eps, retry, reply, FALSE)
Q(auth, alias) == PullC("q", 1, {Lit(auth)}, <<Lit(<<alias>>)>>)
B(n) == BotF(n, Lit("u"), {}, {Poll}, <<>>)
W(n, path) == BotF(n, Ref("token"), {}, {Hook({Lit(<<path>>)}, {})}, <<>>)
Narrow ==
    {File(ServerF(1, {}), <<P(1, "execute"), Q("s", "x")>>, <<>>, <<B("a")>>),
     File(ServerF(1, {}), <<P(1, "execute"), Q("t", "y")>>, <<>>, <<B("a"), W("b", "h")>>),
     File(ServerF(1, {}), <<P(1, "ignore")>>, <<>>, <<B("b"), W("a", "x")>>),
     File(ServerF(2, Tls(Lit("f"))), <<P(2, "ignore"), PushC("q", 1, Eps, 1, "execute", FALSE), PullC("r", 1, {}, <<Lit(<<"x">>)>>)>>, <<>>, <<B("b")>>),
     File({}, <<PushC("p", 2, Eps \o Eps, 1, "execute", FALSE)>>, <<>>, <<B("c")>>),
     File(ServerF(1, {}), <<PullC("p", 1, {Lit("s")}, <<Lit(<<"h">>)>>), PullC("q", 2, {}, <<>>)>>, <<>>, <<B("d"), B("d")>>),
     File(ServerF(1, {}), <<PullC("p", 1, {Lit("s")}, <<Lit(<<"h">>)>>), PullC("q", 2, {}, <<>>)>>, <<>>, <<B("d")>>)}

MCFiles == Broad \cup Narrow
MCEnvironments == {[token |-> {"1:a"}, key |-> {"k"}, gone |-> {}], [token |-> {"2:b"}, key |-> {"?"}, gone |-> {}]}

\* The process reads files that deserialize; what else is in them is checked.
ASSUME FilesAssumption == \A f \in Files \cup Changes : IsFile(f)

\* A file that loads is loaded whole: every bot, consumer, endpoint, rule and
\* rate of it is in effect as written, nothing left out and no stand-in of an
\* earlier error in its place, and a consumer that serves one bot is fed by at
\* most one (validate against resolve).
LoadedExact == \A c \in conf, f \in written : Exact(f, c)

-----------------------------------------------------------------------------
vars == <<part, limiterVars, routingVars, scanVars, webhookVars, genVars>>

Init ==
    /\ part \in {"limits", "rules", "scan", "webhooks", "reloads"}
    /\ LimiterInit /\ RoutingInit /\ ScanInit /\ WebhookInit /\ GenerationsInit
    /\ part # "scan" => enc = "json" /\ body = <<"'">> /\ known

\* A broken or unusual file is only started with; reloads go on from the others.
Next ==
    \/ part = "limits" /\ LimiterNext /\ UNCHANGED <<part, routingVars, scanVars, webhookVars, genVars>>
    \/ part = "rules" /\ RoutingNext /\ UNCHANGED <<part, limiterVars, scanVars, webhookVars, genVars>>
    \/ part = "scan" /\ ScanNext /\ UNCHANGED <<part, limiterVars, routingVars, webhookVars, genVars>>
    \/ part = "webhooks" /\ WebhookNext /\ UNCHANGED <<part, limiterVars, routingVars, scanVars, genVars>>
    \/ part = "reloads" /\ written \cap Broad = {} /\ GenerationsNext
       /\ UNCHANGED <<part, limiterVars, routingVars, scanVars, webhookVars>>

Spec == Init /\ [][Next]_vars
=============================================================================
