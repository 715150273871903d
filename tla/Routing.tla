------------------------------ MODULE Routing ------------------------------
(***************************************************************************)
(* From an update's JSON to the consumers it goes to: the facts            *)
(* (tgin-botapi/src/facts.rs), the compiled route table and its walk       *)
(* (tgin-core/src/rules), and the pool of regex scratches that concurrent  *)
(* admissions share across reloads (tgin-core/src/admission.rs reserve).   *)
(*                                                                         *)
(* A JSON value is [k |-> kind, v |-> contents]: an "obj" has the sequence *)
(* of its fields [key, esc, val], a "str" a sequence of characters         *)
(* [c, w, esc] (what it is, its bytes, and whether the JSON escapes it).   *)
(* An Option is a set of at most one element.                              *)
(***************************************************************************)
EXTENDS Integers, Sequences, SequencesExt, FiniteSets, FiniteSetsExt

CONSTANTS
    RuleSets,       \* the rules of the source, by generation of the config
    Username,       \* the bot's username: an Option
    Updates,        \* the updates that arrive
    TextCap,        \* TEXT_CAP, bytes
    KnownTypes,     \* KNOWN_UPDATE_TYPES
    Workers,        \* concurrent admissions
    MaxRoutes       \* bound: updates routed

OrElse(a, b) == IF a # {} THEN a ELSE b
Chars(s) == [i \in DOMAIN s |-> s[i].c]
Bytes(s) == Len(s) + Cardinality({i \in DOMAIN s : s[i].w = 2})    \* a width is 1 or 2
LowerCase(s) == [i \in DOMAIN s |-> IF s[i] = "A" THEN "a" ELSE s[i]]

-----------------------------------------------------------------------------
(* Facts.                                                                  *)

\* One pass over an object's fields: a later field of the name replaces an
\* earlier one; the values of the others are skipped.
Field(fields, key) ==
    {fields[i].val : i \in {j \in DOMAIN fields : /\ fields[j].key = key
                                                  /\ \A later \in j + 1 .. Len(fields) : fields[later].key # key}}

\* LenientI64, ChatTypeSeed: absent when of another kind.
IntOf(val) == {x.v : x \in {y \in val : y.k = "int"}}
TypeOf(val) ==
    {IF x.v \in {"private", "group", "supergroup", "channel"} THEN x.v ELSE "other" :
        x \in {y \in val : y.k = "type"}}
\* ChatSeed, MessageChatSeed, UserSeed.
Objects(val) == {x \in val : x.k = "obj"}
ReadChat(val) ==
    {[id |-> IntOf(Field(x.v, "id")), kind |-> TypeOf(Field(x.v, "type"))] : x \in Objects(val)}
MessageChat(val) == UNION {ReadChat(Field(x.v, "chat")) : x \in Objects(val)}
ReadUser(val) == {IntOf(Field(x.v, "id")) : x \in Objects(val)}
StringOf(val) == {x.v : x \in {y \in val : y.k = "str"}}

\* unescape: as many whole characters as fit; verbatim in the payload when
\* nothing is escaped, else at a range of the buffer both texts share.
Unescape(inner, limit, out) ==
    LET fit == CHOOSE n \in 0 .. Len(inner) :
                   /\ Bytes(SubSeq(inner, 1, n)) <= limit
                   /\ n < Len(inner) => Bytes(SubSeq(inner, 1, n + 1)) > limit
        cut == Chars(SubSeq(inner, 1, fit))
    IN IF \A i \in DOMAIN inner : ~inner[i].esc
       THEN [verbatim |-> TRUE, text |-> cut, from |-> 0, to |-> 0, out |-> out]
       ELSE [verbatim |-> FALSE, text |-> <<>>,
             from |-> Len(out) + 1, to |-> Len(out) + fit, out |-> out \o cut]

Resolve(t, decoded) == IF t.verbatim THEN t.text ELSE SubSeq(decoded, t.from, t.to)

\* command: the token after a leading slash, unless it is written with an
\* escape (the slash itself may be), split at the first "@".
Command(text, raw) ==
    LET spaces == {i \in 2 .. Len(text) : text[i] = " "}
        end == IF spaces = {} THEN Len(text) ELSE Min(spaces) - 1
        token == SubSeq(text, 2, end)
        ats == {i \in DOMAIN token : token[i] = "@"}
    IN IF text = <<>> \/ text[1] # "/" \/ \E i \in 2 .. end : raw[i].esc THEN {}
       ELSE IF ats = {} THEN {[name |-> token, bot |-> {}]}
       ELSE {[name |-> SubSeq(token, 1, Min(ats) - 1),
              bot |-> {SubSeq(token, Min(ats) + 1, Len(token))}]}

NoFacts == [type |-> "", chat |-> {}, kind |-> {}, user |-> {}, text |-> {}, data |-> {}, command |-> {}]

\* UpdateVisitor: the first field that is an object and has a name that can
\* be borrowed; an escaped one that is not known is passed over.
Kind(update) ==
    SelectInSeq(update, LAMBDA f : /\ f.key # "update_id" /\ f.val.k = "obj"
                                   /\ f.esc => f.key \in KnownTypes)

\* Whether extract succeeds: every update_id is an integer, and there is one.
Readable(update) ==
    LET ids == {i \in DOMAIN update : update[i].key = "update_id"}
    IN ids # {} /\ \A i \in ids : update[i].val.k = "int"

\* into_facts: both texts are read after both are decoded.
Texts(text, cb, out, raw) ==
    LET decoded == IF cb = {} THEN out ELSE (CHOOSE t \in cb : TRUE).out
    IN [text |-> {Resolve(t, decoded) : t \in text}, data |-> {Resolve(t, decoded) : t \in cb}, raw |-> raw]
Decode(raw, data) ==
    UNION {LET out == IF text = {} THEN <<>> ELSE (CHOOSE t \in text : TRUE).out
           IN {Texts(text, {Unescape(s, Bytes(s), out) : s \in data}, out, raw)} :
              text \in {{Unescape(s, TextCap, <<>>) : s \in raw}}}

\* PayloadSeed and into_facts.
PayloadFacts(type, p, chat, texts) ==
    [type |-> type,
     chat |-> UNION {c.id : c \in chat}, kind |-> UNION {c.kind : c \in chat},
     user |-> UNION OrElse(ReadUser(Field(p, "from")), ReadUser(Field(p, "user"))),
     text |-> texts.text, data |-> texts.data,
     command |-> UNION {Command(t, s) : t \in texts.text, s \in texts.raw}]
ReadPayload(type, p) ==
    {PayloadFacts(type, p,
        OrElse(ReadChat(Field(p, "chat")),
               IF type = "callback_query" THEN MessageChat(Field(p, "message")) ELSE {}),
        texts) :
     texts \in Decode(OrElse(OrElse(StringOf(Field(p, "text")), StringOf(Field(p, "caption"))),
                             IF type = "inline_query" THEN StringOf(Field(p, "query")) ELSE {}),
                      IF type = "callback_query" THEN StringOf(Field(p, "data")) ELSE {})}
\* extract: the facts, a set of one.
FactsOf(update) ==
    IF Kind(update) = 0 THEN {NoFacts}
    ELSE UNION {ReadPayload(update[k].key, update[k].val.v) : k \in {Kind(update)}}

\* ordering_key.
Key(facts) == OrElse(facts.chat, facts.user)

-----------------------------------------------------------------------------
(* Compiling.  A rule: [types, chats, kinds, users, commands (sets), text, *)
(* data (Options of [how, list]), targets].  A target: [to |-> "consumer", *)
(* id], [to |-> "all", among] or [to |-> "split", how, among, weights].    *)

RECURSIVE GcdOf(_, _)
GcdOf(a, b) == IF b = 0 THEN a ELSE GcdOf(b, a % b)

\* smooth_wrr_schedule: every weight is added, the largest picked (the first
\* of equals, each being compared with those before it), the total taken off.
Smooth(weights) ==
    LET g == FoldLeft(GcdOf, 0, weights)
        w == [i \in DOMAIN weights |-> weights[i] \div g]
        total == FoldLeft(+, 0, w)
        step(c, n) ==
            LET up == [i \in DOMAIN w |-> c.current[i] + w[i]]
                pick == FoldLeft(LAMBDA best, i : IF up[i] > up[best] THEN i ELSE best,
                                 1, [i \in DOMAIN w |-> i])
            IN [current |-> [up EXCEPT ![pick] = @ - total], picks |-> Append(c.picks, pick)]
    IN FoldLeft(step, [current |-> [i \in DOMAIN w |-> 0], picks |-> <<>>],
                [n \in 1 .. total |-> n]).picks

\* InvalidRule, the part about targets.
RECURSIVE Compilable(_)
Compilable(t) ==
    t.to # "consumer" =>
        /\ t.among # <<>>
        /\ t.to = "split" => IF t.how = "weighted"
                             THEN Len(t.weights) = Len(t.among) /\ FoldLeft(+, 0, t.weights) > 0
                             ELSE t.weights = <<>>
        /\ \A i \in DOMAIN t.among : Compilable(t.among[i])

\* Builder::target: the children first, their indices side by side, then the
\* node.  `of` is the specification, for the properties.
RECURSIVE AddTarget(_, _)
AddTarget(b, t) ==
    LET step(acc, child) ==
            LET next == AddTarget(acc.b, child) IN [b |-> next, ids |-> Append(acc.ids, Len(next.nodes))]
        group == FoldLeft(step, [b |-> b, ids |-> <<>>], IF t.to = "consumer" THEN <<>> ELSE t.among)
        g == group.b
    IN [g EXCEPT !.children = @ \o group.ids,
                 !.nodes = Append(@, [of |-> t, from |-> Len(g.children) + 1,
                                      to |-> Len(g.children) + Len(group.ids),
                                      schedule |-> IF t.to = "split" /\ t.how = "weighted"
                                                   THEN Smooth(t.weights) ELSE <<>>])]

\* Builder::text_matcher: a regex list owns a range of the field's patterns.
Matcher(b, m, field) ==
    {[how |-> x.how, list |-> x.list,
      from |-> Len(b[field]) + 1, to |-> Len(b[field]) + Len(x.list)] : x \in m}
Patterns(m) == LET lists == {x.list : x \in {y \in m : y.how = "regex"}}
               IN IF lists = {} THEN <<>> ELSE CHOOSE l \in lists : TRUE

\* Builder::rule; several targets are an `all`.
AddRule(b, r) ==
    LET c == AddTarget([b EXCEPT !.text = @ \o Patterns(r.text), !.data = @ \o Patterns(r.data)],
                       IF Len(r.targets) = 1 THEN r.targets[1] ELSE [to |-> "all", among |-> r.targets])
    IN [c EXCEPT !.rules = Append(@, [spec |-> r, root |-> Len(c.nodes),
                                      text |-> Matcher(b, r.text, "text"), data |-> Matcher(b, r.data, "data")])]

ValidRule(r) ==
    /\ \A c \in r.commands : c # <<>> /\ \A i \in DOMAIN c : c[i] # "@"
    /\ \A m \in r.text \cup r.data : m.list # <<>>
    /\ r.targets # <<>> /\ \A i \in DOMAIN r.targets : Compilable(r.targets[i])

\* RouteTable::compile; a set with an invalid rule is no table.
Compile(rules) ==
    FoldLeft(AddRule, [rules |-> <<>>, nodes |-> <<>>, children |-> <<>>, text |-> <<>>, data |-> <<>>], rules)

-----------------------------------------------------------------------------
(* Routing.                                                                *)

VARIABLES
    tables,     \* the compiled tables, by generation; the last is current
    pool,       \* the scratches nobody uses: a stack of [owner, text, data],
                \* what they found in each field, once it was searched
    worker,     \* the admissions
    cursors,    \* by generation and node: what a split's cursor counts
    routed,     \* bound: updates routed
    picks       \* history, by generation and node: what a split picked

routingVars == <<tables, pool, worker, cursors, routed, picks>>

Idle == [pc |-> "idle"]

RoutingInit ==
    /\ tables = <<Compile(RuleSets[1])>> /\ pool = <<>> /\ routed = 0
    /\ worker = [w \in Workers |-> Idle]
    /\ cursors = <<[n \in DOMAIN tables[1].nodes |-> 0]>>
    /\ picks = <<[n \in DOMAIN tables[1].nodes |-> <<>>]>>

\* The engine's state is loaded, then the update routed: a reload may come
\* between the two.
LoadState(w, u) ==
    /\ worker[w].pc = "idle" /\ routed < MaxRoutes /\ Readable(u)
    /\ worker' = [worker EXCEPT ![w] = [pc |-> "loaded", gen |-> Len(tables), update |-> u]]
    /\ routed' = routed + 1
    /\ UNCHANGED <<tables, pool, cursors, picks>>

NewScratch == [owner |-> 0, text |-> {}, data |-> {}]

\* The latest scratch put back, or a new one.
TakeScratch(w) ==
    /\ worker[w].pc = "loaded"
    /\ worker' = [worker EXCEPT ![w] = [pc |-> "routes", gen |-> @.gen, update |-> @.update,
                     scratch |-> IF pool = <<>> THEN NewScratch ELSE Last(pool)]]
    /\ pool' = IF pool = <<>> THEN pool ELSE Front(pool)
    /\ UNCHANGED <<tables, cursors, routed, picks>>

\* Mutant: a scratch of this table keeps what it found.
PrepareKeeping(s, g) == IF s.owner = g THEN s ELSE [NewScratch EXCEPT !.owner = g]

\* MatchScratch::prepare: one of another table is made anew, one of this
\* table forgets what it found.  (A set of pattern ids, once searched for.)
Prepare(s, g) == [NewScratch EXCEPT !.owner = g]

\* External: a regular expression, here one that looks for a character.
Hits(pattern, text) == \E i \in DOMAIN text : text[i] = pattern
\* Every pattern of the field that matches, by its id.
Search(patterns, text) == {i \in DOMAIN patterns : Hits(patterns[i], text)}

\* text_matches; the first regex rule to be asked searches for all.
TextMatches(m, text, patterns, found) ==
    \E t \in text :
        CASE m.how = "prefix" -> \E i \in DOMAIN m.list : IsPrefix(m.list[i], t)
          [] m.how = "equals" -> \E i \in DOMAIN m.list : m.list[i] = t
          [] m.how = "regex" ->
                \E id \in m.from .. m.to :
                    id \in IF found = {} THEN Search(patterns, t) ELSE CHOOSE f \in found : TRUE

\* command_matches: the longest of the rule's commands that begins the name
\* has to be all of it.
CommandMatches(names, command) ==
    \E c \in command :
        /\ \A bot \in c.bot : \E u \in Username : LowerCase(u) = LowerCase(bot)
        /\ LET begin == {Len(n) : n \in {m \in names : IsPrefix(LowerCase(m), LowerCase(c.name))}}
           IN begin # {} /\ Max(begin) = Len(c.name)

Among(set, option) == set = {} \/ set \cap option # {}

\* RouteTable::matches, and whether it searched a field.
Applies(table, r, f, s) ==
    /\ Among(r.spec.types, {f.type}) /\ Among(r.spec.chats, f.chat)
    /\ Among(r.spec.kinds, f.kind) /\ Among(r.spec.users, f.user)
    /\ r.spec.commands # {} => CommandMatches(r.spec.commands, f.command)
    /\ \A m \in r.text : TextMatches(m, f.text, table.text, s.text)
    /\ \A m \in r.data : TextMatches(m, f.data, table.data, s.data)

\* The scratch after a field was searched for, if a rule up to the one that
\* matched may have asked.
Searched(table, s, f, field) ==
    IF \E r \in Range(table.rules) : \E m \in r[field] : m.how = "regex"
    THEN [s EXCEPT ![field] = OrElse(@, {Search(table[field], t) : t \in f[field]})] ELSE s

\* walk: the consumers, in order and once each, and the cursors.
RECURSIVE Walk(_, _, _, _), WalkAll(_, _, _, _)
WalkAll(table, nodes, key, acc) ==
    IF nodes = <<>> THEN acc ELSE WalkAll(table, Tail(nodes), key, Walk(table, Head(nodes), key, acc))
Walk(table, node, key, acc) ==
    LET n == table.nodes[node]
        children == SubSeq(table.children, n.from, n.to)
        turn == acc.cursor[node]
        keyed == n.of.to = "split" /\ n.of.how = "hash" /\ key # {}
        pick == IF keyed THEN ((CHOOSE k \in key : TRUE) % Len(children)) + 1
                ELSE IF n.schedule # <<>> THEN n.schedule[(turn % Len(n.schedule)) + 1]
                ELSE (turn % Len(children)) + 1
        rest == IF keyed THEN {k \div Len(children) : k \in key} ELSE key
        moved == IF keyed THEN acc ELSE [acc EXCEPT !.cursor[node] = @ + 1, !.picks[node] = Append(@, pick)]
    IN CASE n.of.to = "consumer" -> [acc EXCEPT !.out = IF Contains(@, n.of.id) THEN @ ELSE Append(@, n.of.id)]
         [] n.of.to = "all" -> WalkAll(table, children, key, acc)
         [] n.of.to = "split" -> Walk(table, children[pick], rest, moved)

\* RouteTable::route: the first rule that matches.
RouteUpdate(w) ==
    /\ worker[w].pc = "routes"
    /\ LET g == worker[w].gen
           table == tables[g]
           none == [out |-> <<>>, cursor |-> cursors[g], picks |-> picks[g]]
       IN \E f \in FactsOf(worker[w].update), s \in {Prepare(worker[w].scratch, g)} :
          \E rule \in {SelectInSeq(table.rules, LAMBDA r : Applies(table, r, f, s))} :
          \E got \in {IF rule = 0 THEN none ELSE Walk(table, table.rules[rule].root, Key(f), none)} :
             /\ worker' = [worker EXCEPT ![w] =
                    [pc |-> "routed", gen |-> g, update |-> @.update, facts |-> f, rule |-> rule, out |-> got.out,
                     scratch |-> Searched(table, Searched(table, s, f, "text"), f, "data")]]
             /\ cursors' = [cursors EXCEPT ![g] = got.cursor]
             /\ picks' = [picks EXCEPT ![g] = got.picks]
    /\ UNCHANGED <<tables, pool, routed>>

PutScratch(w) ==
    /\ worker[w].pc = "routed"
    /\ pool' = Append(pool, worker[w].scratch)
    /\ worker' = [worker EXCEPT ![w] = Idle]
    /\ UNCHANGED <<tables, cursors, routed, picks>>

\* A reload that was accepted.
SwapTable ==
    /\ Len(tables) < Len(RuleSets)
    /\ LET rules == RuleSets[Len(tables) + 1]
           table == Compile(rules)
       IN /\ \A i \in DOMAIN rules : ValidRule(rules[i])
          /\ tables' = Append(tables, table)
          /\ cursors' = Append(cursors, [n \in DOMAIN table.nodes |-> 0])
          /\ picks' = Append(picks, [n \in DOMAIN table.nodes |-> <<>>])
    /\ UNCHANGED <<pool, worker, routed>>

RoutingNext ==
    \/ \E w \in Workers : \/ TakeScratch(w) \/ RouteUpdate(w) \/ PutScratch(w)
                          \/ \E u \in Updates : LoadState(w, u)
    \/ SwapTable

-----------------------------------------------------------------------------
(* What a rule means.                                                      *)

Says(m, text) ==
    \E t \in text, p \in Range(m.list) :
        CASE m.how = "prefix" -> IsPrefix(p, t)
          [] m.how = "equals" -> p = t
          [] m.how = "regex" -> Hits(p, t)
Holds(r, f) ==
    /\ Among(r.types, {f.type}) /\ Among(r.chats, f.chat) /\ Among(r.kinds, f.kind) /\ Among(r.users, f.user)
    /\ r.commands # {} =>
          \E c \in f.command : /\ \E n \in r.commands : LowerCase(n) = LowerCase(c.name)
                               /\ LowerCase(c.name) # <<>>
                               /\ \A b \in c.bot, u \in Username : LowerCase(b) = LowerCase(u)
                               /\ c.bot # {} => Username # {}
    /\ \A m \in r.text : Says(m, f.text)
    /\ \A m \in r.data : Says(m, f.data)

\* The sets of consumers a target may mean for a key.
RECURSIVE Meant(_, _)
Meant(t, key) ==
    CASE t.to = "consumer" -> {{t.id}}
      [] t.to = "all" /\ t.among = <<>> -> {{}}
      [] t.to = "all" /\ t.among # <<>> ->
            {a \cup b : a \in Meant(Head(t.among), key), b \in Meant([t EXCEPT !.among = Tail(@)], key)}
      [] t.to = "split" /\ t.how = "hash" /\ key # {} ->
            UNION {Meant(t.among[(k % Len(t.among)) + 1], {k \div Len(t.among)}) : k \in key}
      [] OTHER -> UNION {Meant(c, key) : c \in Range(t.among)}

\* The update goes where the rules of the generation it was admitted under
\* say: to the first rule that holds, each consumer once, whichever scratch
\* the worker got and whatever other tables and updates used it before
\* (eval.rs prepare, text_matches; compile.rs group, text_matcher).
FirstRule(w) ==
    LET rules == RuleSets[worker[w].gen]
        first == SelectInSeq(rules, LAMBDA r : Holds(r, worker[w].facts))
    IN /\ worker[w].rule = first
       /\ first # 0 => /\ Cardinality(Range(worker[w].out)) = Len(worker[w].out)
                       /\ Range(worker[w].out) \in Meant([to |-> "all", among |-> rules[first].targets], Key(worker[w].facts))

\* Both texts are the payload's, whatever of them had to be decoded into the
\* one buffer (facts.rs unescape, into_facts).
TextsRead(w) ==
    LET f == worker[w].facts
        p == worker[w].update[Kind(worker[w].update)].val.v
    IN Kind(worker[w].update) # 0 =>
          /\ \A t \in f.text : \E x \in DOMAIN p : p[x].val.k = "str" /\ IsPrefix(t, Chars(p[x].val.v))
          /\ \A t \in f.data : \E s \in StringOf(Field(p, "data")) : t = Chars(s)

\* Concurrent admissions share a split's cursor: after whole periods every
\* child had its share.
Shares(g, n) ==
    LET node == tables[g].nodes[n]
        w(i) == IF node.of.how = "weighted" THEN node.of.weights[i] ELSE 1
        got(i) == Cardinality({k \in DOMAIN picks[g][n] : picks[g][n][k] = i})
        period == IF node.of.how = "weighted" THEN Len(node.schedule) ELSE Len(node.of.among)
    IN (node.of.to = "split" /\ Len(picks[g][n]) % period = 0) =>
           \A i, j \in DOMAIN node.of.among : got(i) * w(j) = got(j) * w(i)

\* Every update is routed as the rules it was admitted under were written,
\* its texts read as sent, and every split keeps its shares, whatever other
\* workers, tables and updates used the same scratches and cursors
\* (facts.rs extract, RouteTable::compile, route, MatchScratch::prepare).
RoutedAsWritten ==
    /\ \A w \in Workers : worker[w].pc = "routed" => FirstRule(w) /\ TextsRead(w)
    /\ \A g \in DOMAIN tables : \A n \in DOMAIN tables[g].nodes : Shares(g, n)
=============================================================================
