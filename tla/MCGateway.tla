----------------------------- MODULE MCGateway -----------------------------
EXTENDS Gateway, TLC
CONSTANTS p, q

World(k, l, changes, m, d) ==
    [kinds |-> (p :> k @@ q :> l), changes |-> changes, move |-> m, drain |-> d]

\* Reloads against the calls that are bound to a token; a move against a bot
\* that is removed and added; a move and the drain against every kind.
MCPlans ==
    {World(k, l, c, FALSE, FALSE) : k \in {"hook"}, l \in {"hook", "reply"},
        c \in {<<"rotate">>, <<"unfeed">>, <<"remove", "add">>}}
    \cup {World("getMe", "getMe", <<"rotate">>, FALSE, FALSE)}
    \cup {World(k, "getMe", c, TRUE, FALSE) : k \in {"send", "reply"}, c \in {<<"edit">>, <<"rotate">>}}
    \cup {World("upload", "reply", <<"remove", "add">>, TRUE, FALSE)}
    \cup {World(k, "disk", <<>>, FALSE, TRUE) : k \in Kinds}
    \cup {World(k, l, <<>>, TRUE, FALSE) : k \in Kinds, l \in {"send", "origin"}}
=============================================================================
