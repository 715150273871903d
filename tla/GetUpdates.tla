----------------------------- MODULE GetUpdates -----------------------------
(***************************************************************************)
(* tgin-botapi's getUpdates request (pull.rs): what a downstream instance  *)
(* asks of a pull consumer, in whichever way it writes it.                 *)
(*                                                                         *)
(* A request is [header, client, query, type, body]: the X-Tgin-Instance   *)
(* header and the client's address (ClientIp of Webhook) as options, the   *)
(* members of the query string and of the body, and how the body is        *)
(* encoded.  Members are pairs <<key, value>> in the order sent, their     *)
(* value an integer or NoInteger; other keys than the three are ignored    *)
(* and left out.  A body that is no JSON object has the type "broken", one *)
(* that is too large or breaks off "unread".                               *)
(***************************************************************************)
EXTENDS Integers, Sequences

CONSTANTS
    NoInteger,      \* a value that is no integer of 64 bits
    NoInstance,     \* a header that is no instance name
    MaxLimit,       \* MAX_LIMIT
    MaxTimeout      \* MAX_TIMEOUT_SECS

ASSUME GetUpdatesAssumption == MaxLimit \in Nat \ {0} /\ MaxTimeout \in Nat /\ NoInteger \notin Int

Keywords == {"offset", "limit", "timeout"}

\* What the members say of a key: the last of its name.
Told(members, key) ==
    LET at == {i \in DOMAIN members : members[i][1] = key}
    IN {members[i][2] : i \in {j \in at : \A k \in at : k <= j}}

\* RawParams::form stops at any value that is no integer, RawParams::json
\* looks only at the last of each name.
FormReadable(members) == \A i \in DOMAIN members : members[i][2] # NoInteger
JsonReadable(members) == \A key \in Keywords : NoInteger \notin Told(members, key)

Readable(req) ==
    /\ req.type # "unread"
    /\ FormReadable(req.query)
    /\ \/ req.type = "none"
       \/ req.type = "form" /\ FormReadable(req.body)
       \/ req.type = "json" /\ JsonReadable(req.body)

\* Params::parse: the body fills in what the query string lacks.
Param(req, key) == IF Told(req.query, key) # {} THEN Told(req.query, key) ELSE Told(req.body, key)

Clamp(n, low, high) == IF n < low THEN low ELSE IF n > high THEN high ELSE n
OrElse(opt, default) == IF opt = {} THEN default ELSE CHOOSE n \in opt : TRUE

Params(req) ==
    [offset |-> OrElse(Param(req, "offset"), 0),
     limit |-> Clamp(OrElse(Param(req, "limit"), MaxLimit), 1, MaxLimit),
     timeout |-> Clamp(OrElse(Param(req, "timeout"), 0), 0, MaxTimeout)]

\* instance: by name, else by address; {} if neither will do.
Instance(req) == IF req.header # {} THEN req.header \ {NoInstance} ELSE req.client
=============================================================================
