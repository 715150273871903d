------------------------------- MODULE Blocks -------------------------------
(***************************************************************************)
(* What loading (Config) and reloading (Generations) a configuration       *)
(* share: its blocks have names, and the ids given to them are a u16.      *)
(***************************************************************************)
CONSTANT MaxIds     \* how many ids a u16 numbers

\* The names of a list of blocks.
NamesOf(list) == {list[i].name : i \in DOMAIN list}
=============================================================================
