---------------------------- MODULE MCTaskEngine ----------------------------
(***************************************************************************)
(* The instances of TaskEngine that TLC checks.  Three tasks: two that     *)
(* wait for a third, two that wait for each other and one that waits for   *)
(* none, or two that wait for each other and one that waits for them.  A   *)
(* client that adds what is queued already makes duplicates, in a queue    *)
(* that can be sorted, as a, b, a can, or not, as c, a and a cannot when   *)
(* a does not depend on c.                                                 *)
(***************************************************************************)
EXTENDS TaskEngine, TLC

CONSTANTS a, b, c

chain == a :> <<b>> @@ b :> <<>> @@ c :> <<b>>
cycle == a :> <<b>> @@ b :> <<a>> @@ c :> <<>>
knot  == a :> <<b>> @@ b :> <<c>> @@ c :> <<b>>
MCGraphs == {chain, cycle}
WorkersGraphs == {chain, knot}
MCPriority == a :> 1 @@ b :> 2 @@ c :> 3

WorkersPreloads == {<<b, c, a>>}
ClientPreloads  == {<<b, a>>, <<a, b>>}
ApiPreloads     == {<<>>}

NoBatches  == {}
ABatch     == {<<a, b>>}

Symmetry == Permutations(Worker)
=============================================================================
