--------------------------- MODULE MCVariableStore ---------------------------
(* Three clients, any of which patches, loads or drops.  The patches        *)
(* overlap in their names, and a store of two variables can be full.  One   *)
(* value is plain; the other is made of characters that JSON escapes, so    *)
(* that it takes twice its size in the file.                                 *)
EXTENDS VariableStore, TLC

CONSTANTS n1, n2, n3, plain, escaped

Set(u) == [n \in Names |-> IF n \in DOMAIN u THEN u[n] ELSE None]
Op(k, u, d) == [kind |-> k, upsert |-> Set(u), delete |-> d]

MCEncoded == Restrict(plain :> 3 @@ escaped :> 6, Values)

MCCalls ==
  { Op("load", <<>>, {}),
    Op("drop", <<>>, {}),
    Op("patch", n1 :> escaped, {}),
    Op("patch", n2 :> plain, {n1}),
    Op("patch", n2 :> escaped @@ n3 :> plain, {}),
    Op("patch", <<>>, {n1, n2}) }
==============================================================================
