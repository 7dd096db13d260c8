------------------------------ MODULE HashMap -------------------------------
(***************************************************************************)
(* std::collections::HashMap as a function whose domain is the set of its  *)
(* keys, with the three updates the program makes.                         *)
(***************************************************************************)
EXTENDS FiniteSets, Functions

EmptyMap == <<>>

\* map.insert(k, v)
Insert(map, k, v) ==
  [x \in DOMAIN map \cup {k} |-> IF x = k THEN v ELSE map[x]]

\* map.retain(keep) with `keep` given as the set of keys that stay
Retain(map, keep) == Restrict(map, DOMAIN map \cap keep)

\* map.remove(k)
Remove(map, k) == Restrict(map, DOMAIN map \ {k})

\* map.len()
Size(map) == Cardinality(DOMAIN map)
=============================================================================
