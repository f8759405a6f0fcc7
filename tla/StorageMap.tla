------------------------------ MODULE StorageMap ------------------------------
(***************************************************************************)
(* FRAME's StorageMap with OptionQuery, as the pallets use it: a partial    *)
(* function whose domain is the set of keys present in storage.  The        *)
(* storage layer itself is external to the repository.                      *)
(***************************************************************************)
EXTENDS Naturals

\* The maps from keys of K to values of V.
IsMap(m, K, V) ==
    /\ m = [k \in DOMAIN m |-> m[k]]
    /\ DOMAIN m \subseteq K
    /\ \A k \in DOMAIN m : m[k] \in V

EmptyMap == [k \in {} |-> k]

\* StorageMap::insert
Insert(m, k, v) == [x \in DOMAIN m \cup {k} |-> IF x = k THEN v ELSE m[x]]

\* StorageMap::remove; removing an absent key changes nothing.
Remove(m, k) == [x \in DOMAIN m \ {k} |-> m[x]]
===============================================================================
