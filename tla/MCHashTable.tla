----------------------------- MODULE MCHashTable ----------------------------
(***************************************************************************)
(* Programs for HashTable.  Keys are numbers; up to their names it is      *)
(* enough that greater keys do not have smaller hashes.                    *)
(***************************************************************************)
EXTENDS HashTable

CONSTANTS HashValues, \* the hashes of keys that are never erased
          Unmixed     \* hashes whose runs of buckets never meet

Ascending(S) == {h \in [Keys -> S] : \A k, l \in Keys : k <= l => h[k] <= h[l]}

MCPrograms == [hash : Ascending(HashValues), erased : {{}}]
                \cup [hash : Ascending(Unmixed), erased : {Keys}]
=============================================================================
