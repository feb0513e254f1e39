----------------------------- MODULE OrderedMap -----------------------------
(***************************************************************************)
(* What a hash table promises to a dictionary: a map that is iterated in   *)
(* the order in which its keys were inserted.                              *)
(***************************************************************************)
EXTENDS Integers, Sequences, SequencesExt

CONSTANTS Keys, Values

VARIABLE entries \* the keys with their values, in the order of insertion

Positions(k) == {i \in DOMAIN entries : entries[i].key = k}

Init == entries = <<>>

\* A key that is there keeps its place, and its value unless assigned to.
Add(k, v) ==
  /\ Positions(k) = {}
  /\ entries' = Append(entries, [key |-> k, value |-> v])

Assign(k, v) ==
  \E i \in Positions(k) : entries' = [entries EXCEPT ![i].value = v]

Delete(k) ==
  \E i \in Positions(k) : entries' = RemoveAt(entries, i)

Next == \E k \in Keys : Delete(k) \/ \E v \in Values : Add(k, v) \/ Assign(k, v)

Spec == Init /\ [][Next]_entries
=============================================================================
