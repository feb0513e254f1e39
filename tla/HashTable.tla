----------------------------- MODULE HashTable ------------------------------
(***************************************************************************)
(* HashTable: the entries in order of insertion, and an open-addressing    *)
(* table of indices into them, searched from a key's ideal bucket on.      *)
(*                                                                         *)
(* Positions in values start at one, so index 0 marks an empty bucket.     *)
(* Bucket counts are powers of two: the mask is a remainder.               *)
(***************************************************************************)
EXTENDS Integers, Sequences, FiniteSets, SequencesExt

CONSTANTS Keys, Values,
          Programs, \* the hash functions, with the keys that are ever erased
          MaxSize   \* bound: entries in the table

ASSUME ProgramsAssumption == Programs \subseteq [hash : [Keys -> Nat], erased : SUBSET Keys]
ASSUME MaxSizeAssumption == MaxSize \in Nat

VARIABLES
  program, \* the hash function of the keys, and the keys that may be erased
  values,  \* m_values
  buckets, \* m_buckets: a function on 0 .. m_bucketCount - 1
  status   \* "ok", "null" if there was no bucket to read, "overrun" if one behind
            \* the last was read, "dangling" after clear()

vars == <<program, values, buckets, status>>

hash == program.hash

Empty == [index |-> 0, hash |-> 0]

Count(bs)       == Cardinality(DOMAIN bs)
IsEmpty(bs, b)  == bs[b].index = 0
Cleared(n)      == [b \in 0 .. n - 1 |-> Empty]

Init ==
  /\ program \in Programs
  /\ values = <<>> /\ buckets = Cleared(0)
  /\ status = "ok"
-----------------------------------------------------------------------------
(***************************************************************************)
(* Probing                                                                 *)
(***************************************************************************)
\* distanceFromIdealBucket: zero at home, less than the count if the entry has come
\* around the end of the table, and more than the count otherwise.
Distance(bs, b) ==
  LET ideal == bs[b].hash % Count(bs) IN
  IF ideal >= b THEN ideal - b ELSE Count(bs) + b - ideal

\* The bucket that is reached after i steps.
Bucket(bs, h, i) == (h + i) % Count(bs)

\* The condition of the loops that search: an entry closer to home ends the search.
Searched(bs, b, i) == ~IsEmpty(bs, b) /\ i <= Distance(bs, b)

Matches(k, b) == buckets[b].hash = hash[k] /\ values[buckets[b].index].key = k

\* The steps after which the search for a key ends.
Steps(k) == Min({i \in 0 .. Count(buckets) :
                   LET b == Bucket(buckets, hash[k], i) IN
                   Searched(buckets, b, i) => Matches(k, b)})

Found(k) ==
  /\ values # <<>>
  /\ LET b == Bucket(buckets, hash[k], Steps(k)) IN
     Searched(buckets, b, Steps(k)) /\ Matches(k, b)

FoundAt(k) == Bucket(buckets, hash[k], Steps(k))
-----------------------------------------------------------------------------
(***************************************************************************)
(* insert and insert_or_assign                                             *)
(***************************************************************************)
\* Mutant: nobody makes room for an entry further from home.
InsertAtEmpty(bs, entry, h, dist) ==
  LET steps == Min({i \in 0 .. Count(bs) - 1 : IsEmpty(bs, Bucket(bs, h, i))})
  IN  [bs EXCEPT ![Bucket(bs, h, steps)] = entry]

\* doInsert: whoever is closer to home makes room and is carried on to the next bucket.
Visited(s, b) ==
  CASE s.placed -> s
    [] ~s.placed /\ IsEmpty(s.buckets, b) -> [s EXCEPT !.buckets[b] = s.entry, !.placed = TRUE]
    [] ~s.placed /\ Searched(s.buckets, b, s.dist) -> [s EXCEPT !.dist = @ + 1]
    [] OTHER -> [s EXCEPT !.buckets[b] = s.entry, !.entry = s.buckets[b],
                          !.dist = Distance(s.buckets, b) + 1]

DoInsert(bs, entry, h, dist) ==
  LET n == Count(bs)
      after[i \in 0 .. n] ==
        IF i = 0 THEN [buckets |-> bs, entry |-> entry, dist |-> dist, placed |-> FALSE]
        ELSE Visited(after[i - 1], Bucket(bs, h, i - 1))
  IN after[n].buckets

\* Mutant: the table is filled to the last bucket.
FitsExactly(n) == n > 0 /\ Len(values) \div n < 1

\* The integer quotient is below the maximal load of 0.9 only if it is zero.
Fits(n) == n > 0 /\ (Len(values) + 1) \div n < 1

\* The buckets with an entry at home: the rehash starts from the first of them.
Heads == {b \in DOMAIN buckets : ~IsEmpty(buckets, b) /\ Distance(buckets, b) = 0}

\* The entries are carried over in the order of their buckets.
Rehashed ==
  LET n == Count(buckets)
      carried[i \in 0 .. n] ==
        IF i = 0 THEN Cleared(2 * n)
        ELSE LET e == buckets[Bucket(buckets, Min(Heads), i - 1)]
             IN  IF e.index = 0 THEN carried[i - 1] ELSE DoInsert(carried[i - 1], e, e.hash, 0)
  IN  IF values = <<>> THEN Cleared(IF n = 0 THEN 2 ELSE 2 * n) ELSE carried[n]

\* If no entry is at home, the rehash goes on to read behind the last bucket, and the
\* model ends.
NewEntry(k, v) ==
  LET entry   == [index |-> Len(values) + 1, hash |-> hash[k]]
      steps   == IF values = <<>> THEN 0 ELSE Steps(k)
      fits    == Fits(Count(buckets))
      overrun == ~fits /\ values # <<>> /\ Heads = {}
  IN  /\ Len(values) < MaxSize
      /\ IF overrun
         THEN status' = "overrun" /\ UNCHANGED <<values, buckets>>
         ELSE /\ buckets' = IF fits THEN DoInsert(buckets, entry, hash[k] + steps, steps)
                            ELSE DoInsert(Rehashed, entry, hash[k], 0)
              /\ values' = Append(values, [key |-> k, value |-> v])
              /\ UNCHANGED status

\* insert leaves the value of a key that is there alone.
Insert(k, v) ==
  /\ status = "ok" /\ ~Found(k)
  /\ NewEntry(k, v)
  /\ UNCHANGED program

InsertOrAssign(k, v) ==
  /\ status = "ok"
  /\ IF Found(k) THEN /\ values' = [values EXCEPT ![buckets[FoundAt(k)].index].value = v]
                      /\ UNCHANGED <<buckets, status>>
     ELSE NewEntry(k, v)
  /\ UNCHANGED program
-----------------------------------------------------------------------------
(***************************************************************************)
(* erase and clear                                                         *)
(***************************************************************************)
\* Mutant: the first bucket is not moved when the run goes around the end.
ShiftedToEnd(b) ==
  LET n    == Count(buckets)
      stop == Min({s \in 1 .. n : \/ b + s >= n
                                  \/ IsEmpty(buckets, b + s) \/ Distance(buckets, b + s) = 0})
  IN  [c \in DOMAIN buckets |->
         IF c \in b .. b + stop - 2 THEN buckets[c + 1]
         ELSE IF c = b + stop - 1 THEN Empty ELSE buckets[c]]

\* The entries up to the next empty bucket or entry at home move back by one.
Shifted(b) ==
  LET n     == Count(buckets)
      at(s) == Bucket(buckets, b, s)
      stop  == Min({s \in 1 .. n : IsEmpty(buckets, at(s)) \/ Distance(buckets, at(s)) = 0})
  IN  [c \in DOMAIN buckets |->
         IF c = at(stop - 1) THEN Empty
         ELSE IF \E s \in 0 .. stop - 2 : c = at(s) THEN buckets[Bucket(buckets, c, 1)]
         ELSE buckets[c]]

\* Mutant: entries of later values keep their index.
WithoutStale(bs, index) == bs

Without(bs, index) ==
  [b \in DOMAIN bs |-> IF bs[b].index > index THEN [bs[b] EXCEPT !.index = @ - 1] ELSE bs[b]]

Erase(k) ==
  LET index == buckets[FoundAt(k)].index IN
  /\ status = "ok" /\ k \in program.erased /\ Found(k)
  /\ buckets' = Without(Shifted(FoundAt(k)), index)
  /\ values' = RemoveAt(values, index)
  /\ UNCHANGED <<program, status>>

\* erase does not look whether there are buckets before it reads one.
EraseWithoutBuckets ==
  /\ status = "ok" /\ Count(buckets) = 0
  /\ status' = "null"
  /\ UNCHANGED <<program, values, buckets>>

\* clear frees the buckets, but keeps the pointer to them and the values.
Clear ==
  /\ status = "ok" /\ Count(buckets) > 0
  /\ status' = "dangling"
  /\ buckets' = Cleared(0)
  /\ UNCHANGED <<program, values>>

Halted == status # "ok" /\ UNCHANGED vars

Next == \/ \E k \in Keys : Erase(k) \/ \E v \in Values : Insert(k, v) \/ InsertOrAssign(k, v)
        \/ EraseWithoutBuckets \/ Clear \/ Halted

Spec == Init /\ [][Next]_vars
-----------------------------------------------------------------------------
TypeOK ==
  /\ program \in Programs
  /\ values \in Seq([key : Keys, value : Values]) /\ Len(values) <= MaxSize
  /\ \A b \in DOMAIN buckets : buckets[b].index \in 0 .. Len(values) /\ buckets[b].hash \in Nat
  /\ status \in {"ok", "null", "overrun", "dangling"}

\* Every search ends: however often the table grew and shrank, a bucket is empty.
SomeBucketIsEmpty == buckets # Cleared(0) => \E b \in DOMAIN buckets : IsEmpty(buckets, b)

\* A lookup finds each key that was inserted and not erased, at its own entry, whatever
\* collided with it, came around the end of the table or was shifted since.
FindsEveryKey ==
  status = "ok" => \A i \in DOMAIN values :
    Found(values[i].key) /\ buckets[FoundAt(values[i].key)].index = i

Map == INSTANCE OrderedMap WITH entries <- values

\* The operations are those of a map in the order of insertion.
ImplementsMap == Map!Spec
=============================================================================
