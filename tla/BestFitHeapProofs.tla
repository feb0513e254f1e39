------------------------- MODULE BestFitHeapProofs --------------------------
(***************************************************************************)
(* Proofs about BestFitHeap for every page size, every limit and every set *)
(* of requests: the blocks tile their pages, no two free blocks are        *)
(* neighbours, the walks over the pages meet every object although blocks  *)
(* are merged under them, and the heap implements CellPool.  What is said  *)
(* of the index ends where a block is left astray, as the model does.      *)
(*                                                                         *)
(* What splitting and merging do to the headers is proved of any headers,  *)
(* so that it can be used of the headers before and after a step.          *)
(***************************************************************************)
EXTENDS BestFitHeap, ProofLemmas

\* The provers for a step that names none, in turn: most need less than a second, and
\* a search that went astray is begun again.
USE SMT, Zenon, SMTT(20), SMTT(60), ZenonT(60), Z3T(60)

\* The end of a page, given all pages and the end of the last one.
PageEnd(pgs, tp, i) == IF i = Len(pgs) THEN tp ELSE pgs[i + 1]

\* B is cut out of the pages by headers with sizes sz and tags pv: from every block
\* that is not the last of its page the size leads to the next one, no block lies
\* inside of another, and the tag leads back.
Tiles(sz, pv, pgs, tp, B) ==
  /\ B \subseteq 0 .. tp - 1 /\ Range(pgs) \subseteq B
  /\ \A a \in Addresses : sz[a] # 0 => a + 1 + sz[a] < tp
  /\ \A b \in B : sz[b] # 0 => sz[b] > Limit /\ b + 1 + sz[b] \in B \ Range(pgs)
  /\ \A b, c \in B : b < c => b + 1 + sz[b] <= c
  /\ \A i \in DOMAIN pgs :
       /\ pgs[i] < PageEnd(pgs, tp, i) /\ PageEnd(pgs, tp, i) - 1 \in B
       /\ \A b \in B : pgs[i] <= b /\ b < PageEnd(pgs, tp, i) =>
            (sz[b] = 0 <=> b = PageEnd(pgs, tp, i) - 1)
  /\ \A b \in B : b \in Range(pgs) => pv[b] = Null
  /\ \A b \in B : b \notin Range(pgs) =>
       pv[b] \in B /\ sz[pv[b]] # 0 /\ pv[b] + 1 + sz[pv[b]] = b
  /\ pgs = <<>> => tp = 0
  /\ pgs # <<>> => pgs[1] = 0

\* The header that a walk is at is a block's, or one that free() has left inside
\* of the block it made; the latter is free and leads to the next block.
Merged ==
  /\ pc = "sweep" /\ cursor \in free /\ size[cursor] # 0
  /\ Next(cursor) \in Blocks /\ Next(cursor) < PageEnd(pages, top, page)
  /\ \A c \in Blocks : c < cursor \/ Next(cursor) <= c

Walk ==
  pc \in {"sweep", "destroy"} =>
    /\ pages = <<>> => cursor = Null
    /\ pages # <<>> =>
         /\ page \in DOMAIN pages /\ cursor # Null
         /\ pages[page] <= cursor /\ cursor < PageEnd(pages, top, page)
         /\ cursor \in Blocks \/ Merged

\* Which objects there are, before and behind the cursor of a walk.
Live ==
  /\ pc \in {"program", "sweep"} => reachable \subseteq Objects
  /\ pc = "program" => marked = {}
  /\ pc = "sweep" => /\ marked = {o \in reachable : cursor <= o}
                     /\ \A o \in Objects : o < cursor => o \in reachable
  /\ pc = "destroy" => reachable = {} /\ \A o \in Objects : cursor <= o

Headers == Tiles(size, previous, pages, top, Blocks) /\ free \subseteq 0 .. top - 1

IInv ==
  /\ TypeOK /\ FreeBlocksIndexed /\ ObjectsHaveRoom /\ NothingLeftUndestroyed
  /\ Headers /\ Walk /\ Live
-----------------------------------------------------------------------------
(***************************************************************************)
(* The headers from an address on.                                         *)
(***************************************************************************)
Inside(sz) == \A a \in Addresses : sz[a] # 0 => a + 1 + sz[a] \in Addresses

\* Chain, of any headers.
Solves(f, sz) == f = [b \in Addresses |-> IF sz[b] = 0 THEN {b} ELSE {b} \cup f[b + 1 + sz[b]]]
ChainOf(sz)   == CHOOSE f : Solves(f, sz)
BlocksOf(sz, pgs) == UNION {ChainOf(sz)[b] : b \in Range(pgs)}

LEMMA ChainIs == Chain = ChainOf(size) /\ Blocks = BlocksOf(size, pages)
  BY DEF Chain, ChainOf, Solves, Next, Blocks, BlocksOf

\* Headers that lead nowhere but into the memory have a chain: it is built from the
\* highest address downwards.
LEMMA ChainExists ==
  ASSUME NEW sz \in [Addresses -> Nat], Inside(sz)
  PROVE  \E f : Solves(f, sz)
  <1> DEFINE Low(k) == {a \in Addresses : MaxUnits - a <= k}
             Partly(f, k) == f = [b \in Low(k) |-> IF sz[b] = 0 THEN {b}
                                                   ELSE {b} \cup f[b + 1 + sz[b]]]
             T == {k \in Nat : \E f : Partly(f, k)}
  <1>1. 0 \in T
    <2>1. Low(0) = {}
      BY SizesAssumption DEF Addresses
    <2>2. Partly([b \in {} |-> b], 0)
      BY <2>1
    <2> HIDE DEF Partly
    <2>3. QED
      BY <2>2
  <1>2. ASSUME NEW k \in Nat, k \in T
        PROVE  k + 1 \in T
    <2>1. PICK f : Partly(f, k)
      BY <1>2
    <2> DEFINE g == [b \in Low(k + 1) |-> IF b \in Low(k) THEN f[b]
                       ELSE IF sz[b] = 0 THEN {b} ELSE {b} \cup f[b + 1 + sz[b]]]
    <2>2. \A b \in Low(k + 1) : sz[b] # 0 => b + 1 + sz[b] \in Low(k)
      BY SizesAssumption DEF Addresses, Inside
    <2>3. \A b \in Low(k) : b \in Low(k + 1) /\ f[b] = IF sz[b] = 0 THEN {b} ELSE {b} \cup f[b + 1 + sz[b]]
      <3>1. Low(k) \subseteq Low(k + 1)
        BY SizesAssumption DEF Addresses
      <3> HIDE DEF Low
      <3>2. QED
        BY <2>1, <3>1
    <2>4. ASSUME NEW b \in Low(k + 1)
          PROVE  g[b] = IF sz[b] = 0 THEN {b} ELSE {b} \cup g[b + 1 + sz[b]]
      <3>1. sz[b] # 0 => g[b + 1 + sz[b]] = f[b + 1 + sz[b]]
        <4> HIDE DEF Low
        <4>1. QED
          BY <2>2, <2>3
      <3>2. g[b] = IF sz[b] = 0 THEN {b} ELSE {b} \cup f[b + 1 + sz[b]]
        <4> HIDE DEF Low
        <4>1. QED
          BY <2>3
      <3> HIDE DEF g, Low
      <3>3. QED
        BY <3>1, <3>2
    <2>5. Partly(g, k + 1)
      <3>1. g = [b \in Low(k + 1) |-> g[b]]
        BY ZenonT(60)
      <3> HIDE DEF g, Low
      <3>2. QED
        BY <2>4, <3>1
    <2> HIDE DEF Partly, g
    <2>6. QED
      BY <2>5
  <1> HIDE DEF T
  <1>3. MaxUnits \in T
    BY <1>1, <1>2, NatSetInduction, SizesAssumption
  <1>4. PICK f : Partly(f, MaxUnits)
    BY <1>3 DEF T
  <1>5. Low(MaxUnits) = Addresses
    BY SizesAssumption DEF Addresses
  <1>6. Solves(f, sz)
    BY <1>4, <1>5 DEF Solves
  <1>7. QED
    BY <1>6

LEMMA ChainStep ==
  ASSUME NEW sz \in [Addresses -> Nat], Inside(sz), NEW b \in Addresses
  PROVE  ChainOf(sz)[b] = IF sz[b] = 0 THEN {b} ELSE {b} \cup ChainOf(sz)[b + 1 + sz[b]]
  <1>1. Solves(ChainOf(sz), sz)
    BY ChainExists DEF ChainOf
  <1> HIDE DEF ChainOf
  <1>2. QED
    BY <1>1 DEF Solves

\* The chain from an address is the least set that has it and is closed under the
\* headers: it is closed ...
LEMMA ChainClosed ==
  ASSUME NEW sz \in [Addresses -> Nat], Inside(sz), NEW b \in Addresses
  PROVE  /\ b \in ChainOf(sz)[b]
         /\ \A c \in ChainOf(sz)[b] : /\ c \in Addresses
                                      /\ sz[c] # 0 => c + 1 + sz[c] \in ChainOf(sz)[b]
  <1> DEFINE Good(a) == /\ a \in ChainOf(sz)[a]
                        /\ \A c \in ChainOf(sz)[a] :
                             c \in Addresses /\ (sz[c] # 0 => c + 1 + sz[c] \in ChainOf(sz)[a])
             T == {k \in Nat : \A a \in Addresses : MaxUnits - a <= k => Good(a)}
  <1>0. \A a \in Addresses : ChainOf(sz)[a] = IF sz[a] = 0 THEN {a} ELSE {a} \cup ChainOf(sz)[a + 1 + sz[a]]
    BY ChainStep
  <1>1. 0 \in T
    BY SizesAssumption DEF Addresses
  <1>2. ASSUME NEW k \in Nat, k \in T
        PROVE  k + 1 \in T
    <2>1. ASSUME NEW a \in Addresses, MaxUnits - a <= k + 1
          PROVE  Good(a)
      <3>1. CASE sz[a] = 0
        <4>1. ChainOf(sz)[a] = {a}
          BY <1>0, <3>1
        <4>2. QED
          BY <3>1, <4>1
      <3>2. CASE sz[a] # 0
        <4> DEFINE n == a + 1 + sz[a]
        <4>1. n \in Addresses /\ MaxUnits - n <= k
          BY <2>1, <3>2, SizesAssumption DEF Addresses, Inside
        <4>2. Good(n)
          BY <1>2, <4>1
        <4>3. ChainOf(sz)[a] = {a} \cup ChainOf(sz)[n]
          BY <1>0, <3>2
        <4> HIDE DEF n
        <4>4. a + 1 + sz[a] = n
          BY DEF n
        <4>5. QED
          BY <4>2, <4>3, <4>4
      <3>3. QED
        BY <3>1, <3>2
    <2> HIDE DEF Good
    <2>2. QED
      BY <2>1
  <1> HIDE DEF T
  <1>3. MaxUnits \in T
    BY <1>1, <1>2, NatSetInduction, SizesAssumption
  <1>4. MaxUnits - b <= MaxUnits
    BY SizesAssumption DEF Addresses
  <1>5. Good(b)
    <2> HIDE DEF Good
    <2>1. QED
      BY <1>3, <1>4 DEF T
  <1>6. QED
    BY <1>5

\* ... and every closed set that has the address has its chain.
LEMMA ChainLeast ==
  ASSUME NEW sz \in [Addresses -> Nat], Inside(sz), NEW S \in SUBSET Addresses,
         \A c \in S : sz[c] # 0 => c + 1 + sz[c] \in S
  PROVE  \A b \in S : ChainOf(sz)[b] \subseteq S
  <1> DEFINE T == {k \in Nat : \A a \in S : MaxUnits - a <= k => ChainOf(sz)[a] \subseteq S}
  <1>0. \A a \in Addresses : ChainOf(sz)[a] = IF sz[a] = 0 THEN {a} ELSE {a} \cup ChainOf(sz)[a + 1 + sz[a]]
    BY ChainStep
  <1>1. 0 \in T
    BY SizesAssumption DEF Addresses
  <1>2. ASSUME NEW k \in Nat, k \in T
        PROVE  k + 1 \in T
    <2>1. ASSUME NEW a \in S, MaxUnits - a <= k + 1
          PROVE  ChainOf(sz)[a] \subseteq S
      <3>1. CASE sz[a] = 0
        BY <1>0, <3>1
      <3>2. CASE sz[a] # 0
        <4>1. a + 1 + sz[a] \in S /\ MaxUnits - (a + 1 + sz[a]) <= k
          BY <2>1, <3>2, SizesAssumption DEF Addresses, Inside
        <4>2. ChainOf(sz)[a + 1 + sz[a]] \subseteq S
          BY <1>2, <4>1
        <4>3. QED
          BY <1>0, <3>2, <4>2
      <3>3. QED
        BY <3>1, <3>2
    <2>2. QED
      BY <2>1
  <1> HIDE DEF T
  <1>3. MaxUnits \in T
    BY <1>1, <1>2, NatSetInduction, SizesAssumption
  <1>4. \A b \in S : MaxUnits - b <= MaxUnits
    BY SizesAssumption DEF Addresses
  <1>5. QED
    BY <1>3, <1>4 DEF T
-----------------------------------------------------------------------------
(***************************************************************************)
(* Tiles.                                                                  *)
(***************************************************************************)
\* The blocks of a tiling are what the headers lead to, and from the first header of
\* a page they lead to its last.
LEMMA TilesChain ==
  ASSUME NEW sz \in [Addresses -> Nat], NEW pv, NEW pgs \in Seq(Addresses),
         NEW tp \in 0 .. MaxUnits, NEW B, Tiles(sz, pv, pgs, tp, B)
  PROVE  /\ B = BlocksOf(sz, pgs)
         /\ \A i \in DOMAIN pgs : PageEnd(pgs, tp, i) - 1 \in ChainOf(sz)[pgs[i]]
  <1> DEFINE C == ChainOf(sz)
  <1>1. Inside(sz) /\ B \subseteq Addresses
    BY SizesAssumption DEF Tiles, Inside, Addresses
  <1>2. \A b \in Range(pgs) : C[b] \subseteq B
    <2>1. \A c \in B : sz[c] # 0 => c + 1 + sz[c] \in B
      BY DEF Tiles
    <2>2. \A b \in B : C[b] \subseteq B
      BY <1>1, <2>1, ChainLeast
    <2>3. Range(pgs) \subseteq B
      BY DEF Tiles
    <2>4. QED
      BY <2>2, <2>3
  <1>3. \A b \in Addresses : b \in C[b] /\ \A c \in C[b] : sz[c] # 0 => c + 1 + sz[c] \in C[b]
    BY <1>1, ChainClosed
  <1> HIDE DEF C
  <1>4. B \subseteq BlocksOf(sz, pgs)
    <2> DEFINE T == {k \in Nat : \A b \in B : b < k => b \in BlocksOf(sz, pgs)}
    <2>1. 0 \in T
      BY <1>1, SizesAssumption DEF Addresses
    <2>2. ASSUME NEW k \in Nat, k \in T
          PROVE  k + 1 \in T
      <3>1. ASSUME NEW b \in B, b < k + 1
            PROVE  b \in BlocksOf(sz, pgs)
        <4>1. CASE b \in Range(pgs)
          BY <1>1, <1>3, <4>1 DEF BlocksOf, C
        <4>2. CASE b \notin Range(pgs)
          <5>1. pv[b] \in B /\ sz[pv[b]] # 0 /\ pv[b] + 1 + sz[pv[b]] = b
            BY <4>2 DEF Tiles
          <5>2. pv[b] < k
            <6>1. pv[b] \in Addresses /\ b \in Addresses
              BY <1>1, <5>1
            <6>2. pv[b] \in Nat /\ b \in Nat /\ sz[pv[b]] \in Nat
              BY <6>1, SizesAssumption DEF Addresses
            <6>3. QED
              BY <3>1, <5>1, <6>2
          <5>3. PICK a \in Range(pgs) : pv[b] \in C[a]
            BY <2>2, <5>1, <5>2 DEF BlocksOf, C
          <5>4. a \in Addresses
            BY <1>1 DEF Tiles
          <5>5. b \in C[a]
            BY <1>3, <5>1, <5>3, <5>4
          <5>6. QED
            BY <5>5 DEF BlocksOf, C
        <4>3. QED
          BY <4>1, <4>2
      <3>2. QED
        BY <3>1
    <2> HIDE DEF T
    <2>3. MaxUnits \in T
      BY <2>1, <2>2, NatSetInduction, SizesAssumption
    <2>4. \A b \in B : b < MaxUnits
      BY <1>1, SizesAssumption DEF Addresses
    <2>5. QED
      BY <2>3, <2>4 DEF T
  <1>5. ASSUME NEW i \in DOMAIN pgs
        PROVE  PageEnd(pgs, tp, i) - 1 \in C[pgs[i]]
    <2> DEFINE last == PageEnd(pgs, tp, i) - 1
               T == {k \in Nat : \A b \in B : pgs[i] <= b /\ b <= last /\ last - b <= k
                                                => last \in C[b]}
    <2>1. /\ pgs[i] \in Range(pgs) /\ pgs[i] \in B /\ last \in B /\ B \subseteq Nat
          /\ pgs[i] <= last /\ PageEnd(pgs, tp, i) \in Int
      <3>1. pgs[i] \in Range(pgs)
        BY DEF Range
      <3>2. pgs[i] \in B /\ last \in B /\ B \subseteq Nat
        BY <1>1, <3>1, SizesAssumption DEF Tiles, Addresses
      <3>3. pgs[i] < PageEnd(pgs, tp, i)
        BY DEF Tiles
      <3>4. PageEnd(pgs, tp, i) \in Int
        <4>1. i \in 1 .. Len(pgs) /\ Len(pgs) \in Nat
          OBVIOUS
        <4>2. i # Len(pgs) => pgs[i + 1] \in Addresses
          BY <4>1
        <4>3. QED
          BY <4>2, SizesAssumption DEF PageEnd, Addresses
      <3>5. QED
        BY <3>1, <3>2, <3>3, <3>4
    <2>2. \A b \in B : pgs[i] <= b /\ b <= last =>
            /\ sz[b] = 0 <=> b = last
            /\ sz[b] # 0 => b + 1 + sz[b] \in B
            /\ b < last => b + 1 + sz[b] <= last
      <3>1. \A b \in B : b <= last => b < PageEnd(pgs, tp, i)
        BY <2>1
      <3>2. QED
        BY <2>1, <3>1 DEF Tiles
    <2> HIDE DEF last
    <2>3. \A b \in B : sz[b] \in Nat /\ b \in Nat /\ b \in Addresses
      BY <1>1, <2>1
    <2>4. 0 \in T
      BY <1>3, <2>1, <2>3
    <2>5. ASSUME NEW k \in Nat, k \in T
          PROVE  k + 1 \in T
      <3>1. ASSUME NEW b \in B, pgs[i] <= b, b <= last, last - b <= k + 1
            PROVE  last \in C[b]
        <4>1. CASE b = last
          BY <1>3, <2>3, <4>1
        <4>2. CASE b # last
          <5> DEFINE n == b + 1 + sz[b]
          <5>1. n \in B /\ pgs[i] <= n /\ n <= last /\ last - n <= k /\ sz[b] # 0
            <6>1. pgs[i] \in Nat /\ last \in Nat /\ b \in Nat /\ sz[b] \in Nat
              BY <2>1, <2>3
            <6>2. b < last
              BY <3>1, <4>2, <6>1
            <6>3. sz[b] # 0 /\ n \in B /\ n <= last
              BY <2>2, <3>1, <4>2, <6>2
            <6>4. QED
              BY <3>1, <6>1, <6>3
          <5>2. last \in C[n]
            BY <2>5, <5>1
          <5>3. C[b] = {b} \cup C[n]
            BY <1>1, <2>3, <5>1, ChainStep DEF C
          <5>4. QED
            BY <5>2, <5>3
        <4>3. QED
          BY <4>1, <4>2
      <3>2. QED
        BY <3>1
    <2>6. last - pgs[i] \in Nat /\ pgs[i] \in Nat /\ last \in Nat /\ pgs[i] <= last
      <3>1. pgs[i] \in Nat /\ last \in Nat /\ pgs[i] <= last
        BY <2>1
      <3>2. QED
        BY <3>1
    <2> HIDE DEF T
    <2>7. last - pgs[i] \in T
      BY <2>4, <2>5, <2>6, NatSetInduction
    <2>8. last \in C[pgs[i]]
      <3>1. \A b \in B : pgs[i] <= b /\ b <= last /\ last - b <= last - pgs[i] => last \in C[b]
        BY <2>7 DEF T
      <3>2. pgs[i] <= pgs[i] /\ last - pgs[i] <= last - pgs[i]
        BY <2>6
      <3>3. QED
        BY <2>1, <2>6, <3>1, <3>2
    <2>9. QED
      BY <2>8 DEF last
  <1>6. QED
    BY <1>2, <1>4, <1>5 DEF BlocksOf, C
\* A tiling without its definition: what the steps below use.
LEMMA TilesFacts ==
  ASSUME NEW sz \in [Addresses -> Nat], NEW pv, NEW pgs \in Seq(Addresses),
         NEW tp \in 0 .. MaxUnits, NEW B, Tiles(sz, pv, pgs, tp, B)
  PROVE  /\ B \subseteq Addresses /\ Range(pgs) \subseteq B
         /\ \A b \in B : b \in Nat /\ b < tp /\ sz[b] \in Nat /\ b + 1 + sz[b] <= tp
         /\ \A b \in B : sz[b] # 0 => /\ sz[b] > Limit /\ b + 1 + sz[b] \in B
                                      /\ b + 1 + sz[b] \notin Range(pgs)
                                      /\ pv[b + 1 + sz[b]] = b
         /\ \A i \in DOMAIN pgs : PageEnd(pgs, tp, i) \in Nat /\ pgs[i] \in B
  <1>1. B \subseteq Addresses /\ Range(pgs) \subseteq B
    BY SizesAssumption DEF Tiles, Addresses
  <1>2. \A b \in B : b \in Nat /\ b < tp /\ sz[b] \in Nat
    BY <1>1, SizesAssumption DEF Tiles, Addresses
  <1>3. ASSUME NEW b \in B, sz[b] # 0
        PROVE  /\ sz[b] > Limit /\ b + 1 + sz[b] \in B
               /\ b + 1 + sz[b] \notin Range(pgs) /\ pv[b + 1 + sz[b]] = b
    <2> DEFINE n == b + 1 + sz[b]
    <2>1. sz[b] > Limit /\ n \in B /\ n \notin Range(pgs)
      BY <1>3 DEF Tiles
    <2>2. pv[n] \in B /\ pv[n] + 1 + sz[pv[n]] = n
      BY <2>1 DEF Tiles
    <2>3. ~(pv[n] < b) /\ ~(b < pv[n])
      <3>1. \A x, y \in B : x < y => x + 1 + sz[x] <= y
        BY DEF Tiles
      <3>2. b \in Nat /\ pv[n] \in Nat /\ sz[b] \in Nat /\ sz[pv[n]] \in Nat
        BY <1>2, <2>2
      <3>3. QED
        BY <2>2, <3>1, <3>2
    <2>4. pv[n] = b
      BY <1>2, <2>2, <2>3
    <2>5. QED
      BY <2>1, <2>4
  <1>4. \A b \in B : b + 1 + sz[b] <= tp
    <2>1. \A b \in B : sz[b] # 0 => b + 1 + sz[b] < tp
      BY <1>2, <1>3
    <2>2. QED
      BY <1>2, <2>1
  <1>5. ASSUME NEW i \in DOMAIN pgs
        PROVE  PageEnd(pgs, tp, i) \in Nat /\ pgs[i] \in B
    <2>1. i \in 1 .. Len(pgs) /\ Len(pgs) \in Nat /\ pgs[i] \in Range(pgs)
      BY DEF Range
    <2>2. i # Len(pgs) => pgs[i + 1] \in Addresses
      BY <2>1
    <2>3. QED
      BY <1>1, <2>1, <2>2, SizesAssumption DEF PageEnd, Addresses
  <1>6. QED
    BY <1>1, <1>2, <1>3, <1>4, <1>5

\* doAllocation splits a block: its front keeps n units, the rest becomes a block.
LEMMA TilesSplit ==
  ASSUME NEW sz \in [Addresses -> Nat], NEW pv \in [Addresses -> Addresses \cup {Null}],
         NEW pgs \in Seq(Addresses), NEW tp \in 0 .. MaxUnits, NEW B,
         Tiles(sz, pv, pgs, tp, B),
         NEW b \in B, NEW n \in Nat, n > Limit, sz[b] > Limit + 1 + n
  PROVE  LET rest == b + 1 + n IN
         /\ rest \in Addresses \ B /\ b + 1 + sz[b] \in Addresses /\ rest < tp
         /\ Tiles([sz EXCEPT ![b] = n, ![rest] = sz[b] - n - 1],
                  [pv EXCEPT ![rest] = b, ![b + 1 + sz[b]] = rest], pgs, tp, B \cup {rest})
  <1> DEFINE rest == b + 1 + n
             next == b + 1 + sz[b]
             nsz == [sz EXCEPT ![b] = n, ![rest] = sz[b] - n - 1]
             npv == [pv EXCEPT ![rest] = b, ![next] = rest]
             nB == B \cup {rest}
  <1>1. /\ B \subseteq Addresses /\ Range(pgs) \subseteq B
        /\ \A c \in B : c \in Nat /\ c < tp /\ sz[c] \in Nat /\ c + 1 + sz[c] <= tp
        /\ \A c \in B : sz[c] # 0 => /\ sz[c] > Limit /\ c + 1 + sz[c] \in B
                                     /\ c + 1 + sz[c] \notin Range(pgs)
                                     /\ pv[c + 1 + sz[c]] = c
        /\ \A i \in DOMAIN pgs : PageEnd(pgs, tp, i) \in Nat /\ pgs[i] \in B
    BY TilesFacts
  <1>2. /\ Limit \in Nat /\ MaxUnits \in Nat /\ tp \in Nat /\ tp <= MaxUnits
        /\ b \in Nat /\ sz[b] \in Nat /\ sz[b] # 0 /\ sz[b] - n - 1 \in Nat /\ sz[b] - n - 1 > Limit
        /\ rest \in Nat /\ next \in Nat /\ b < rest /\ rest < next
        /\ next \in B /\ next \notin Range(pgs) /\ next < tp
        /\ rest + 1 + (sz[b] - n - 1) = next
        /\ n # 0 /\ rest = b + 1 + n
    <2>1. Limit \in Nat /\ MaxUnits \in Nat /\ tp \in Nat /\ tp <= MaxUnits
      BY SizesAssumption
    <2>2. b \in Nat /\ sz[b] \in Nat
      BY <1>1
    <2>3. sz[b] # 0
      BY <2>1, <2>2
    <2>4. next \in B /\ next \notin Range(pgs)
      BY <1>1, <2>3
    <2>5. next < tp
      BY <1>1, <2>4
    <2>6. rest = b + 1 + n /\ next = b + 1 + sz[b]
      OBVIOUS
    <2> HIDE DEF next, rest
    <2>7. rest \in Nat /\ next \in Nat /\ b < rest /\ rest < next
      BY <2>1, <2>2, <2>6
    <2>8. n # 0 /\ sz[b] - n - 1 \in Nat /\ sz[b] - n - 1 > Limit
      BY <2>1, <2>2
    <2>9. rest + 1 + (sz[b] - n - 1) = next
      <3> DEFINE m == sz[b]
      <3>1. m \in Nat /\ rest = b + 1 + n /\ next = b + 1 + m
        BY <2>2, <2>6
      <3> HIDE DEF m
      <3>2. rest + 1 + (m - n - 1) = next
        BY <2>2, <3>1
      <3>3. QED
        BY <3>2 DEF m
    <2>10. QED
      BY <2>1, <2>2, <2>3, <2>4, <2>5, <2>6, <2>7, <2>8, <2>9
  <1>0. next = b + 1 + sz[b]
    OBVIOUS
  <1> HIDE DEF rest, next
  <1>3. \A c, d \in B : c < d => c + 1 + sz[c] <= d
    BY DEF Tiles
  <1>4. rest \in Addresses /\ rest \notin B /\ rest < tp /\ rest # b /\ rest # next /\ next # b
    <2>1. rest \notin B
      BY <1>0, <1>2, <1>3
    <2>2. rest \in 0 .. MaxUnits - 1
      BY <1>2
    <2>3. QED
      BY <1>2, <2>1, <2>2 DEF Addresses
  <1>5. /\ nsz[b] = n /\ nsz[rest] = sz[b] - n - 1
        /\ \A c \in Addresses : c # b /\ c # rest => nsz[c] = sz[c]
        /\ npv[rest] = b /\ npv[next] = rest
        /\ \A c \in Addresses : c # rest /\ c # next => npv[c] = pv[c]
    BY <1>1, <1>2, <1>4, ZenonT(60)
  <1> HIDE DEF nsz, npv
  <1>6. b + 1 + nsz[b] = rest /\ rest + 1 + nsz[rest] = next /\ b + 1 + sz[b] = next
    BY <1>0, <1>2, <1>5
  <1>7. \A c \in B : c # b => nsz[c] = sz[c]
    BY <1>1, <1>4, <1>5
  <1>8. nB \subseteq 0 .. tp - 1 /\ Range(pgs) \subseteq nB
    <2>1. rest \in 0 .. tp - 1
      BY <1>2, <1>4
    <2>2. B \subseteq 0 .. tp - 1
      BY DEF Tiles
    <2>3. QED
      BY <1>1, <2>1, <2>2
  <1>9. \A a \in Addresses : nsz[a] # 0 => a + 1 + nsz[a] < tp
    <2>1. \A a \in Addresses : sz[a] # 0 => a + 1 + sz[a] < tp
      BY DEF Tiles
    <2>2. QED
      BY <1>2, <1>4, <1>5, <1>6, <2>1
  <1>10. \A c \in nB : nsz[c] # 0 => nsz[c] > Limit /\ c + 1 + nsz[c] \in nB \ Range(pgs)
    BY <1>1, <1>2, <1>4, <1>5, <1>6, <1>7, ZenonT(150)
  <1>11. ASSUME NEW c \in nB, NEW d \in nB, c < d
         PROVE  c + 1 + nsz[c] <= d
    <2>1. c \in Nat /\ d \in Nat
      BY <1>1, <1>2
    <2>2. CASE c = rest
      <3>1. d \in B /\ b < d
        BY <1>1, <1>2, <1>11, <2>1, <2>2
      <3>2. QED
        BY <1>3, <1>6, <2>2, <3>1
    <2>3. CASE c = b
      <3>1. d \in B => next <= d
        BY <1>3, <1>6, <1>11, <2>3
      <3>2. d = rest \/ d \in B
        OBVIOUS
      <3>3. QED
        BY <1>2, <1>6, <2>1, <2>3, <3>1, <3>2
    <2>4. CASE c # rest /\ c # b /\ d = rest
      <3>1. c \in B /\ nsz[c] = sz[c] /\ sz[c] \in Nat
        BY <1>1, <1>7, <2>4
      <3>2. c < b
        <4>1. b < c => next <= c
          BY <1>3, <1>6, <3>1
        <4>2. QED
          BY <1>2, <1>11, <2>1, <2>4, <4>1
      <3>3. c + 1 + sz[c] <= b
        BY <1>3, <3>1, <3>2
      <3>4. QED
        BY <1>2, <2>1, <2>4, <3>1, <3>3
    <2>5. CASE c # rest /\ c # b /\ d # rest
      BY <1>3, <1>7, <1>11, <2>5
    <2>6. QED
      BY <2>2, <2>3, <2>4, <2>5
  <1>12. ASSUME NEW i \in DOMAIN pgs
         PROVE  /\ pgs[i] < PageEnd(pgs, tp, i) /\ PageEnd(pgs, tp, i) - 1 \in nB
                /\ \A c \in nB : pgs[i] <= c /\ c < PageEnd(pgs, tp, i) =>
                     (nsz[c] = 0 <=> c = PageEnd(pgs, tp, i) - 1)
    <2>1. /\ pgs[i] < PageEnd(pgs, tp, i) /\ PageEnd(pgs, tp, i) - 1 \in B
          /\ \A c \in B : pgs[i] <= c /\ c < PageEnd(pgs, tp, i) =>
               (sz[c] = 0 <=> c = PageEnd(pgs, tp, i) - 1)
      BY DEF Tiles
    <2>2. nsz[rest] # 0 /\ nsz[b] # 0 /\ rest # PageEnd(pgs, tp, i) - 1
      BY <1>2, <1>4, <1>5, <2>1
    <2>3. QED
      BY <1>2, <1>7, <2>1, <2>2
  <1>13. \A c \in nB : c \in Range(pgs) => npv[c] = Null
    <2>1. \A c \in B : c \in Range(pgs) => pv[c] = Null
      BY DEF Tiles
    <2>2. QED
      BY <1>1, <1>2, <1>4, <1>5, <2>1, ZenonT(150)
  <1>14. ASSUME NEW c \in nB, c \notin Range(pgs)
         PROVE  npv[c] \in nB /\ nsz[npv[c]] # 0 /\ npv[c] + 1 + nsz[npv[c]] = c
    <2>1. CASE c = rest
      <3>1. npv[c] = b /\ nsz[b] = n /\ b + 1 + nsz[b] = c
        BY <1>5, <1>6, <2>1
      <3>2. QED
        BY <1>2, <3>1
    <2>2. CASE c = next
      <3>1. npv[c] = rest /\ nsz[rest] = sz[b] - n - 1 /\ rest + 1 + nsz[rest] = c
        BY <1>5, <1>6, <2>2
      <3>2. nsz[rest] # 0
        BY <1>2, <3>1
      <3>3. QED
        BY <3>1, <3>2
    <2>3. CASE c # rest /\ c # next
      <3>1. c \in B /\ npv[c] = pv[c]
        BY <1>1, <1>5, <2>3
      <3>2. pv[c] \in B /\ sz[pv[c]] # 0 /\ pv[c] + 1 + sz[pv[c]] = c
        BY <1>14, <3>1 DEF Tiles
      <3>3. pv[c] # b
        BY <1>6, <2>3, <3>2
      <3>4. QED
        BY <1>7, <3>1, <3>2, <3>3
    <2>4. QED
      BY <2>1, <2>2, <2>3
  <1>15. (pgs = <<>> => tp = 0) /\ (pgs # <<>> => pgs[1] = 0)
    BY DEF Tiles
  <1>16. Tiles(nsz, npv, pgs, tp, nB)
    BY <1>8, <1>9, <1>10, <1>11, <1>12, <1>13, <1>14, <1>15 DEF Tiles
  <1>17. QED
    BY <1>1, <1>2, <1>4, <1>16 DEF nsz, npv, rest, next
\* A new page is one block and the header of size zero at its end.
LEMMA TilesMap ==
  ASSUME NEW sz \in [Addresses -> Nat], NEW pv \in [Addresses -> Addresses \cup {Null}],
         NEW pgs \in Seq(Addresses), NEW tp \in 0 .. MaxUnits, NEW B,
         Tiles(sz, pv, pgs, tp, B),
         NEW m \in Nat, m - 2 > Limit, tp + m <= MaxUnits
  PROVE  LET last == tp + m - 1 IN
         /\ tp \in Addresses \ B /\ last \in Addresses \ B /\ tp # last
         /\ Append(pgs, tp) \in Seq(Addresses)
         /\ Tiles([sz EXCEPT ![tp] = m - 2, ![last] = 0], [pv EXCEPT ![tp] = Null, ![last] = tp],
                  Append(pgs, tp), tp + m, B \cup {tp, last})
  <1> DEFINE last == tp + m - 1
             nsz == [sz EXCEPT ![tp] = m - 2, ![last] = 0]
             npv == [pv EXCEPT ![tp] = Null, ![last] = tp]
             npgs == Append(pgs, tp)
             nB == B \cup {tp, last}
  <1>1. /\ B \subseteq Addresses /\ Range(pgs) \subseteq B
        /\ \A c \in B : c \in Nat /\ c < tp /\ sz[c] \in Nat /\ c + 1 + sz[c] <= tp
        /\ \A c \in B : sz[c] # 0 => /\ sz[c] > Limit /\ c + 1 + sz[c] \in B
                                     /\ c + 1 + sz[c] \notin Range(pgs)
                                     /\ pv[c + 1 + sz[c]] = c
        /\ \A i \in DOMAIN pgs : PageEnd(pgs, tp, i) \in Nat /\ pgs[i] \in B
    BY TilesFacts
  <1>2. /\ Limit \in Nat /\ MaxUnits \in Nat /\ tp \in Nat /\ m \in Nat
        /\ last = tp + m - 1 /\ last \in Nat /\ tp < last /\ last < MaxUnits
        /\ m - 2 \in Nat /\ m - 2 # 0 /\ m - 2 > Limit /\ tp + 1 + (m - 2) = last /\ last < tp + m
    BY SizesAssumption
  <1> HIDE DEF last
  <1>3. /\ tp \in Addresses /\ last \in Addresses /\ tp \notin B /\ last \notin B /\ tp # last
    BY <1>1, <1>2 DEF Addresses
  <1>4. /\ nsz[tp] = m - 2 /\ nsz[last] = 0 /\ npv[tp] = Null /\ npv[last] = tp
        /\ \A c \in Addresses : c # tp /\ c # last => nsz[c] = sz[c] /\ npv[c] = pv[c]
    BY <1>3
  <1> HIDE DEF nsz, npv
  <1>5. \A c \in B : nsz[c] = sz[c] /\ npv[c] = pv[c]
    BY <1>1, <1>3, <1>4
  <1>6. /\ npgs \in Seq(Addresses) /\ Len(npgs) = Len(pgs) + 1 /\ Len(pgs) \in Nat
        /\ DOMAIN npgs = 1 .. Len(pgs) + 1 /\ DOMAIN pgs = 1 .. Len(pgs)
        /\ npgs[Len(pgs) + 1] = tp /\ \A i \in 1 .. Len(pgs) : npgs[i] = pgs[i]
    BY <1>3
  <1>7. Range(npgs) = Range(pgs) \cup {tp}
    BY <1>3, RangeAppend
  <1> HIDE DEF npgs
  <1>8. nB \subseteq 0 .. (tp + m) - 1 /\ Range(npgs) \subseteq nB
    <2>1. nB \subseteq 0 .. (tp + m) - 1
      BY <1>1, <1>2
    <2>2. QED
      BY <1>1, <1>7, <2>1
  <1>9. \A a \in Addresses : nsz[a] # 0 => a + 1 + nsz[a] < tp + m
    <2>1. \A a \in Addresses : sz[a] # 0 => a + 1 + sz[a] < tp
      BY DEF Tiles
    <2>2. \A a \in Addresses : a \in Nat /\ sz[a] \in Nat
      BY SizesAssumption DEF Addresses
    <2>3. ASSUME NEW a \in Addresses, nsz[a] # 0
          PROVE  a + 1 + nsz[a] < tp + m
      <3>1. CASE a = tp
        BY <1>2, <1>4, <3>1
      <3>2. CASE a # tp
        <4>1. nsz[a] = sz[a]
          BY <1>4, <2>3, <3>2
        <4>2. QED
          BY <1>2, <2>1, <2>2, <2>3, <4>1
      <3>3. QED
        BY <3>1, <3>2
    <2>4. QED
      BY <2>3
  <1>10. \A c \in nB : nsz[c] # 0 => nsz[c] > Limit /\ c + 1 + nsz[c] \in nB \ Range(npgs)
    <2>1. ASSUME NEW c \in B, nsz[c] # 0
          PROVE  nsz[c] > Limit /\ c + 1 + nsz[c] \in nB \ Range(npgs)
      <3>1. nsz[c] = sz[c] /\ c + 1 + sz[c] \in B
        BY <1>1, <1>5, <2>1
      <3>2. c + 1 + sz[c] # tp
        BY <1>3, <3>1
      <3>3. QED
        BY <1>1, <1>7, <2>1, <3>1, <3>2
    <2>2. last \notin Range(npgs)
      BY <1>1, <1>3, <1>7
    <2>3. QED
      BY <1>2, <1>4, <2>1, <2>2
  <1>11. ASSUME NEW c \in nB, NEW d \in nB, c < d
         PROVE  c + 1 + nsz[c] <= d
    <2>1. \A x, y \in B : x < y => x + 1 + sz[x] <= y
      BY DEF Tiles
    <2>2. CASE c \in B /\ d \in B
      BY <1>5, <1>11, <2>1, <2>2
    <2>3. CASE c \in B /\ d \notin B
      <3>1. tp <= d
        BY <1>2, <2>3
      <3>2. nsz[c] = sz[c] /\ c + 1 + sz[c] <= tp /\ c \in Nat /\ sz[c] \in Nat /\ d \in Nat
        BY <1>1, <1>2, <1>5, <2>3
      <3>3. QED
        BY <1>2, <3>1, <3>2
    <2>4. CASE c \notin B
      <3>1. c = tp /\ d = last
        <4>1. d \in B => d < tp /\ d \in Nat
          BY <1>1
        <4>2. QED
          BY <1>2, <1>11, <2>4, <4>1
      <3>2. QED
        BY <1>2, <1>4, <3>1
    <2>5. QED
      BY <2>2, <2>3, <2>4
  <1>12. ASSUME NEW i \in DOMAIN npgs
         PROVE  /\ npgs[i] < PageEnd(npgs, tp + m, i) /\ PageEnd(npgs, tp + m, i) - 1 \in nB
                /\ \A c \in nB : npgs[i] <= c /\ c < PageEnd(npgs, tp + m, i) =>
                     (nsz[c] = 0 <=> c = PageEnd(npgs, tp + m, i) - 1)
    <2>1. CASE i = Len(pgs) + 1
      <3>1. npgs[i] = tp /\ PageEnd(npgs, tp + m, i) = tp + m
        BY <1>6, <2>1 DEF PageEnd
      <3>2. (tp + m) - 1 = last /\ tp < tp + m
        BY <1>2
      <3>3. \A c \in nB : tp <= c => c = tp \/ c = last
        BY <1>1, <1>2
      <3>4. \A c \in nB : tp <= c => (nsz[c] = 0 <=> c = last)
        BY <1>2, <1>4, <3>3
      <3>5. QED
        BY <3>1, <3>2, <3>4
    <2>2. CASE i # Len(pgs) + 1
      <3>1. i \in DOMAIN pgs /\ i \in 1 .. Len(pgs)
        BY <1>6, <2>2
      <3>2. PageEnd(npgs, tp + m, i) = PageEnd(pgs, tp, i) /\ npgs[i] = pgs[i]
        <4>1. CASE i = Len(pgs)
          <5>1. i # Len(npgs) /\ npgs[i + 1] = tp
            <6> DEFINE n == Len(pgs)
            <6>1. n \in Nat /\ i = n /\ Len(npgs) = n + 1 /\ npgs[n + 1] = tp
              BY <1>6, <4>1
            <6> HIDE DEF n
            <6>2. i # Len(npgs)
              BY <6>1
            <6>3. npgs[i + 1] = tp
              BY <6>1
            <6>4. QED
              BY <6>2, <6>3
          <5>2. QED
            BY <1>6, <3>1, <4>1, <5>1, ZenonT(60) DEF PageEnd
        <4>2. CASE i # Len(pgs)
          <5>1. i # Len(npgs) /\ npgs[i + 1] = pgs[i + 1]
            BY <1>6, <3>1, <4>2
          <5>2. QED
            BY <1>6, <3>1, <4>2, <5>1 DEF PageEnd
        <4>3. QED
          BY <4>1, <4>2
      <3>3. /\ pgs[i] < PageEnd(pgs, tp, i) /\ PageEnd(pgs, tp, i) - 1 \in B
            /\ \A c \in B : pgs[i] <= c /\ c < PageEnd(pgs, tp, i) =>
                 (sz[c] = 0 <=> c = PageEnd(pgs, tp, i) - 1)
        BY <3>1 DEF Tiles
      <3>4. PageEnd(pgs, tp, i) <= tp
        <4>1. PageEnd(pgs, tp, i) \in Nat /\ PageEnd(pgs, tp, i) - 1 < tp
          BY <1>1, <3>1, <3>3
        <4>2. QED
          BY <1>2, <4>1
      <3>5. \A c \in nB : c < PageEnd(pgs, tp, i) => c \in B
        <4>1. PageEnd(pgs, tp, i) \in Nat
          BY <1>1, <3>1
        <4>2. QED
          BY <1>2, <3>4, <4>1
      <3>6. QED
        BY <1>5, <3>2, <3>3, <3>5, ZenonT(60)
    <2>3. QED
      BY <2>1, <2>2
  <1>13. \A c \in nB : c \in Range(npgs) => npv[c] = Null
    <2>1. \A c \in B : c \in Range(pgs) => pv[c] = Null
      BY DEF Tiles
    <2>2. QED
      BY <1>1, <1>3, <1>4, <1>5, <1>7, <2>1
  <1>14. ASSUME NEW c \in nB, c \notin Range(npgs)
         PROVE  npv[c] \in nB /\ nsz[npv[c]] # 0 /\ npv[c] + 1 + nsz[npv[c]] = c
    <2>1. CASE c = last
      <3>1. npv[c] = tp /\ nsz[tp] = m - 2
        BY <1>4, <2>1
      <3>2. QED
        BY <1>2, <2>1, <3>1
    <2>2. CASE c # last
      <3>1. c \in B /\ npv[c] = pv[c] /\ c \notin Range(pgs)
        BY <1>5, <1>7, <1>14, <2>2
      <3>2. pv[c] \in B /\ sz[pv[c]] # 0 /\ pv[c] + 1 + sz[pv[c]] = c
        BY <3>1 DEF Tiles
      <3>3. QED
        BY <1>5, <3>1, <3>2
    <2>3. QED
      BY <2>1, <2>2
  <1>15. npgs # <<>> /\ npgs[1] = 0
    <2>1. CASE pgs = <<>>
      BY <1>6, <2>1 DEF Tiles
    <2>2. CASE pgs # <<>>
      <3>1. 1 \in 1 .. Len(pgs)
        BY <1>6, <2>2
      <3>2. QED
        BY <1>6, <2>2, <3>1 DEF Tiles
    <2>3. QED
      BY <1>6, <2>1, <2>2
  <1>16. Tiles(nsz, npv, npgs, tp + m, nB)
    BY <1>8, <1>9, <1>10, <1>11, <1>12, <1>13, <1>14, <1>15 DEF Tiles
  <1>17. QED
    BY <1>3, <1>6, <1>16 DEF nsz, npv, npgs, last

\* What free() is called with: two blocks of a page with no last block between them.
CanMerge(sz, pv, pgs, tp, B, first, after) ==
  /\ sz \in [Addresses -> Nat] /\ pv \in [Addresses -> Addresses \cup {Null}]
  /\ pgs \in Seq(Addresses) /\ tp \in 0 .. MaxUnits
  /\ Tiles(sz, pv, pgs, tp, B)
  /\ first \in B /\ after \in B \ Range(pgs) /\ first < after /\ sz[first] # 0
  /\ \A c \in B : first < c /\ c < after => sz[c] # 0 /\ c \notin Range(pgs)

\* The blocks that remain.
Kept(B, first, after) == {c \in B : c <= first \/ after <= c}

\* free() extends the first of them up to the other.
LEMMA TilesMerge ==
  ASSUME NEW sz, NEW pv, NEW pgs, NEW tp, NEW B, NEW first, NEW after,
         CanMerge(sz, pv, pgs, tp, B, first, after)
  PROVE  /\ after - first - 1 \in Nat /\ after - first - 1 >= sz[first]
         /\ Tiles([sz EXCEPT ![first] = after - first - 1], [pv EXCEPT ![after] = first],
                  pgs, tp, Kept(B, first, after))
  <1> SUFFICES
        ASSUME sz \in [Addresses -> Nat], pv \in [Addresses -> Addresses \cup {Null}],
               pgs \in Seq(Addresses), tp \in 0 .. MaxUnits, Tiles(sz, pv, pgs, tp, B),
               first \in B, after \in B \ Range(pgs), first < after, sz[first] # 0,
               \A c \in B : first < c /\ c < after => sz[c] # 0 /\ c \notin Range(pgs)
        PROVE  /\ after - first - 1 \in Nat /\ after - first - 1 >= sz[first]
               /\ Tiles([sz EXCEPT ![first] = after - first - 1], [pv EXCEPT ![after] = first],
                        pgs, tp, {c \in B : c <= first \/ after <= c})
    BY DEF CanMerge, Kept
  <1> DEFINE n == after - first - 1
             nsz == [sz EXCEPT ![first] = n]
             npv == [pv EXCEPT ![after] = first]
             nB == {c \in B : c <= first \/ after <= c}
  <1>1. /\ B \subseteq Addresses /\ Range(pgs) \subseteq B
        /\ \A c \in B : c \in Nat /\ c < tp /\ sz[c] \in Nat /\ c + 1 + sz[c] <= tp
        /\ \A c \in B : sz[c] # 0 => /\ sz[c] > Limit /\ c + 1 + sz[c] \in B
                                     /\ c + 1 + sz[c] \notin Range(pgs)
                                     /\ pv[c + 1 + sz[c]] = c
        /\ \A i \in DOMAIN pgs : PageEnd(pgs, tp, i) \in Nat /\ pgs[i] \in B
    BY TilesFacts
  <1>2. \A c, d \in B : c < d => c + 1 + sz[c] <= d
    BY DEF Tiles
  <1>3. /\ Limit \in Nat /\ tp \in Nat /\ first \in Nat /\ after \in Nat /\ sz[first] \in Nat
        /\ sz[first] > Limit /\ first + 1 + sz[first] <= after /\ after < tp
    BY <1>1, <1>2, SizesAssumption
  <1>4. n \in Nat /\ n # 0 /\ n > Limit /\ n >= sz[first] /\ first + 1 + n = after
    BY <1>3
  <1> HIDE DEF n
  <1>5. /\ nsz[first] = n /\ \A c \in Addresses : c # first => nsz[c] = sz[c]
        /\ npv[after] = first /\ \A c \in Addresses : c # after => npv[c] = pv[c]
    BY <1>1
  <1> HIDE DEF nsz, npv
  <1>6. /\ nB \subseteq B /\ first \in nB /\ after \in nB
        /\ \A c \in nB : c # first => nsz[c] = sz[c]
    BY <1>1, <1>3, <1>5
  <1>7. nB \subseteq 0 .. tp - 1 /\ Range(pgs) \subseteq nB
    <2>1. ASSUME NEW c \in Range(pgs)
          PROVE  c \in nB
      <3>1. c \in B /\ c \in Nat
        BY <1>1
      <3>2. ~(first < c /\ c < after)
        BY <3>1
      <3>3. QED
        BY <1>3, <3>1, <3>2
    <2>2. B \subseteq 0 .. tp - 1
      BY DEF Tiles
    <2>3. QED
      BY <1>6, <2>1, <2>2
  <1>8. \A a \in Addresses : nsz[a] # 0 => a + 1 + nsz[a] < tp
    <2>1. \A a \in Addresses : sz[a] # 0 => a + 1 + sz[a] < tp
      BY DEF Tiles
    <2>2. QED
      BY <1>1, <1>3, <1>4, <1>5, <2>1
  <1>9. ASSUME NEW c \in nB, nsz[c] # 0
        PROVE  nsz[c] > Limit /\ c + 1 + nsz[c] \in nB \ Range(pgs)
    <2>1. CASE c = first
      BY <1>4, <1>5, <1>6, <2>1
    <2>2. CASE c # first
      <3>1. nsz[c] = sz[c] /\ c \in B /\ c \in Nat /\ sz[c] \in Nat
        BY <1>1, <1>6, <2>2
      <3>2. sz[c] > Limit /\ c + 1 + sz[c] \in B /\ c + 1 + sz[c] \notin Range(pgs)
        BY <1>1, <1>9, <3>1
      <3>3. c < first \/ after <= c
        BY <1>3, <2>2, <3>1
      <3>4. c < first => c + 1 + sz[c] <= first
        BY <1>2, <3>1
      <3>5. after <= c => after <= c + 1 + sz[c]
        BY <1>3, <3>1
      <3>6. QED
        BY <3>1, <3>2, <3>3, <3>4, <3>5
    <2>3. QED
      BY <2>1, <2>2
  <1>10. ASSUME NEW c \in nB, NEW d \in nB, c < d
         PROVE  c + 1 + nsz[c] <= d
    <2>1. c \in B /\ d \in B /\ c \in Nat /\ d \in Nat
      BY <1>1, <1>6
    <2>2. CASE c = first
      <3>1. after <= d
        BY <1>3, <1>10, <2>1, <2>2
      <3>2. QED
        BY <1>4, <1>5, <2>2, <3>1
    <2>3. CASE c # first
      BY <1>2, <1>6, <1>10, <2>1, <2>3
    <2>4. QED
      BY <2>2, <2>3
  <1>11. ASSUME NEW i \in DOMAIN pgs
         PROVE  /\ pgs[i] < PageEnd(pgs, tp, i) /\ PageEnd(pgs, tp, i) - 1 \in nB
                /\ \A c \in nB : pgs[i] <= c /\ c < PageEnd(pgs, tp, i) =>
                     (nsz[c] = 0 <=> c = PageEnd(pgs, tp, i) - 1)
    <2>1. /\ pgs[i] < PageEnd(pgs, tp, i) /\ PageEnd(pgs, tp, i) - 1 \in B
          /\ \A c \in B : pgs[i] <= c /\ c < PageEnd(pgs, tp, i) =>
               (sz[c] = 0 <=> c = PageEnd(pgs, tp, i) - 1)
      BY DEF Tiles
    <2> DEFINE end == PageEnd(pgs, tp, i)
    <2>2. end \in Nat /\ pgs[i] \in Nat
      BY <1>1
    <2> HIDE DEF end
    <2>3. sz[end - 1] = 0
      BY <2>1, <2>2 DEF end
    <2>4. end - 1 \in nB /\ end - 1 # first
      <3>1. end - 1 \in B /\ end - 1 \in Nat
        BY <1>1, <2>1 DEF end
      <3>2. end - 1 # first /\ ~(first < end - 1 /\ end - 1 < after)
        BY <2>3, <3>1
      <3>3. QED
        BY <1>3, <3>1, <3>2
    <2>5. ASSUME NEW c \in nB, pgs[i] <= c, c < end
          PROVE  nsz[c] = 0 <=> c = end - 1
      <3>1. CASE c = first
        BY <1>4, <1>5, <2>4, <3>1
      <3>2. CASE c # first
        BY <1>6, <2>1, <2>5, <3>2 DEF end
      <3>3. QED
        BY <3>1, <3>2
    <2>6. QED
      BY <2>1, <2>4, <2>5 DEF end
  <1>12. \A c \in nB : c \in Range(pgs) => npv[c] = Null
    <2>1. \A c \in B : c \in Range(pgs) => pv[c] = Null
      BY DEF Tiles
    <2>2. QED
      BY <1>1, <1>5, <1>6, <2>1
  <1>13. ASSUME NEW c \in nB, c \notin Range(pgs)
         PROVE  npv[c] \in nB /\ nsz[npv[c]] # 0 /\ npv[c] + 1 + nsz[npv[c]] = c
    <2>1. CASE c = after
      BY <1>4, <1>5, <1>6, <2>1
    <2>2. CASE c # after
      <3>1. npv[c] = pv[c] /\ c \in B /\ c \in Nat
        BY <1>1, <1>5, <1>6, <2>2
      <3>2. pv[c] \in B /\ sz[pv[c]] # 0 /\ pv[c] + 1 + sz[pv[c]] = c
        BY <1>13, <3>1 DEF Tiles
      <3>3. pv[c] \in Nat /\ sz[pv[c]] \in Nat /\ pv[c] < c
        <4>1. pv[c] \in Nat /\ sz[pv[c]] \in Nat
          BY <1>1, <3>2
        <4>2. QED
          BY <3>1, <3>2, <4>1
      <3>4. ~(first <= pv[c] /\ pv[c] < after)
        <4>1. pv[c] < after => c <= after
          BY <1>2, <3>2
        <4>2. c <= first \/ after <= c
          OBVIOUS
        <4>3. QED
          BY <1>3, <2>2, <3>1, <3>3, <4>1, <4>2
      <3>5. pv[c] \in nB /\ pv[c] # first
        BY <1>3, <3>2, <3>3, <3>4
      <3>6. QED
        BY <1>6, <3>1, <3>2, <3>5
    <2>3. QED
      BY <2>1, <2>2
  <1>14. (pgs = <<>> => tp = 0) /\ (pgs # <<>> => pgs[1] = 0)
    BY DEF Tiles
  <1>15. Tiles(nsz, npv, pgs, tp, nB)
    BY <1>7, <1>8, <1>9, <1>10, <1>11, <1>12, <1>13, <1>14 DEF Tiles
  <1>16. QED
    BY <1>4, <1>15 DEF nsz, npv, n

\* Headers inside of blocks do not matter.
LEMMA TilesForget ==
  ASSUME NEW sz, NEW pv, NEW pgs, NEW tp, NEW B, NEW nsz, NEW npv,
         B \subseteq Addresses, Tiles(sz, pv, pgs, tp, B),
         \A b \in B : nsz[b] = sz[b] /\ npv[b] = pv[b],
         \A a \in Addresses : nsz[a] = 0 \/ nsz[a] = sz[a]
  PROVE  Tiles(nsz, npv, pgs, tp, B)
  <1>1. \A b \in B : b \in Range(pgs) => npv[b] = Null
    BY DEF Tiles
  <1>2. \A b \in B : b \notin Range(pgs) => npv[b] \in B /\ nsz[npv[b]] # 0 /\ npv[b] + 1 + nsz[npv[b]] = b
    <2>1. \A b \in B : b \notin Range(pgs) => pv[b] \in B /\ sz[pv[b]] # 0 /\ pv[b] + 1 + sz[pv[b]] = b
      BY DEF Tiles
    <2>2. QED
      BY <2>1
  <1>3. \A b, c \in B : b < c => b + 1 + nsz[b] <= c
    BY DEF Tiles
  <1>4. \A i \in DOMAIN pgs :
         /\ pgs[i] < PageEnd(pgs, tp, i) /\ PageEnd(pgs, tp, i) - 1 \in B
         /\ \A b \in B : pgs[i] <= b /\ b < PageEnd(pgs, tp, i) =>
              (nsz[b] = 0 <=> b = PageEnd(pgs, tp, i) - 1)
    BY DEF Tiles
  <1>5. \A a \in Addresses : nsz[a] # 0 => a + 1 + nsz[a] < tp
    BY DEF Tiles
  <1>6. \A b \in B : nsz[b] # 0 => nsz[b] > Limit /\ b + 1 + nsz[b] \in B \ Range(pgs)
    BY DEF Tiles
  <1>7. QED
    BY <1>1, <1>2, <1>3, <1>4, <1>5, <1>6 DEF Tiles
-----------------------------------------------------------------------------
(***************************************************************************)
(* The inductive invariant.                                                *)
(***************************************************************************)
\* What a tiling says of the headers as they are.
LEMMA BlockFacts ==
  ASSUME IInv
  PROVE  /\ Blocks \subseteq Addresses /\ Range(pages) \subseteq Blocks
         /\ \A b \in Blocks : /\ b \in Nat /\ b < top /\ size[b] \in Nat
                              /\ Next(b) \in Nat /\ b < Next(b) /\ Next(b) <= top
         /\ \A b \in Blocks : size[b] # 0 => /\ size[b] > Limit /\ Next(b) \in Blocks
                                             /\ Next(b) \notin Range(pages) /\ previous[Next(b)] = b
         /\ \A b, c \in Blocks : b < c => Next(b) <= c
         /\ \A o \in Objects : o \in Blocks \ free
         /\ pc # "overrun" => \A o \in Objects : size[o] # 0 /\ size[o] >= request[o]
         /\ \A i \in DOMAIN pages : PageEnd(pages, top, i) \in Nat /\ pages[i] \in Blocks
  <1>1. /\ size \in [Addresses -> Nat] /\ pages \in Seq(Addresses) /\ top \in 0 .. MaxUnits
        /\ Tiles(size, previous, pages, top, Blocks)
    BY DEF IInv, TypeOK, Headers
  <1>2. /\ Blocks \subseteq Addresses /\ Range(pages) \subseteq Blocks
        /\ \A b \in Blocks : b \in Nat /\ b < top /\ size[b] \in Nat /\ b + 1 + size[b] <= top
        /\ \A b \in Blocks : size[b] # 0 => /\ size[b] > Limit /\ b + 1 + size[b] \in Blocks
                                            /\ b + 1 + size[b] \notin Range(pages)
                                            /\ previous[b + 1 + size[b]] = b
        /\ \A i \in DOMAIN pages : PageEnd(pages, top, i) \in Nat /\ pages[i] \in Blocks
    BY <1>1, TilesFacts
  <1>3. \A b \in Blocks : /\ b \in Nat /\ b < top /\ size[b] \in Nat
                          /\ Next(b) \in Nat /\ b < Next(b) /\ Next(b) <= top
    BY <1>2 DEF Next
  <1>4. \A b \in Blocks : size[b] # 0 => /\ size[b] > Limit /\ Next(b) \in Blocks
                                         /\ Next(b) \notin Range(pages) /\ previous[Next(b)] = b
    BY <1>2 DEF Next
  <1>5. \A b, c \in Blocks : b < c => Next(b) <= c
    BY <1>1 DEF Tiles, Next
  <1>6. /\ \A o \in Objects : o \in Blocks \ free
        /\ pc # "overrun" => \A o \in Objects : size[o] # 0 /\ size[o] >= request[o]
    <2>1. /\ \A o \in Objects : o \in Blocks \ free
          /\ pc # "overrun" => \A o \in Objects : size[o] >= request[o]
      BY DEF IInv, ObjectsHaveRoom, Overruns
    <2>2. \A o \in Objects : request[o] \in Nat \ {0} /\ size[o] \in Nat
      BY RequestsAssumption DEF IInv, TypeOK, Objects
    <2>3. QED
      BY <2>1, <2>2
  <1>7. QED
    BY <1>2, <1>3, <1>4, <1>5, <1>6, Zenon

\* The blocks after a step are what a tiling by the new headers says.
LEMMA NewBlocks ==
  ASSUME size' \in [Addresses -> Nat], pages' \in Seq(Addresses), top' \in 0 .. MaxUnits,
         NEW B, Tiles(size', previous', pages', top', B)
  PROVE  Blocks' = B
  <1>1. B = BlocksOf(size', pages')
    BY TilesChain
  <1>2. Blocks' = BlocksOf(size', pages')
    BY DEF Blocks, Chain, Next, BlocksOf, ChainOf, Solves
  <1>3. QED
    BY <1>1, <1>2

\* A step that leaves the headers and the objects alone.
LEMMA SameHeaders ==
  ASSUME UNCHANGED <<mapping, headers, request>>
  PROVE  /\ Blocks' = Blocks /\ Objects' = Objects
         /\ pc # "astray" /\ FreeBlocksIndexed => FreeBlocksIndexed'
         /\ Headers => Headers'
         /\ pc # "overrun" /\ ObjectsHaveRoom => ObjectsHaveRoom'
  <1>1. /\ pages' = pages /\ top' = top /\ size' = size /\ previous' = previous /\ free' = free
        /\ index' = index /\ heads' = heads /\ request' = request
    BY DEF mapping, headers
  <1>2. Blocks' = Blocks
    BY <1>1 DEF Blocks, Chain, Next
  <1>3. Objects' = Objects
    BY <1>1 DEF Objects
  <1>4. pc # "astray" /\ FreeBlocksIndexed => FreeBlocksIndexed'
    BY <1>1, <1>2 DEF FreeBlocksIndexed, Next, Twins
  <1>5. Headers => Headers'
    BY <1>1, <1>2 DEF Headers
  <1>6. pc # "overrun" /\ ObjectsHaveRoom => ObjectsHaveRoom'
    BY <1>1, <1>2, <1>3 DEF ObjectsHaveRoom, Overruns
  <1>7. QED
    BY <1>2, <1>3, <1>4, <1>5, <1>6

\* Memory comes in whole pages, at least one.
LEMMA MappedPositive ==
  \A n \in Requests : Mapped(n) \in Nat /\ Mapped(n) >= PageUnits /\ Mapped(n) - 2 > Limit
  <1> SUFFICES ASSUME NEW n \in Requests
               PROVE  Mapped(n) \in Nat /\ Mapped(n) >= PageUnits /\ Mapped(n) - 2 > Limit
    OBVIOUS
  <1>1. n \in Nat \ {0} /\ PageUnits \in Nat \ {0} /\ Limit \in Nat /\ PageUnits > Limit + 2
    BY SizesAssumption, RequestsAssumption
  <1> DEFINE q == (n + PageUnits - 1) \div PageUnits
  <1>2. q \in Nat \ {0}
    BY <1>1
  <1> HIDE DEF q
  <1>3. q * PageUnits \in Nat /\ q * PageUnits >= PageUnits
    BY <1>1, <1>2
  <1>4. Mapped(n) = q * PageUnits
    BY DEF Mapped, q
  <1>5. QED
    BY <1>1, <1>3, <1>4

\* In the beginning there is nothing.
LEMMA InitIInv == Init => IInv
  <1> SUFFICES ASSUME Init
               PROVE  IInv
    OBVIOUS
  <1>1. Blocks = {} /\ Objects = {}
    BY DEF Init, Blocks, Objects, Range
  <1>2. TypeOK
    BY SizesAssumption DEF Init, TypeOK, Addresses
  <1>3. FreeBlocksIndexed /\ ObjectsHaveRoom /\ NothingLeftUndestroyed
    BY <1>1 DEF Init, FreeBlocksIndexed, ObjectsHaveRoom, NothingLeftUndestroyed
  <1>4. Headers
    BY <1>1, SizesAssumption DEF Init, Headers, Tiles, Range, Addresses
  <1>5. Walk /\ Live
    BY <1>1 DEF Init, Walk, Live
  <1>6. QED
    BY <1>2, <1>3, <1>4, <1>5 DEF IInv

\* Of the blocks that are indexed those in tops are nodes: one of each size.
Rooted(indexed, tops, sz) ==
  tops \subseteq indexed /\ \A b \in indexed : \E c \in tops : {d \in tops : sz[d] = sz[b]} = {c}

\* A block that is no node, or that has no list, leaves.
LEMMA RootedRemove ==
  ASSUME NEW indexed, NEW tops, NEW sz, NEW b, Rooted(indexed, tops, sz),
         b \notin tops \/ \A c \in indexed \ {b} : sz[c] # sz[b]
  PROVE  Rooted(indexed \ {b}, tops \ {b}, sz)
  <1>1. ASSUME NEW x \in indexed \ {b}
        PROVE  \E c \in tops \ {b} : {d \in tops \ {b} : sz[d] = sz[x]} = {c}
    <2>1. PICK c \in tops : {d \in tops : sz[d] = sz[x]} = {c}
      BY DEF Rooted
    <2>2. b \notin {d \in tops : sz[d] = sz[x]}
      OBVIOUS
    <2>3. c \in tops \ {b} /\ {d \in tops \ {b} : sz[d] = sz[x]} = {c}
      BY <2>1, <2>2
    <2>4. QED
      BY <2>3
  <1>2. QED
    BY <1>1 DEF Rooted

\* A block arrives, and is a node if there was none of its size.
LEMMA RootedInsert ==
  ASSUME NEW indexed, NEW tops, NEW sz, NEW f, Rooted(indexed, tops, sz), NEW more,
         more = IF \A c \in indexed : sz[c] # sz[f] THEN {f} ELSE {}
  PROVE  Rooted(indexed \cup {f}, tops \cup more, sz)
  <1>1. /\ tops \subseteq indexed
        /\ \A b \in indexed : \E c \in tops : {d \in tops : sz[d] = sz[b]} = {c}
    BY DEF Rooted
  <1>2. CASE \A c \in indexed : sz[c] # sz[f]
    <2>1. more = {f}
      BY <1>2
    <2>2. {d \in tops \cup more : sz[d] = sz[f]} = {f}
      BY <1>1, <1>2, <2>1
    <2>3. \A b \in indexed : {d \in tops \cup more : sz[d] = sz[b]} = {d \in tops : sz[d] = sz[b]}
      BY <1>2, <2>1
    <2>4. ASSUME NEW b \in indexed \cup {f}
          PROVE  \E c \in tops \cup more : {d \in tops \cup more : sz[d] = sz[b]} = {c}
      <3>1. CASE b = f
        BY <2>1, <2>2, <3>1
      <3>2. CASE b \in indexed
        BY <1>1, <2>3, <3>2
      <3>3. QED
        BY <3>1, <3>2
    <2>5. QED
      BY <1>1, <2>1, <2>4 DEF Rooted
  <1>3. CASE ~ \A c \in indexed : sz[c] # sz[f]
    <2>1. more = {} /\ \E c \in indexed : sz[c] = sz[f]
      BY <1>3
    <2>2. tops \cup more = tops
      BY <2>1
    <2>3. \A b \in indexed \cup {f} : \E c \in tops : {d \in tops : sz[d] = sz[b]} = {c}
      BY <1>1, <2>1
    <2>4. QED
      BY <1>1, <2>2, <2>3 DEF Rooted
  <1>4. QED
    BY <1>2, <1>3

\* Sizes elsewhere do not matter.
LEMMA RootedSame ==
  ASSUME NEW indexed, NEW tops, NEW sz, NEW nsz, Rooted(indexed, tops, sz),
         \A c \in indexed : nsz[c] = sz[c]
  PROVE  Rooted(indexed, tops, nsz)
  <1>1. /\ tops \subseteq indexed
        /\ \A b \in indexed : \E c \in tops : {d \in tops : sz[d] = sz[b]} = {c}
    BY DEF Rooted
  <1>2. \A b \in indexed : {d \in tops : nsz[d] = nsz[b]} = {d \in tops : sz[d] = sz[b]}
    BY <1>1
  <1>3. QED
    BY <1>1, <1>2 DEF Rooted

\* The index as it is.
LEMMA IndexIs ==
  FreeBlocksIndexed <=> (pc # "astray" => /\ index = free \cap Blocks
                                          /\ \A c \in index : size[c] > Limit
                                          /\ \A c \in index : Next(c) \notin index
                                          /\ Rooted(index, heads, size))
  BY Zenon DEF FreeBlocksIndexed, Rooted, Twins

\* The index after a step.
LEMMA IndexAfter ==
  ASSUME index' = free' \cap Blocks', \A c \in index' : size'[c] > Limit,
         \A c \in index' : c + 1 + size'[c] \notin index', Rooted(index', heads', size')
  PROVE  FreeBlocksIndexed'
  BY Zenon DEF FreeBlocksIndexed, Rooted, Twins, Next

\* Where removing a block from the tree leaves none astray, the block was no node, or
\* it had no list.
LEMMA NoneAstray ==
  ASSUME NEW b, NEW indexed, {} \in Astray(b, indexed)
  PROVE  b \notin heads \/ \A c \in indexed : size[c] # size[b]
  <1>1. CASE b \in heads /\ Twins(b, indexed) # {}
    <2>1. Astray(b, indexed) = {{b}}
      BY <1>1 DEF Astray
    <2>2. QED
      BY <2>1
  <1>2. CASE b \notin heads \/ Twins(b, indexed) = {}
    BY <1>2 DEF Twins
  <1>3. QED
    BY <1>1, <1>2

\* An object in a block.
LEMMA NewObject ==
  ASSUME TypeOK, NEW n \in Requests, NEW b \in Addresses, request' = [request EXCEPT ![b] = n]
  PROVE  /\ request' \in [Addresses -> Requests \cup {0}]
         /\ request'[b] = n /\ \A a \in Addresses : a # b => request'[a] = request[a]
         /\ Objects' = Objects \cup {b}
  <1>1. request \in [Addresses -> Requests \cup {0}] /\ n # 0
    BY RequestsAssumption, SizesAssumption DEF TypeOK
  <1>2. /\ request' \in [Addresses -> Requests \cup {0}]
        /\ request'[b] = n /\ \A a \in Addresses : a # b => request'[a] = request[a]
    BY <1>1
  <1>3. Objects' = {a \in Addresses : request'[a] # 0}
    BY DEF Objects
  <1>4. QED
    BY <1>1, <1>2, <1>3 DEF Objects

\* What doAllocation is called with: a block of a tiling by headers that need not be in
\* memory yet, and an index of other free blocks ...
CanAllocate(n, sz, pv, B, b, indexed) ==
  /\ TypeOK /\ n \in Requests /\ sz \in [Addresses -> Nat]
  /\ pv \in [Addresses -> Addresses \cup {Null}] /\ b \in B
  /\ pages' \in Seq(Addresses) /\ top' \in 0 .. MaxUnits
  /\ Tiles(sz, pv, pages', top', B) /\ sz[b] # 0 /\ free \subseteq 0 .. top' - 1
  /\ indexed \subseteq free \cap B /\ b \notin indexed
  /\ \A o \in Objects : o \in B \ free /\ o # b /\ sz[o] >= request[o]

\* ... and of all of them, as long as no block is astray.
Indexes(sz, B, b, indexed) ==
  /\ indexed = (free \cap B) \ {b} /\ b + 1 + sz[b] \notin free
  /\ \A c \in indexed : sz[c] > Limit /\ c + 1 + sz[c] \notin indexed \cup {b}
  /\ Rooted(indexed, heads \cap indexed, sz)

\* doAllocation in a block of a tiling: the block holds the object, and what is left of
\* it is a free block.
LEMMA DoAllocationStep ==
  ASSUME NEW n, NEW sz, NEW pv, NEW B, NEW b, NEW indexed,
         CanAllocate(n, sz, pv, B, b, indexed), DoAllocation(b, n, sz, pv, indexed)
  PROVE  /\ size' \in [Addresses -> Nat] /\ previous' \in [Addresses -> Addresses \cup {Null}]
         /\ free' \subseteq Addresses /\ index' \subseteq Addresses /\ heads' \subseteq Addresses
         /\ request' \in [Addresses -> Requests \cup {0}]
         /\ Indexes(sz, B, b, indexed) => FreeBlocksIndexed'
         /\ Headers'
         /\ request' = [request EXCEPT ![b] = n]
         /\ \A o \in Objects' : o \in Blocks' \ free' /\ (o = b \/ size'[o] >= request'[o])
         /\ request'[b] = n /\ (sz[b] >= n => size'[b] >= n)
         /\ reachable' = reachable \cup {b}
  <1> DEFINE rest == b + 1 + n
             split == sz[b] > Limit + 1 + n
  <1>0. /\ TypeOK /\ n \in Requests /\ sz \in [Addresses -> Nat]
        /\ pv \in [Addresses -> Addresses \cup {Null}] /\ b \in B
        /\ pages' \in Seq(Addresses) /\ top' \in 0 .. MaxUnits
        /\ Tiles(sz, pv, pages', top', B) /\ sz[b] # 0 /\ free \subseteq 0 .. top' - 1
        /\ indexed \subseteq free \cap B /\ b \notin indexed
        /\ \A o \in Objects : o \in B \ free /\ o # b /\ sz[o] >= request[o]
    BY DEF CanAllocate
  <1> USE <1>0
  <1>1. /\ B \subseteq Addresses
        /\ \A c \in B : c \in Nat /\ c < top' /\ sz[c] \in Nat /\ c + 1 + sz[c] <= top'
        /\ \A c \in B : sz[c] # 0 => /\ sz[c] > Limit /\ c + 1 + sz[c] \in B
    BY TilesFacts, ZenonT(150)
  <1>2. n \in Nat /\ n > Limit /\ Limit \in Nat /\ MaxUnits \in Nat /\ top' \in Nat /\ sz[b] \in Nat /\ sz[b] # 0
    BY <1>1, SizesAssumption, RequestsAssumption
  <1>3. /\ size' = IF split THEN [sz EXCEPT ![b] = n, ![rest] = sz[b] - n - 1] ELSE sz
        /\ previous' = IF split THEN [pv EXCEPT ![rest] = b, ![b + 1 + sz[b]] = rest] ELSE pv
        /\ free' = (free \ {b}) \cup (IF split THEN {rest} ELSE {})
        /\ index' = indexed \cup (IF split THEN {rest} ELSE {})
        /\ heads' = (heads \cap indexed)
                    \cup (IF split /\ \A c \in indexed : sz[c] # sz[b] - n - 1 THEN {rest} ELSE {})
        /\ request' = [request EXCEPT ![b] = n]
        /\ reachable' = reachable \cup {b}
    BY DEF DoAllocation
  <1>4. b \in Addresses /\ b \notin Objects
    BY <1>1
  <1>5. /\ request' \in [Addresses -> Requests \cup {0}] /\ Objects' = Objects \cup {b}
        /\ request'[b] = n /\ \A a \in Addresses : a # b => request'[a] = request[a]
    BY <1>3, <1>4, NewObject
  <1>6. free \subseteq Addresses /\ indexed \subseteq B /\ indexed \subseteq free /\ b \notin indexed
    BY DEF TypeOK
  <1> HIDE DEF rest, split
  <1>7. CASE split
    <2> DEFINE nB == B \cup {rest}
    <2>1. sz[b] > Limit + 1 + n
      BY <1>7 DEF split
    <2>2. /\ rest \in Addresses \ B /\ b + 1 + sz[b] \in Addresses /\ rest < top'
          /\ Tiles([sz EXCEPT ![b] = n, ![rest] = sz[b] - n - 1],
                   [pv EXCEPT ![rest] = b, ![b + 1 + sz[b]] = rest], pages', top', B \cup {rest})
      BY <1>2, <2>1, TilesSplit DEF rest
    <2>3. /\ size' = [sz EXCEPT ![b] = n, ![rest] = sz[b] - n - 1]
          /\ previous' = [pv EXCEPT ![rest] = b, ![b + 1 + sz[b]] = rest]
          /\ free' = (free \ {b}) \cup {rest} /\ index' = indexed \cup {rest}
          /\ heads' = (heads \cap indexed)
                      \cup (IF \A c \in indexed : sz[c] # sz[b] - n - 1 THEN {rest} ELSE {})
      BY <1>3, <1>7
    <2>4. sz[b] - n - 1 \in Nat /\ sz[b] - n - 1 > Limit /\ rest + 1 + (sz[b] - n - 1) = b + 1 + sz[b]
      <3> DEFINE m == sz[b]
      <3>1. b \in Nat /\ m \in Nat /\ rest = b + 1 + n /\ m > Limit + 1 + n
        BY <1>1, <1>2, <2>1 DEF rest
      <3> HIDE DEF m
      <3>2. m - n - 1 \in Nat /\ m - n - 1 > Limit /\ rest + 1 + (m - n - 1) = b + 1 + m
        BY <1>2, <3>1
      <3>3. QED
        BY <3>2 DEF m
    <2>5. size' \in [Addresses -> Nat] /\ previous' \in [Addresses -> Addresses \cup {Null}]
      <3>1. n \in Nat /\ sz[b] - n - 1 \in Nat /\ rest \in Addresses
        BY <1>2, <2>2, <2>4
      <3>2. QED
        BY <1>4, <2>3, <3>1
    <2>6. Tiles(size', previous', pages', top', nB)
      BY <2>2, <2>3
    <2>7. Blocks' = nB
      BY <2>5, <2>6, NewBlocks
    <2>8. free' \subseteq 0 .. top' - 1
      <3>1. rest \in 0 .. top' - 1
        <4>1. rest \in Nat
          BY <1>2, <2>2 DEF Addresses
        <4>2. rest < top' /\ top' \in Nat
          BY <1>2, <2>2
        <4>3. \A x, y \in Nat : x < y => x \in 0 .. y - 1
          OBVIOUS
        <4> HIDE DEF nB
        <4>4. QED
          BY <4>1, <4>2, <4>3
      <3>2. QED
        BY <2>3, <3>1
    <2>9. /\ size'[b] = n /\ size'[rest] = sz[b] - n - 1
          /\ \A c \in B : c # b => size'[c] = sz[c]
      <3>1. rest # b /\ \A c \in B : c # rest
        BY <2>2
      <3>2. QED
        BY <1>1, <1>4, <2>2, <2>3, <3>1
    <2>10. ASSUME Indexes(sz, B, b, indexed)
           PROVE  \A c \in index' : size'[c] > Limit
      BY <1>6, <2>3, <2>4, <2>9, <2>10 DEF Indexes
    <2>11. ASSUME Indexes(sz, B, b, indexed)
           PROVE  \A c \in index' : c + 1 + size'[c] \notin index'
      <3>0. /\ indexed = (free \cap B) \ {b} /\ b + 1 + sz[b] \notin free
            /\ \A c \in indexed : sz[c] > Limit /\ c + 1 + sz[c] \notin indexed \cup {b}
        BY <2>11 DEF Indexes
      <3>1. rest + 1 + size'[rest] \notin index'
        <4>1. rest + 1 + size'[rest] = b + 1 + sz[b] /\ b + 1 + sz[b] \in B
          BY <1>1, <1>2, <2>4, <2>9
        <4>2. QED
          BY <1>6, <2>2, <2>3, <3>0, <4>1
      <3>2. ASSUME NEW c \in indexed
            PROVE  c + 1 + size'[c] \notin index'
        <4>1. size'[c] = sz[c] /\ c \in B /\ sz[c] \in Nat /\ sz[c] > Limit
          BY <1>1, <1>6, <2>9, <3>0
        <4>2. sz[c] # 0
          BY <1>2, <4>1
        <4>3. c + 1 + sz[c] \in B
          BY <1>1, <4>1, <4>2
        <4>4. QED
          BY <2>2, <2>3, <3>0, <4>1, <4>3
      <3>3. QED
        BY <2>3, <3>1, <3>2
    <2>12. ASSUME Indexes(sz, B, b, indexed)
           PROVE  Rooted(index', heads', size')
      <3>1. Rooted(indexed, heads \cap indexed, sz)
        BY <2>12 DEF Indexes
      <3>2. \A c \in indexed : size'[c] = sz[c]
        BY <1>6, <2>9
      <3>3. Rooted(indexed, heads \cap indexed, size')
        BY <3>1, <3>2, RootedSame
      <3> DEFINE more == IF \A c \in indexed : sz[c] # sz[b] - n - 1 THEN {rest} ELSE {}
      <3>4. (\A c \in indexed : sz[c] # sz[b] - n - 1) <=> \A c \in indexed : size'[c] # size'[rest]
        BY <2>9, <3>2, Zenon
      <3>5. more = IF \A c \in indexed : size'[c] # size'[rest] THEN {rest} ELSE {}
        BY <3>4, Zenon
      <3>6. index' = indexed \cup {rest} /\ heads' = (heads \cap indexed) \cup more
        BY <2>3, Zenon
      <3> HIDE DEF more
      <3>7. Rooted(indexed \cup {rest}, (heads \cap indexed) \cup more, size')
        BY <3>3, <3>5, RootedInsert
      <3>8. QED
        BY <3>6, <3>7
    <2>13. Indexes(sz, B, b, indexed) => FreeBlocksIndexed'
      <3>1. ASSUME Indexes(sz, B, b, indexed)
            PROVE  index' = free' \cap Blocks'
        BY <2>2, <2>3, <2>7, <3>1 DEF Indexes
      <3>2. ASSUME Indexes(sz, B, b, indexed)
            PROVE  /\ index' = free' \cap Blocks'
                   /\ \A c \in index' : size'[c] > Limit
                   /\ \A c \in index' : c + 1 + size'[c] \notin index'
                   /\ Rooted(index', heads', size')
        BY <2>10, <2>11, <2>12, <3>1, <3>2
      <3>3. QED
        BY <3>2, IndexAfter
    <2>14. /\ \A o \in Objects' : o \in Blocks' \ free' /\ (o = b \/ size'[o] >= request'[o])
           /\ request'[b] = n /\ size'[b] >= n
      <3>1. request'[b] = n /\ \A a \in Addresses : a # b => request'[a] = request[a]
        BY <1>5
      <3>2. b \in Blocks' \ free' /\ size'[b] >= n
        BY <1>2, <2>2, <2>3, <2>7, <2>9
      <3>3. ASSUME NEW o \in Objects
            PROVE  o \in Blocks' \ free' /\ size'[o] >= request'[o]
        BY <1>1, <2>2, <2>3, <2>7, <2>9, <3>1
      <3>4. QED
        BY <1>5, <3>1, <3>2, <3>3
    <2>15. free' \subseteq Addresses /\ index' \subseteq Addresses /\ heads' \subseteq Addresses
      <3>1. indexed \subseteq Addresses /\ rest \in Addresses
        BY <1>6, <2>2
      <3>2. heads' \subseteq indexed \cup {rest}
        BY <2>3, Zenon
      <3>3. QED
        BY <1>6, <2>3, <3>1, <3>2
    <2>16. Headers'
      BY <2>6, <2>7, <2>8 DEF Headers
    <2>17. QED
      BY <1>3, <1>4, <1>5, <2>5, <2>13, <2>14, <2>15, <2>16
  <1>8. CASE ~split
    <2>1. /\ size' = sz /\ previous' = pv /\ free' = free \ {b} /\ index' = indexed
          /\ heads' = heads \cap indexed
      BY <1>3, <1>8
    <2>2. Blocks' = B
      BY <2>1, NewBlocks
    <2>3. Headers'
      BY <2>1, <2>2 DEF Headers
    <2>4. Indexes(sz, B, b, indexed) => FreeBlocksIndexed'
      <3>1. ASSUME Indexes(sz, B, b, indexed)
            PROVE  /\ index' = free' \cap Blocks'
                   /\ \A c \in index' : size'[c] > Limit
                   /\ \A c \in index' : c + 1 + size'[c] \notin index'
                   /\ Rooted(index', heads', size')
        BY <2>1, <2>2, <3>1 DEF Indexes
      <3>2. QED
        BY <3>1, IndexAfter
    <2>5. \A o \in Objects' : o \in Blocks' \ free' /\ (o = b \/ size'[o] >= request'[o])
      BY <1>1, <1>5, <2>1, <2>2
    <2>6. sz[b] >= n => size'[b] >= n
      BY <2>1
    <2>7. heads' \subseteq Addresses
      BY <1>6, <2>1
    <2>8. QED
      BY <1>3, <1>4, <1>5, <1>6, <2>1, <2>3, <2>4, <2>5, <2>6, <2>7
  <1>9. QED
    BY <1>7, <1>8

LEMMA AllocStep ==
  ASSUME IInv, NEW n \in Requests, Alloc(n)
  PROVE  /\ IInv' /\ pc = "program" /\ pc' \in {"program", "astray"}
         /\ \E b \in Addresses : /\ b \notin Objects /\ Objects' = Objects \cup {b}
                                 /\ reachable' = reachable \cup {b}
  <1>1. pc = "program" /\ UNCHANGED <<mapping, marked, walk>>
    BY DEF Alloc
  <1>0. PICK b \in BestFits(n) : \E astray \in Astray(b, index \ {b}) :
          /\ b \in heads => BestFits(n) = {b}
          /\ DoAllocation(b, n, size, previous, index \ ({b} \cup astray))
          /\ pc' = IF astray = {} THEN pc ELSE "astray"
    BY DEF Alloc
  <1>2. PICK astray \in Astray(b, index \ {b}) :
          /\ b \in heads => BestFits(n) = {b}
          /\ DoAllocation(b, n, size, previous, index \ ({b} \cup astray))
          /\ pc' = IF astray = {} THEN pc ELSE "astray"
    BY <1>0
  <1> DEFINE indexed == index \ ({b} \cup astray)
  <1>3. /\ TypeOK /\ Headers /\ FreeBlocksIndexed /\ pages' = pages /\ top' = top
        /\ pc' \in {"program", "astray"} /\ (pc' # "astray" => astray = {})
        /\ marked' = marked /\ page' = page /\ cursor' = cursor
    BY <1>1, <1>2 DEF IInv, mapping, walk
  <1>4. b \in index /\ size[b] >= n
    BY DEF BestFits
  <1>5. /\ index = free \cap Blocks /\ \A c \in index : size[c] > Limit /\ c + 1 + size[c] \notin index
        /\ Rooted(index, heads, size) /\ heads \subseteq index
    BY <1>1, <1>3, IndexIs DEF Next, Rooted
  <1>6. Blocks \subseteq Addresses /\ \A o \in Objects : o \in Blocks \ free /\ size[o] >= request[o]
    BY <1>1, BlockFacts
  <1>7. b + 1 + size[b] \in Blocks /\ size[b] # 0
    <2>1. size[b] \in Nat /\ size[b] > Limit /\ Limit \in Nat
      BY <1>3, <1>4, <1>5, SizesAssumption DEF TypeOK
    <2>2. QED
      BY <1>4, <1>5, <2>1, BlockFacts DEF Next
  <1>8. CanAllocate(n, size, previous, Blocks, b, indexed)
    <2>1. /\ size \in [Addresses -> Nat] /\ previous \in [Addresses -> Addresses \cup {Null}]
          /\ pages' \in Seq(Addresses) /\ top' \in 0 .. MaxUnits /\ free \subseteq 0 .. top' - 1
          /\ Tiles(size, previous, pages', top', Blocks)
      BY <1>3 DEF TypeOK, Headers
    <2>2. /\ indexed \subseteq free \cap Blocks /\ b \notin indexed /\ b \in Blocks
          /\ \A o \in Objects : o \in Blocks \ free /\ o # b /\ size[o] >= request[o]
      BY <1>4, <1>5, <1>6
    <2> HIDE DEF indexed
    <2>3. QED
      BY <1>3, <1>7, <2>1, <2>2 DEF CanAllocate
  <1>9. ASSUME pc' # "astray"
        PROVE  Indexes(size, Blocks, b, indexed)
    <2>1. indexed = index \ {b} /\ {} \in Astray(b, index \ {b})
      BY <1>2, <1>3, <1>9
    <2> HIDE DEF indexed
    <2>2. b \in heads => \A c \in index \ {b} : size[c] # size[b]
      <3>1. ASSUME b \in heads, NEW c \in index \ {b}, size[c] = size[b]
            PROVE  FALSE
        <4>1. c \in BestFits(n)
          BY <1>2, <3>1, Zenon DEF BestFits
        <4>2. QED
          BY <1>2, <3>1, <4>1
      <3>2. QED
        BY <3>1
    <2>3. Rooted(index \ {b}, heads \ {b}, size)
      BY <1>5, <2>2, RootedRemove
    <2>4. heads \cap indexed = heads \ {b}
      BY <1>5, <2>1
    <2>5. /\ indexed = (free \cap Blocks) \ {b} /\ b + 1 + size[b] \notin free
          /\ \A c \in indexed : size[c] > Limit /\ c + 1 + size[c] \notin indexed \cup {b}
      BY <1>4, <1>5, <1>7, <2>1
    <2>6. Rooted(indexed, heads \cap indexed, size)
      BY <2>1, <2>3, <2>4
    <2>7. QED
      BY <2>5, <2>6 DEF Indexes
  <1>10. DoAllocation(b, n, size, previous, indexed)
    BY <1>2
  <1> HIDE DEF indexed
  <1>11. /\ size' \in [Addresses -> Nat] /\ previous' \in [Addresses -> Addresses \cup {Null}]
         /\ free' \subseteq Addresses /\ index' \subseteq Addresses /\ heads' \subseteq Addresses
         /\ request' \in [Addresses -> Requests \cup {0}]
         /\ Indexes(size, Blocks, b, indexed) => FreeBlocksIndexed'
         /\ Headers'
         /\ request' = [request EXCEPT ![b] = n]
         /\ \A o \in Objects' : o \in Blocks' \ free' /\ (o = b \/ size'[o] >= request'[o])
         /\ request'[b] = n /\ (size[b] >= n => size'[b] >= n)
         /\ reachable' = reachable \cup {b}
    BY <1>8, <1>10, DoAllocationStep
  <1>12. Objects' = Objects \cup {b} /\ b \notin Objects /\ b \in Addresses
    BY <1>3, <1>4, <1>5, <1>6, <1>11, NewObject
  <1>13. TypeOK'
    <2>1. reachable' \subseteq Addresses
      BY <1>3, <1>11, <1>12 DEF TypeOK
    <2>2. QED
      BY <1>3, <1>11, <2>1 DEF TypeOK
  <1>14. FreeBlocksIndexed'
    <2>1. CASE pc' # "astray"
      BY <1>9, <1>11, <2>1
    <2>2. CASE pc' = "astray"
      BY <2>2 DEF FreeBlocksIndexed
    <2>3. QED
      BY <2>1, <2>2
  <1>15. ObjectsHaveRoom'
    BY <1>4, <1>11 DEF ObjectsHaveRoom
  <1>16. Live'
    <2>1. reachable \subseteq Objects /\ marked = {}
      BY <1>1 DEF IInv, Live
    <2>2. QED
      BY <1>3, <1>11, <1>12, <2>1 DEF Live
  <1>17. QED
    BY <1>1, <1>3, <1>11, <1>12, <1>13, <1>14, <1>15, <1>16 DEF IInv, NothingLeftUndestroyed, Walk

LEMMA NewPageStep ==
  ASSUME IInv, NEW n \in Requests, NewPage(n)
  PROVE  /\ IInv' /\ pc = "program" /\ pc' \in {"program", "overrun"}
         /\ \E b \in Addresses : /\ b \notin Objects /\ Objects' = Objects \cup {b}
                                 /\ reachable' = reachable \cup {b}
  <1> DEFINE m == Mapped(n)
             last == top + m - 1
             mapped == [size EXCEPT ![top] = m - 2, ![last] = 0]
             tagged == [previous EXCEPT ![top] = Null, ![last] = top]
  <1>1. /\ pc = "program" /\ top + m <= MaxUnits
        /\ pages' = Append(pages, top) /\ top' = top + m
        /\ DoAllocation(top, n, mapped, tagged, index)
        /\ pc' = IF TooSmall(n) THEN "overrun" ELSE pc
        /\ UNCHANGED <<marked, walk>>
    BY DEF NewPage
  <1>2. /\ TypeOK /\ Headers /\ FreeBlocksIndexed /\ m \in Nat /\ m - 2 > Limit
        /\ n \in Nat /\ n > Limit /\ Limit \in Nat /\ MaxUnits \in Nat /\ top \in Nat
        /\ marked' = marked /\ page' = page /\ cursor' = cursor
    <2>1. TypeOK /\ Headers /\ FreeBlocksIndexed /\ m \in Nat /\ m - 2 > Limit
      BY MappedPositive DEF IInv
    <2> HIDE DEF m
    <2>2. QED
      BY <1>1, <2>1, SizesAssumption, RequestsAssumption DEF walk, TypeOK
  <1>0. pc' \in {"program", "overrun"} /\ (pc' # "overrun" => m - 2 >= n)
                                       /\ (pc' = "overrun" => TooSmall(n))
    <2>1. TooSmall(n) <=> m - 2 < n
      BY DEF TooSmall
    <2> HIDE DEF m
    <2>2. QED
      BY <1>1, <1>2, <2>1
  <1> HIDE DEF m
  <1>3. m - 2 \in Nat /\ m - 2 # 0 /\ top + 1 + (m - 2) = last
    BY <1>2
  <1>4. /\ top \in Addresses \ Blocks /\ last \in Addresses \ Blocks /\ top # last
        /\ Append(pages, top) \in Seq(Addresses)
        /\ Tiles(mapped, tagged, Append(pages, top), top + m, Blocks \cup {top, last})
    <2>1. /\ size \in [Addresses -> Nat] /\ previous \in [Addresses -> Addresses \cup {Null}]
          /\ pages \in Seq(Addresses) /\ top \in 0 .. MaxUnits
          /\ Tiles(size, previous, pages, top, Blocks)
      BY <1>2 DEF TypeOK, Headers
    <2>2. QED
      BY <1>1, <1>2, <1>3, <2>1, TilesMap, ZenonT(60)
  <1>5. free \subseteq 0 .. top - 1 /\ free \subseteq Addresses
    BY <1>2 DEF Headers, TypeOK
  <1>6. top \notin free /\ last \notin free
    <2>1. \A a \in free : a < top /\ a \in Nat
      BY <1>2, <1>5
    <2>2. top <= last
      BY <1>2, <1>3
    <2>3. QED
      BY <1>2, <1>4, <2>1, <2>2 DEF Addresses
  <1>7. /\ mapped \in [Addresses -> Nat] /\ tagged \in [Addresses -> Addresses \cup {Null}]
        /\ mapped[top] = m - 2 /\ \A c \in Blocks : mapped[c] = size[c]
    <2>1. size \in [Addresses -> Nat] /\ previous \in [Addresses -> Addresses \cup {Null}]
      BY <1>2 DEF TypeOK
    <2>2. Blocks \subseteq Addresses
      BY <1>1, BlockFacts
    <2>3. QED
      BY <1>3, <1>4, <2>1, <2>2
  <1> HIDE DEF mapped, tagged, last
  <1>8. /\ index = (free \cap (Blocks \cup {top, last})) \ {top}
        /\ \A c \in index : mapped[c] > Limit /\ c + 1 + mapped[c] \notin index \cup {top}
        /\ Rooted(index, heads \cap index, mapped)
    <2>1. /\ index = free \cap Blocks /\ \A c \in index : size[c] > Limit /\ c + 1 + size[c] \notin index
          /\ Rooted(index, heads, size) /\ heads \subseteq index
      BY <1>1, <1>2, IndexIs DEF Next, Rooted
    <2>2. \A c \in index : size[c] \in Nat /\ size[c] # 0
      BY <1>2, <2>1 DEF TypeOK
    <2>3. \A c \in index : c + 1 + size[c] \in Blocks
      BY <1>1, <2>1, <2>2, BlockFacts DEF Next
    <2>4. Rooted(index, heads \cap index, mapped)
      <3>1. \A c \in index : mapped[c] = size[c]
        BY <1>7, <2>1
      <3>2. Rooted(index, heads, mapped)
        BY <2>1, <3>1, RootedSame
      <3>3. heads \cap index = heads
        BY <2>1
      <3>4. QED
        BY <3>2, <3>3
    <2>5. QED
      BY <1>4, <1>6, <1>7, <2>1, <2>3, <2>4
  <1>9. \A o \in Objects : o \in (Blocks \cup {top, last}) \ free /\ o # top /\ mapped[o] >= request[o]
    <2>1. \A o \in Objects : o \in Blocks \ free /\ size[o] >= request[o]
      BY <1>1, BlockFacts
    <2>2. QED
      BY <1>4, <1>7, <2>1
  <1>10. /\ size' \in [Addresses -> Nat] /\ previous' \in [Addresses -> Addresses \cup {Null}]
         /\ free' \subseteq Addresses /\ index' \subseteq Addresses /\ heads' \subseteq Addresses
         /\ request' \in [Addresses -> Requests \cup {0}]
         /\ FreeBlocksIndexed' /\ Headers'
         /\ request' = [request EXCEPT ![top] = n]
         /\ \A o \in Objects' : o \in Blocks' \ free' /\ (o = top \/ size'[o] >= request'[o])
         /\ request'[top] = n /\ (mapped[top] >= n => size'[top] >= n)
         /\ reachable' = reachable \cup {top}
    <2>1. /\ pages' \in Seq(Addresses) /\ top' \in 0 .. MaxUnits /\ free \subseteq 0 .. top' - 1
          /\ Tiles(mapped, tagged, pages', top', Blocks \cup {top, last})
      <3>1. top' \in 0 .. MaxUnits
        BY <1>1, <1>2
      <3>2. free \subseteq 0 .. top' - 1
        <4>1. \A a \in free : a \in 0 .. top - 1
          BY <1>5
        <4>2. QED
          BY <1>1, <1>2, <4>1
      <3>3. QED
        BY <1>1, <1>4, <3>1, <3>2
    <2>2. top + 1 + mapped[top] \notin free /\ mapped[top] # 0
      BY <1>1, <1>3, <1>6, <1>7
    <2>3. /\ index = (free \cap (Blocks \cup {top, last})) \ {top} /\ top \in Blocks \cup {top, last}
          /\ \A c \in index : mapped[c] > Limit /\ c + 1 + mapped[c] \notin index \cup {top}
          /\ \A o \in Objects : o \in (Blocks \cup {top, last}) \ free /\ o # top /\ mapped[o] >= request[o]
      BY <1>8, <1>9
    <2>4. CanAllocate(n, mapped, tagged, Blocks \cup {top, last}, top, index)
      BY <1>2, <1>7, <2>1, <2>2, <2>3 DEF CanAllocate
    <2>5. Indexes(mapped, Blocks \cup {top, last}, top, index)
      BY <1>8, <2>2 DEF Indexes
    <2>6. DoAllocation(top, n, mapped, tagged, index)
      BY <1>1
    <2>7. QED
      BY <2>4, <2>5, <2>6, DoAllocationStep
  <1>11. Objects' = Objects \cup {top} /\ top \notin Objects /\ top \in Addresses
    BY <1>2, <1>4, <1>9, <1>10, NewObject
  <1>12. TypeOK'
    <2>1. reachable' \subseteq Addresses
      BY <1>2, <1>10 DEF TypeOK
    <2>2. pages' \in Seq(Addresses) /\ top' \in 0 .. MaxUnits
      BY <1>1, <1>2, <1>4
    <2>3. QED
      BY <1>0, <1>2, <1>10, <2>1, <2>2 DEF TypeOK
  <1>13. ObjectsHaveRoom'
    <2>1. CASE pc' = "overrun"
      <3>1. top = pages'[Len(pages')]
        BY <1>1, <1>2, <1>4 DEF TypeOK
      <3>2. TooSmall(request'[top])
        BY <1>0, <1>10, <2>1, Zenon
      <3>3. \A o \in Objects' : o \in Blocks' \ free' /\ (o = top \/ size'[o] >= request'[o])
        BY <1>10, Zenon
      <3>4. QED
        BY <2>1, <3>1, <3>2, <3>3, ZenonT(60) DEF ObjectsHaveRoom, Overruns
    <2>2. CASE pc' # "overrun"
      <3>1. size'[top] >= request'[top]
        BY <1>0, <1>7, <1>10, <2>2
      <3>2. QED
        BY <1>10, <3>1 DEF ObjectsHaveRoom
    <2>3. QED
      BY <2>1, <2>2
  <1>14. Live'
    <2>1. reachable \subseteq Objects /\ marked = {}
      BY <1>1 DEF IInv, Live
    <2>2. QED
      BY <1>0, <1>2, <1>10, <1>11, <2>1 DEF Live
  <1>15. QED
    BY <1>0, <1>1, <1>2, <1>10, <1>11, <1>12, <1>13, <1>14 DEF IInv, NothingLeftUndestroyed, Walk

LEMMA DropStep ==
  ASSUME IInv, Drop
  PROVE  IInv' /\ Objects' = Objects /\ reachable' \subseteq reachable
  <1>1. /\ pc = "program" /\ pc' = "program" /\ reachable' \subseteq reachable
        /\ UNCHANGED <<mapping, headers, request>>
        /\ marked' = marked /\ page' = page /\ cursor' = cursor
    BY DEF Drop, walk
  <1>2. Objects' = Objects /\ FreeBlocksIndexed' /\ Headers' /\ ObjectsHaveRoom'
    BY <1>1, SameHeaders DEF IInv
  <1>3. TypeOK'
    BY <1>1 DEF IInv, TypeOK, mapping, headers
  <1>4. Live'
    BY <1>1, <1>2 DEF IInv, Live
  <1>5. QED
    BY <1>1, <1>2, <1>3, <1>4 DEF IInv, NothingLeftUndestroyed, Walk

\* Both walks begin at the lowest block.
LEMMA StartOfWalk ==
  ASSUME IInv, pc = "program", NEW state, StartWalk(state),
         UNCHANGED <<mapping, headers, request>>, pc' = state, state \in {"sweep", "destroy"}
  PROVE  /\ page' \in Nat /\ cursor' \in Addresses \cup {Null} /\ Walk'
         /\ \A o \in Objects : cursor' <= o /\ ~(o < cursor')
  <1>1. /\ page' = 1 /\ cursor' = IF pages = <<>> THEN Null ELSE pages[1]
        /\ pages' = pages /\ top' = top /\ Blocks' = Blocks
    BY SameHeaders DEF StartWalk, mapping
  <1>2. TypeOK /\ Tiles(size, previous, pages, top, Blocks)
    BY DEF IInv, Headers
  <1>3. CASE pages = <<>>
    <2>1. top = 0 /\ Blocks = {}
      BY <1>2, <1>3 DEF Tiles
    <2>2. Objects = {}
      BY <2>1, BlockFacts
    <2>3. QED
      BY <1>1, <1>3, <2>2 DEF Walk
  <1>4. CASE pages # <<>>
    <2>1. 1 \in DOMAIN pages /\ pages[1] \in Addresses
      BY <1>2, <1>4 DEF TypeOK
    <2>2. /\ cursor' = 0 /\ pages[1] = 0 /\ pages[1] \in Blocks /\ 0 \in Addresses
          /\ pages[1] < PageEnd(pages, top, 1)
      BY <1>1, <1>2, <1>4, <2>1, BlockFacts DEF Tiles
    <2>3. cursor' # Null
      BY <2>2, NullAssumption
    <2>4. Walk'
      BY <1>1, <1>4, <2>1, <2>2, <2>3 DEF Walk
    <2>5. \A o \in Objects : o \in Nat
      BY BlockFacts
    <2>6. QED
      BY <1>1, <2>2, <2>4, <2>5
  <1>5. QED
    BY <1>3, <1>4

LEMMA CollectStep ==
  ASSUME IInv, Collect
  PROVE  IInv' /\ UNCHANGED <<Objects, reachable>> /\ pc = "program" /\ pc' = "sweep"
  <1>1. /\ pc = "program" /\ pc' = "sweep" /\ marked' = reachable /\ reachable' = reachable
        /\ StartWalk("sweep") /\ UNCHANGED <<mapping, headers, request>>
    BY DEF Collect, StartWalk
  <1>2. Objects' = Objects /\ FreeBlocksIndexed' /\ Headers' /\ ObjectsHaveRoom'
    BY <1>1, SameHeaders DEF IInv
  <1>3. /\ page' \in Nat /\ cursor' \in Addresses \cup {Null} /\ Walk'
        /\ \A o \in Objects : cursor' <= o /\ ~(o < cursor')
    BY <1>1, StartOfWalk
  <1>4. TypeOK'
    BY <1>1, <1>3 DEF IInv, TypeOK, mapping, headers
  <1>5. Live'
    BY <1>1, <1>2, <1>3 DEF IInv, Live
  <1>6. QED
    BY <1>1, <1>2, <1>3, <1>4, <1>5 DEF IInv, NothingLeftUndestroyed

LEMMA BeginDestroyStep ==
  ASSUME IInv, BeginDestroy
  PROVE  IInv' /\ Objects' = Objects /\ pc = "program" /\ pc' = "destroy" /\ reachable' = {}
  <1>1. /\ pc = "program" /\ pc' = "destroy" /\ marked' = marked /\ reachable' = {}
        /\ StartWalk("destroy") /\ UNCHANGED <<mapping, headers, request>>
    BY DEF BeginDestroy, StartWalk
  <1>2. Objects' = Objects /\ FreeBlocksIndexed' /\ Headers' /\ ObjectsHaveRoom'
    BY <1>1, SameHeaders DEF IInv
  <1>3. /\ page' \in Nat /\ cursor' \in Addresses \cup {Null} /\ Walk'
        /\ \A o \in Objects : cursor' <= o /\ ~(o < cursor')
    BY <1>1, StartOfWalk
  <1>4. TypeOK'
    BY <1>1, <1>3 DEF IInv, TypeOK, mapping, headers
  <1>5. Live'
    BY <1>1, <1>2, <1>3 DEF IInv, Live
  <1>6. QED
    BY <1>1, <1>2, <1>3, <1>4, <1>5 DEF IInv, NothingLeftUndestroyed

\* From a block that does not end its page, a walk comes to a header of that page.
LEMMA InPage ==
  ASSUME IInv, NEW i \in DOMAIN pages, NEW b \in Blocks, size[b] # 0,
         pages[i] <= b, b < PageEnd(pages, top, i)
  PROVE  pages[i] <= Next(b) /\ Next(b) < PageEnd(pages, top, i)
  <1> DEFINE end == PageEnd(pages, top, i)
  <1>1. /\ end - 1 \in Blocks
        /\ \A c \in Blocks : pages[i] <= c /\ c < end => (size[c] = 0 <=> c = end - 1)
    BY DEF IInv, Headers, Tiles
  <1>2. end \in Nat /\ pages[i] \in Nat /\ b \in Nat /\ Next(b) \in Nat /\ b < Next(b)
    BY BlockFacts
  <1>3. \A c \in Blocks : b < c => Next(b) <= c
    BY BlockFacts
  <1> HIDE DEF end
  <1>4. b < end
    BY DEF end
  <1>5. b # end - 1
    BY <1>1, <1>4
  <1>6. Next(b) <= end - 1
    BY <1>1, <1>2, <1>3, <1>4, <1>5
  <1>7. pages[i] <= Next(b) /\ Next(b) < end
    BY <1>2, <1>6
  <1>8. QED
    BY <1>7 DEF end

\* A walk at a header: where the next one is, and that there is no block between them.
LEMMA AtFacts ==
  ASSUME IInv, pc \in {"sweep", "destroy"}, NEW b, At(b)
  PROVE  /\ cursor = b /\ b \in Addresses /\ size[b] # 0 /\ pages # <<>> /\ page \in DOMAIN pages
         /\ pages[page] <= b /\ b < PageEnd(pages, top, page)
         /\ Next(b) \in Nat /\ b < Next(b) /\ Next(b) \in Blocks
         /\ pages[page] <= Next(b) /\ Next(b) < PageEnd(pages, top, page)
         /\ \A c \in Blocks : c < b \/ c = b \/ Next(b) <= c
         /\ b \in Blocks \/ (b \in free /\ b \notin Blocks)
  <1>1. cursor = b /\ b # Null /\ size[b] # 0
    BY DEF At
  <1>2. pages # <<>>
    BY <1>1 DEF IInv, Walk
  <1>3. /\ page \in DOMAIN pages
        /\ pages[page] <= b /\ b < PageEnd(pages, top, page)
        /\ b \in Blocks \/ Merged
    BY <1>1, <1>2 DEF IInv, Walk
  <1>4. b \in Addresses /\ b \in Nat /\ size[b] \in Nat
    BY <1>1, SizesAssumption DEF IInv, TypeOK, Addresses
  <1>5. Next(b) \in Nat /\ b < Next(b)
    BY <1>1, <1>4 DEF Next
  <1>6. pages[page] \in Nat
    BY <1>3, BlockFacts
  <1>7. CASE b \in Blocks
    <2>1. Next(b) \in Blocks /\ \A c \in Blocks : c \in Nat /\ (b < c => Next(b) <= c)
      BY <1>1, <1>7, BlockFacts
    <2>2. pages[page] <= Next(b) /\ Next(b) < PageEnd(pages, top, page)
      BY <1>1, <1>3, <1>7, InPage
    <2>3. \A c \in Blocks : c < b \/ c = b \/ Next(b) <= c
      BY <1>4, <2>1
    <2>4. QED
      BY <1>1, <1>2, <1>3, <1>4, <1>5, <1>7, <2>1, <2>2, <2>3
  <1>8. CASE b \notin Blocks
    <2>1. /\ b \in free /\ Next(b) \in Blocks /\ Next(b) < PageEnd(pages, top, page)
          /\ \A c \in Blocks : c < b \/ Next(b) <= c
      BY <1>1, <1>3, <1>8 DEF Merged
    <2>2. pages[page] <= Next(b)
      BY <1>3, <1>4, <1>5, <1>6
    <2>3. QED
      BY <1>1, <1>2, <1>3, <1>4, <1>5, <1>8, <2>1, <2>2
  <1>9. QED
    BY <1>7, <1>8

LEMMA SkipFreeStep ==
  ASSUME IInv, NEW b \in Addresses, SkipFree(b)
  PROVE  IInv' /\ UNCHANGED <<Objects, reachable, pc>>
  <1>1. /\ pc \in {"sweep", "destroy"} /\ At(b) /\ b \in free /\ cursor' = Next(b)
        /\ UNCHANGED <<mapping, headers, request>>
        /\ reachable' = reachable /\ marked' = marked /\ pc' = pc /\ page' = page
        /\ pages' = pages /\ top' = top
    BY DEF SkipFree, mapping
  <1>2. /\ Objects' = Objects /\ Blocks' = Blocks
        /\ FreeBlocksIndexed' /\ Headers' /\ ObjectsHaveRoom'
    BY <1>1, SameHeaders DEF IInv
  <1>3. /\ cursor = b /\ pages # <<>> /\ page \in DOMAIN pages
        /\ Next(b) \in Nat /\ b < Next(b) /\ Next(b) \in Blocks
        /\ pages[page] <= Next(b) /\ Next(b) < PageEnd(pages, top, page)
        /\ \A c \in Blocks : c < b \/ c = b \/ Next(b) <= c
    BY <1>1, AtFacts
  <1>4. Blocks \subseteq Addresses /\ Next(b) \in Addresses /\ Next(b) # Null /\ b \in Nat
    BY <1>1, <1>3, BlockFacts, NullAssumption, SizesAssumption DEF Addresses
  <1>5. TypeOK'
    BY <1>1, <1>4 DEF IInv, TypeOK, mapping, headers
  <1>6. Walk'
    BY <1>1, <1>2, <1>3, <1>4 DEF Walk
  <1>7. \A o \in Objects : o \in Nat /\ (b <= o <=> Next(b) <= o) /\ (o < Next(b) => o < b)
    <2>1. \A o \in Objects : o \in Blocks /\ o \in Nat /\ o # b
      BY <1>1, BlockFacts
    <2>2. QED
      BY <1>3, <1>4, <2>1
  <1>8. Live'
    <2>1. CASE pc = "sweep"
      <3>1. /\ reachable \subseteq Objects /\ marked = {o \in reachable : b <= o}
            /\ \A o \in Objects : o < b => o \in reachable
        BY <1>3, <2>1 DEF IInv, Live
      <3>2. {o \in reachable : b <= o} = {o \in reachable : Next(b) <= o}
        BY <1>7, <3>1
      <3>3. QED
        BY <1>1, <1>2, <1>7, <2>1, <3>1, <3>2 DEF Live
    <2>2. CASE pc = "destroy"
      <3>1. reachable = {} /\ \A o \in Objects : b <= o
        BY <1>3, <2>2 DEF IInv, Live
      <3>2. QED
        BY <1>1, <1>2, <1>7, <2>2, <3>1 DEF Live
    <2>3. QED
      BY <1>1, <2>1, <2>2
  <1>9. QED
    BY <1>1, <1>2, <1>5, <1>6, <1>8 DEF IInv, NothingLeftUndestroyed

LEMMA SweepLiveStep ==
  ASSUME IInv, NEW b \in Addresses, SweepLive(b)
  PROVE  IInv' /\ UNCHANGED <<Objects, reachable, pc>>
  <1>1. /\ pc = "sweep" /\ At(b) /\ b \notin free /\ b \in marked
        /\ marked' = marked \ {b} /\ cursor' = Next(b)
        /\ UNCHANGED <<mapping, headers, request>>
        /\ reachable' = reachable /\ pc' = pc /\ page' = page /\ pages' = pages /\ top' = top
    BY DEF SweepLive, mapping
  <1>2. /\ Objects' = Objects /\ Blocks' = Blocks
        /\ FreeBlocksIndexed' /\ Headers' /\ ObjectsHaveRoom'
    BY <1>1, SameHeaders DEF IInv
  <1>3. /\ cursor = b /\ pages # <<>> /\ page \in DOMAIN pages
        /\ Next(b) \in Nat /\ b < Next(b) /\ Next(b) \in Blocks
        /\ pages[page] <= Next(b) /\ Next(b) < PageEnd(pages, top, page)
        /\ \A c \in Blocks : c < b \/ c = b \/ Next(b) <= c
    BY <1>1, AtFacts
  <1>4. Blocks \subseteq Addresses /\ Next(b) \in Addresses /\ Next(b) # Null /\ b \in Nat
    BY <1>1, <1>3, BlockFacts, NullAssumption, SizesAssumption DEF Addresses
  <1>5. TypeOK'
    BY <1>1, <1>4 DEF IInv, TypeOK, mapping, headers
  <1>6. Walk'
    BY <1>1, <1>2, <1>3, <1>4 DEF Walk
  <1>7. /\ reachable \subseteq Objects /\ marked = {o \in reachable : b <= o}
        /\ \A o \in Objects : o < b => o \in reachable
    BY <1>1, <1>3 DEF IInv, Live
  <1>8. \A o \in Objects : /\ o \in Nat /\ (b <= o /\ o # b <=> Next(b) <= o)
                           /\ o < Next(b) => o < b \/ o = b
    <2>1. \A o \in Objects : o \in Blocks /\ o \in Nat
      BY <1>1, BlockFacts
    <2>2. QED
      BY <1>3, <1>4, <2>1
  <1>9. Live'
    <2>1. marked' = {o \in reachable : Next(b) <= o}
      BY <1>1, <1>7, <1>8
    <2>2. \A o \in Objects : o < Next(b) => o \in reachable
      BY <1>1, <1>7, <1>8
    <2>3. QED
      BY <1>1, <1>2, <1>7, <2>1, <2>2 DEF Live
  <1>10. QED
    BY <1>1, <1>2, <1>5, <1>6, <1>9 DEF IInv, NothingLeftUndestroyed

LEMMA NextPageStep ==
  ASSUME IInv, NextPage
  PROVE  IInv' /\ UNCHANGED <<Objects, reachable, pc>>
  <1>1. /\ pc \in {"sweep", "destroy"} /\ page < Len(pages) /\ size[cursor] = 0
        /\ page' = page + 1 /\ cursor' = pages[page + 1]
        /\ UNCHANGED <<mapping, headers, request>>
        /\ reachable' = reachable /\ marked' = marked /\ pc' = pc
        /\ pages' = pages /\ top' = top
    BY DEF NextPage, mapping
  <1>2. /\ Objects' = Objects /\ Blocks' = Blocks
        /\ FreeBlocksIndexed' /\ Headers' /\ ObjectsHaveRoom'
    BY <1>1, SameHeaders DEF IInv
  <1>3. /\ pages \in Seq(Addresses) /\ page \in Nat
        /\ Tiles(size, previous, pages, top, Blocks)
    BY <1>1 DEF IInv, TypeOK, Headers
  <1>4. pages # <<>>
    BY <1>1, <1>3
  <1>5. /\ page \in DOMAIN pages /\ cursor \in Blocks
        /\ pages[page] <= cursor /\ cursor < PageEnd(pages, top, page)
    BY <1>1, <1>4 DEF IInv, Walk, Merged
  <1>6. page + 1 \in DOMAIN pages /\ PageEnd(pages, top, page) = pages[page + 1]
    BY <1>1, <1>3, <1>5 DEF PageEnd
  <1>7. cursor = pages[page + 1] - 1
    <2>1. \A i \in DOMAIN pages : \A c \in Blocks :
            pages[i] <= c /\ c < PageEnd(pages, top, i) => (size[c] = 0 <=> c = PageEnd(pages, top, i) - 1)
      BY <1>3 DEF Tiles
    <2>2. cursor = PageEnd(pages, top, page) - 1
      BY <1>1, <1>5, <2>1, Zenon
    <2>3. QED
      BY <1>6, <2>2
  <1>8. /\ pages[page + 1] \in Blocks /\ pages[page + 1] \in Addresses /\ pages[page + 1] \in Nat
        /\ pages[page + 1] < PageEnd(pages, top, page + 1) /\ cursor \in Nat
    BY <1>1, <1>3, <1>5, <1>6, BlockFacts DEF Tiles
  <1>9. TypeOK'
    BY <1>1, <1>3, <1>8 DEF IInv, TypeOK, mapping, headers
  <1>10. Walk'
    <2>1. pages[page + 1] # Null /\ pages[page + 1] <= pages[page + 1]
      BY <1>8, NullAssumption
    <2>2. QED
      BY <1>1, <1>2, <1>6, <1>8, <2>1 DEF Walk
  <1>11. \A o \in Objects : o \in Nat /\ (cursor <= o <=> cursor' <= o) /\ (o < cursor' => o < cursor)
    <2>1. \A o \in Objects : o \in Nat /\ o # cursor
      BY <1>1, BlockFacts
    <2>2. QED
      BY <1>1, <1>7, <1>8, <2>1
  <1>12. Live'
    <2>1. CASE pc = "sweep"
      <3>1. /\ reachable \subseteq Objects /\ marked = {o \in reachable : cursor <= o}
            /\ \A o \in Objects : o < cursor => o \in reachable
        BY <2>1 DEF IInv, Live
      <3>2. {o \in reachable : cursor <= o} = {o \in reachable : cursor' <= o}
        BY <1>11, <3>1
      <3>3. QED
        BY <1>1, <1>2, <1>11, <2>1, <3>1, <3>2 DEF Live
    <2>2. CASE pc = "destroy"
      BY <1>1, <1>2, <1>11, <2>2 DEF IInv, Live
    <2>3. QED
      BY <1>1, <2>1, <2>2
  <1>13. QED
    BY <1>1, <1>2, <1>9, <1>10, <1>12 DEF IInv, NothingLeftUndestroyed

\* At the end of a walk every object is behind the cursor.
LEMMA EndOfWalk ==
  ASSUME IInv, pc \in {"sweep", "destroy"}, EndWalk
  PROVE  /\ \A o \in Objects : o < cursor /\ ~(cursor <= o)
         /\ page' = 0 /\ cursor' = Null
  <1>1. page >= Len(pages) /\ (cursor # Null => size[cursor] = 0) /\ page' = 0 /\ cursor' = Null
    BY DEF EndWalk
  <1>2. /\ pages \in Seq(Addresses) /\ page \in Nat /\ top \in Nat
        /\ Tiles(size, previous, pages, top, Blocks)
    BY DEF IInv, TypeOK, Headers
  <1>3. CASE pages = <<>>
    <2>1. Blocks = {}
      BY <1>2, <1>3 DEF Tiles
    <2>2. QED
      BY <1>1, <2>1, BlockFacts
  <1>4. CASE pages # <<>>
    <2>1. /\ page \in DOMAIN pages /\ cursor \in Blocks /\ size[cursor] = 0
          /\ pages[page] <= cursor /\ cursor < PageEnd(pages, top, page)
      BY <1>1, <1>4 DEF IInv, Walk, Merged
    <2>2. page = Len(pages) /\ PageEnd(pages, top, page) = top
      BY <1>1, <1>2, <2>1 DEF PageEnd
    <2>3. cursor = top - 1 /\ cursor \in Nat
      <3>1. \A i \in DOMAIN pages : \A c \in Blocks :
              pages[i] <= c /\ c < PageEnd(pages, top, i) => (size[c] = 0 <=> c = PageEnd(pages, top, i) - 1)
        BY <1>2 DEF Tiles
      <3>2. cursor = PageEnd(pages, top, page) - 1
        BY <2>1, <3>1, Zenon
      <3>3. cursor \in Nat
        BY <2>1, BlockFacts
      <3>4. QED
        BY <2>2, <3>2, <3>3
    <2>4. \A o \in Objects : o \in Nat /\ o < top /\ o # cursor
      BY <2>1, BlockFacts
    <2>5. QED
      BY <1>1, <1>2, <2>3, <2>4
  <1>5. QED
    BY <1>3, <1>4

LEMMA EndSweepStep ==
  ASSUME IInv, EndSweep
  PROVE  /\ IInv' /\ UNCHANGED <<Objects, reachable>> /\ pc = "sweep" /\ pc' = "program"
         /\ Objects' = reachable' /\ marked' = {}
  <1>1. /\ pc = "sweep" /\ pc' = "program" /\ EndWalk
        /\ size' = [a \in Addresses |-> IF a \in Blocks THEN size[a] ELSE 0]
        /\ previous' = [a \in Addresses |-> IF a \in Blocks THEN previous[a] ELSE Null]
        /\ free' = free \cap Blocks /\ pages' = pages /\ top' = top /\ index' = index
        /\ heads' = heads /\ request' = request /\ reachable' = reachable /\ marked' = marked
    BY DEF EndSweep, mapping
  <1>2. TypeOK /\ Headers /\ FreeBlocksIndexed
    BY <1>1 DEF IInv
  <1>3. page' = 0 /\ cursor' = Null
    BY <1>1, EndOfWalk
  <1>4. /\ size' \in [Addresses -> Nat] /\ previous' \in [Addresses -> Addresses \cup {Null}]
        /\ free' \subseteq Addresses
    BY <1>1, <1>2 DEF TypeOK
  <1>5. TypeOK'
    BY <1>1, <1>2, <1>3, <1>4 DEF TypeOK
  <1>6. Blocks \subseteq Addresses
    BY <1>1, BlockFacts
  <1>7. Tiles(size', previous', pages', top', Blocks)
    <2>1. /\ \A b \in Blocks : size'[b] = size[b] /\ previous'[b] = previous[b]
          /\ \A a \in Addresses : size'[a] = 0 \/ size'[a] = size[a]
      BY <1>1, <1>6
    <2>2. Tiles(size, previous, pages', top', Blocks)
      BY <1>1, <1>2 DEF Headers
    <2>3. QED
      BY <1>6, <2>1, <2>2, TilesForget
  <1>8. Blocks' = Blocks
    BY <1>4, <1>5, <1>7, NewBlocks DEF TypeOK
  <1>9. Headers'
    BY <1>1, <1>2, <1>7, <1>8 DEF Headers
  <1>10. \A b \in Blocks : size'[b] = size[b] /\ Next(b)' = Next(b)
    BY <1>1, <1>6 DEF Next
  <1>11. FreeBlocksIndexed'
    <2>1. /\ index = free \cap Blocks /\ Rooted(index, heads, size)
          /\ \A c \in index : size[c] > Limit
          /\ \A c \in index : Next(c) \notin index
      BY <1>1, <1>2, IndexIs
    <2>2. Rooted(index, heads, size')
      BY <1>10, <2>1, RootedSame
    <2>3. \A c \in index : c + 1 + size'[c] \notin index
      BY <1>10, <2>1 DEF Next
    <2>4. QED
      BY <1>1, <1>8, <1>10, <2>1, <2>2, <2>3, IndexAfter
  <1>12. Objects' = Objects
    BY <1>1 DEF Objects
  <1>13. ObjectsHaveRoom'
    BY <1>1, <1>8, <1>10, <1>12, BlockFacts DEF ObjectsHaveRoom
  <1>14. reachable = Objects /\ marked = {}
    <2>1. /\ reachable \subseteq Objects /\ marked = {o \in reachable : cursor <= o}
          /\ \A o \in Objects : o < cursor => o \in reachable
      BY <1>1 DEF IInv, Live
    <2>2. QED
      BY <1>1, <2>1, EndOfWalk
  <1>15. Live'
    BY <1>1, <1>12, <1>14 DEF Live
  <1>16. QED
    BY <1>1, <1>5, <1>9, <1>11, <1>12, <1>13, <1>14, <1>15 DEF IInv, NothingLeftUndestroyed, Walk

\* An object less.
LEMMA ObjectGone ==
  ASSUME TypeOK, NEW b \in Addresses, request' = [request EXCEPT ![b] = 0]
  PROVE  /\ request' \in [Addresses -> Requests \cup {0}]
         /\ \A a \in Addresses : a # b => request'[a] = request[a]
         /\ Objects' = Objects \ {b}
  <1>1. request \in [Addresses -> Requests \cup {0}]
    BY DEF TypeOK
  <1>2. /\ request' \in [Addresses -> Requests \cup {0}]
        /\ request'[b] = 0 /\ \A a \in Addresses : a # b => request'[a] = request[a]
    BY <1>1
  <1>3. Objects' = {a \in Addresses : request'[a] # 0}
    BY DEF Objects
  <1>4. QED
    BY <1>1, <1>2, <1>3 DEF Objects

LEMMA DestroyBlockStep ==
  ASSUME IInv, NEW b \in Addresses, DestroyBlock(b)
  PROVE  /\ IInv' /\ UNCHANGED <<reachable, pc>> /\ pc = "destroy" /\ Objects' = Objects \ {b}
  <1>1. /\ pc = "destroy" /\ At(b) /\ b \notin free /\ cursor' = Next(b)
        /\ request' = [request EXCEPT ![b] = 0]
        /\ pages' = pages /\ top' = top /\ size' = size /\ previous' = previous
        /\ free' = free /\ index' = index /\ heads' = heads
        /\ reachable' = reachable /\ marked' = marked /\ pc' = pc /\ page' = page
    BY DEF DestroyBlock, mapping, headers
  <1>2. TypeOK /\ Headers /\ FreeBlocksIndexed
    BY <1>1 DEF IInv
  <1>3. /\ cursor = b /\ pages # <<>> /\ page \in DOMAIN pages
        /\ Next(b) \in Nat /\ b < Next(b) /\ Next(b) \in Blocks
        /\ pages[page] <= Next(b) /\ Next(b) < PageEnd(pages, top, page)
        /\ \A c \in Blocks : c < b \/ c = b \/ Next(b) <= c
    BY <1>1, AtFacts
  <1>4. Blocks \subseteq Addresses /\ Next(b) \in Addresses /\ Next(b) # Null /\ b \in Nat
    BY <1>1, <1>3, BlockFacts, NullAssumption, SizesAssumption DEF Addresses
  <1>5. /\ request' \in [Addresses -> Requests \cup {0}] /\ Objects' = Objects \ {b}
        /\ \A a \in Addresses : a # b => request'[a] = request[a]
    BY <1>1, <1>2, ObjectGone
  <1>6. TypeOK'
    BY <1>1, <1>2, <1>4, <1>5 DEF TypeOK
  <1>7. Blocks' = Blocks
    BY <1>1 DEF Blocks, Chain, Next
  <1>8. FreeBlocksIndexed' /\ Headers'
    BY <1>1, <1>2, <1>7 DEF FreeBlocksIndexed, Headers, Next, Twins
  <1>9. ObjectsHaveRoom'
    <2>1. \A o \in Objects' : o \in Addresses /\ o # b /\ o \in Objects
      BY <1>5 DEF Objects
    <2>2. QED
      BY <1>1, <1>5, <1>7, <2>1, BlockFacts DEF ObjectsHaveRoom
  <1>10. Walk'
    BY <1>1, <1>3, <1>4, <1>7 DEF Walk
  <1>11. Live'
    <2>1. reachable = {} /\ \A o \in Objects : b <= o
      BY <1>1, <1>3 DEF IInv, Live
    <2>2. \A o \in Objects : o \in Blocks /\ o \in Nat
      BY <1>1, BlockFacts
    <2>3. \A o \in Objects' : Next(b) <= o
      BY <1>3, <1>4, <1>5, <2>1, <2>2
    <2>4. QED
      BY <1>1, <2>1, <2>3 DEF Live
  <1>12. QED
    BY <1>1, <1>5, <1>6, <1>8, <1>9, <1>10, <1>11 DEF IInv, NothingLeftUndestroyed

LEMMA EndDestroyStep ==
  ASSUME IInv, EndDestroy
  PROVE  IInv' /\ UNCHANGED <<Objects, reachable>> /\ pc = "destroy" /\ pc' = "destroyed"
  <1>1. /\ pc = "destroy" /\ pc' = "destroyed" /\ EndWalk
        /\ UNCHANGED <<mapping, headers, request>> /\ reachable' = reachable /\ marked' = marked
    BY DEF EndDestroy
  <1>2. /\ Objects' = Objects /\ FreeBlocksIndexed' /\ Headers' /\ ObjectsHaveRoom'
    BY <1>1, SameHeaders DEF IInv
  <1>3. page' = 0 /\ cursor' = Null /\ \A o \in Objects : ~(cursor <= o)
    BY <1>1, EndOfWalk
  <1>4. TypeOK'
    BY <1>1, <1>3 DEF IInv, TypeOK, mapping, headers
  <1>5. Objects = {}
    BY <1>1, <1>3 DEF IInv, Live
  <1>6. QED
    BY <1>1, <1>2, <1>4, <1>5 DEF IInv, NothingLeftUndestroyed, Walk, Live

\* free() in the middle of a sweep.
LEMMA SweepDeadStep ==
  ASSUME IInv, NEW b \in Addresses, SweepDead(b)
  PROVE  /\ IInv' /\ reachable' = reachable /\ pc = "sweep" /\ pc' \in {"sweep", "astray"}
         /\ b \notin reachable /\ Objects' = Objects \ {b}
  <1> DEFINE r == Next(b)
             left == previous[b] # Null /\ previous[b] \in free
             right == FreeRight(b)
             first == IF left THEN previous[b] ELSE b
             after == IF right THEN Next(r) ELSE r
             lefts == IF left THEN {previous[b]} ELSE {}
             merged == lefts \cup (IF right THEN {r} ELSE {})
             B == Kept(Blocks, first, after)
  <1>1. /\ pc = "sweep" /\ At(b) /\ b \notin free /\ b \notin marked
        /\ request' = [request EXCEPT ![b] = 0]
        /\ size' = [size EXCEPT ![first] = after - first - 1]
        /\ previous' = IF left \/ right THEN [previous EXCEPT ![after] = first] ELSE previous
        /\ free' = free \cup {first}
        /\ heads' = (heads \cap (index' \ {first}))
                    \cup (IF \A c \in index' \ {first} : size[c] # size'[first] THEN {first} ELSE {})
        /\ cursor' = b + 1 + size'[b]
        /\ pages' = pages /\ top' = top /\ reachable' = reachable /\ marked' = marked /\ page' = page
    BY DEF SweepDead, Dead, Tag, mapping
  <1>0. \E x \in (IF left THEN Astray(previous[b], index \ lefts) ELSE {{}}),
           y \in (IF right THEN Astray(r, index \ merged) ELSE {{}}) :
          /\ index' = ((index \ merged) \ (x \cup y)) \cup (merged \cap (x \cup y)) \cup {first}
          /\ pc' = IF x \cup y = {} THEN pc ELSE "astray"
    BY DEF SweepDead
  <1>2. TypeOK /\ Headers /\ FreeBlocksIndexed
    BY <1>1 DEF IInv
  <1>3. /\ cursor = b /\ size[b] # 0 /\ pages # <<>> /\ page \in DOMAIN pages /\ b \in Blocks
        /\ pages[page] <= b /\ b < PageEnd(pages, top, page)
        /\ r \in Nat /\ b < r /\ r \in Blocks
        /\ pages[page] <= r /\ r < PageEnd(pages, top, page)
        /\ \A c \in Blocks : c < b \/ c = b \/ r <= c
    BY <1>1, AtFacts
  <1>4. /\ Blocks \subseteq Addresses /\ Range(pages) \subseteq Blocks
        /\ \A c \in Blocks : c \in Nat /\ size[c] \in Nat /\ Next(c) \in Nat /\ c < Next(c)
        /\ \A c \in Blocks : size[c] # 0 => /\ size[c] > Limit /\ Next(c) \in Blocks
                                            /\ Next(c) \notin Range(pages) /\ previous[Next(c)] = c
        /\ \A c, d \in Blocks : c < d => Next(c) <= d
        /\ \A o \in Objects : o \in Blocks \ free /\ size[o] # 0 /\ size[o] >= request[o]
    BY <1>1, BlockFacts
  <1>5. /\ index = free \cap Blocks /\ Limit \in Nat /\ Rooted(index, heads, size)
        /\ \A c \in index : size[c] > Limit /\ size[c] # 0 /\ Next(c) \notin index
    <2>1. /\ index = free \cap Blocks /\ Rooted(index, heads, size)
          /\ \A c \in index : size[c] > Limit
          /\ \A c \in index : Next(c) \notin index
      BY <1>1, <1>2, IndexIs
    <2>2. \A c \in index : size[c] \in Nat
      BY <1>2 DEF TypeOK
    <2>3. QED
      BY <2>1, <2>2, SizesAssumption
  <1>6. /\ size \in [Addresses -> Nat] /\ previous \in [Addresses -> Addresses \cup {Null}]
        /\ pages \in Seq(Addresses) /\ top \in 0 .. MaxUnits /\ free \subseteq Addresses
        /\ Tiles(size, previous, pages, top, Blocks)
    BY <1>2 DEF TypeOK, Headers
  \* The neighbours.
  <1>7. /\ r \notin Range(pages) /\ previous[r] = b
        /\ right => r \in index /\ r \in free
        /\ ~right => r \notin free
    BY <1>3, <1>4, <1>5 DEF FreeRight
  <1>8. left => /\ previous[b] \in index /\ previous[b] # b /\ Next(previous[b]) = b
                /\ b \notin Range(pages) /\ previous[b] < b /\ size[previous[b]] # 0
    <2>1. b \in Range(pages) => previous[b] = Null
      BY <1>3, <1>6 DEF Tiles
    <2>2. b \notin Range(pages) => previous[b] \in Blocks /\ Next(previous[b]) = b /\ size[previous[b]] # 0
      BY <1>3, <1>6 DEF Tiles, Next
    <2>3. previous[b] \in Blocks /\ Next(previous[b]) = b => previous[b] < b
      BY <1>4
    <2>4. QED
      BY <1>3, <1>4, <1>5, <2>1, <2>2, <2>3
  <1>9. right => /\ Next(r) \in Blocks /\ Next(r) \notin Range(pages) /\ Next(r) \notin free
                 /\ r < Next(r)
    BY <1>4, <1>5, <1>7
  <1>10. /\ first \in Blocks /\ size[first] # 0 /\ first <= b /\ first \in Nat
         /\ after \in Blocks /\ after \notin Range(pages) /\ after \notin free
         /\ b < after /\ first < after /\ r <= after /\ after \in Nat /\ r # first /\ after # first
    <2>1. first \in Blocks /\ size[first] # 0 /\ first <= b
      BY <1>3, <1>4, <1>5, <1>8
    <2>2. after \in Blocks /\ after \notin Range(pages) /\ after \notin free /\ r <= after
      BY <1>3, <1>4, <1>7, <1>9
    <2>3. b \in Nat /\ first \in Nat /\ after \in Nat /\ r \in Nat
      BY <1>3, <1>4, <2>1, <2>2
    <2> HIDE DEF first, after, r
    <2>4. QED
      BY <1>3, <2>1, <2>2, <2>3
  <1>11. /\ left => first = previous[b] /\ first \in index /\ Next(first) = b
         /\ ~left => first = b
         /\ right => after = Next(r)
         /\ ~right => after = r
         /\ lefts = IF left THEN {first} ELSE {}
         /\ merged = lefts \cup (IF right THEN {r} ELSE {})
         /\ \E x \in (IF left THEN Astray(first, index \ lefts) ELSE {{}}),
               y \in (IF right THEN Astray(r, index \ merged) ELSE {{}}) :
              /\ index' = ((index \ merged) \ (x \cup y)) \cup (merged \cap (x \cup y)) \cup {first}
              /\ pc' = IF x \cup y = {} THEN pc ELSE "astray"
    BY <1>0, <1>8, Zenon
  <1> HIDE DEF r, left, right, first, after, lefts, merged
  <1>12. \A c \in Blocks : first < c /\ c < after => (left /\ c = b) \/ (right /\ c = r)
    <2>1. ASSUME NEW c \in Blocks, first < c, c < after
          PROVE  (left /\ c = b) \/ (right /\ c = r)
      <3>1. c \in Nat /\ b \in Nat /\ r \in Nat
        BY <1>3, <1>4
      <3>2. b <= c
        <4>1. CASE left
          BY <1>4, <1>10, <1>11, <2>1, <4>1
        <4>2. CASE ~left
          BY <1>10, <1>11, <2>1, <3>1, <4>2
        <4>3. QED
          BY <4>1, <4>2
      <3>3. CASE c = b
        BY <1>10, <1>11, <2>1, <3>1, <3>3
      <3>4. CASE c # b
        <4>1. r <= c
          BY <1>3, <3>1, <3>2, <3>4
        <4>2. right
          BY <1>10, <1>11, <2>1, <3>1, <4>1
        <4>3. r < c => after <= c
          BY <1>3, <1>4, <1>11, <4>2
        <4>4. c = r
          BY <1>10, <2>1, <3>1, <4>1, <4>3
        <4>5. QED
          BY <4>2, <4>4
      <3>5. QED
        BY <3>3, <3>4
    <2>2. QED
      BY <2>1
  <1>13. /\ after - first - 1 \in Nat /\ after - first - 1 >= size[first]
         /\ Tiles([size EXCEPT ![first] = after - first - 1], [previous EXCEPT ![after] = first],
                  pages, top, B)
    <2>1. \A c \in Blocks : first < c /\ c < after => size[c] # 0 /\ c \notin Range(pages)
      <3>1. left => b \notin Range(pages)
        BY <1>8
      <3>2. right => size[r] # 0
        BY <1>5, <1>7
      <3>3. QED
        BY <1>3, <1>7, <1>12, <3>1, <3>2
    <2>2. after \in Blocks \ Range(pages) /\ first \in Blocks /\ first < after /\ size[first] # 0
      BY <1>10
    <2>3. CanMerge(size, previous, pages, top, Blocks, first, after)
      BY <1>6, <2>1, <2>2 DEF CanMerge
    <2>4. QED
      BY <2>3, TilesMerge
  <1>14. previous' = [previous EXCEPT ![after] = first]
    <2>1. CASE left \/ right
      BY <1>1, <2>1
    <2>2. CASE ~left /\ ~right
      <3>1. previous[after] = first
        BY <1>7, <1>11, <2>2
      <3>2. QED
        BY <1>1, <1>6, <2>2, <3>1
    <2>3. QED
      BY <2>1, <2>2
  <1>15. /\ size' \in [Addresses -> Nat] /\ previous' \in [Addresses -> Addresses \cup {Null}]
         /\ size'[first] = after - first - 1 /\ \A c \in Addresses : c # first => size'[c] = size[c]
    BY <1>1, <1>4, <1>6, <1>10, <1>13, <1>14
  <1>16. Blocks' = B /\ Tiles(size', previous', pages', top', Blocks')
    <2>1. Tiles(size', previous', pages', top', B)
      BY <1>1, <1>13, <1>14
    <2> HIDE DEF B
    <2>2. Blocks' = B
      BY <1>1, <1>6, <1>15, <2>1, NewBlocks
    <2>3. QED
      BY <2>1, <2>2
  <1> USE DEF Kept
  <1>17. /\ B \subseteq Blocks /\ first \in B /\ after \in B
         /\ left => b \notin B
         /\ right => r \notin B
         /\ \A c \in Blocks : c \notin B => (left /\ c = b) \/ (right /\ c = r)
    <2>1. first \in B /\ after \in B
      BY <1>10
    <2>2. left => b \notin B
      BY <1>3, <1>4, <1>8, <1>10, <1>11
    <2>3. right => r \notin B
      BY <1>3, <1>9, <1>10, <1>11
    <2>4. \A c \in Blocks : c \notin B => first < c /\ c < after
      BY <1>4, <1>10
    <2>5. QED
      BY <1>12, <2>1, <2>2, <2>3, <2>4
  <1> HIDE DEF B, Kept
  \* The index: a neighbour that leaves it is no node, or has no list, unless a block is
  \* astray after the step.
  <1>37. /\ index' \subseteq index \cup {first} /\ first \in index'
         /\ pc' \in {"sweep", "astray"}
         /\ merged \subseteq index /\ first \notin index \ merged
    <2>1. merged \subseteq index
      BY <1>7, <1>11
    <2>2. first \notin index \ merged
      BY <1>1, <1>5, <1>11
    <2>3. QED
      BY <1>1, <1>11, <2>1, <2>2
  <1>38. ASSUME pc' # "astray"
         PROVE  /\ index' = (index \ merged) \cup {first}
                /\ Rooted(index', heads', size')
    <2>1. /\ index' = (index \ merged) \cup {first}
          /\ left => {} \in Astray(first, index \ lefts)
          /\ right => {} \in Astray(r, index \ merged)
      <3>1. PICK x \in (IF left THEN Astray(first, index \ lefts) ELSE {{}}),
                 y \in (IF right THEN Astray(r, index \ merged) ELSE {{}}) :
              /\ index' = ((index \ merged) \ (x \cup y)) \cup (merged \cap (x \cup y)) \cup {first}
              /\ pc' = IF x \cup y = {} THEN pc ELSE "astray"
        BY <1>11, Zenon
      <3>2. x \cup y = {}
        BY <1>38, <3>1, Zenon
      <3>3. x = {} /\ y = {}
        BY <3>2
      <3>4. index' = (index \ merged) \cup {first}
        BY <3>1, <3>3
      <3>5. QED
        BY <3>1, <3>3, <3>4
    <2>2. Rooted(index \ lefts, heads \ lefts, size)
      <3>1. CASE left
        <4>1. lefts = {first}
          BY <1>11, <3>1
        <4>2. first \notin heads \/ \A c \in index \ lefts : size[c] # size[first]
          BY <2>1, <3>1, NoneAstray
        <4>3. QED
          BY <1>5, <4>1, <4>2, RootedRemove
      <3>2. CASE ~left
        <4>1. lefts = {} /\ index \ lefts = index /\ heads \ lefts = heads
          BY <1>11, <3>2
        <4>2. QED
          BY <1>5, <4>1
      <3>3. QED
        BY <3>1, <3>2
    <2>3. Rooted(index \ merged, heads \ merged, size)
      <3>1. CASE right
        <4>1. index \ merged = (index \ lefts) \ {r} /\ heads \ merged = (heads \ lefts) \ {r}
          BY <1>11, <3>1
        <4>2. r \notin heads \/ \A c \in index \ merged : size[c] # size[r]
          BY <2>1, <3>1, NoneAstray
        <4>3. r \notin heads \ lefts \/ \A c \in (index \ lefts) \ {r} : size[c] # size[r]
          BY <4>1, <4>2
        <4>4. Rooted((index \ lefts) \ {r}, (heads \ lefts) \ {r}, size)
          BY <2>2, <4>3, RootedRemove
        <4>5. QED
          BY <4>1, <4>4
      <3>2. CASE ~right
        <4>1. index \ merged = index \ lefts /\ heads \ merged = heads \ lefts
          BY <1>11, <3>2
        <4>2. QED
          BY <2>2, <4>1
      <3>3. QED
        BY <3>1, <3>2
    <2> DEFINE J == index \ merged
    <2>4. index' \ {first} = J /\ heads \cap J = heads \ merged
      <3>1. heads \subseteq index
        BY <1>5 DEF Rooted
      <3>2. QED
        BY <1>37, <2>1, <3>1
    <2>5. \A c \in J : size'[c] = size[c]
      BY <1>4, <1>5, <1>15, <1>37
    <2>6. Rooted(J, heads \ merged, size) /\ index' = J \cup {first}
      BY <2>1, <2>3
    <2> HIDE DEF J
    <2>7. Rooted(J, heads \ merged, size')
      BY <2>5, <2>6, RootedSame
    <2> DEFINE more == IF \A c \in index' \ {first} : size[c] # size'[first] THEN {first} ELSE {}
    <2>8. heads' = (heads \ merged) \cup more
      BY <1>1, <2>4, Zenon
    <2>9. (\A c \in index' \ {first} : size[c] # size'[first]) <=> \A c \in J : size'[c] # size'[first]
      BY <2>4, <2>5, Zenon
    <2>10. more = IF \A c \in J : size'[c] # size'[first] THEN {first} ELSE {}
      BY <2>9, Zenon
    <2> HIDE DEF more
    <2>11. Rooted(J \cup {first}, (heads \ merged) \cup more, size')
      BY <2>7, <2>10, RootedInsert
    <2>12. QED
      BY <2>1, <2>6, <2>8, <2>11
  <1>18. ASSUME pc' # "astray"
         PROVE  index' = free' \cap Blocks'
    <2>1. ASSUME NEW c
          PROVE  c \in index' <=> c \in free' /\ c \in B
      <3>1. CASE c = first
        BY <1>1, <1>17, <1>37, <3>1
      <3>2. CASE c # first
        <4>1. c \in index' <=> c \in free /\ c \in Blocks /\ (right => c # r)
          <5>1. c \in merged <=> right /\ c = r
            BY <1>11, <3>2
          <5>2. QED
            BY <1>5, <1>18, <1>38, <3>2, <5>1
        <4>2. c \in free /\ c \in Blocks => c # b
          BY <1>1
        <4>3. c \in free' <=> c \in free
          BY <1>1, <3>2
        <4>4. QED
          BY <1>17, <4>1, <4>2, <4>3
      <3>3. QED
        BY <3>1, <3>2
    <2>2. QED
      BY <1>16, <2>1
  <1>19. \A c \in index' : c # first => c \in index /\ c \in Addresses /\ c \in Blocks /\ size'[c] = size[c]
    BY <1>4, <1>5, <1>15, <1>37
  <1>20. \A c \in index' : size'[c] > Limit
    <2>1. size[first] > Limit /\ size[first] \in Nat
      BY <1>4, <1>10
    <2>2. size'[first] > Limit
      BY <1>5, <1>13, <1>15, <2>1
    <2>3. QED
      BY <1>5, <1>19, <2>2
  <1>21. ASSUME NEW c \in index'
         PROVE  c + 1 + size'[c] \notin index'
    <2>1. CASE c = first
      <3>1. c + 1 + size'[c] = after
        BY <1>10, <1>15, <2>1
      <3>2. QED
        BY <1>5, <1>10, <1>37, <3>1
    <2>2. CASE c # first
      <3>1. c + 1 + size'[c] = Next(c) /\ c \in index /\ c \in Blocks /\ c \in Nat
        BY <1>4, <1>19, <2>2 DEF Next
      <3>2. Next(c) \in Blocks /\ Next(c) \notin index /\ previous[Next(c)] = c
        BY <1>4, <1>5, <3>1
      <3>3. Next(c) # first
        <4>1. CASE left
          BY <1>11, <3>2, <4>1
        <4>2. CASE ~left
          <5>1. c # Null /\ c \in free
            BY <1>5, <3>1, NullAssumption
          <5>2. QED
            BY <1>11, <3>2, <4>2, <5>1 DEF left
        <4>3. QED
          BY <4>1, <4>2
      <3>4. QED
        BY <1>37, <3>1, <3>2, <3>3
    <2>3. QED
      BY <2>1, <2>2
  <1>22. FreeBlocksIndexed'
    <2>1. CASE pc' # "astray"
      BY <1>18, <1>20, <1>21, <1>38, <2>1, IndexAfter
    <2>2. CASE pc' = "astray"
      BY <2>2 DEF FreeBlocksIndexed
    <2>3. QED
      BY <2>1, <2>2
  <1>23. Headers'
    <2>1. free \subseteq 0 .. top - 1
      BY <1>2 DEF Headers
    <2>2. first \in 0 .. top - 1
      BY <1>6, <1>10 DEF Tiles
    <2>3. QED
      BY <1>1, <1>16, <2>1, <2>2 DEF Headers
  \* The objects.
  <1>24. /\ request' \in [Addresses -> Requests \cup {0}] /\ Objects' = Objects \ {b}
         /\ \A a \in Addresses : a # b => request'[a] = request[a]
    BY <1>1, <1>2, ObjectGone
  <1>25. \A o \in Objects : /\ o \in Nat /\ o \in Addresses
                            /\ right => o # r
                            /\ o # b => o # first
    BY <1>4, <1>5, <1>7, <1>11
  <1>26. ObjectsHaveRoom'
    <2>1. ASSUME NEW o \in Objects'
          PROVE  o \in Blocks' \ free' /\ size'[o] >= request'[o]
      <3>1. o \in Objects /\ o # b /\ o # first /\ (right => o # r) /\ o \in Blocks \ free
            /\ o \in Addresses /\ size[o] >= request[o]
        BY <1>4, <1>24, <1>25
      <3>2. o \in B /\ o \notin free'
        BY <1>1, <1>17, <3>1
      <3>3. size'[o] = size[o] /\ request'[o] = request[o]
        BY <1>15, <1>24, <3>1
      <3>4. QED
        BY <1>16, <3>1, <3>2, <3>3
    <2>2. QED
      BY <2>1 DEF ObjectsHaveRoom
  \* The cursor: behind a block that was merged to the left, at its old header.
  <1>27. /\ left => cursor' = r
         /\ ~left => cursor' = after
    <2>1. CASE left
      <3>1. size'[b] = size[b]
        BY <1>8, <1>11, <1>15, <2>1
      <3>2. QED
        BY <1>1, <2>1, <3>1 DEF r, Next
    <2>2. CASE ~left
      BY <1>1, <1>10, <1>11, <1>15, <2>2
    <2>3. QED
      BY <2>1, <2>2
  <1>28. pages[page] <= after /\ after < PageEnd(pages, top, page)
    <2>1. CASE right
      <3>1. size[r] # 0
        BY <1>5, <1>7, <2>1
      <3>2. QED
        BY <1>1, <1>3, <1>11, <2>1, <3>1, InPage
    <2>2. CASE ~right
      BY <1>3, <1>11, <2>2
    <2>3. QED
      BY <2>1, <2>2
  <1>29. pc' = "sweep" => Walk'
    <2>0. SUFFICES ASSUME pc' = "sweep"
                   PROVE  Walk'
      OBVIOUS
    <2>1. CASE left /\ right
      <3>1. cursor' = r /\ r \in free' /\ size'[r] # 0 /\ r + 1 + size'[r] = after
        <4>1. r \in Addresses /\ r # first /\ r \in free /\ size[r] # 0
          BY <1>3, <1>4, <1>5, <1>7, <1>10, <2>1
        <4>2. size'[r] = size[r]
          BY <1>15, <4>1
        <4>3. r + 1 + size'[r] = after
          BY <1>11, <2>1, <4>2 DEF Next
        <4>4. cursor' = r /\ r \in free'
          BY <1>1, <1>27, <2>1, <4>1
        <4>5. QED
          BY <4>1, <4>2, <4>3, <4>4
      <3>2. cursor' + 1 + size'[cursor'] = after
        BY <3>1
      <3>3. \A c \in B : c < r \/ after <= c
        BY <1>3, <1>4, <1>9, <1>10, <1>11, <2>1 DEF B, Kept
      <3>4. Merged'
        BY <1>1, <1>16, <1>17, <1>28, <2>0, <3>1, <3>2, <3>3 DEF Merged, Next
      <3>5. r # Null
        BY <1>3, NullAssumption
      <3>6. QED
        BY <1>1, <1>3, <3>1, <3>4, <3>5 DEF Walk
    <2>2. CASE ~(left /\ right)
      <3>1. cursor' = after
        BY <1>11, <1>27, <2>2
      <3>2. after # Null
        BY <1>10, NullAssumption
      <3>3. QED
        BY <1>1, <1>3, <1>16, <1>17, <1>28, <3>1, <3>2 DEF Walk
    <2>3. QED
      BY <2>1, <2>2
  <1>30. cursor' \in Addresses /\ cursor' \in Nat /\ b < cursor' /\ cursor' <= after
    BY <1>3, <1>4, <1>9, <1>10, <1>11, <1>27
  <1>31. TypeOK'
    <2>1. free' \subseteq Addresses /\ index' \subseteq Addresses /\ heads' \subseteq Addresses
      <3>1. first \in Addresses /\ index \subseteq free /\ free \subseteq Addresses
        BY <1>4, <1>5, <1>6, <1>10
      <3>2. free' \subseteq free \cup {first} /\ index' \subseteq index \cup {first}
            /\ heads' \subseteq index' \cup {first}
        BY <1>1, <1>37
      <3>3. QED
        BY <3>1, <3>2
    <2>2. QED
      BY <1>1, <1>2, <1>15, <1>24, <1>30, <1>37, <2>1 DEF TypeOK
  <1>32. /\ reachable \subseteq Objects /\ marked = {o \in reachable : b <= o}
         /\ \A o \in Objects : o < b => o \in reachable
    BY <1>1, <1>3 DEF IInv, Live
  <1>33. b \notin reachable /\ b \in Nat
    BY <1>1, <1>3, <1>4, <1>32
  <1>34. \A o \in Objects : o # b /\ b <= o => cursor' <= o
    <2>1. ASSUME NEW o \in Objects, o # b, b <= o
          PROVE  cursor' <= o
      <3>0. o \in Blocks /\ o \in Nat
        BY <1>4, <2>1
      <3>1. o \in Blocks /\ o \in Nat /\ r <= o
        BY <1>3, <1>33, <2>1, <3>0
      <3>2. after <= o
        <4>1. CASE right
          <5>1. r < o
            BY <1>3, <1>25, <2>1, <3>1, <4>1
          <5>2. QED
            BY <1>3, <1>4, <1>11, <3>1, <4>1, <5>1
        <4>2. CASE ~right
          BY <1>11, <3>1, <4>2
        <4>3. QED
          BY <4>1, <4>2
      <3>3. QED
        BY <1>10, <1>30, <3>1, <3>2
    <2>2. QED
      BY <2>1
  <1>35. Live'
    <2>1. marked' = {o \in reachable : cursor' <= o}
      <3>1. ASSUME NEW o \in reachable
            PROVE  b <= o <=> cursor' <= o
        <4>1. o \in Objects /\ o # b /\ o \in Nat
          BY <1>25, <1>32, <1>33
        <4>2. b <= o => cursor' <= o
          BY <1>34, <4>1
        <4>3. QED
          BY <1>30, <1>33, <4>1, <4>2
      <3>2. marked' = {o \in reachable : b <= o}
        BY <1>1, <1>32
      <3>3. QED
        BY <3>1, <3>2
    <2>2. ASSUME NEW o \in Objects', o < cursor'
          PROVE  o \in reachable
      <3>1. o \in Objects /\ o # b /\ o \in Nat
        BY <1>4, <1>24
      <3>2. o < b
        BY <1>30, <1>33, <1>34, <2>2, <3>1
      <3>3. QED
        BY <1>32, <3>1, <3>2
    <2>3. reachable' \subseteq Objects'
      BY <1>1, <1>24, <1>32, <1>33
    <2>4. QED
      BY <1>1, <1>37, <2>1, <2>2, <2>3 DEF Live
  <1>36. Walk'
    BY <1>29, <1>37 DEF Walk
  <1>39. QED
    BY <1>1, <1>22, <1>23, <1>24, <1>26, <1>31, <1>33, <1>35, <1>36, <1>37
       DEF IInv, NothingLeftUndestroyed

\* Nothing happens.
LEMMA StoppedStep ==
  ASSUME IInv, UNCHANGED vars
  PROVE  IInv' /\ UNCHANGED <<Objects, reachable, pc>>
  <1>1. /\ UNCHANGED <<mapping, headers, request, reachable, marked, pc, page, cursor>>
        /\ pages' = pages /\ top' = top /\ size' = size /\ previous' = previous /\ free' = free
        /\ index' = index /\ heads' = heads /\ request' = request /\ pc' = pc
    BY DEF vars, mapping, headers
  <1>2. Blocks' = Blocks /\ Objects' = Objects /\ Headers'
    BY <1>1, SameHeaders DEF IInv
  <1>3. TypeOK' /\ NothingLeftUndestroyed'
    BY <1>1, <1>2 DEF IInv, TypeOK, NothingLeftUndestroyed
  <1>4. FreeBlocksIndexed'
    BY <1>1, <1>2 DEF IInv, FreeBlocksIndexed, Next, Twins
  <1>5. ObjectsHaveRoom'
    BY <1>1, <1>2 DEF IInv, ObjectsHaveRoom, Overruns
  <1>6. Walk'
    BY <1>1, <1>2 DEF IInv, Walk, Merged, Next
  <1>7. Live'
    BY <1>1, <1>2 DEF IInv, Live
  <1>8. QED
    BY <1>1, <1>2, <1>3, <1>4, <1>5, <1>6, <1>7 DEF IInv
-----------------------------------------------------------------------------
(***************************************************************************)
(* The theorems.                                                           *)
(***************************************************************************)
\* Every operation of the heap keeps the headers, the index, the objects and the
\* cursor of a walk consistent with each other.
THEOREM Invariant == Spec => []IInv
  <1>1. ASSUME IInv, [Step]_vars
        PROVE  IInv'
    <2>1. ASSUME NEW n \in Requests, Alloc(n) \/ NewPage(n)
          PROVE  IInv'
      BY <1>1, <2>1, AllocStep, NewPageStep
    <2>2. CASE Drop
      BY <1>1, <2>2, DropStep
    <2>3. CASE Collect
      BY <1>1, <2>3, CollectStep
    <2>4. CASE NextPage
      BY <1>1, <2>4, NextPageStep
    <2>5. CASE EndSweep
      BY <1>1, <2>5, EndSweepStep
    <2>6. CASE BeginDestroy
      BY <1>1, <2>6, BeginDestroyStep
    <2>7. CASE EndDestroy
      BY <1>1, <2>7, EndDestroyStep
    <2>8. CASE Stopped \/ UNCHANGED vars
      BY <1>1, <2>8, StoppedStep DEF Stopped
    <2>9. ASSUME NEW b \in Addresses, SkipFree(b) \/ SweepLive(b) \/ SweepDead(b) \/ DestroyBlock(b)
          PROVE  IInv'
      BY <1>1, <2>9, SkipFreeStep, SweepLiveStep, SweepDeadStep, DestroyBlockStep
    <2>10. QED
      BY <1>1, <2>1, <2>2, <2>3, <2>4, <2>5, <2>6, <2>7, <2>8, <2>9 DEF Step
  <1>2. QED
    BY <1>1, InitIInv, PTL DEF Spec

\* The variables have their types; in particular no header is written outside of the
\* memory that the operating system provided.
THEOREM TypeCorrect == Spec => []TypeOK
  BY Invariant, PTL DEF IInv

\* Splitting in alloc and merging in free() leave the pages cut into blocks from the
\* first unit to the last, each knowing the block before it.
THEOREM PagesAreTiled == Spec => []BlocksTile
  <1>1. ASSUME IInv
        PROVE  BlocksTile
    <2>1. /\ size \in [Addresses -> Nat] /\ pages \in Seq(Addresses) /\ top \in 0 .. MaxUnits
          /\ Tiles(size, previous, pages, top, Blocks)
      BY <1>1 DEF IInv, TypeOK, Headers
    <2>2. \A i \in DOMAIN pages : PageEnd(pages, top, i) - 1 \in Chain[pages[i]]
      BY <2>1, TilesChain, ChainIs
    <2>3. \A b \in Blocks : size[b] # 0 => previous[Next(b)] = b
      BY <1>1, BlockFacts
    <2>4. \A i \in DOMAIN pages : pages[i] \in Blocks /\ pages[i] \in Range(pages)
      BY <1>1, BlockFacts DEF Range
    <2>5. \A i \in DOMAIN pages : previous[pages[i]] = Null
      BY <2>1, <2>4 DEF Tiles
    <2>6. QED
      BY <2>2, <2>3, <2>5 DEF BlocksTile, PageEnd
  <1>2. QED
    BY <1>1, Invariant, PTL

\* Until unlinkBlock or remove leaves a block astray, the tree leads to exactly the free
\* blocks, with one node for each size, and coalescing in free() leaves no two free blocks
\* next to each other.  Afterwards the theorem claims nothing.
THEOREM FreeBlocksAreIndexed == Spec => []FreeBlocksIndexed
  BY Invariant, PTL DEF IInv

\* Every object that alloc handed out is in an allocated block of its own, as large as it
\* asked for.  The exception is an object whose new page is too small for it and the two
\* headers: its block is smaller, and it is the last object in the model.
THEOREM RoomForEveryObject == Spec => []ObjectsHaveRoom
  BY Invariant, PTL DEF IInv

\* The destructor of the heap destroys every object.
THEOREM DestroysEverything == Spec => []NothingLeftUndestroyed
  BY Invariant, PTL DEF IInv

\* A sweep ends with exactly the reachable objects, unmarked: the cursor of the walk
\* misses no block, although free() merges the block that it is at.
THEOREM SweepsAreComplete == Spec => CollectionIsComplete
  <1>1. ASSUME IInv, [Step]_vars, pc = "sweep", pc' = "program"
        PROVE  Objects = reachable /\ marked = {}
    <2>1. CASE EndSweep
      <3>1. UNCHANGED <<Objects, reachable, marked>> /\ Objects' = reachable' /\ marked' = {}
        BY <1>1, <2>1, EndSweepStep DEF EndSweep
      <3>2. QED
        BY <3>1
    <2>2. CASE ~EndSweep
      <3>1. ASSUME NEW n \in Requests
            PROVE  ~Alloc(n) /\ ~NewPage(n)
        BY <1>1 DEF Alloc, NewPage
      <3>2. ~Drop /\ ~Collect /\ ~NextPage /\ ~BeginDestroy /\ ~EndDestroy
        BY <1>1 DEF Drop, Collect, NextPage, BeginDestroy, EndDestroy
      <3>3. ~Stopped /\ ~UNCHANGED vars
        BY <1>1 DEF Stopped, vars
      <3>4. ASSUME NEW b \in Addresses
            PROVE  ~SkipFree(b) /\ ~SweepLive(b) /\ ~SweepDead(b) /\ ~DestroyBlock(b)
        <4>1. ~SkipFree(b) /\ ~SweepLive(b) /\ ~DestroyBlock(b)
          BY <1>1 DEF SkipFree, SweepLive, DestroyBlock
        <4>2. SweepDead(b) => pc' \in {"sweep", "astray"}
          BY <1>1, SweepDeadStep
        <4>3. QED
          BY <1>1, <4>1, <4>2
      <3>5. QED
        BY <1>1, <2>2, <3>1, <3>2, <3>3, <3>4 DEF Step
    <2>3. QED
      BY <2>1, <2>2
  <1>2. IInv /\ [Step]_vars => [pc = "sweep" /\ pc' = "program" => Objects = reachable /\ marked = {}]_vars
    BY <1>1
  <1>3. QED
    BY <1>2, Invariant, PTL DEF Spec, CollectionIsComplete

\* The heap implements CellPool: alloc never hands out a block in use, and only
\* objects that cannot be reached are freed before the heap is destroyed.  This holds up to
\* and including the step that leaves a block astray; what the tree hands out after it is
\* not claimed.
THEOREM RefinesPool == Spec => ImplementsPool
  <1> DEFINE Alive == pc \notin {"destroy", "destroyed"}
  <1>1. Init => Pool!Init
    BY DEF Init, Pool!Init, Objects
  <1>2. ASSUME IInv, [Step]_vars
        PROVE  [Pool!Next]_Pool!vars
    <2>1. ASSUME UNCHANGED <<Objects, reachable>>, Alive' = Alive
          PROVE  UNCHANGED Pool!vars
      BY <2>1 DEF Pool!vars
    <2>2. ASSUME NEW n \in Requests, Alloc(n) \/ NewPage(n)
          PROVE  Pool!Next
      <3>1. \E b \in Addresses : /\ b \notin Objects /\ Objects' = Objects \cup {b}
                                 /\ reachable' = reachable \cup {b}
        BY <1>2, <2>2, AllocStep, NewPageStep
      <3>2. pc = "program" /\ pc' \in {"program", "overrun", "astray"}
        BY <1>2, <2>2, AllocStep, NewPageStep
      <3>3. QED
        BY <3>1, <3>2 DEF Pool!Next, Pool!Allocate
    <2>3. CASE Drop
      <3>1. Objects' = Objects /\ reachable' \subseteq reachable /\ pc = "program" /\ pc' = "program"
        BY <1>2, <2>3, DropStep DEF Drop
      <3>2. QED
        BY <3>1 DEF Pool!Next, Pool!Forget
    <2>4. CASE Collect
      BY <1>2, <2>1, <2>4, CollectStep
    <2>5. CASE NextPage
      <3>1. pc' = pc
        BY <2>5 DEF NextPage
      <3>2. QED
        BY <1>2, <2>1, <2>5, <3>1, NextPageStep
    <2>6. CASE EndSweep
      BY <1>2, <2>1, <2>6, EndSweepStep
    <2>7. CASE BeginDestroy
      <3>1. Objects' = Objects /\ pc = "program" /\ pc' = "destroy" /\ reachable' = {}
        BY <1>2, <2>7, BeginDestroyStep
      <3>2. QED
        BY <3>1 DEF Pool!Next, Pool!Destroy
    <2>8. CASE EndDestroy
      BY <1>2, <2>1, <2>8, EndDestroyStep
    <2>9. CASE Stopped \/ UNCHANGED vars
      <3>1. UNCHANGED <<Objects, reachable, pc>>
        BY <1>2, <2>9, StoppedStep DEF Stopped
      <3>2. QED
        BY <2>1, <3>1
    <2>10. ASSUME NEW b \in Addresses, SkipFree(b) \/ SweepLive(b)
           PROVE  UNCHANGED Pool!vars
      BY <1>2, <2>1, <2>10, SkipFreeStep, SweepLiveStep
    <2>11. ASSUME NEW b \in Addresses, SweepDead(b) \/ DestroyBlock(b)
           PROVE  [Pool!Next]_Pool!vars
      <3>1. /\ Objects' = Objects \ {b} /\ reachable' = reachable
            /\ Alive' = Alive /\ (Alive => b \notin reachable)
        <4>1. CASE SweepDead(b)
          BY <1>2, <4>1, SweepDeadStep
        <4>2. CASE DestroyBlock(b)
          BY <1>2, <4>2, DestroyBlockStep
        <4>3. QED
          BY <2>11, <4>1, <4>2
      <3>2. CASE b \in Objects
        BY <3>1, <3>2 DEF Pool!Next, Pool!Reclaim
      <3>3. CASE b \notin Objects
        BY <2>1, <3>1, <3>3
      <3>4. QED
        BY <3>2, <3>3
    <2>12. QED
      BY <1>2, <2>2, <2>3, <2>4, <2>5, <2>6, <2>7, <2>8, <2>9, <2>10, <2>11 DEF Step
  <1>3. QED
    BY <1>1, <1>2, Invariant, PTL DEF Spec, ImplementsPool, Pool!Spec
=============================================================================
