------------------------- MODULE SquareCacheProofs -------------------------
(***************************************************************************)
(* Proofs about SquareCache, for any tiles, number of slots, hash function *)
(* and handlers.  Ring and chains are spoken of as sets of slots closed    *)
(* under the links, so that no proof has to walk along them.  The          *)
(* invariant is stated on the record of the cache, and one lemma per C     *)
(* function says what the function keeps of it.                            *)
(***************************************************************************)
EXTENDS SquareCache, WellFoundedInduction, TLAPS

(***************************************************************************)
(* The inductive invariant, on the record of the cache.                    *)
(***************************************************************************)

(* Slots that hold a tile.                                                 *)
Used(c) == {s \in Slots : c.data[s] # NoTile}

(* The ring is one doubly linked list of all slots.                        *)
Ring(c) ==
  /\ \A S \in SUBSET Nodes : Size \in S /\ (\A i \in S : c.next[i] \in S) => S = Nodes
  /\ \A i \in Nodes : c.prev[c.next[i]] = i
  /\ \A i \in Nodes : c.next[c.prev[i]] = i

(* The chain of a code holds the used slots of its tiles, and at most one  *)
(* link or head leads to a slot.                                           *)
Hashed(c) ==
  /\ \A s, r \in Used(c) : c.data[s] = c.data[r] => s = r
  /\ \A s \in Used(c) : c.label[s] = c.data[s]
  /\ \A k \in Codes : Chain(c, c.head[k]) = {s \in Used(c) : HashCode[c.data[s]] = k}
  /\ \A k \in Codes, i \in Used(c) : c.link[i] = c.head[k] => c.link[i] = None
  /\ \A i, j \in Used(c) : c.link[i] = c.link[j] => i = j \/ c.link[i] = None

(* Databases are open for the tiles in the slots.                          *)
Databases(c) == c.open = {c.data[s] : s \in Used(c)}

(* Slots that were never used; the current tile is in the current slot.    *)
Placed(c) ==
  /\ \A s \in Slots : s <= c.avail => c.data[s] = NoTile /\ s # c.slot
  /\ c.current \in c.open => c.slot \in Used(c) /\ c.data[c.slot] = c.current

Served(c) ==
  /\ c.current \in c.open => \A h \in Data[c.current] : c.serves[h] = c.current
  /\ \A h \in Handlers \ Keeps : c.serves[h] \in c.open \cup {NoTile}

Sane(c) ==
  c \in Cache /\ Ring(c) /\ Hashed(c) /\ Databases(c) /\ Placed(c) /\ Served(c)

IInv == Sane(sq) /\ LoadedTilesExist

LEMMA Numbers ==
  /\ Nodes = Slots \cup {Size} /\ Size \notin Slots /\ None \notin Slots
  /\ None # Size
  /\ \A s \in Slots : s \in Nodes /\ s # Size /\ s # None
  /\ \A a, b \in Nodes : Nodes # {a, b}
<1>1. Size \in Nat /\ Size >= 2
  BY SquareCacheAssumption
<1>2. ASSUME NEW a, NEW b, Nodes = {a, b} PROVE FALSE
  <2>1. 0 \in Nodes /\ 1 \in Nodes /\ 2 \in Nodes
    BY <1>1 DEF Nodes
  <2>2. QED
    BY <1>2, <2>1
<1>3. QED
  BY <1>1, <1>2 DEF Nodes, Slots, None

(***************************************************************************)
(* Chains.                                                                 *)
(***************************************************************************)

LEMMA ChainProperties ==
  ASSUME NEW c, c.link \in [Slots -> Slots \cup {None}], NEW h \in Slots \cup {None}
  PROVE  /\ Chain(c, h) \in SUBSET Slots
         /\ Closed(c, Chain(c, h))
         /\ h \in Chain(c, h) \cup {None}
         /\ \A S \in SUBSET Slots : h \in S \cup {None} /\ Closed(c, S) => Chain(c, h) \subseteq S
<1>1. Closed(c, Chain(c, h))
  <2> SUFFICES ASSUME NEW s \in Chain(c, h), c.link[s] # None
               PROVE  c.link[s] \in Chain(c, h)
    BY DEF Closed
  <2>1. s \in Slots /\ c.link[s] \in Slots
    BY DEF Chain
  <2>2. ASSUME NEW S \in SUBSET Slots, h \in S \cup {None}, Closed(c, S)
        PROVE  c.link[s] \in S
    <3>1. s \in S
      BY <2>2 DEF Chain
    <3>2. QED
      BY <2>2, <3>1 DEF Closed
  <2>3. QED
    BY <2>1, <2>2 DEF Chain
<1>2. QED
  BY <1>1 DEF Chain

(* A chain whose links stay is the chain it was.                           *)
LEMMA SameChain ==
  ASSUME NEW c, c.link \in [Slots -> Slots \cup {None}],
         NEW d, d.link \in [Slots -> Slots \cup {None}],
         NEW h \in Slots \cup {None},
         \A i \in Chain(c, h) : d.link[i] = c.link[i]
  PROVE  Chain(d, h) = Chain(c, h)
<1> DEFINE G == Chain(c, h)
           S == Chain(d, h)
<1>1. /\ G \in SUBSET Slots /\ Closed(c, G) /\ h \in G \cup {None}
      /\ \A T \in SUBSET Slots : h \in T \cup {None} /\ Closed(c, T) => G \subseteq T
  BY ChainProperties
<1>2. /\ S \in SUBSET Slots /\ Closed(d, S) /\ h \in S \cup {None}
      /\ \A T \in SUBSET Slots : h \in T \cup {None} /\ Closed(d, T) => S \subseteq T
  BY ChainProperties
<1>3. \A i \in G : d.link[i] = c.link[i]
  OBVIOUS
<1> HIDE DEF G, S
<1>4. S \subseteq G
  BY <1>1, <1>2, <1>3 DEF Closed
<1>5. Closed(c, S \cap G)
  BY <1>1, <1>2, <1>3 DEF Closed
<1>6. G \subseteq S \cap G
  BY <1>1, <1>2, <1>5
<1>7. QED
  BY <1>4, <1>6 DEF G, S

(* What the hash table says depends on these fields only.                  *)
LEMMA HashedSame ==
  ASSUME NEW c, Hashed(c), NEW d, d.data = c.data, d.label = c.label,
         d.head = c.head, d.link = c.link
  PROVE  Hashed(d) /\ Used(d) = Used(c)
BY DEF Hashed, Used, Chain, Closed

(* The links of used slots lead to used slots.                             *)
LEMMA LinksUsed ==
  ASSUME NEW c, c \in Cache, Hashed(c), NEW i \in Used(c)
  PROVE  c.link[i] \in Used(c) \cup {None}
<1> DEFINE k == HashCode[c.data[i]]
<1>1. c.data[i] \in Tiles /\ i \in Slots
  BY DEF Used, Cache
<1>2. k \in Codes
  BY <1>1 DEF Codes
<1> HIDE DEF k
<1>3. c.head[k] \in Slots \cup {None} /\ c.link \in [Slots -> Slots \cup {None}]
  BY <1>2 DEF Cache
<1>4. Chain(c, c.head[k]) = {s \in Used(c) : HashCode[c.data[s]] = k}
  BY <1>2 DEF Hashed
<1>5. i \in Chain(c, c.head[k])
  BY <1>4 DEF k
<1>6. c.link[i] \in Chain(c, c.head[k]) \cup {None}
  BY <1>3, <1>5, ChainProperties DEF Closed
<1>7. QED
  BY <1>4, <1>6

(* A tile in memory is found in its slot, and no other is found.           *)
LEMMA FindProperties ==
  ASSUME NEW c, c \in Cache, Hashed(c), NEW t \in Tiles,
         NEW f, f = roadmap_square_find(c, t)
  PROVE  \/ f \in Used(c) /\ c.data[f] = t
         \/ f = None /\ \A s \in Used(c) : c.data[s] # t
<1> DEFINE h     == c.head[HashCode[t]]
           found == {s \in Chain(c, h) : c.label[s] = t}
<1>1. HashCode[t] \in Codes
  BY DEF Codes
<1>2. found = {s \in Used(c) : c.data[s] = t}
  BY <1>1 DEF Hashed
<1>3. f = IF found = {} THEN None ELSE CHOOSE s \in found : found \subseteq Chain(c, s)
  BY DEF roadmap_square_find
<1> HIDE DEF found
<1>4. CASE found = {}
  BY <1>2, <1>3, <1>4
<1>5. CASE found # {}
  <2>1. PICK s : s \in found
    BY <1>5
  <2>2. found = {s}
    BY <1>2, <2>1 DEF Hashed
  <2>3. s \in Chain(c, s)
    <3>1. s \in Slots /\ s # None
      BY <1>2, <2>1, Numbers DEF Used
    <3>2. QED
      BY <3>1 DEF Chain
  <2>4. f \in found
    BY <1>3, <1>5, <2>2, <2>3
  <2>5. QED
    BY <1>2, <2>4
<1>6. QED
  BY <1>4, <1>5

(* The chain of a used slot's tile, and the other chains.                  *)
LEMMA ChainOfSlot ==
  ASSUME NEW c, c \in Cache, Hashed(c), NEW s \in Used(c), NEW t, t = c.data[s],
         NEW k0, k0 = HashCode[t], NEW h, h = c.head[k0], NEW K, K = Chain(c, h)
  PROVE  /\ s \in Slots /\ t \in Tiles /\ k0 \in Codes /\ s # None
         /\ c.link \in [Slots -> Slots \cup {None}] /\ h \in Slots \cup {None}
         /\ c.head \in [Codes -> Slots \cup {None}]
         /\ c.data \in [Slots -> Tiles \cup {NoTile}]
         /\ K = {i \in Used(c) : HashCode[c.data[i]] = k0} /\ s \in K
         /\ K \in SUBSET Slots /\ Closed(c, K) /\ h \in K \cup {None}
         /\ \A T \in SUBSET Slots : h \in T \cup {None} /\ Closed(c, T) => K \subseteq T
         /\ \A i \in Used(c) : i \in Slots /\ c.link[i] \in Used(c) \cup {None}
         /\ c.link[s] \in K \cup {None} /\ (h # s => c.link[s] # s)
         /\ \A k \in Codes : k # k0 =>
              /\ c.head[k] \in Slots \cup {None}
              /\ Chain(c, c.head[k]) = {i \in Used(c) : HashCode[c.data[i]] = k}
              /\ s \notin Chain(c, c.head[k])
<1> DEFINE l == c.link[s]
<1>1. s \in Slots /\ t \in Tiles /\ k0 \in Codes /\ s # None
  BY Numbers DEF Used, Cache, Codes
<1>2. /\ c.link \in [Slots -> Slots \cup {None}] /\ h \in Slots \cup {None}
      /\ c.head \in [Codes -> Slots \cup {None}] /\ l \in Slots \cup {None}
      /\ c.data \in [Slots -> Tiles \cup {NoTile}]
  BY <1>1 DEF Cache
<1>3. /\ K = {i \in Used(c) : HashCode[c.data[i]] = k0} /\ s \in K
      /\ K \in SUBSET Slots /\ Closed(c, K) /\ h \in K \cup {None}
      /\ \A T \in SUBSET Slots : h \in T \cup {None} /\ Closed(c, T) => K \subseteq T
  <2>1. K = {i \in Used(c) : HashCode[c.data[i]] = k0}
    BY <1>1 DEF Hashed
  <2>2. /\ Chain(c, h) \in SUBSET Slots /\ Closed(c, Chain(c, h))
        /\ h \in Chain(c, h) \cup {None}
        /\ \A T \in SUBSET Slots :
             h \in T \cup {None} /\ Closed(c, T) => Chain(c, h) \subseteq T
    BY <1>2, ChainProperties
  <2>3. QED
    BY <2>1, <2>2
<1>4. \A i \in Used(c) : i \in Slots /\ c.link[i] \in Used(c) \cup {None}
  BY LinksUsed DEF Used
<1>5. l \in K \cup {None} /\ (h # s => l # s)
  <2>1. l \in K \cup {None}
    BY <1>3 DEF Closed
  <2>2. ASSUME h # s, l = s PROVE FALSE
    <3>1. \A i \in K \ {s} : c.link[i] # s
      BY <1>1, <1>3, <2>2 DEF Hashed
    <3>2. Closed(c, K \ {s})
      BY <1>3, <3>1 DEF Closed
    <3>3. K \subseteq K \ {s}
      BY <1>3, <2>2, <3>2
    <3>4. QED
      BY <1>3, <3>3
  <2>3. QED
    BY <2>1, <2>2
<1>6. \A k \in Codes : k # k0 =>
        /\ c.head[k] \in Slots \cup {None}
        /\ Chain(c, c.head[k]) = {i \in Used(c) : HashCode[c.data[i]] = k}
        /\ s \notin Chain(c, c.head[k])
  BY <1>1, <1>2 DEF Hashed
<1>7. QED
  BY <1>1, <1>2, <1>3, <1>4, <1>5, <1>6

(* The chain's first slot gives way to the next.                           *)
LEMMA UnlinkHead ==
  ASSUME NEW c, c \in Cache, Hashed(c), NEW s \in Used(c), NEW t, t = c.data[s],
         c.head[HashCode[t]] = s,
         NEW d, d \in Cache, d.link = c.link, d.label = c.label,
         \A k \in Codes : d.head[k] = IF k = HashCode[t] THEN c.link[s] ELSE c.head[k],
         \A i \in Slots : d.data[i] = IF i = s THEN NoTile ELSE c.data[i]
  PROVE  Hashed(d)
<1> DEFINE k0 == HashCode[t]
           h  == c.head[k0]
           l  == c.link[s]
           K  == Chain(c, h)
<1>1. s \in Slots /\ t \in Tiles /\ k0 \in Codes /\ s # None
  BY ChainOfSlot
<1>2. /\ c.link \in [Slots -> Slots \cup {None}] /\ h \in Slots \cup {None}
      /\ c.head \in [Codes -> Slots \cup {None}] /\ l \in Slots \cup {None}
      /\ c.data \in [Slots -> Tiles \cup {NoTile}]
  BY ChainOfSlot
<1>3. /\ K = {i \in Used(c) : HashCode[c.data[i]] = k0} /\ s \in K
      /\ K \in SUBSET Slots /\ Closed(c, K) /\ h \in K \cup {None}
      /\ \A T \in SUBSET Slots : h \in T \cup {None} /\ Closed(c, T) => K \subseteq T
  BY ChainOfSlot
<1>4. \A i \in Slots : d.data[i] = IF i = s THEN NoTile ELSE c.data[i]
  OBVIOUS
<1>5. \A i \in Used(c) : i \in Slots /\ c.link[i] \in Used(c) \cup {None}
  BY ChainOfSlot
<1>6. l \in K \cup {None} /\ (h # s => l # s)
  BY ChainOfSlot
<1>7. \A k \in Codes : k # k0 =>
        /\ c.head[k] \in Slots \cup {None}
        /\ Chain(c, c.head[k]) = {i \in Used(c) : HashCode[c.data[i]] = k}
        /\ s \notin Chain(c, c.head[k])
  BY ChainOfSlot
<1> HIDE DEF K
<1>8. h = s
  OBVIOUS
<1>10. /\ d.link = c.link /\ d.label = c.label
       /\ \A k \in Codes : d.head[k] = IF k = k0 THEN l ELSE c.head[k]
  OBVIOUS
<1>11. Used(d) = Used(c) \ {s}
  BY <1>4 DEF Used
<1>12. \A i \in Used(c) : c.link[i] # s
  BY <1>1, <1>8 DEF Hashed
<1>13. \A i : Chain(d, i) = Chain(c, i)
  BY <1>10 DEF Chain, Closed
<1>14. Chain(c, l) = K \ {s}
  <2>1. Closed(c, K \ {s}) /\ l \in (K \ {s}) \cup {None}
    BY <1>3, <1>6, <1>12 DEF Closed
  <2>2. Chain(c, l) \subseteq K \ {s}
    BY <1>2, <1>3, <2>1, ChainProperties
  <2>3. Closed(c, Chain(c, l)) /\ l \in Chain(c, l) \cup {None} /\ Chain(c, l) \in SUBSET Slots
    BY <1>2, ChainProperties
  <2>4. Closed(c, Chain(c, l) \cup {s})
    BY <2>3 DEF Closed
  <2>5. K \subseteq Chain(c, l) \cup {s}
    BY <1>1, <1>3, <1>8, <2>3, <2>4
  <2>6. QED
    BY <2>2, <2>5
<1>15. \A k \in Codes : Chain(d, d.head[k]) = {i \in Used(d) : HashCode[d.data[i]] = k}
  <2>1. TAKE k \in Codes
  <2>2. CASE k = k0
    BY <1>3, <1>4, <1>5, <1>10, <1>11, <1>13, <1>14, <2>2
  <2>3. CASE k # k0
    <3>1. Chain(d, d.head[k]) = Chain(c, c.head[k])
      BY <1>10, <1>13, <2>3
    <3>2. QED
      BY <1>1, <1>4, <1>5, <1>7, <1>10, <1>11, <2>3, <3>1
  <2>4. QED
    BY <2>2, <2>3
<1>16. \A k \in Codes, i \in Used(d) : d.link[i] = d.head[k] => d.link[i] = None
  <2>1. TAKE k \in Codes, i \in Used(d)
  <2>2. CASE k = k0
    BY <1>10, <1>11, <2>2 DEF Hashed
  <2>3. CASE k # k0
    BY <1>10, <1>11, <2>3 DEF Hashed
  <2>4. QED
    BY <2>2, <2>3
<1>17. QED
  BY <1>4, <1>5, <1>10, <1>11, <1>15, <1>16 DEF Hashed

(* A slot inside its chain is passed over.                                 *)
LEMMA UnlinkInside ==
  ASSUME NEW c, c \in Cache, Hashed(c), NEW s \in Used(c), NEW t, t = c.data[s],
         c.head[HashCode[t]] # s,
         NEW d, d \in Cache, d.head = c.head, d.label = c.label,
         \A i \in Slots : d.link[i] = IF c.link[i] = s THEN c.link[s] ELSE c.link[i],
         \A i \in Slots : d.data[i] = IF i = s THEN NoTile ELSE c.data[i]
  PROVE  Hashed(d)
<1> DEFINE k0 == HashCode[t]
           h  == c.head[k0]
           l  == c.link[s]
           K  == Chain(c, h)
<1>1. s \in Slots /\ t \in Tiles /\ k0 \in Codes /\ s # None
  BY ChainOfSlot
<1>2. /\ c.link \in [Slots -> Slots \cup {None}] /\ h \in Slots \cup {None}
      /\ c.head \in [Codes -> Slots \cup {None}] /\ l \in Slots \cup {None}
      /\ c.data \in [Slots -> Tiles \cup {NoTile}]
  BY ChainOfSlot
<1>3. /\ K = {i \in Used(c) : HashCode[c.data[i]] = k0} /\ s \in K
      /\ K \in SUBSET Slots /\ Closed(c, K) /\ h \in K \cup {None}
      /\ \A T \in SUBSET Slots : h \in T \cup {None} /\ Closed(c, T) => K \subseteq T
  BY ChainOfSlot
<1>4. \A i \in Slots : d.data[i] = IF i = s THEN NoTile ELSE c.data[i]
  OBVIOUS
<1>5. \A i \in Used(c) : i \in Slots /\ c.link[i] \in Used(c) \cup {None}
  BY ChainOfSlot
<1>6. l \in K \cup {None} /\ (h # s => l # s)
  BY ChainOfSlot
<1>7. \A k \in Codes : k # k0 =>
        /\ c.head[k] \in Slots \cup {None}
        /\ Chain(c, c.head[k]) = {i \in Used(c) : HashCode[c.data[i]] = k}
        /\ s \notin Chain(c, c.head[k])
  BY ChainOfSlot
<1> HIDE DEF K
<1>8. h # s
  OBVIOUS
<1>9. \A i \in Slots : d.link[i] = IF c.link[i] = s THEN l ELSE c.link[i]
  OBVIOUS
<1>10. d.head = c.head /\ d.label = c.label
  OBVIOUS
<1>11. Used(d) = Used(c) \ {s}
  BY <1>4 DEF Used
<1>12. d.link \in [Slots -> Slots \cup {None}]
  BY DEF Cache
<1>13. Chain(d, h) = K \ {s}
  <2> DEFINE S == Chain(d, h)
  <2> HIDE DEF h, l, k0
  <2>1. /\ S \in SUBSET Slots /\ Closed(d, S) /\ h \in S \cup {None}
        /\ \A T \in SUBSET Slots : h \in T \cup {None} /\ Closed(d, T) => S \subseteq T
    BY <1>2, <1>12, ChainProperties
  <2> HIDE DEF S
  <2>2. Closed(d, K \ {s}) /\ h \in (K \ {s}) \cup {None}
    BY <1>3, <1>6, <1>8, <1>9, <1>10 DEF Closed
  <2>3. S \subseteq K \ {s}
    BY <1>3, <2>1, <2>2
  <2>4. CASE \E i \in S : i # s /\ c.link[i] = s
    <3>1. l \in S \cup {None}
      BY <1>9, <1>10, <2>1, <2>4 DEF Closed
    <3>2. Closed(c, S \cup {s})
      BY <1>9, <1>10, <2>1, <3>1 DEF Closed, l
    <3>3. QED
      BY <1>1, <1>3, <2>1, <2>3, <3>2 DEF S
  <2>5. CASE ~\E i \in S : i # s /\ c.link[i] = s
    <3>1. Closed(c, S \ {s})
      BY <1>9, <1>10, <2>1, <2>5 DEF Closed
    <3>2. QED
      BY <1>3, <1>8, <2>1, <2>3, <3>1 DEF S
  <2>6. QED
    BY <2>4, <2>5
<1>14. \A k \in Codes : Chain(d, d.head[k]) = {i \in Used(d) : HashCode[d.data[i]] = k}
  <2>1. TAKE k \in Codes
  <2>2. CASE k = k0
    BY <1>3, <1>4, <1>5, <1>10, <1>11, <1>13, <2>2
  <2>3. CASE k # k0
    <3> DEFINE g == c.head[k]
               G == Chain(c, g)
    <3>1. g \in Slots \cup {None} /\ s \notin G /\ G \in SUBSET Slots /\ Closed(c, G)
      BY <1>2, <1>7, <2>3, ChainProperties
    <3> HIDE DEF h, l, k0, g
    <3>2. \A i \in G : d.link[i] = c.link[i]
      BY <1>1, <1>9, <1>10, <3>1 DEF Closed
    <3>3. Chain(d, g) = G
      BY <1>2, <1>12, <3>1, <3>2, SameChain
    <3>4. QED
      BY <1>1, <1>4, <1>5, <1>7, <1>10, <1>11, <2>3, <3>3 DEF g
  <2>4. QED
    BY <2>2, <2>3
<1>15. \A k \in Codes, i \in Used(d) : d.link[i] = d.head[k] => d.link[i] = None
  BY <1>5, <1>9, <1>10, <1>11 DEF Hashed
<1>16. \A i, j \in Used(d) : d.link[i] = d.link[j] => i = j \/ d.link[i] = None
  BY <1>1, <1>5, <1>9, <1>10, <1>11 DEF Hashed
<1>17. QED
  BY <1>4, <1>5, <1>10, <1>11, <1>14, <1>15, <1>16 DEF Hashed

(* The slot of a tile is taken off its chain and emptied.                  *)
Removed(c, t, s) == [roadmap_hash_remove(c, t, s) EXCEPT !.data[s] = NoTile]

LEMMA RemoveProperties ==
  ASSUME NEW c, c \in Cache, Hashed(c), NEW s \in Used(c), NEW t, t = c.data[s],
         NEW d, d = Removed(c, t, s)
  PROVE  /\ d \in Cache /\ Hashed(d) /\ Used(d) = Used(c) \ {s}
         /\ \A i \in Used(d) : d.data[i] = c.data[i]
         /\ d.label = c.label /\ d.next = c.next /\ d.prev = c.prev
         /\ d.current = c.current /\ d.slot = c.slot /\ d.avail = c.avail
         /\ d.serves = c.serves /\ d.open = c.open /\ d.exists = c.exists
         /\ d.missing = c.missing
         /\ \A i \in Slots : d.data[i] = IF i = s THEN NoTile ELSE c.data[i]
<1> DEFINE k0 == HashCode[t]
           h  == c.head[k0]
           l  == c.link[s]
           data == [c.data EXCEPT ![s] = NoTile]
<1>1. s \in Slots /\ t \in Tiles /\ k0 \in Codes /\ s # None
  BY ChainOfSlot
<1>2. /\ c.link \in [Slots -> Slots \cup {None}] /\ h \in Slots \cup {None}
      /\ c.head \in [Codes -> Slots \cup {None}] /\ l \in Slots \cup {None}
      /\ c.data \in [Slots -> Tiles \cup {NoTile}]
  BY ChainOfSlot
<1>4. data \in [Slots -> Tiles \cup {NoTile}]
      /\ \A i \in Slots : data[i] = IF i = s THEN NoTile ELSE c.data[i]
  BY <1>1, <1>2
<1>5. \A i \in Used(c) : i \in Slots
  BY DEF Used
<1> HIDE DEF data
<1>8. CASE h = s
  <2> DEFINE head == [c.head EXCEPT ![k0] = l]
  <2>1. d = [c EXCEPT !.head = head, !.data = data]
    BY <1>8 DEF Removed, roadmap_hash_remove, Cache, data
  <2>2. head \in [Codes -> Slots \cup {None}]
        /\ \A k \in Codes : head[k] = IF k = k0 THEN l ELSE c.head[k]
    BY <1>1, <1>2
  <2> HIDE DEF head
  <2>3. /\ d \in Cache /\ d.head = head /\ d.data = data /\ d.link = c.link
        /\ d.label = c.label /\ d.next = c.next /\ d.prev = c.prev
        /\ d.current = c.current /\ d.slot = c.slot /\ d.avail = c.avail
        /\ d.serves = c.serves /\ d.open = c.open /\ d.exists = c.exists
        /\ d.missing = c.missing
    BY <1>4, <2>1, <2>2 DEF Cache
  <2>4. Used(d) = Used(c) \ {s}
    BY <1>4, <2>3 DEF Used
  <2>5. Hashed(d)
    BY <1>4, <1>8, <2>2, <2>3, UnlinkHead
  <2>6. QED
    BY <1>4, <1>5, <2>3, <2>4, <2>5
<1>9. CASE h # s
  <2> DEFINE link == [i \in Slots |-> IF c.link[i] = s THEN l ELSE c.link[i]]
  <2>1. d = [c EXCEPT !.link = link, !.data = data]
    BY <1>9 DEF Removed, roadmap_hash_remove, Cache, data
  <2>2. link \in [Slots -> Slots \cup {None}]
        /\ \A i \in Slots : link[i] = IF c.link[i] = s THEN l ELSE c.link[i]
    BY <1>2
  <2> HIDE DEF link
  <2>3. /\ d \in Cache /\ d.head = c.head /\ d.data = data /\ d.link = link
        /\ d.label = c.label /\ d.next = c.next /\ d.prev = c.prev
        /\ d.current = c.current /\ d.slot = c.slot /\ d.avail = c.avail
        /\ d.serves = c.serves /\ d.open = c.open /\ d.exists = c.exists
        /\ d.missing = c.missing
    BY <1>4, <2>1, <2>2 DEF Cache
  <2>4. Used(d) = Used(c) \ {s}
    BY <1>4, <2>3 DEF Used
  <2>5. Hashed(d)
    BY <1>4, <1>9, <2>2, <2>3, UnlinkInside
  <2>6. QED
    BY <1>4, <1>5, <2>3, <2>4, <2>5
<1>10. QED
  BY <1>8, <1>9

(* A slot that is not in use is put at the head of its tile's chain.       *)
LEMMA AddProperties ==
  ASSUME NEW c, c \in Cache, Hashed(c), NEW s \in Slots \ Used(c), NEW t \in Tiles,
         \A i \in Used(c) : c.data[i] # t,
         NEW d, d \in Cache,
         \A i \in Slots : d.link[i] = IF i = s THEN c.head[HashCode[t]] ELSE c.link[i],
         \A k \in Codes : d.head[k] = IF k = HashCode[t] THEN s ELSE c.head[k],
         \A i \in Slots : d.data[i] = IF i = s THEN t ELSE c.data[i],
         \A i \in Slots : d.label[i] = IF i = s THEN t ELSE c.label[i]
  PROVE  Hashed(d) /\ Used(d) = Used(c) \cup {s}
<1> DEFINE k0 == HashCode[t]
           h  == c.head[k0]
           K  == Chain(c, h)
           S  == Chain(d, s)
<1>1. s \in Slots /\ s # None /\ k0 \in Codes /\ t # NoTile
  BY Numbers, SquareCacheAssumption DEF Codes
<1>2. /\ c.link \in [Slots -> Slots \cup {None}] /\ d.link \in [Slots -> Slots \cup {None}]
      /\ c.head \in [Codes -> Slots \cup {None}] /\ h \in Slots \cup {None}
      /\ s \in Slots \cup {None}
  BY <1>1 DEF Cache
<1>3. /\ K = {i \in Used(c) : HashCode[c.data[i]] = k0} /\ s \notin K
      /\ K \in SUBSET Slots /\ Closed(c, K) /\ h \in K \cup {None}
  <2>1. K = {i \in Used(c) : HashCode[c.data[i]] = k0}
    BY <1>1 DEF Hashed
  <2>2. QED
    BY <1>2, <2>1, ChainProperties
<1>4. /\ \A i \in Slots : d.link[i] = IF i = s THEN h ELSE c.link[i]
      /\ \A k \in Codes : d.head[k] = IF k = k0 THEN s ELSE c.head[k]
      /\ \A i \in Slots : d.data[i] = IF i = s THEN t ELSE c.data[i]
      /\ \A i \in Slots : d.label[i] = IF i = s THEN t ELSE c.label[i]
  OBVIOUS
<1>5. Used(d) = Used(c) \cup {s}
  BY <1>1, <1>4 DEF Used
<1>6. \A i \in Used(c) : i \in Slots /\ i # s /\ c.link[i] \in Used(c) \cup {None}
  BY LinksUsed DEF Used
<1>7. \A k \in Codes : k # k0 =>
        /\ c.head[k] \in Slots \cup {None}
        /\ Chain(c, c.head[k]) = {i \in Used(c) : HashCode[c.data[i]] = k}
        /\ c.head[k] \in Chain(c, c.head[k]) \cup {None}
  <2>1. TAKE k \in Codes
  <2>2. HAVE k # k0
  <2> DEFINE g == c.head[k]
  <2>3. g \in Slots \cup {None} /\ Chain(c, g) = {i \in Used(c) : HashCode[c.data[i]] = k}
    BY <1>2 DEF Hashed
  <2> HIDE DEF g
  <2>4. g \in Chain(c, g) \cup {None}
    BY <1>2, <2>3, ChainProperties
  <2>5. QED
    BY <2>3, <2>4 DEF g
<1>8. Chain(d, h) = K
  <2> HIDE DEF h, k0
  <2>1. \A i \in Chain(c, h) : d.link[i] = c.link[i]
    BY <1>3, <1>4
  <2>2. QED
    BY <1>2, <2>1, SameChain
<1>9. S = K \cup {s}
  <2> HIDE DEF h, k0
  <2>1. /\ S \in SUBSET Slots /\ Closed(d, S) /\ s \in S \cup {None}
        /\ \A T \in SUBSET Slots : s \in T \cup {None} /\ Closed(d, T) => S \subseteq T
    BY <1>2, ChainProperties
  <2>2. \A T \in SUBSET Slots : h \in T \cup {None} /\ Closed(d, T) => K \subseteq T
    <3>1. \A T \in SUBSET Slots :
            h \in T \cup {None} /\ Closed(d, T) => Chain(d, h) \subseteq T
      BY <1>2, ChainProperties
    <3>2. QED
      BY <1>8, <3>1
  <2> HIDE DEF S, K
  <2>3. Closed(d, K \cup {s})
    BY <1>3, <1>4 DEF Closed
  <2>4. S \subseteq K \cup {s}
    BY <1>1, <1>3, <2>1, <2>3
  <2>5. s \in S /\ h \in S \cup {None}
    BY <1>1, <1>4, <2>1 DEF Closed
  <2>6. K \subseteq S
    BY <2>1, <2>2, <2>5
  <2>7. QED
    BY <2>4, <2>5, <2>6
<1> HIDE DEF K, S
<1>10. \A k \in Codes : Chain(d, d.head[k]) = {i \in Used(d) : HashCode[d.data[i]] = k}
  <2>1. TAKE k \in Codes
  <2>2. CASE k = k0
    <3>1. Chain(d, d.head[k]) = K \cup {s}
      BY <1>4, <1>9, <2>2 DEF S
    <3>2. QED
      BY <1>1, <1>3, <1>4, <1>5, <1>6, <2>2, <3>1
  <2>3. CASE k # k0
    <3> DEFINE g == c.head[k]
    <3>1. g \in Slots \cup {None} /\ s \notin Chain(c, g)
          /\ Chain(c, g) = {i \in Used(c) : HashCode[c.data[i]] = k}
      BY <1>7, <2>3
    <3>2. d.head[k] = g
      BY <1>4, <2>3
    <3> HIDE DEF g, h, k0
    <3>3. \A i \in Chain(c, g) : d.link[i] = c.link[i]
      BY <1>4, <1>6, <3>1
    <3>4. Chain(d, g) = Chain(c, g)
      BY <1>2, <3>1, <3>3, SameChain
    <3>5. QED
      BY <1>4, <1>5, <1>6, <2>3, <3>1, <3>2, <3>4 DEF k0
  <2>4. QED
    BY <2>2, <2>3
<1>11. \A k \in Codes, i \in Used(d) : d.link[i] = d.head[k] => d.link[i] = None
  <2>1. TAKE k \in Codes, i \in Used(d)
  <2>2. CASE i = s /\ k = k0
    BY <1>1, <1>3, <1>4, <2>2
  <2>3. CASE i = s /\ k # k0
    BY <1>1, <1>3, <1>4, <1>7, <2>3
  <2>4. CASE i # s
    BY <1>1, <1>4, <1>5, <1>6, <2>4 DEF Hashed
  <2>5. QED
    BY <2>2, <2>3, <2>4
<1>12. \A i, j \in Used(d) : d.link[i] = d.link[j] => i = j \/ d.link[i] = None
  <2>1. \A i \in Used(c) : c.link[i] = h => h = None
    BY <1>1 DEF Hashed
  <2>2. \A i, j \in Used(c) : c.link[i] = c.link[j] => i = j \/ c.link[i] = None
    BY DEF Hashed
  <2>3. QED
    BY <1>1, <1>4, <1>5, <1>6, <2>1, <2>2
<1>13. /\ \A i, j \in Used(d) : d.data[i] = d.data[j] => i = j
       /\ \A i \in Used(d) : d.label[i] = d.data[i]
  BY <1>1, <1>4, <1>5, <1>6 DEF Hashed
<1>14. QED
  BY <1>5, <1>10, <1>11, <1>12, <1>13 DEF Hashed

(***************************************************************************)
(* The ring.                                                               *)
(***************************************************************************)

LEMMA RingProperties ==
  ASSUME NEW c, c \in Cache, Ring(c)
  PROVE  /\ c.next \in [Nodes -> Nodes] /\ c.prev \in [Nodes -> Nodes]
         /\ \A i \in Nodes : c.next[i] # i /\ c.prev[i] # i
         /\ \A i \in Nodes : c.prev[c.next[i]] = i /\ c.next[c.prev[i]] = i
         /\ \A i, j \in Nodes : c.next[i] = j => c.next[j] # i
<1>1. c.next \in [Nodes -> Nodes] /\ c.prev \in [Nodes -> Nodes]
  BY DEF Cache
<1>2. \A i \in Nodes : c.prev[c.next[i]] = i /\ c.next[c.prev[i]] = i
  BY DEF Ring
<1>3. \A S \in SUBSET Nodes : Size \in S /\ (\A i \in S : c.next[i] \in S) => S = Nodes
  BY DEF Ring
<1>4. Size \in Nodes /\ \A a, b \in Nodes : Nodes # {a, b}
  BY Numbers
<1>5. ASSUME NEW i \in Nodes, NEW j \in Nodes, c.next[i] = j, c.next[j] = i
      PROVE  FALSE
  <2>1. CASE Size \in {i, j}
    <3>1. {i, j} = Nodes
      BY <1>3, <1>5, <2>1
    <3>2. QED
      BY <1>4, <3>1
  <2>2. CASE Size \notin {i, j}
    <3>1. \A n \in Nodes \ {i, j} : c.next[n] \in Nodes \ {i, j}
      BY <1>1, <1>2, <1>5
    <3>2. Nodes \ {i, j} = Nodes
      BY <1>3, <1>4, <2>2, <3>1
    <3>3. QED
      BY <3>2
  <2>3. QED
    BY <2>1, <2>2
<1>6. QED
  BY <1>1, <1>2, <1>5

(* A slot moved to the front leaves the ring one list.                     *)
LEMMA RingMoved ==
  ASSUME NEW c, c \in Cache, Ring(c), NEW s \in Slots, c.next[Size] # s,
         NEW d, d \in Cache,
         \A i \in Nodes : d.next[i] = IF i = Size THEN s ELSE IF i = s THEN c.next[Size]
                                      ELSE IF i = c.prev[s] THEN c.next[s] ELSE c.next[i],
         \A i \in Nodes : d.prev[i] = IF i = c.next[Size] THEN s ELSE IF i = s THEN Size
                                      ELSE IF i = c.next[s] THEN c.prev[s] ELSE c.prev[i]
  PROVE  Ring(d)
<1> DEFINE p == c.prev[s]
           n == c.next[s]
           f == c.next[Size]
<1>1. /\ s \in Nodes /\ Size \in Nodes /\ s # Size
      /\ p \in Nodes /\ n \in Nodes /\ f \in Nodes /\ f # s
      /\ c.next[p] = s /\ c.prev[n] = s /\ c.prev[f] = Size
      /\ n # s /\ p # s /\ p # Size /\ f # n /\ f # Size
  BY Numbers, RingProperties
<1>2. /\ \A i \in Nodes : c.next[i] \in Nodes /\ c.prev[i] \in Nodes
      /\ \A i \in Nodes : c.prev[c.next[i]] = i /\ c.next[c.prev[i]] = i
  BY RingProperties
<1>3. /\ \A i \in Nodes : d.next[i] = IF i = Size THEN s ELSE IF i = s THEN f
                                      ELSE IF i = p THEN n ELSE c.next[i]
      /\ \A i \in Nodes : d.prev[i] = IF i = f THEN s ELSE IF i = s THEN Size
                                      ELSE IF i = n THEN p ELSE c.prev[i]
  OBVIOUS
<1>4. \A S \in SUBSET Nodes : Size \in S /\ (\A i \in S : c.next[i] \in S) => S = Nodes
  BY DEF Ring
<1>5. f = c.next[Size] /\ n = c.next[s] /\ p = c.prev[s]
  OBVIOUS
<1> HIDE DEF p, n, f
<1>6. \A i \in Nodes : d.prev[d.next[i]] = i
  <2>1. TAKE i \in Nodes
  <2>2. CASE i \in {Size, s, p}
    BY <1>1, <1>3, <2>2
  <2>3. CASE i \notin {Size, s, p}
    BY <1>1, <1>2, <1>3, <1>5, <2>3
  <2>4. QED
    BY <2>2, <2>3
<1>7. \A i \in Nodes : d.next[d.prev[i]] = i
  <2>1. TAKE i \in Nodes
  <2>2. CASE i \in {f, s, n}
    BY <1>1, <1>3, <2>2
  <2>3. CASE i \notin {f, s, n}
    BY <1>1, <1>2, <1>3, <1>5, <2>3
  <2>4. QED
    BY <2>2, <2>3
<1>8. ASSUME NEW S \in SUBSET Nodes, Size \in S, \A i \in S : d.next[i] \in S
      PROVE  S = Nodes
  <2>1. s \in S /\ f \in S
    BY <1>1, <1>3, <1>8
  <2>2. p \in S
    <3>1. SUFFICES ASSUME p \notin S PROVE FALSE
      OBVIOUS
    <3>2. \A i \in S \ {s} : c.next[i] \in S \ {s}
      BY <1>1, <1>2, <1>3, <1>5, <1>8, <2>1, <3>1
    <3>3. S \ {s} = Nodes
      BY <1>1, <1>4, <1>8, <3>2
    <3>4. QED
      BY <1>1, <3>3
  <2>3. \A i \in S : c.next[i] \in S
    BY <1>1, <1>3, <1>5, <1>8, <2>1, <2>2
  <2>4. QED
    BY <1>4, <1>8, <2>3
<1>9. QED
  BY <1>6, <1>7, <1>8 DEF Ring

LEMMA PromoteProperties ==
  ASSUME NEW c, c \in Cache, Ring(c), NEW s \in Slots,
         NEW d, d = roadmap_square_promote(c, s)
  PROVE  /\ d \in Cache /\ Ring(d)
         /\ d.label = c.label /\ d.data = c.data /\ d.head = c.head /\ d.link = c.link
         /\ d.current = c.current /\ d.slot = c.slot /\ d.avail = c.avail
         /\ d.serves = c.serves /\ d.open = c.open /\ d.exists = c.exists
         /\ d.missing = c.missing
<1>1. CASE c.next[Size] = s
  BY <1>1 DEF roadmap_square_promote
<1>2. CASE c.next[Size] # s
  <2> DEFINE p == c.prev[s]
             n == c.next[s]
             f == c.next[Size]
             prev1 == [c.prev EXCEPT ![n] = p]
             next2 == [c.next EXCEPT ![p] = n]
             next3 == [next2 EXCEPT ![s] = f]
             prev3 == [prev1 EXCEPT ![s] = Size]
             next4 == [next3 EXCEPT ![Size] = s]
             prev4 == [prev3 EXCEPT ![f] = s]
  <2>1. /\ s \in Nodes /\ Size \in Nodes /\ s # Size
        /\ p \in Nodes /\ n \in Nodes /\ f \in Nodes /\ f # s
        /\ c.next[p] = s /\ c.prev[n] = s /\ c.prev[f] = Size
        /\ n # s /\ p # s /\ p # Size /\ f # n /\ f # Size
        /\ c.next \in [Nodes -> Nodes] /\ c.prev \in [Nodes -> Nodes]
    <3>1. c.next \in [Nodes -> Nodes] /\ c.prev \in [Nodes -> Nodes]
      BY DEF Cache
    <3>2. s \in Nodes /\ Size \in Nodes /\ s # Size
      BY Numbers
    <3>3. QED
      BY <1>2, <3>1, <3>2, RingProperties
  <2>2. prev1 \in [Nodes -> Nodes] /\ prev1[s] = p
    BY <2>1
  <2>3. next2 \in [Nodes -> Nodes] /\ next2[Size] = f
    BY <2>1
  <2>4. next3 \in [Nodes -> Nodes] /\ next3[Size] = f /\ prev3 \in [Nodes -> Nodes]
    BY <2>1, <2>2, <2>3
  <2>5. d = [c EXCEPT !.next = next4, !.prev = prev4]
    <3> DEFINE c1 == [c EXCEPT !.prev = prev1]
               c2 == [c1 EXCEPT !.next = next2]
               c3 == [c2 EXCEPT !.next = next3, !.prev = prev3]
    <3>1. [c EXCEPT !.prev[c.next[s]] = c.prev[s]] = c1
      BY DEF Cache
    <3>2. c1.prev[s] = p /\ c1.next[s] = n
      BY <2>2 DEF Cache
    <3>3. [c1 EXCEPT !.next[p] = n] = c2
      BY DEF Cache
    <3>4. c2.next[Size] = f
      BY <2>3 DEF Cache
    <3>5. [c2 EXCEPT !.next[s] = f, !.prev[s] = Size] = c3
      BY DEF Cache
    <3>6. c3.next[Size] = f
      BY <2>4 DEF Cache
    <3>7. [c3 EXCEPT !.prev[f] = s, !.next[Size] = s] = [c EXCEPT !.next = next4, !.prev = prev4]
      BY DEF Cache
    <3> HIDE DEF c1, c2, c3, p, n, f, next2, next3, prev1, prev3, next4, prev4
    <3>8. QED
      BY <1>2, <3>1, <3>2, <3>3, <3>4, <3>5, <3>6, <3>7, Zenon DEF roadmap_square_promote
  <2>6. /\ next4 \in [Nodes -> Nodes] /\ prev4 \in [Nodes -> Nodes]
        /\ \A i \in Nodes : next4[i] = IF i = Size THEN s ELSE IF i = s THEN f
                                       ELSE IF i = p THEN n ELSE c.next[i]
        /\ \A i \in Nodes : prev4[i] = IF i = f THEN s ELSE IF i = s THEN Size
                                       ELSE IF i = n THEN p ELSE c.prev[i]
    BY <2>1, <2>2, <2>3, <2>4
  <2> HIDE DEF next4, prev4
  <2>7. /\ d \in Cache /\ d.next = next4 /\ d.prev = prev4
        /\ d.label = c.label /\ d.data = c.data /\ d.head = c.head /\ d.link = c.link
        /\ d.current = c.current /\ d.slot = c.slot /\ d.avail = c.avail
        /\ d.serves = c.serves /\ d.open = c.open /\ d.exists = c.exists
        /\ d.missing = c.missing
    BY <2>5, <2>6 DEF Cache
  <2>8. Ring(d)
    BY <1>2, <2>6, <2>7, RingMoved
  <2>9. QED
    BY <2>7, <2>8
<1>3. QED
  BY <1>1, <1>2

(* The victim is a slot, never the current one, and one that was never     *)
(* used while there is any.                                                *)
LEMMA VictimProperties ==
  ASSUME NEW c, c \in Cache, Ring(c), Placed(c)
  PROVE  /\ Victim(c) \in Slots /\ Victim(c) # c.slot
         /\ c.avail # None => Victim(c) = c.avail
<1>1. CASE c.avail # None
  <2>1. c.avail \in Slots /\ c.avail <= c.avail
    BY <1>1 DEF Cache, Slots
  <2>2. c.avail # c.slot
    BY <2>1 DEF Placed
  <2>3. QED
    BY <1>1, <2>1, <2>2 DEF Victim
<1>2. CASE c.avail = None
  <2> DEFINE l == c.prev[Size]
  <2>1. l \in Nodes /\ l # Size /\ c.next[l] = Size /\ c.prev[l] \in Nodes
        /\ c.prev[l] # l /\ c.prev[l] # Size
    BY Numbers, RingProperties
  <2>2. l \in Slots /\ c.prev[l] \in Slots
    BY <2>1, Numbers
  <2>3. QED
    BY <1>2, <2>1, <2>2 DEF Victim
<1>3. QED
  BY <1>1, <1>2

(***************************************************************************)
(* Unloading and loading.                                                  *)
(***************************************************************************)

(* The status flags have no part in the rest.                              *)
LEMMA SaneSame ==
  ASSUME NEW c, Sane(c), NEW d, d \in Cache,
         d.label = c.label, d.next = c.next, d.prev = c.prev, d.data = c.data,
         d.head = c.head, d.link = c.link, d.current = c.current, d.slot = c.slot,
         d.avail = c.avail, d.serves = c.serves, d.open = c.open
  PROVE  Sane(d) /\ Used(d) = Used(c)
<1>1. Hashed(d) /\ Used(d) = Used(c)
  BY HashedSame DEF Sane
<1>2. Ring(d)
  BY DEF Sane, Ring
<1>3. Databases(d) /\ Placed(d) /\ Served(d)
  BY <1>1 DEF Sane, Databases, Placed, Served
<1>4. QED
  BY <1>1, <1>2, <1>3 DEF Sane

(* A tile is gone after it is unloaded, and everything else stays.         *)
LEMMA UnloadProperties ==
  ASSUME NEW c, Sane(c), NEW t \in Tiles, NEW d, d = roadmap_locator_unload_tile(c, t)
  PROVE  /\ Sane(d) /\ d.open = c.open \ {t}
         /\ Used(d) = {s \in Used(c) : c.data[s] # t}
         /\ \A s \in Used(d) : d.data[s] = c.data[s]
         /\ d.label = c.label /\ d.current = c.current /\ d.slot = c.slot
         /\ d.avail = c.avail /\ d.exists = c.exists /\ d.missing = c.missing
<1>1. c \in Cache /\ Ring(c) /\ Hashed(c) /\ Databases(c) /\ Placed(c) /\ Served(c)
  BY DEF Sane
<1>2. CASE t \notin c.open
  BY <1>1, <1>2 DEF Databases, roadmap_locator_unload_tile
<1>3. CASE t \in c.open
  <2> DEFINE serves == [h \in Handlers |->
                          IF c.serves[h] = t /\ h \notin Keeps THEN NoTile ELSE c.serves[h]]
             b      == [c EXCEPT !.serves = serves]
             s      == roadmap_square_find(b, t)
             e      == Removed(b, t, s)
             open   == c.open \ {t}
  <2>1. serves \in [Handlers -> Tiles \cup {NoTile}]
    BY <1>1 DEF Cache
  <2>2. \A h \in Handlers :
          serves[h] = IF c.serves[h] = t /\ h \notin Keeps THEN NoTile ELSE c.serves[h]
    OBVIOUS
  <2>3. d = IF s = None THEN [b EXCEPT !.open = @ \ {t}] ELSE [e EXCEPT !.open = @ \ {t}]
    BY <1>3 DEF roadmap_locator_unload_tile, roadmap_square_delete_reference, Removed
  <2> HIDE DEF serves
  <2>4. /\ b \in Cache /\ b.serves = serves
        /\ b.label = c.label /\ b.next = c.next /\ b.prev = c.prev /\ b.data = c.data
        /\ b.head = c.head /\ b.link = c.link /\ b.current = c.current
        /\ b.slot = c.slot /\ b.avail = c.avail /\ b.open = c.open
        /\ b.exists = c.exists /\ b.missing = c.missing
    BY <1>1, <2>1 DEF Cache
  <2> HIDE DEF b
  <2>5. Hashed(b) /\ Used(b) = Used(c)
    BY <1>1, <2>4, HashedSame
  <2>6. s \in Used(c) /\ c.data[s] = t
    <3>1. \E i \in Used(b) : b.data[i] = t
      BY <1>1, <1>3, <2>4, <2>5 DEF Databases
    <3>2. QED
      BY <2>4, <2>5, <3>1, FindProperties
  <2>7. s # None
    BY <2>6, Numbers DEF Used
  <2> HIDE DEF s
  <2>8. /\ e \in Cache /\ Hashed(e) /\ Used(e) = Used(c) \ {s}
        /\ \A i \in Used(e) : e.data[i] = c.data[i]
        /\ e.label = c.label /\ e.next = c.next /\ e.prev = c.prev
        /\ e.current = c.current /\ e.slot = c.slot /\ e.avail = c.avail
        /\ e.serves = serves /\ e.open = c.open /\ e.exists = c.exists
        /\ e.missing = c.missing
        /\ \A i \in Slots : e.data[i] = IF i = s THEN NoTile ELSE c.data[i]
    BY <2>4, <2>5, <2>6, RemoveProperties
  <2> HIDE DEF e
  <2>9. d = [e EXCEPT !.open = open]
    BY <2>3, <2>7, <2>8 DEF Cache
  <2>10. open \in SUBSET Tiles
    BY <1>1 DEF Cache
  <2> HIDE DEF open
  <2>11. /\ d \in Cache /\ d.open = open
         /\ d.data = e.data /\ d.head = e.head /\ d.link = e.link
         /\ d.label = c.label /\ d.next = c.next /\ d.prev = c.prev
         /\ d.current = c.current /\ d.slot = c.slot /\ d.avail = c.avail
         /\ d.serves = serves /\ d.exists = c.exists /\ d.missing = c.missing
    BY <2>8, <2>9, <2>10 DEF Cache
  <2>12. Hashed(d) /\ Used(d) = Used(c) \ {s}
    BY <2>8, <2>9, <2>11, HashedSame DEF Cache
  <2>13. Ring(d)
    BY <1>1, <2>11 DEF Ring
  <2>14. Used(d) = {i \in Used(c) : c.data[i] # t}
    BY <1>1, <2>6, <2>12 DEF Hashed
  <2>15. \A i \in Used(d) : d.data[i] = c.data[i]
    BY <2>8, <2>11, <2>12
  <2>16. Databases(d)
    BY <1>1, <2>11, <2>14, <2>15 DEF Databases, open
  <2>17. Placed(d)
    <3>1. \A i \in Slots : i <= d.avail => d.data[i] = NoTile /\ i # d.slot
      BY <1>1, <2>8, <2>11 DEF Placed
    <3>2. d.current \in d.open => d.slot \in Used(d) /\ d.data[d.slot] = d.current
      BY <1>1, <2>11, <2>14, <2>15 DEF Placed, open
    <3>3. QED
      BY <3>1, <3>2 DEF Placed
  <2>18. Served(d)
    <3>1. d.current \in d.open => \A h \in Data[d.current] : d.serves[h] = d.current
      <4>1. \A i \in Tiles : Data[i] \subseteq Handlers
        BY SquareCacheAssumption
      <4>2. c.open \subseteq Tiles
        BY <1>1 DEF Cache
      <4>3. QED
        BY <1>1, <2>2, <2>11, <4>1, <4>2 DEF Served, open
    <3>2. \A h \in Handlers \ Keeps : d.serves[h] \in d.open \cup {NoTile}
      BY <1>1, <2>2, <2>11 DEF Served, open
    <3>3. QED
      BY <3>1, <3>2 DEF Served
  <2>19. QED
    BY <2>11, <2>12, <2>13, <2>14, <2>15, <2>16, <2>17, <2>18 DEF Sane, open
<1>4. QED
  BY <1>2, <1>3

(* Without a database there is no slot, and no reference to delete.        *)
LEMMA NoReference ==
  ASSUME NEW c, Sane(c), NEW t \in Tiles, t \notin c.open
  PROVE  roadmap_square_delete_reference(c, t) = c
<1>1. roadmap_square_find(c, t) = None
  BY FindProperties DEF Sane, Databases
<1>2. QED
  BY <1>1 DEF roadmap_square_delete_reference

(* A victim's slot is emptied, and the tile in use is another one.         *)
LEMMA EmptiedProperties ==
  ASSUME NEW c, Sane(c), NEW s, s = Victim(c),
         NEW e, e = IF c.label[s] = NoTile THEN c ELSE roadmap_square_unload(c, s)
  PROVE  /\ s \in Slots /\ Sane(e) /\ s \notin Used(e) /\ e.open \subseteq c.open
         /\ c.current \in c.open => c.current \in e.open
         /\ e.avail = c.avail /\ e.exists = c.exists /\ e.missing = c.missing
         /\ c.avail # None => s = c.avail
<1>1. c \in Cache /\ Hashed(c) /\ Databases(c) /\ Placed(c)
  BY DEF Sane
<1>2. s \in Slots /\ s # c.slot /\ (c.avail # None => s = c.avail)
  BY VictimProperties DEF Sane
<1>3. CASE c.label[s] = NoTile \/ c.data[s] = NoTile
  <2>1. s \notin Used(c)
    BY <1>1, <1>3 DEF Hashed, Used
  <2>2. e = c
    BY <1>3 DEF roadmap_square_unload
  <2>3. QED
    BY <1>2, <2>1, <2>2
<1>4. CASE c.label[s] # NoTile /\ c.data[s] # NoTile
  <2> DEFINE t == c.data[s]
  <2>1. t \in Tiles /\ s \in Used(c)
    BY <1>1, <1>2, <1>4 DEF Cache, Used
  <2>2. e = roadmap_locator_unload_tile(c, t)
    BY <1>4 DEF roadmap_square_unload
  <2> HIDE DEF t
  <2>3. /\ Sane(e) /\ e.open = c.open \ {t}
        /\ Used(e) = {i \in Used(c) : c.data[i] # t}
        /\ e.avail = c.avail /\ e.exists = c.exists /\ e.missing = c.missing
    BY <2>1, <2>2, UnloadProperties
  <2>4. c.current \in c.open => c.current # t
    BY <1>1, <1>2, <2>1 DEF Placed, Hashed, t
  <2>5. QED
    BY <1>2, <2>3, <2>4 DEF t
<1>5. QED
  BY <1>3, <1>4

(* A tile that is mapped becomes the current one, and of the tiles in      *)
(* memory at most the victim goes, which was not the current one.          *)
LEMMA MapOneProperties ==
  ASSUME NEW c, Sane(c), NEW t \in Tiles, t \notin c.open,
         NEW d, d = roadmap_square_map_one(c, t)
  PROVE  /\ Sane(d) /\ d.current = t /\ t \in d.open /\ d.open \subseteq c.open \cup {t}
         /\ c.current \in c.open => c.current \in d.open
         /\ d.exists = c.exists /\ d.missing = c.missing
<1> DEFINE s     == Victim(c)
           e     == IF c.label[s] = NoTile THEN c ELSE roadmap_square_unload(c, s)
           k0    == HashCode[t]
           avail == IF e.avail = None THEN None ELSE e.avail - 1
           label == [e.label EXCEPT ![s] = t]
           data  == [e.data EXCEPT ![s] = t]
           told  == [h \in Handlers |-> IF h \in Data[t] THEN t ELSE e.serves[h]]
           open  == e.open \cup {t}
           link  == [e.link EXCEPT ![s] = e.head[k0]]
           head  == [e.head EXCEPT ![k0] = s]
<1>1. /\ s \in Slots /\ Sane(e) /\ s \notin Used(e) /\ e.open \subseteq c.open
      /\ c.current \in c.open => c.current \in e.open
      /\ e.avail = c.avail /\ e.exists = c.exists /\ e.missing = c.missing
      /\ c.avail # None => s = c.avail
  BY EmptiedProperties
<1>2. d = roadmap_hash_add([[e EXCEPT !.label[s] = t,
                                      !.avail = IF @ = None THEN None ELSE @ - 1] EXCEPT
            !.data[s] = t, !.current = t, !.slot = s,
            !.serves = [h \in Handlers |->
              IF h \in Data[t] THEN t
              ELSE [e EXCEPT !.label[s] = t,
                             !.avail = IF @ = None THEN None ELSE @ - 1].serves[h]],
            !.open = @ \cup {t}], t, s)
  BY DEF roadmap_square_map_one, roadmap_square_cache
<1> HIDE DEF s, e
<1>3. /\ e \in Cache /\ Ring(e) /\ Hashed(e) /\ Databases(e) /\ Placed(e) /\ Served(e)
      /\ k0 \in Codes
  BY <1>1 DEF Sane, Codes
<1>4. d = [e EXCEPT !.label = label, !.avail = avail, !.data = data, !.current = t,
                    !.slot = s, !.serves = told, !.open = open, !.link = link,
                    !.head = head]
  <2> DEFINE a == [e EXCEPT !.label = label, !.avail = avail]
             b == [a EXCEPT !.data = data, !.current = t, !.slot = s, !.serves = told,
                            !.open = open]
  <2>1. [e EXCEPT !.label[s] = t, !.avail = IF @ = None THEN None ELSE @ - 1] = a
    BY <1>3 DEF Cache
  <2>2. [h \in Handlers |-> IF h \in Data[t] THEN t ELSE a.serves[h]] = told
    BY <1>3 DEF Cache
  <2>3. [a EXCEPT !.data[s] = t, !.current = t, !.slot = s, !.serves = told,
                  !.open = @ \cup {t}] = b
    BY <1>3 DEF Cache
  <2>4. [b EXCEPT !.link[s] = b.head[k0], !.head[k0] = s] =
        [e EXCEPT !.label = label, !.avail = avail, !.data = data, !.current = t,
                  !.slot = s, !.serves = told, !.open = open, !.link = link,
                  !.head = head]
    BY <1>3 DEF Cache
  <2> HIDE DEF a, b, told, label, avail, data, open, link, head
  <2>5. d = roadmap_hash_add(b, t, s)
    BY <1>2, <2>1, <2>2, <2>3, Zenon
  <2>6. QED
    BY <2>4, <2>5, Zenon DEF roadmap_hash_add
<1>5. /\ label \in [Nodes -> Tiles \cup {NoTile}] /\ data \in [Slots -> Tiles \cup {NoTile}]
      /\ told \in [Handlers -> Tiles \cup {NoTile}] /\ open \in SUBSET Tiles
      /\ head \in [Codes -> Slots \cup {None}] /\ link \in [Slots -> Slots \cup {None}]
  <2>1. s \in Nodes /\ s \in Slots
    BY <1>1, Numbers
  <2>2. e.head[k0] \in Slots \cup {None}
    BY <1>3 DEF Cache
  <2>3. QED
    BY <1>3, <2>1, <2>2 DEF Cache
<1>6. avail \in Slots \cup {None}
      /\ \A i \in Slots : i <= avail => i <= e.avail /\ i # s
  <2>1. e.avail \in Slots \cup {None} /\ Size \in Nat
    BY <1>3, SquareCacheAssumption DEF Cache
  <2>2. QED
    BY <1>1, <2>1 DEF Slots, None
<1>7. /\ \A i \in Slots : link[i] = IF i = s THEN e.head[HashCode[t]] ELSE e.link[i]
      /\ \A k \in Codes : head[k] = IF k = HashCode[t] THEN s ELSE e.head[k]
      /\ \A i \in Slots : data[i] = IF i = s THEN t ELSE e.data[i]
      /\ \A i \in Slots : label[i] = IF i = s THEN t ELSE e.label[i]
      /\ \A h \in Handlers : told[h] = IF h \in Data[t] THEN t ELSE e.serves[h]
  <2>1. \A i \in Slots : i \in Nodes
    BY Numbers
  <2>2. QED
    BY <1>3, <2>1 DEF Cache
<1> HIDE DEF avail, label, data, told, link, head
<1>8. /\ d \in Cache /\ d.label = label /\ d.avail = avail /\ d.data = data
      /\ d.current = t /\ d.slot = s /\ d.serves = told /\ d.open = open
      /\ d.link = link /\ d.head = head
      /\ d.next = e.next /\ d.prev = e.prev
      /\ d.exists = e.exists /\ d.missing = e.missing
  <2> HIDE DEF open
  <2>1. d = [label |-> label, next |-> e.next, prev |-> e.prev, data |-> data,
             head |-> head, link |-> link, current |-> t, slot |-> s, avail |-> avail,
             serves |-> told, open |-> open, exists |-> e.exists, missing |-> e.missing]
    BY <1>3, <1>4 DEF Cache
  <2>2. /\ e.next \in [Nodes -> Nodes] /\ e.prev \in [Nodes -> Nodes]
        /\ e.exists \in SUBSET Tiles /\ e.missing \in SUBSET Tiles
    BY <1>3 DEF Cache
  <2>3. QED
    BY <1>1, <1>5, <1>6, <2>1, <2>2 DEF Cache
<1>9. \A i \in Used(e) : i \in Slots /\ i # s /\ e.data[i] # t
  BY <1>1, <1>3 DEF Databases, Used
<1>10. Hashed(d) /\ Used(d) = Used(e) \cup {s}
  BY <1>1, <1>3, <1>7, <1>8, <1>9, AddProperties
<1>11. Ring(d)
  BY <1>3, <1>8 DEF Ring
<1>12. Databases(d)
  BY <1>1, <1>3, <1>7, <1>8, <1>9, <1>10 DEF Databases
<1>13. Placed(d)
  BY <1>1, <1>3, <1>6, <1>7, <1>8, <1>10 DEF Placed
<1>14. Served(d)
  <2>1. \A h \in Data[t] : h \in Handlers
    BY SquareCacheAssumption
  <2>2. QED
    BY <1>3, <1>7, <1>8, <2>1 DEF Served
<1>15. QED
  BY <1>1, <1>8, <1>10, <1>11, <1>12, <1>13, <1>14 DEF Sane

(* The tile of a slot becomes the current one, and nothing goes.           *)
LEMMA ActivateProperties ==
  ASSUME NEW c, Sane(c), NEW s \in Used(c), NEW d, d = Activate(c, s)
  PROVE  /\ Sane(d) /\ d.open = c.open /\ d.exists = c.exists
         /\ d.current = c.data[s]
<1> DEFINE t == c.data[s]
           e == roadmap_square_promote(c, s)
           told == [h \in Handlers |-> IF h \in Data[t] THEN t ELSE NoTile]
<1>1. c \in Cache /\ Ring(c) /\ Hashed(c) /\ Databases(c) /\ Placed(c)
  BY DEF Sane
<1>2. s \in Slots /\ t \in Tiles /\ t # NoTile /\ t \in c.open
  BY <1>1, SquareCacheAssumption DEF Used, Cache, Databases
<1>3. d = [e EXCEPT !.slot = s, !.current = t, !.serves = told]
  BY DEF Activate
<1>4. /\ told \in [Handlers -> Tiles \cup {NoTile}]
      /\ \A h \in Handlers : told[h] = IF h \in Data[t] THEN t ELSE NoTile
  BY <1>2
<1> HIDE DEF e, told, t
<1>5. /\ e \in Cache /\ Ring(e)
      /\ e.label = c.label /\ e.data = c.data /\ e.head = c.head /\ e.link = c.link
      /\ e.avail = c.avail /\ e.open = c.open /\ e.exists = c.exists
  BY <1>1, <1>2, PromoteProperties DEF e
<1>6. /\ d \in Cache /\ d.slot = s /\ d.current = t /\ d.serves = told
      /\ d.next = e.next /\ d.prev = e.prev
      /\ d.label = c.label /\ d.data = c.data /\ d.head = c.head /\ d.link = c.link
      /\ d.avail = c.avail /\ d.open = c.open /\ d.exists = c.exists
  BY <1>2, <1>3, <1>4, <1>5 DEF Cache
<1>7. Hashed(d) /\ Used(d) = Used(c)
  BY <1>1, <1>6, HashedSame
<1>8. Ring(d) /\ Databases(d)
  BY <1>1, <1>5, <1>6, <1>7 DEF Ring, Databases
<1>9. Placed(d)
  BY <1>1, <1>2, <1>6, <1>7 DEF Placed, t
<1>10. Served(d)
  <2>1. \A h \in Data[t] : h \in Handlers
    BY <1>2, SquareCacheAssumption
  <2>2. QED
    BY <1>2, <1>4, <1>6, <2>1 DEF Served
<1>11. QED
  BY <1>6, <1>7, <1>8, <1>9, <1>10 DEF Sane, t

(* What a load may come to: nothing, or the tile in use.                   *)
LEMMA LoadedProperties ==
  ASSUME NEW c, Sane(c), c.open \subseteq c.exists, NEW t \in Tiles, t \notin c.open,
         NEW d \in Loaded(c, t)
  PROVE  /\ Sane(d) /\ d.open \subseteq d.exists
         /\ c.current \in c.open => c.current \in d.open
<1>1. PICK b \in {c, roadmap_square_map_one(c, t)} :
        d = LET s == roadmap_square_find(b, t)
            IN  CASE t \notin b.open -> [b EXCEPT !.missing = @ \cup ({t} \ b.exists)]
                  [] t \in b.open    ->
                       LET e == [b EXCEPT !.exists = @ \cup {t}]
                       IN  IF s = None THEN e ELSE Activate(e, s)
  BY DEF Loaded, roadmap_square_load
<1>2. CASE b = c
  <2> DEFINE missing == c.missing \cup ({t} \ c.exists)
  <2>1. c \in Cache
    BY DEF Sane
  <2>2. d = [c EXCEPT !.missing = missing]
    BY <1>1, <1>2, <2>1 DEF Cache
  <2>3. missing \in SUBSET Tiles
    BY <2>1 DEF Cache
  <2> HIDE DEF missing
  <2>4. /\ d \in Cache /\ d.exists = c.exists
        /\ d.label = c.label /\ d.next = c.next /\ d.prev = c.prev /\ d.data = c.data
        /\ d.head = c.head /\ d.link = c.link /\ d.current = c.current
        /\ d.slot = c.slot /\ d.avail = c.avail /\ d.serves = c.serves
        /\ d.open = c.open
    BY <2>1, <2>2, <2>3 DEF Cache
  <2>5. Sane(d)
    BY <2>4, SaneSame
  <2>6. QED
    BY <2>4, <2>5
<1>3. CASE b = roadmap_square_map_one(c, t)
  <2> DEFINE e      == [b EXCEPT !.exists = @ \cup {t}]
             s      == roadmap_square_find(b, t)
             exists == b.exists \cup {t}
  <2>1. /\ Sane(b) /\ t \in b.open /\ b.open \subseteq c.open \cup {t}
        /\ c.current \in c.open => c.current \in b.open
        /\ b.exists = c.exists
    BY <1>3, MapOneProperties
  <2>2. b \in Cache /\ Hashed(b) /\ Databases(b)
    BY <2>1 DEF Sane
  <2>3. s \in Used(b) /\ b.data[s] = t
    <3>1. \E i \in Used(b) : b.data[i] = t
      BY <2>1, <2>2 DEF Databases
    <3>2. QED
      BY <2>2, <3>1, FindProperties
  <2>4. s # None
    BY <2>3, Numbers DEF Used
  <2>5. d = Activate(e, s)
    BY <1>1, <2>1, <2>4
  <2>6. exists \in SUBSET Tiles /\ e = [b EXCEPT !.exists = exists]
    BY <2>2 DEF Cache
  <2> HIDE DEF e, s, exists
  <2>7. /\ e \in Cache /\ e.exists = exists
        /\ e.label = b.label /\ e.next = b.next /\ e.prev = b.prev /\ e.data = b.data
        /\ e.head = b.head /\ e.link = b.link /\ e.current = b.current
        /\ e.slot = b.slot /\ e.avail = b.avail /\ e.serves = b.serves
        /\ e.open = b.open
    BY <2>2, <2>6 DEF Cache
  <2>8. Sane(e) /\ Used(e) = Used(b)
    BY <2>1, <2>7, SaneSame
  <2>9. Sane(d) /\ d.open = b.open /\ d.exists = exists
    BY <2>3, <2>5, <2>7, <2>8, ActivateProperties
  <2>10. QED
    BY <2>1, <2>9 DEF exists
<1>4. QED
  BY <1>2, <1>3

(***************************************************************************)
(* The invariant holds, and what it gives.                                 *)
(***************************************************************************)

(* Following the numbers from Size on, one meets all of them.              *)
LEMMA NumbersAreARing ==
  ASSUME NEW next, \A i \in Nodes : next[i] = IF i = Size THEN 0 ELSE i + 1,
         NEW S \in SUBSET Nodes, Size \in S, \A i \in S : next[i] \in S
  PROVE  S = Nodes
<1>1. SUFFICES ASSUME Nodes \ S # {} PROVE FALSE
  OBVIOUS
<1>2. Nodes \subseteq Nat /\ Size \in Nat
  BY SquareCacheAssumption DEF Nodes
<1>3. PICK x \in Nodes \ S : \A y \in Nodes \ S : ~ (<<y, x>> \in OpToRel(<, Nat))
  BY <1>1, <1>2, WFMin, NatLessThanWellFounded
<1>4. x \in Nat /\ x # 0
  <2>1. 0 \in S
    BY <1>2 DEF Nodes
  <2>2. QED
    BY <1>2, <1>3, <2>1
<1>5. x - 1 \in Nodes /\ x - 1 \in Nat /\ x - 1 < x /\ x - 1 # Size
  <2>1. x \in 0 .. Size
    BY <1>3 DEF Nodes
  <2>2. QED
    BY <1>2, <1>4, <2>1 DEF Nodes
<1>6. x - 1 \in S
  <2>1. SUFFICES ASSUME x - 1 \notin S PROVE FALSE
    OBVIOUS
  <2>2. <<x - 1, x>> \in OpToRel(<, Nat)
    BY <1>4, <1>5, Zenon DEF OpToRel
  <2>3. QED
    BY <1>3, <1>5, <2>1, <2>2
<1>7. next[x - 1] = x
  BY <1>4, <1>5
<1>8. QED
  BY <1>3, <1>6, <1>7

LEMMA InitIInv == Init => IInv
<1> SUFFICES ASSUME Init PROVE IInv
  OBVIOUS
<1> DEFINE next == [i \in Nodes |-> (i + 1) % (Size + 1)]
           prev == [i \in Nodes |-> (i + Size) % (Size + 1)]
<1>1. Size \in Nat /\ Size >= 2
  BY SquareCacheAssumption
<1>2. \A i \in Nodes : next[i] = IF i = Size THEN 0 ELSE i + 1
  <2>1. TAKE i \in Nodes
  <2>2. i \in 0 .. Size
    BY DEF Nodes
  <2>3. (i + 1) % (Size + 1) = IF i = Size THEN 0 ELSE i + 1
    BY <1>1, <2>2
  <2>4. QED
    BY <2>3
<1>3. \A i \in Nodes : prev[i] = IF i = 0 THEN Size ELSE i - 1
  <2>1. TAKE i \in Nodes
  <2>2. i \in 0 .. Size
    BY DEF Nodes
  <2>3. i = 0 => (i + Size) % (Size + 1) = Size
    BY <1>1
  <2>4. i # 0 => (i + Size) % (Size + 1) = i - 1
    <3>1. SUFFICES ASSUME i # 0 PROVE (i + Size) % (Size + 1) = i - 1
      OBVIOUS
    <3> DEFINE j == i - 1
    <3>2. j \in 0 .. (Size + 1) - 1 /\ i + Size = j + (Size + 1)
      BY <1>1, <2>2, <3>1
    <3> HIDE DEF j
    <3>3. (j + (Size + 1)) % (Size + 1) = j
      BY <1>1, <3>2
    <3>4. QED
      BY <3>2, <3>3 DEF j
  <2>5. QED
    BY <2>3, <2>4
<1>4. next \in [Nodes -> Nodes] /\ prev \in [Nodes -> Nodes]
  <2>1. \A i \in Nodes : next[i] \in Nodes /\ prev[i] \in Nodes
    BY <1>1, <1>2, <1>3 DEF Nodes
  <2>2. QED
    BY <2>1
<1> HIDE DEF next, prev
<1>5. /\ sq.label = [i \in Nodes |-> NoTile] /\ sq.next = next /\ sq.prev = prev
      /\ sq.data = [i \in Slots |-> NoTile] /\ sq.link = [i \in Slots |-> None]
      /\ sq.head = [k \in Codes |-> None] /\ sq.current = NoTile /\ sq.slot = None
      /\ sq.avail = Size - 1 /\ sq.serves = [h \in Handlers |-> NoTile]
      /\ sq.open = {} /\ sq.exists = {} /\ sq.missing = {}
  BY DEF Init, next, prev
<1>6. Size - 1 \in Slots
  BY <1>1 DEF Slots
<1>7. sq \in Cache
  <2>1. /\ sq.label \in [Nodes -> Tiles \cup {NoTile}]
        /\ sq.data \in [Slots -> Tiles \cup {NoTile}]
        /\ sq.link \in [Slots -> Slots \cup {None}]
        /\ sq.head \in [Codes -> Slots \cup {None}]
        /\ sq.serves \in [Handlers -> Tiles \cup {NoTile}]
    BY <1>5
  <2>2. sq = [label |-> sq.label, next |-> sq.next, prev |-> sq.prev, data |-> sq.data,
              head |-> sq.head, link |-> sq.link, current |-> sq.current,
              slot |-> sq.slot, avail |-> sq.avail, serves |-> sq.serves,
              open |-> sq.open, exists |-> sq.exists, missing |-> sq.missing]
    BY <1>5 DEF Init, next, prev
  <2>3. QED
    BY <1>4, <1>5, <1>6, <2>1, <2>2 DEF Cache
<1>8. Ring(sq)
  <2>1. \A i \in Nodes : prev[next[i]] = i
    BY <1>1, <1>2, <1>3 DEF Nodes
  <2>2. \A i \in Nodes : next[prev[i]] = i
    BY <1>1, <1>2, <1>3 DEF Nodes
  <2>3. \A S \in SUBSET Nodes : Size \in S /\ (\A i \in S : next[i] \in S) => S = Nodes
    BY <1>2, NumbersAreARing
  <2>4. QED
    BY <1>5, <2>1, <2>2, <2>3 DEF Ring
<1>9. Used(sq) = {}
  BY <1>5 DEF Used
<1>10. Hashed(sq)
  <2>1. \A k \in Codes : Chain(sq, sq.head[k]) = {}
    <3>1. TAKE k \in Codes
    <3>2. sq.head[k] = None /\ Closed(sq, {})
      BY <1>5 DEF Closed
    <3>3. QED
      BY <3>2 DEF Chain
  <2>2. QED
    BY <1>9, <2>1 DEF Hashed
<1>11. Databases(sq)
  BY <1>5, <1>9 DEF Databases
<1>12. Placed(sq)
  BY <1>5, Numbers DEF Placed
<1>13. Served(sq)
  BY <1>5 DEF Served
<1>14. QED
  BY <1>5, <1>7, <1>8, <1>10, <1>11, <1>12, <1>13 DEF IInv, Sane, LoadedTilesExist

(* What an action does to the tile in use: it stays in memory, or it is    *)
(* still the one in use.                                                   *)
CurrentKept(c, d) == c.current \in c.open \ d.open => d.current = c.current

LEMMA SetCurrentStep ==
  ASSUME IInv, NEW t \in Tiles, roadmap_square_set_current(t)
  PROVE  IInv' /\ CurrentKept(sq, sq')
<1> DEFINE s == roadmap_square_find(sq, t)
<1>1. Sane(sq) /\ sq \in Cache /\ Hashed(sq) /\ Databases(sq) /\ sq.open \subseteq sq.exists
  BY DEF IInv, Sane, LoadedTilesExist
<1>2. \/ s \in Used(sq) /\ sq.data[s] = t
      \/ s = None /\ \A i \in Used(sq) : sq.data[i] # t
  BY <1>1, FindProperties
<1>3. /\ s # None => sq' = Activate(sq, s)
      /\ s = None => sq' \in Loaded(sq, t)
  BY DEF roadmap_square_set_current
<1> HIDE DEF s
<1>4. CASE s # None
  <2>1. Sane(sq') /\ sq'.open = sq.open /\ sq'.exists = sq.exists
    BY <1>1, <1>2, <1>3, <1>4, ActivateProperties
  <2>2. QED
    BY <1>1, <2>1 DEF IInv, Sane, Ring, Hashed, Used, Databases, Placed, Served, LoadedTilesExist, CurrentKept
<1>5. CASE s = None
  <2>1. s \notin Used(sq)
    BY <1>5, Numbers DEF Used
  <2>2. t \notin sq.open
    BY <1>1, <1>2, <2>1 DEF Databases
  <2>3. /\ Sane(sq') /\ sq'.open \subseteq sq'.exists
        /\ sq.current \in sq.open => sq.current \in sq'.open
    BY <1>1, <1>3, <1>5, <2>2, LoadedProperties
  <2>4. QED
    BY <2>3 DEF IInv, Sane, Ring, Hashed, Used, Databases, Placed, Served, LoadedTilesExist, CurrentKept
<1>6. QED
  BY <1>4, <1>5

LEMMA DownloadStep ==
  ASSUME IInv, NEW t \in Tiles, NEW valid \in BOOLEAN, http_cb_done(t, valid)
  PROVE  IInv' /\ CurrentKept(sq, sq')
<1> DEFINE u       == roadmap_locator_unload_tile(sq, t)
           exists  == u.exists \cup {t}
           missing == u.missing \ {t}
           known   == [u EXCEPT !.exists = exists, !.missing = missing]
           free    == IF t \in sq.open THEN known ELSE roadmap_square_delete_reference(known, t)
           m       == roadmap_square_map_one(free, t)
<1>1. Sane(sq) /\ sq.open \subseteq sq.exists
  BY DEF IInv, LoadedTilesExist
<1>2. Sane(u) /\ u.open = sq.open \ {t} /\ u.current = sq.current /\ u.exists = sq.exists
  BY <1>1, UnloadProperties
<1>3. u \in Cache
  BY <1>2 DEF Sane
<1>4. [u EXCEPT !.exists = @ \cup {t}, !.missing = @ \ {t}] = known
  BY <1>3 DEF Cache
<1>5. sq' = IF valid THEN m ELSE free
  BY <1>4, Zenon DEF http_cb_done
<1>6. exists \in SUBSET Tiles /\ missing \in SUBSET Tiles
  BY <1>3 DEF Cache
<1>7. exists = sq.exists \cup {t}
  BY <1>2
<1> HIDE DEF u, exists, missing
<1>8. /\ known \in Cache /\ known.exists = exists
      /\ known.label = u.label /\ known.next = u.next /\ known.prev = u.prev
      /\ known.data = u.data /\ known.head = u.head /\ known.link = u.link
      /\ known.current = u.current /\ known.slot = u.slot /\ known.avail = u.avail
      /\ known.serves = u.serves /\ known.open = u.open
  BY <1>3, <1>6 DEF Cache
<1> HIDE DEF known
<1>9. Sane(known) /\ t \notin known.open
  BY <1>2, <1>8, SaneSame
<1>10. free = known
  BY <1>9, NoReference
<1> HIDE DEF free, m
<1>11. CASE ~valid
  <2>1. /\ Sane(sq') /\ sq'.open \subseteq sq'.exists /\ sq'.current = sq.current
    BY <1>1, <1>2, <1>5, <1>7, <1>8, <1>9, <1>10, <1>11
  <2>2. QED
    BY <2>1 DEF IInv, Sane, Ring, Hashed, Used, Databases, Placed, Served, LoadedTilesExist, CurrentKept
<1>12. CASE valid
  <2>1. /\ Sane(m) /\ m.current = t /\ t \in m.open /\ m.open \subseteq known.open \cup {t}
        /\ known.current \in known.open => known.current \in m.open
        /\ m.exists = exists
    BY <1>8, <1>9, <1>10, MapOneProperties DEF m
  <2>2. m.open \subseteq m.exists
    BY <1>1, <1>2, <1>7, <1>8, <2>1
  <2>3. sq.current \in sq.open => sq.current \in m.open
    BY <1>2, <1>8, <2>1
  <2>4. sq' = m
    BY <1>5, <1>12
  <2>5. QED
    BY <2>1, <2>2, <2>3, <2>4 DEF IInv, Sane, Ring, Hashed, Used, Databases, Placed, Served, LoadedTilesExist, CurrentKept
<1>13. QED
  BY <1>11, <1>12

LEMMA RefreshStep ==
  ASSUME IInv, refresh_all_tiles
  PROVE  IInv' /\ CurrentKept(sq, sq')
<1>1. sq \in Cache /\ Ring(sq) /\ Hashed(sq) /\ Databases(sq) /\ Placed(sq) /\ Served(sq)
      /\ sq.open \subseteq sq.exists /\ NoTile \notin sq.open
  BY SquareCacheAssumption DEF IInv, Sane, LoadedTilesExist, Cache
<1> DEFINE d == [sq EXCEPT !.current = NoTile]
<1>2. /\ d \in Cache /\ d.current = NoTile
      /\ d.label = sq.label /\ d.next = sq.next /\ d.prev = sq.prev /\ d.data = sq.data
      /\ d.head = sq.head /\ d.link = sq.link /\ d.slot = sq.slot /\ d.avail = sq.avail
      /\ d.serves = sq.serves /\ d.open = sq.open /\ d.exists = sq.exists
  BY <1>1 DEF Cache
<1>3. sq' = d
  BY DEF refresh_all_tiles
<1> HIDE DEF d
<1>4. Hashed(d) /\ Used(d) = Used(sq)
  BY <1>1, <1>2, HashedSame
<1>5. Ring(d) /\ Databases(d) /\ Placed(d) /\ Served(d)
  BY <1>1, <1>2, <1>4 DEF Ring, Databases, Placed, Served
<1>6. Sane(d) /\ d.open \subseteq d.exists
  BY <1>1, <1>2, <1>4, <1>5 DEF Sane
<1>7. QED
  BY <1>2, <1>3, <1>6 DEF IInv, Sane, Ring, Hashed, Used, Databases, Placed, Served, LoadedTilesExist, CurrentKept

LEMMA StepIInv == IInv /\ [Next]_sq => IInv' /\ CurrentKept(sq, sq')
<1> SUFFICES ASSUME IInv, [Next]_sq PROVE IInv' /\ CurrentKept(sq, sq')
  OBVIOUS
<1>1. CASE UNCHANGED sq
  BY <1>1 DEF IInv, Sane, Ring, Hashed, Used, Databases, Placed, Served, LoadedTilesExist, CurrentKept
<1>2. CASE \E t \in Tiles : roadmap_square_set_current(t)
  BY <1>2, SetCurrentStep
<1>3. CASE \E t \in Tiles, valid \in BOOLEAN : http_cb_done(t, valid)
  BY <1>3, DownloadStep
<1>4. CASE refresh_all_tiles
  BY <1>4, RefreshStep
<1>5. QED
  BY <1>1, <1>2, <1>3, <1>4 DEF Next

(* Ring, chains, slots and databases stay in step through every reuse of a *)
(* slot, every replaced tile and every failed load.                        *)
THEOREM Invariance == Spec => []IInv
  BY InitIInv, StepIInv, PTL DEF Spec

(* The cache is one for any number of slots and any hash function: the     *)
(* ring is one list of all slots, a tile is open exactly when it is in a   *)
(* slot, it is in one only, and the hash table finds it there.             *)
THEOREM CacheIsConsistent == Spec => []CacheConsistent
<1>1. IInv => CacheConsistent
  <2> SUFFICES ASSUME IInv PROVE CacheConsistent
    OBVIOUS
  <2> DEFINE used    == {s \in Slots : sq.data[s] # NoTile}
             chained == UNION {Chain(sq, sq.head[k]) : k \in Codes}
  <2>1. sq \in Cache /\ Ring(sq) /\ Hashed(sq) /\ Databases(sq) /\ LoadedTilesExist
    BY DEF IInv, Sane
  <2>2. used = Used(sq)
    BY DEF Used
  <2>3. \A s \in used : roadmap_square_find(sq, sq.data[s]) = s
    <3>1. TAKE s \in used
    <3> DEFINE t == sq.data[s]
               f == roadmap_square_find(sq, t)
    <3>2. s \in Used(sq) /\ t \in Tiles
      BY <2>1, <2>2 DEF Cache
    <3> HIDE DEF f
    <3>3. f \in Used(sq) /\ sq.data[f] = t
      BY <2>1, <3>2, FindProperties DEF f
    <3>4. QED
      BY <2>1, <3>2, <3>3 DEF Hashed, f
  <2>4. chained = used
    <3>1. \A s \in Used(sq) : HashCode[sq.data[s]] \in Codes
      BY <2>1 DEF Used, Cache, Codes
    <3>2. \A k \in Codes : Chain(sq, sq.head[k]) = {s \in Used(sq) : HashCode[sq.data[s]] = k}
      BY <2>1 DEF Hashed
    <3>3. QED
      BY <2>2, <3>1, <3>2
  <2>5. CacheAgreesWithDatabase
    BY <2>1, <2>2, <2>3, <2>4 DEF CacheAgreesWithDatabase, Databases
  <2>6. QED
    BY <2>1, <2>5 DEF CacheConsistent, TypeOK, RingIsList, Ring
<1>2. QED
  BY <1>1, Invariance, PTL

(* The modules serve the current tile while it is in memory, and those     *)
(* whose unmap clears them nothing that is not.                            *)
THEOREM ServedIsInMemory == Spec => []ServedInMemory
<1>1. IInv => ServedInMemory
  BY DEF IInv, Sane, Served, ServedInMemory, CurrentIsServed, NothingServedAfterUnload
<1>2. QED
  BY <1>1, Invariance, PTL

(* The tile in use leaves memory only by a failed reload of itself: no     *)
(* other tile ever takes its slot, however few the slots are.              *)
THEOREM CurrentIsSpared == Spec => CurrentSpared
<1>1. IInv /\ [Next]_sq => [sq.current \in sq.open \ sq'.open => sq'.current = sq.current]_sq
  BY StepIInv DEF CurrentKept
<1>2. QED
  BY <1>1, Invariance, PTL DEF Spec, CurrentSpared
=============================================================================
