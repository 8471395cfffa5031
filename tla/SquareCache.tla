---------------------------- MODULE SquareCache ----------------------------
(***************************************************************************)
(* The map tiles ("squares") kept in memory (roadmap_square.c): a fixed    *)
(* array of slots threaded by a ring in the order of their use, a hash     *)
(* table that finds the slot of a tile, the current tile, and the module   *)
(* per kind of data (lines, polygons, ...) that serves one tile at a time. *)
(*                                                                         *)
(* Every loaded tile is also a database of roadmap_dbread.c, and closing   *)
(* that is what unloads it; the tile manager replaces tiles this way while *)
(* they are in use (http_cb_done).  Contents of tiles are left out.        *)
(***************************************************************************)
EXTENDS Integers

CONSTANTS
  Tiles,        (* tile identifiers                                        *)
  NoTile,       (* -1, and NULL for the data of a slot                     *)
  Size,         (* ROADMAP_SQUARE_CACHE_SIZE                               *)
  HashCode,     (* a tile's index into the heads of the hash table         *)
  Handlers,     (* the modules of SquareHandlers                           *)
  Keeps,        (* those whose unmap leaves what they serve: line, route   *)
  Data          (* the handlers that a tile has data for                   *)

VARIABLE sq

ASSUME SquareCacheAssumption ==
  /\ NoTile \notin Tiles
  /\ Size \in Nat \ {0, 1}
  /\ Keeps \subseteq Handlers
  /\ Data \in [Tiles -> SUBSET Handlers]

Slots == 0 .. Size - 1
Nodes == 0 .. Size            (* the last one is the head of the ring      *)
None  == -1
Codes == {HashCode[t] : t \in Tiles}

Cache ==
  [label    : [Nodes -> Tiles \cup {NoTile}],   (* SquareCache[i].square   *)
   next     : [Nodes -> Nodes],
   prev     : [Nodes -> Nodes],
   data     : [Slots -> Tiles \cup {NoTile}],   (* Square[i]               *)
   head     : [Codes -> Slots \cup {None}],     (* SquareHash              *)
   link     : [Slots -> Slots \cup {None}],
   current  : Tiles \cup {NoTile},              (* RoadMapSquareCurrent    *)
   slot     : Slots \cup {None},                (* ...CurrentSlot          *)
   avail    : Slots \cup {None},                (* ...NextAvailableSlot    *)
   serves   : [Handlers -> Tiles \cup {NoTile}],   (* RoadMapLineActive... *)
   open     : SUBSET Tiles,       (* databases of roadmap_dbread.c         *)
   exists   : SUBSET Tiles,       (* ROADMAP_TILE_STATUS_FLAG_EXISTS       *)
   missing  : SUBSET Tiles]       (* ..._CHECKED without ..._EXISTS        *)

(***************************************************************************)
(* The hash table (roadmap_hash.c).                                        *)
(***************************************************************************)

(* The links of the slots of S stay in S, or end.                          *)
Closed(c, S) == \A s \in S : c.link[s] \in S \cup {None}

(* The chain from i on: the slots that its links lead to.                  *)
Chain(c, i) ==
  {s \in Slots : \A S \in SUBSET Slots : i \in S \cup {None} /\ Closed(c, S) => s \in S}

roadmap_hash_add(c, t, s) ==
  [c EXCEPT !.link[s] = c.head[HashCode[t]], !.head[HashCode[t]] = s]

(* Mutant: the chain is cut at the slot that is removed.                   *)
MutHashRemove(c, t, s) ==
  IF c.head[HashCode[t]] = s THEN [c EXCEPT !.head[HashCode[t]] = None]
  ELSE [c EXCEPT !.link = [i \in Slots |-> IF @[i] = s THEN None ELSE @[i]]]

(* The link that leads to s goes past it.                                  *)
roadmap_hash_remove(c, t, s) ==
  IF c.head[HashCode[t]] = s THEN [c EXCEPT !.head[HashCode[t]] = c.link[s]]
  ELSE [c EXCEPT !.link = [i \in Slots |-> IF @[i] = s THEN @[s] ELSE @[i]]]

(* The first slot of the chain that is labelled with t: the others, if     *)
(* there are any, are on the chain from there on.                          *)
roadmap_square_find(c, t) ==
  LET found == {s \in Chain(c, c.head[HashCode[t]]) : c.label[s] = t}
  IN  IF found = {} THEN None ELSE CHOOSE s \in found : found \subseteq Chain(c, s)

(***************************************************************************)
(* The ring.                                                               *)
(***************************************************************************)

(* The slot becomes the most recently used one.                            *)
roadmap_square_promote(c, s) ==
  IF c.next[Size] = s THEN c
  ELSE LET c1 == [c EXCEPT !.prev[c.next[s]] = c.prev[s]]
           c2 == [c1 EXCEPT !.next[c1.prev[s]] = c1.next[s]]
           c3 == [c2 EXCEPT !.next[s] = c2.next[Size], !.prev[s] = Size]
       IN  [c3 EXCEPT !.prev[c3.next[Size]] = s, !.next[Size] = s]

(***************************************************************************)
(* Loading and unloading.                                                  *)
(***************************************************************************)

(* The label of the slot stays.                                            *)
roadmap_square_delete_reference(c, t) ==
  LET s == roadmap_square_find(c, t)
  IN  IF s = None THEN c
      ELSE [roadmap_hash_remove(c, t, s) EXCEPT !.data[s] = NoTile]

(* roadmap_db_close, roadmap_square_unmap_one.                             *)
roadmap_locator_unload_tile(c, t) ==
  IF t \notin c.open THEN c
  ELSE LET unmapped == [h \in Handlers |->
                          IF c.serves[h] = t /\ h \notin Keeps THEN NoTile ELSE c.serves[h]]
       IN  [roadmap_square_delete_reference([c EXCEPT !.serves = unmapped], t)
              EXCEPT !.open = @ \ {t}]

roadmap_square_unload(c, s) ==
  IF c.data[s] = NoTile THEN c ELSE roadmap_locator_unload_tile(c, c.data[s])

(* Mutant: the least recently used slot is taken, whatever it holds.       *)
MutVictim(c) == IF c.avail # None THEN c.avail ELSE c.prev[Size]

(* A slot that was never used, or the least recently used one; the current *)
(* slot is spared.                                                         *)
Victim(c) ==
  LET s == IF c.avail # None THEN c.avail ELSE c.prev[Size]
  IN  IF s = c.slot THEN c.prev[s] ELSE s

roadmap_square_cache(c, t) ==
  LET s == Victim(c)
      emptied == IF c.label[s] = NoTile THEN c ELSE roadmap_square_unload(c, s)
  IN  [emptied EXCEPT !.label[s] = t, !.avail = IF @ = None THEN None ELSE @ - 1]

(* Mutant: the modules are told when the tile is used.                     *)
MutMapOne(c, t) ==
  LET s == Victim(c)
  IN  roadmap_hash_add([roadmap_square_cache(c, t) EXCEPT
        !.data[s] = t, !.current = t, !.slot = s, !.open = @ \cup {t}], t, s)

(* The tile is mapped and becomes the current one, but the slot keeps its  *)
(* place in the ring.  Handlers the tile has no data for are not told.     *)
roadmap_square_map_one(c, t) ==
  LET s     == Victim(c)
      taken == roadmap_square_cache(c, t)
      told  == [h \in Handlers |-> IF h \in Data[t] THEN t ELSE taken.serves[h]]
  IN  roadmap_hash_add([taken EXCEPT !.data[s] = t, !.current = t, !.slot = s,
                                     !.serves = told, !.open = @ \cup {t}], t, s)

(* roadmap_db_open: of a database that is open already nothing is mapped;  *)
(* the tile may have no file, or one that is no valid tile.                *)
roadmap_square_load(c, t) ==
  IF t \in c.open THEN {c} ELSE {c, roadmap_square_map_one(c, t)}

-----------------------------------------------------------------------------
(***************************************************************************)
(* Actions.                                                                *)
(***************************************************************************)

(* The slot's tile becomes the current one, and every handler serves it or *)
(* nothing.                                                                *)
Activate(c, s) ==
  LET t == c.data[s]
  IN  [roadmap_square_promote(c, s) EXCEPT
         !.slot = s, !.current = t,
         !.serves = [h \in Handlers |-> IF h \in Data[t] THEN t ELSE NoTile]]

(* A tile that was looked for in vain is not looked for again.             *)
Loaded(c, t) ==
  {LET s == roadmap_square_find(d, t)
   IN  CASE t \notin d.open -> [d EXCEPT !.missing = @ \cup ({t} \ d.exists)]
         [] t \in d.open    ->
              LET e == [d EXCEPT !.exists = @ \cup {t}]
              IN  IF s = None THEN e ELSE Activate(e, s)
     : d \in roadmap_square_load(c, t)}

(* The tile is used; the one that is current is taken at its word.         *)
roadmap_square_set_current(t) ==
  LET s == roadmap_square_find(sq, t)
  IN  /\ t # sq.current
      /\ IF s # None THEN sq' = Activate(sq, s)
         ELSE /\ t \notin sq.missing
              /\ sq' \in Loaded(sq, t)

(* A download ends: the tile is replaced.  What came may be no valid tile. *)
http_cb_done(t, valid) ==
  LET unloaded == roadmap_locator_unload_tile(sq, t)
      known == [unloaded EXCEPT !.exists = @ \cup {t}, !.missing = @ \ {t}]
      free  == IF t \in sq.open THEN known ELSE roadmap_square_delete_reference(known, t)
  IN  sq' = IF valid THEN roadmap_square_map_one(free, t) ELSE free

(* The county is opened again: no tile is the current one any more.        *)
refresh_all_tiles ==
  sq' = [sq EXCEPT !.current = NoTile]

Init ==
  sq = [label |-> [i \in Nodes |-> NoTile],
        next |-> [i \in Nodes |-> (i + 1) % (Size + 1)],
        prev |-> [i \in Nodes |-> (i + Size) % (Size + 1)],
        data |-> [i \in Slots |-> NoTile],
        head |-> [k \in Codes |-> None], link |-> [i \in Slots |-> None],
        current |-> NoTile, slot |-> None, avail |-> Size - 1,
        serves |-> [h \in Handlers |-> NoTile],
        open |-> {}, exists |-> {}, missing |-> {}]

Next ==
  \/ \E t \in Tiles : roadmap_square_set_current(t)
  \/ \E t \in Tiles, valid \in BOOLEAN : http_cb_done(t, valid)
  \/ refresh_all_tiles

Spec == Init /\ [][Next]_sq

-----------------------------------------------------------------------------
(***************************************************************************)
(* Properties.                                                             *)
(***************************************************************************)

(* The statics have their types; the slot counter stops at -1.             *)
TypeOK == sq \in Cache

(* However slots are promoted and reused, the ring stays one doubly linked *)
(* list of all slots: who follows it from its head meets each of them.     *)
RingIsList ==
  /\ \A S \in SUBSET Nodes : Size \in S /\ (\A i \in S : sq.next[i] \in S) => S = Nodes
  /\ \A i \in Nodes : sq.prev[sq.next[i]] = i

(* Slots, hash table and databases agree on which tiles are in memory, a   *)
(* tile is in one slot only, and the hash table finds it there: otherwise  *)
(* the tile is open but has no slot, and is never found nor loaded again.  *)
CacheAgreesWithDatabase ==
  LET used == {s \in Slots : sq.data[s] # NoTile}
      chained == UNION {Chain(sq, sq.head[k]) : k \in Codes}
  IN  /\ sq.open = {sq.data[s] : s \in used}
      /\ \A s \in used : roadmap_square_find(sq, sq.data[s]) = s
      /\ chained = used

(* A tile in memory is one whose existence is known: when it has been      *)
(* thrown out it is looked for on disk and not reported as missing.        *)
LoadedTilesExist == sq.open \subseteq sq.exists

(* The cache is one: ring, hash chains, slots, databases and status flags  *)
(* tell the same of every tile, through every reuse and failed reload.     *)
CacheConsistent ==
  TypeOK /\ RingIsList /\ CacheAgreesWithDatabase /\ LoadedTilesExist

(* The tile in use is never thrown out for another one; only a failed      *)
(* reload of the tile itself takes it away.                                *)
CurrentSpared ==
  [][sq.current \in sq.open \ sq'.open => sq'.current = sq.current]_sq

(* Whether a tile became the current one because it was asked for or       *)
(* because its download ended, its data are the ones that are served.      *)
CurrentIsServed ==
  sq.current \in sq.open => \A h \in Data[sq.current] : sq.serves[h] = sq.current

(* A module whose unmap clears what it serves never serves a tile that is  *)
(* no longer in memory, although tiles go while others are current.        *)
NothingServedAfterUnload ==
  \A h \in Handlers \ Keeps : sq.serves[h] \in sq.open \cup {NoTile}

(* What is served is in memory, and of the current tile when that is.      *)
ServedInMemory == CurrentIsServed /\ NothingServedAfterUnload
=============================================================================
