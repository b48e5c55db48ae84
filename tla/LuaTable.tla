------------------------------- MODULE LuaTable -----------------------------
(***************************************************************************)
(* misc/luabash/lua/ltable.c: a table is an array for the keys 1 to its    *)
(* length and a hash for the others, in chains inside one vector of nodes: *)
(* a key that finds its place taken moves the key there away, if it is not *)
(* in its own place, and goes else to a free one, searched from the end.   *)
(* When none is left both parts get new sizes.                             *)
(***************************************************************************)
EXTENDS Integers, SequencesExt, FiniteSets

CONSTANTS Index,       \* keys that can be in the array: 1 to a bound
          Name,        \* other keys, numbers for the model too: strings, booleans, objects ...
          Hash,        \* of each key
          Val,
          MAX_INT      \* the largest index; the C type's in the source

ASSUME LuaTableAssumption == /\ Index = 1 .. Cardinality(Index)
                             /\ Name \subseteq Nat \ (Index \cup {0})
                             /\ Hash \in [Index \cup Name -> Nat]
                             /\ 0 \notin Val

VARIABLES tab,     \* the table: [array, node, lastfree]
          iter,    \* the traversal: its last key, NoKey before the first, Ended
          visited  \* history: the keys it has come to

lua_table_vars == <<tab, iter, visited>>

Key == Index \cup Name
Nil == 0
NoKey == 0
NULL == 0
Ended == -1

Free == [key |-> NoKey, val |-> Nil, next |-> NULL]

\* The node where a key should be.
mainposition(h, k) == LET size == Len(h.node)
                      IN 1 + (Hash[k] % (IF k \in Index /\ size > 1 THEN size - 1 ELSE size))

\* The nodes of the chain from n on, and the one of a key in its chain.
RECURSIVE Chain(_, _)
Chain(h, n) == IF n = NULL THEN {} ELSE {n} \cup Chain(h, h.node[n].next)
NodesOf(h, k) == IF h.node = <<>> THEN {} ELSE {n \in Chain(h, mainposition(h, k)) : h.node[n].key = k}

luaH_get(h, k) == IF k \in 1 .. Len(h.array) THEN h.array[k]
                  ELSE IF k \notin Key THEN Nil
                  ELSE LET at == NodesOf(h, k)
                       IN IF at = {} THEN Nil ELSE h.node[CHOOSE n \in at : TRUE].val

-----------------------------------------------------------------------------
(* Insertion.                                                              *)

FreePlaces(h) == {n \in 1 .. h.lastfree - 1 : h.node[n].key = NoKey}
getfreepos(h) == CHOOSE n \in FreePlaces(h) : \A m \in FreePlaces(h) : m <= n

Full(h, k) == h.node = <<>> \/ (h.node[mainposition(h, k)].val # Nil /\ FreePlaces(h) = {})

newkeyUnlinked(h, k, v) ==
  LET mp == mainposition(h, k)
      taken == h.node[mp]
      n == getfreepos(h)
  IN IF taken.val = Nil THEN [h EXCEPT !.node[mp].key = k, !.node[mp].val = v]
     ELSE IF mainposition(h, taken.key) # mp
     THEN [h EXCEPT !.node[n] = taken, !.lastfree = n,
                    !.node[mp] = [key |-> k, val |-> v, next |-> NULL]]
     ELSE [h EXCEPT !.node[n] = [key |-> k, val |-> v, next |-> taken.next], !.lastfree = n,
                    !.node[mp].next = n]
\* newkey() in a table that is not full.  A place without a value is taken with
\* its key and its chain: the key in it may be in another's chain.
newkey(h, k, v) ==
  LET mp == mainposition(h, k)
      taken == h.node[mp]
      n == getfreepos(h)
      othern == mainposition(h, taken.key)
      previous == CHOOSE p \in Chain(h, othern) : h.node[p].next = mp
  IN IF taken.val = Nil THEN [h EXCEPT !.node[mp].key = k, !.node[mp].val = v]
     ELSE IF othern # mp
     THEN [h EXCEPT !.node[previous].next = n, !.node[n] = taken, !.lastfree = n,
                    !.node[mp] = [key |-> k, val |-> v, next |-> NULL]]
     ELSE [h EXCEPT !.node[n] = [key |-> k, val |-> v, next |-> taken.next], !.lastfree = n,
                    !.node[mp].next = n]

Stored(h, k, v) == IF k \in 1 .. Len(h.array) THEN [h EXCEPT !.array[k] = v]
                   ELSE IF NodesOf(h, k) # {} THEN [h EXCEPT !.node[CHOOSE n \in NodesOf(h, k) : TRUE].val = v]
                   ELSE newkey(h, k, v)

-----------------------------------------------------------------------------
(* Rehash.                                                                 *)

ceillog2(n) == CHOOSE l \in 0 .. n : 2 ^ l >= n /\ \A m \in 0 .. l - 1 : 2 ^ m < n

\* The keys with a value, and the one to come.
Used(h, ek) == {k \in Key : luaH_get(h, k) # Nil} \cup {ek}

\* The largest power of two of which more than half are used.
UsedUpTo(used, n) == Cardinality({k \in used \cap Index : k <= n})
computesizes(used) ==
  LET good == {n \in {2 ^ l : l \in 0 .. ceillog2(Cardinality(Index))} : UsedUpTo(used, n) > n \div 2}
  IN IF good = {} THEN 0 ELSE CHOOSE n \in good : \A m \in good : m <= n

setnodevector(size) == IF size = 0 THEN <<>> ELSE [n \in 1 .. 2 ^ ceillog2(size) |-> Free]

\* The array grows or loses its end to the hash, and the old nodes are put into
\* the new ones, from the last to the first.
resize(h, nasize, nhsize) ==
  LET keep == IF nasize < Len(h.array) THEN nasize ELSE Len(h.array)
      node == setnodevector(nhsize)
      new == [array |-> [i \in 1 .. nasize |-> IF i <= keep THEN h.array[i] ELSE Nil],
              node |-> node, lastfree |-> Len(node) + 1]
      vanishing == [i \in 1 .. Len(h.array) - keep |-> [key |-> keep + i, val |-> h.array[keep + i]]]
      moved == SelectSeq(vanishing \o Reverse(h.node), LAMBDA n : n.val # Nil)
  IN FoldLeft(LAMBDA r, n : Stored(r, n.key, n.val), new, moved)

rehash(h, ek) == LET used == Used(h, ek)
                     nasize == computesizes(used)
                 IN resize(h, nasize, Cardinality(used) - UsedUpTo(used, nasize))

\* An assignment, of Nil too, makes a place for a new key.
luaH_set(h, k, v) ==
  IF k \notin 1 .. Len(h.array) /\ NodesOf(h, k) = {} /\ Full(h, k) THEN Stored(rehash(h, k), k, v)
  ELSE Stored(h, k, v)

-----------------------------------------------------------------------------
(* A border: by halving in the array, or by doubling and halving beyond.   *)

Halved(h, lo, hi) == LET f[i, j \in 0 .. 2 * MAX_INT] ==
                           IF j - i <= 1 THEN i
                           ELSE LET m == (i + j) \div 2
                                IN IF luaH_get(h, m) = Nil THEN f[i, m] ELSE f[m, j]
                     IN f[lo, hi]

FirstNil(h) == CHOOSE i \in 1 .. MAX_INT + 1 : luaH_get(h, i) = Nil /\ \A j \in 1 .. i - 1 : luaH_get(h, j) # Nil

unbound_search(h, start) ==
  LET f[i, j \in 0 .. 2 * MAX_INT + 2] ==
        IF luaH_get(h, j) = Nil THEN Halved(h, i, j)
        ELSE IF 2 * j > MAX_INT THEN FirstNil(h) - 1 ELSE f[j, 2 * j]
  IN f[start, start + 1]

luaH_getnOfHash(h) == IF h.node = <<>> THEN Len(h.array) ELSE unbound_search(h, Len(h.array))
luaH_getn(h) == LET j == Len(h.array)
                IN IF j > 0 /\ h.array[j] = Nil THEN Halved(h, 0, j)
                   ELSE IF h.node = <<>> THEN j ELSE unbound_search(h, j)

-----------------------------------------------------------------------------
(* A program assigns to the table, and traverses it with next.             *)

\* luaH_new() of some sizes.
LuaTableInit ==
  /\ \E narray \in 0 .. 2, nhash \in {0, 3} :
       LET node == setnodevector(nhash)
       IN tab = [array |-> [i \in 1 .. narray |-> Nil], node |-> node, lastfree |-> Len(node) + 1]
  /\ iter = Ended /\ visited = {}

Assign(k, v) == /\ iter # Ended => luaH_get(tab, k) # Nil
                /\ tab' = luaH_set(tab, k, v) /\ UNCHANGED <<iter, visited>>

\* The places, the array's first; of a key there must be one, with a value or
\* without.
findindex(h, k) == IF k = NoKey THEN 0 ELSE IF k \in 1 .. Len(h.array) THEN k
                   ELSE Len(h.array) + CHOOSE n \in NodesOf(h, k) : TRUE
KeyAt(h, i) == IF i <= Len(h.array) THEN i ELSE h.node[i - Len(h.array)].key
ValAt(h, i) == IF i <= Len(h.array) THEN h.array[i] ELSE h.node[i - Len(h.array)].val

Traverse == iter = Ended /\ iter' = NoKey /\ visited' = {} /\ UNCHANGED tab

luaH_next ==
  /\ iter # Ended /\ UNCHANGED tab
  /\ LET coming == {i \in findindex(tab, iter) + 1 .. Len(tab.array) + Len(tab.node) : ValAt(tab, i) # Nil}
         first == CHOOSE i \in coming : \A j \in coming : i <= j
     IN IF coming = {} THEN iter' = Ended /\ visited' = {}
        ELSE iter' = KeyAt(tab, first) /\ visited' = visited \cup {KeyAt(tab, first)}

LuaTableNext == (\E k \in Key, v \in Val \cup {Nil} : Assign(k, v)) \/ Traverse \/ luaH_next

LuaTableSpec == LuaTableInit /\ [][LuaTableNext]_lua_table_vars
-----------------------------------------------------------------------------
Map == INSTANCE LuaMap WITH map <- [k \in Key |-> luaH_get(tab, k)], going <- iter # Ended, seen <- visited
\* However the nodes are moved about, the table is a map, and a traversal comes
\* to each of its keys once (ltable.c:160,294,399).
IsMap == Map!Spec

\* The length operator finds a border: an index with a value, or 0, before one
\* without (ltable.c:533-575).
LengthIsBorder == LET n == luaH_getn(tab)
                  IN (n = 0 \/ luaH_get(tab, n) # Nil) /\ luaH_get(tab, n + 1) = Nil

\* Each key is in the chain of its main position, and in one node only.
ChainsWhole == \A n \in DOMAIN tab.node : tab.node[n].val # Nil => NodesOf(tab, tab.node[n].key) = {n}
LuaTableRight == LengthIsBorder /\ ChainsWhole
=============================================================================
