----------------------- MODULE CacheRefinementProofs -----------------------
(***************************************************************************)
(* The cache does what LruCache says for every set of URLs, responses and  *)
(* addresses and every capacity, whatever the responses' headers, in every *)
(* step that finds map and list in agreement and leaves them so.           *)
(***************************************************************************)
EXTENDS CacheRefinement, CacheProofs

(* Keys and nodes, position by position.                                    *)
Tracks(o, list, map) ==
  /\ o \in Seq(Url)
  /\ Len(o) = Len(list)
  /\ \A i \in 1 .. Len(list) : map[o[i]] = list[i]

LEMMA TracksCons ==
  ASSUME NEW o, NEW list \in Seq(Node), NEW map, Tracks(o, list, map),
         NEW u \in Url, NEW n \in Node, map[u] = n
  PROVE  Tracks(Cons(u, o), Cons(n, list), map)
<1>1. /\ Cons(u, o) \in Seq(Url) /\ Len(Cons(u, o)) = Len(o) + 1
      /\ Cons(u, o)[1] = u
      /\ \A j \in 1 .. Len(o) : Cons(u, o)[j + 1] = o[j]
  BY ConsElements DEF Tracks
<1>2. /\ Cons(n, list) \in Seq(Node) /\ Len(Cons(n, list)) = Len(list) + 1
      /\ Cons(n, list)[1] = n
      /\ \A j \in 1 .. Len(list) : Cons(n, list)[j + 1] = list[j]
  BY ConsElements
<1> DEFINE o1 == Cons(u, o)  l1 == Cons(n, list)
<1> HIDE DEF o1, l1
<1>3. ASSUME NEW i \in 1 .. Len(l1) PROVE map[o1[i]] = l1[i]
  <2>1. CASE i = 1
    BY <1>1, <1>2, <2>1 DEF o1, l1
  <2>2. CASE i # 1
    <3>1. Len(list) \in Nat
      BY LenProperties
    <3>2. i - 1 \in 1 .. Len(list) /\ (i - 1) + 1 = i
      BY <1>2, <2>2, <3>1 DEF l1
    <3>3. o1[i] = o[i - 1] /\ l1[i] = list[i - 1]
      BY <1>1, <1>2, <3>2 DEF o1, l1, Tracks
    <3> QED
      BY <3>2, <3>3 DEF Tracks
  <2> QED
    BY <2>1, <2>2
<1> QED
  BY <1>1, <1>2, <1>3 DEF Tracks, o1, l1

LEMMA TracksRemove ==
  ASSUME NEW o, NEW list \in Seq(Node), NEW map, Tracks(o, list, map),
         NEW i \in 1 .. Len(list)
  PROVE  Tracks(RemoveAt(o, i), RemoveAt(list, i), map)
<1> DEFINE o1 == RemoveAt(o, i)  l1 == RemoveAt(list, i)
<1>1. /\ o1 \in Seq(Url) /\ Len(o1) = Len(list) - 1
      /\ \A j \in 1 .. Len(list) - 1 : o1[j] = IF j < i THEN o[j] ELSE o[j + 1]
  BY RemoveAtElements DEF Tracks
<1>2. /\ Len(l1) = Len(list) - 1
      /\ \A j \in 1 .. Len(list) - 1 : l1[j] = IF j < i THEN list[j] ELSE list[j + 1]
  BY RemoveAtElements
<1> HIDE DEF o1, l1
<1>3. ASSUME NEW j \in 1 .. Len(l1) PROVE map[o1[j]] = l1[j]
  <2>1. Len(list) \in Nat
    BY LenProperties
  <2>2. j \in 1 .. Len(list) /\ j + 1 \in 1 .. Len(list) /\ j \in 1 .. Len(list) - 1
    BY <1>2, <2>1
  <2> QED
    BY <1>1, <1>2, <2>2 DEF Tracks
<1> QED
  BY <1>1, <1>2, <1>3 DEF Tracks, o1, l1

LEMMA TracksMap ==
  ASSUME NEW o, NEW list \in Seq(Node), NEW map, Tracks(o, list, map), NEW other,
         \A u \in Url : map[u] \in ToSet(list) => other[u] = map[u]
  PROVE  Tracks(o, list, other)
<1>1. DOMAIN list = 1 .. Len(list) /\ DOMAIN o = 1 .. Len(list)
  BY LenProperties DEF Tracks
<1>2. ASSUME NEW i \in 1 .. Len(list) PROVE other[o[i]] = list[i]
  <2>1. o[i] \in Url
    BY <1>1, ElementOfSeq DEF Tracks
  <2>2. map[o[i]] = list[i] /\ list[i] \in ToSet(list)
    BY <1>1 DEF Tracks, ToSet
  <2> QED
    BY <2>1, <2>2
<1> QED
  BY <1>2 DEF Tracks

\* While map and list agree, Order is the one sequence that tracks the list.
LEMMA OrderTracks ==
  ASSUME Matched PROVE Tracks(Order, cacheList, cache_map)
<1>1. cacheList \in Seq(Node) /\ DOMAIN cacheList = 1 .. Len(cacheList)
      /\ Len(cacheList) \in Nat
  BY LenProperties DEF Matched, Structure, CacheTypeOK
<1>2. ASSUME NEW i \in 1 .. Len(cacheList)
      PROVE  Order[i] \in Url /\ cache_map[Order[i]] = cacheList[i]
  <2>1. cacheList[i] \in ToSet(cacheList)
    BY <1>1 DEF ToSet
  <2>2. \E u \in Url : cache_map[u] = cacheList[i]
    BY <2>1 DEF Matched, MapMatchesList
  <2>3. Order[i] = KeyOf(cacheList[i])
    BY <1>1 DEF Order
  <2> QED
    BY <2>2, <2>3 DEF KeyOf
<1>3. Order = [i \in 1 .. Len(cacheList) |-> Order[i]]
  BY <1>1 DEF Order
<1> DEFINE m == Len(cacheList)
<1> HIDE DEF m
<1>4. Order \in Seq(Url) /\ Len(Order) = m
  <2>1. Order = [i \in 1 .. m |-> Order[i]] /\ m \in Nat
        /\ \A i \in 1 .. m : Order[i] \in Url
    BY <1>1, <1>2, <1>3 DEF m
  <2>2. Order \in [1 .. m -> Url]
    BY <2>1
  <2>3. DOMAIN Order = 1 .. m
    BY <2>2
  <2> QED
    BY <2>1, <2>2, <2>3, LenProperties
<1> QED
  BY <1>2, <1>4 DEF Tracks, m

LEMMA OrderIs ==
  ASSUME Matched, NEW o, Tracks(o, cacheList, cache_map)
  PROVE  Order = o
<1>1. Tracks(Order, cacheList, cache_map)
  BY OrderTracks
<1>2. /\ \A u, v \in Url : Checkexist(u) /\ cache_map[u] = cache_map[v] => u = v
      /\ \A n \in Node : n # NoNode
      /\ cacheList \in Seq(Node)
  BY CacheAssumption DEF Matched, MapMatchesList, Structure, CacheTypeOK
<1>3. ASSUME NEW i \in 1 .. Len(cacheList) PROVE Order[i] = o[i]
  <2>1. Order[i] \in Url /\ o[i] \in Url /\ cacheList[i] \in Node
    BY <1>1, <1>2, ElementOfSeq DEF Tracks
  <2>2. cache_map[Order[i]] = cacheList[i] /\ cache_map[o[i]] = cacheList[i]
    BY <1>1 DEF Tracks
  <2> QED
    BY <1>2, <2>1, <2>2 DEF Checkexist
<1> QED
  BY <1>1, <1>3, SeqEqual DEF Tracks

OrderTracked == Matched => \A o \in Seq(Url) : Tracks(o, cacheList, cache_map) => Order = o

LEMMA OrderIsTracked == OrderTracked
BY OrderIs DEF OrderTracked

LEMMA OrderIsTrackedNext == OrderTracked'
BY OrderIsTracked, PTL

LEMMA OrderIsNext ==
  ASSUME Matched', NEW o, Tracks(o, cacheList', cache_map') PROVE Order' = o
BY OrderIsTrackedNext DEF OrderTracked, Tracks

-----------------------------------------------------------------------------
(* What LruCache sees of the map and of the memory.                         *)
LEMMA StoreIs ==
  ASSUME Matched
  PROVE  \A u \in Url : /\ Store[u] # Freed <=> Checkexist(u)
                        /\ Checkexist(u) => Store[u] = Cached(u)
BY DEF Matched, MapMatchesList, Valid, IsLive, Store, Cached

\* What every put() ends with: u has its response, an entry that is erased has
\* none, and the others keep theirs.
LEMMA StoreNext ==
  ASSUME Matched, Matched', NEW u \in Url, NEW r \in Response, NEW n \in Node,
         cache_map'[u] = n, heap'[n] = r,
         \A v \in Url : v # u /\ cache_map'[v] # NoNode => cache_map'[v] = cache_map[v],
         \A m \in Node : m # n /\ heap'[m] # Freed => heap'[m] = heap[m]
  PROVE  \A v \in Url :
           Store'[v] = IF v = u THEN r
                       ELSE IF cache_map'[v] = NoNode THEN Freed ELSE Store[v]
<1>1. /\ \A v \in Url : cache_map'[v] # NoNode =>
           cache_map'[v] \in Node /\ heap'[cache_map'[v]] # Freed
      /\ \A v, w \in Url : cache_map'[v] # NoNode /\ cache_map'[v] = cache_map'[w] => v = w
  BY DEF Matched, MapMatchesList, Checkexist, Valid, IsLive
<1>2. n # NoNode
  BY CacheAssumption
<1> SUFFICES ASSUME NEW v \in Url
             PROVE  Store'[v] = IF v = u THEN r
                                ELSE IF cache_map'[v] = NoNode THEN Freed ELSE Store[v]
  OBVIOUS
<1>3. Store'[v] = IF cache_map'[v] # NoNode THEN heap'[cache_map'[v]] ELSE Freed
  BY DEF Store, Checkexist, Cached
<1>4. CASE v # u /\ cache_map'[v] # NoNode
  <2>1. cache_map'[v] = cache_map[v] /\ cache_map'[v] # n /\ cache_map'[v] \in Node
    BY <1>1, <1>2, <1>4
  <2>2. heap'[cache_map'[v]] = heap[cache_map[v]]
    BY <1>1, <1>4, <2>1
  <2>3. Store[v] = heap[cache_map[v]]
    BY <1>4, <2>1, StoreIs DEF Checkexist, Cached
  <2> QED
    BY <1>3, <1>4, <2>2, <2>3
<1> QED
  BY <1>2, <1>3, <1>4

LEMMA LruSequences ==
  ASSUME NEW x, NEW q, NEW i
  PROVE  /\ Lru!Cons(x, q) = Cons(x, q) /\ Lru!RemoveAt(q, i) = RemoveAt(q, i)
         /\ Lru!Front(q) = Front(q) /\ Lru!Last(q) = Last(q)
BY DEF Lru!Cons, Lru!RemoveAt, Lru!Front, Lru!Last, Cons, RemoveAt, Front, Last

\* Where u's node is in the list, u is in Order.
LEMMA PlaceOf ==
  ASSUME Matched, NEW u \in Url, Checkexist(u)
  PROVE  \E i \in 1 .. Len(cacheList) :
           /\ cacheList[i] = cache_map[u]
           /\ Unlink(cache_map[u]) = RemoveAt(cacheList, i)
           /\ Lru!Used(u) = Cons(u, RemoveAt(Order, i))
<1>1. /\ cacheList \in Seq(Node) /\ DOMAIN cacheList = 1 .. Len(cacheList)
      /\ Distinct(cacheList)
  BY LenProperties DEF Matched, Structure, CacheTypeOK, ListOwnsNodes, Distinct
<1>2. Tracks(Order, cacheList, cache_map) /\ DOMAIN Order = 1 .. Len(cacheList)
  BY OrderTracks, LenProperties DEF Tracks
<1> DEFINE n == cache_map[u]
           i == CHOOSE k \in DOMAIN cacheList : cacheList[k] = n
           j == CHOOSE k \in DOMAIN Order : Order[k] = u
<1>3. n \in ToSet(cacheList)
  BY DEF Matched, Structure, ListOwnsNodes, MapMatchesList, Valid, IsLive
<1>4. i \in DOMAIN cacheList /\ cacheList[i] = n
  BY <1>3 DEF ToSet
<1>5. Unlink(n) = RemoveAt(cacheList, i)
  BY DEF Unlink
<1> HIDE DEF i
<1>6. Order[i] = u
  <2>1. cache_map[Order[i]] = n /\ Order[i] \in Url
    BY <1>1, <1>2, <1>4, ElementOfSeq DEF Tracks
  <2> QED
    BY <2>1 DEF Matched, MapMatchesList
<1>7. j \in DOMAIN Order /\ Order[j] = u
  BY <1>1, <1>2, <1>4, <1>6
<1>8. j = i
  <2> HIDE DEF j
  <2>1. cacheList[j] = n
    BY <1>2, <1>7 DEF Tracks
  <2> QED
    BY <1>1, <1>2, <1>4, <1>7, <2>1 DEF Distinct
<1>9. Lru!Used(u) = Cons(u, RemoveAt(Order, j))
  <2>1. Store[u] # Freed
    BY StoreIs
  <2> QED
    BY <2>1, LruSequences DEF Lru!Used, Lru!Stored
<1> QED
  BY <1>1, <1>4, <1>5, <1>8, <1>9

-----------------------------------------------------------------------------
(* The steps of LruCache.                                                   *)
LEMMA GetImplements ==
  ASSUME Matched, NEW u \in Url, GetCall(u)
  PROVE  Lru!Get(u)
<1>1. Checkexist(u) /\ GetHit(u) /\ answer' = <<u, Cached(u)>>
  BY DEF GetCall, Get, GetInvalid, Matched, MapMatchesList
<1>2. Matched'
  BY <1>1, GetMatches DEF Get
<1>3. Store[u] # Freed /\ Store[u] = Cached(u)
  BY <1>1, StoreIs
<1>4. Store' = Store
  BY <1>1 DEF GetHit, Store, Checkexist, Cached
<1>5. PICK i \in 1 .. Len(cacheList) :
        /\ Unlink(cache_map[u]) = RemoveAt(cacheList, i)
        /\ Lru!Used(u) = Cons(u, RemoveAt(Order, i))
  BY <1>1, PlaceOf
<1>6. /\ cacheList \in Seq(Node) /\ cache_map[u] \in Node
      /\ RemoveAt(cacheList, i) \in Seq(Node)
  BY <1>1, RemoveAtElements DEF GetHit, Valid, IsLive, Matched, Structure, CacheTypeOK
<1>7. Tracks(RemoveAt(Order, i), RemoveAt(cacheList, i), cache_map)
  BY <1>6, OrderTracks, TracksRemove
<1>8. Tracks(Cons(u, RemoveAt(Order, i)), Cons(cache_map[u], RemoveAt(cacheList, i)),
             cache_map)
  BY <1>6, <1>7, TracksCons
<1>9. Order' = Lru!Used(u)
  BY <1>1, <1>2, <1>5, <1>8, OrderIsNext DEF GetHit
<1> QED
  BY <1>1, <1>3, <1>4, <1>9 DEF Lru!Get, Lru!Stored

LEMMA ListFacts ==
  ASSUME Matched
  PROVE  /\ cacheList \in Seq(Node) /\ Distinct(cacheList) /\ Len(cacheList) \in Nat
         /\ Len(cacheList) <= Capacity + 1
         /\ cache_map \in [Url -> Node \cup {NoNode}]
         /\ heap \in [Node -> Response \cup {Freed}]
         /\ NoNode \notin ToSet(cacheList)
<1>1. cacheList \in Seq(Node) /\ DOMAIN cacheList = 1 .. Len(cacheList)
      /\ Len(cacheList) \in Nat
  BY LenProperties DEF Matched, Structure, CacheTypeOK
<1>2. NoNode \notin ToSet(cacheList)
  BY <1>1, ElementOfSeq, CacheAssumption DEF ToSet
<1> QED
  BY <1>1, <1>2 DEF Matched, Structure, CacheTypeOK, ListOwnsNodes, SizeBound, Distinct

\* The order after a node for u has been pushed in front of list.
LEMMA OrderPushed ==
  ASSUME Matched', NEW o, NEW list \in Seq(Node), NEW map, Tracks(o, list, map),
         NEW u \in Url, NEW n \in Node, map \in [Url -> Node \cup {NoNode}],
         map[u] \notin ToSet(list),
         cacheList' = Cons(n, list), cache_map' = [map EXCEPT ![u] = n]
  PROVE  Order' = Cons(u, o)
<1>1. Tracks(o, list, cache_map')
  BY TracksMap
<1>2. cache_map'[u] = n
  OBVIOUS
<1> QED
  BY <1>1, <1>2, TracksCons, OrderIsNext

LEMMA NewImplements ==
  ASSUME Matched, Matched', NEW u \in Url, NEW r \in Response, PutNew(u, r),
         answer' = <<>>
  PROVE  Lru!PutWithRoom(u, r)
<1>1. PICK n \in Node :
        /\ cacheList' = Cons(n, cacheList)
        /\ cache_map' = [cache_map EXCEPT ![u] = n]
        /\ heap' = [heap EXCEPT ![n] = r]
  BY DEF PutNew, PushFront
<1>2. cache_map[u] = NoNode /\ Len(cacheList) <= Capacity
  BY DEF PutNew, Checkexist
<1>3. Order' = Cons(u, Order)
  BY <1>1, <1>2, ListFacts, OrderTracks, OrderPushed
<1>4. Store[u] = Freed
  BY <1>2, StoreIs DEF Checkexist
<1>5. \A v \in Url : Store'[v] = IF v = u THEN r
                              ELSE IF cache_map'[v] = NoNode THEN Freed ELSE Store[v]
  <2>1. cache_map'[u] = n /\ heap'[n] = r
    BY <1>1, ListFacts
  <2>2. \A v \in Url : v # u => cache_map'[v] = cache_map[v]
    BY <1>1, ListFacts
  <2>3. \A m \in Node : m # n /\ heap'[m] # Freed => heap'[m] = heap[m]
    BY <1>1, ListFacts
  <2> QED
    BY <2>1, <2>2, <2>3, StoreNext
<1>6. Store' = [Store EXCEPT ![u] = r]
  <2>1. \A v \in Url : v # u => cache_map'[v] = cache_map[v]
    BY <1>1, ListFacts
  <2> QED
    BY <1>5, <2>1, StoreIs DEF Store, Checkexist
<1>7. Len(Order) < Capacity + 1
  BY <1>2, ListFacts, OrderTracks, CacheAssumption DEF Tracks
<1>8. Lru!Used(u) = Cons(u, Order)
  BY <1>4, LruSequences DEF Lru!Used, Lru!Stored
<1> QED
  BY <1>3, <1>6, <1>7, <1>8 DEF Lru!PutWithRoom

LEMMA ReplaceImplements ==
  ASSUME Matched, Matched', NEW u \in Url, NEW r \in Response, PutReplace(u, r),
         answer' = <<>>
  PROVE  Lru!PutWithRoom(u, r)
<1> DEFINE old == cache_map[u]  list == Unlink(old)  mem == [heap EXCEPT ![old] = Freed]
<1>1. PICK n \in Node :
        /\ cacheList' = Cons(n, list)
        /\ cache_map' = [cache_map EXCEPT ![u] = n]
        /\ heap' = [mem EXCEPT ![n] = r]
  BY DEF PutReplace, PushFront
<1>2. Checkexist(u) /\ old \in Node /\ old \in ToSet(cacheList)
  BY CacheAssumption
     DEF PutReplace, Valid, IsLive, Checkexist, Matched, Structure, ListOwnsNodes
<1>3. list \in Seq(Node) /\ ToSet(list) = ToSet(cacheList) \ {old}
  BY <1>2, ListFacts, UnlinkFacts, Zenon
<1>4. PICK i \in 1 .. Len(cacheList) :
        /\ list = RemoveAt(cacheList, i)
        /\ Lru!Used(u) = Cons(u, RemoveAt(Order, i))
  BY <1>2, PlaceOf
<1>5. Tracks(RemoveAt(Order, i), list, cache_map)
  BY <1>4, ListFacts, OrderTracks, TracksRemove
<1>6. mem \in [Node -> Response \cup {Freed}]
      /\ \A m \in Node : mem[m] # Freed => mem[m] = heap[m]
  BY ListFacts
<1> HIDE DEF list, mem
<1>7. Order' = Lru!Used(u)
  BY <1>1, <1>3, <1>4, <1>5, ListFacts, OrderPushed
<1>8. \A v \in Url : Store'[v] = IF v = u THEN r
                              ELSE IF cache_map'[v] = NoNode THEN Freed ELSE Store[v]
  <2>1. cache_map'[u] = n /\ heap'[n] = r
    BY <1>1, <1>6, ListFacts
  <2>2. \A v \in Url : v # u => cache_map'[v] = cache_map[v]
    BY <1>1, <1>6, ListFacts
  <2>3. \A m \in Node : m # n /\ heap'[m] # Freed => heap'[m] = heap[m]
    BY <1>1, <1>6, ListFacts
  <2> QED
    BY <2>1, <2>2, <2>3, StoreNext
<1>9. Store' = [Store EXCEPT ![u] = r]
  <2>1. \A v \in Url : v # u => cache_map'[v] = cache_map[v]
    BY <1>1, ListFacts
  <2> QED
    BY <1>8, <2>1, StoreIs DEF Store, Checkexist
<1>10. Store[u] # Freed
  BY <1>2, StoreIs
<1> QED
  BY <1>7, <1>9, <1>10 DEF Lru!PutWithRoom, Lru!Stored

LEMMA FrontElements ==
  ASSUME NEW S, NEW q \in Seq(S), Len(q) > 0
  PROVE  Front(q) = RemoveAt(q, Len(q)) /\ Len(q) \in 1 .. Len(q)
<1>1. Len(q) \in 1 .. Len(q)
  BY LenProperties
<1>2. SubSeq(q, Len(q) + 1, Len(q)) = <<>>
  BY <1>1
<1>3. Front(q) \in Seq(S)
  BY <1>1 DEF Front
<1> QED
  BY <1>1, <1>2, <1>3, ConcatEmptySeq DEF RemoveAt, Front

\* Dropping the last after putting an element in front.
LEMMA FrontOfCons ==
  ASSUME NEW S, NEW q \in Seq(S), NEW e \in S, Len(q) > 0
  PROVE  Front(Cons(e, q)) = Cons(e, Front(q))
<1> DEFINE c == Cons(e, q)  f == Front(q)
<1>1. /\ c \in Seq(S) /\ Len(c) = Len(q) + 1 /\ c[1] = e
      /\ \A j \in 1 .. Len(q) : c[j + 1] = q[j]
  BY ConsElements
<1>2. Len(q) \in Nat
  BY LenProperties
<1>3. /\ f \in Seq(S) /\ Len(f) = Len(q) - 1
      /\ \A j \in 1 .. Len(q) - 1 : f[j] = q[j]
  <2>1. f = RemoveAt(q, Len(q)) /\ Len(q) \in 1 .. Len(q)
    BY FrontElements
  <2>2. /\ RemoveAt(q, Len(q)) \in Seq(S) /\ Len(RemoveAt(q, Len(q))) = Len(q) - 1
        /\ \A j \in 1 .. Len(q) - 1 :
             RemoveAt(q, Len(q))[j] = IF j < Len(q) THEN q[j] ELSE q[j + 1]
    BY <2>1, RemoveAtElements
  <2> QED
    BY <1>2, <2>1, <2>2
<1> HIDE DEF c, f
<1>4. /\ Cons(e, f) \in Seq(S) /\ Len(Cons(e, f)) = Len(f) + 1 /\ Cons(e, f)[1] = e
      /\ \A j \in 1 .. Len(f) : Cons(e, f)[j + 1] = f[j]
  <2>1. ASSUME NEW g \in Seq(S)
        PROVE  /\ Cons(e, g) \in Seq(S) /\ Len(Cons(e, g)) = Len(g) + 1
               /\ Cons(e, g)[1] = e
               /\ \A j \in 1 .. Len(g) : Cons(e, g)[j + 1] = g[j]
    BY ConsElements
  <2> QED
    BY <1>3, <2>1
<1>5. /\ Front(c) \in Seq(S) /\ Len(Front(c)) = Len(c) - 1
      /\ \A j \in 1 .. Len(c) - 1 : Front(c)[j] = c[j]
  <2>1. Len(c) > 0 /\ Len(c) \in Nat
    BY <1>1, <1>2
  <2>2. Front(c) = RemoveAt(c, Len(c)) /\ Len(c) \in 1 .. Len(c)
    BY <1>1, <2>1, FrontElements
  <2>3. /\ RemoveAt(c, Len(c)) \in Seq(S) /\ Len(RemoveAt(c, Len(c))) = Len(c) - 1
        /\ \A j \in 1 .. Len(c) - 1 :
             RemoveAt(c, Len(c))[j] = IF j < Len(c) THEN c[j] ELSE c[j + 1]
    BY <1>1, <2>2, RemoveAtElements
  <2> QED
    BY <2>1, <2>2, <2>3
<1>6. ASSUME NEW j \in 1 .. Len(q) PROVE Front(c)[j] = Cons(e, f)[j]
  <2>1. CASE j = 1
    BY <1>1, <1>2, <1>4, <1>5, <2>1
  <2>2. CASE j # 1
    <3>1. j - 1 \in 1 .. Len(q) - 1 /\ (j - 1) + 1 = j /\ j - 1 \in 1 .. Len(q)
      BY <1>2, <2>2
    <3>2. c[j] = q[j - 1] /\ f[j - 1] = q[j - 1] /\ Cons(e, f)[j] = f[j - 1]
      BY <1>1, <1>3, <1>4, <3>1
    <3> QED
      BY <1>1, <1>2, <1>5, <3>2
  <2> QED
    BY <2>1, <2>2
<1>7. Len(Front(c)) = Len(q) /\ Len(Cons(e, f)) = Len(q)
  BY <1>1, <1>2, <1>3, <1>4, <1>5
<1>8. Front(c) = Cons(e, f)
  BY <1>4, <1>5, <1>6, <1>7, SeqEqual
<1> QED
  BY <1>8 DEF c, f

LEMMA TracksFront ==
  ASSUME NEW o, NEW list \in Seq(Node), NEW map, Tracks(o, list, map), Len(list) > 0
  PROVE  Tracks(Front(o), Front(list), map)
<1>1. Front(list) = RemoveAt(list, Len(list)) /\ Len(list) \in 1 .. Len(list)
  BY FrontElements
<1>2. Front(o) = RemoveAt(o, Len(list))
  BY FrontElements DEF Tracks
<1> QED
  BY <1>1, <1>2, TracksRemove

LEMMA EvictImplements ==
  ASSUME Matched, Matched', NEW u \in Url, NEW r \in Response, PutEvict(u, r),
         answer' = <<>>
  PROVE  Lru!PutWhenFull(u, r)
<1>1. Matched
  OBVIOUS
<1> DEFINE victim == Last(cacheList)  list == Front(cacheList)
           map == EraseKeyOf(victim)  mem == [heap EXCEPT ![victim] = Freed]
           v == Last(Order)
<1>2. PICK n \in Node :
        /\ cacheList' = Cons(n, list)
        /\ cache_map' = [map EXCEPT ![u] = n]
        /\ heap' = [mem EXCEPT ![n] = r]
  BY DEF PutEvict, PushFront
<1>3. Len(cacheList) = Capacity + 1 /\ Len(cacheList) > 0 /\ cache_map[u] = NoNode
  BY <1>1, ListFacts, CacheAssumption DEF PutEvict, Checkexist
<1>4. /\ list \in Seq(Node) /\ ToSet(list) = ToSet(cacheList) \ {victim}
      /\ victim \in ToSet(cacheList)
  BY <1>1, <1>3, ListFacts, FrontFacts, Zenon
<1>5. Tracks(Order, cacheList, cache_map) /\ Order \in Seq(Url)
      /\ Len(Order) = Capacity + 1
  BY <1>1, <1>3, OrderTracks DEF Tracks
<1>6. v \in Url /\ cache_map[v] = victim
  <2>1. Len(cacheList) \in 1 .. Len(cacheList) /\ DOMAIN Order = 1 .. Len(cacheList)
    BY <1>1, <1>3, <1>5, ListFacts, LenProperties
  <2>2. victim = cacheList[Len(cacheList)] /\ v = Order[Len(cacheList)]
    BY <1>3, <1>5 DEF Last
  <2> QED
    BY <1>5, <2>1, <2>2, ElementOfSeq DEF Tracks
<1>7. victim \in Node /\ victim # NoNode
  BY <1>1, <1>4, ListFacts, LenProperties, ElementOfSeq DEF ToSet
<1>8. heap[victim].url = v
  \* Otherwise v keeps its entry, which then is the address of u's new node.
  <2> SUFFICES ASSUME heap[victim].url # v
               PROVE  FALSE
    OBVIOUS
  <2>1. map[v] = victim /\ v # u
    BY <1>3, <1>6, <1>7 DEF EraseKeyOf
  <2>2. map \in [Url -> Node \cup {NoNode}]
    BY <1>1, ListFacts DEF EraseKeyOf
  <2>3. cache_map'[v] = victim /\ cache_map'[u] = n
    BY <1>2, <2>1, <2>2
  <2>4. heap'[victim] # Freed
    <3>1. \A w \in Url : cache_map'[w] # NoNode => heap'[cache_map'[w]] # Freed
      BY DEF Matched, MapMatchesList, Checkexist, Valid, IsLive
    <3> HIDE DEF victim, list, map, mem, v
    <3> QED
      BY <1>6, <1>7, <2>3, <3>1
  <2>5. victim = n
    <3>1. heap[victim] # Freed /\ heap \in [Node -> Response \cup {Freed}]
      BY <1>1, <1>4, <1>7, ListFacts DEF Matched, Structure, ListOwnsNodes, IsLive
    <3> QED
      BY <1>2, <1>7, <2>4, <3>1
  <2>6. v = u
    BY <1>6, <1>7, <2>3, <2>5 DEF Matched, MapMatchesList, Checkexist
  <2> QED
    BY <2>1, <2>6
<1>9. map = [w \in Url |-> IF w = v THEN NoNode ELSE cache_map[w]]
  BY <1>8 DEF EraseKeyOf
<1>10. map \in [Url -> Node \cup {NoNode}]
       /\ \A w \in Url : map[w] = IF w = v THEN NoNode ELSE cache_map[w]
  BY <1>1, <1>9, ListFacts
<1>11. /\ mem \in [Node -> Response \cup {Freed}]
       /\ \A m \in Node : mem[m] # Freed => mem[m] = heap[m]
  BY <1>1, ListFacts
<1> HIDE DEF list, map, mem
<1>12. Tracks(Front(Order), list, map)
  <2>1. Tracks(Front(Order), list, cache_map)
    BY <1>1, <1>3, <1>5, ListFacts, TracksFront DEF list
  <2>2. \A w \in Url : cache_map[w] \in ToSet(list) => map[w] = cache_map[w]
    BY <1>4, <1>6, <1>10
  <2> QED
    BY <1>4, <2>1, <2>2, TracksMap
<1>13. Order' = Cons(u, Front(Order))
  <2>1. map[u] = NoNode /\ NoNode \notin ToSet(list)
    BY <1>1, <1>3, <1>4, <1>10, ListFacts
  <2> QED
    BY <1>2, <1>4, <1>10, <1>12, <2>1, OrderPushed
<1>14. Lru!Used(u) = Cons(u, Order) /\ Store[u] = Freed
  BY <1>1, <1>3, StoreIs, LruSequences DEF Lru!Used, Lru!Stored, Checkexist
<1>15. Lru!Front(Lru!Used(u)) = Cons(u, Front(Order))
  BY <1>3, <1>5, <1>14, FrontOfCons, LruSequences, CacheAssumption
<1>16. \A w \in Url : Store'[w] = IF w = u THEN r
                                  ELSE IF cache_map'[w] = NoNode THEN Freed ELSE Store[w]
  <2>1. cache_map'[u] = n /\ heap'[n] = r
    BY <1>2, <1>10, <1>11
  <2>2. \A w \in Url : w # u /\ cache_map'[w] # NoNode => cache_map'[w] = cache_map[w]
    BY <1>2, <1>10
  <2>3. \A m \in Node : m # n /\ heap'[m] # Freed => heap'[m] = heap[m]
    BY <1>2, <1>11
  <2> QED
    BY <1>1, <2>1, <2>2, <2>3, StoreNext
<1>17. Store' = [Store EXCEPT ![v] = Freed, ![u] = r]
  <2>1. \A w \in Url \ {u} : cache_map'[w] = IF w = v THEN NoNode ELSE cache_map[w]
    BY <1>2, <1>10
  <2> HIDE DEF v
  <2>2. \A w \in Url \ {u} : Store'[w] = IF w = v THEN Freed ELSE Store[w]
    BY <1>1, <1>16, <2>1, StoreIs DEF Checkexist
  <2>3. Store'[u] = r
    BY <1>16
  <2>4. Store = [w \in Url |-> Store[w]] /\ Store' = [w \in Url |-> Store'[w]]
    BY DEF Store
  <2> QED
    BY <2>2, <2>3, <2>4
<1>18. Lru!Last(Order) = v
  BY LruSequences
<1> QED
  BY <1>5, <1>13, <1>14, <1>15, <1>17, <1>18 DEF Lru!PutWhenFull, Lru!Stored

LEMMA CallImplements ==
  ASSUME Matched, Matched', CallNext
  PROVE  Lru!Next
<1>1. ASSUME NEW u \in Url, GetCall(u) PROVE Lru!Next
  BY <1>1, GetImplements DEF Lru!Next
<1>2. ASSUME NEW u \in Url, NEW r \in Reply[u], PutCall(u, r) PROVE Lru!Next
  <2>1. r \in Response /\ answer' = <<>> /\ Put(u, r)
    BY <1>2, CacheAssumption DEF PutCall
  <2>2. ~PutInvalid(u)
    BY DEF PutInvalid, Matched, MapMatchesList
  <2>3. Lru!PutWithRoom(u, r) \/ Lru!PutWhenFull(u, r)
    BY <2>1, <2>2, NewImplements, ReplaceImplements, EvictImplements DEF Put
  <2> QED
    BY <2>3 DEF Lru!Next
<1> QED
  BY <1>1, <1>2 DEF CallNext

\* A call is defined if map and list agree.
LEMMA CallDefined ==
  ASSUME MapMatchesList, CallNext
  PROVE  ~undefined /\ ~undefined'
<1>1. ASSUME NEW u \in Url, GetCall(u) PROVE undefined' = undefined
  BY <1>1 DEF GetCall, Get, GetHit, GetInvalid, MapMatchesList
<1>2. ASSUME NEW u \in Url, NEW r \in Reply[u], PutCall(u, r)
      PROVE  undefined' = undefined
  BY <1>2 DEF PutCall, Put, PutNew, PutEvict, PutReplace, PutInvalid, PushFront,
              MapMatchesList
<1> QED
  BY <1>1, <1>2 DEF CallNext

(* For any number of URLs, any responses and headers, and whatever          *)
(* addresses are reused: a call that finds map and list in agreement and    *)
(* leaves them so is one of an LRU cache of Capacity + 1 responses.  When   *)
(* they agree is what MatchedUntilFull says.                                *)
THEOREM CacheIsLruWhileMatched == CallSpec => LruWhileMatched
<1>1. CallInit => Structure /\ Lru!Init
  <2> SUFFICES ASSUME CallInit PROVE Structure /\ Lru!Init
    OBVIOUS
  <2>1. Structure
    BY StructureInit DEF CallInit
  <2>2. Order = <<>>
    BY DEF CallInit, CacheInit, Order
  <2>3. Store = [u \in Url |-> Freed]
    BY DEF CallInit, CacheInit, Store, Checkexist
  <2> QED
    BY <2>1, <2>2, <2>3 DEF Lru!Init, CallInit
<1>2. Structure /\ [CallNext]_callVars => Structure'
  <2>1. [CallNext]_callVars => [CacheNext]_cacheVars
    BY DEF CallNext, GetCall, PutCall, CacheNext, callVars, cacheVars
  <2> QED
    BY <2>1, StructureStep
<1>3. Structure /\ Structure' /\ [CallNext]_callVars
      => [MapMatchesList /\ MapMatchesList' => Lru!Next]_(Lru!lruVars)
  <2>1. CASE UNCHANGED callVars
    BY <2>1 DEF callVars, cacheVars, Lru!lruVars, Order, KeyOf, Store, Checkexist, Cached
  <2>2. ASSUME Structure, Structure', CallNext, MapMatchesList, MapMatchesList'
        PROVE  Lru!Next
    <3>1. Matched /\ Matched'
      BY <2>2, CallDefined DEF Matched, NeverUndefined
    <3> QED
      BY <2>2, <3>1, CallImplements
  <2> QED
    BY <2>1, <2>2
<1> QED
  BY <1>1, <1>2, <1>3, PTL DEF CallSpec, LruWhileMatched
=============================================================================
