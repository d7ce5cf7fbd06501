-------------------------- MODULE CacheRefinement --------------------------
(***************************************************************************)
(* The cache of cache.cpp as an implementation of LruCache.  A list node   *)
(* is read as the URL whose entry points at it; what get() returned last   *)
(* is kept, since that is what a caller sees of it.                        *)
(***************************************************************************)
EXTENDS Cache

VARIABLE answer   \* <<u, r>> after get() returned r for u, <<>> after put()

callVars == <<cacheVars, answer>>

CallInit == CacheInit /\ answer = <<>>

GetCall(u) == Checkexist(u) /\ Get(u) /\ answer' = <<u, Cached(u)>>

PutCall(u, r) == Put(u, r) /\ answer' = <<>>

CallNext ==
  /\ ~undefined
  /\ \E u \in Url : GetCall(u) \/ \E r \in Reply[u] : PutCall(u, r)

CallSpec == CallInit /\ [][CallNext]_callVars

KeyOf(n) == CHOOSE u \in Url : cache_map[u] = n

Order == [i \in DOMAIN cacheList |-> KeyOf(cacheList[i])]

Store == [u \in Url |-> IF Checkexist(u) THEN Cached(u) ELSE Freed]

Lru == INSTANCE LruCache WITH
         order <- Order, store <- Store, Absent <- Freed, Size <- Capacity + 1

(* Every call that finds map and list in agreement and leaves them so is    *)
(* the call of an LRU cache of Capacity + 1 responses: get() returns what   *)
(* was last put for that URL and counts as a use of it, put() stores it and *)
(* forgets the least recently used URL, no other, and only when it is full. *)
LruWhileMatched ==
  Lru!Init /\ [][MapMatchesList /\ MapMatchesList' => Lru!Next]_(Lru!lruVars)
=============================================================================
