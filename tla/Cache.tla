------------------------------- MODULE Cache -------------------------------
(***************************************************************************)
(* The response cache of cache.h / cache.cpp: a std::list of responses,    *)
(* most recently used first, and an unordered_map from a URL to the list   *)
(* node that holds its response.  get() and put() hold s_mutex exclusively *)
(* and checkexist() holds it shared, so each is one atomic step.           *)
(*                                                                         *)
(* The map stores list ITERATORS, that is, addresses of list nodes.  The   *)
(* model keeps them as addresses: a node is allocated by push_front, freed *)
(* by erase and pop_back, and its address may be handed out again.         *)
(***************************************************************************)
EXTENDS Integers, SequencesExt

CONSTANTS
  Url,        \* the keys: request targets
  NoUrl,      \* the empty string, what getField returns for an absent field
  Response,   \* parsed responses; r.url is what getField("Url") returns
  Reply,      \* Reply[u]: the responses that may be put under u
  Node,       \* the addresses the allocator hands out for list nodes
  NoNode,     \* cache_map.end()
  Freed,      \* the content of an address that holds no node
  Capacity    \* the member capacity; nothing calls setCapcity()

ASSUME CacheAssumption ==
  /\ Capacity \in Nat
  /\ NoUrl \notin Url
  /\ NoNode \notin Node
  /\ Freed \notin Response
  /\ \A r \in Response : r.url \in Url \cup {NoUrl}
  /\ Reply \in [Url -> SUBSET Response]

VARIABLES
  cacheList,  \* the list, as the sequence of its nodes' addresses
  cache_map,  \* the map; NoNode for a URL it does not contain
  heap,       \* what is at each address
  undefined   \* an invalid iterator was dereferenced: C++ promises nothing

cacheVars == <<cacheList, cache_map, heap, undefined>>

CacheInit ==
  /\ cacheList = <<>>
  /\ cache_map = [u \in Url |-> NoNode]
  /\ heap = [n \in Node |-> Freed]
  /\ undefined = FALSE

IsLive(n) == n \in Node /\ heap[n] # Freed

\* What the map has under u, and whether dereferencing it is defined.
Checkexist(u) == cache_map[u] # NoNode
Valid(u)      == IsLive(cache_map[u])
Cached(u)     == heap[cache_map[u]]

\* The list without node n.
Unlink(n) == RemoveAt(cacheList, CHOOSE i \in DOMAIN cacheList : cacheList[i] = n)

-----------------------------------------------------------------------------
(* get(): move the node to the front, return a copy of its response.  An   *)
(* entry that is absent is only logged before it is dereferenced anyway.   *)

\* Slip: the node is not moved to the front.
GetHitInPlace(u) == Valid(u) /\ UNCHANGED cacheVars

\* Slip: the node is linked at the front and stays where it was as well.
GetHitTwice(u) ==
  /\ Valid(u)
  /\ cacheList' = Cons(cache_map[u], cacheList)
  /\ UNCHANGED <<cache_map, heap, undefined>>

GetHit(u) ==
  /\ Valid(u)
  /\ cacheList' = Cons(cache_map[u], Unlink(cache_map[u]))
  /\ UNCHANGED <<cache_map, heap, undefined>>

GetInvalid(u) ==
  /\ ~Valid(u)
  /\ undefined' = TRUE
  /\ UNCHANGED <<cacheList, cache_map, heap>>

-----------------------------------------------------------------------------
(* put(): drop a node if need be, then push the response in a new node at  *)
(* the front and point the map at it.  The address of a node just dropped  *)
(* is free again.                                                          *)

PushFront(u, r, list, map, mem) ==
  \E n \in Node :
    /\ mem[n] = Freed
    /\ cacheList' = Cons(n, list)
    /\ cache_map' = [map EXCEPT ![u] = n]
    /\ heap' = [mem EXCEPT ![n] = r]
    /\ UNCHANGED undefined

\* Slip: one more response is let in before the first is dropped.
PutNewLate(u, r) ==
  /\ ~Checkexist(u)
  /\ Len(cacheList) <= Capacity + 1
  /\ PushFront(u, r, cacheList, cache_map, heap)

PutNew(u, r) ==
  /\ ~Checkexist(u)
  /\ Len(cacheList) <= Capacity
  /\ PushFront(u, r, cacheList, cache_map, heap)

\* Slip: the entries of the victim get a null iterator instead.
EraseToNull(victim) ==
  [u \in Url |-> IF cache_map[u] = victim THEN Freed ELSE cache_map[u]]

\* Slip: the "Url" field is read from the most recently used response.
EraseKeyOfFirst(victim) ==
  [u \in Url |-> IF u = heap[Head(cacheList)].url THEN NoNode ELSE cache_map[u]]

\* Slip for the caller: the victim's entry goes, as was meant, but a thread
\* that has been told it exists may not have read it yet.
EraseEntriesOf(victim) ==
  [u \in Url |-> IF cache_map[u] = victim THEN NoNode ELSE cache_map[u]]

\* The key to forget is read from the victim's own "Url" field, which an
\* ordinary response does not have: no key is forgotten then.
EraseKeyOf(victim) ==
  [u \in Url |-> IF u = heap[victim].url THEN NoNode ELSE cache_map[u]]

PutEvict(u, r) ==
  /\ ~Checkexist(u)
  /\ Len(cacheList) > Capacity
  /\ LET victim == Last(cacheList)
     IN  PushFront(u, r, Front(cacheList), EraseKeyOf(victim),
                   [heap EXCEPT ![victim] = Freed])

\* Slip: the entry is not pointed at the new node.
PutReplaceStale(u, r) ==
  /\ Valid(u)
  /\ \E n \in Node :
       /\ ~IsLive(n)
       /\ cacheList' = Cons(n, Unlink(cache_map[u]))
       /\ heap' = [heap EXCEPT ![cache_map[u]] = Freed, ![n] = r]
  /\ UNCHANGED <<cache_map, undefined>>

PutReplace(u, r) ==
  /\ Valid(u)
  /\ LET old == cache_map[u]
     IN  PushFront(u, r, Unlink(old), cache_map, [heap EXCEPT ![old] = Freed])

PutInvalid(u) ==
  /\ Checkexist(u)
  /\ ~Valid(u)
  /\ undefined' = TRUE
  /\ UNCHANGED <<cacheList, cache_map, heap>>

-----------------------------------------------------------------------------
Get(u) == GetHit(u) \/ GetInvalid(u)

Put(u, r) == PutNew(u, r) \/ PutEvict(u, r) \/ PutReplace(u, r) \/ PutInvalid(u)

(* The cache on its own, used by one caller at a time the way cache.h asks: *)
(* checkexist() first, get() only when it said yes.                         *)
CacheNext ==
  /\ ~undefined
  /\ \E u \in Url :
       \/ Checkexist(u) /\ Get(u)
       \/ \E r \in Reply[u] : Put(u, r)

CacheSpec == CacheInit /\ [][CacheNext]_cacheVars

-----------------------------------------------------------------------------
\* Every variable holds a value of its kind.
CacheTypeOK ==
  /\ cacheList \in Seq(Node)
  /\ cache_map \in [Url -> Node \cup {NoNode}]
  /\ heap \in [Node -> Response \cup {Freed}]
  /\ undefined \in BOOLEAN

(* The list and the allocator agree: every allocated node is linked exactly *)
(* once and every linked node is allocated.  Holds whatever the map says,   *)
(* dangling entries and reused addresses included: no sequence of get() and *)
(* put() leaks a node or links a freed one before the behaviour is already  *)
(* undefined.                                                               *)
ListOwnsNodes ==
  /\ \A i, j \in DOMAIN cacheList : cacheList[i] = cacheList[j] => i = j
  /\ \A n \in Node : IsLive(n) <=> n \in ToSet(cacheList)

(* put() compares the size with the capacity before it pushes, with >: the *)
(* list never holds more than one response above the capacity.             *)
SizeBound == Len(cacheList) <= Capacity + 1

(* "always return a valid HttpResponse" (cache.h, on get): a caller that    *)
(* checks first never makes get() or put() follow an invalid iterator.      *)
NeverUndefined == ~undefined

\* The keys of the map, and whether the list can hold a node for each.
Entries == {u \in Url : Checkexist(u)}
KeysFit == Cardinality(Entries) <= Capacity + 1

\* Each entry of the map is the address of a live node, no two entries
\* share a node, and every node of the list is some entry's.
MapMatchesList ==
  /\ \A u \in Url : Checkexist(u) => Valid(u)
  /\ \A u, v \in Url : Checkexist(u) /\ cache_map[u] = cache_map[v] => u = v
  /\ \A n \in ToSet(cacheList) : \E u \in Url : cache_map[u] = n

(* Map and list agree exactly as long as the map has no more keys than the  *)
(* list has room for.  The first key too many is what an eviction leaves    *)
(* behind whose victim has no header "Url" (cache.cpp:62-65), and from then *)
(* on some entry is wrong for ever: no later call repairs it.               *)
MatchedUntilFull == MapMatchesList <=> KeysFit

(* Until then no get() or put() follows an invalid iterator.                *)
DefinedUntilFull == KeysFit => ~undefined
=============================================================================
