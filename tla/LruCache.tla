----------------------------- MODULE LruCache ------------------------------
(***************************************************************************)
(* What a cache with an LRU policy promises its callers (danger_log.txt,   *)
(* "we use LRU policy"): a partial map from URLs to responses of bounded   *)
(* size, which forgets the least recently used URL and nothing else.       *)
(***************************************************************************)
EXTENDS Integers, SequencesExt

CONSTANTS Url, Response, Reply, Absent,
          Size        \* how many responses fit

VARIABLES order,      \* the stored URLs, most recently used first
          store,      \* the response stored for each URL, or Absent
          answer      \* the last call's answer: <<u, r>> for a get, else <<>>

lruVars == <<order, store, answer>>

Init ==
  /\ order = <<>>
  /\ store = [u \in Url |-> Absent]
  /\ answer = <<>>

Stored(u) == store[u] # Absent

\* The URLs in order of use once u is used now.
Used(u) == Cons(u, IF Stored(u)
                   THEN RemoveAt(order, CHOOSE i \in DOMAIN order : order[i] = u)
                   ELSE order)

Get(u) ==
  /\ Stored(u)
  /\ order' = Used(u)
  /\ answer' = <<u, store[u]>>
  /\ UNCHANGED store

PutWithRoom(u, r) ==
  /\ Stored(u) \/ Len(order) < Size
  /\ order' = Used(u)
  /\ store' = [store EXCEPT ![u] = r]
  /\ answer' = <<>>

PutWhenFull(u, r) ==
  /\ ~Stored(u)
  /\ Len(order) = Size
  /\ order' = Front(Used(u))
  /\ store' = [store EXCEPT ![Last(order)] = Absent, ![u] = r]
  /\ answer' = <<>>

Next == \E u \in Url :
          \/ Get(u)
          \/ \E r \in Reply[u] : PutWithRoom(u, r) \/ PutWhenFull(u, r)

Spec == Init /\ [][Next]_lruVars
=============================================================================
