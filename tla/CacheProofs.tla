---------------------------- MODULE CacheProofs ----------------------------
(***************************************************************************)
(* Theorems about Cache, for every set of URLs, responses and addresses    *)
(* and every capacity.                                                     *)
(***************************************************************************)
EXTENDS Cache, FiniteSetTheorems, SequenceTheorems, TLAPS

Distinct(s) == \A i, j \in DOMAIN s : s[i] = s[j] => i = j

(* Taking position i out of a sequence. *)
LEMMA RemoveAtElements ==
  ASSUME NEW S, NEW s \in Seq(S), NEW i \in 1 .. Len(s)
  PROVE  /\ RemoveAt(s, i) \in Seq(S)
         /\ Len(RemoveAt(s, i)) = Len(s) - 1
         /\ \A j \in 1 .. Len(s) - 1 :
              RemoveAt(s, i)[j] = IF j < i THEN s[j] ELSE s[j + 1]
<1> DEFINE l == SubSeq(s, 1, i - 1)
           r == SubSeq(s, i + 1, Len(s))
           t == RemoveAt(s, i)
<1>0. /\ Len(s) \in Nat /\ DOMAIN s = 1 .. Len(s)
      /\ \A j \in 1 .. Len(s) : s[j] \in S
  BY LenProperties, ElementOfSeq
<1>1. /\ l \in Seq(S) /\ Len(l) = i - 1
      /\ \A j \in 1 .. i - 1 : l[j] = s[j]
  BY <1>0
<1>2. /\ r \in Seq(S) /\ Len(r) = Len(s) - i
      /\ \A j \in 1 .. Len(s) - i : r[j] = s[i + j]
  <2> DEFINE m == i + 1
             n == Len(s)
  <2>1. m \in Int /\ n \in Int /\ \A j \in m .. n : s[j] \in S
    BY <1>0
  <2>2. /\ SubSeq(s, m, n) \in Seq(S)
        /\ Len(SubSeq(s, m, n)) = IF m <= n THEN n - m + 1 ELSE 0
        /\ \A j \in 1 .. n - m + 1 : SubSeq(s, m, n)[j] = s[m + j - 1]
    <3> HIDE DEF m, n
    <3> QED
      BY <2>1, SubSeqProperties
  <2>3. ASSUME NEW j \in 1 .. Len(s) - i
        PROVE  r[j] = s[i + j]
    <3>1. j \in 1 .. n - m + 1 /\ m + j - 1 = i + j
      BY <1>0
    <3>2. r[j] = s[m + j - 1]
      BY <2>2, <3>1
    <3> QED
      BY <3>1, <3>2
  <2> QED
    BY <1>0, <2>2, <2>3
<1>3. t = l \o r
  BY DEF RemoveAt
<1> HIDE DEF l, r, t
<1>4. /\ t \in Seq(S) /\ Len(t) = Len(s) - 1
      /\ \A j \in 1 .. Len(l) + Len(r) :
           t[j] = IF j <= Len(l) THEN l[j] ELSE r[j - Len(l)]
  <2>1. l \in Seq(S) /\ r \in Seq(S)
    BY <1>1, <1>2
  <2>2. /\ l \o r \in Seq(S) /\ Len(l \o r) = Len(l) + Len(r)
        /\ \A j \in 1 .. Len(l) + Len(r) :
             (l \o r)[j] = IF j <= Len(l) THEN l[j] ELSE r[j - Len(l)]
    BY <2>1, ConcatProperties, Zenon
  <2>3. Len(l) + Len(r) = Len(s) - 1
    BY <1>0, <1>1, <1>2
  <2> QED
    BY <1>3, <2>2, <2>3
<1>5. ASSUME NEW j \in 1 .. Len(s) - 1
      PROVE  t[j] = IF j < i THEN s[j] ELSE s[j + 1]
  <2>0. j \in 1 .. Len(l) + Len(r)
    BY <1>0, <1>1, <1>2
  <2>1. CASE j < i
    BY <1>0, <1>1, <1>4, <2>0, <2>1
  <2>2. CASE j >= i
    <3>1. ~(j <= Len(l)) /\ j - Len(l) \in 1 .. Len(s) - i
      BY <1>0, <1>1, <2>2
    <3>2. t[j] = r[j - Len(l)]
      BY <1>4, <2>0, <3>1
    <3>3. r[j - Len(l)] = s[i + (j - Len(l))]
      BY <1>2, <3>1
    <3>4. i + (j - Len(l)) = j + 1
      BY <1>0, <1>1
    <3> QED
      BY <2>2, <3>2, <3>3, <3>4
  <2> QED
    BY <1>0, <2>1, <2>2
<1> QED
  BY <1>4, <1>5 DEF t

(* Taking position i out of a sequence without duplicates takes exactly its *)
(* element out of the set of its elements.                                  *)
LEMMA RemoveAtFacts ==
  ASSUME NEW S, NEW s \in Seq(S), Distinct(s), NEW i \in 1 .. Len(s)
  PROVE  /\ RemoveAt(s, i) \in Seq(S)
         /\ Len(RemoveAt(s, i)) = Len(s) - 1
         /\ Distinct(RemoveAt(s, i))
         /\ ToSet(RemoveAt(s, i)) = ToSet(s) \ {s[i]}
<1> DEFINE t == RemoveAt(s, i)
<1>0. Len(s) \in Nat /\ DOMAIN s = 1 .. Len(s)
  BY LenProperties
<1>4. /\ t \in Seq(S) /\ Len(t) = Len(s) - 1
      /\ \A j \in 1 .. Len(s) - 1 : t[j] = IF j < i THEN s[j] ELSE s[j + 1]
  BY RemoveAtElements, Zenon
<1> HIDE DEF t
<1>5. DOMAIN t = 1 .. Len(s) - 1
  BY <1>4, LenProperties
<1>6. \A j \in 1 .. Len(s) - 1 : t[j] = IF j < i THEN s[j] ELSE s[j + 1]
  BY <1>4
<1>7. Distinct(t)
  <2> SUFFICES ASSUME NEW j \in DOMAIN t, NEW k \in DOMAIN t, t[j] = t[k]
               PROVE  j = k
    BY DEF Distinct
  <2> DEFINE at(m) == IF m < i THEN m ELSE m + 1
  <2>1. j \in 1 .. Len(s) - 1 /\ k \in 1 .. Len(s) - 1
    BY <1>5
  <2>2. t[j] = s[at(j)] /\ t[k] = s[at(k)]
    BY <1>6, <2>1
  <2>3. at(j) \in DOMAIN s /\ at(k) \in DOMAIN s
    BY <1>0, <2>1
  <2>4. at(j) = at(k)
    <3> HIDE DEF at
    <3> QED
      BY <2>2, <2>3 DEF Distinct
  <2> QED
    BY <1>0, <2>1, <2>4
<1>8. ToSet(t) = ToSet(s) \ {s[i]}
  <2>1. ASSUME NEW j \in DOMAIN t
        PROVE  t[j] \in ToSet(s) /\ t[j] # s[i]
    BY <1>0, <1>5, <1>6 DEF ToSet, Distinct
  <2>2. ASSUME NEW j \in DOMAIN s, s[j] # s[i]
        PROVE  s[j] \in ToSet(t)
    <3>1. CASE j < i
      BY <1>0, <1>5, <1>6, <3>1 DEF ToSet
    <3>2. CASE j > i
      <4>1. j - 1 \in 1 .. Len(s) - 1 /\ ~(j - 1 < i) /\ (j - 1) + 1 = j
        BY <1>0, <3>2
      <4>2. t[j - 1] = s[j]
        BY <1>6, <4>1
      <4> QED
        BY <1>5, <4>1, <4>2 DEF ToSet
    <3> QED
      BY <1>0, <2>2, <3>1, <3>2
  <2> QED
    BY <2>1, <2>2 DEF ToSet
<1> QED
  BY <1>4, <1>7, <1>8 DEF t

(* Putting an element in front. *)
LEMMA ConsElements ==
  ASSUME NEW S, NEW s \in Seq(S), NEW e \in S
  PROVE  /\ Cons(e, s) \in Seq(S)
         /\ Len(Cons(e, s)) = Len(s) + 1
         /\ Cons(e, s)[1] = e
         /\ \A j \in 1 .. Len(s) : Cons(e, s)[j + 1] = s[j]
<1> DEFINE t == Cons(e, s)
<1>0. /\ Len(s) \in Nat /\ DOMAIN s = 1 .. Len(s)
      /\ <<e>> \in Seq(S) /\ Len(<<e>>) = 1 /\ <<e>>[1] = e
  BY LenProperties
<1>1. /\ t \in Seq(S) /\ Len(t) = 1 + Len(s)
      /\ \A j \in 1 .. 1 + Len(s) : t[j] = IF j <= 1 THEN <<e>>[j] ELSE s[j - 1]
  BY <1>0, ConcatProperties, Zenon DEF Cons
<1> HIDE DEF t
<1>2. t[1] = e
  BY <1>0, <1>1
<1>3. ASSUME NEW j \in 1 .. Len(s)
      PROVE  t[j + 1] = s[j]
  <2>1. j + 1 \in 1 .. 1 + Len(s) /\ ~(j + 1 <= 1) /\ (j + 1) - 1 = j
    BY <1>0
  <2> QED
    BY <1>1, <2>1
<1> QED
  BY <1>0, <1>1, <1>2, <1>3 DEF t

LEMMA ConsFacts ==
  ASSUME NEW S, NEW s \in Seq(S), NEW e \in S
  PROVE  /\ Cons(e, s) \in Seq(S)
         /\ Len(Cons(e, s)) = Len(s) + 1
         /\ ToSet(Cons(e, s)) = ToSet(s) \cup {e}
         /\ Distinct(s) /\ e \notin ToSet(s) => Distinct(Cons(e, s))
<1> DEFINE t == Cons(e, s)
<1>0. Len(s) \in Nat /\ DOMAIN s = 1 .. Len(s)
  BY LenProperties
<1>1. /\ t \in Seq(S) /\ Len(t) = Len(s) + 1
      /\ t[1] = e /\ \A j \in 1 .. Len(s) : t[j + 1] = s[j]
  BY ConsElements
<1> HIDE DEF t
<1>2. DOMAIN t = 1 .. Len(s) + 1
  BY <1>0, <1>1, LenProperties
<1>3. t[1] = e
  BY <1>1
<1>4. \A j \in 1 .. Len(s) : j + 1 \in 1 .. Len(s) + 1 /\ t[j + 1] = s[j]
  BY <1>0, <1>1
<1>5. ASSUME NEW j \in DOMAIN t
      PROVE  j = 1 \/ \E k \in 1 .. Len(s) : j = k + 1
  <2>1. CASE j # 1
    <3>1. j - 1 \in 1 .. Len(s) /\ j = (j - 1) + 1
      BY <1>0, <1>2, <2>1
    <3> QED
      BY <3>1
  <2> QED
    BY <2>1
<1>6. ToSet(t) = ToSet(s) \cup {e}
  <2>1. ASSUME NEW j \in DOMAIN t
        PROVE  t[j] \in ToSet(s) \cup {e}
    BY <1>0, <1>3, <1>4, <1>5 DEF ToSet
  <2>2. ASSUME NEW j \in DOMAIN s
        PROVE  s[j] \in ToSet(t)
    BY <1>0, <1>2, <1>4 DEF ToSet
  <2>3. e \in ToSet(t)
    BY <1>0, <1>2, <1>3 DEF ToSet
  <2> QED
    BY <2>1, <2>2, <2>3 DEF ToSet
<1>7. ASSUME Distinct(s), e \notin ToSet(s)
      PROVE  Distinct(t)
  <2>1. \A k \in 1 .. Len(s) : s[k] # e
    BY <1>0, <1>7 DEF ToSet
  <2> SUFFICES ASSUME NEW i \in DOMAIN t, NEW j \in DOMAIN t, t[i] = t[j]
               PROVE  i = j
    BY DEF Distinct
  <2>2. CASE i = 1
    BY <1>3, <1>4, <1>5, <2>1, <2>2
  <2>3. CASE j = 1
    BY <1>3, <1>4, <1>5, <2>1, <2>3
  <2>4. CASE i # 1 /\ j # 1
    <3>1. PICK k \in 1 .. Len(s) : i = k + 1
      BY <1>5, <2>4
    <3>2. PICK m \in 1 .. Len(s) : j = m + 1
      BY <1>5, <2>4
    <3>3. s[k] = s[m]
      BY <1>4, <3>1, <3>2
    <3>4. k = m
      BY <1>0, <1>7, <3>3 DEF Distinct
    <3> QED
      BY <3>1, <3>2, <3>4
  <2> QED
    BY <2>2, <2>3, <2>4
<1> QED
  BY <1>0, <1>1, <1>6, <1>7 DEF t

(* Dropping the last element is removing at the last position. *)
LEMMA FrontFacts ==
  ASSUME NEW S, NEW s \in Seq(S), Distinct(s), Len(s) > 0
  PROVE  /\ Front(s) \in Seq(S)
         /\ Len(Front(s)) = Len(s) - 1
         /\ Distinct(Front(s))
         /\ ToSet(Front(s)) = ToSet(s) \ {Last(s)}
         /\ Last(s) \in ToSet(s)
<1>1. Len(s) \in 1 .. Len(s) /\ DOMAIN s = 1 .. Len(s)
  BY LenProperties
<1>2. SubSeq(s, Len(s) + 1, Len(s)) = <<>>
  BY <1>1
<1>3. Front(s) \in Seq(S)
  BY <1>1 DEF Front
<1>4. RemoveAt(s, Len(s)) = Front(s)
  BY <1>2, <1>3, ConcatEmptySeq DEF RemoveAt, Front
<1>5. Last(s) = s[Len(s)]
  BY DEF Last
<1>6. s[Len(s)] \in ToSet(s)
  BY <1>1 DEF ToSet
<1>7. /\ RemoveAt(s, Len(s)) \in Seq(S)
      /\ Len(RemoveAt(s, Len(s))) = Len(s) - 1
      /\ Distinct(RemoveAt(s, Len(s)))
      /\ ToSet(RemoveAt(s, Len(s))) = ToSet(s) \ {s[Len(s)]}
  BY <1>1, RemoveAtFacts, Zenon
<1> QED
  BY <1>4, <1>5, <1>6, <1>7

(* Taking a node out of the list. *)
LEMMA UnlinkFacts ==
  ASSUME cacheList \in Seq(Node), Distinct(cacheList),
         NEW n \in ToSet(cacheList)
  PROVE  /\ Unlink(n) \in Seq(Node)
         /\ Len(Unlink(n)) = Len(cacheList) - 1
         /\ Distinct(Unlink(n))
         /\ ToSet(Unlink(n)) = ToSet(cacheList) \ {n}
<1> DEFINE i == CHOOSE k \in DOMAIN cacheList : cacheList[k] = n
<1>1. i \in DOMAIN cacheList /\ cacheList[i] = n
  BY DEF ToSet
<1>2. i \in 1 .. Len(cacheList)
  BY <1>1, LenProperties
<1>3. Unlink(n) = RemoveAt(cacheList, i)
  BY DEF Unlink
<1> HIDE DEF i
<1> QED
  BY <1>1, <1>2, <1>3, RemoveAtFacts

-----------------------------------------------------------------------------
(* The structural half of the cache: list, allocator and size.             *)

Owns(list, mem) ==
  /\ Distinct(list)
  /\ \A n \in Node : mem[n] # Freed <=> n \in ToSet(list)

Structure == CacheTypeOK /\ ListOwnsNodes /\ SizeBound

LEMMA StructureOwns ==
  ASSUME CacheTypeOK
  PROVE  ListOwnsNodes <=> Owns(cacheList, heap)
BY DEF ListOwnsNodes, Owns, Distinct, IsLive

(* What every put() ends with, from a list that owns its nodes and has room. *)
LEMMA PushFrontStructure ==
  ASSUME NEW u \in Url, NEW r \in Response,
         NEW list \in Seq(Node),
         NEW map \in [Url -> Node \cup {NoNode}],
         NEW mem \in [Node -> Response \cup {Freed}],
         Owns(list, mem), Len(list) <= Capacity, undefined \in BOOLEAN,
         PushFront(u, r, list, map, mem)
  PROVE  Structure'
<1>1. PICK n \in Node :
        /\ mem[n] = Freed
        /\ cacheList' = Cons(n, list)
        /\ cache_map' = [map EXCEPT ![u] = n]
        /\ heap' = [mem EXCEPT ![n] = r]
        /\ undefined' = undefined
  BY DEF PushFront
<1>2. n \notin ToSet(list)
  BY <1>1 DEF Owns
<1>3. /\ cacheList' \in Seq(Node)
      /\ Len(cacheList') = Len(list) + 1
      /\ ToSet(cacheList') = ToSet(list) \cup {n}
      /\ Distinct(cacheList')
  <2>1. Distinct(list)
    BY DEF Owns
  <2>2. /\ Cons(n, list) \in Seq(Node)
        /\ Len(Cons(n, list)) = Len(list) + 1
        /\ ToSet(Cons(n, list)) = ToSet(list) \cup {n}
        /\ (Distinct(list) /\ n \notin ToSet(list) => Distinct(Cons(n, list)))
    BY ConsFacts, Zenon
  <2> QED
    BY <1>1, <1>2, <2>1, <2>2, Zenon
<1>4. CacheTypeOK'
  BY <1>1, <1>3 DEF CacheTypeOK
<1>5. \A m \in Node : heap'[m] # Freed <=> m \in ToSet(cacheList')
  <2>1. heap'[n] = r /\ r # Freed
    BY <1>1, CacheAssumption
  <2>2. \A m \in Node : m # n => heap'[m] = mem[m]
    BY <1>1
  <2> QED
    BY <1>3, <2>1, <2>2 DEF Owns
<1>6. ListOwnsNodes'
  BY <1>3, <1>5 DEF ListOwnsNodes, Distinct, IsLive
<1>7. SizeBound'
  <2>1. Len(list) \in Nat /\ Capacity \in Nat
    BY LenProperties, CacheAssumption
  <2> QED
    BY <1>3, <2>1 DEF SizeBound
<1> QED
  BY <1>4, <1>6, <1>7 DEF Structure

LEMMA GetHitStructure ==
  ASSUME Structure, NEW u \in Url, GetHit(u)
  PROVE  Structure'
<1> DEFINE n == cache_map[u]
<1>1. n \in Node /\ n \in ToSet(cacheList)
  BY DEF GetHit, Valid, IsLive, Structure, ListOwnsNodes
<1>2. cacheList \in Seq(Node) /\ Distinct(cacheList)
  BY DEF Structure, CacheTypeOK, ListOwnsNodes, Distinct
<1>3. /\ Unlink(n) \in Seq(Node)
      /\ Len(Unlink(n)) = Len(cacheList) - 1
      /\ Distinct(Unlink(n))
      /\ ToSet(Unlink(n)) = ToSet(cacheList) \ {n}
  BY <1>1, <1>2, UnlinkFacts, Zenon
<1>4. cacheList' = Cons(n, Unlink(n)) /\ UNCHANGED <<cache_map, heap, undefined>>
  BY DEF GetHit
<1> HIDE DEF n
<1>5. n \notin ToSet(Unlink(n))
  BY <1>3
<1>6. /\ cacheList' \in Seq(Node)
      /\ Len(cacheList') = Len(Unlink(n)) + 1
      /\ ToSet(cacheList') = ToSet(Unlink(n)) \cup {n}
      /\ Distinct(cacheList')
  <2> DEFINE rest == Unlink(n)
  <2>1. rest \in Seq(Node) /\ Distinct(rest) /\ n \notin ToSet(rest) /\ n \in Node
    BY <1>1, <1>3, <1>5
  <2> HIDE DEF rest
  <2>2. /\ Cons(n, rest) \in Seq(Node)
        /\ Len(Cons(n, rest)) = Len(rest) + 1
        /\ ToSet(Cons(n, rest)) = ToSet(rest) \cup {n}
        /\ Distinct(Cons(n, rest))
    BY <2>1, ConsFacts, Zenon
  <2> QED
    BY <1>4, <2>2 DEF rest
<1>7. CacheTypeOK'
  BY <1>4, <1>6 DEF Structure, CacheTypeOK
<1>8. ToSet(cacheList') = ToSet(cacheList)
  BY <1>1, <1>3, <1>6
<1>9. ListOwnsNodes'
  BY <1>4, <1>6, <1>8 DEF Structure, ListOwnsNodes, Distinct, IsLive
<1>10. SizeBound'
  <2>1. Len(cacheList) \in Nat /\ Capacity \in Nat
    BY <1>2, LenProperties, CacheAssumption
  <2> QED
    BY <1>3, <1>6, <2>1 DEF Structure, SizeBound
<1> QED
  BY <1>7, <1>9, <1>10 DEF Structure

LEMMA PutStructure ==
  ASSUME Structure, NEW u \in Url, NEW r \in Response, Put(u, r)
  PROVE  Structure'
<1>1. /\ cacheList \in Seq(Node) /\ Distinct(cacheList)
      /\ Owns(cacheList, heap) /\ undefined \in BOOLEAN
      /\ cache_map \in [Url -> Node \cup {NoNode}]
      /\ heap \in [Node -> Response \cup {Freed}]
  BY StructureOwns DEF Structure, CacheTypeOK, Owns
<1>2. Len(cacheList) \in Nat /\ Capacity \in Nat /\ Len(cacheList) <= Capacity + 1
  BY <1>1, LenProperties, CacheAssumption DEF Structure, SizeBound
<1>3. CASE PutNew(u, r)
  <2>1. Len(cacheList) <= Capacity
        /\ PushFront(u, r, cacheList, cache_map, heap)
    BY <1>3 DEF PutNew
  <2> QED
    BY <1>1, <2>1, PushFrontStructure, Zenon
<1>4. CASE PutEvict(u, r)
  <2> DEFINE victim == Last(cacheList)
             list   == Front(cacheList)
             map    == EraseKeyOf(victim)
             mem    == [heap EXCEPT ![victim] = Freed]
  <2>1. Len(cacheList) > Capacity /\ PushFront(u, r, list, map, mem)
    BY <1>4 DEF PutEvict
  <2>2. Len(cacheList) > 0
    BY <1>2, <2>1
  <2>3. /\ list \in Seq(Node)
        /\ Len(list) = Len(cacheList) - 1
        /\ Distinct(list)
        /\ ToSet(list) = ToSet(cacheList) \ {victim}
        /\ victim \in ToSet(cacheList)
    BY <1>1, <2>2, FrontFacts, Zenon
  <2>4. map \in [Url -> Node \cup {NoNode}]
    BY <1>1 DEF EraseKeyOf
  <2>5. mem \in [Node -> Response \cup {Freed}]
        /\ \A m \in Node : mem[m] = IF m = victim THEN Freed ELSE heap[m]
    BY <1>1
  <2>6. Owns(list, mem)
    BY <1>1, <2>3, <2>5 DEF Owns
  <2>7. Len(list) <= Capacity
    BY <1>2, <2>3
  <2> HIDE DEF victim, list, map, mem
  <2> QED
    BY <1>1, <2>1, <2>3, <2>4, <2>5, <2>6, <2>7, PushFrontStructure, Zenon
<1>5. CASE PutReplace(u, r)
  <2> DEFINE old  == cache_map[u]
             list == Unlink(old)
             mem  == [heap EXCEPT ![old] = Freed]
  <2>1. PushFront(u, r, list, cache_map, mem)
    BY <1>5 DEF PutReplace
  <2>2. old \in Node /\ old \in ToSet(cacheList)
    BY <1>1, <1>5 DEF PutReplace, Valid, IsLive, Owns
  <2>3. /\ list \in Seq(Node)
        /\ Len(list) = Len(cacheList) - 1
        /\ Distinct(list)
        /\ ToSet(list) = ToSet(cacheList) \ {old}
    BY <1>1, <2>2, UnlinkFacts, Zenon
  <2>4. mem \in [Node -> Response \cup {Freed}]
        /\ \A m \in Node : mem[m] = IF m = old THEN Freed ELSE heap[m]
    BY <1>1
  <2>5. Owns(list, mem)
    BY <1>1, <2>3, <2>4 DEF Owns
  <2>6. Len(list) <= Capacity
    BY <1>2, <2>3
  <2> HIDE DEF old, list, mem
  <2> QED
    BY <1>1, <2>1, <2>3, <2>4, <2>5, <2>6, PushFrontStructure, Zenon
<1>6. CASE PutInvalid(u)
  BY <1>6 DEF PutInvalid, Structure, CacheTypeOK, ListOwnsNodes, SizeBound, IsLive
<1> QED
  BY <1>3, <1>4, <1>5, <1>6 DEF Put

LEMMA StructureInit == CacheInit => Structure
<1> SUFFICES ASSUME CacheInit
             PROVE  Structure
  OBVIOUS
<1>1. cacheList = <<>> /\ cacheList \in Seq(Node) /\ Len(cacheList) = 0
  BY EmptySeq DEF CacheInit
<1>2. DOMAIN cacheList = {} /\ ToSet(cacheList) = {}
  BY <1>1 DEF ToSet
<1>3. CacheTypeOK
  BY <1>1 DEF CacheInit, CacheTypeOK
<1>4. ListOwnsNodes
  BY <1>2 DEF CacheInit, ListOwnsNodes, IsLive
<1>5. SizeBound
  BY <1>1, CacheAssumption DEF SizeBound
<1> QED
  BY <1>3, <1>4, <1>5 DEF Structure

LEMMA StructureStep ==
  ASSUME Structure, [CacheNext]_cacheVars
  PROVE  Structure'
<1>1. ASSUME NEW u \in Url, GetInvalid(u)
      PROVE  Structure'
  BY <1>1 DEF GetInvalid, Structure, CacheTypeOK, ListOwnsNodes, SizeBound, IsLive
<1>2. ASSUME NEW u \in Url, NEW r \in Reply[u]
      PROVE  r \in Response
  BY CacheAssumption
<1>3. CASE UNCHANGED cacheVars
  BY <1>3 DEF cacheVars, Structure, CacheTypeOK, ListOwnsNodes, SizeBound, IsLive
<1> QED
  BY <1>1, <1>2, <1>3, GetHitStructure, PutStructure DEF CacheNext, Get

(* The list, the allocator and the size bound, for every sequence of get()  *)
(* and put(): no response is leaked, none is linked twice, and the list     *)
(* never grows past Capacity + 1, even once the map's iterators dangle.     *)
THEOREM StructureAlways == CacheSpec => [](CacheTypeOK /\ ListOwnsNodes /\ SizeBound)
BY StructureInit, StructureStep, PTL DEF CacheSpec, Structure

-----------------------------------------------------------------------------
(* The map half of the cache: when every entry points at its own live node *)
(* no iterator is followed that does not.                                  *)

Matched == Structure /\ MapMatchesList /\ NeverUndefined

\* map and list agree, leaving the entry of u, about to be set, aside.
MatchedBut(u, list, map) ==
  /\ \A v \in Url \ {u} : map[v] # NoNode => map[v] \in ToSet(list)
  /\ \A v, w \in Url \ {u} : map[v] # NoNode /\ map[v] = map[w] => v = w
  /\ \A n \in ToSet(list) : \E v \in Url \ {u} : map[v] = n

LEMMA PushFrontMatches ==
  ASSUME NEW u \in Url, NEW r \in Response,
         NEW list \in Seq(Node),
         NEW map \in [Url -> Node \cup {NoNode}],
         NEW mem \in [Node -> Response \cup {Freed}],
         Owns(list, mem), MatchedBut(u, list, map), NeverUndefined,
         PushFront(u, r, list, map, mem)
  PROVE  MapMatchesList' /\ NeverUndefined'
<1>1. PICK n \in Node :
        /\ mem[n] = Freed
        /\ cacheList' = Cons(n, list)
        /\ cache_map' = [map EXCEPT ![u] = n]
        /\ heap' = [mem EXCEPT ![n] = r]
        /\ undefined' = undefined
  BY DEF PushFront
<1>2. n \notin ToSet(list)
  BY <1>1 DEF Owns
<1>3. ToSet(cacheList') = ToSet(list) \cup {n}
  <2>1. /\ Cons(n, list) \in Seq(Node)
        /\ Len(Cons(n, list)) = Len(list) + 1
        /\ ToSet(Cons(n, list)) = ToSet(list) \cup {n}
        /\ Distinct(list) /\ n \notin ToSet(list) => Distinct(Cons(n, list))
    BY ConsFacts, Zenon
  <2> QED
    BY <1>1, <2>1
<1>4. /\ cache_map'[u] = n /\ n # NoNode
      /\ \A v \in Url \ {u} : cache_map'[v] = map[v] /\ map[v] # n
  BY <1>1, <1>2, CacheAssumption DEF MatchedBut
<1>5. /\ heap'[n] # Freed
      /\ \A m \in ToSet(list) : m \in Node => heap'[m] # Freed
  BY <1>1, CacheAssumption DEF Owns
<1>6. \A v \in Url : Checkexist(v)' => Valid(v)'
  BY <1>4, <1>5 DEF Checkexist, Valid, IsLive, MatchedBut
<1>7. \A v, w \in Url : Checkexist(v)' /\ cache_map'[v] = cache_map'[w] => v = w
  BY <1>4 DEF Checkexist, MatchedBut
<1>8. \A m \in ToSet(cacheList') : \E v \in Url : cache_map'[v] = m
  BY <1>3, <1>4 DEF MatchedBut
<1> QED
  BY <1>1, <1>6, <1>7, <1>8 DEF MapMatchesList, NeverUndefined

LEMMA GetMatches ==
  ASSUME Matched, NEW u \in Url, Checkexist(u), Get(u)
  PROVE  Matched'
<1>1. GetHit(u)
  BY DEF Get, GetInvalid, Matched, MapMatchesList
<1>2. Structure'
  BY <1>1, GetHitStructure DEF Matched
<1>3. ToSet(cacheList') = ToSet(cacheList)
  <2>1. \A n \in Node : n \in ToSet(cacheList') <=> n \in ToSet(cacheList)
    BY <1>1, <1>2 DEF Matched, Structure, ListOwnsNodes, GetHit, IsLive
  <2>2. ToSet(cacheList) \subseteq Node /\ ToSet(cacheList') \subseteq Node
    BY <1>2, LenProperties DEF Matched, Structure, CacheTypeOK, ToSet
  <2> QED
    BY <2>1, <2>2
<1>4. MapMatchesList' /\ NeverUndefined'
  BY <1>1, <1>3
     DEF GetHit, Matched, MapMatchesList, NeverUndefined, Checkexist, Valid, IsLive
<1> QED
  BY <1>2, <1>4 DEF Matched

LEMMA PutMatches ==
  ASSUME Matched, NEW u \in Url, NEW r \in Response, Put(u, r), ~PutEvict(u, r)
  PROVE  Matched'
<1>1. Structure'
  BY PutStructure DEF Matched
<1>2. /\ cacheList \in Seq(Node) /\ Distinct(cacheList)
      /\ Owns(cacheList, heap) /\ NeverUndefined
      /\ cache_map \in [Url -> Node \cup {NoNode}]
      /\ heap \in [Node -> Response \cup {Freed}]
  BY StructureOwns DEF Matched, Structure, CacheTypeOK, Owns
<1>3. /\ \A v \in Url : Checkexist(v) => cache_map[v] \in ToSet(cacheList)
      /\ \A v, w \in Url : Checkexist(v) /\ cache_map[v] = cache_map[w] => v = w
      /\ \A n \in ToSet(cacheList) : \E v \in Url : cache_map[v] = n
  BY DEF Matched, Structure, ListOwnsNodes, MapMatchesList, Valid, IsLive
<1>4. ~PutInvalid(u)
  BY DEF PutInvalid, Matched, MapMatchesList
<1>5. \A n \in ToSet(cacheList) : n # NoNode
  BY <1>2, LenProperties, CacheAssumption DEF ToSet
<1>6. CASE PutNew(u, r)
  <2>1. PushFront(u, r, cacheList, cache_map, heap)
    BY <1>6 DEF PutNew
  <2>2. MatchedBut(u, cacheList, cache_map)
    BY <1>3, <1>5, <1>6 DEF PutNew, MatchedBut, Checkexist
  <2>3. MapMatchesList' /\ NeverUndefined'
    BY <1>2, <2>1, <2>2, PushFrontMatches, Zenon
  <2> QED
    BY <1>1, <2>3 DEF Matched
<1>7. CASE PutReplace(u, r)
  <2> DEFINE old  == cache_map[u]
             list == Unlink(old)
             mem  == [heap EXCEPT ![old] = Freed]
  <2>1. PushFront(u, r, list, cache_map, mem)
    BY <1>7 DEF PutReplace
  <2>2. old \in Node /\ old \in ToSet(cacheList) /\ old # NoNode
    BY <1>2, <1>5, <1>7 DEF PutReplace, Valid, IsLive, Owns
  <2>3. /\ list \in Seq(Node)
        /\ Distinct(list)
        /\ ToSet(list) = ToSet(cacheList) \ {old}
    BY <1>2, <2>2, UnlinkFacts, Zenon
  <2>4. mem \in [Node -> Response \cup {Freed}]
        /\ \A m \in Node : mem[m] = IF m = old THEN Freed ELSE heap[m]
    BY <1>2
  <2>5. Owns(list, mem)
    BY <1>2, <2>3, <2>4 DEF Owns
  <2>6. MatchedBut(u, list, cache_map)
    BY <1>3, <2>2, <2>3 DEF MatchedBut, Checkexist
  <2> HIDE DEF old, list, mem
  <2>7. MapMatchesList' /\ NeverUndefined'
    BY <1>2, <2>1, <2>3, <2>4, <2>5, <2>6, PushFrontMatches, Zenon
  <2> QED
    BY <1>1, <2>7 DEF Matched
<1> QED
  BY <1>4, <1>6, <1>7 DEF Put

LEMMA MatchedInit == CacheInit => Matched
<1> SUFFICES ASSUME CacheInit
             PROVE  Matched
  OBVIOUS
<1>1. Structure
  BY StructureInit
<1>2. MapMatchesList
  <2>1. ToSet(cacheList) = {}
    BY DEF CacheInit, ToSet
  <2> QED
    BY <2>1 DEF CacheInit, MapMatchesList, Checkexist
<1> QED
  BY <1>1, <1>2 DEF Matched, CacheInit, NeverUndefined

LEMMA MatchedStutter ==
  ASSUME Matched, UNCHANGED cacheVars
  PROVE  Matched'
BY DEF cacheVars, Matched, Structure, CacheTypeOK, ListOwnsNodes, SizeBound,
       MapMatchesList, NeverUndefined, Checkexist, Valid, IsLive

-----------------------------------------------------------------------------
(* With no more URLs than the list has room for nothing is evicted, and the *)
(* map never dangles: the entries are counted by the length of the list.    *)

Counted == Matched /\ Len(cacheList) = Cardinality(Entries)

LEMMA NothingEvicted ==
  ASSUME Counted, IsFiniteSet(Url), Cardinality(Url) <= Capacity + 1,
         NEW u \in Url, NEW r
  PROVE  ~PutEvict(u, r)
<1> SUFFICES ASSUME PutEvict(u, r)
             PROVE  FALSE
  OBVIOUS
<1>1. Len(cacheList) \in Nat /\ Capacity \in Nat
  BY LenProperties, CacheAssumption DEF Counted, Matched, Structure, CacheTypeOK
<1>2. Cardinality(Entries) = Capacity + 1
  BY <1>1 DEF PutEvict, Counted, Matched, Structure, SizeBound
<1>3. Entries \subseteq Url /\ u \notin Entries
  BY DEF Entries, PutEvict
<1>4. Cardinality(Url) # Cardinality(Entries)
      /\ Cardinality(Entries) <= Cardinality(Url)
  <2>1. Entries # Url
    BY <1>3
  <2>2. Entries \in SUBSET Url
    BY <1>3
  <2>3. /\ Cardinality(Entries) <= Cardinality(Url)
        /\ Cardinality(Url) = Cardinality(Entries) => Url = Entries
    BY <2>2, FS_Subset
  <2> QED
    BY <2>1, <2>3
<1>5. Cardinality(Url) \in Nat
  BY FS_CardinalityType
<1> QED
  BY <1>1, <1>2, <1>4, <1>5

LEMMA CountKept ==
  ASSUME Counted, IsFiniteSet(Entries), NEW u \in Url, NEW r \in Response,
         \/ GetHit(u)
         \/ PutNew(u, r)
         \/ PutReplace(u, r)
  PROVE  Len(cacheList') = Cardinality(Entries')
<1>0. /\ cacheList \in Seq(Node) /\ Distinct(cacheList)
      /\ Owns(cacheList, heap)
      /\ cache_map \in [Url -> Node \cup {NoNode}]
      /\ Len(cacheList) \in Nat
  BY StructureOwns, LenProperties
     DEF Counted, Matched, Structure, CacheTypeOK, Owns
<1>1. ASSUME NEW n \in ToSet(cacheList)
      PROVE  Unlink(n) \in Seq(Node) /\ Len(Unlink(n)) = Len(cacheList) - 1
  BY <1>0, UnlinkFacts, Zenon
<1>2. ASSUME NEW n \in Node, NEW list \in Seq(Node)
      PROVE  Len(Cons(n, list)) = Len(list) + 1
  BY ConsFacts, Zenon
<1>3. CASE GetHit(u)
  <2>1. cache_map[u] \in Node /\ cache_map[u] \in ToSet(cacheList)
    BY <1>0, <1>3 DEF GetHit, Valid, IsLive, Owns
  <2>2. Len(cacheList') = Len(cacheList)
    BY <1>0, <1>1, <1>2, <1>3, <2>1 DEF GetHit
  <2>3. Entries' = Entries
    BY <1>3 DEF GetHit, Entries, Checkexist
  <2> QED
    BY <2>2, <2>3 DEF Counted
<1>4. CASE PutNew(u, r)
  <2>1. PICK n \in Node : /\ cacheList' = Cons(n, cacheList)
                          /\ cache_map' = [cache_map EXCEPT ![u] = n]
    BY <1>4 DEF PutNew, PushFront
  <2>2. Len(cacheList') = Len(cacheList) + 1
    BY <1>0, <1>2, <2>1
  <2>3. u \notin Entries /\ Entries' = Entries \cup {u}
    BY <1>0, <1>4, <2>1, CacheAssumption DEF PutNew, Entries, Checkexist
  <2>4. Cardinality(Entries \cup {u}) = Cardinality(Entries) + 1
    BY <2>3, FS_AddElement
  <2> QED
    BY <2>2, <2>3, <2>4 DEF Counted
<1>5. CASE PutReplace(u, r)
  <2>1. PICK n \in Node : /\ cacheList' = Cons(n, Unlink(cache_map[u]))
                          /\ cache_map' = [cache_map EXCEPT ![u] = n]
    BY <1>5 DEF PutReplace, PushFront
  <2>2. cache_map[u] \in Node /\ cache_map[u] \in ToSet(cacheList)
    BY <1>0, <1>5 DEF PutReplace, Valid, IsLive, Owns
  <2>3. Len(cacheList') = Len(cacheList)
    BY <1>0, <1>1, <1>2, <2>1, <2>2
  <2>4. Entries' = Entries
    BY <1>0, <2>1, <2>2, CacheAssumption DEF Entries, Checkexist
  <2> QED
    BY <2>3, <2>4 DEF Counted
<1> QED
  BY <1>3, <1>4, <1>5

LEMMA CountedInit == CacheInit => Counted
<1> SUFFICES ASSUME CacheInit
             PROVE  Counted
  OBVIOUS
<1>1. Entries = {} /\ Len(cacheList) = 0
  BY EmptySeq DEF CacheInit, Entries, Checkexist
<1>2. Cardinality({}) = 0
  BY FS_EmptySet
<1> QED
  BY <1>1, <1>2, MatchedInit DEF Counted

LEMMA CountedStep ==
  ASSUME IsFiniteSet(Url), Cardinality(Url) <= Capacity + 1,
         Counted, [CacheNext]_cacheVars
  PROVE  Counted'
<1>0. IsFiniteSet(Entries)
  BY FS_Subset DEF Entries
<1>1. ASSUME NEW u \in Url, Checkexist(u), Get(u)
      PROVE  Counted'
  <2>1. GetHit(u)
    BY <1>1 DEF Get, GetInvalid, Counted, Matched, MapMatchesList
  <2>2. PICK r \in Response : TRUE
    BY <2>1 DEF GetHit, Valid, IsLive, Counted, Matched, Structure, CacheTypeOK
  <2> QED
    BY <1>0, <1>1, <2>1, <2>2, GetMatches, CountKept DEF Counted
<1>2. ASSUME NEW u \in Url, NEW r \in Reply[u], Put(u, r)
      PROVE  Counted'
  <2>1. r \in Response
    BY CacheAssumption
  <2>2. ~PutEvict(u, r)
    BY NothingEvicted
  <2>3. Matched'
    BY <1>2, <2>1, <2>2, PutMatches DEF Counted
  <2>4. PutNew(u, r) \/ PutReplace(u, r)
    BY <1>2, <2>2 DEF Put, PutInvalid, Counted, Matched, MapMatchesList
  <2> QED
    BY <1>0, <2>1, <2>3, <2>4, CountKept DEF Counted
<1>3. CASE UNCHANGED cacheVars
  BY <1>3, MatchedStutter DEF cacheVars, Counted, Entries, Checkexist
<1> QED
  BY <1>1, <1>2, <1>3 DEF CacheNext

(* As long as the URLs ever requested all fit (Capacity + 1 of them), no    *)
(* iterator of the map dangles and get() and put() never follow one: the    *)
(* promise of cache.h holds.                                                *)
THEOREM SafeWhenUrlsFit ==
  ASSUME IsFiniteSet(Url), Cardinality(Url) <= Capacity + 1
  PROVE  CacheSpec => [](MapMatchesList /\ NeverUndefined)
BY CountedInit, CountedStep, PTL DEF CacheSpec, Counted, Matched

-----------------------------------------------------------------------------
(* The general case: puts evict, and what they evict has a header "Url" or  *)
(* not.  A response without one leaves its entry behind, so the map has one *)
(* key more than the list can hold, and never fewer again: counting the     *)
(* keys tells whether that has happened.                                    *)

\* No origin sends another resource's URL in that header; it may send none.
OwnOrUnnamed == \A u \in Url : \A r \in Reply[u] : r.url \in {u, NoUrl}

\* What the map has under u was put under u.
Owned == \A u \in Url : Checkexist(u) => Cached(u) \in Reply[u]

FullInv ==
  /\ Structure
  /\ IsFiniteSet(Entries)
  /\ KeysFit => MapMatchesList /\ Len(cacheList) = Cardinality(Entries) /\ Owned

LEMMA EvictMatches ==
  ASSUME Matched, NEW u \in Url, NEW r \in Response, PutEvict(u, r),
         NEW v \in Url, cache_map[v] = Last(cacheList), heap[Last(cacheList)].url = v
  PROVE  Matched'
<1> DEFINE victim == Last(cacheList)
           list   == Front(cacheList)
           map    == EraseKeyOf(victim)
           mem    == [heap EXCEPT ![victim] = Freed]
<1>1. Structure'
  BY PutStructure DEF Matched, Put
<1>2. /\ cacheList \in Seq(Node) /\ Distinct(cacheList)
      /\ Owns(cacheList, heap) /\ NeverUndefined
      /\ cache_map \in [Url -> Node \cup {NoNode}]
      /\ heap \in [Node -> Response \cup {Freed}]
  BY StructureOwns DEF Matched, Structure, CacheTypeOK, Owns
<1>3. /\ \A k \in Url : Checkexist(k) => cache_map[k] \in ToSet(cacheList)
      /\ \A k, w \in Url : Checkexist(k) /\ cache_map[k] = cache_map[w] => k = w
      /\ \A n \in ToSet(cacheList) : \E k \in Url : cache_map[k] = n
  BY DEF Matched, Structure, ListOwnsNodes, MapMatchesList, Valid, IsLive
<1>4. Len(cacheList) > 0
  <2>1. Len(cacheList) \in Nat /\ Capacity \in Nat
    BY <1>2, LenProperties, CacheAssumption
  <2> QED
    BY <2>1 DEF PutEvict
<1>5. /\ list \in Seq(Node)
      /\ Distinct(list)
      /\ ToSet(list) = ToSet(cacheList) \ {victim}
      /\ victim \in ToSet(cacheList)
  BY <1>2, <1>4, FrontFacts, Zenon
<1>6. PushFront(u, r, list, map, mem)
  BY DEF PutEvict
<1>7. \A n \in ToSet(cacheList) : n \in Node /\ n # NoNode
  BY <1>2, LenProperties, CacheAssumption DEF ToSet
<1>8. mem \in [Node -> Response \cup {Freed}]
      /\ \A m \in Node : mem[m] = IF m = victim THEN Freed ELSE heap[m]
  BY <1>2
<1>9. Owns(list, mem)
  BY <1>2, <1>5, <1>8 DEF Owns
<1>10. cache_map[v] = victim
  OBVIOUS
<1>11. heap[victim].url = v
  OBVIOUS
<1>12. map = [w \in Url |-> IF w = v THEN NoNode ELSE cache_map[w]]
  BY <1>11 DEF EraseKeyOf
<1>13. map \in [Url -> Node \cup {NoNode}]
  BY <1>2, <1>12
<1> HIDE DEF victim, list, map, mem
<1>14. cache_map[u] = NoNode
  BY DEF PutEvict, Checkexist
<1>15. MatchedBut(u, list, map)
  <2>1. ASSUME NEW w \in Url, map[w] # NoNode
        PROVE  map[w] = cache_map[w] /\ w # v
    BY <1>12, <2>1
  <2>2. ASSUME NEW w \in Url, map[w] # NoNode
        PROVE  map[w] \in ToSet(list)
    <3>1. cache_map[w] \in ToSet(cacheList) /\ cache_map[w] # victim
      BY <1>3, <1>10, <2>1, <2>2 DEF Checkexist
    <3> QED
      BY <1>5, <2>1, <2>2, <3>1
  <2>3. ASSUME NEW w \in Url, NEW x \in Url, map[w] # NoNode, map[w] = map[x]
        PROVE  w = x
    BY <1>3, <2>1, <2>3 DEF Checkexist
  <2>4. ASSUME NEW n \in ToSet(list)
        PROVE  \E w \in Url \ {u} : map[w] = n
    <3>1. n \in ToSet(cacheList) /\ n # victim
      BY <1>5
    <3>2. PICK w \in Url : cache_map[w] = n
      BY <1>3, <3>1
    <3>3. w # v /\ w # u
      BY <1>7, <1>10, <1>14, <3>1, <3>2
    <3> QED
      BY <1>12, <3>2, <3>3
  <2> QED
    BY <2>2, <2>3, <2>4 DEF MatchedBut
<1>16. MapMatchesList' /\ NeverUndefined'
  BY <1>2, <1>5, <1>6, <1>8, <1>9, <1>13, <1>15, PushFrontMatches, Zenon
<1> QED
  BY <1>1, <1>16 DEF Matched

LEMMA PutOwns ==
  ASSUME Matched, Owned, NEW u \in Url, NEW r \in Reply[u], Put(u, r),
         Matched'
  PROVE  Owned'
<1> SUFFICES ASSUME NEW v \in Url, Checkexist(v)'
             PROVE  Cached(v)' \in Reply[v]
  BY DEF Owned
<1>1. /\ cache_map \in [Url -> Node \cup {NoNode}]
      /\ heap \in [Node -> Response \cup {Freed}]
  BY DEF Matched, Structure, CacheTypeOK
<1>2. ~PutInvalid(u)
  BY DEF PutInvalid, Matched, MapMatchesList
<1>3. ASSUME NEW list, NEW map, NEW mem, NEW n \in Node,
             map \in [Url -> Node \cup {NoNode}],
             mem \in [Node -> Response \cup {Freed}],
             cache_map' = [map EXCEPT ![u] = n],
             heap' = [mem EXCEPT ![n] = r],
             (v # u /\ map[v] # NoNode) => map[v] = cache_map[v],
             map[v] \in Node /\ mem[map[v]] # Freed => mem[map[v]] = heap[map[v]]
      PROVE  Cached(v)' \in Reply[v]
  <2>1. cache_map'[u] = n /\ heap'[n] = r
    BY <1>3
  <2>2. CASE v = u
    BY <2>1, <2>2 DEF Cached
  <2>3. CASE v # u
    <3>1. cache_map'[v] = map[v] /\ map[v] # NoNode /\ map[v] = cache_map[v]
      BY <1>3, <2>3 DEF Checkexist
    <3>2. cache_map'[v] # n
      BY <2>1, <2>3 DEF Matched, MapMatchesList
    <3>3. map[v] \in Node /\ heap'[map[v]] # Freed
      BY <3>1 DEF Matched, MapMatchesList, Valid, IsLive
    <3>4. heap'[map[v]] = heap[map[v]]
      BY <1>3, <3>1, <3>2, <3>3
    <3>5. Cached(v) \in Reply[v]
      BY <3>1 DEF Owned, Checkexist
    <3> QED
      BY <3>1, <3>4, <3>5 DEF Cached
  <2> QED
    BY <2>2, <2>3
<1>4. CASE PutNew(u, r)
  BY <1>1, <1>3, <1>4 DEF PutNew, PushFront
<1>5. CASE PutEvict(u, r)
  <2> DEFINE map == EraseKeyOf(Last(cacheList))
             mem == [heap EXCEPT ![Last(cacheList)] = Freed]
  <2>1. map \in [Url -> Node \cup {NoNode}]
        /\ \A w \in Url : map[w] # NoNode => map[w] = cache_map[w]
    BY <1>1 DEF EraseKeyOf
  <2>2. mem \in [Node -> Response \cup {Freed}]
        /\ \A m \in Node : mem[m] # Freed => mem[m] = heap[m]
    BY <1>1
  <2>3. PICK n \in Node : /\ cache_map' = [map EXCEPT ![u] = n]
                          /\ heap' = [mem EXCEPT ![n] = r]
    BY <1>5 DEF PutEvict, PushFront
  <2> HIDE DEF map, mem
  <2> QED
    BY <1>3, <2>1, <2>2, <2>3
<1>6. CASE PutReplace(u, r)
  <2> DEFINE mem == [heap EXCEPT ![cache_map[u]] = Freed]
  <2>1. mem \in [Node -> Response \cup {Freed}]
        /\ \A m \in Node : mem[m] # Freed => mem[m] = heap[m]
    BY <1>1
  <2>2. PICK n \in Node : /\ cache_map' = [cache_map EXCEPT ![u] = n]
                          /\ heap' = [mem EXCEPT ![n] = r]
    BY <1>6 DEF PutReplace, PushFront
  <2> HIDE DEF mem
  <2> QED
    BY <1>1, <1>3, <2>1, <2>2
<1> QED
  BY <1>2, <1>4, <1>5, <1>6 DEF Put

-----------------------------------------------------------------------------
\* While map and list agree there are no more keys than nodes.
LEMMA MatchedFits ==
  ASSUME Structure, IsFiniteSet(Entries), MapMatchesList
  PROVE  KeysFit
<1> DEFINE T == 1 .. Len(cacheList)
           f == [u \in Entries |-> CHOOSE i \in T : cacheList[i] = cache_map[u]]
<1>1. /\ DOMAIN cacheList = T /\ Len(cacheList) \in Nat /\ Capacity \in Nat
      /\ Len(cacheList) <= Capacity + 1
  BY LenProperties, CacheAssumption DEF Structure, CacheTypeOK, SizeBound
<1>2. ASSUME NEW u \in Entries
      PROVE  f[u] \in T /\ cacheList[f[u]] = cache_map[u]
  <2>1. cache_map[u] \in ToSet(cacheList)
    BY DEF Entries, Structure, ListOwnsNodes, MapMatchesList, Valid, IsLive
  <2>2. \E i \in T : cacheList[i] = cache_map[u]
    BY <1>1, <2>1 DEF ToSet
  <2> QED
    BY <2>2
<1>3. IsFiniteSet(T) /\ Cardinality(T) = Len(cacheList)
  <2> DEFINE m == Len(cacheList)
  <2>1. 1 \in Int /\ m \in Int /\ (IF 1 > m THEN 0 ELSE m - 1 + 1) = m
    BY <1>1
  <2> HIDE DEF m
  <2>2. IsFiniteSet(1 .. m) /\ Cardinality(1 .. m) = IF 1 > m THEN 0 ELSE m - 1 + 1
    BY <2>1, FS_Interval
  <2> QED
    BY <2>1, <2>2 DEF m
<1>4. f \in [Entries -> T]
  BY <1>2
<1> HIDE DEF T, f
<1>5. ~(Cardinality(T) < Cardinality(Entries))
  <2> SUFFICES ASSUME Cardinality(T) < Cardinality(Entries)
               PROVE  FALSE
    OBVIOUS
  <2>1. \E x, y \in Entries : x # y /\ f[x] = f[y]
    BY <1>3, <1>4, FS_PigeonHole
  <2> QED
    BY <1>2, <2>1 DEF Entries, MapMatchesList
<1>6. Cardinality(Entries) \in Nat
  BY FS_CardinalityType
<1> QED
  BY <1>1, <1>3, <1>5, <1>6 DEF KeysFit

\* An eviction takes at most one key away, and put() adds one.
LEMMA EvictKeys ==
  ASSUME Structure, IsFiniteSet(Entries), NEW u \in Url, NEW r, PutEvict(u, r)
  PROVE  /\ IsFiniteSet(Entries')
         /\ Cardinality(Entries') = IF heap[Last(cacheList)].url \in Entries
                                    THEN Cardinality(Entries)
                                    ELSE Cardinality(Entries) + 1
<1> DEFINE k == heap[Last(cacheList)].url
<1>1. PICK n \in Node : cache_map' = [EraseKeyOf(Last(cacheList)) EXCEPT ![u] = n]
  BY DEF PutEvict, PushFront
<1>2. u \notin Entries /\ n # NoNode
  BY CacheAssumption DEF PutEvict, Entries
<1>3. \A v \in Url : cache_map'[v] = IF v = u THEN n
                                     ELSE IF v = k THEN NoNode ELSE cache_map[v]
  BY <1>1 DEF EraseKeyOf
<1> HIDE DEF k
<1>4. Entries' = (Entries \ {k}) \cup {u}
  BY <1>2, <1>3 DEF Entries, Checkexist
<1>5. /\ IsFiniteSet(Entries \ {k})
      /\ Cardinality(Entries \ {k}) = IF k \in Entries THEN Cardinality(Entries) - 1
                                                       ELSE Cardinality(Entries)
  BY FS_RemoveElement
<1>6. /\ IsFiniteSet(Entries')
      /\ Cardinality(Entries') = Cardinality(Entries \ {k}) + 1
  BY <1>2, <1>4, <1>5, FS_AddElement
<1>7. Cardinality(Entries) \in Nat
  BY FS_CardinalityType
<1> QED
  BY <1>5, <1>6, <1>7 DEF k

\* Once there are too many keys there always are.
LEMMA KeysKept ==
  ASSUME Structure, IsFiniteSet(Entries), NEW u \in Url, NEW r,
         Get(u) \/ Put(u, r)
  PROVE  IsFiniteSet(Entries') /\ (KeysFit' => KeysFit)
<1>0. Cardinality(Entries) \in Nat /\ Capacity \in Nat
      /\ cache_map \in [Url -> Node \cup {NoNode}]
  BY FS_CardinalityType, CacheAssumption DEF Structure, CacheTypeOK
<1>1. CASE PutEvict(u, r)
  <2>1. Cardinality(Entries) <= Cardinality(Entries')
    BY <1>0, <1>1, EvictKeys
  <2>2. IsFiniteSet(Entries')
    BY <1>1, EvictKeys
  <2>3. Cardinality(Entries') \in Nat
    BY <2>2, FS_CardinalityType
  <2> QED
    BY <1>0, <2>1, <2>2, <2>3 DEF KeysFit
<1>2. CASE PutNew(u, r) \/ PutReplace(u, r)
  <2>1. PICK n \in Node : cache_map' = [cache_map EXCEPT ![u] = n]
    BY <1>2 DEF PutNew, PutReplace, PushFront
  <2>2. Entries' = Entries \cup {u}
    BY <1>0, <2>1, CacheAssumption DEF Entries, Checkexist
  <2>3. IsFiniteSet(Entries') /\ Cardinality(Entries) <= Cardinality(Entries')
    <3>1. /\ IsFiniteSet(Entries \cup {u})
          /\ Cardinality(Entries \cup {u}) = IF u \in Entries THEN Cardinality(Entries)
                                             ELSE Cardinality(Entries) + 1
      BY FS_AddElement
    <3> QED
      BY <1>0, <2>2, <3>1
  <2>4. Cardinality(Entries') \in Nat
    BY <2>3, FS_CardinalityType
  <2> QED
    BY <1>0, <2>3, <2>4 DEF KeysFit
<1>3. CASE GetHit(u) \/ GetInvalid(u) \/ PutInvalid(u)
  <2>1. cache_map' = cache_map
    BY <1>3 DEF GetHit, GetInvalid, PutInvalid
  <2> QED
    BY <2>1 DEF Entries, Checkexist, KeysFit
<1> QED
  BY <1>1, <1>2, <1>3 DEF Get, Put

LEMMA FullStays ==
  ASSUME FullInv, UNCHANGED <<cacheList, cache_map, heap>>, undefined' \in BOOLEAN
  PROVE  FullInv' /\ (KeysFit' => KeysFit)
BY DEF FullInv, Structure, CacheTypeOK, ListOwnsNodes, SizeBound, KeysFit,
       MapMatchesList, Owned, Entries, Checkexist, Valid, IsLive, Cached

LEMMA FullGet ==
  ASSUME FullInv, ~undefined, NEW u \in Url, Get(u)
  PROVE  /\ FullInv' /\ (KeysFit' => KeysFit)
         /\ Checkexist(u) /\ KeysFit => ~undefined'
<1>1. CASE GetInvalid(u)
  <2>1. FullInv' /\ (KeysFit' => KeysFit)
    BY <1>1, FullStays DEF GetInvalid
  <2> QED
    BY <1>1, <2>1 DEF GetInvalid, FullInv, MapMatchesList
<1>2. CASE GetHit(u)
  <2>1. Structure'
    BY <1>2, GetHitStructure DEF FullInv
  <2>2. UNCHANGED <<cache_map, heap, undefined>>
    BY <1>2 DEF GetHit
  <2>3. Entries' = Entries /\ (KeysFit' <=> KeysFit)
    BY <2>2 DEF Entries, Checkexist, KeysFit
  <2>4. ASSUME KeysFit
        PROVE  MapMatchesList' /\ Len(cacheList') = Cardinality(Entries') /\ Owned'
    <3>1. Matched /\ Counted /\ Owned
      BY <2>4 DEF FullInv, Matched, Counted, NeverUndefined
    <3>2. Checkexist(u)
      BY <1>2, CacheAssumption DEF GetHit, Valid, IsLive, Checkexist
    <3>3. MapMatchesList'
      BY <1>2, <3>1, <3>2, GetMatches DEF Get, Matched
    <3>4. PICK r \in Response : TRUE
      BY <1>2 DEF GetHit, Valid, IsLive, FullInv, Structure, CacheTypeOK
    <3>5. Len(cacheList') = Cardinality(Entries')
      BY <1>2, <3>1, <3>4, CountKept DEF FullInv
    <3> QED
      BY <2>2, <3>1, <3>3, <3>5 DEF Owned, Checkexist, Cached
  <2> QED
    BY <2>1, <2>2, <2>3, <2>4 DEF FullInv
<1> QED
  BY <1>1, <1>2 DEF Get

LEMMA FullPut ==
  ASSUME OwnOrUnnamed, FullInv, ~undefined, NEW u \in Url, NEW r \in Response,
         KeysFit => r \in Reply[u], Put(u, r)
  PROVE  /\ FullInv' /\ (KeysFit' => KeysFit)
         /\ KeysFit' => ~undefined'
<1>1. Structure'
  BY PutStructure DEF FullInv
<1>2. IsFiniteSet(Entries') /\ (KeysFit' => KeysFit)
  BY KeysKept DEF FullInv
<1>3. ASSUME KeysFit'
      PROVE  /\ MapMatchesList' /\ Len(cacheList') = Cardinality(Entries') /\ Owned'
             /\ ~undefined'
  <2>1. Matched /\ Counted /\ Owned /\ r \in Reply[u]
    BY <1>2, <1>3 DEF FullInv, Matched, Counted, NeverUndefined
  <2>2. CASE ~PutEvict(u, r)
    <3>1. Matched'
      BY <2>1, <2>2, PutMatches
    <3>2. PutNew(u, r) \/ PutReplace(u, r)
      BY <2>1, <2>2 DEF Put, PutInvalid, Matched, MapMatchesList
    <3>3. Len(cacheList') = Cardinality(Entries')
      BY <2>1, <3>2, CountKept DEF FullInv
    <3>4. Owned'
      BY <2>1, <3>1, PutOwns
    <3> QED
      BY <3>1, <3>3, <3>4 DEF Matched, NeverUndefined
  <2>3. CASE PutEvict(u, r)
    <3> DEFINE victim == Last(cacheList)
    <3>1. /\ cacheList \in Seq(Node) /\ Distinct(cacheList)
          /\ Len(cacheList) \in Nat /\ Capacity \in Nat
          /\ Len(cacheList) = Capacity + 1
      BY <2>1, <2>3, LenProperties, CacheAssumption
         DEF PutEvict, Matched, Structure, CacheTypeOK, ListOwnsNodes, SizeBound, Distinct
    <3>2. /\ Front(cacheList) \in Seq(Node)
          /\ Len(Front(cacheList)) = Len(cacheList) - 1
          /\ victim \in ToSet(cacheList)
      <4>1. Len(cacheList) > 0
        BY <3>1
      <4> QED
        BY <3>1, <4>1, FrontFacts, Zenon
    <3>3. PICK v \in Url : cache_map[v] = victim
      BY <2>1, <3>2 DEF Matched, MapMatchesList
    <3>4. victim \in Node /\ victim # NoNode
      BY <3>1, <3>2, LenProperties, CacheAssumption DEF ToSet
    <3>5. v \in Entries /\ heap[victim] \in Reply[v]
      BY <2>1, <3>3, <3>4 DEF Entries, Checkexist, Owned, Cached
    <3>6. heap[victim].url \in Entries
      <4>1. Cardinality(Entries) = Capacity + 1
        BY <2>1, <3>1 DEF Counted
      <4>2. Cardinality(Entries') <= Capacity + 1
        BY <1>3 DEF KeysFit
      <4> QED
        BY <2>3, <3>1, <4>1, <4>2, EvictKeys DEF FullInv
    <3>7. heap[victim].url = v
      <4>1. heap[victim].url \in {v, NoUrl}
        BY <3>5 DEF OwnOrUnnamed
      <4>2. NoUrl \notin Entries
        BY CacheAssumption DEF Entries
      <4> QED
        BY <3>6, <4>1, <4>2
    <3>8. Matched'
      BY <2>1, <2>3, <3>3, <3>7, EvictMatches
    <3>9. Cardinality(Entries') = Cardinality(Entries)
      BY <2>3, <3>6, EvictKeys DEF FullInv
    <3>10. Len(cacheList') = Len(cacheList)
      <4>1. PICK n \in Node : cacheList' = Cons(n, Front(cacheList))
        BY <2>3 DEF PutEvict, PushFront
      <4>2. Len(cacheList') = Len(Front(cacheList)) + 1
        BY <3>2, <4>1, ConsElements
      <4> QED
        BY <3>1, <3>2, <4>2
    <3>11. Owned'
      BY <2>1, <3>8, PutOwns
    <3> QED
      BY <2>1, <3>8, <3>9, <3>10, <3>11 DEF Counted, Matched, NeverUndefined
  <2> QED
    BY <2>2, <2>3
<1> QED
  BY <1>1, <1>2, <1>3 DEF FullInv

LEMMA FullInit == CacheInit => FullInv
<1> SUFFICES ASSUME CacheInit
             PROVE  FullInv
  OBVIOUS
<1>1. Counted
  BY CountedInit
<1>2. Entries = {}
  BY DEF CacheInit, Entries, Checkexist
<1>3. IsFiniteSet(Entries)
  BY <1>2, FS_EmptySet
<1>4. Owned
  BY DEF CacheInit, Owned, Checkexist
<1> QED
  BY <1>1, <1>3, <1>4 DEF FullInv, Counted, Matched

(* For any number of URLs, evictions, reused addresses and ordinary         *)
(* responses included: map and list agree exactly until the map has         *)
(* Capacity + 2 keys, and until then no invalid iterator is followed.       *)
THEOREM ExactUntilFull ==
  ASSUME OwnOrUnnamed
  PROVE  CacheSpec => [](MatchedUntilFull /\ DefinedUntilFull)
<1> DEFINE Inv == FullInv /\ DefinedUntilFull
<1>1. CacheInit => Inv
  BY FullInit DEF CacheInit, DefinedUntilFull
<1>2. Inv /\ [CacheNext]_cacheVars => Inv'
  <2> SUFFICES ASSUME Inv, [CacheNext]_cacheVars
               PROVE  Inv'
    OBVIOUS
  <2>1. CASE UNCHANGED cacheVars
    <3>1. undefined' \in BOOLEAN
      BY <2>1 DEF cacheVars, FullInv, Structure, CacheTypeOK
    <3>2. FullInv' /\ (KeysFit' => KeysFit)
      BY <2>1, <3>1, FullStays DEF cacheVars
    <3> QED
      BY <2>1, <3>2 DEF cacheVars, DefinedUntilFull
  <2>2. ASSUME ~undefined, NEW u \in Url, Checkexist(u), Get(u)
        PROVE  Inv'
    BY <2>2, FullGet DEF DefinedUntilFull
  <2>3. ASSUME ~undefined, NEW u \in Url, NEW r \in Reply[u], Put(u, r)
        PROVE  Inv'
    <3>1. r \in Response
      BY CacheAssumption
    <3> QED
      BY <2>3, <3>1, FullPut DEF DefinedUntilFull
  <2> QED
    BY <2>1, <2>2, <2>3 DEF CacheNext
<1>3. Inv => MatchedUntilFull /\ DefinedUntilFull
  BY MatchedFits DEF FullInv, MatchedUntilFull
<1> QED
  BY <1>1, <1>2, <1>3, PTL DEF CacheSpec
=============================================================================
