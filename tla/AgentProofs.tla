---------------------------- MODULE AgentProofs ----------------------------
(***************************************************************************)
(* Theorems about Agent, for any number of threads, URLs, responses and    *)
(* addresses and every capacity:                                           *)
(*   whatever the cache does, evictions and what they leave dangling       *)
(*   included: types, the list, and nothing stored that may not be;        *)
(*   as long as the URLs fit: the threads use the cache the way its own    *)
(*   specification asks, and every client gets a response of its URL;      *)
(*   whatever is evicted, until the map has more keys than the list can    *)
(*   hold: every client gets a response of its URL; and with ordinary      *)
(*   responses the cache is used as it asks, evictions or not;             *)
(*   when a no-cache response is sent only after a visit to the origin.    *)
(***************************************************************************)
EXTENDS Agent, CacheProofs

Places == {"idle", "check exist", "check", "hit", "validators", "revalidate",
           "fetch", "forward", "merge", "update", "reread", "store", "reply"}

Storable(r) == Cacheable(r) /\ r.status \in {"200", "304"}

\* What a thread at p holds: something to merge, to store or to send.
HeldAt(p, j) ==
  /\ p \in {"merge", "update", "store", "reply"} => j.resp \in Response
  /\ p \in {"update", "store"} => Storable(j.resp)
  /\ p = "merge" => j.resp.url \in Url

Threads ==
  /\ pc \in [Thread -> Places]
  /\ job \in [Thread -> Jobs]
  /\ \A w \in Thread : HeldAt(pc[w], job[w])

StoredOK == \A n \in Node : heap[n] # Freed => Storable(heap[n])

SentOK == sent \in [Thread -> Seq(Response \cup {BadGateway})]

AgentInv == Structure /\ StoredOK /\ Threads /\ SentOK

-----------------------------------------------------------------------------
(* The cache's half: calls keep the structure and what is stored storable. *)

LEMMA GetKeeps ==
  ASSUME Structure, StoredOK, NEW u \in Url, Get(u)
  PROVE  Structure' /\ StoredOK'
<1>1. CASE GetHit(u)
  <2>1. Structure'
    BY <1>1, GetHitStructure
  <2>2. heap' = heap
    BY <1>1 DEF GetHit
  <2> QED
    BY <2>1, <2>2 DEF StoredOK
<1>2. CASE GetInvalid(u)
  BY <1>2 DEF GetInvalid, Structure, CacheTypeOK, ListOwnsNodes, SizeBound, IsLive,
              StoredOK
<1> QED
  BY <1>1, <1>2 DEF Get

\* put() leaves each address as it was, frees it, or stores the response there.
LEMMA PutHeap ==
  ASSUME Structure, NEW u, NEW r \in Response, Put(u, r)
  PROVE  \A n \in Node : heap'[n] \in {heap[n], Freed, r}
<1>1. heap \in [Node -> Response \cup {Freed}]
  BY DEF Structure, CacheTypeOK
<1>2. ASSUME NEW list, NEW map, NEW mem \in [Node -> Response \cup {Freed}],
             \A n \in Node : mem[n] \in {heap[n], Freed},
             PushFront(u, r, list, map, mem)
      PROVE  \A n \in Node : heap'[n] \in {heap[n], Freed, r}
  BY <1>2 DEF PushFront
<1>3. CASE PutNew(u, r)
  BY <1>1, <1>2, <1>3 DEF PutNew
<1>4. ASSUME NEW old
      PROVE  /\ [heap EXCEPT ![old] = Freed] \in [Node -> Response \cup {Freed}]
             /\ \A n \in Node : [heap EXCEPT ![old] = Freed][n] \in {heap[n], Freed}
  BY <1>1
<1>5. CASE PutEvict(u, r)
  BY <1>2, <1>4, <1>5 DEF PutEvict
<1>6. CASE PutReplace(u, r)
  BY <1>2, <1>4, <1>6 DEF PutReplace
<1>7. CASE PutInvalid(u)
  BY <1>7 DEF PutInvalid
<1> QED
  BY <1>3, <1>5, <1>6, <1>7 DEF Put

LEMMA PutKeeps ==
  ASSUME Structure, StoredOK, NEW u \in Url, NEW r \in Response, Storable(r),
         Put(u, r)
  PROVE  Structure' /\ StoredOK'
<1>1. \A n \in Node : heap'[n] \in {heap[n], Freed, r}
  BY PutHeap
<1> QED
  BY <1>1, PutStructure DEF StoredOK

LEMMA CacheStays ==
  ASSUME Structure, StoredOK, UNCHANGED <<cacheList, cache_map, heap>>,
         undefined' \in BOOLEAN
  PROVE  Structure' /\ StoredOK'
BY DEF Structure, CacheTypeOK, ListOwnsNodes, SizeBound, IsLive, StoredOK

\* What a valid entry holds.
LEMMA CachedFacts ==
  ASSUME Structure, StoredOK, NEW u \in Url, GetHit(u)
  PROVE  Cached(u) \in Response /\ Storable(Cached(u))
BY DEF GetHit, Valid, IsLive, Cached, Structure, CacheTypeOK, StoredOK

-----------------------------------------------------------------------------
(* The threads' half: only one of them moves.                              *)

LEMMA OneMoves ==
  ASSUME Threads, NEW w \in Thread, NEW p \in Places, NEW j \in Jobs,
         pc' = [pc EXCEPT ![w] = p],
         job' = [job EXCEPT ![w] = j],
         HeldAt(p, j)
  PROVE  Threads'
<1>1. pc' \in [Thread -> Places] /\ job' \in [Thread -> Jobs]
  BY DEF Threads
<1>2. ASSUME NEW v \in Thread
      PROVE  HeldAt(pc'[v], job'[v])
  <2>1. CASE v = w
    <3>1. pc'[v] = p /\ job'[v] = j
      BY <2>1 DEF Threads
    <3> QED
      BY <3>1
  <2>2. CASE v # w
    <3>1. pc'[v] = pc[v] /\ job'[v] = job[v]
      BY <2>2 DEF Threads
    <3> QED
      BY <3>1 DEF Threads
  <2> QED
    BY <2>1, <2>2
<1> QED
  BY <1>1, <1>2 DEF Threads

LEMMA MovesOn ==
  ASSUME Threads, NEW w \in Thread, NEW from, NEW p \in Places,
         Step(w, from, p), job' = job, HeldAt(p, job[w])
  PROVE  Threads'
<1>1. job[w] \in Jobs /\ job' = [job EXCEPT ![w] = job[w]]
  BY DEF Threads
<1>2. pc' = [pc EXCEPT ![w] = p]
  BY DEF Step
<1> QED
  BY <1>1, <1>2, OneMoves

LEMMA MovesHolding ==
  ASSUME Threads, NEW w \in Thread, NEW from, NEW p \in Places,
         Step(w, from, p), NEW r \in Response,
         p \in {"update", "store"} => Storable(r),
         p = "merge" => r.url \in Url,
         \/ Hold(w, r)
         \/ job' = [job EXCEPT ![w].connected = TRUE, ![w].resp = r]
  PROVE  Threads'
<1>1. pc' = [pc EXCEPT ![w] = p] /\ job[w] \in Jobs
  BY DEF Step, Threads
<1>2. ASSUME NEW j \in Jobs, j.resp = r, job' = [job EXCEPT ![w] = j]
      PROVE  Threads'
  <2>1. HeldAt(p, j)
    BY <1>2 DEF HeldAt
  <2> QED
    BY <1>1, <1>2, <2>1, OneMoves
<1>3. CASE Hold(w, r)
  <2> DEFINE j == [job[w] EXCEPT !.resp = r]
  <2>1. j \in Jobs /\ j.resp = r
    BY <1>1 DEF Jobs
  <2>2. job' = [job EXCEPT ![w] = j]
    BY <1>3 DEF Hold, Threads
  <2> QED
    BY <1>2, <2>1, <2>2
<1>4. CASE job' = [job EXCEPT ![w].connected = TRUE, ![w].resp = r]
  <2> DEFINE j == [job[w] EXCEPT !.connected = TRUE, !.resp = r]
  <2>1. j \in Jobs /\ j.resp = r
    BY <1>1 DEF Jobs
  <2>2. job' = [job EXCEPT ![w] = j]
    BY <1>4 DEF Threads
  <2> QED
    BY <1>2, <2>1, <2>2
<1> QED
  BY <1>3, <1>4

-----------------------------------------------------------------------------
(* One lemma for each kind of step.                                        *)

LEMMA AcceptInv ==
  ASSUME AgentInv, NEW w \in Thread, NEW u \in Url,
         NEW conditional \in BOOLEAN, NEW get \in BOOLEAN,
         Accept(w, u, conditional, get)
  PROVE  AgentInv'
<1> DEFINE p == IF get THEN "check exist" ELSE "forward"
           j == [url |-> u, conditional |-> conditional, asked |-> conditional,
                 connected |-> FALSE, resp |-> NoResponse]
<1>1. p \in Places /\ j \in Jobs /\ HeldAt(p, j)
  BY DEF Places, Jobs, HeldAt
<1>2. pc' = [pc EXCEPT ![w] = p] /\ job' = [job EXCEPT ![w] = j]
  BY DEF Accept, Step
<1> HIDE DEF p, j
<1>3. Threads'
  BY <1>1, <1>2, OneMoves DEF AgentInv
<1>4. UNCHANGED cacheVars /\ sent' = [sent EXCEPT ![w] = <<>>]
  BY DEF Accept
<1>5. Structure' /\ StoredOK'
  BY <1>4, CacheStays DEF cacheVars, AgentInv, Structure, CacheTypeOK
<1>6. SentOK'
  <2>1. <<>> \in Seq(Response \cup {BadGateway})
    BY EmptySeq
  <2> QED
    BY <1>4, <2>1 DEF AgentInv, SentOK
<1> QED
  BY <1>3, <1>5, <1>6 DEF AgentInv

\* A step that gets an entry of the cache.
LEMMA GetInv ==
  ASSUME AgentInv, NEW w \in Thread,
         Check(w) \/ Hit(w) \/ Validators(w) \/ Merge(w) \/ Reread(w) \/ GetGone(w)
  PROVE  AgentInv'
<1>0. /\ Structure /\ StoredOK /\ Threads /\ SentOK
      /\ job[w] \in Jobs /\ job[w].url \in Url
      /\ pc[w] = "merge" => job[w].resp.url \in Url
  BY DEF AgentInv, Threads, HeldAt, Jobs
<1>1. ASSUME NEW u \in Url, Get(u), Threads', UNCHANGED sent
      PROVE  AgentInv'
  BY <1>0, <1>1, GetKeeps DEF AgentInv, SentOK
<1>2. CASE Check(w)
  <2>1. PICK p \in {"hit", "validators"} : Step(w, "check", p)
    BY <1>2 DEF Check
  <2>2. p \in Places /\ HeldAt(p, job[w]) /\ job' = job
    BY <1>2, <2>1 DEF Check, Places, HeldAt
  <2>3. Threads'
    BY <1>0, <2>1, <2>2, MovesOn
  <2> QED
    BY <1>0, <1>1, <1>2, <2>3 DEF Check, Get
<1>3. CASE Hit(w)
  <2>1. Cached(job[w].url) \in Response
    BY <1>0, <1>3, CachedFacts DEF Hit
  <2>2. Threads'
    BY <1>0, <1>3, <2>1, MovesHolding DEF Hit, Places
  <2> QED
    BY <1>0, <1>1, <1>3, <2>2 DEF Hit, Get
<1>4. CASE Validators(w)
  <2> DEFINE j == [job[w] EXCEPT !.asked = @ \/ Cached(job[w].url).etag]
  <2>1. j \in Jobs
    BY <1>0 DEF Jobs
  <2>2. job' = [job EXCEPT ![w] = j] /\ pc' = [pc EXCEPT ![w] = "revalidate"]
    BY <1>0, <1>4 DEF Validators, Step, Threads
  <2>3. HeldAt("revalidate", j) /\ "revalidate" \in Places
    BY DEF HeldAt, Places
  <2> HIDE DEF j
  <2>4. Threads'
    BY <1>0, <2>1, <2>2, <2>3, OneMoves
  <2> QED
    BY <1>0, <1>1, <1>4, <2>4 DEF Validators, Get
<1>5. CASE Merge(w)
  <2> DEFINE host == job[w].resp.url
  <2>1. host \in Url /\ GetHit(host) /\ Hold(w, Cached(host))
        /\ Step(w, "merge", "update")
    BY <1>0, <1>5 DEF Merge, Step
  <2>2. Cached(host) \in Response /\ Storable(Cached(host))
    BY <1>0, <2>1, CachedFacts
  <2>3. Threads'
    BY <1>0, <2>1, <2>2, MovesHolding DEF Places
  <2> QED
    BY <1>0, <1>1, <1>5, <2>1, <2>3 DEF Merge, Get
<1>6. CASE Reread(w)
  <2>1. Cached(job[w].url) \in Response
    BY <1>0, <1>6, CachedFacts DEF Reread
  <2>2. Threads'
    BY <1>0, <1>6, <2>1, MovesHolding DEF Reread, Places
  <2> QED
    BY <1>0, <1>1, <1>6, <2>2 DEF Reread, Get
<1>7. CASE GetGone(w)
  <2>1. Threads' /\ UNCHANGED sent
    BY <1>0, <1>7 DEF GetGone, agentVars, Threads
  <2>2. \E u \in Url : Get(u)
    BY <1>0, <1>7 DEF GetGone, Get
  <2> QED
    BY <1>1, <2>1, <2>2
<1> QED
  BY <1>2, <1>3, <1>4, <1>5, <1>6, <1>7

\* A step that puts what the thread holds.
LEMMA PutInv ==
  ASSUME AgentInv, NEW w \in Thread, Update(w) \/ Store(w)
  PROVE  AgentInv'
<1>0. /\ Structure /\ StoredOK /\ Threads /\ SentOK
      /\ job[w] \in Jobs /\ job[w].url \in Url
      /\ HeldAt(pc[w], job[w])
  BY DEF AgentInv, Threads, Jobs
<1>1. PICK from \in {"update", "store"}, p \in {"reread", "reply"} : Step(w, from, p)
  BY DEF Update, Store
<1>2. /\ Put(job[w].url, job[w].resp)
      /\ job' = job /\ sent' = sent
  BY DEF Update, Store
<1>3. job[w].resp \in Response /\ Storable(job[w].resp)
  BY <1>0, <1>1 DEF Step, HeldAt
<1>4. Structure' /\ StoredOK'
  BY <1>0, <1>2, <1>3, PutKeeps
<1>5. Threads'
  <2>1. HeldAt(p, job[w]) /\ p \in Places
    BY <1>3 DEF HeldAt, Places
  <2> QED
    BY <1>0, <1>1, <1>2, <2>1, MovesOn
<1> QED
  BY <1>0, <1>2, <1>4, <1>5 DEF AgentInv, SentOK

\* A step that leaves the cache alone and sends nothing.
LEMMA QuietInv ==
  ASSUME AgentInv, NEW w \in Thread,
         \/ CheckExist(w) \/ Fail(w)
         \/ \E r \in Reply[job[w].url] : Revalidate(w, r) \/ Fetch(w, r) \/ Forward(w, r)
  PROVE  AgentInv'
<1>0. /\ Structure /\ StoredOK /\ Threads /\ SentOK
      /\ job[w] \in Jobs /\ job[w].url \in Url
      /\ undefined \in BOOLEAN
  BY DEF AgentInv, Threads, Jobs, Structure, CacheTypeOK
<1>1. ASSUME Threads', UNCHANGED <<cacheVars, sent>>
      PROVE  AgentInv'
  BY <1>0, <1>1, CacheStays DEF cacheVars, AgentInv, SentOK
<1>2. CASE CheckExist(w)
  <2>1. PICK p \in {"check", "fetch"} : Step(w, "check exist", p)
    BY <1>2 DEF CheckExist
  <2>2. p \in Places /\ HeldAt(p, job[w]) /\ job' = job
    BY <1>2 DEF CheckExist, Places, HeldAt
  <2>3. Threads'
    BY <1>0, <2>1, <2>2, MovesOn
  <2> QED
    BY <1>1, <1>2, <2>3 DEF CheckExist
<1>3. CASE Fail(w)
  <2>1. PICK at \in {"fetch", "revalidate", "forward"} : Step(w, at, "idle")
    BY <1>3 DEF Fail
  <2>2. "idle" \in Places /\ HeldAt("idle", job[w]) /\ job' = job
    BY <1>3 DEF Fail, Places, HeldAt
  <2>3. Threads'
    BY <1>0, <2>1, <2>2, MovesOn
  <2> QED
    BY <1>1, <1>3, <2>3 DEF Fail
<1>4. ASSUME NEW r \in Reply[job[w].url],
             Revalidate(w, r) \/ Fetch(w, r) \/ Forward(w, r)
      PROVE  AgentInv'
  <2>1. r \in Response /\ r.url \in Url \cup {NoUrl}
    BY <1>0, CacheAssumption
  <2>2. /\ job' = [job EXCEPT ![w].connected = TRUE, ![w].resp = r]
        /\ UNCHANGED <<cacheVars, sent>>
    BY <1>4 DEF Revalidate, Fetch, Forward, GetResp
  <2>3. ASSUME NEW from, NEW p \in {"merge", "update", "store", "reply"},
               Step(w, from, p),
               p \in {"update", "store"} => Storable(r),
               p = "merge" => r.url \in Url
        PROVE  AgentInv'
    <3>1. p \in Places
      BY DEF Places
    <3>2. Threads'
      BY <1>0, <2>1, <2>2, <2>3, <3>1, MovesHolding
    <3> QED
      BY <1>1, <2>2, <3>2
  <2>4. CASE Revalidate(w, r)
    <3>1. /\ AfterRevalidate(r) \in {"merge", "update", "reply"}
          /\ AfterRevalidate(r) = "update" => Storable(r)
          /\ AfterRevalidate(r) = "merge" => r.url \in Url
      BY <2>1 DEF AfterRevalidate, Storable
    <3>2. Step(w, "revalidate", AfterRevalidate(r))
      BY <2>4 DEF Revalidate
    <3> DEFINE p == AfterRevalidate(r)
    <3>3. /\ p \in {"merge", "update", "store", "reply"}
          /\ p \in {"update", "store"} => Storable(r)
      BY <3>1
    <3> QED
      BY <2>3, <3>1, <3>2, <3>3
  <2>5. CASE Fetch(w, r)
    <3>1. CASE r.status = "200" /\ Cacheable(r)
      <4>1. Step(w, "fetch", "store") /\ Storable(r)
        BY <2>5, <3>1 DEF Fetch, Storable
      <4> QED
        BY <2>3, <4>1
    <3>2. CASE ~(r.status = "200" /\ Cacheable(r))
      <4>1. Step(w, "fetch", "reply")
        BY <2>5, <3>2 DEF Fetch
      <4> QED
        BY <2>3, <4>1
    <3> QED
      BY <3>1, <3>2
  <2>6. CASE Forward(w, r)
    <3>1. Step(w, "forward", "reply")
      BY <2>6 DEF Forward
    <3> QED
      BY <2>3, <3>1
  <2> QED
    BY <1>4, <2>4, <2>5, <2>6
<1> QED
  BY <1>2, <1>3, <1>4

LEMMA SendInv ==
  ASSUME AgentInv, NEW w \in Thread, Send(w)
  PROVE  AgentInv'
<1>0. /\ Structure /\ StoredOK /\ Threads /\ SentOK
      /\ job[w].resp \in Response
  BY DEF AgentInv, Threads, HeldAt, Send, Step
<1>1. Threads'
  <2>1. "idle" \in Places /\ HeldAt("idle", job[w])
    BY DEF Places, HeldAt
  <2> QED
    BY <1>0, <2>1, MovesOn DEF Send
<1>2. undefined' \in BOOLEAN
  <2>1. undefined' = (Parses(job[w].resp) /\ job[w].resp.chunked /\ ~job[w].connected)
    BY DEF Send
  <2> QED
    BY <2>1, Zenon
<1>3. Structure' /\ StoredOK'
  BY <1>0, <1>2, CacheStays DEF Send
<1>4. SentOK'
  <2> DEFINE r == job[w].resp
             what == IF Parses(r) THEN <<r>> ELSE <<BadGateway, r>>
  <2>1. what \in Seq(Response \cup {BadGateway})
    <3>1. <<r>> \in Seq(Response \cup {BadGateway})
      BY <1>0
    <3>2. <<BadGateway, r>> \in Seq(Response \cup {BadGateway})
      BY <1>0
    <3> QED
      BY <3>1, <3>2
  <2>2. sent' = [sent EXCEPT ![w] = what]
    BY DEF Send
  <2> HIDE DEF what
  <2> QED
    BY <1>0, <2>1, <2>2 DEF SentOK
<1> QED
  BY <1>1, <1>3, <1>4 DEF AgentInv

-----------------------------------------------------------------------------
LEMMA AgentInvInit == Init => AgentInv
<1> SUFFICES ASSUME Init
             PROVE  AgentInv
  OBVIOUS
<1>1. Structure
  BY StructureInit DEF Init
<1>2. StoredOK
  BY DEF Init, CacheInit, StoredOK
<1>3. Threads
  <2>1. pc \in [Thread -> Places] /\ \A w \in Thread : pc[w] = "idle"
    BY DEF Init, Places
  <2>2. job \in [Thread -> Jobs]
    <3> DEFINE first == CHOOSE u \in Url : TRUE
               blank == [url |-> first, conditional |-> FALSE, asked |-> FALSE,
                         connected |-> FALSE, resp |-> NoResponse]
    <3>1. first \in Url
      BY UrlAssumption
    <3>2. job \in [Thread -> {blank}]
      BY DEF Init
    <3> HIDE DEF first
    <3>3. blank \in Jobs
      BY <3>1 DEF Jobs
    <3> HIDE DEF blank
    <3> QED
      BY <3>2, <3>3
  <2> QED
    BY <2>1, <2>2 DEF Threads, HeldAt
<1>4. SentOK
  <2>1. <<>> \in Seq(Response \cup {BadGateway})
    BY EmptySeq
  <2> QED
    BY <2>1 DEF Init, SentOK
<1> QED
  BY <1>1, <1>2, <1>3, <1>4 DEF AgentInv

LEMMA AgentInvStep == AgentInv /\ [Next]_vars => AgentInv'
<1> SUFFICES ASSUME AgentInv, [Next]_vars
             PROVE  AgentInv'
  OBVIOUS
<1>1. CASE UNCHANGED vars
  <2>1. UNCHANGED cacheVars /\ UNCHANGED agentVars
    BY <1>1 DEF vars
  <2>2. Structure' /\ StoredOK'
    BY <2>1, CacheStays DEF cacheVars, AgentInv, Structure, CacheTypeOK
  <2>3. Threads' /\ SentOK'
    BY <2>1 DEF agentVars, AgentInv, Threads, SentOK
  <2> QED
    BY <2>2, <2>3 DEF AgentInv
<1>2. CASE Next
  <2>1. PICK w \in Thread :
          \/ \E u \in Url, conditional \in BOOLEAN, get \in BOOLEAN :
               Accept(w, u, conditional, get)
          \/ Work(w)
    BY <1>2 DEF Next
  <2> QED
    BY <2>1, AcceptInv, GetInv, PutInv, QuietInv, SendInv DEF Work
<1> QED
  BY <1>1, <1>2

(* Type correctness, for any number of threads, evictions and undefined     *)
(* behaviour of the cache included.                                         *)
THEOREM AgentTypeCorrect == Spec => []AgentTypeOK
<1>1. AgentInv => AgentTypeOK
  BY DEF AgentInv, AgentTypeOK, Structure, Threads, Places, SentOK
<1> QED
  BY <1>1, AgentInvInit, AgentInvStep, PTL DEF Spec

(* The threads' calls, in whatever order, never leak a node, link one twice *)
(* or let the list outgrow the capacity, though a thread's put() may evict  *)
(* what another is about to get.                                            *)
THEOREM ListSoundUnderThreads == Spec => [](ListOwnsNodes /\ SizeBound)
<1>1. AgentInv => ListOwnsNodes /\ SizeBound
  BY DEF AgentInv, Structure
<1> QED
  BY <1>1, AgentInvInit, AgentInvStep, PTL DEF Spec

(* Nothing that may not be stored is ever in the cache: no interleaving of  *)
(* the threads' checks, puts and evictions and no path through a            *)
(* revalidation lets it in, even where map entries dangle.                  *)
THEOREM OnlyCacheableAlways == Spec => []OnlyCacheableCached
<1>1. AgentInv => OnlyCacheableCached
  <2> SUFFICES ASSUME AgentInv, NEW n \in ToSet(cacheList)
               PROVE  Storable(heap[n])
    BY DEF OnlyCacheableCached, Storable
  <2>1. n \in Node /\ heap[n] # Freed
    <3>1. cacheList \in Seq(Node)
      BY DEF AgentInv, Structure, CacheTypeOK
    <3>2. n \in Node
      BY <3>1, ElementOfSeq, LenProperties DEF ToSet
    <3> QED
      BY <3>2 DEF AgentInv, Structure, ListOwnsNodes, IsLive
  <2> QED
    BY <2>1 DEF AgentInv, StoredOK
<1> QED
  BY <1>1, AgentInvInit, AgentInvStep, PTL DEF Spec

-----------------------------------------------------------------------------
(* As long as the URLs fit.                                                *)

Fit == IsFiniteSet(Url) /\ Cardinality(Url) <= Capacity + 1

\* The origin's responses carry the URL they were sent for, or none, in a
\* header named "Url", and are not chunked.
Plain ==
  \A u \in Url : \A r \in Reply[u] : r.of = u /\ r.url \in {u, NoUrl} /\ ~r.chunked

\* Where a thread is about to get(), and where it holds a response.
Getting == {"check", "hit", "validators", "revalidate", "merge", "reread"}
Holding == {"merge", "update", "store", "reply"}

\* What thread w gets is there; what it holds and has sent answers its request.
Served(w) ==
  /\ pc[w] \in Getting => Checkexist(job[w].url)
  /\ pc[w] \in Holding => job[w].resp \in Reply[job[w].url]
  /\ Sent(w) \subseteq Reply[job[w].url]

FitInv == AgentInv /\ Counted /\ Owned /\ \A w \in Thread : Served(w)

\* No entry is ever lost.
Grows == \A u \in Url : Checkexist(u) => Checkexist(u)'

-----------------------------------------------------------------------------
(* The cache's half.                                                       *)

LEMMA PutOwned ==
  ASSUME Fit, Counted, Owned, NEW u \in Url, NEW r \in Reply[u], Put(u, r)
  PROVE  Owned' /\ Grows /\ Checkexist(u)'
<1>1. /\ Matched /\ r \in Response
      /\ cache_map \in [Url -> Node \cup {NoNode}]
  BY CacheAssumption DEF Counted, Matched, Structure, CacheTypeOK
<1>2. ~PutEvict(u, r)
  BY NothingEvicted DEF Fit
<1>3. Owned'
  BY <1>1, <1>2, PutMatches, PutOwns
<1>4. PICK n \in Node : cache_map' = [cache_map EXCEPT ![u] = n]
  BY <1>1, <1>2 DEF Put, PutNew, PutReplace, PutInvalid, PushFront, Matched, MapMatchesList
<1>5. Grows /\ Checkexist(u)'
  BY <1>1, <1>4, CacheAssumption DEF Grows, Checkexist
<1> QED
  BY <1>3, <1>5

\* A step of the cache's specification keeps what is stored where it belongs.
LEMMA CacheOwned ==
  ASSUME Fit, Counted, Owned, [CacheNext]_cacheVars
  PROVE  Counted' /\ Owned' /\ Grows
<1>1. Counted'
  BY CountedStep DEF Fit
<1>2. ASSUME UNCHANGED <<cache_map, heap>>
      PROVE  Owned' /\ Grows
  BY <1>2 DEF Owned, Grows, Checkexist, Cached
<1>3. CASE UNCHANGED cacheVars
  BY <1>1, <1>2, <1>3 DEF cacheVars
<1>4. CASE CacheNext
  <2>1. ASSUME NEW u \in Url, Get(u)
        PROVE  Owned' /\ Grows
    BY <1>2, <2>1 DEF Get, GetHit, GetInvalid
  <2> QED
    BY <1>1, <1>4, <2>1, PutOwned DEF CacheNext
<1> QED
  BY <1>3, <1>4

-----------------------------------------------------------------------------
(* What a thread that moves does to the cache.                             *)

LEMMA WorkFacts ==
  ASSUME FitInv, NEW w \in Thread
  PROVE  /\ Structure /\ Owned /\ Counted
         /\ job[w] \in Jobs /\ job[w].url \in Url
         /\ pc \in [Thread -> Places] /\ job \in [Thread -> Jobs]
         /\ sent \in [Thread -> Seq(Response \cup {BadGateway})]
         /\ \A u \in Url : Checkexist(u) <=> Valid(u)
         /\ Served(w)
<1>1. \A u \in Url : Checkexist(u) <=> Valid(u)
  BY CacheAssumption
     DEF FitInv, Counted, Matched, MapMatchesList, Checkexist, Valid, IsLive
<1> QED
  BY <1>1 DEF FitInv, AgentInv, Threads, SentOK, Jobs

\* A 304 is merged into the entry its thread asked about.
LEMMA MergeOwn ==
  ASSUME FitInv, Plain, NEW w \in Thread, pc[w] = "merge"
  PROVE  job[w].resp.url = job[w].url /\ Checkexist(job[w].url)
<1>1. job[w].url \in Url /\ Served(w)
  BY WorkFacts
<1>2. job[w].resp \in Reply[job[w].url] /\ Checkexist(job[w].url)
  BY <1>1 DEF Served, Getting, Holding
<1>3. job[w].resp.url \in Url
  BY DEF FitInv, AgentInv, Threads, HeldAt
<1> QED
  BY <1>1, <1>2, <1>3, CacheAssumption DEF Plain

LEMMA NoGetGone ==
  ASSUME FitInv, Plain, NEW w \in Thread
  PROVE  ~GetGone(w)
<1>1. CASE pc[w] \in {"check", "hit", "validators", "reread"}
  BY <1>1, WorkFacts DEF Served, Getting, GetGone, GetInvalid
<1>2. CASE pc[w] = "merge"
  BY <1>2, WorkFacts, MergeOwn DEF GetGone, GetInvalid
<1> QED
  BY <1>1, <1>2 DEF GetGone

\* Every step of the threads is a step of the cache's specification or none.
LEMMA AsAsked ==
  ASSUME FitInv, Plain, [Next]_vars
  PROVE  [CacheNext]_cacheVars
<1>1. CASE UNCHANGED vars
  BY <1>1 DEF vars
<1>2. CASE Next
  <2>1. PICK w \in Thread :
          \/ \E u \in Url, conditional \in BOOLEAN, get \in BOOLEAN :
               Accept(w, u, conditional, get)
          \/ Work(w)
    BY <1>2 DEF Next
  <2>2. /\ ~undefined /\ job[w].url \in Url /\ Served(w)
        /\ \A u \in Url : Checkexist(u) <=> Valid(u)
    BY <1>2, WorkFacts DEF Next
  <2>3. ASSUME NEW u \in Url, GetHit(u)
        PROVE  CacheNext
    BY <2>2, <2>3 DEF CacheNext, Get, GetHit
  <2>4. ASSUME NEW u \in Url, NEW r \in Reply[u], Put(u, r)
        PROVE  CacheNext
    BY <2>2, <2>4 DEF CacheNext
  <2>5. CASE \E u \in Url, conditional \in BOOLEAN, get \in BOOLEAN :
               Accept(w, u, conditional, get)
    BY <2>5 DEF Accept
  <2>6. CASE CheckExist(w) \/ Fail(w)
    BY <2>6 DEF CheckExist, Fail
  <2>7. CASE Check(w) \/ Hit(w) \/ Validators(w) \/ Reread(w)
    BY <2>2, <2>3, <2>7 DEF Check, Hit, Validators, Reread
  <2>8. CASE \E r \in Reply[job[w].url] : Revalidate(w, r) \/ Fetch(w, r) \/ Forward(w, r)
    BY <2>8 DEF Revalidate, Fetch, Forward, GetResp
  <2>9. CASE Merge(w)
    <3>1. GetHit(job[w].url)
      BY <2>9, MergeOwn DEF Merge, Step
    <3> QED
      BY <2>2, <2>3, <3>1
  <2>10. CASE Update(w) \/ Store(w)
    <3>1. Put(job[w].url, job[w].resp) /\ pc[w] \in {"update", "store"}
      BY <2>10 DEF Update, Store, Step
    <3> QED
      BY <2>2, <2>4, <3>1 DEF Served, Holding
  <2>11. CASE GetGone(w)
    BY <2>11, NoGetGone
  <2>12. CASE Send(w)
    <3>1. /\ undefined' = (Parses(job[w].resp) /\ job[w].resp.chunked /\ ~job[w].connected)
          /\ UNCHANGED <<cacheList, cache_map, heap>>
          /\ pc[w] = "reply"
      BY <2>12 DEF Send, Step
    <3>2. ~job[w].resp.chunked
      BY <2>2, <3>1 DEF Served, Holding, Plain
    <3>3. ~undefined'
      BY <3>1, <3>2
    <3>4. undefined' \in BOOLEAN /\ undefined \in BOOLEAN
      <4>1. undefined' \in BOOLEAN
        BY <3>1, Zenon
      <4> QED
        BY <4>1, WorkFacts DEF Structure, CacheTypeOK
    <3> QED
      BY <2>2, <3>1, <3>3, <3>4 DEF cacheVars
  <2> QED
    BY <2>1, <2>5, <2>6, <2>7, <2>8, <2>9, <2>10, <2>11, <2>12 DEF Work
<1> QED
  BY <1>1, <1>2
-----------------------------------------------------------------------------
(* The threads' half.                                                      *)

\* The threads that do not move are still served.
LEMMA OthersServed ==
  ASSUME FitInv, Grows, NEW v \in Thread,
         pc'[v] = pc[v], job'[v] = job[v], sent'[v] = sent[v]
  PROVE  Served(v)'
<1>1. job[v].url \in Url /\ Served(v)
  BY WorkFacts
<1> QED
  BY <1>1 DEF Served, Sent, Grows

\* A thread that moves from here to there with its request and what it sent.
LEMMA MoverServed ==
  ASSUME FitInv, NEW w \in Thread,
         job'[w].url = job[w].url, sent'[w] = sent[w],
         pc'[w] \in Getting => Checkexist(job[w].url)',
         pc'[w] \in Holding => job'[w].resp \in Reply[job[w].url]
  PROVE  Served(w)'
<1>1. Served(w)
  BY WorkFacts
<1> QED
  BY <1>1 DEF Served, Sent

LEMMA ServedStep ==
  ASSUME Fit, FitInv, Plain, Grows, NEW w \in Thread,
         \/ \E u \in Url, conditional \in BOOLEAN, get \in BOOLEAN :
              Accept(w, u, conditional, get)
         \/ Work(w)
  PROVE  \A v \in Thread : Served(v)'
<1>0. /\ pc \in [Thread -> Places] /\ job \in [Thread -> Jobs]
      /\ sent \in [Thread -> Seq(Response \cup {BadGateway})]
      /\ job[w] \in Jobs /\ job[w].url \in Url
      /\ Served(w) /\ Owned
      /\ \A u \in Url : Checkexist(u) <=> Valid(u)
  BY WorkFacts
<1>1. ASSUME NEW v \in Thread, v # w
      PROVE  pc'[v] = pc[v] /\ job'[v] = job[v] /\ sent'[v] = sent[v]
  BY <1>0, <1>1
     DEF Accept, Work, CheckExist, Check, Hit, Validators, Revalidate, Fetch, Forward,
         GetResp, Fail, Merge, Update, Reread, GetGone, agentVars, Store, Send, Step, Hold
<1>2. ASSUME Served(w)'
      PROVE  \A v \in Thread : Served(v)'
  BY <1>1, <1>2, OthersServed
<1>3. ASSUME NEW from, NEW p \in Places, Step(w, from, p),
             job'[w].url = job[w].url, UNCHANGED sent,
             p \in Getting => Checkexist(job[w].url),
             p \in Holding => job'[w].resp \in Reply[job[w].url]
      PROVE  \A v \in Thread : Served(v)'
  <2>1. pc'[w] = p
    BY <1>0, <1>3 DEF Step
  <2>2. Checkexist(job[w].url) => Checkexist(job[w].url)'
    BY <1>0, <1>3 DEF Grows, Checkexist
  <2> QED
    BY <1>2, <1>3, <2>1, <2>2, MoverServed
<1>4. ASSUME NEW u \in Url, Checkexist(u)
      PROVE  Cached(u) \in Reply[u]
  BY <1>0, <1>4 DEF Owned
<1>5. ASSUME NEW r, Hold(w, r)
      PROVE  job'[w].url = job[w].url /\ job'[w].resp = r
  <2>1. job'[w] = [job[w] EXCEPT !.resp = r]
    BY <1>0, <1>5 DEF Hold
  <2> QED
    BY <1>0, <2>1 DEF Jobs
<1>6. CASE \E u \in Url, conditional \in BOOLEAN, get \in BOOLEAN :
             Accept(w, u, conditional, get)
  <2>1. PICK u \in Url, conditional \in BOOLEAN, get \in BOOLEAN :
          Accept(w, u, conditional, get)
    BY <1>6
  <2>2. pc'[w] \in {"check exist", "forward"} /\ sent'[w] = <<>>
    BY <1>0, <2>1 DEF Accept, Step
  <2>3. Sent(w)' = {}
    <3>1. ToSet(<<>>) = {}
      BY DEF ToSet
    <3> QED
      BY <2>2, <3>1 DEF Sent
  <2> QED
    BY <1>2, <2>2, <2>3 DEF Served, Getting, Holding
<1>7. CASE CheckExist(w)
  <2>1. CASE Checkexist(job[w].url)
    BY <1>0, <1>3, <1>7, <2>1 DEF CheckExist, Places, Getting, Holding
  <2>2. CASE ~Checkexist(job[w].url)
    BY <1>0, <1>3, <1>7, <2>2 DEF CheckExist, Places, Getting, Holding
  <2> QED
    BY <2>1, <2>2
<1>8. CASE Check(w)
  <2>1. PICK p \in {"hit", "validators"} : Step(w, "check", p)
    BY <1>8 DEF Check
  <2> QED
    BY <1>0, <1>3, <1>8, <2>1 DEF Check, GetHit, Places, Holding
<1>9. CASE Hit(w) \/ Reread(w)
  <2>1. PICK from \in {"hit", "reread"} : Step(w, from, "reply")
    BY <1>9 DEF Hit, Reread
  <2>2. /\ Hold(w, Cached(job[w].url)) /\ UNCHANGED sent
        /\ Checkexist(job[w].url)
    BY <1>0, <1>9 DEF Hit, Reread, GetHit
  <2> QED
    BY <1>0, <1>3, <1>4, <1>5, <2>1, <2>2 DEF Places, Getting
<1>10. CASE Validators(w)
  <2>1. job'[w] = [job[w] EXCEPT !.asked = @ \/ Cached(job[w].url).etag]
    BY <1>0, <1>10 DEF Validators
  <2>2. job'[w].url = job[w].url
    BY <1>0, <2>1 DEF Jobs
  <2> QED
    BY <1>0, <1>3, <1>10, <2>2 DEF Validators, GetHit, Places, Holding
<1>11. ASSUME NEW r \in Reply[job[w].url],
              Revalidate(w, r) \/ Fetch(w, r) \/ Forward(w, r)
       PROVE  \A v \in Thread : Served(v)'
  <2>1. job'[w] = [job[w] EXCEPT !.connected = TRUE, !.resp = r] /\ UNCHANGED sent
    BY <1>0, <1>11 DEF Revalidate, Fetch, Forward, GetResp
  <2>2. job'[w].url = job[w].url /\ job'[w].resp = r
    BY <1>0, <2>1 DEF Jobs
  <2>3. CASE Revalidate(w, r)
    <3> DEFINE p == AfterRevalidate(r)
    <3>1. p \in {"merge", "update", "reply"}
      BY DEF AfterRevalidate
    <3>2. Step(w, "revalidate", p)
      BY <2>3 DEF Revalidate
    <3>3. Checkexist(job[w].url)
      BY <1>0, <3>2 DEF Served, Getting, Step
    <3> HIDE DEF p
    <3>4. p \in Places
      BY <3>1 DEF Places
    <3> QED
      BY <1>3, <2>1, <2>2, <3>2, <3>3, <3>4
  <2>4. CASE Fetch(w, r) \/ Forward(w, r)
    <3>1. PICK from \in {"fetch", "forward"}, p \in {"store", "reply"} : Step(w, from, p)
      BY <2>4 DEF Fetch, Forward
    <3> QED
      BY <1>3, <2>1, <2>2, <3>1 DEF Places, Getting
  <2> QED
    BY <1>11, <2>3, <2>4
<1>12. CASE Fail(w)
  <2>1. PICK at \in {"fetch", "revalidate", "forward"} : Step(w, at, "idle")
    BY <1>12 DEF Fail
  <2> QED
    BY <1>3, <1>12, <2>1 DEF Fail, Places, Getting, Holding
<1>13. CASE Merge(w)
  <2>1. job[w].resp.url = job[w].url /\ Checkexist(job[w].url)
    BY <1>13, MergeOwn DEF Merge, Step
  <2>2. Hold(w, Cached(job[w].url)) /\ UNCHANGED sent /\ Step(w, "merge", "update")
    BY <1>13, <2>1 DEF Merge
  <2> QED
    BY <1>0, <1>3, <1>4, <1>5, <2>1, <2>2 DEF Places, Getting
<1>14. CASE Update(w) \/ Store(w)
  <2>1. PICK from \in {"update", "store"}, p \in {"reread", "reply"} : Step(w, from, p)
    BY <1>14 DEF Update, Store
  <2>2. /\ job' = job /\ sent' = sent
        /\ Put(job[w].url, job[w].resp)
    BY <1>14 DEF Update, Store
  <2>3. job[w].resp \in Reply[job[w].url]
    BY <1>0, <2>1 DEF Served, Holding, Step
  <2>4. Checkexist(job[w].url)'
    <3>1. ASSUME NEW u \in Url, NEW r \in Reply[u], Put(u, r)
          PROVE  cache_map'[u] # NoNode
      BY <3>1, PutOwned DEF FitInv, Checkexist
    <3> QED
      BY <1>0, <2>2, <2>3, <3>1 DEF Checkexist
  <2>5. pc'[w] = p
    BY <1>0, <2>1 DEF Step
  <2> QED
    BY <1>2, <2>2, <2>3, <2>4, <2>5, MoverServed
<1>15. CASE GetGone(w)
  BY <1>15, NoGetGone
<1>16. CASE Send(w)
  <2> DEFINE r == job[w].resp
             what == IF Parses(r) THEN <<r>> ELSE <<BadGateway, r>>
  <2>1. pc'[w] = "idle" /\ job' = job /\ sent'[w] = what
    BY <1>0, <1>16 DEF Send, Step
  <2>2. r \in Reply[job[w].url]
    BY <1>0, <1>16 DEF Send, Step, Served, Holding
  <2>3. ToSet(what) \subseteq {r, BadGateway}
    BY DEF ToSet
  <2> HIDE DEF r, what
  <2>4. Sent(w)' \subseteq Reply[job[w].url]
    BY <2>1, <2>2, <2>3 DEF Sent
  <2> QED
    BY <1>2, <2>1, <2>4 DEF Served, Getting, Holding
<1> QED
  BY <1>6, <1>7, <1>8, <1>9, <1>10, <1>11, <1>12, <1>13, <1>14, <1>15, <1>16 DEF Work

-----------------------------------------------------------------------------
LEMMA FitInit == Init => FitInv
<1> SUFFICES ASSUME Init
             PROVE  FitInv
  OBVIOUS
<1>1. Counted
  BY CountedInit DEF Init
<1>2. Owned
  BY DEF Init, CacheInit, Owned, Checkexist
<1>3. ASSUME NEW w \in Thread
      PROVE  Served(w)
  <2>1. pc[w] = "idle" /\ sent[w] = <<>>
    BY DEF Init
  <2>2. Sent(w) = {}
    BY <2>1 DEF Sent, ToSet
  <2> QED
    BY <2>1, <2>2 DEF Served, Getting, Holding
<1> QED
  BY <1>1, <1>2, <1>3, AgentInvInit DEF FitInv

LEMMA FitStep ==
  ASSUME Fit, Plain, FitInv, [Next]_vars
  PROVE  FitInv' /\ [CacheNext]_cacheVars
<1>1. [CacheNext]_cacheVars
  BY AsAsked
<1>2. Counted' /\ Owned' /\ Grows
  BY <1>1, CacheOwned DEF FitInv
<1>3. AgentInv'
  BY AgentInvStep DEF FitInv
<1>4. \A v \in Thread : Served(v)'
  <2>1. CASE UNCHANGED vars
    BY <1>2, <2>1, OthersServed DEF vars, agentVars
  <2>2. CASE Next
    BY <1>2, <2>2, ServedStep DEF Next
  <2> QED
    BY <2>1, <2>2
<1> QED
  BY <1>1, <1>2, <1>3, <1>4 DEF FitInv

(* The threads together implement the cache's own specification: though no  *)
(* lock is held between checkexist() and the get()s that follow it, each    *)
(* get() finds its entry, for any number of threads, as long as no more     *)
(* than Capacity + 1 URLs are requested.                                    *)
THEOREM ThreadsUseCacheAsAsked ==
  ASSUME Fit, Plain
  PROVE  Spec => UsesCacheAsAsked
<1>1. Init => CacheInit
  BY DEF Init
<1> QED
  BY <1>1, FitInit, FitStep, PTL DEF Spec, UsesCacheAsAsked, CacheSpec

(* And every client is sent a response of the URL it asked for, whatever    *)
(* the other threads put into the cache meanwhile.                          *)
THEOREM OwnResponseAlways ==
  ASSUME Fit, Plain
  PROVE  Spec => [](OwnResponse /\ NeverUndefined)
<1>1. FitInv => OwnResponse /\ NeverUndefined
  <2> SUFFICES ASSUME FitInv
               PROVE  OwnResponse /\ NeverUndefined
    OBVIOUS
  <2>1. NeverUndefined
    BY DEF FitInv, Counted, Matched
  <2>2. ASSUME NEW w \in Thread, NEW r \in Sent(w)
        PROVE  r.of = job[w].url
    BY <2>2, WorkFacts DEF Served, Plain
  <2> QED
    BY <2>1, <2>2 DEF OwnResponse
<1> QED
  BY <1>1, FitInit, FitStep, PTL DEF Spec

-----------------------------------------------------------------------------
(* Evictions do no harm before the map has a key too many.                 *)

\* What a valid entry holds answers the URL it is under.
HitsOwn == \A u \in Url : Valid(u) => Cached(u) \in Reply[u]

\* What thread w holds and has sent answers its request.
Answers(w) ==
  /\ pc[w] \in Holding => job[w].resp \in Reply[job[w].url]
  /\ Sent(w) \subseteq Reply[job[w].url]

UntilFullInv ==
  /\ AgentInv
  /\ FullInv
  /\ KeysFit => \A w \in Thread : Answers(w)

\* A step of thread w.
Moves(w) ==
  \/ \E u \in Url, conditional \in BOOLEAN, get \in BOOLEAN :
       Accept(w, u, conditional, get)
  \/ Work(w)

-----------------------------------------------------------------------------
LEMMA FullHits ==
  ASSUME FullInv, KeysFit
  PROVE  HitsOwn
BY CacheAssumption DEF FullInv, Owned, HitsOwn, Checkexist, Valid, IsLive

LEMMA UntilFullFacts ==
  ASSUME UntilFullInv, NEW w \in Thread
  PROVE  /\ Structure /\ FullInv
         /\ job[w] \in Jobs /\ job[w].url \in Url /\ HeldAt(pc[w], job[w])
         /\ pc \in [Thread -> Places] /\ job \in [Thread -> Jobs]
         /\ sent \in [Thread -> Seq(Response \cup {BadGateway})]
         /\ KeysFit => Answers(w) /\ \A u \in Url : Valid(u) => Cached(u) \in Reply[u]
BY FullHits DEF UntilFullInv, AgentInv, Threads, SentOK, Jobs, HitsOwn

\* A 304 is merged into the entry its thread asked about.
LEMMA UntilFullMerge ==
  ASSUME OwnOrUnnamed, UntilFullInv, KeysFit, NEW w \in Thread, pc[w] = "merge"
  PROVE  job[w].resp.url = job[w].url
<1>1. job[w].url \in Url /\ job[w].resp \in Reply[job[w].url]
  BY UntilFullFacts DEF Answers, Holding
<1>2. job[w].resp.url \in Url
  BY UntilFullFacts DEF HeldAt
<1> QED
  BY <1>1, <1>2, CacheAssumption DEF OwnOrUnnamed

\* Every step of a thread is one get(), one put(), or none.
LEMMA UntilFullCalls ==
  ASSUME OwnOrUnnamed, UntilFullInv, ~undefined, NEW w \in Thread, Moves(w)
  PROVE  FullInv' /\ (KeysFit' => KeysFit)
<1>0. /\ FullInv /\ job[w].url \in Url /\ HeldAt(pc[w], job[w]) /\ undefined \in BOOLEAN
      /\ KeysFit => Answers(w)
  BY UntilFullFacts DEF Structure, CacheTypeOK
<1>1. ASSUME NEW u \in Url, GetHit(u) \/ GetInvalid(u)
      PROVE  FullInv' /\ (KeysFit' => KeysFit)
  BY <1>0, <1>1, FullGet DEF Get
<1>2. ASSUME UNCHANGED <<cacheList, cache_map, heap>>, undefined' \in BOOLEAN
      PROVE  FullInv' /\ (KeysFit' => KeysFit)
  BY <1>0, <1>2, FullStays
<1>3. CASE \E u \in Url, conditional \in BOOLEAN, get \in BOOLEAN :
             Accept(w, u, conditional, get)
  BY <1>0, <1>2, <1>3 DEF Accept, cacheVars
<1>4. CASE CheckExist(w) \/ Fail(w)
  BY <1>0, <1>2, <1>4 DEF CheckExist, Fail, cacheVars
<1>5. CASE Check(w) \/ Hit(w) \/ Validators(w) \/ Reread(w)
  BY <1>0, <1>1, <1>5 DEF Check, Hit, Validators, Reread
<1>6. CASE \E r \in Reply[job[w].url] : Revalidate(w, r) \/ Fetch(w, r) \/ Forward(w, r)
  BY <1>0, <1>2, <1>6 DEF Revalidate, Fetch, Forward, GetResp, cacheVars
<1>7. CASE Merge(w) \/ GetGone(w)
  <2>1. pc[w] = "merge" => job[w].resp.url \in Url
    BY <1>0 DEF HeldAt
  <2> QED
    BY <1>0, <1>1, <1>7, <2>1 DEF Merge, GetGone, Step
<1>8. CASE Update(w) \/ Store(w)
  <2>1. Put(job[w].url, job[w].resp) /\ pc[w] \in {"update", "store"}
    BY <1>8 DEF Update, Store, Step
  <2>2. job[w].resp \in Response /\ (KeysFit => job[w].resp \in Reply[job[w].url])
    BY <1>0, <2>1 DEF HeldAt, Answers, Holding
  <2> QED
    BY <1>0, <2>1, <2>2, FullPut
<1>9. CASE Send(w)
  <2>1. undefined' \in BOOLEAN
    BY <1>9, Zenon DEF Send
  <2> QED
    BY <1>2, <1>9, <2>1 DEF Send
<1> QED
  BY <1>3, <1>4, <1>5, <1>6, <1>7, <1>8, <1>9 DEF Moves, Work

LEMMA MoverAnswers ==
  ASSUME UntilFullInv, KeysFit, NEW w \in Thread,
         job'[w].url = job[w].url, sent'[w] = sent[w],
         pc'[w] \in Holding => job'[w].resp \in Reply[job[w].url]
  PROVE  Answers(w)'
<1>1. Answers(w)
  BY UntilFullFacts
<1> QED
  BY <1>1 DEF Answers, Sent

LEMMA AnswersStep ==
  ASSUME OwnOrUnnamed, UntilFullInv, KeysFit, NEW w \in Thread, Moves(w)
  PROVE  \A v \in Thread : Answers(v)'
<1>0. /\ pc \in [Thread -> Places] /\ job \in [Thread -> Jobs]
      /\ sent \in [Thread -> Seq(Response \cup {BadGateway})]
      /\ job[w] \in Jobs /\ job[w].url \in Url /\ Answers(w)
      /\ \A u \in Url : Valid(u) => Cached(u) \in Reply[u]
  BY UntilFullFacts
<1>1. ASSUME NEW v \in Thread, v # w
      PROVE  pc'[v] = pc[v] /\ job'[v] = job[v] /\ sent'[v] = sent[v]
  BY <1>0, <1>1
     DEF Moves, Accept, Work, CheckExist, Check, Hit, Validators, Revalidate, Fetch, Forward,
         GetResp, Fail, Merge, Update, Reread, GetGone, agentVars, Store, Send, Step, Hold
<1>2. ASSUME Answers(w)'
      PROVE  \A v \in Thread : Answers(v)'
  <2>1. ASSUME NEW v \in Thread, v # w PROVE Answers(v)'
    BY <1>1, <2>1 DEF UntilFullInv, Answers, Sent
  <2> QED
    BY <1>2, <2>1
<1>3. ASSUME NEW from, NEW p, Step(w, from, p),
             job'[w].url = job[w].url, UNCHANGED sent,
             p \in Holding => job'[w].resp \in Reply[job[w].url]
      PROVE  \A v \in Thread : Answers(v)'
  <2>1. pc'[w] = p
    BY <1>0, <1>3 DEF Step
  <2> QED
    BY <1>2, <1>3, <2>1, MoverAnswers
<1>4. ASSUME NEW r, Hold(w, r)
      PROVE  job'[w].url = job[w].url /\ job'[w].resp = r
  <2>1. job'[w] = [job[w] EXCEPT !.resp = r]
    BY <1>0, <1>4 DEF Hold
  <2> QED
    BY <1>0, <2>1 DEF Jobs
<1>5. CASE \E u \in Url, conditional \in BOOLEAN, get \in BOOLEAN :
             Accept(w, u, conditional, get)
  <2>1. pc'[w] \in {"check exist", "forward"} /\ sent'[w] = <<>>
    BY <1>0, <1>5 DEF Accept, Step
  <2>2. Sent(w)' = {}
    <3>1. ToSet(<<>>) = {}
      BY DEF ToSet
    <3> QED
      BY <2>1, <3>1 DEF Sent
  <2> QED
    BY <1>2, <2>1, <2>2 DEF Answers, Holding
<1>6. CASE CheckExist(w) \/ Check(w) \/ Fail(w)
  <2>1. PICK from \in {"check exist", "check", "fetch", "revalidate", "forward"},
             p \in {"check", "fetch", "hit", "validators", "idle"} : Step(w, from, p)
    <3>1. CASE CheckExist(w)
      <4>1. CASE Checkexist(job[w].url)
        BY <3>1, <4>1 DEF CheckExist
      <4>2. CASE ~Checkexist(job[w].url)
        BY <3>1, <4>2 DEF CheckExist
      <4> QED
        BY <4>1, <4>2
    <3>2. CASE Check(w)
      BY <3>2 DEF Check
    <3>3. CASE Fail(w)
      BY <3>3 DEF Fail
    <3> QED
      BY <1>6, <3>1, <3>2, <3>3
  <2>2. job' = job /\ sent' = sent
    BY <1>6 DEF CheckExist, Check, Fail
  <2>3. p \notin Holding
    BY DEF Holding
  <2> QED
    BY <1>3, <2>1, <2>2, <2>3
<1>7. CASE Hit(w) \/ Reread(w)
  <2>1. PICK from \in {"hit", "reread"} : Step(w, from, "reply")
    BY <1>7 DEF Hit, Reread
  <2>2. Hold(w, Cached(job[w].url)) /\ UNCHANGED sent /\ Valid(job[w].url)
    BY <1>7 DEF Hit, Reread, GetHit
  <2> QED
    BY <1>0, <1>3, <1>4, <2>1, <2>2
<1>8. CASE Validators(w)
  <2>1. job'[w] = [job[w] EXCEPT !.asked = @ \/ Cached(job[w].url).etag]
    BY <1>0, <1>8 DEF Validators
  <2>2. job'[w].url = job[w].url
    BY <1>0, <2>1 DEF Jobs
  <2> QED
    BY <1>3, <1>8, <2>2 DEF Validators, Holding
<1>9. ASSUME NEW r \in Reply[job[w].url],
             Revalidate(w, r) \/ Fetch(w, r) \/ Forward(w, r)
      PROVE  \A v \in Thread : Answers(v)'
  <2>1. job'[w] = [job[w] EXCEPT !.connected = TRUE, !.resp = r] /\ UNCHANGED sent
    BY <1>0, <1>9 DEF Revalidate, Fetch, Forward, GetResp
  <2>2. job'[w].url = job[w].url /\ job'[w].resp = r
    BY <1>0, <2>1 DEF Jobs
  <2>3. PICK from, p : Step(w, from, p)
    BY <1>9 DEF Revalidate, Fetch, Forward
  <2> QED
    BY <1>3, <2>1, <2>2, <2>3
<1>10. CASE Merge(w)
  <2>1. job[w].resp.url = job[w].url
    BY <1>10, UntilFullMerge DEF Merge, Step
  <2>2. /\ Hold(w, Cached(job[w].url)) /\ UNCHANGED sent /\ Step(w, "merge", "update")
        /\ Valid(job[w].url)
    BY <1>10, <2>1 DEF Merge, GetHit
  <2> QED
    BY <1>0, <1>3, <1>4, <2>2
<1>11. CASE Update(w) \/ Store(w)
  <2>1. PICK from \in {"update", "store"}, p \in {"reread", "reply"} : Step(w, from, p)
    BY <1>11 DEF Update, Store
  <2>2. job' = job /\ sent' = sent
    BY <1>11 DEF Update, Store
  <2>3. job[w].resp \in Reply[job[w].url]
    BY <1>0, <2>1 DEF Answers, Holding, Step
  <2> QED
    BY <1>3, <2>1, <2>2, <2>3
<1>12. CASE GetGone(w)
  BY <1>12 DEF GetGone, agentVars, UntilFullInv, Answers, Sent
<1>13. CASE Send(w)
  <2> DEFINE r == job[w].resp
             what == IF Parses(r) THEN <<r>> ELSE <<BadGateway, r>>
  <2>1. pc'[w] = "idle" /\ job' = job /\ sent'[w] = what
    BY <1>0, <1>13 DEF Send, Step
  <2>2. r \in Reply[job[w].url]
    BY <1>0, <1>13 DEF Send, Step, Answers, Holding
  <2>3. ToSet(what) \subseteq {r, BadGateway}
    BY DEF ToSet
  <2> HIDE DEF r, what
  <2>4. Sent(w)' \subseteq Reply[job[w].url]
    BY <2>1, <2>2, <2>3 DEF Sent
  <2> QED
    BY <1>2, <2>1, <2>4 DEF Answers, Holding
<1> QED
  BY <1>5, <1>6, <1>7, <1>8, <1>9, <1>10, <1>11, <1>12, <1>13 DEF Moves, Work

LEMMA UntilFullInit == Init => UntilFullInv
<1> SUFFICES ASSUME Init
             PROVE  UntilFullInv
  OBVIOUS
<1>1. FullInv
  BY FullInit DEF Init
<1>2. ASSUME NEW w \in Thread PROVE Answers(w)
  <2>1. pc[w] = "idle" /\ sent[w] = <<>>
    BY DEF Init
  <2>2. Sent(w) = {}
    BY <2>1 DEF Sent, ToSet
  <2> QED
    BY <2>1, <2>2 DEF Answers, Holding
<1> QED
  BY <1>1, <1>2, AgentInvInit DEF UntilFullInv

LEMMA UntilFullStep ==
  ASSUME OwnOrUnnamed, UntilFullInv, [Next]_vars
  PROVE  UntilFullInv' /\ (KeysFit' => KeysFit)
<1>1. AgentInv'
  BY AgentInvStep DEF UntilFullInv
<1>2. CASE UNCHANGED vars
  <2>1. undefined' \in BOOLEAN
    BY <1>2 DEF vars, cacheVars, UntilFullInv, FullInv, Structure, CacheTypeOK
  <2>2. FullInv' /\ (KeysFit' => KeysFit)
    BY <1>2, <2>1, FullStays DEF vars, cacheVars, UntilFullInv
  <2> QED
    BY <1>1, <1>2, <2>2 DEF UntilFullInv, vars, agentVars, Answers, Sent
<1>3. CASE Next
  <2>1. PICK w \in Thread : Moves(w)
    BY <1>3 DEF Next, Moves
  <2>2. FullInv' /\ (KeysFit' => KeysFit)
    BY <1>3, <2>1, UntilFullCalls DEF Next
  <2>3. KeysFit => \A v \in Thread : Answers(v)'
    BY <2>1, AnswersStep
  <2> QED
    BY <1>1, <2>2, <2>3 DEF UntilFullInv
<1> QED
  BY <1>2, <1>3

(* However many URLs are requested, whatever is evicted between two calls   *)
(* of a thread and however the threads interleave: until the map has one    *)
(* key more than the list can hold, every client is sent a response of the  *)
(* URL it asked for.  Responses have a header "Url" with their own URL or,  *)
(* like ordinary ones, none.                                                *)
THEOREM OwnResponseUntilFull ==
  ASSUME OwnOrUnnamed, \A u \in Url : \A r \in Reply[u] : r.of = u
  PROVE  Spec => []OwnUntilFull
<1>1. UntilFullInv => OwnUntilFull
  <2> SUFFICES ASSUME UntilFullInv, KeysFit, NEW w \in Thread, NEW r \in Sent(w)
               PROVE  r.of = job[w].url
    BY DEF OwnUntilFull, OwnResponse
  <2>1. job[w].url \in Url /\ r \in Reply[job[w].url]
    BY UntilFullFacts DEF Answers
  <2> QED
    BY <2>1
<1>2. UntilFullInv /\ [Next]_vars => UntilFullInv'
  BY UntilFullStep
<1> QED
  BY <1>1, <1>2, UntilFullInit, PTL DEF Spec

-----------------------------------------------------------------------------
(* Ordinary responses: no key is ever forgotten.                           *)

\* No header "Url", not chunked.
Ordinary == \A u \in Url : \A r \in Reply[u] : r.url = NoUrl /\ ~r.chunked

\* What thread w gets has a key; what it holds is ordinary, and what it is
\* about to put was sent for that URL.
Keeps(w) ==
  /\ pc[w] \in Getting => Checkexist(job[w].url)
  /\ pc[w] \in Holding => job[w].resp.url = NoUrl /\ ~job[w].resp.chunked
  /\ pc[w] \in {"update", "store"} => job[w].resp \in Reply[job[w].url]

OrdinaryInv ==
  /\ AgentInv
  /\ \A n \in Node : heap[n] # Freed => heap[n].url = NoUrl /\ ~heap[n].chunked
  /\ \A w \in Thread : Keeps(w)

LEMMA OrdinaryFacts ==
  ASSUME OrdinaryInv, NEW w \in Thread
  PROVE  /\ Structure /\ job[w] \in Jobs /\ job[w].url \in Url
         /\ pc \in [Thread -> Places] /\ job \in [Thread -> Jobs] /\ pc[w] # "merge"
         /\ Keeps(w)
         /\ \A u \in Url : Valid(u) => /\ Checkexist(u)
                                      /\ Cached(u).url = NoUrl /\ ~Cached(u).chunked
<1>1. \A u \in Url : Valid(u) => /\ Checkexist(u)
                                 /\ Cached(u).url = NoUrl /\ ~Cached(u).chunked
  BY CacheAssumption DEF OrdinaryInv, Valid, IsLive, Checkexist, Cached
<1>2. pc[w] # "merge"
  <2>1. HeldAt(pc[w], job[w]) /\ Keeps(w)
    BY DEF OrdinaryInv, AgentInv, Threads
  <2> QED
    BY <2>1, CacheAssumption DEF HeldAt, Keeps, Holding
<1> QED
  BY <1>1, <1>2 DEF OrdinaryInv, AgentInv, Threads, Jobs

\* A put() of an ordinary response forgets no key, whatever it evicts.
LEMMA OrdinaryPut ==
  ASSUME OrdinaryInv, NEW u \in Url, NEW r \in Reply[u], Ordinary, Put(u, r)
  PROVE  /\ Grows /\ Checkexist(u)'
         /\ \A n \in Node : heap'[n] # Freed => heap'[n].url = NoUrl /\ ~heap'[n].chunked
<1>0. /\ cacheList \in Seq(Node) /\ cache_map \in [Url -> Node \cup {NoNode}]
      /\ heap \in [Node -> Response \cup {Freed}] /\ Structure
      /\ r \in Response /\ r.url = NoUrl /\ ~r.chunked
  BY CacheAssumption DEF OrdinaryInv, AgentInv, Structure, CacheTypeOK, Ordinary
<1>1. \A n \in Node : heap'[n] # Freed => heap'[n].url = NoUrl /\ ~heap'[n].chunked
  <2>1. \A n \in Node : heap'[n] \in {heap[n], Freed, r}
    BY <1>0, PutHeap
  <2> QED
    BY <1>0, <2>1 DEF OrdinaryInv
<1>2. ASSUME NEW n \in Node, cache_map' = [cache_map EXCEPT ![u] = n]
      PROVE  Grows /\ Checkexist(u)'
  BY <1>0, <1>2, CacheAssumption DEF Grows, Checkexist
<1>3. CASE PutNew(u, r) \/ PutReplace(u, r)
  BY <1>1, <1>2, <1>3 DEF PutNew, PutReplace, PushFront
<1>4. CASE PutEvict(u, r)
  <2> DEFINE victim == Last(cacheList)
  <2>1. heap[victim].url = NoUrl
    <3>1. /\ Distinct(cacheList) /\ Len(cacheList) > 0
          /\ \A n \in Node : heap[n] # Freed <=> n \in ToSet(cacheList)
      BY <1>0, <1>4, LenProperties, CacheAssumption
         DEF PutEvict, Structure, ListOwnsNodes, Distinct, IsLive
    <3>2. victim \in ToSet(cacheList)
      BY <1>0, <3>1, FrontFacts, Zenon
    <3>3. victim \in Node
      BY <1>0, <3>2, LenProperties DEF ToSet
    <3> QED
      BY <3>1, <3>2, <3>3 DEF OrdinaryInv
  <2>2. EraseKeyOf(victim) = cache_map
    BY <1>0, <2>1, CacheAssumption DEF EraseKeyOf
  <2> QED
    BY <1>1, <1>2, <1>4, <2>2 DEF PutEvict, PushFront
<1>5. CASE PutInvalid(u)
  BY <1>1, <1>5 DEF PutInvalid, Grows, Checkexist
<1> QED
  BY <1>3, <1>4, <1>5 DEF Put

\* Every step of the threads is a step of the cache's specification or none,
\* and loses no key.
LEMMA OrdinaryCalls ==
  ASSUME Ordinary, OrdinaryInv, ~undefined, NEW w \in Thread, Moves(w)
  PROVE  /\ [CacheNext]_cacheVars /\ Grows
         /\ \A n \in Node : heap'[n] # Freed => heap'[n].url = NoUrl /\ ~heap'[n].chunked
<1> DEFINE Goal ==
      /\ [CacheNext]_cacheVars /\ Grows
      /\ \A n \in Node : heap'[n] # Freed => heap'[n].url = NoUrl /\ ~heap'[n].chunked
<1>0. /\ job[w].url \in Url /\ Keeps(w) /\ Structure /\ pc[w] # "merge"
      /\ \A u \in Url : Valid(u) => Checkexist(u)
  BY OrdinaryFacts
<1>1. ASSUME UNCHANGED <<cache_map, heap>>, [CacheNext]_cacheVars PROVE Goal
  BY <1>1 DEF Grows, Checkexist, OrdinaryInv
<1>2. ASSUME NEW u \in Url, Checkexist(u), Get(u) PROVE Goal
  <2>1. CacheNext
    BY <1>2 DEF CacheNext
  <2>2. UNCHANGED <<cache_map, heap>>
    BY <1>2 DEF Get, GetHit, GetInvalid
  <2> QED
    BY <1>1, <2>1, <2>2
<1>3. ASSUME NEW u \in Url, GetHit(u) PROVE Goal
  BY <1>0, <1>2, <1>3 DEF Get, GetHit
<1>4. CASE \E u \in Url, conditional \in BOOLEAN, get \in BOOLEAN :
             Accept(w, u, conditional, get)
  BY <1>1, <1>4 DEF Accept, cacheVars
<1>5. CASE CheckExist(w) \/ Fail(w)
  BY <1>1, <1>5 DEF CheckExist, Fail, cacheVars
<1>6. CASE Check(w) \/ Hit(w) \/ Validators(w) \/ Reread(w)
  BY <1>0, <1>3, <1>6 DEF Check, Hit, Validators, Reread
<1>7. CASE \E r \in Reply[job[w].url] : Revalidate(w, r) \/ Fetch(w, r) \/ Forward(w, r)
  BY <1>1, <1>7 DEF Revalidate, Fetch, Forward, GetResp, cacheVars
<1>8. CASE Merge(w)
  BY <1>0, <1>8 DEF Merge, Step
<1>9. CASE GetGone(w)
  <2>1. pc[w] \in Getting /\ GetInvalid(job[w].url)
    BY <1>0, <1>9 DEF GetGone, Getting
  <2> QED
    BY <1>0, <1>2, <2>1 DEF Keeps, Get
<1>10. CASE Update(w) \/ Store(w)
  <2>1. Put(job[w].url, job[w].resp) /\ pc[w] \in {"update", "store"}
    BY <1>10 DEF Update, Store, Step
  <2>2. job[w].resp \in Reply[job[w].url]
    BY <1>0, <2>1 DEF Keeps
  <2>3. CacheNext
    BY <1>0, <2>1, <2>2 DEF CacheNext
  <2> QED
    BY <1>0, <2>1, <2>2, <2>3, OrdinaryPut
<1>11. CASE Send(w)
  <2>1. /\ undefined' = (Parses(job[w].resp) /\ job[w].resp.chunked /\ ~job[w].connected)
        /\ UNCHANGED <<cacheList, cache_map, heap>>
        /\ pc[w] = "reply"
    BY <1>11 DEF Send, Step
  <2>2. ~job[w].resp.chunked
    BY <1>0, <2>1 DEF Keeps, Holding
  <2>3. ~undefined'
    BY <2>1, <2>2
  <2>4. undefined' \in BOOLEAN
    BY <2>1, Zenon
  <2>5. undefined \in BOOLEAN
    BY <1>0 DEF Structure, CacheTypeOK
  <2>6. UNCHANGED cacheVars
    BY <2>1, <2>3, <2>4, <2>5 DEF cacheVars
  <2> QED
    BY <1>1, <2>6 DEF cacheVars
<1> QED
  BY <1>4, <1>5, <1>6, <1>7, <1>8, <1>9, <1>10, <1>11 DEF Moves, Work

LEMMA KeepsStep ==
  ASSUME Ordinary, OrdinaryInv, Grows, NEW w \in Thread, Moves(w)
  PROVE  \A v \in Thread : Keeps(v)'
<1>0. /\ pc \in [Thread -> Places] /\ job \in [Thread -> Jobs] /\ pc[w] # "merge"
      /\ job[w] \in Jobs /\ job[w].url \in Url /\ Keeps(w)
      /\ \A u \in Url : Valid(u) => Cached(u).url = NoUrl /\ ~Cached(u).chunked
      /\ \A u \in Url : Valid(u) => Checkexist(u)
  BY OrdinaryFacts
<1>1. ASSUME NEW v \in Thread, v # w
      PROVE  Keeps(v)'
  <2>1. pc'[v] = pc[v] /\ job'[v] = job[v]
    BY <1>0, <1>1
       DEF Moves, Accept, Work, CheckExist, Check, Hit, Validators, Revalidate, Fetch,
           Forward, GetResp, Fail, Merge, Update, Reread, GetGone, agentVars, Store,
           Send, Step, Hold
  <2>2. Keeps(v) /\ job[v].url \in Url
    BY OrdinaryFacts
  <2> QED
    BY <2>1, <2>2 DEF Keeps, Grows
<1>2. ASSUME Keeps(w)'
      PROVE  \A v \in Thread : Keeps(v)'
  BY <1>1, <1>2
<1>3. ASSUME NEW from, NEW p, Step(w, from, p), job'[w].url = job[w].url,
             p \in Getting => Checkexist(job[w].url),
             p \in Holding => job'[w].resp.url = NoUrl /\ ~job'[w].resp.chunked,
             p \in {"update", "store"} => job'[w].resp \in Reply[job[w].url]
      PROVE  \A v \in Thread : Keeps(v)'
  <2>1. pc'[w] = p
    BY <1>0, <1>3 DEF Step
  <2>2. p \in Getting => Checkexist(job[w].url)'
    BY <1>0, <1>3 DEF Grows, Checkexist
  <2> QED
    BY <1>2, <1>3, <2>1, <2>2 DEF Keeps, Checkexist
<1>4. ASSUME NEW r, Hold(w, r)
      PROVE  job'[w].url = job[w].url /\ job'[w].resp = r
  <2>1. job'[w] = [job[w] EXCEPT !.resp = r]
    BY <1>0, <1>4 DEF Hold
  <2> QED
    BY <1>0, <2>1 DEF Jobs
<1>5. CASE \E u \in Url, conditional \in BOOLEAN, get \in BOOLEAN :
             Accept(w, u, conditional, get)
  <2>1. pc'[w] \in {"check exist", "forward"}
    BY <1>0, <1>5 DEF Accept, Step
  <2> QED
    BY <1>2, <2>1 DEF Keeps, Getting, Holding
<1>6. CASE CheckExist(w)
  <2>1. CASE Checkexist(job[w].url)
    BY <1>0, <1>3, <1>6, <2>1 DEF CheckExist, Holding
  <2>2. CASE ~Checkexist(job[w].url)
    BY <1>0, <1>3, <1>6, <2>2 DEF CheckExist, Getting, Holding
  <2> QED
    BY <2>1, <2>2
<1>7. CASE Check(w)
  <2>1. PICK p \in {"hit", "validators"} : Step(w, "check", p)
    BY <1>7 DEF Check
  <2>2. Checkexist(job[w].url) /\ job' = job
    BY <1>0, <1>7 DEF Check, GetHit
  <2> QED
    BY <1>3, <2>1, <2>2 DEF Holding
<1>8. CASE Hit(w) \/ Reread(w)
  <2>1. PICK from \in {"hit", "reread"} : Step(w, from, "reply")
    BY <1>8 DEF Hit, Reread
  <2>2. Hold(w, Cached(job[w].url)) /\ Valid(job[w].url)
    BY <1>8 DEF Hit, Reread, GetHit
  <2> QED
    BY <1>0, <1>3, <1>4, <2>1, <2>2 DEF Getting
<1>9. CASE Validators(w)
  <2>1. job'[w] = [job[w] EXCEPT !.asked = @ \/ Cached(job[w].url).etag]
    BY <1>0, <1>9 DEF Validators
  <2>2. job'[w].url = job[w].url
    BY <1>0, <2>1 DEF Jobs
  <2>3. Step(w, "validators", "revalidate") /\ Checkexist(job[w].url)
    BY <1>0, <1>9 DEF Validators, GetHit
  <2> QED
    BY <1>3, <2>2, <2>3 DEF Holding
<1>10. ASSUME NEW r \in Reply[job[w].url],
              Revalidate(w, r) \/ Fetch(w, r) \/ Forward(w, r)
       PROVE  \A v \in Thread : Keeps(v)'
  <2>1. job'[w] = [job[w] EXCEPT !.connected = TRUE, !.resp = r]
    BY <1>0, <1>10 DEF Revalidate, Fetch, Forward, GetResp
  <2>2. job'[w].url = job[w].url /\ job'[w].resp = r
    BY <1>0, <2>1 DEF Jobs
  <2>3. r.url = NoUrl /\ ~r.chunked
    BY <1>0 DEF Ordinary
  <2>4. CASE Revalidate(w, r)
    <3>1. PICK p \in {"update", "reply"} : Step(w, "revalidate", p)
      BY <2>3, <2>4 DEF Revalidate, AfterRevalidate
    <3> QED
      BY <1>3, <2>2, <2>3, <3>1 DEF Getting
  <2>5. CASE Fetch(w, r) \/ Forward(w, r)
    <3>1. PICK from \in {"fetch", "forward"}, p \in {"store", "reply"} : Step(w, from, p)
      BY <2>5 DEF Fetch, Forward
    <3> QED
      BY <1>3, <2>2, <2>3, <3>1 DEF Getting
  <2> QED
    BY <1>10, <2>4, <2>5
<1>11. CASE Fail(w)
  <2>1. PICK at \in {"fetch", "revalidate", "forward"} : Step(w, at, "idle")
    BY <1>11 DEF Fail
  <2> QED
    BY <1>3, <1>11, <2>1 DEF Fail, Getting, Holding
<1>12. CASE Merge(w)
  BY <1>0, <1>12 DEF Merge, Step
<1>13. CASE Update(w) \/ Store(w)
  <2>1. PICK from \in {"update", "store"}, p \in {"reread", "reply"} : Step(w, from, p)
    BY <1>13 DEF Update, Store
  <2>2. job' = job /\ Put(job[w].url, job[w].resp)
    BY <1>13 DEF Update, Store
  <2>3. /\ job[w].resp \in Reply[job[w].url]
        /\ job[w].resp.url = NoUrl /\ ~job[w].resp.chunked
    BY <1>0, <2>1 DEF Keeps, Holding, Step
  <2>4. Checkexist(job[w].url)'
    <3>1. ASSUME NEW u \in Url, NEW r \in Reply[u], Put(u, r)
          PROVE  cache_map'[u] # NoNode
      BY <3>1, OrdinaryPut DEF Checkexist
    <3> QED
      BY <1>0, <2>2, <2>3, <3>1 DEF Checkexist
  <2>5. pc'[w] = p
    BY <1>0, <2>1 DEF Step
  <2> QED
    BY <1>2, <2>2, <2>3, <2>4, <2>5 DEF Keeps
<1>14. CASE GetGone(w)
  BY <1>0, <1>2, <1>14 DEF GetGone, agentVars, Keeps, Grows
<1>15. CASE Send(w)
  <2>1. Step(w, "reply", "idle") /\ job' = job
    BY <1>15 DEF Send
  <2> QED
    BY <1>3, <2>1 DEF Getting, Holding
<1> QED
  BY <1>5, <1>6, <1>7, <1>8, <1>9, <1>10, <1>11, <1>12, <1>13, <1>14, <1>15
     DEF Moves, Work

LEMMA OrdinaryInit == Init => OrdinaryInv
BY AgentInvInit DEF Init, CacheInit, OrdinaryInv, Keeps, Getting, Holding

LEMMA OrdinaryStep ==
  ASSUME Ordinary, OrdinaryInv, [Next]_vars
  PROVE  OrdinaryInv' /\ [CacheNext]_cacheVars
<1>1. AgentInv'
  BY AgentInvStep DEF OrdinaryInv
<1>2. CASE UNCHANGED vars
  BY <1>1, <1>2 DEF vars, cacheVars, agentVars, OrdinaryInv, Keeps, Checkexist
<1>3. CASE Next
  <2>1. PICK w \in Thread : Moves(w)
    BY <1>3 DEF Next, Moves
  <2>2. /\ [CacheNext]_cacheVars /\ Grows
        /\ \A n \in Node : heap'[n] # Freed => heap'[n].url = NoUrl /\ ~heap'[n].chunked
    BY <1>3, <2>1, OrdinaryCalls DEF Next
  <2>3. \A v \in Thread : Keeps(v)'
    BY <2>1, <2>2, KeepsStep
  <2> QED
    BY <1>1, <2>2, <2>3 DEF OrdinaryInv
<1> QED
  BY <1>2, <1>3

(* With ordinary responses the threads use the cache as it asks for any     *)
(* number of URLs and threads: though puts evict between the checkexist()   *)
(* and the get()s of another thread, every get() finds its key, because no  *)
(* eviction forgets one.  That there is a node behind it is ExactUntilFull: *)
(* until the map has a key too many.                                        *)
THEOREM OrdinaryUseCacheAsAsked ==
  ASSUME Ordinary
  PROVE  Spec => UsesCacheAsAsked /\ []DefinedUntilFull
<1>1. Init => CacheInit /\ OrdinaryInv
  BY OrdinaryInit DEF Init
<1>2. OrdinaryInv /\ [Next]_vars => OrdinaryInv' /\ [CacheNext]_cacheVars
  BY OrdinaryStep
<1>3. CacheSpec => [](MatchedUntilFull /\ DefinedUntilFull)
  BY ExactUntilFull DEF Ordinary, OwnOrUnnamed
<1> QED
  BY <1>1, <1>2, <1>3, PTL DEF Spec, UsesCacheAsAsked, CacheSpec

-----------------------------------------------------------------------------
(* A no-cache response and the origin.                                     *)

\* What thread w puts or gets again after that, it has been to the origin for;
\* so it has when it holds a no-cache response to send.
Visited(w) ==
  /\ pc[w] \in {"merge", "update", "reread", "store"} => job[w].connected
  /\ pc[w] = "reply" /\ job[w].resp.cc = "no-cache" => job[w].connected
  /\ \A r \in Sent(w) : r.cc = "no-cache" => job[w].connected

\* One thread: the entry that check() has found good is still there.
Alone == \A v, w \in Thread : v = w
Unchanged(w) ==
  pc[w] = "hit" /\ Valid(job[w].url) => Cached(job[w].url).cc # "no-cache"
AloneInv == AgentInv /\ \A w \in Thread : Visited(w) /\ Unchanged(w)

\* Origins that say no-cache of a URL always or never: what check() has found
\* of one response holds of the next.
Steady ==
  \A u \in Url : \A q, r \in Reply[u] : q.cc = "no-cache" => r.cc = "no-cache"
HitsPlain(w) == pc[w] = "hit" => \A r \in Reply[job[w].url] : r.cc # "no-cache"
SteadyInv == \A w \in Thread : Visited(w) /\ HitsPlain(w)

-----------------------------------------------------------------------------
LEMMA MoverVisited ==
  ASSUME NEW w \in Thread, Visited(w), sent'[w] = sent[w],
         job[w].connected => job'[w].connected,
         pc'[w] \in {"merge", "update", "reread", "store"} => job'[w].connected,
         pc'[w] = "reply" /\ job'[w].resp.cc = "no-cache" => job'[w].connected
  PROVE  Visited(w)'
BY DEF Visited, Sent

\* Only a hit answers without the origin.
LEMMA VisitedStep ==
  ASSUME AgentInv, \A v \in Thread : Visited(v), NEW w \in Thread, Moves(w),
         Hit(w) => Cached(job[w].url).cc # "no-cache"
  PROVE  \A v \in Thread : Visited(v)'
<1>0. /\ pc \in [Thread -> Places] /\ job \in [Thread -> Jobs]
      /\ sent \in [Thread -> Seq(Response \cup {BadGateway})]
      /\ job[w] \in Jobs /\ Visited(w)
  BY DEF AgentInv, Threads, SentOK
<1>1. ASSUME NEW v \in Thread, v # w
      PROVE  pc'[v] = pc[v] /\ job'[v] = job[v] /\ sent'[v] = sent[v]
  BY <1>0, <1>1
     DEF Moves, Accept, Work, CheckExist, Check, Hit, Validators, Revalidate, Fetch,
         Forward, GetResp, Fail, Merge, Update, Reread, GetGone, agentVars, Store,
         Send, Step, Hold
<1>2. ASSUME Visited(w)'
      PROVE  \A v \in Thread : Visited(v)'
  <2>1. ASSUME NEW v \in Thread, v # w PROVE Visited(v)'
    BY <1>1, <2>1 DEF Visited, Sent
  <2> QED
    BY <1>2, <2>1
<1>3. ASSUME NEW from, NEW p, Step(w, from, p), UNCHANGED sent,
             job[w].connected => job'[w].connected,
             p \in {"merge", "update", "reread", "store"} => job'[w].connected,
             p = "reply" /\ job'[w].resp.cc = "no-cache" => job'[w].connected
      PROVE  \A v \in Thread : Visited(v)'
  <2>1. pc'[w] = p
    BY <1>0, <1>3 DEF Step
  <2> QED
    BY <1>0, <1>2, <1>3, <2>1, MoverVisited
<1>4. ASSUME NEW r, Hold(w, r)
      PROVE  job'[w].connected = job[w].connected /\ job'[w].resp = r
  <2>1. job'[w] = [job[w] EXCEPT !.resp = r]
    BY <1>0, <1>4 DEF Hold
  <2> QED
    BY <1>0, <2>1 DEF Jobs
<1>5. CASE \E u \in Url, conditional \in BOOLEAN, get \in BOOLEAN :
             Accept(w, u, conditional, get)
  <2>1. pc'[w] \in {"check exist", "forward"} /\ sent'[w] = <<>>
    BY <1>0, <1>5 DEF Accept, Step
  <2>2. Sent(w)' = {}
    <3>1. ToSet(<<>>) = {}
      BY DEF ToSet
    <3> QED
      BY <2>1, <3>1 DEF Sent
  <2> QED
    BY <1>2, <2>1, <2>2 DEF Visited
<1>6. CASE CheckExist(w) \/ Check(w) \/ Fail(w)
  <2>1. PICK from \in {"check exist", "check", "fetch", "revalidate", "forward"},
             p \in {"check", "fetch", "hit", "validators", "idle"} : Step(w, from, p)
    <3>1. CASE CheckExist(w)
      <4>1. CASE Checkexist(job[w].url)
        BY <3>1, <4>1 DEF CheckExist
      <4>2. CASE ~Checkexist(job[w].url)
        BY <3>1, <4>2 DEF CheckExist
      <4> QED
        BY <4>1, <4>2
    <3>2. CASE Check(w)
      BY <3>2 DEF Check
    <3>3. CASE Fail(w)
      BY <3>3 DEF Fail
    <3> QED
      BY <1>6, <3>1, <3>2, <3>3
  <2>2. job' = job /\ sent' = sent
    BY <1>6 DEF CheckExist, Check, Fail
  <2> QED
    BY <1>3, <2>1, <2>2
<1>7. CASE Hit(w)
  <2>1. Step(w, "hit", "reply") /\ Hold(w, Cached(job[w].url)) /\ UNCHANGED sent
    BY <1>7 DEF Hit
  <2> QED
    BY <1>3, <1>4, <1>7, <2>1
<1>8. CASE Reread(w)
  <2>1. Step(w, "reread", "reply") /\ Hold(w, Cached(job[w].url)) /\ UNCHANGED sent
    BY <1>8 DEF Reread
  <2>2. job[w].connected
    BY <1>0, <2>1 DEF Step, Visited
  <2> QED
    BY <1>3, <1>4, <2>1, <2>2
<1>9. CASE Validators(w)
  <2>1. /\ job'[w] = [job[w] EXCEPT !.asked = @ \/ Cached(job[w].url).etag]
        /\ Step(w, "validators", "revalidate") /\ UNCHANGED sent
    BY <1>0, <1>9 DEF Validators
  <2>2. job'[w].connected = job[w].connected
    BY <1>0, <2>1 DEF Jobs
  <2> QED
    BY <1>3, <2>1, <2>2
<1>10. ASSUME NEW r \in Reply[job[w].url],
              Revalidate(w, r) \/ Fetch(w, r) \/ Forward(w, r)
       PROVE  \A v \in Thread : Visited(v)'
  <2>1. job'[w] = [job[w] EXCEPT !.connected = TRUE, !.resp = r] /\ UNCHANGED sent
    BY <1>0, <1>10 DEF Revalidate, Fetch, Forward, GetResp
  <2>2. job'[w].connected
    BY <1>0, <2>1 DEF Jobs
  <2>3. PICK from, p : Step(w, from, p)
    BY <1>10 DEF Revalidate, Fetch, Forward
  <2> QED
    BY <1>3, <2>1, <2>2, <2>3
<1>11. CASE Merge(w)
  <2> DEFINE held == Cached(job[w].resp.url)
  <2>1. Step(w, "merge", "update") /\ Hold(w, held) /\ UNCHANGED sent
    BY <1>11 DEF Merge
  <2>2. job[w].connected
    BY <1>0, <2>1 DEF Step, Visited
  <2> HIDE DEF held
  <2> QED
    BY <1>3, <1>4, <2>1, <2>2
<1>12. CASE Update(w) \/ Store(w)
  <2>1. PICK from \in {"update", "store"}, p \in {"reread", "reply"} : Step(w, from, p)
    BY <1>12 DEF Update, Store
  <2>2. job' = job /\ sent' = sent
    BY <1>12 DEF Update, Store
  <2>3. job[w].connected
    BY <1>0, <2>1 DEF Step, Visited
  <2> QED
    BY <1>3, <2>1, <2>2, <2>3
<1>13. CASE GetGone(w)
  BY <1>13 DEF GetGone, agentVars, Visited, Sent
<1>14. CASE Send(w)
  <2> DEFINE r == job[w].resp
             what == IF Parses(r) THEN <<r>> ELSE <<BadGateway, r>>
  <2>1. pc'[w] = "idle" /\ job' = job /\ sent'[w] = what
    BY <1>0, <1>14 DEF Send, Step
  <2>2. r.cc = "no-cache" => job[w].connected
    BY <1>0, <1>14 DEF Send, Step, Visited
  <2>3. ToSet(what) \subseteq {r, BadGateway}
    BY DEF ToSet
  <2> HIDE DEF r, what
  <2>4. Sent(w)' \subseteq {r}
    BY <2>1, <2>3 DEF Sent
  <2> QED
    BY <1>2, <2>1, <2>2, <2>4 DEF Visited
<1> QED
  BY <1>5, <1>6, <1>7, <1>8, <1>9, <1>10, <1>11, <1>12, <1>13, <1>14 DEF Moves, Work

\* A thread is about to answer with a hit because check() found one, or was
\* before, and no get() or put() of its own has intervened.
LEMMA ReachesHit ==
  ASSUME AgentInv, NEW w \in Thread, Moves(w), NEW v \in Thread, pc'[v] = "hit"
  PROVE  /\ job'[v] = job[v]
         /\ \/ pc[v] = "hit" /\ (v = w => GetGone(w))
            \/ v = w /\ Check(w) /\ Cached(job[w].url).cc # "no-cache"
<1>0. /\ pc \in [Thread -> Places] /\ job \in [Thread -> Jobs]
  BY DEF AgentInv, Threads
<1>1. CASE v # w
  BY <1>0, <1>1
     DEF Moves, Accept, Work, CheckExist, Check, Hit, Validators, Revalidate, Fetch,
         Forward, GetResp, Fail, Merge, Update, Reread, GetGone, agentVars, Store,
         Send, Step, Hold
<1>2. CASE v = w
  <2>1. ASSUME NEW from, NEW p, Step(w, from, p) PROVE p = "hit"
    BY <1>0, <1>2, <2>1 DEF Step
  <2>2. CASE \E u \in Url, conditional \in BOOLEAN, get \in BOOLEAN :
               Accept(w, u, conditional, get)
    BY <2>1, <2>2 DEF Accept
  <2>3. CASE CheckExist(w)
    BY <2>1, <2>3 DEF CheckExist
  <2>4. CASE Check(w)
    <3>1. CASE Step(w, "check", "validators")
      BY <2>1, <3>1
    <3>2. CASE Cached(job[w].url).cc # "no-cache"
      BY <1>2, <2>4, <3>2 DEF Check
    <3> QED
      BY <2>4, <3>1, <3>2 DEF Check
  <2>5. CASE Hit(w) \/ Validators(w) \/ Merge(w) \/ Update(w) \/ Reread(w) \/ Store(w) \/ Send(w)
    BY <2>1, <2>5 DEF Hit, Validators, Merge, Update, Reread, Store, Send
  <2>6. ASSUME NEW r, Revalidate(w, r) \/ Fetch(w, r) \/ Forward(w, r) PROVE FALSE
    <3>1. AfterRevalidate(r) # "hit"
      BY DEF AfterRevalidate
    <3> QED
      BY <2>1, <2>6, <3>1 DEF Revalidate, Fetch, Forward
  <2>7. CASE Fail(w)
    <3>1. PICK at \in {"fetch", "revalidate", "forward"} : Step(w, at, "idle")
      BY <2>7 DEF Fail
    <3> QED
      BY <2>1, <3>1
  <2>8. CASE GetGone(w)
    BY <1>2, <2>8 DEF GetGone, agentVars
  <2> QED
    BY <2>2, <2>3, <2>4, <2>5, <2>6, <2>7, <2>8 DEF Moves, Work
<1> QED
  BY <1>1, <1>2

LEMMA VisitedSent ==
  (\A w \in Thread : Visited(w)) => NoCacheValidated
BY DEF Visited, NoCacheValidated

LEMMA VisitedInit ==
  ASSUME Init, NEW w \in Thread
  PROVE  Visited(w) /\ pc[w] # "hit"
<1>1. pc[w] = "idle" /\ sent[w] = <<>>
  BY DEF Init
<1>2. Sent(w) = {}
  <2>1. ToSet(<<>>) = {}
    BY DEF ToSet
  <2> QED
    BY <1>1, <2>1 DEF Sent
<1> QED
  BY <1>1, <1>2 DEF Visited

LEMMA VisitedStutters ==
  ASSUME UNCHANGED vars, NEW w \in Thread
  PROVE  /\ Visited(w) => Visited(w)'
         /\ Unchanged(w) => Unchanged(w)'
         /\ HitsPlain(w) => HitsPlain(w)'
BY DEF vars, agentVars, cacheVars, Visited, Sent, Unchanged, HitsPlain, Valid, IsLive, Cached

-----------------------------------------------------------------------------
(* A response with no-cache is sent only after a visit to the origin, if    *)
(* requests come one at a time: between check() and the get() that answers, *)
(* nobody else puts another response there.  Evictions, and entries they    *)
(* leave dangling, change nothing of that.                                  *)
THEOREM NoCacheValidatedAlone ==
  ASSUME Alone
  PROVE  Spec => []NoCacheValidated
<1>1. ASSUME Init PROVE AloneInv
  BY <1>1, VisitedInit, AgentInvInit DEF AloneInv, Unchanged
<1>2. ASSUME AloneInv, [Next]_vars PROVE AloneInv'
  <2>1. AgentInv'
    BY <1>2, AgentInvStep DEF AloneInv
  <2>2. CASE UNCHANGED vars
    BY <1>2, <2>1, <2>2, VisitedStutters DEF AloneInv
  <2>3. CASE Next
    <3>1. PICK w \in Thread : Moves(w)
      BY <2>3 DEF Next, Moves
    <3>2. Hit(w) => Cached(job[w].url).cc # "no-cache"
      BY <1>2 DEF Hit, Step, GetHit, AloneInv, Unchanged
    <3>3. \A v \in Thread : Visited(v)'
      BY <1>2, <3>1, <3>2, VisitedStep DEF AloneInv
    <3>4. ASSUME NEW v \in Thread, pc'[v] = "hit", Valid(job[v].url)'
          PROVE  (Cached(job[v].url).cc)' # "no-cache"
      <4>1. v = w
        BY DEF Alone
      <4>2. /\ job'[w] = job[w]
            /\ \/ pc[w] = "hit" /\ GetGone(w)
               \/ Check(w) /\ Cached(job[w].url).cc # "no-cache"
        BY <1>2, <3>1, <3>4, <4>1, ReachesHit DEF AloneInv
      <4>3. UNCHANGED <<cache_map, heap>>
        BY <4>2 DEF GetGone, GetInvalid, Check, GetHit
      <4> QED
        BY <1>2, <3>4, <4>1, <4>2, <4>3 DEF AloneInv, Unchanged, Valid, IsLive, Cached
    <3> QED
      BY <2>1, <3>3, <3>4 DEF AloneInv, Unchanged
  <2> QED
    BY <1>2, <2>2, <2>3
<1>3. AloneInv => NoCacheValidated
  BY VisitedSent DEF AloneInv
<1> QED
  BY <1>1, <1>2, <1>3, PTL DEF Spec

LEMMA SteadyStep ==
  ASSUME Steady, AgentInv, KeysFit => HitsOwn, KeysFit => SteadyInv, [Next]_vars, KeysFit
  PROVE  SteadyInv'
<1>1. CASE UNCHANGED vars
  BY <1>1, VisitedStutters DEF SteadyInv
<1>2. CASE Next
  <2>1. PICK w \in Thread : Moves(w)
    BY <1>2 DEF Next, Moves
  <2>2. HitsOwn /\ job[w].url \in Url
    BY DEF AgentInv, Threads, Jobs
  <2>3. Hit(w) => Cached(job[w].url).cc # "no-cache"
    BY <2>2 DEF Hit, Step, GetHit, HitsOwn, SteadyInv, HitsPlain
  <2>4. \A v \in Thread : Visited(v)'
    BY <2>1, <2>3, VisitedStep DEF SteadyInv
  <2>5. ASSUME NEW v \in Thread, pc'[v] = "hit"
        PROVE  \A r \in Reply[job'[v].url] : r.cc # "no-cache"
    <3>1. /\ job'[v] = job[v]
          /\ \/ pc[v] = "hit"
             \/ v = w /\ Check(w) /\ Cached(job[w].url).cc # "no-cache"
      BY <2>1, <2>5, ReachesHit
    <3>2. CASE pc[v] = "hit"
      BY <3>1, <3>2 DEF SteadyInv, HitsPlain
    <3>3. CASE v = w /\ Check(w) /\ Cached(job[w].url).cc # "no-cache"
      <4>1. Cached(job[w].url) \in Reply[job[w].url]
        BY <2>2, <3>3 DEF Check, GetHit, HitsOwn
      <4> QED
        BY <2>2, <3>1, <3>3, <4>1 DEF Steady
    <3> QED
      BY <3>1, <3>2, <3>3
  <2> QED
    BY <2>4, <2>5 DEF SteadyInv, HitsPlain
<1> QED
  BY <1>1, <1>2

(* It is so for any number of threads and whatever is evicted, if each      *)
(* origin says no-cache of a URL always or never, until the map has a key   *)
(* too many: what the other threads have put under the URL meanwhile is     *)
(* such another response.  That some origin must change its mind is what    *)
(* no_cache_race shows.                                                     *)
THEOREM NoCacheValidatedSteady ==
  ASSUME Steady, OwnOrUnnamed
  PROVE  Spec => [](KeysFit => NoCacheValidated)
<1>1. Init => UntilFullInv /\ SteadyInv
  BY UntilFullInit, VisitedInit DEF SteadyInv, HitsPlain
<1>2. UntilFullInv /\ (KeysFit => SteadyInv) /\ [Next]_vars
      => UntilFullInv' /\ (KeysFit => SteadyInv)'
  <2> SUFFICES ASSUME UntilFullInv, KeysFit => SteadyInv, [Next]_vars
               PROVE  UntilFullInv' /\ (KeysFit' => SteadyInv')
    OBVIOUS
  <2>1. UntilFullInv' /\ (KeysFit' => KeysFit)
    BY UntilFullStep
  <2>2. AgentInv /\ (KeysFit => HitsOwn)
    BY FullHits DEF UntilFullInv
  <2>3. KeysFit => SteadyInv'
    BY <2>2, SteadyStep
  <2> QED
    BY <2>1, <2>3
<1>3. SteadyInv => NoCacheValidated
  BY VisitedSent DEF SteadyInv
<1> QED
  BY <1>1, <1>2, <1>3, PTL DEF Spec

=============================================================================
