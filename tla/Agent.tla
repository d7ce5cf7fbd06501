------------------------------- MODULE Agent --------------------------------
(***************************************************************************)
(* The worker threads: HttpServer::process() for requests that parsed and  *)
(* are not CONNECT, and agent::getCorrespondResp() with the functions it   *)
(* calls.  Every connection has a thread of its own; the threads share the *)
(* cache and nothing protects a sequence of calls to it, so a thread that  *)
(* has checked an entry looks at it again two or three times and may find  *)
(* another response there each time.                                       *)
(*                                                                         *)
(* What the responses differ in, besides their "Url" header (see Cache):   *)
(*   of      the URL the origin sent it for                                *)
(*   status  "200", "304", "other", or "bad" when it does not parse        *)
(*   cc      "plain", "no-cache", or "no-store", which stands for private  *)
(*           as well                                                       *)
(*   etag    it carries a validator, ETag or Last-Modified                 *)
(*   chunked its Transfer-Encoding is chunked                              *)
(***************************************************************************)
EXTENDS Cache

CONSTANTS
  Thread,
  NoResponse,   \* the null pointer
  BadGateway    \* BAD_GATEWAY_502

ASSUME UrlAssumption == Url # {}

VARIABLES
  pc,           \* where each thread is
  job,          \* its request, its client to the origin, the response it holds
  sent          \* what it has sent to the client that connected to it

agentVars == <<pc, job, sent>>
vars      == <<cacheVars, agentVars>>

Jobs == [url         : Url,
         conditional : BOOLEAN,  \* the client sent If-None-Match or the like
         asked       : BOOLEAN,  \* the request to the origin has them
         connected   : BOOLEAN,  \* client.init() was called
         resp        : Response \cup {NoResponse}]

Init ==
  /\ CacheInit
  /\ pc = [w \in Thread |-> "idle"]
  /\ job \in [Thread -> {[url |-> CHOOSE u \in Url : TRUE, conditional |-> FALSE,
                          asked |-> FALSE, connected |-> FALSE, resp |-> NoResponse]}]
  /\ sent = [w \in Thread |-> <<>>]

Step(w, from, to) ==
  /\ pc[w] = from
  /\ pc' = [pc EXCEPT ![w] = to]

Hold(w, r) == job' = [job EXCEPT ![w].resp = r]

Parses(r)    == r.status # "bad"
Cacheable(r) == r.cc # "no-store"   \* checkCachebility()

-----------------------------------------------------------------------------
\* A connection is accepted and its request parsed; only GET is looked up.
Accept(w, u, conditional, get) ==
  /\ Step(w, "idle", IF get THEN "check exist" ELSE "forward")
  /\ job' = [job EXCEPT ![w] = [url |-> u, conditional |-> conditional,
                                asked |-> conditional, connected |-> FALSE,
                                resp |-> NoResponse]]
  /\ sent' = [sent EXCEPT ![w] = <<>>]
  /\ UNCHANGED cacheVars

\* Slip: get() is called without asking.
CheckExistSkipped(w) ==
  /\ Step(w, "check exist", "check")
  /\ UNCHANGED <<cacheVars, job, sent>>

CheckExist(w) ==
  /\ Step(w, "check exist", IF Checkexist(job[w].url) THEN "check" ELSE "fetch")
  /\ UNCHANGED <<cacheVars, job, sent>>

\* Slip: no-cache is not looked for.
CheckWithoutNoCache(w) ==
  /\ GetHit(job[w].url)
  /\ Step(w, "check", "hit") \/ Step(w, "check", "validators")
  /\ UNCHANGED <<job, sent>>

\* check() reads the entry and decides; Freshness has how.  Here a response
\* without no-cache may turn out fresh or stale.
Check(w) ==
  /\ GetHit(job[w].url)
  /\ \/ Step(w, "check", "hit") /\ Cached(job[w].url).cc # "no-cache"
     \/ Step(w, "check", "validators")
  /\ UNCHANGED <<job, sent>>

\* Slip: the answer is the list's front, read before get() moves the entry.
HitFront(w) ==
  /\ Step(w, "hit", "reply")
  /\ GetHit(job[w].url)
  /\ Hold(w, heap[Head(cacheList)])
  /\ UNCHANGED sent

\* ContainedAndValid: get the entry again and answer with it.
Hit(w) ==
  /\ Step(w, "hit", "reply")
  /\ GetHit(job[w].url)
  /\ Hold(w, Cached(job[w].url))
  /\ UNCHANGED sent

\* ContainedAndNeedRevalidate: getRevalidreq() gets the entry again and adds
\* its validators to the request.
Validators(w) ==
  /\ Step(w, "validators", "revalidate")
  /\ GetHit(job[w].url)
  /\ job' = [job EXCEPT ![w].asked = @ \/ Cached(job[w].url).etag]
  /\ UNCHANGED sent

-----------------------------------------------------------------------------
\* GetResp(): the origin answers, with 304 only if asked conditionally.
GetResp(w, r) ==
  /\ r.status = "304" => job[w].asked
  /\ job' = [job EXCEPT ![w].connected = TRUE, ![w].resp = r]
  /\ UNCHANGED <<cacheVars, sent>>

\* GetResp() fails, or the request with validators does not parse: the
\* connection is closed without an answer.
Fail(w) ==
  /\ \E at \in {"fetch", "revalidate", "forward"} : Step(w, at, "idle")
  /\ UNCHANGED <<cacheVars, job, sent>>

\* Slip: the branch of what may not be stored does not return.
AfterRevalidateNoReturn(r) ==
  IF r.status \notin {"200", "304"}
  THEN "reply"
  ELSE IF Cacheable(r) THEN "update" ELSE "fell through"

\* Slip: what may not be stored is not told apart.
AfterRevalidateStoresAll(r) ==
  IF r.status \notin {"200", "304"} THEN "reply" ELSE "update"

AfterRevalidate(r) ==
  IF r.status \notin {"200", "304"} \/ ~Cacheable(r)
  THEN "reply"
  ELSE IF r.status = "304" /\ r.url # NoUrl THEN "merge" ELSE "update"

Revalidate(w, r) == Step(w, "revalidate", AfterRevalidate(r)) /\ GetResp(w, r)

\* Slip: what may not be stored is not told apart.
FetchStoresAll(w, r) ==
  /\ Step(w, "fetch", IF r.status = "200" THEN "store" ELSE "reply")
  /\ GetResp(w, r)

Fetch(w, r) ==
  /\ Step(w, "fetch", IF r.status = "200" /\ Cacheable(r) THEN "store" ELSE "reply")
  /\ GetResp(w, r)

Forward(w, r) == Step(w, "forward", "reply") /\ GetResp(w, r)

-----------------------------------------------------------------------------
\* updateResponse(): the headers of a 304 are edited into a copy of the
\* response cached under the 304's own "Url" header.  The edits reach only
\* the copy's rawData, not the fields and not the text that is read back.
\* A 304 without that header is returned as it is.
Merge(w) ==
  /\ Step(w, "merge", "update")
  /\ LET host == job[w].resp.url
     IN  GetHit(host) /\ Hold(w, Cached(host))
  /\ UNCHANGED sent

\* put() after revalidation, then get() what the client is to be sent.
Update(w) ==
  /\ Step(w, "update", "reread")
  /\ Put(job[w].url, job[w].resp)
  /\ UNCHANGED <<job, sent>>

Reread(w) ==
  /\ Step(w, "reread", "reply")
  /\ GetHit(job[w].url)
  /\ Hold(w, Cached(job[w].url))
  /\ UNCHANGED sent

\* Any of these get()s finds the entry gone, or its iterator dangling.
GetGone(w) ==
  /\ \/ pc[w] \in {"check", "hit", "validators", "reread"} /\ GetInvalid(job[w].url)
     \/ pc[w] = "merge" /\ GetInvalid(job[w].resp.url)
  /\ UNCHANGED agentVars

\* put() after a miss; the client is sent what was fetched.
Store(w) ==
  /\ Step(w, "store", "reply")
  /\ Put(job[w].url, job[w].resp)
  /\ UNCHANGED <<job, sent>>

-----------------------------------------------------------------------------
\* The end of process(): a response that does not parse is announced with a
\* 502 and then sent as well.  For a chunked one process_chunked() goes on
\* to read from the origin, through a null pointer if there is no connection.
Send(w) ==
  /\ Step(w, "reply", "idle")
  /\ LET r == job[w].resp
     IN  /\ sent' = [sent EXCEPT ![w] = IF Parses(r) THEN <<r>> ELSE <<BadGateway, r>>]
         /\ undefined' = (Parses(r) /\ r.chunked /\ ~job[w].connected)
  /\ UNCHANGED <<cacheList, cache_map, heap, job>>

-----------------------------------------------------------------------------
Work(w) ==
  \/ CheckExist(w) \/ Check(w) \/ Hit(w) \/ Validators(w)
  \/ \E r \in Reply[job[w].url] : Revalidate(w, r) \/ Fetch(w, r) \/ Forward(w, r)
  \/ Fail(w)
  \/ Merge(w) \/ Update(w) \/ Reread(w) \/ GetGone(w) \/ Store(w)
  \/ Send(w)

Next ==
  /\ ~undefined
  /\ \E w \in Thread :
       \/ \E u \in Url, conditional \in BOOLEAN, get \in BOOLEAN : Accept(w, u, conditional, get)
       \/ Work(w)

Spec == Init /\ [][Next]_vars

-----------------------------------------------------------------------------
\* Every variable holds a value of its kind.
AgentTypeOK ==
  /\ CacheTypeOK
  /\ pc \in [Thread -> {"idle", "check exist", "check", "hit", "validators",
                        "revalidate", "fetch", "forward", "merge", "update",
                        "reread", "store", "reply"}]
  /\ job \in [Thread -> Jobs]
  /\ \A w \in Thread : sent[w] \in Seq(Response \cup {BadGateway})

Sent(w) == ToSet(sent[w]) \ {BadGateway}

(* What a client is sent is what the origin sent for the URL it asked for,  *)
(* whatever the other threads put into the cache meanwhile: the cache maps  *)
(* a URL to its response ("map<url,reponse>", cache.h).                     *)
OwnResponse == \A w \in Thread : \A r \in Sent(w) : r.of = job[w].url

(* OwnResponse for as long as the map's keys fit in the list: what two      *)
(* threads do between each other's checkexist(), get() and put() never      *)
(* confuses two URLs, evictions included.  Past that a dangling entry may   *)
(* find another URL's response at its reused address.                       *)
OwnUntilFull == KeysFit => OwnResponse

(* Nothing the origin forbids to store is in the cache, nor anything but    *)
(* what answers a 200 or a revalidation, at any moment of any interleaving. *)
OnlyCacheableCached ==
  \A n \in ToSet(cacheList) : Cacheable(heap[n]) /\ heap[n].status \in {"200", "304"}

(* The threads use the cache as cache.h asks: each get() comes when the     *)
(* entry is there, whatever happened since the thread called checkexist().  *)
UsesCacheAsAsked == CacheSpec

(* "cached, but requires re-validation / in cache, requires validation"     *)
(* (test.py, no-cache): a no-cache response is sent only by a thread that   *)
(* has been to the origin.                                                  *)
NoCacheValidated ==
  \A w \in Thread : \A r \in Sent(w) : r.cc = "no-cache" => job[w].connected
=============================================================================
