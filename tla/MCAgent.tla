------------------------------ MODULE MCAgent -------------------------------
(* Instances of the worker threads for TLC. *)
EXTENDS Agent

Ok(u) == [url |-> NoUrl, of |-> u, status |-> "200", cc |-> "plain",
          etag |-> TRUE, chunked |-> FALSE]

\* What two threads can race over: a response to keep, one to validate each
\* time, one not to keep, and a 304.
Races(u) == {Ok(u), [Ok(u) EXCEPT !.cc = "no-cache"], [Ok(u) EXCEPT !.cc = "no-store"],
             [Ok(u) EXCEPT !.status = "304"]}

\* One URL has them all; the others push it out of the cache, and may be
\* validated meanwhile.
RaceReply ==
  LET raced == CHOOSE u \in Url : TRUE
  IN  [u \in Url |-> IF u = raced THEN Races(u) ELSE {Ok(u)}]

\* All kinds of answers, for one thread at a time.
EveryReply ==
  [u \in Url |->
     {[url |-> h, of |-> u, status |-> s, cc |-> k, etag |-> e, chunked |-> FALSE] :
        h \in {NoUrl} \cup Url, s \in {"200", "304", "other", "bad"},
        k \in {"plain", "no-cache", "no-store"}, e \in BOOLEAN}
     \cup {[Ok(u) EXCEPT !.chunked = TRUE]}]

RaceResponse    == UNION {RaceReply[u] : u \in Url}
EveryResponse   == UNION {EveryReply[u] : u \in Url}

AgentSymmetry == Permutations(Thread) \cup Permutations(Node)
=============================================================================
