------------------------------ MODULE MCCache ------------------------------
(* Instances of the cache for TLC. *)
EXTENDS Cache

\* Two responses per URL, told apart by v, none with a header named "Url".
Plain(u) == [url : {NoUrl}, of : {u}, v : 1..2]

\* The same, and one more for which the origin sends its URL in that header.
Mixed(u) == Plain(u) \cup [url : {u}, of : {u}, v : {1}]

PlainReply == [u \in Url |-> Plain(u)]
MixedReply == [u \in Url |-> Mixed(u)]

PlainResponse == UNION {PlainReply[u] : u \in Url}
MixedResponse == UNION {MixedReply[u] : u \in Url}

NodeSymmetry == Permutations(Node)
=============================================================================
