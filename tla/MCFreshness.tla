---------------------------- MODULE MCFreshness -----------------------------
(* Instances of the freshness decisions for TLC. *)
EXTENDS Freshness

Bare == [date |-> 0, expires |-> Absent, smaxage |-> Absent, maxage |-> Absent,
         no_cache |-> FALSE, no_store |-> FALSE, private |-> FALSE, other |-> FALSE]

\* No directive; one or both ages; an Expires beside them; no Date; a Date
\* that is not one; each directive that forbids storing or serving.
MCHeader ==
  {[Bare EXCEPT !.date = d, !.maxage = m] :
     d \in {0, 2, Absent, Malformed}, m \in {Absent, NoValue, 3}}
  \cup {[Bare EXCEPT !.smaxage = s, !.maxage = 4, !.expires = e] :
          s \in {Absent, 1}, e \in {Absent, 2}}
  \cup {[Bare EXCEPT !.expires = e] : e \in {1, 4, Malformed}}
  \cup {[Bare EXCEPT !.maxage = 4, !.no_cache = TRUE],
        [Bare EXCEPT !.maxage = 4, !.no_store = TRUE],
        [Bare EXCEPT !.maxage = 4, !.private = TRUE],
        [Bare EXCEPT !.expires = 3, !.other = TRUE]}

MCRequest ==
  [max_age : {Absent, NoValue, 2}, max_stale : {Absent, NoValue, 1},
   min_fresh : {Absent, 2}, no_cache : {FALSE}]
  \cup [max_age : {Absent}, max_stale : {Absent, NoValue},
        min_fresh : {Absent}, no_cache : {TRUE}]

MCJunk == {-3, 9}
=============================================================================
