----------------------------- MODULE RequestIds -----------------------------
(***************************************************************************)
(* The request IDs of HttpRequest::parse(): an atomic unsigned counter is  *)
(* incremented and then, in another operation, read.  Each connection      *)
(* thread parses once or, when it revalidates, twice.                      *)
(***************************************************************************)
EXTENDS Integers

CONSTANTS
  Thread,
  Modulus     \* 2^32: an unsigned int wraps around

ASSUME RequestIdsAssumption == Modulus \in Nat /\ Modulus > 1

VARIABLES
  unique_id,  \* the counter
  pc,         \* "outside" parse(), about to "increment" or about to "load"
  id,         \* the ID each thread's last parse() gave, 0 before the first
  newest,     \* history: the greatest ID any parse() has given
  floor       \* history: newest when each thread's last parse() began

vars == <<unique_id, pc, id, newest, floor>>

Init ==
  /\ unique_id = 0
  /\ pc = [w \in Thread |-> "outside"]
  /\ id = [w \in Thread |-> 0]
  /\ newest = 0
  /\ floor = [w \in Thread |-> 0]

\* Slip: only a thread's first request gets a number of its own.
BeginOnce(w) ==
  /\ pc[w] = "outside"
  /\ pc' = [pc EXCEPT ![w] = IF id[w] = 0 THEN "increment" ELSE "load"]
  /\ floor' = [floor EXCEPT ![w] = newest]
  /\ UNCHANGED <<unique_id, id, newest>>

Begin(w) ==
  /\ pc[w] = "outside"
  /\ pc' = [pc EXCEPT ![w] = "increment"]
  /\ floor' = [floor EXCEPT ![w] = newest]
  /\ UNCHANGED <<unique_id, id, newest>>

\* Bound: the runs end before the counter wraps around.
Increment(w) ==
  /\ pc[w] = "increment"
  /\ unique_id < Modulus - 1
  /\ pc' = [pc EXCEPT ![w] = "load"]
  /\ unique_id' = (unique_id + 1) % Modulus
  /\ UNCHANGED <<id, newest, floor>>

\* Slip: the increment is counted twice.
LoadAhead(w) ==
  /\ pc[w] = "load"
  /\ pc' = [pc EXCEPT ![w] = "outside"]
  /\ id' = [id EXCEPT ![w] = unique_id + 1]
  /\ newest' = IF unique_id + 1 > newest THEN unique_id + 1 ELSE newest
  /\ UNCHANGED <<unique_id, floor>>

Load(w) ==
  /\ pc[w] = "load"
  /\ pc' = [pc EXCEPT ![w] = "outside"]
  /\ id' = [id EXCEPT ![w] = unique_id]
  /\ newest' = IF unique_id > newest THEN unique_id ELSE newest
  /\ UNCHANGED <<unique_id, floor>>

Next == \E w \in Thread : Begin(w) \/ Increment(w) \/ Load(w)

Spec == Init /\ [][Next]_vars

-----------------------------------------------------------------------------
\* Every variable holds a value of its kind, and no ID is ahead of the counter.
TypeOK ==
  /\ unique_id \in 0 .. Modulus - 1
  /\ pc \in [Thread -> {"outside", "increment", "load"}]
  /\ newest \in 0 .. unique_id
  /\ id \in [Thread -> 0 .. newest]
  /\ floor \in [Thread -> 0 .. newest]

(* A request parsed after another has been parsed gets a greater ID, so     *)
(* only requests whose parsing overlaps can ever share one, and the log can *)
(* be read in the order of the IDs.                                         *)
LaterIsGreater ==
  \A w \in Thread : pc[w] = "outside" /\ id[w] # 0 => id[w] > floor[w]
=============================================================================
