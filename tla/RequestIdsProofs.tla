-------------------------- MODULE RequestIdsProofs --------------------------
(***************************************************************************)
(* Theorems about RequestIds, for any set of threads and counter width.    *)
(***************************************************************************)
EXTENDS RequestIds, TLAPS

\* A thread that has incremented finds a counter above the IDs given when
\* it began: this is what makes LaterIsGreater inductive.
AboveFloor == \A w \in Thread : pc[w] = "load" => unique_id > floor[w]

Inv == TypeOK /\ AboveFloor /\ LaterIsGreater

LEMMA InitInv == Init => Inv
BY RequestIdsAssumption DEF Init, Inv, TypeOK, AboveFloor, LaterIsGreater

LEMMA BeginInv ==
  ASSUME Inv, NEW w \in Thread, Begin(w)
  PROVE  Inv'
<1>1. TypeOK'
  BY DEF Begin, Inv, TypeOK
<1>2. \A v \in Thread : v # w => pc'[v] = pc[v] /\ floor'[v] = floor[v]
  BY DEF Begin, Inv, TypeOK
<1>3. pc'[w] = "increment"
  BY DEF Begin, Inv, TypeOK
<1>4. AboveFloor' /\ LaterIsGreater'
  BY <1>2, <1>3 DEF Begin, Inv, AboveFloor, LaterIsGreater
<1> QED
  BY <1>1, <1>4 DEF Inv

LEMMA IncrementInv ==
  ASSUME Inv, NEW w \in Thread, Increment(w)
  PROVE  Inv'
<1>1. unique_id \in Int /\ unique_id' = unique_id + 1 /\ unique_id' \in 0 .. Modulus - 1
  BY RequestIdsAssumption DEF Increment, Inv, TypeOK
<1>2. /\ newest \in Int /\ newest <= unique_id
      /\ \A v \in Thread : floor[v] \in Int /\ floor[v] <= newest
  BY <1>1 DEF Inv, TypeOK
<1>3. /\ \A v \in Thread : v # w => pc'[v] = pc[v]
      /\ pc'[w] = "load"
      /\ UNCHANGED <<id, newest, floor>>
  BY DEF Increment, Inv, TypeOK
<1>4. TypeOK'
  BY <1>1, <1>2 DEF Increment, Inv, TypeOK
<1>5. AboveFloor'
  BY <1>1, <1>2, <1>3 DEF Inv, AboveFloor
<1>6. LaterIsGreater'
  BY <1>3 DEF Inv, LaterIsGreater
<1> QED
  BY <1>4, <1>5, <1>6 DEF Inv

LEMMA LoadInv ==
  ASSUME Inv, NEW w \in Thread, Load(w)
  PROVE  Inv'
<1>1. /\ unique_id \in Int /\ newest \in Int /\ newest <= unique_id
      /\ unique_id >= 0 /\ newest >= 0
  BY RequestIdsAssumption DEF Inv, TypeOK
<1>2. newest' = unique_id
  BY <1>1 DEF Load
<1>3. UNCHANGED <<unique_id, floor>>
  BY DEF Load
<1>4. /\ \A v \in Thread : v # w => pc'[v] = pc[v] /\ id'[v] = id[v]
      /\ pc'[w] = "outside" /\ id'[w] = unique_id
  BY DEF Load, Inv, TypeOK
<1>5. TypeOK'
  <2>1. 0 .. newest \subseteq 0 .. newest' /\ unique_id \in 0 .. newest'
    BY <1>1, <1>2
  <2>2. id' \in [Thread -> 0 .. newest'] /\ floor' \in [Thread -> 0 .. newest']
    BY <2>1 DEF Load, Inv, TypeOK
  <2>3. newest' \in 0 .. unique_id'
    BY <1>1, <1>2, <1>3
  <2> QED
    BY <2>2, <2>3 DEF Load, Inv, TypeOK
<1>6. AboveFloor'
  BY <1>3, <1>4 DEF Inv, AboveFloor
<1>7. LaterIsGreater'
  <2>1. unique_id > floor[w]
    BY DEF Load, Inv, AboveFloor
  <2> QED
    BY <1>3, <1>4, <2>1 DEF Inv, LaterIsGreater
<1> QED
  BY <1>5, <1>6, <1>7 DEF Inv

\* Only requests parsed at the same time can share an ID, however many
\* threads there are, as long as the counter has not wrapped around.
THEOREM LaterIdsAreGreater == Spec => [](TypeOK /\ LaterIsGreater)
<1>1. Inv /\ [Next]_vars => Inv'
  <2> SUFFICES ASSUME Inv, [Next]_vars
               PROVE  Inv'
    OBVIOUS
  <2>1. CASE UNCHANGED vars
    BY <2>1 DEF vars, Inv, TypeOK, AboveFloor, LaterIsGreater
  <2> QED
    BY <2>1, BeginInv, IncrementInv, LoadInv DEF Next
<1> QED
  BY <1>1, InitInv, PTL DEF Spec, Inv
=============================================================================
