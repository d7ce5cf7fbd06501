-------------------------- MODULE FreshnessProofs ---------------------------
(***************************************************************************)
(* Theorems about Freshness, for all dates, ages, requests and times.      *)
(***************************************************************************)
EXTENDS Freshness, TLAPS

\* Where a response with proper dates expires, whatever is in the junk.
Label(h) == GetrespExpireTime(h, 0)

LEMMA LabelFacts ==
  ASSUME NEW h \in Headers, WellFormed(h), NEW junk \in Int
  PROVE  /\ GetrespExpireTime(h, junk) = Label(h)
         /\ Label(h) \in Int \cup {Absent}
         /\ Label(h) # Absent => Label(h) \in Int
BY FreshnessAssumption
   DEF Label, GetrespExpireTime, Lifetime, Findage, Strptime, Mktime, Ctime,
       WellFormed, Headers, Dates, Directives

LEMMA AnyLabel ==
  ASSUME NEW h \in Headers, NEW junk \in Int
  PROVE  /\ GetrespExpireTime(h, junk) # Absent => GetrespExpireTime(h, junk) \in Int
BY FreshnessAssumption
   DEF GetrespExpireTime, Lifetime, Findage, Strptime, Mktime, Ctime,
       Headers, Dates, Directives

-----------------------------------------------------------------------------
(* What the log promised, in terms of what is stored.                      *)

PromiseKept ==
  entry # NoEntry /\ WellFormed(entry.fields) =>
    LET label == Label(entry.fields)
    IN  /\ promise # Revalidate =>
             promise = label /\ label \in Int /\ ~entry.fields.no_cache
        /\ promise = Revalidate =>
             \/ entry.fields.no_cache
             \/ label = Absent
             \/ label \in Int /\ now + Shift >= label + Zone

Inv == TypeOK /\ PromiseKept

LEMMA InitInv == Init => Inv
BY FreshnessAssumption DEF Init, Inv, TypeOK, PromiseKept

LEMMA TickInv ==
  ASSUME Inv, Tick
  PROVE  Inv'
<1>1. now \in Int /\ now' \in Int /\ now' = now + 1 /\ now' \in 0 .. MaxNow
  BY FreshnessAssumption DEF Inv, TypeOK, Tick
<1>2. UNCHANGED <<entry, promise, lookups>>
  BY DEF Tick
<1>3. TypeOK'
  BY <1>1, <1>2 DEF Inv, TypeOK
<1>4. PromiseKept'
  BY <1>1, <1>2, FreshnessAssumption DEF Inv, PromiseKept
<1> QED
  BY <1>3, <1>4 DEF Inv

LEMMA StoreInv ==
  ASSUME Inv, NEW h \in Header, Store(h)
  PROVE  Inv'
<1>0. h \in Headers /\ now \in Int /\ Zone \in Int /\ Shift \in Int
  BY FreshnessAssumption DEF Inv, TypeOK
<1>1. PICK junk \in Junk : promise' = Logged(h, now, junk)
  BY DEF Store
<1>2. junk \in Int
  BY FreshnessAssumption
<1>3. entry' = Put(h) /\ lookups' = {} /\ now' = now /\ CheckCachebility(h)
  BY DEF Store
<1>4. /\ entry'.fields = h
      /\ Put(h) \in Entry
      /\ Put(h).rawData.date # Absent
  <2>1. Ctime(now + Shift) \in Int /\ Ctime(now + Shift) # Absent
    <3>1. Ctime(now + Shift) \in Int
      BY <1>0 DEF Ctime
    <3>2. Absent \notin Int
      BY FreshnessAssumption
    <3> QED
      BY <3>1, <3>2
  <2>2. [h EXCEPT !.date = Ctime(now + Shift)] \in Headers
    BY <1>0, <2>1 DEF Headers, Dates
  <2> QED
    BY <1>0, <1>3, <2>1, <2>2 DEF Put, Entry, Headers
<1>5. promise' \in Int \cup {Revalidate}
  BY <1>0, <1>1, <1>2, AnyLabel DEF Logged, Unexpired
<1>6. promise' # NoEntry
  BY <1>5, FreshnessAssumption
<1>7. entry' # NoEntry
  <2>1. NoEntry \notin Entry
    BY FreshnessAssumption
  <2> QED
    BY <1>3, <1>4, <2>1
<1>8. TypeOK'
  BY <1>0, <1>3, <1>4, <1>5, <1>6, <1>7 DEF Inv, TypeOK, CheckCachebility
<1>9. PromiseKept'
  <2> SUFFICES ASSUME WellFormed(h)
               PROVE  /\ promise' # Revalidate =>
                           promise' = Label(h) /\ Label(h) \in Int /\ ~h.no_cache
                      /\ promise' = Revalidate =>
                           \/ h.no_cache
                           \/ Label(h) = Absent
                           \/ Label(h) \in Int /\ now + Shift >= Label(h) + Zone
    BY <1>3, <1>4 DEF PromiseKept
  <2>1. GetrespExpireTime(h, junk) = Label(h) /\ (Label(h) # Absent => Label(h) \in Int)
    BY <1>0, <1>2, LabelFacts
  <2>2. promise' = IF ~h.no_cache /\ Label(h) # Absent /\ now + Shift < Label(h) + Zone
                   THEN Label(h) ELSE Revalidate
    BY <1>1, <2>1 DEF Logged, Unexpired, Mktime
  <2>3. Label(h) \in Int => Label(h) # Revalidate
    BY FreshnessAssumption
  <2> QED
    BY <1>0, <2>1, <2>2, <2>3
<1> QED
  BY <1>8, <1>9 DEF Inv

\* A lookup adds one record, made of the present entry and time.
LEMMA LookupFacts ==
  ASSUME Inv, NEW q \in Request, Lookup(q)
  PROVE  \E later \in Int, junk \in Int, junk2 \in Int :
           /\ later \in {now, now + 1} /\ later <= MaxNow /\ now' = later
           /\ entry # NoEntry /\ UNCHANGED <<entry, promise>>
           /\ entry.fields \in Headers /\ now \in Int /\ now >= 0
           /\ lookups' = {[req |-> q, at |-> now, later |-> later,
                           hit |-> Check(entry.fields, q, now, later, junk, junk2)]}
<1>1. now \in Int /\ now >= 0 /\ now \in 0 .. MaxNow
  BY FreshnessAssumption DEF Inv, TypeOK
<1>2. entry # NoEntry /\ UNCHANGED <<entry, promise>>
  BY DEF Lookup
<1>3. entry.fields \in Headers
  BY <1>2 DEF Inv, TypeOK, Entry
<1>4. PICK later \in {now, now + 1}, junk \in Junk, junk2 \in Junk :
        /\ later <= MaxNow
        /\ lookups' = {[req |-> q, at |-> now, later |-> later,
                        hit |-> Check(entry.fields, q, now, later, junk, junk2)]}
        /\ now' = later
  BY DEF Lookup
<1>5. later \in Int /\ junk \in Int /\ junk2 \in Int
  BY <1>1, <1>4, FreshnessAssumption
<1> QED
  BY <1>1, <1>2, <1>3, <1>4, <1>5

LEMMA LookupInv ==
  ASSUME Inv, NEW q \in Request, Lookup(q)
  PROVE  Inv'
<1>1. PICK later \in Int, junk \in Int, junk2 \in Int :
        /\ later \in {now, now + 1} /\ later <= MaxNow /\ now' = later
        /\ entry # NoEntry /\ UNCHANGED <<entry, promise>>
        /\ entry.fields \in Headers /\ now \in Int /\ now >= 0
        /\ lookups' = {[req |-> q, at |-> now, later |-> later,
                        hit |-> Check(entry.fields, q, now, later, junk, junk2)]}
  BY LookupFacts
<1>2. Check(entry.fields, q, now, later, junk, junk2) \in BOOLEAN
  BY <1>1, Zenon DEF Check, CheckNoCache, Checkfreshness, Unexpired, TooOld, StaleAllowed,
               CheckMaxStale, Headers, HasCacheControl
<1>3. lookups' \subseteq LookupRecord
  BY <1>1, <1>2 DEF LookupRecord
<1>4. now' \in 0 .. MaxNow /\ now' >= now
  BY <1>1, FreshnessAssumption
<1>5. TypeOK'
  BY <1>1, <1>3, <1>4 DEF Inv, TypeOK
<1>6. PromiseKept'
  BY <1>1, <1>4, FreshnessAssumption DEF Inv, PromiseKept
<1> QED
  BY <1>5, <1>6 DEF Inv

LEMMA StepInv == Inv /\ [Next]_vars => Inv'
<1> SUFFICES ASSUME Inv, [Next]_vars
             PROVE  Inv'
  OBVIOUS
<1>1. CASE UNCHANGED vars
  BY <1>1 DEF vars, Inv, TypeOK, PromiseKept
<1> QED
  BY <1>1, TickInv, StoreInv, LookupInv DEF Next

\* Every variable keeps its kind, and nothing forbidden is ever stored.
THEOREM TypeCorrect == Spec => []TypeOK
<1> QED
  BY InitInv, StepInv, PTL DEF Spec, Inv

-----------------------------------------------------------------------------
(* The decisions themselves.                                               *)

LEMMA HitFacts ==
  ASSUME NEW h \in Headers, WellFormed(h), NEW q \in Requests,
         NEW t \in Int, NEW later \in Int, NEW junk \in Int, NEW junk2 \in Int,
         Findage(q.max_stale) < 0,
         Check(h, q, t, later, junk, junk2)
  PROVE  /\ ~h.no_cache
         /\ Label(h) \in Int /\ t + Shift < Label(h) + Zone
         /\ h.date \in Int
         /\ Findage(q.max_age) >= 0 =>
              later + Shift - (h.date + Zone) < Findage(q.max_age)
<1>0. Zone \in Int /\ Shift \in Int
  BY FreshnessAssumption
<1>1. GetrespExpireTime(h, junk) = Label(h) /\ (Label(h) # Absent => Label(h) \in Int)
  BY LabelFacts
<1>2. Findage(q.max_stale) \in Int /\ Findage(q.max_age) \in Int
  BY FreshnessAssumption DEF Requests, Directives, Findage
<1>3. ~StaleAllowed(h, q, later, junk2)
  BY <1>2 DEF StaleAllowed
<1>4. Checkfreshness(h, t, junk) /\ ~TooOld(h, q, later, junk2)
  BY <1>3 DEF Check
<1>5. Label(h) \in Int /\ t + Shift < Label(h) + Zone
  BY <1>1, <1>4 DEF Checkfreshness, Unexpired, Mktime
<1>6. h.date \in Int
  <2>1. h.date # Absent
    BY <1>1, <1>4 DEF Checkfreshness, Unexpired, Label, GetrespExpireTime
  <2> QED
    BY <2>1 DEF WellFormed, Headers, Dates
<1>7. ~h.no_cache
  <2>1. ~CheckNoCache(h, q)
    BY DEF Check
  <2> QED
    BY <2>1 DEF CheckNoCache, HasCacheControl
<1>8. ASSUME Findage(q.max_age) >= 0
      PROVE  later + Shift - (h.date + Zone) < Findage(q.max_age)
  <2>1. h.date # Absent /\ h.date # Malformed
    BY <1>6, FreshnessAssumption
  <2>2. RespCurrentAge(h, later, junk2) = later + Shift - (h.date + Zone)
    BY <2>1 DEF RespCurrentAge, Strptime, Mktime
  <2>3. ~(RespCurrentAge(h, later, junk2) >= Findage(q.max_age))
    BY <1>2, <1>4, <1>8 DEF TooOld
  <2> QED
    BY <1>0, <1>2, <1>6, <2>2, <2>3
<1> QED
  BY <1>5, <1>6, <1>7, <1>8

\* What was logged as needing validation is never served without it, in
\* whatever time zone the server runs.
THEOREM RevalidationAlwaysKept == Spec => []RevalidationKept
<1>1. Init => RevalidationKept
  BY DEF Init, RevalidationKept
<1>2. Inv /\ RevalidationKept /\ [Next]_vars => RevalidationKept'
  <2> SUFFICES ASSUME Inv, RevalidationKept, [Next]_vars
               PROVE  RevalidationKept'
    OBVIOUS
  <2>1. CASE Tick \/ UNCHANGED vars
    BY <2>1 DEF Tick, vars, RevalidationKept
  <2>2. ASSUME NEW h \in Header, Store(h)
        PROVE  RevalidationKept'
    BY <2>2 DEF Store, RevalidationKept
  <2>3. ASSUME NEW q \in Request, Lookup(q)
        PROVE  RevalidationKept'
    <3>1. PICK later \in Int, junk \in Int, junk2 \in Int :
            /\ entry # NoEntry /\ UNCHANGED <<entry, promise>>
            /\ entry.fields \in Headers /\ now \in Int
            /\ lookups' = {[req |-> q, at |-> now, later |-> later,
                            hit |-> Check(entry.fields, q, now, later, junk, junk2)]}
      BY <2>3, LookupFacts
    <3>2. ASSUME promise = Revalidate, WellFormed(entry.fields),
                 Findage(q.max_stale) < 0,
                 Check(entry.fields, q, now, later, junk, junk2)
          PROVE  FALSE
      <4>1. q \in Requests /\ Zone \in Int /\ Shift \in Int
        BY FreshnessAssumption
      <4>2. /\ ~entry.fields.no_cache
            /\ Label(entry.fields) \in Int
            /\ now + Shift < Label(entry.fields) + Zone
        BY <3>1, <3>2, <4>1, HitFacts
      <4>3. Label(entry.fields) # Absent
        BY <4>2, FreshnessAssumption
      <4> QED
        BY <3>1, <3>2, <4>1, <4>2, <4>3 DEF Inv, PromiseKept
    <3> QED
      BY <3>1, <3>2 DEF RevalidationKept
  <2> QED
    BY <2>1, <2>2, <2>3 DEF Next
<1> QED
  BY <1>1, <1>2, InitInv, StepInv, PTL DEF Spec

LEMMA PlainHit ==
  ASSUME NEW h \in Headers, WellFormed(h), NEW q \in Requests, Plain(q),
         NEW t \in Nat, NEW later \in Int, NEW junk \in Int, NEW junk2 \in Int,
         Shift \in Nat, ~h.no_cache,
         Label(h) \in Int, t + Shift < Label(h) + Zone
  PROVE  Check(h, q, t, later, junk, junk2)
<1>1. GetrespExpireTime(h, junk) = Label(h)
  BY LabelFacts
<1>2. Label(h) # Absent /\ Zone \in Int
  BY FreshnessAssumption
<1>3. Label(h) + Zone # -1
  BY <1>2
<1>4. Checkfreshness(h, t, junk)
  BY <1>1, <1>2, <1>3 DEF Checkfreshness, Unexpired, Mktime
<1>5. Findage(q.max_age) = -1 /\ ~q.no_cache
  BY DEF Plain, Findage
<1>6. ~TooOld(h, q, later, junk2)
  BY <1>5 DEF TooOld
<1>7. ~CheckNoCache(h, q)
  BY <1>5 DEF CheckNoCache
<1> QED
  BY <1>4, <1>6, <1>7 DEF Check

(* On a server whose clock is where the code expects it, Shift seconds      *)
(* behind UTC, the expiry that was logged is the one that is applied, and   *)
(* the age a request asks for is respected.                                 *)
THEOREM ExpiryAlwaysKept ==
  ASSUME Shift \in Nat, Zone = Shift
  PROVE  Spec => [](ExpiryKept /\ MaxAgeKept)
<1>1. Init => ExpiryKept /\ MaxAgeKept
  BY DEF Init, ExpiryKept, MaxAgeKept
<1>2. Inv /\ ExpiryKept /\ MaxAgeKept /\ [Next]_vars => (ExpiryKept /\ MaxAgeKept)'
  <2> SUFFICES ASSUME Inv, ExpiryKept, MaxAgeKept, [Next]_vars
               PROVE  (ExpiryKept /\ MaxAgeKept)'
    OBVIOUS
  <2>1. CASE Tick \/ UNCHANGED vars
    BY <2>1 DEF Tick, vars, ExpiryKept, MaxAgeKept
  <2>2. ASSUME NEW h \in Header, Store(h)
        PROVE  (ExpiryKept /\ MaxAgeKept)'
    BY <2>2 DEF Store, ExpiryKept, MaxAgeKept
  <2>3. ASSUME NEW q \in Request, Lookup(q)
        PROVE  (ExpiryKept /\ MaxAgeKept)'
    <3>1. PICK later \in Int, junk \in Int, junk2 \in Int :
            /\ entry # NoEntry /\ UNCHANGED <<entry, promise>>
            /\ entry.fields \in Headers /\ now \in Int /\ now >= 0
            /\ lookups' = {[req |-> q, at |-> now, later |-> later,
                            hit |-> Check(entry.fields, q, now, later, junk, junk2)]}
      BY <2>3, LookupFacts
    <3> DEFINE h   == entry.fields
               hit == Check(h, q, now, later, junk, junk2)
    <3>2. q \in Requests /\ Findage(q.max_age) \in Int
      BY FreshnessAssumption DEF Requests, Directives, Findage
    <3>3. ASSUME WellFormed(h)
          PROVE  /\ promise # Revalidate =>
                      promise = Label(h) /\ Label(h) \in Int /\ ~h.no_cache
                 /\ promise = Revalidate =>
                      \/ h.no_cache
                      \/ Label(h) = Absent
                      \/ Label(h) \in Int /\ now + Shift >= Label(h) + Zone
      BY <3>1, <3>3 DEF Inv, PromiseKept
    <3>4. ASSUME WellFormed(h), hit, Findage(q.max_stale) < 0
          PROVE  /\ ~h.no_cache
                 /\ Label(h) \in Int /\ now < Label(h)
                 /\ Findage(q.max_age) >= 0 => later - h.date < Findage(q.max_age)
      <4>1. /\ ~h.no_cache
            /\ Label(h) \in Int /\ now + Shift < Label(h) + Zone
            /\ h.date \in Int
            /\ Findage(q.max_age) >= 0 =>
                 later + Shift - (h.date + Zone) < Findage(q.max_age)
        BY <3>1, <3>2, <3>4, HitFacts
      <4> HIDE DEF h
      <4> QED
        BY <3>1, <3>2, <4>1
    <3>5. ASSUME WellFormed(h), promise # Revalidate, Plain(q)
          PROVE  hit <=> now < promise
      <4>1. promise = Label(h) /\ Label(h) \in Int /\ ~h.no_cache
        BY <3>3, <3>5
      <4>2. ASSUME hit
            PROVE  now < promise
        <5>1. Findage(q.max_stale) < 0
          BY <3>5 DEF Plain, Findage
        <5> QED
          BY <3>4, <3>5, <4>1, <4>2, <5>1
      <4>3. ASSUME now < promise
            PROVE  hit
        <5>1. now + Shift < Label(h) + Zone /\ now \in Nat
          BY <3>1, <4>1, <4>3
        <5> QED
          BY <3>1, <3>2, <3>5, <4>1, <5>1, PlainHit
      <4> QED
        BY <4>2, <4>3
    <3>6. ExpiryKept'
      BY <3>1, <3>5 DEF ExpiryKept
    <3>7. ASSUME WellFormed(h), hit, Findage(q.max_stale) < 0, Findage(q.max_age) >= 0
          PROVE  later - h.date < Findage(q.max_age) /\ now < promise
      <4>1. /\ ~h.no_cache
            /\ Label(h) \in Int /\ now < Label(h)
            /\ later - h.date < Findage(q.max_age)
        BY <3>4, <3>7
      <4>2. Label(h) # Absent /\ ~(now + Shift >= Label(h) + Zone)
        BY <3>1, <4>1, FreshnessAssumption
      <4>3. promise = Label(h)
        BY <3>3, <3>7, <4>1, <4>2
      <4> QED
        BY <4>1, <4>3
    <3>8. MaxAgeKept'
      BY <3>1, <3>7 DEF MaxAgeKept
    <3> QED
      BY <3>6, <3>8
  <2> QED
    BY <2>1, <2>2, <2>3 DEF Next
<1> QED
  BY <1>1, <1>2, InitInv, StepInv, PTL DEF Spec
=============================================================================
