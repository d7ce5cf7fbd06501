----------------------------- MODULE Freshness ------------------------------
(***************************************************************************)
(* When the agent may answer from the cache: agent::check() and the date   *)
(* and Cache-Control arithmetic under it, for one cached URL.              *)
(*                                                                         *)
(* Instants are seconds as time() counts them.  A label is what a date     *)
(* string shows on its face, in seconds as well; HTTP dates are labels in  *)
(* UTC, where label and instant agree, but mktime() and ctime() take them  *)
(* for local time, which runs Zone seconds behind UTC.                     *)
(***************************************************************************)
EXTENDS Integers

CONSTANTS
  Header,     \* the headers of the responses the origin sends
  Request,    \* the Cache-Control fields of the requests
  Absent,     \* a field or directive that is not there
  Malformed,  \* a date that strptime() does not accept
  NoValue,    \* a directive without "="
  Junk,       \* the labels an uninitialised struct tm may hold
  Zone,       \* how far local time is behind UTC
  Shift,      \* the 18000 seconds the code adds to time(0)
  NoEntry,    \* nothing stored
  Revalidate, \* "cached, but requires re-validation"
  MaxNow      \* bound: the clock stops here

Dates      == Int \cup {Absent, Malformed}
Directives == Int \cup {Absent, NoValue}

\* other: some directive that the agent does not look for.
Headers  == [date : Dates, expires : Dates,
             smaxage : Directives, maxage : Directives,
             no_cache : BOOLEAN, no_store : BOOLEAN, private : BOOLEAN,
             other : BOOLEAN]
Requests == [max_age : Directives, max_stale : Directives,
             min_fresh : Directives, no_cache : BOOLEAN]

\* A stored response: what check() reads and what a hit sends.
Entry == [fields : Headers, rawData : Headers]

ASSUME FreshnessAssumption ==
  /\ Header \subseteq Headers
  /\ Request \subseteq Requests
  /\ Junk \subseteq Int
  /\ Zone \in Int /\ Shift \in Int /\ MaxNow \in Nat
  /\ {Absent, Malformed, NoValue, NoEntry, Revalidate} \cap Int = {}
  /\ Absent # Malformed /\ Absent # NoValue
  /\ NoEntry # Revalidate /\ NoEntry \notin Entry

VARIABLES
  now,      \* time(0)
  entry,    \* the stored response, or NoEntry
  promise,  \* what the log said when it was stored: Revalidate, or the label
            \* of "cached, expires at"
  lookups   \* the last lookup of this entry, as a set of at most one record

vars == <<now, entry, promise, lookups>>

-----------------------------------------------------------------------------
(* Dates and directives.                                                   *)

Mktime(label) == label + Zone
Ctime(t)      == t - Zone

Strptime(date, junk) == IF date = Malformed THEN junk ELSE date

Findage(d) == IF d = Absent THEN -1 ELSE IF d = NoValue THEN 0 ELSE d

HasCacheControl(h) ==
  \/ h.smaxage # Absent \/ h.maxage # Absent
  \/ h.no_cache \/ h.no_store \/ h.private \/ h.other

Lifetime(h) == IF Findage(h.smaxage) # -1 THEN Findage(h.smaxage)
                                          ELSE Findage(h.maxage)

\* The label at which the response expires, Absent if that is unknown.
GetrespExpireTime(h, junk) ==
  IF h.date = Absent
  THEN Absent
  ELSE IF Lifetime(h) # -1
       THEN Ctime(Mktime(Strptime(h.date, junk)) + Lifetime(h))
       ELSE IF h.expires # Absent
            THEN Ctime(Mktime(Strptime(h.expires, junk)))
            ELSE Absent

\* strptime() of a label that ctime() wrote always succeeds.
\* Slip: a response is still fresh in the second it expires.
UnexpiredAtLabel(label, t) ==
  /\ label # Absent
  /\ t + Shift <= Mktime(label)

Unexpired(label, t) ==
  /\ label # Absent
  /\ t + Shift < Mktime(label)

Checkfreshness(h, t, junk) ==
  LET label == GetrespExpireTime(h, junk)
  IN  Unexpired(label, t) /\ Mktime(label) # -1

RespCurrentAge(h, t, junk) ==
  IF h.date = Absent THEN -1 ELSE t + Shift - Mktime(Strptime(h.date, junk))

\* Here nothing is added to time(0).
CheckMaxStale(h, max_stale, t, junk) ==
  LET label == GetrespExpireTime(h, junk)
  IN  label # Absent /\ Mktime(label) - t <= max_stale

\* Slip: only the request is looked at.
CheckNoCacheOfRequest(h, q) == q.no_cache

CheckNoCache(h, q) == IF HasCacheControl(h) THEN h.no_cache ELSE q.no_cache

-----------------------------------------------------------------------------
(* check() on a stored response: TRUE is ContainedAndValid, FALSE is       *)
(* ContainedAndNeedRevalidate.  The clock is read first at t and again at  *)
(* later, and each call of strptime() may leave junk of its own.           *)

StaleAllowed(h, q, later, junk) ==
  LET max_stale == Findage(q.max_stale)
  IN  \/ max_stale = 0
      \/ max_stale > 0 /\ CheckMaxStale(h, max_stale, later, junk)

\* Slip: > for >=.
TooOldByMore(h, q, later, junk) ==
  LET age == RespCurrentAge(h, later, junk)
  IN  /\ Findage(q.max_age) # -1
      /\ age > Findage(q.max_age) \/ age <= Findage(q.min_fresh)

TooOld(h, q, later, junk) ==
  LET age == RespCurrentAge(h, later, junk)
  IN  /\ Findage(q.max_age) # -1
      /\ age >= Findage(q.max_age) \/ age <= Findage(q.min_fresh)

Check(h, q, t, later, junk, junk2) ==
  /\ ~CheckNoCache(h, q)
  /\ IF Checkfreshness(h, t, junk) THEN ~TooOld(h, q, later, junk2)
                                   ELSE StaleAllowed(h, q, later, junk2)

\* Slip: "private" is forgotten.
CheckCachebilityPrivate(h) == ~h.no_store

\* checkCachebility(): whether to store, and what the log says of it.
CheckCachebility(h) == ~h.no_store /\ ~h.private

Logged(h, t, junk) ==
  LET label == GetrespExpireTime(h, junk)
  IN  IF ~h.no_cache /\ Unexpired(label, t) THEN label ELSE Revalidate

\* put() gives a response without a Date one, with the time of its arrival,
\* but only in rawData: the parse() that follows reads rawDataStr.  The text is
\* abstracted to having the line: ctime() ends it with a newline of its own, so
\* that the empty line after it ends the header and the old one is left to the
\* body; and a text without an empty line is cut open after its first byte.
Put(h) == [fields  |-> h,
           rawData |-> IF h.date = Absent THEN [h EXCEPT !.date = Ctime(now + Shift)]
                                          ELSE h]

-----------------------------------------------------------------------------
Init ==
  /\ now = 0
  /\ entry = NoEntry
  /\ promise = NoEntry
  /\ lookups = {}

Tick ==
  /\ now < MaxNow
  /\ now' = now + 1
  /\ UNCHANGED <<entry, promise, lookups>>

\* Some thread has a 200 from the origin, after a miss.  What a revalidation
\* stores, a 200 or a 304, is in Agent: another entry for the same lookups.
Store(h) ==
  /\ CheckCachebility(h)
  /\ entry' = Put(h)
  /\ \E junk \in Junk : promise' = Logged(h, now, junk)
  /\ lookups' = {}
  /\ UNCHANGED now

\* Some thread checks a request; the clock may tick while it does.
Lookup(q) ==
  /\ entry # NoEntry
  /\ \E later \in {now, now + 1}, junk \in Junk, junk2 \in Junk :
       /\ later <= MaxNow
       /\ lookups' = {[req |-> q, at |-> now, later |-> later,
                       hit |-> Check(entry.fields, q, now, later, junk, junk2)]}
       /\ now' = later
  /\ UNCHANGED <<entry, promise>>

Next ==
  \/ Tick
  \/ \E h \in Header : Store(h)
  \/ \E q \in Request : Lookup(q)

Spec == Init /\ [][Next]_vars

-----------------------------------------------------------------------------
WellFormed(h) == h.date # Malformed /\ h.expires # Malformed

Plain(q) == /\ {q.max_age, q.max_stale, q.min_fresh} = {Absent}
            /\ ~q.no_cache

LookupRecord == [req : Request, at : Int, later : Int, hit : BOOLEAN]

\* Every variable holds a value of its kind, what is stored may be stored,
\* and what a hit sends has a Date, the one it came with or put()'s (what is sent
\* after a miss or a revalidation is the text without it and is not in entry).
TypeOK ==
  /\ now \in 0 .. MaxNow
  /\ entry \in Entry \cup {NoEntry}
  /\ promise \in Int \cup {NoEntry, Revalidate}
  /\ lookups \subseteq LookupRecord
  /\ entry = NoEntry <=> promise = NoEntry
  /\ entry = NoEntry => lookups = {}
  /\ entry # NoEntry => /\ ~entry.fields.no_store /\ ~entry.fields.private
                        /\ entry.rawData.date # Absent

(* "cached, expires at E" is kept to the second: until the clock reads E a  *)
(* plain request is answered from the cache, from then on it is not         *)
(* (test.py, "if not expired - in cache, valid; if expired - ...").         *)
ExpiryKept ==
  \A l \in lookups :
    promise # Revalidate /\ WellFormed(entry.fields) /\ Plain(l.req)
      => (l.hit <=> l.at < promise)

(* What was logged as "cached, but requires re-validation" is never served  *)
(* unvalidated, at whatever time, unless the request allows stale answers.  *)
RevalidationKept ==
  \A l \in lookups :
    promise = Revalidate /\ WellFormed(entry.fields) /\ Findage(l.req.max_stale) < 0
      => ~l.hit

(* A request that limits the age, and does not ask for stale answers, is    *)
(* never answered from the cache with a response of that age or older, nor  *)
(* with an expired one.                                                     *)
MaxAgeKept ==
  \A l \in lookups :
    l.hit /\ WellFormed(entry.fields)
          /\ Findage(l.req.max_age) >= 0 /\ Findage(l.req.max_stale) < 0
      => /\ l.later - entry.fields.date < Findage(l.req.max_age)
         /\ l.at < promise
=============================================================================
