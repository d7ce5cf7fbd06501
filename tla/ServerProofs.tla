---------------------------- MODULE ServerProofs ----------------------------
(***************************************************************************)
(* Theorems about Server, for any set of threads, any numbers that         *)
(* descriptors can have, and any number of addresses.                      *)
(***************************************************************************)
EXTENDS Server, RequestIdsProofs

\* Before the first failure, a wrapper is only replaced if it has no number.
Fresh == \A w \in Thread :
           /\ at[w] # "failed"
           /\ at[w] = "socket" => origin[w] = NoFd
           /\ at[w] = "assigned" => old[w] = NoFd

SInv == ServerTypeOK /\ NoLeak /\ (failed = {} => Owned /\ Fresh)

LEMMA NoFdIsNone == NoFd \notin Fd
BY ServerAssumption DEF NoFd

LEMMA SocketIsNotFree ==
  \A w \in Thread : \A r \in Role : <<w, r>> # Free /\ <<w, r>> \in Thread \X Role
BY DEF Free

LEMMA ServerInitInv == ServerInit => SInv
<1> SUFFICES ASSUME ServerInit PROVE SInv
  OBVIOUS
<1> USE DEF ServerInit
<1>1. ServerTypeOK
  BY ServerAssumption DEF ServerTypeOK, PlaceFits, Places, Free, NoFd, Role
<1>2. NoLeak
  BY DEF NoLeak, Free
<1>3. Owned /\ Fresh
  BY DEF Owned, Fresh, Role
<1> QED
  BY <1>1, <1>2, <1>3 DEF SInv

-----------------------------------------------------------------------------
\* The steps that touch no descriptor and stay clear of init().
Quiet(w) ==
  /\ \E from, to \in Places \ {"idle", "socket", "assigned", "connect", "failed", "leaving"} :
       /\ at[w] = from /\ Go(w, to)
       /\ from \in {"exchange", "leave"} => to = "leave"
       /\ to = "exchange" => FALSE
  /\ UNCHANGED <<sockets, accepted, addresses, failed>>

LEMMA QuietInv ==
  ASSUME SInv, NEW w \in Thread, Quiet(w)
  PROVE  SInv'
<1>1. UNCHANGED <<fds, client, origin, old, accepted, addresses, failed>>
  BY DEF Quiet, sockets
<1>2. PICK from, to \in Places \ {"idle", "socket", "assigned", "connect", "failed", "leaving"} :
        /\ at[w] = from /\ at' = [at EXCEPT ![w] = to]
        /\ from \in {"exchange", "leave"} => to = "leave"
        /\ to # "exchange"
  BY DEF Quiet, Go
<1>3. /\ at' \in [Thread -> Places] /\ at'[w] = to
      /\ \A v \in Thread : v # w => at'[v] = at[v]
  BY <1>2 DEF SInv, ServerTypeOK
<1>4. to \in OriginlessPlaces => from \in OriginlessPlaces
  BY <1>2 DEF OriginlessPlaces, Places
<1>5. ServerTypeOK'
  BY <1>1, <1>2, <1>3, <1>4 DEF SInv, ServerTypeOK, PlaceFits
<1>6. NoLeak' /\ (failed' = {} => Owned')
  BY <1>1 DEF SInv, NoLeak, Owned
<1>7. failed' = {} => Fresh'
  BY <1>1, <1>2, <1>3 DEF SInv, Fresh
<1> QED
  BY <1>5, <1>6, <1>7 DEF SInv

\* What the other threads keep when thread w takes a step.
OthersKeep(w) ==
  \A v \in Thread : v # w =>
    client'[v] = client[v] /\ origin'[v] = origin[v] /\ old'[v] = old[v] /\ at'[v] = at[v]

\* The table with one number opened or closed.
OpenedPointwise(n, w, r) ==
  /\ fds[n] = Free /\ fds'[n] = <<w, r>>
  /\ \A m \in Fd : m # n => fds'[m] = fds[m]
ClosedPointwise(n) ==
  \A m \in Fd : fds'[m] = IF m = n THEN Free ELSE fds[m]

Table == [Fd -> {Free} \cup (Thread \X Role)]

LEMMA OpenedFacts ==
  ASSUME ServerTypeOK, NEW w \in Thread, NEW n \in Fd, NEW r \in Role,
         Lowest(n), Opened(n, w, r)
  PROVE  OpenedPointwise(n, w, r) /\ fds' \in Table
<1>1. fds \in Table /\ <<w, r>> \in {Free} \cup (Thread \X Role)
  BY DEF ServerTypeOK, Table
<1> DEFINE S == {Free} \cup (Thread \X Role)  x == <<w, r>>
<1>2. fds \in [Fd -> S] /\ x \in S /\ fds' = [fds EXCEPT ![n] = x] /\ fds[n] = Free
  BY <1>1 DEF Table, Opened, Lowest
<1> HIDE DEF S, x
<1>3. fds' \in [Fd -> S] /\ fds'[n] = x /\ \A m \in Fd : m # n => fds'[m] = fds[m]
  BY <1>2
<1> QED
  BY <1>2, <1>3 DEF OpenedPointwise, Table, S, x

LEMMA ClosedFacts ==
  ASSUME ServerTypeOK, NEW n, Closed(n)
  PROVE  ClosedPointwise(n) /\ fds' \in Table
<1> DEFINE S == {Free} \cup (Thread \X Role)
<1>1. fds \in [Fd -> S] /\ Free \in S
  BY DEF ServerTypeOK
<1> HIDE DEF S
<1>2. fds' \in [Fd -> S] /\ ClosedPointwise(n)
  BY <1>1 DEF Closed, ClosedPointwise
<1> QED
  BY <1>2 DEF Table, S

\* What each step may do to the wrappers without losing or doubling a number.
LEMMA NoLeakOpened ==
  ASSUME NoLeak, NEW w \in Thread, NEW n \in Fd, NEW r \in Role, OpenedPointwise(n, w, r),
         r = "client" => client'[w] = n,
         r = "origin" => origin'[w] = n,
         \A v \in Thread :
           /\ client[v] \in Fd => client'[v] = client[v]
           /\ origin[v] \in Fd => origin[v] \in {origin'[v], old'[v]}
           /\ old[v] \in Fd => old[v] \in {origin'[v], old'[v]}
  PROVE  NoLeak'
<1> SUFFICES ASSUME NEW m \in Fd, NEW v \in Thread
             PROVE  /\ fds'[m] = <<v, "client">> => client'[v] = m
                    /\ fds'[m] = <<v, "origin">> => m \in {origin'[v], old'[v]}
  BY DEF NoLeak
<1>1. CASE m = n
  BY <1>1 DEF OpenedPointwise, Role
<1>2. CASE m # n
  BY <1>2 DEF OpenedPointwise, NoLeak
<1> QED
  BY <1>1, <1>2

LEMMA NoLeakClosed ==
  ASSUME NoLeak, NEW n, ClosedPointwise(n),
         \A v \in Thread :
           /\ client[v] # n => client'[v] = client[v]
           /\ origin[v] # n => origin'[v] = origin[v]
           /\ old[v] # n => old'[v] = old[v]
  PROVE  NoLeak'
<1> SUFFICES ASSUME NEW m \in Fd, NEW v \in Thread
             PROVE  /\ fds'[m] = <<v, "client">> => client'[v] = m
                    /\ fds'[m] = <<v, "origin">> => m \in {origin'[v], old'[v]}
  BY DEF NoLeak
<1>1. CASE m = n
  <2>1. fds'[m] = Free
    BY <1>1 DEF ClosedPointwise
  <2> QED
    BY <2>1, SocketIsNotFree DEF Role
<1>2. CASE m # n
  BY <1>2 DEF ClosedPointwise, NoLeak
<1> QED
  BY <1>1, <1>2

LEMMA OwnedClosed ==
  ASSUME ServerTypeOK, Owned, NEW n, ClosedPointwise(n),
         \A v \in Thread :
           /\ client'[v] # NoFd => client'[v] = client[v] /\ client[v] # n
           /\ origin'[v] # NoFd => origin'[v] = origin[v] /\ origin[v] # n
  PROVE  Owned'
<1> SUFFICES ASSUME NEW v \in Thread
             PROVE  /\ client'[v] # NoFd => fds'[client'[v]] = <<v, "client">>
                    /\ origin'[v] # NoFd => fds'[origin'[v]] = <<v, "origin">>
  BY DEF Owned
<1>1. client[v] \in Fd \cup {NoFd} /\ origin[v] \in Fd \cup {NoFd}
  BY DEF ServerTypeOK
<1> QED
  BY <1>1 DEF Owned, ClosedPointwise

LEMMA OwnedOpened ==
  ASSUME ServerTypeOK, Owned,
         NEW w \in Thread, NEW n \in Fd, NEW r \in Role, OpenedPointwise(n, w, r),
         \A v \in Thread :
           /\ client'[v] = client[v] \/ (v = w /\ r = "client" /\ client'[v] = n)
           /\ origin'[v] = origin[v] \/ (v = w /\ r = "origin" /\ origin'[v] = n)
  PROVE  Owned'
<1> SUFFICES ASSUME NEW v \in Thread
             PROVE  /\ client'[v] # NoFd => fds'[client'[v]] = <<v, "client">>
                    /\ origin'[v] # NoFd => fds'[origin'[v]] = <<v, "origin">>
  BY DEF Owned
<1>1. client[v] \in Fd \cup {NoFd} /\ origin[v] \in Fd \cup {NoFd}
  BY DEF ServerTypeOK
<1>2. /\ client[v] # NoFd => fds[client[v]] # Free
      /\ origin[v] # NoFd => fds[origin[v]] # Free
  BY SocketIsNotFree DEF Owned, Role
<1> QED
  BY <1>1, <1>2 DEF Owned, OpenedPointwise

LEMMA AcceptInv ==
  ASSUME SInv, NEW w \in Thread, Accept(w)
  PROVE  SInv'
<1>1. PICK n \in Fd : /\ Lowest(n) /\ Opened(n, w, "client")
                      /\ client' = [client EXCEPT ![w] = n]
  BY DEF Accept
<1>2. /\ OpenedPointwise(n, w, "client")
      /\ fds' \in Table
  BY <1>1, OpenedFacts DEF SInv, Role
<1>3. /\ at[w] = "idle" /\ accepted < MaxAccepted /\ accepted' = accepted + 1
      /\ at' = [at EXCEPT ![w] = "receive"]
      /\ UNCHANGED <<origin, old, addresses, failed>>
  BY DEF Accept, Go
<1>4. client[w] = NoFd /\ origin[w] = NoFd /\ old[w] = NoFd /\ n # NoFd
  BY <1>3, NoFdIsNone DEF ServerTypeOK, SInv, PlaceFits, OriginlessPlaces
<1>5. OthersKeep(w) /\ client'[w] = n /\ at'[w] = "receive"
  BY <1>1, <1>3 DEF OthersKeep, SInv, ServerTypeOK
<1>6. ServerTypeOK'
  <2>1. accepted' \in 0 .. MaxAccepted
    <3>1. accepted \in 0 .. MaxAccepted
      BY DEF SInv, ServerTypeOK
    <3> QED
      BY <1>3, <3>1, ServerAssumption
  <2>2. client' \in [Thread -> Fd \cup {NoFd}] /\ at' \in [Thread -> Places]
    BY <1>1, <1>3 DEF SInv, ServerTypeOK, Places
  <2>3. ASSUME NEW v \in Thread, v # w PROVE PlaceFits(v)'
    BY <1>2, <1>3, <1>4, <1>5, <2>3 DEF SInv, ServerTypeOK, PlaceFits, OthersKeep
  <2>4. PlaceFits(w)'
    BY <1>2, <1>3, <1>4, <1>5 DEF SInv, ServerTypeOK, PlaceFits, OriginlessPlaces
  <2> QED
    BY <1>2, <1>3, <1>4, <1>5, <2>1, <2>2, <2>3, <2>4 DEF SInv, ServerTypeOK, Table
<1>7. NoLeak'
  BY <1>2, <1>3, <1>4, <1>5, NoFdIsNone, NoLeakOpened DEF SInv, OthersKeep, Role
<1>8. failed' = {} => Owned' /\ Fresh'
  <2>1. ASSUME failed = {} PROVE Owned'
    BY <1>2, <1>3, <1>5, <2>1, OwnedOpened DEF SInv, OthersKeep, Role
  <2> QED
    BY <1>3, <1>5, <2>1 DEF SInv, Fresh, OthersKeep
<1> QED
  BY <1>6, <1>7, <1>8 DEF SInv

LEMMA ResolveInv ==
  ASSUME SInv, NEW w \in Thread, Resolve(w)
  PROVE  SInv'
<1> USE DEF SInv, Resolve, Go, sockets
<1>1. ServerTypeOK'
  BY DEF ServerTypeOK, PlaceFits, OriginlessPlaces, Places
<1>2. NoLeak'
  BY DEF NoLeak
<1>3. failed' = {} => Owned' /\ Fresh'
  BY DEF Owned, Fresh, ServerTypeOK, PlaceFits, OriginlessPlaces
<1> QED
  BY <1>1, <1>2, <1>3

LEMMA SocketInv ==
  ASSUME SInv, NEW w \in Thread, Socket(w)
  PROVE  SInv'
<1>1. PICK n \in Fd \cup {NoFd} :
        /\ origin' = [origin EXCEPT ![w] = n]
        /\ n \in Fd => Lowest(n) /\ Opened(n, w, "origin")
        /\ n = NoFd => fds' = fds
  BY NoFdIsNone DEF Socket
<1>2. /\ old' = [old EXCEPT ![w] = origin[w]]
      /\ at[w] = "socket" /\ at' = [at EXCEPT ![w] = "assigned"]
      /\ addresses[w] > 0 /\ addresses' = [addresses EXCEPT ![w] = @ - 1]
      /\ UNCHANGED <<client, accepted, failed>>
  BY DEF Socket, Go
<1>3. /\ n \in Fd => OpenedPointwise(n, w, "origin")
      /\ n = NoFd => fds' = fds
      /\ fds' \in Table
  BY <1>1, OpenedFacts DEF SInv, ServerTypeOK, Role, Table
<1>4. old[w] = NoFd /\ client[w] # NoFd
  BY <1>2 DEF SInv, ServerTypeOK, PlaceFits
<1>5. OthersKeep(w) /\ origin'[w] = n /\ old'[w] = origin[w] /\ at'[w] = "assigned"
  BY <1>1, <1>2 DEF OthersKeep, SInv, ServerTypeOK
<1>6. ServerTypeOK'
  <2>1. addresses' \in [Thread -> 0 .. MaxAddresses]
    <3>1. addresses \in [Thread -> 0 .. MaxAddresses]
      BY DEF SInv, ServerTypeOK
    <3> QED
      BY <1>2, <3>1, ServerAssumption
  <2>2. /\ origin' \in [Thread -> Fd \cup {NoFd}]
        /\ old' \in [Thread -> Fd \cup {NoFd}]
        /\ at' \in [Thread -> Places]
    BY <1>1, <1>2 DEF SInv, ServerTypeOK, Places
  <2>3. ASSUME NEW v \in Thread, v # w PROVE PlaceFits(v)'
    BY <1>2, <1>3, <1>4, <1>5, <2>3 DEF SInv, ServerTypeOK, PlaceFits, OthersKeep
  <2>4. PlaceFits(w)'
    BY <1>2, <1>3, <1>4, <1>5 DEF SInv, ServerTypeOK, PlaceFits, OriginlessPlaces
  <2> QED
    BY <1>2, <1>3, <1>4, <1>5, <2>1, <2>2, <2>3, <2>4 DEF SInv, ServerTypeOK, Table
<1>7. NoLeak'
  <2>1. CASE n = NoFd
    BY <1>2, <1>3, <1>4, <1>5, <2>1, NoFdIsNone DEF SInv, NoLeak, OthersKeep
  <2>2. CASE n \in Fd
    BY <1>2, <1>3, <1>4, <1>5, <2>2, NoFdIsNone, NoLeakOpened DEF SInv, OthersKeep, Role
  <2> QED
    BY <2>1, <2>2
<1>8. failed' = {} => Owned' /\ Fresh'
  <2>1. ASSUME failed = {} PROVE Owned'
    <3>1. CASE n = NoFd
      BY <1>2, <1>3, <1>5, <2>1, <3>1 DEF SInv, Owned, OthersKeep
    <3>2. CASE n \in Fd
      BY <1>2, <1>3, <1>5, <2>1, <3>2, OwnedOpened DEF SInv, OthersKeep, Role
    <3> QED
      BY <3>1, <3>2
  <2> QED
    BY <1>2, <1>5, <2>1 DEF SInv, Fresh, OthersKeep
<1> QED
  BY <1>6, <1>7, <1>8 DEF SInv

LEMMA CloseOldInv ==
  ASSUME SInv, NEW w \in Thread, CloseOld(w)
  PROVE  SInv'
<1>1. /\ at[w] = "assigned" /\ old' = [old EXCEPT ![w] = NoFd]
      /\ \E p \in {"socket", "connect"} :
           /\ at' = [at EXCEPT ![w] = p]
           /\ p = "socket" => origin[w] = NoFd
      /\ UNCHANGED <<client, origin, addresses, accepted, failed>>
  BY DEF CloseOld, Go
<1>2. ClosedPointwise(old[w]) /\ fds' \in Table
  BY ClosedFacts DEF CloseOld, SInv
<1>3. /\ OthersKeep(w) /\ old'[w] = NoFd /\ at'[w] \in {"socket", "connect"}
      /\ at'[w] = "socket" => origin[w] = NoFd
  BY <1>1 DEF OthersKeep, SInv, ServerTypeOK
<1>4. ServerTypeOK'
  <2>1. old' \in [Thread -> Fd \cup {NoFd}] /\ at' \in [Thread -> Places]
    BY <1>1 DEF SInv, ServerTypeOK, Places
  <2>3. ASSUME NEW v \in Thread, v # w PROVE PlaceFits(v)'
    BY <1>1, <1>2, <1>3, <2>3 DEF SInv, ServerTypeOK, PlaceFits, OthersKeep
  <2>4. PlaceFits(w)'
    BY <1>1, <1>2, <1>3 DEF SInv, ServerTypeOK, PlaceFits, OriginlessPlaces
  <2> QED
    BY <1>1, <1>2, <1>3, <2>1, <2>3, <2>4 DEF SInv, ServerTypeOK, Table
<1>5. NoLeak'
  BY <1>1, <1>2, <1>3, NoLeakClosed DEF SInv, OthersKeep
<1>6. failed' = {} => Owned' /\ Fresh'
  <2>1. ASSUME failed = {} PROVE old[w] = NoFd /\ Owned /\ Fresh
    BY <1>1, <2>1 DEF SInv, Fresh
  <2>2. ASSUME failed = {} PROVE Owned'
    BY <1>1, <1>2, <2>1, <2>2, OwnedClosed DEF SInv
  <2> QED
    BY <1>1, <1>3, <2>1, <2>2 DEF Fresh, OthersKeep
<1> QED
  BY <1>4, <1>5, <1>6 DEF SInv

LEMMA ConnectInv ==
  ASSUME SInv, NEW w \in Thread, Connect(w) \/ ConnectFails(w) \/ NoAddressLeft(w)
  PROVE  SInv'
<1> USE DEF SInv, Connect, ConnectFails, NoAddressLeft, Go, sockets
<1>1. ServerTypeOK'
  BY DEF ServerTypeOK, PlaceFits, OriginlessPlaces, Places
<1>2. NoLeak'
  BY DEF NoLeak
<1>3. failed' = {} => Owned' /\ Fresh'
  BY DEF Owned, Fresh, ServerTypeOK
<1> QED
  BY <1>1, <1>2, <1>3

LEMMA CloseFailedInv ==
  ASSUME SInv, NEW w \in Thread, CloseFailed(w)
  PROVE  SInv'
<1>1. /\ at[w] = "failed" /\ at' = [at EXCEPT ![w] = "socket"]
      /\ UNCHANGED <<client, origin, old, addresses, accepted, failed>>
  BY DEF CloseFailed, Go
<1>2. ClosedPointwise(origin[w]) /\ fds' \in Table
  BY ClosedFacts DEF CloseFailed, SInv
<1>3. ServerTypeOK'
  BY <1>1, <1>2 DEF SInv, ServerTypeOK, PlaceFits, OriginlessPlaces, Places, Table
<1>4. NoLeak'
  BY <1>1, <1>2, NoLeakClosed DEF SInv
<1>5. failed' # {}
  BY <1>1 DEF SInv, Fresh
<1> QED
  BY <1>3, <1>4, <1>5 DEF SInv

LEMMA LeaveInv ==
  ASSUME SInv, NEW w \in Thread, Leave(w)
  PROVE  SInv'
<1>1. /\ at[w] = "leave" /\ at' = [at EXCEPT ![w] = "leaving"]
      /\ origin' = [origin EXCEPT ![w] = NoFd]
      /\ UNCHANGED <<client, old, addresses, accepted, failed>>
  BY DEF Leave, Go
<1>2. ClosedPointwise(origin[w]) /\ fds' \in Table
  BY ClosedFacts DEF Leave, SInv
<1>3. OthersKeep(w) /\ origin'[w] = NoFd /\ at'[w] = "leaving" /\ old[w] = NoFd
  BY <1>1 DEF OthersKeep, SInv, ServerTypeOK, PlaceFits
<1>4. ServerTypeOK'
  <2>1. origin' \in [Thread -> Fd \cup {NoFd}] /\ at' \in [Thread -> Places]
    BY <1>1 DEF SInv, ServerTypeOK, Places
  <2>3. ASSUME NEW v \in Thread, v # w PROVE PlaceFits(v)'
    BY <1>1, <1>2, <1>3, <2>3 DEF SInv, ServerTypeOK, PlaceFits, OthersKeep
  <2>4. PlaceFits(w)'
    BY <1>1, <1>2, <1>3 DEF SInv, ServerTypeOK, PlaceFits, OriginlessPlaces
  <2> QED
    BY <1>1, <1>2, <1>3, <2>1, <2>3, <2>4 DEF SInv, ServerTypeOK, Table
<1>5. NoLeak'
  BY <1>1, <1>2, <1>3, NoLeakClosed DEF SInv, OthersKeep
<1>6. failed' = {} => Owned' /\ Fresh'
  <2>1. ASSUME failed = {} PROVE Owned'
    <3>1. \A v \in Thread :
            /\ client[v] # NoFd => client[v] # origin[w]
            /\ v # w /\ origin[v] # NoFd => origin[v] # origin[w]
      BY <2>1 DEF SInv, Owned
    <3> QED
      BY <1>1, <1>2, <1>3, <2>1, <3>1, OwnedClosed DEF SInv, OthersKeep
  <2> QED
    BY <1>1, <1>3, <2>1 DEF SInv, Fresh, OthersKeep
<1> QED
  BY <1>4, <1>5, <1>6 DEF SInv

LEMMA ThreadEndsInv ==
  ASSUME SInv, NEW w \in Thread, ThreadEnds(w)
  PROVE  SInv'
<1>1. /\ at[w] = "leaving" /\ at' = [at EXCEPT ![w] = "idle"]
      /\ client' = [client EXCEPT ![w] = NoFd]
      /\ UNCHANGED <<origin, old, addresses, accepted, failed>>
  BY DEF ThreadEnds, Go
<1>2. ClosedPointwise(client[w]) /\ fds' \in Table
  BY ClosedFacts DEF ThreadEnds, SInv
<1>3. OthersKeep(w) /\ client'[w] = NoFd /\ at'[w] = "idle" /\ old[w] = NoFd
  BY <1>1 DEF OthersKeep, SInv, ServerTypeOK, PlaceFits
<1>4. ServerTypeOK'
  <2>1. client' \in [Thread -> Fd \cup {NoFd}] /\ at' \in [Thread -> Places]
    BY <1>1 DEF SInv, ServerTypeOK, Places
  <2>3. ASSUME NEW v \in Thread, v # w PROVE PlaceFits(v)'
    BY <1>1, <1>2, <1>3, <2>3 DEF SInv, ServerTypeOK, PlaceFits, OthersKeep
  <2>4. PlaceFits(w)'
    BY <1>1, <1>2, <1>3 DEF SInv, ServerTypeOK, PlaceFits, OriginlessPlaces
  <2> QED
    BY <1>1, <1>2, <1>3, <2>1, <2>3, <2>4 DEF SInv, ServerTypeOK, Table
<1>5. NoLeak'
  BY <1>1, <1>2, <1>3, NoLeakClosed DEF SInv, OthersKeep
<1>6. failed' = {} => Owned' /\ Fresh'
  <2>1. ASSUME failed = {} PROVE Owned'
    <3>1. \A v \in Thread :
            /\ origin[v] # NoFd => origin[v] # client[w]
            /\ v # w /\ client[v] # NoFd => client[v] # client[w]
      BY <2>1 DEF SInv, Owned
    <3> QED
      BY <1>1, <1>2, <1>3, <2>1, <3>1, OwnedClosed DEF SInv, OthersKeep
  <2> QED
    BY <1>1, <1>3, <2>1 DEF SInv, Fresh, OthersKeep
<1> QED
  BY <1>4, <1>5, <1>6 DEF SInv

-----------------------------------------------------------------------------
LEMMA ServerStep == SInv /\ [ServerNext]_<<vars, serverVars>> => SInv'
<1> SUFFICES ASSUME SInv, [ServerNext]_<<vars, serverVars>>
             PROVE  SInv'
  OBVIOUS
<1>1. CASE UNCHANGED <<vars, serverVars>>
  BY <1>1 DEF serverVars, sockets, SInv, ServerTypeOK, PlaceFits, NoLeak, Owned, Fresh
<1>2. ASSUME NEW w \in Thread,
             \/ Receive(w) \/ BadRequest(w) \/ ParseBegins(w) \/ ParseEnds(w)
             \/ Answer(w) \/ Exchange(w)
      PROVE  SInv'
  <2>1. Quiet(w)
    BY <1>2 DEF Quiet, Receive, BadRequest, ParseBegins, ParseEnds, Answer, Exchange,
                Places, sockets, Go
  <2> QED
    BY <2>1, QuietInv
<1>3. ASSUME NEW w \in Thread, ParseCounts(w)
      PROVE  SInv'
  BY <1>3 DEF ParseCounts, serverVars, sockets, SInv, ServerTypeOK, PlaceFits, NoLeak, Owned, Fresh
<1> QED
  BY <1>1, <1>2, <1>3, AcceptInv, ResolveInv, SocketInv, CloseOldInv, ConnectInv,
     CloseFailedInv, LeaveInv, ThreadEndsInv DEF ServerNext, Process

\* For any number of threads and descriptors: no thread leaves a connection
\* open behind it, and until a connect() fails no descriptor is closed but by
\* the thread that opened it.
THEOREM DescriptorsAlways == ServerSpec => [](ServerTypeOK /\ NoLeak /\ OwnedUntilFailure)
<1>1. SInv => ServerTypeOK /\ NoLeak /\ OwnedUntilFailure
  BY DEF SInv, OwnedUntilFailure
<1> QED
  BY <1>1, ServerInitInv, ServerStep, PTL DEF ServerSpec

\* The server's threads use the counter as RequestIds says, whatever else they
\* do between two of its operations: the IDs' order holds for the server.
THEOREM ServerIdsInOrder == ServerSpec => Spec
<1>1. ServerInit => Init
  BY DEF ServerInit
<1>2. [ServerNext]_<<vars, serverVars>> => [Next]_vars
  BY DEF ServerNext, Process, Accept, Receive, BadRequest, ParseBegins, ParseCounts,
         ParseEnds, Answer, Resolve, Socket, CloseOld, Connect, ConnectFails, CloseFailed,
         NoAddressLeft, Exchange, Leave, ThreadEnds, Next
<1> QED
  BY <1>1, <1>2, PTL DEF ServerSpec, Spec

COROLLARY ServerIdsAreGreater == ServerSpec => []LaterIsGreater
BY ServerIdsInOrder, LaterIdsAreGreater, PTL
=============================================================================
