------------------------------- MODULE Server -------------------------------
(***************************************************************************)
(* The accept loop, its threads, and the descriptors they own.  Each       *)
(* descriptor is a number in a SocketWrapper, whose destructor closes the  *)
(* number it has, whoever owns it by then.  HttpClient::init() tries the   *)
(* origin's addresses one after the other.  What a thread says on its two  *)
(* connections is the subject of Relay, what it answers that of Agent.     *)
(***************************************************************************)
EXTENDS RequestIds

CONSTANTS
  Fd,             \* the descriptors left to connections
  MaxAddresses,   \* bound: how many addresses a host has
  MaxAccepted     \* bound: how many connections are accepted

ASSUME ServerAssumption ==
  Fd \subseteq Nat /\ MaxAddresses \in Nat /\ MaxAccepted \in Nat

VARIABLES
  fds,        \* the socket each descriptor stands for, and whose it is
  at,         \* where each thread is in process()
  client,     \* the number in the wrapper of each thread's client connection,
  origin,     \* in that of its HttpClient, and
  old,        \* in one that is being replaced; NoFd where there is none
  addresses,  \* the addresses HttpClient::init() has not tried
  accepted,   \* how many connections have been accepted
  failed      \* history: the threads that have had a connect() fail

sockets == <<fds, client, origin, old>>
serverVars == <<sockets, at, addresses, accepted, failed>>

Role == {"client", "origin"}
Free == <<>>
NoFd == -1

ServerInit ==
  /\ Init
  /\ fds = [n \in Fd |-> Free]
  /\ at = [w \in Thread |-> "idle"]
  /\ client = [w \in Thread |-> NoFd]
  /\ origin = [w \in Thread |-> NoFd]
  /\ old = [w \in Thread |-> NoFd]
  /\ addresses = [w \in Thread |-> 0]
  /\ accepted = 0
  /\ failed = {}

-----------------------------------------------------------------------------
\* The kernel gives the lowest number that is free.
Lowest(n) == fds[n] = Free /\ \A m \in Fd : fds[m] = Free => n <= m
Opened(n, w, r) == fds' = [fds EXCEPT ![n] = <<w, r>>]

\* close() of a number that is not open does nothing.
Closed(n) == fds' = [m \in Fd |-> IF m = n THEN Free ELSE fds[m]]

Go(w, place) == at' = [at EXCEPT ![w] = place]

-----------------------------------------------------------------------------
\* startServer(): accept(), and a thread for what it returns.  Without a free
\* number accept() fails and is called again.
Accept(w) ==
  /\ at[w] = "idle" /\ accepted < MaxAccepted
  /\ accepted' = accepted + 1
  /\ \E n \in Fd : /\ Lowest(n) /\ Opened(n, w, "client")
                   /\ client' = [client EXCEPT ![w] = n]
  /\ Go(w, "receive")
  /\ UNCHANGED <<vars, origin, old, addresses, failed>>

\* recvRequest(): a request, or NULL.
Receive(w) ==
  /\ at[w] = "receive"
  /\ Go(w, "parse") \/ Go(w, "leave")
  /\ UNCHANGED <<vars, sockets, addresses, accepted, failed>>

\* A request that does not parse is answered with 400 before it gets an ID.
BadRequest(w) ==
  /\ at[w] = "parse"
  /\ Go(w, "leave")
  /\ UNCHANGED <<vars, sockets, addresses, accepted, failed>>

\* parse(), by process() and for the request with validators once more.
ParseBegins(w) ==
  /\ Begin(w)
  /\ \/ at[w] = "parse" /\ Go(w, "parsing")
     \/ at[w] = "parse again" /\ Go(w, "parsing again")
  /\ UNCHANGED <<sockets, addresses, accepted, failed>>
ParseCounts(w) ==
  /\ at[w] \in {"parsing", "parsing again"} /\ Increment(w)
  /\ UNCHANGED serverVars
\* What follows Load in parse(), the lookup of the request's host for the log,
\* is left out: what the resolver opens it closes again before parse() returns.
ParseEnds(w) ==
  /\ Load(w)
  /\ \/ at[w] = "parsing" /\ Go(w, "answer")
     \/ at[w] = "parsing again" /\ Go(w, "resolve")
  /\ UNCHANGED <<sockets, addresses, accepted, failed>>

\* The agent answers from the cache, revalidates, or fetches; CONNECT goes to
\* HttpClient::init() at once.
Answer(w) ==
  /\ at[w] = "answer"
  /\ \E place \in {"leave", "parse again", "resolve"} : Go(w, place)
  /\ UNCHANGED <<vars, sockets, addresses, accepted, failed>>

-----------------------------------------------------------------------------
\* getaddrinfo(): a list of addresses, none if it fails.
Resolve(w) ==
  /\ at[w] = "resolve"
  /\ \E n \in 0 .. MaxAddresses : addresses' = [addresses EXCEPT ![w] = n]
  /\ Go(w, "socket")
  /\ UNCHANGED <<vars, sockets, accepted, failed>>

\* socket() for the next address; its wrapper replaces the one before.
Socket(w) ==
  /\ at[w] = "socket" /\ addresses[w] > 0
  /\ addresses' = [addresses EXCEPT ![w] = @ - 1]
  /\ \/ \E n \in Fd : /\ Lowest(n) /\ Opened(n, w, "origin")
                      /\ origin' = [origin EXCEPT ![w] = n]
     \/ /\ \A n \in Fd : fds[n] # Free
        /\ origin' = [origin EXCEPT ![w] = NoFd]
        /\ UNCHANGED fds
  /\ old' = [old EXCEPT ![w] = origin[w]]
  /\ Go(w, "assigned")
  /\ UNCHANGED <<vars, client, accepted, failed>>

\* The wrapper that was replaced closes the number it has.
CloseOld(w) ==
  /\ at[w] = "assigned"
  /\ Closed(old[w]) /\ old' = [old EXCEPT ![w] = NoFd]
  /\ Go(w, IF origin[w] = NoFd THEN "socket" ELSE "connect")
  /\ UNCHANGED <<vars, client, origin, addresses, accepted, failed>>

\* connect() needs a socket that is not connected yet.
Connectable(n) ==
  \E v \in Thread : fds[n] = <<v, "origin">> /\ at[v] \in {"assigned", "connect"}
Connect(w) ==
  /\ at[w] = "connect" /\ Connectable(origin[w])
  /\ Go(w, "exchange")
  /\ UNCHANGED <<vars, sockets, addresses, accepted, failed>>
ConnectFails(w) ==
  /\ at[w] = "connect"
  /\ failed' = failed \cup {w}
  /\ Go(w, "failed")
  /\ UNCHANGED <<vars, sockets, addresses, accepted>>

\* The number is closed, and stays in its wrapper.
CloseFailed(w) ==
  /\ at[w] = "failed"
  /\ Closed(origin[w])
  /\ Go(w, "socket")
  /\ UNCHANGED <<vars, client, origin, old, addresses, accepted, failed>>

NoAddressLeft(w) ==
  /\ at[w] = "socket" /\ addresses[w] = 0
  /\ Go(w, "leave")
  /\ UNCHANGED <<vars, sockets, addresses, accepted, failed>>

-----------------------------------------------------------------------------
\* Slip: the connection is closed by hand when the exchange is over.
ExchangeCloses(w) ==
  /\ at[w] = "exchange"
  /\ Closed(origin[w])
  /\ Go(w, "leave")
  /\ UNCHANGED <<vars, client, origin, old, addresses, accepted, failed>>

\* What happens on the two connections, see Relay.
Exchange(w) ==
  /\ at[w] = "exchange"
  /\ Go(w, "leave")
  /\ UNCHANGED <<vars, sockets, addresses, accepted, failed>>

\* Slip: only what is left of the thread's arguments is destroyed.
LeaveToIdle(w) ==
  /\ at[w] = "leave"
  /\ Closed(client[w])
  /\ client' = [client EXCEPT ![w] = NoFd]
  /\ Go(w, "idle")
  /\ UNCHANGED <<vars, origin, old, addresses, accepted, failed>>

\* Slip: the origin's descriptor is a plain int, and goes without being closed.
LeaveUnwrapped(w) ==
  /\ at[w] = "leave"
  /\ origin' = [origin EXCEPT ![w] = NoFd]
  /\ Go(w, "leaving")
  /\ UNCHANGED <<vars, fds, client, old, addresses, accepted, failed>>

\* process() returns: the HttpClient is destroyed first, with its wrapper, then
\* the thread's argument with that of the client's connection.
Leave(w) ==
  /\ at[w] = "leave"
  /\ Closed(origin[w])
  /\ origin' = [origin EXCEPT ![w] = NoFd]
  /\ Go(w, "leaving")
  /\ UNCHANGED <<vars, client, old, addresses, accepted, failed>>
ThreadEnds(w) ==
  /\ at[w] = "leaving"
  /\ Closed(client[w])
  /\ client' = [client EXCEPT ![w] = NoFd]
  /\ Go(w, "idle")
  /\ UNCHANGED <<vars, origin, old, addresses, accepted, failed>>

Process(w) ==
  \/ Receive(w) \/ BadRequest(w)
  \/ ParseBegins(w) \/ ParseCounts(w) \/ ParseEnds(w)
  \/ Answer(w) \/ Resolve(w)
  \/ Socket(w) \/ CloseOld(w) \/ Connect(w) \/ ConnectFails(w) \/ CloseFailed(w)
  \/ NoAddressLeft(w) \/ Exchange(w) \/ Leave(w) \/ ThreadEnds(w)

ServerNext == \E w \in Thread : Accept(w) \/ Process(w)

ServerSpec == ServerInit /\ [][ServerNext]_<<vars, serverVars>>

-----------------------------------------------------------------------------
Places == {"idle", "receive", "parse", "parsing", "answer", "parse again",
           "parsing again", "resolve", "socket", "assigned", "connect",
           "failed", "exchange", "leave", "leaving"}

(* Every variable holds a value of its kind; only an idle thread has no     *)
(* connection to a client, only init() has a wrapper to replace, and before *)
(* it and after process() there is none to an origin.                       *)
OriginlessPlaces == {"idle", "receive", "parse", "parsing", "answer", "parse again",
                     "parsing again", "resolve", "leaving"}
PlaceFits(w) ==
  /\ at[w] = "idle" <=> client[w] = NoFd
  /\ at[w] # "assigned" => old[w] = NoFd
  /\ at[w] \in OriginlessPlaces => origin[w] = NoFd
ServerTypeOK ==
  /\ fds \in [Fd -> {Free} \cup (Thread \X Role)]
  /\ at \in [Thread -> Places]
  /\ client \in [Thread -> Fd \cup {NoFd}]
  /\ origin \in [Thread -> Fd \cup {NoFd}]
  /\ old \in [Thread -> Fd \cup {NoFd}]
  /\ addresses \in [Thread -> 0 .. MaxAddresses]
  /\ accepted \in 0 .. MaxAccepted
  /\ failed \subseteq Thread
  /\ \A w \in Thread : PlaceFits(w)

(* An open descriptor is in a wrapper of the thread it was opened for,      *)
(* which will close it: whatever fails, and in whatever order the threads   *)
(* open and close, no connection is left open by a thread that has ended.   *)
NoLeak ==
  \A n \in Fd : \A w \in Thread :
    /\ fds[n] = <<w, "client">> => client[w] = n
    /\ fds[n] = <<w, "origin">> => n \in {origin[w], old[w]}

\* What a wrapper has is open, and the socket it was opened for.
Owned ==
  \A w \in Thread :
    /\ client[w] # NoFd => fds[client[w]] = <<w, "client">>
    /\ origin[w] # NoFd => fds[origin[w]] = <<w, "origin">>

(* As long as no connect() fails, no number is closed twice: every wrapper  *)
(* has a socket of its own, however the threads share the numbers.          *)
OwnedUntilFailure == failed = {} => Owned

(* "when it goes out of scope, the smart pointer automatically calls the    *)
(* dtor, which close the socket" (danger_log.txt): a thread's connection to *)
(* its client is its own until the thread ends.                             *)
ClientOwned == \A w \in Thread :
                 at[w] # "idle" => fds[client[w]] = <<w, "client">>
=============================================================================
