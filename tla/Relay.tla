------------------------------- MODULE Relay -------------------------------
(***************************************************************************)
(* What one thread of HttpServer does with the two connections of a        *)
(* request: fetch a response and send it on, process_chunked() and         *)
(* process_connect().  When it has fetched a response the agent may answer *)
(* with another one (see Agent); here it answers with the one it fetched.  *)
(***************************************************************************)
EXTENDS HttpClient

CONSTANTS
  Timeout,      \* the two seconds of process_connect(), in ticks
  MaxSent       \* bound: the length of the request, and of what either side
                \* sends into a tunnel

ASSUME RelayAssumption == Timeout \in Nat /\ MaxSent \in Nat

VARIABLES
  mode,     \* "fetch", "chunked" from the first piece on, or "tunnel"
  left      \* what select() has left of the timeout

relayVars == <<mode, left>>
vars == <<streams, clientVars, relayVars>>

OK_200 == -200   \* the response to CONNECT, a byte that no peer sends

\* The request has been read, or asks for a tunnel; the origin is connected.
Init ==
  /\ mode \in {"fetch", "tunnel"}
  /\ response \in Response
  /\ peer = [side \in Side |-> "open"]
  /\ sent = [side \in Side |-> IF mode = "fetch" /\ side = "client" THEN MaxSent ELSE 0]
  /\ read = sent
  /\ got = [side \in Side |-> <<>>]
  /\ pc = IF mode = "fetch" THEN "sendRequest" ELSE "sendResponse"
  /\ held = IF mode = "fetch" THEN [i \in 1 .. MaxSent |-> i] ELSE <<OK_200>>
  /\ buffer = Padding /\ total = 0 /\ wanted = 0
  /\ left = Timeout

-----------------------------------------------------------------------------
\* HttpClient::sendRequest(), called by GetResp() and by process_connect().
SendRequest ==
  /\ SendAll("sendRequest", "origin",
             IF mode = "tunnel" THEN "select" ELSE "receive", "done")
  /\ UNCHANGED relayVars

\* HttpServer::sendResponse().
SendResponse ==
  /\ SendAll("sendResponse", "client",
             CASE mode = "fetch"   -> "done"
               [] mode = "chunked" -> "receive"
               [] mode = "tunnel"  -> "select",
             "done")
  /\ UNCHANGED relayVars

Receive == RecvResponse /\ UNCHANGED relayVars

\* The response goes to the client.  If it is chunked, the pieces that follow
\* go after it, to the one that is empty.
Received ==
  /\ pc = "received"
  /\ mode' = IF mode = "fetch" /\ response.chunked /\ held # <<>> /\ FieldsKnown(held)
             THEN "chunked" ELSE mode
  /\ pc' = IF mode = "chunked" /\ held = <<>> THEN "done" ELSE "sendResponse"
  /\ UNCHANGED <<streams, response, buffer, total, wanted, held, left>>

\* recvResponse() returned NULL: the thread ends without an answer.
ReceivedNull ==
  /\ pc = "null"
  /\ pc' = "done"
  /\ UNCHANGED <<streams, response, buffer, total, wanted, held, relayVars>>

-----------------------------------------------------------------------------
\* select() reports the client: one recv() of what it sends, for the origin.
SelectClient ==
  /\ pc = "select" /\ Readable("client")
  /\ \E n \in Recv("client", BufferSize) :
       /\ Took("client", n)
       /\ held' = Bytes("client", n)
       /\ pc' = IF n = -1 THEN "done" ELSE "sendRequest"
  /\ UNCHANGED <<response, buffer, total, wanted, relayVars>>

\* The origin's turn comes only when the client is not reported.
SelectOrigin ==
  /\ pc = "select" /\ ~Readable("client") /\ Readable("origin")
  /\ pc' = "receive"
  /\ UNCHANGED <<streams, response, buffer, total, wanted, held, relayVars>>

\* Slip: a timeout is not told from a report.
TimeoutIgnored ==
  /\ pc = "select" /\ ~Readable("client") /\ ~Readable("origin")
  /\ left = 0
  /\ UNCHANGED vars

\* Nothing in time: "Tunnel closed" is logged.
SelectTimeout ==
  /\ pc = "select" /\ ~Readable("client") /\ ~Readable("origin")
  /\ left = 0
  /\ pc' = "done"
  /\ UNCHANGED <<streams, response, buffer, total, wanted, held, relayVars>>

\* Time passes in select(), which takes it off the timeout.
Tick ==
  /\ pc = "select" /\ ~Readable("client") /\ ~Readable("origin")
  /\ left > 0
  /\ left' = left - 1
  /\ UNCHANGED <<streams, clientVars, mode>>

-----------------------------------------------------------------------------
\* What is still to come from a peer; what an origin sends is its response.
MaySend(side) ==
  IF mode = "tunnel" THEN sent[side] < MaxSent
  ELSE side = "origin" /\ sent[side] < response.head + response.body
Peers ==
  /\ \E side \in Side :
       \/ MaySend(side) /\ SendByte(side)
       \/ \E how \in {"finished", "reset"} : HangUp(side, how)
  /\ UNCHANGED <<clientVars, relayVars>>

Thread ==
  \/ SendRequest \/ SendResponse \/ Receive \/ Received \/ ReceivedNull
  \/ SelectClient \/ SelectOrigin \/ SelectTimeout \/ Tick

Next == Thread \/ Peers

(* The thread, and time, go on; a recv() that waits is a step that is not   *)
(* enabled.  The peers do what they like, but take what they are sent.      *)
Fairness == WF_vars(Thread)

Spec == Init /\ [][Next]_vars /\ Fairness

-----------------------------------------------------------------------------
Byte == {OK_200} \cup Nat

\* Every variable holds a value of its kind.
TypeOK ==
  /\ peer \in [Side -> {"open", "finished", "reset", "gone"}]
  /\ sent \in [Side -> Nat] /\ read \in [Side -> Nat]
  /\ \A side \in Side : read[side] <= sent[side]
  /\ got \in [Side -> Seq(Byte)] /\ held \in Seq(Byte)
  /\ pc \in {"sendRequest", "sendResponse", "receive", "receiveMore",
             "received", "null", "select", "done", "killed", "undefined"}
  /\ response \in Response
  /\ buffer \in [1 .. BufferSize -> Nat]
  /\ total \in 0 .. BufferSize
  /\ wanted \in 0 .. MaxInt
  /\ mode \in {"fetch", "chunked", "tunnel"}
  /\ left \in 0 .. Timeout

(* What a peer has received is what the other has sent, from the beginning, *)
(* in order, with nothing missing in between and nothing twice (after the   *)
(* 200 of a tunnel): pieces, partial sends and the reading loop do not show.*)
(* A response with a Content-Encoding is padded, and not meant here.        *)
InOrder ==
  LET ofOrigin == IF mode = "tunnel" /\ got["client"] # <<>>
                  THEN Tail(got["client"]) ELSE got["client"]
  IN  ~response.encoded =>
        \A bytes \in {ofOrigin, got["origin"]} : \A i \in DOMAIN bytes : bytes[i] = i

Staying(side) == peer[side] \in {"open", "finished"}

(* When the thread ends, a client that stays has all that its origin sent,  *)
(* if the origin has not reset the connection and the response comes in     *)
(* chunks, or its Content-Length, above 0 and not below the body's length,  *)
(* was in the first piece: recvResponse() does not return before, and the   *)
(* relay does not lose its tail.  For a Content-Length of 0 it waits for    *)
(* nothing, not even for the rest of the header.                            *)
LengthKnown ==
  /\ wanted > 0 /\ wanted >= response.body
  /\ response.length # <<>> /\ wanted = response.length[Len(response.length)]
Entire ==
  ( /\ pc = "done" /\ mode # "tunnel" /\ ~response.encoded
    /\ Staying("client") /\ Staying("origin")
    /\ mode = "chunked" \/ LengthKnown )
  => Len(got["client"]) = sent["origin"]

Fits == response.head + response.body <= BufferSize

(* A response that fits into the buffer never overruns it, whatever pieces  *)
(* it comes in and whenever the origin resets the connection, though recv() *)
(* is always given the whole buffer's size.                                 *)
NoOverrun == mode # "tunnel" /\ Fits => pc # "undefined"

Over == pc \in {"done", "killed", "undefined"}

(* How many steps, at most, the thread takes until it waits for a peer or   *)
(* ends, if none sends any more.  Every byte is worth more steps than there *)
(* are between two calls of recv(), and so is the -1 of a reset.            *)
After == IF mode = "tunnel" THEN 8 ELSE 3
Work ==
  CASE pc = "sendRequest"  -> Len(held) + 8
    [] pc = "select"       -> 7
    [] pc = "receive"      -> IF mode = "chunked" THEN 2 ELSE 6
    [] pc = "receiveMore"  -> total + After + 2
    [] pc = "received"     -> IF mode = "chunked" /\ held = <<>> THEN 1
                              ELSE Len(held) + After + 1
    [] pc = "sendResponse" -> Len(held) + After
    [] pc = "null"         -> 1
    [] OTHER               -> 0
ToHear ==
  Unread("client") + Unread("origin") + (IF peer["origin"] = "gone" THEN 0 ELSE 1)
Remaining == (BufferSize + 10) * ToHear + left + Work

(* The thread never goes round in circles: while both sides of a tunnel are *)
(* open, and always outside a tunnel, each of its steps brings it nearer to *)
(* a recv() that waits or to its end, however often send() is cut short and *)
(* though the loop of recvResponse() takes a -1 for a length; and only what *)
(* a peer sends takes it further away.                                      *)
NoSpin ==
  [][ /\ Thread /\ (mode = "tunnel" => \A side \in Side : peer[side] = "open")
         => Remaining' \in 0 .. Remaining - 1
      /\ Peers /\ sent' = sent => Remaining' = Remaining ]_vars

(* A thread that waits for an origin comes to an end once the origin hangs  *)
(* up, at any point of the response.                                        *)
HangUpEnds == (mode # "tunnel" /\ peer["origin"] # "open") ~> Over

(* Once an origin has sent all that its Content-Length announces, the       *)
(* thread comes to an end though the origin keeps the connection open,      *)
(* unless a zero byte hides the rest of the body.                           *)
CompleteEnds ==
  ( /\ mode # "tunnel" /\ response.nul = 0
    /\ response.length # <<>> /\ response.body = response.length[Len(response.length)]
    /\ sent["origin"] = response.head + response.body )
  ~> Over

(* A tunnel through which neither side sends any more closes, as long as    *)
(* neither hangs up: process_connect()'s timeout ends it, unless what comes *)
(* through looks like a response with a Content-Length.                     *)
QuietTunnelCloses ==
  ( /\ mode = "tunnel" /\ response.length = <<>>
    /\ [](\A side \in Side : peer[side] = "open") )
  => <>Over

(* "timeout: 2s" (http_server.cpp, process_connect): every tunnel through   *)
(* which nothing is sent any more is closed.                                *)
TunnelCloses ==
  (mode = "tunnel" /\ response.length = <<>>) => <>Over
=============================================================================
