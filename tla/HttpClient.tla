----------------------------- MODULE HttpClient -----------------------------
(***************************************************************************)
(* HttpClient::sendRequest() and recvResponse() over Streams, and the send *)
(* loop they share with HttpServer::sendResponse().  recvResponse() reads  *)
(* into a buffer of fixed size, parses the whole buffer as a C string, and *)
(* reads on if a Content-Length says that more is to come.                 *)
(*                                                                         *)
(* What there is to know of the origin's response:                         *)
(*   fields  how many bytes it takes until its header fields are known     *)
(*   head    the length of its header, body that of its body               *)
(*   length  its Content-Length: what stoi() makes of each of its digits   *)
(*           and those before, <<>> if it has none; the last is at fields  *)
(*   encoded, chunked  it has a Content-Encoding; is sent in chunks        *)
(*   nul     the place of the first zero byte in its body, 0 if none       *)
(***************************************************************************)
EXTENDS Streams, FiniteSets

CONSTANTS
  BufferSize,   \* 65536
  MaxInt,       \* 2^31 - 1, the greatest number stoi() converts
  Response      \* what origins may send

ASSUME HttpClientAssumption ==
  /\ BufferSize \in Nat \ {0} /\ MaxInt \in Nat
  /\ \A r \in Response :
       /\ r.fields \in Nat \ {0} /\ r.head \in Nat /\ r.fields <= r.head
       /\ r.body \in Nat /\ r.nul \in 0 .. r.body
       /\ r.encoded \in BOOLEAN /\ r.chunked \in BOOLEAN
       /\ r.length \in Seq(Nat) /\ Len(r.length) < r.fields
       /\ r.length # <<>> => ~r.chunked

VARIABLES
  pc,         \* where the thread is, or that the process has been "killed" (by
              \* SIGPIPE, or an exception), or that its behaviour is "undefined"
  response,   \* the origin's response
  buffer,     \* recvResponse(): the bytes of the buffer, 0 where none were read
  total,      \* recvResponse(): how many bytes it counts as read
  wanted,     \* recvResponse(): content_length, 0 without one
  held        \* what a send loop has still to send

clientVars == <<pc, response, buffer, total, wanted, held>>

Crash(how) == pc' = how /\ UNCHANGED <<response, buffer, total, wanted, held>>

-----------------------------------------------------------------------------
\* Slip: a send that was cut short starts again at the beginning.
SendPartAgain(at, side, next) ==
  \E n \in 1 .. Len(held) :
    /\ Gave(side, SubSeq(held, 1, n))
    /\ IF n = Len(held) THEN pc' = next /\ held' = <<>>
       ELSE UNCHANGED <<pc, held>>
    /\ UNCHANGED <<response, buffer, total, wanted>>

\* send() takes some or all of what is left.
SendPart(at, side, next) ==
  \E n \in 1 .. Len(held) :
    /\ Gave(side, SubSeq(held, 1, n))
    /\ held' = SubSeq(held, n + 1, Len(held))
    /\ pc' = IF n = Len(held) THEN next ELSE at
    /\ UNCHANGED <<response, buffer, total, wanted>>

\* To a peer that has reset it succeeds once more, or fails, or raises SIGPIPE,
\* whose default action main() leaves alone.
SendToGone(next, failed) ==
  /\ \/ /\ pc' \in {next, failed} /\ held' = <<>>
        /\ UNCHANGED <<response, buffer, total, wanted>>
     \/ Crash("killed")
  /\ UNCHANGED streams

SendAll(at, side, next, failed) ==
  /\ pc = at
  /\ \/ /\ held = <<>> /\ pc' = next
        /\ UNCHANGED <<response, buffer, total, wanted, held, streams>>
     \/ /\ held # <<>> /\ peer[side] \in {"open", "finished"}
        /\ SendPart(at, side, next)
     \/ /\ held # <<>> /\ peer[side] \in {"reset", "gone"}
        /\ SendToGone(next, failed)

-----------------------------------------------------------------------------
\* strlen() of the buffer: it ends at padding and at a zero byte of the body.
EndsText(byte) ==
  byte = 0 \/ (response.nul # 0 /\ byte = response.head + response.nul)
TextLength(b) ==
  Cardinality({n \in DOMAIN b : \A i \in 1 .. n : ~EndsText(b[i])})

\* The text has more than the Content-Length announces.
Beyond(b) ==
  /\ response.length # <<>>
  /\ TextLength(b) > response.head + response.length[Len(response.length)]

\* parse() of a text: a field that is cut off has the part of its value that is
\* there, and the body is what follows the header.  It fails, so that there is
\* neither, if the text does not begin where the response begins, or goes on
\* behind its end (with anything but line ends or another message).
Begins(b) == b # <<>> /\ b[1] = 1 /\ ~Beyond(b)
FieldsKnown(b) == Begins(b) /\ TextLength(b) >= response.fields
LengthIn(b) ==
  LET missing == response.fields - TextLength(b)
      digits  == Len(response.length) - (IF missing > 0 THEN missing ELSE 0)
  IN  IF Begins(b) /\ digits > 0 THEN response.length[digits] ELSE 0
\* Slip: the header is counted too.
BodySizeAndHeader(b) == IF Begins(b) THEN TextLength(b) ELSE 0
BodySize(b) ==
  IF Begins(b) /\ TextLength(b) > response.head THEN TextLength(b) - response.head ELSE 0

Written(n) ==
  [i \in 1 .. BufferSize |->
     IF i \in total + 1 .. total + n THEN read["origin"] + i - total ELSE buffer[i]]

Padding == [i \in 1 .. BufferSize |-> 0]

\* Returns a response made of these bytes, or NULL.
Return(bytes) ==
  /\ pc' = "received" /\ held' = bytes
  /\ buffer' = Padding /\ total' = 0
  /\ UNCHANGED response
Null ==
  /\ pc' = "null"
  /\ buffer' = Padding /\ total' = 0
  /\ UNCHANGED <<response, wanted, held>>

\* Slip: the loop waits for one byte too many.
LoopToEqual(b, length, n) ==
  IF BodySize(b) <= length
  THEN /\ pc' = "receiveMore"
       /\ buffer' = b /\ total' = total + n
       /\ UNCHANGED <<response, held>>
  ELSE Return(SubSeq(b, 1, total + n))

\* The loop's condition, with n more bytes counted.
Loop(b, length, n) ==
  IF BodySize(b) < length
  THEN /\ pc' = "receiveMore"
       /\ buffer' = b /\ total' = total + n
       /\ UNCHANGED <<response, held>>
  ELSE Return(SubSeq(b, 1, total + n))

-----------------------------------------------------------------------------
\* The first recv().  An encoded response is the whole buffer; a Content-Length
\* that stoi() cannot convert throws, and nothing catches it.
RecvFirst ==
  /\ pc = "receive"
  /\ \E n \in Recv("origin", BufferSize) :
       /\ Took("origin", n)
       /\ LET b == Written(n)  whole == FieldsKnown(b) /\ response.encoded IN
            IF n = -1 THEN Null
            ELSE IF whole THEN Return(b) /\ wanted' = 0
            ELSE IF LengthIn(b) > MaxInt THEN Crash("killed")
            ELSE Loop(b, LengthIn(b), n) /\ wanted' = LengthIn(b)

\* Slip: the loop goes on at the end of the stream.
RecvMoreForEver ==
  /\ pc = "receiveMore"
  /\ \E n \in Recv("origin", BufferSize) :
       /\ Took("origin", n) /\ wanted' = wanted
       /\ IF total + n > BufferSize THEN Crash("undefined")
          ELSE Loop(Written(n), wanted, n)

\* Slip: what was read is counted twice.
RecvMoreTwice ==
  /\ pc = "receiveMore"
  /\ \E n \in Recv("origin", BufferSize) :
       /\ Took("origin", n) /\ wanted' = wanted
       /\ IF total + n + n > BufferSize THEN Crash("undefined")
          ELSE IF n = 0 THEN Return(SubSeq(buffer, 1, total))
          ELSE Loop(Written(n), wanted, n + n)

\* The loop: recv() behind what was read, but as much as the whole buffer
\* would hold.  -1 is not told from a length and moves total back.
RecvMore ==
  /\ pc = "receiveMore"
  /\ \E n \in Recv("origin", BufferSize) :
       /\ Took("origin", n) /\ wanted' = wanted
       /\ IF total + n > BufferSize THEN Crash("undefined")
          ELSE IF n = 0 THEN Return(SubSeq(buffer, 1, total))
          ELSE Loop(Written(n), wanted, n)

RecvResponse == RecvFirst \/ RecvMore
=============================================================================
