----------------------------- MODULE HttpParser -----------------------------
(***************************************************************************)
(* HTTP_Parser: one llhttp parser and what its callbacks collect, over one *)
(* call of HTTP_Parser::parse(), that is one llhttp_execute() of one       *)
(* buffer.  The buffer is any sequence of inputs and may end anywhere.     *)
(*                                                                         *)
(* The collected strings are sequences of where each appended piece came   *)
(* from: keys and values of numbers of header lines, method, url, status   *)
(* and body of numbers of messages.                                        *)
(***************************************************************************)
EXTENDS StartLine, HeaderLines, MessageBody, Sequences

CONSTANTS MaxMessages, MaxLines, MaxFolds, MaxPieces  \* bounds of the input

VARIABLES method, url, status, keys, values, body

collected == <<method, url, status, keys, values, body>>
vars == <<s, event, read, collected>>

Init ==
  /\ ParserInit
  /\ method = <<>> /\ url = <<>> /\ status = <<>>
  /\ keys = <<>> /\ values = <<>> /\ body = <<>>

\* A callback that is set appends its text; on_message_begin, which would
\* clear what is collected, is not set.
Collect(seq, call, piece) ==
  IF event'.call = call THEN Append(seq, piece) ELSE seq
Callbacks ==
  /\ method' = Collect(method, "on_method", read'.message)
  /\ url' = Collect(url, "on_url", read'.message)
  /\ status' = Collect(status, "on_status", read'.message)
  /\ keys' = Collect(keys, "on_header_field", read'.line)
  /\ values' = Collect(values, "on_header_value", read'.line)
  /\ body' = Collect(body, "on_body", read'.message)

\* llhttp__internal_execute: at the end of the buffer an open span is given to
\* its callback.
EndOfBuffer ==
  /\ s.current \notin {"error", "returned"}
  /\ EndSpan(To(s, "returned"))

\* Bound: after the last message, line, fold or piece of a body tried, only
\* the end follows.
Within ==
  /\ read.message <= MaxMessages
  /\ read.line <= MaxLines
  /\ read.folds <= MaxFolds
  /\ Len(body) <= MaxPieces

Input == RequestLine \/ StatusLine \/ HeaderLine \/ Body

Next ==
  /\ \/ Within /\ Input
     \/ EndOfBuffer
  /\ Callbacks

Spec == Init /\ [][Next]_vars

\* What HTTP_Parser::parse() returns.
parse == s.current = "returned" \/ s.error = "PAUSED_UPGRADE"

-----------------------------------------------------------------------------
\* Every variable holds a value of its kind.
TypeOK ==
  /\ s.header_state \in HeaderState
  /\ s.flags \subseteq Flag
  /\ s.content_length \in 0 .. MaxLength
  /\ s.method \in 0 .. 45
  /\ s.upgrade \in BOOLEAN
  /\ event.bytes \in Nat
  /\ read.length \in Nat

(* What on_body gets of a body with a length, or of a chunk, and what is    *)
(* left to come are together what its digits say, whatever their number:    *)
(* the 64-bit length never wraps around (mul_add_content_length).           *)
LengthDelimited == s.flags \cap {"CHUNKED", "CONTENT_LENGTH"} # {}
BodyAsAnnounced ==
  /\ s.current \in {"header_value_content_length_ws", "chunk_size"} =>
       s.content_length = read.length
  /\ event.call = "on_body" /\ (s.current = "returned" => LengthDelimited) =>
       event.bytes + s.content_length = read.length

(* A body is read by length only if the message has said a length and no    *)
(* coding, and by chunks only if chunked is the last coding it has said and *)
(* it has said no length: nothing is left over of another header line, of   *)
(* a folded one or of the message before.                                   *)
FramingAsSaid ==
  /\ At("span_start_llhttp__on_body_1") => read.sized /\ read.coding = "none"
  /\ s.current \in {"chunk_size_digit", "chunk_size"} =>
       ~read.sized /\ read.coding = "chunked"

(* A key and the value at its index, which parse() of a request or response *)
(* stores under that key, are of one header line unless a folded line came  *)
(* before; then values fall behind keys and never ahead.                    *)
FieldsPaired ==
  \A i \in DOMAIN keys \cap DOMAIN values :
    IF read.folds = 0 THEN values[i] = keys[i] ELSE values[i] <= keys[i]

(* After a message of HTTP/1.1 that said "Connection: close" no other       *)
(* message is taken from the buffer.                                        *)
CloseEnds ==
  [][read.message' # read.message =>
       ~(read.close /\ s.http_major = 1 /\ s.http_minor = 1)]_vars

-----------------------------------------------------------------------------
(* The parser implements HttpMessage.                                       *)

HeaderNodes ==
  {"headers_start", "header_field_start", "header_field_colon",
   "header_field_general", "header_value_discard_ws",
   "header_value_discard_lws", "header_value", "header_value_almost_done",
   "header_value_lws", "header_value_connection",
   "header_value_connection_token", "header_value_connection_ws",
   "header_value_content_length", "header_value_content_length_ws",
   "header_value_te_chunked", "header_value_te_chunked_last",
   "header_value_te_token", "headers_almost_done"}
ChunkNodes ==
  {"chunk_size_digit", "chunk_size", "chunk_size_otherwise",
   "chunk_size_almost_done", "chunk_extensions", "chunk_extension_name",
   "chunk_extension_value", "chunk_extension_quoted_value",
   "chunk_extension_quoted_value_done", "span_start_llhttp__on_body",
   "chunk_data_almost_done"}

Phase ==
  CASE s.current \in HeaderNodes ->
         IF "TRAILING" \in s.flags THEN "trailer" ELSE "header"
    [] s.current \in ChunkNodes \cup {"span_start_llhttp__on_body_1",
                                      "span_start_llhttp__on_body_2"} -> "body"
    [] At("closed") -> "closed"
    [] At("returned") -> "ended"
    [] At("error") ->
         IF s.error = "PAUSED_UPGRADE" THEN "switched" ELSE "refused"
    [] OTHER -> "line"

Framing ==
  CASE At("span_start_llhttp__on_body_1") -> "length"
    [] At("span_start_llhttp__on_body_2") -> "eof"
    [] s.current \in ChunkNodes \/ Phase = "trailer" -> "chunked"
    [] OTHER -> "none"

Message == INSTANCE HttpMessage WITH phase <- Phase, framing <- Framing

(* First line, header, body, trailer follow each other as in HttpMessage,   *)
(* for any input and wherever it ends.                                      *)
ImplementsMessage == Message!Spec
=============================================================================
