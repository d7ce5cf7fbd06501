---------------------------- MODULE MessageBody ----------------------------
(***************************************************************************)
(* llhttp's automaton from the empty line after the header to the end of   *)
(* the message: how the body is framed, the body itself, chunks, and what  *)
(* comes after a message.                                                  *)
(***************************************************************************)
EXTENDS ParserState

\* llhttp__after_message_complete clears the flags.  If the connection is kept
\* alive the next message is read, else closed skips what follows.
AfterMessageComplete(t) ==
  IF ShouldKeepAlive(t)
  THEN [t EXCEPT !.flags = {}, !.content_length = 0, !.current = "start"]
  ELSE [t EXCEPT !.flags = {}, !.current = "closed"]

\* A message with a body that asked for another protocol stops the parser.
MessageComplete(t) ==
  IF t.upgrade THEN Fail(t, "PAUSED_UPGRADE") ELSE AfterMessageComplete(t)

\* The header is complete: the chunks have their sizes, a body its length.
HeadersComplete(t) ==
  LET u == BeforeHeadersComplete(t)
      next == AfterHeadersComplete(u)
  IN  CASE next = "upgrade" -> Fail(u, "PAUSED_UPGRADE")
        [] next = "chunked" ->
             [u EXCEPT !.content_length = 0, !.current = "chunk_size_digit"]
        [] next = "length" -> To(u, "span_start_llhttp__on_body_1")
        [] next = "eof" -> To(u, "span_start_llhttp__on_body_2")
        [] next = "invalid" -> Fail(u, "INVALID_TRANSFER_ENCODING")
        [] next = "none" -> AfterMessageComplete(u)

\* Slip: the empty line after a trailer is taken for the end of a header.
HeadersDoneForTrailer ==
  /\ At("headers_almost_done")
  /\ Move(IF {"TRANSFER_ENCODING", "CONTENT_LENGTH"} \subseteq s.flags
          THEN Fail(s, "UNEXPECTED_CONTENT_LENGTH")
          ELSE HeadersComplete(s))

\* The empty line ends a trailer, and with it the message, or the header,
\* which must not say both how long the body is and how it is coded.
HeadersAlmostDone ==
  /\ At("headers_almost_done")
  /\ Move(IF "TRAILING" \in s.flags THEN MessageComplete(s)
          ELSE IF {"TRANSFER_ENCODING", "CONTENT_LENGTH"} \subseteq s.flags
          THEN Fail(s, "UNEXPECTED_CONTENT_LENGTH")
          ELSE HeadersComplete(s))

-----------------------------------------------------------------------------
\* Slip: a byte more than is missing may be taken for the body's.
ConsumePastEnd(t) ==
  \/ /\ s' = [t EXCEPT !.content_length = 0]
     /\ event' = [call |-> "on_body", bytes |-> s.content_length]
  \/ \E n \in 1 .. s.content_length + 1 :
       /\ s' = [s EXCEPT !.content_length = @ - n, !.current = "returned"]
       /\ event' = [call |-> "on_body", bytes |-> n]

\* consume_content_length: all that is missing, given to on_body at once, or,
\* if the buffer ends before, what there is; llhttp__internal_execute then
\* gives that to on_body and returns.
Consume(t) ==
  \/ /\ s' = [t EXCEPT !.content_length = 0]
     /\ event' = [call |-> "on_body", bytes |-> s.content_length]
  \/ \E n \in 1 .. s.content_length - 1 :
       /\ s' = [s EXCEPT !.content_length = @ - n, !.current = "returned"]
       /\ event' = [call |-> "on_body", bytes |-> n]

BodyOfLength ==
  /\ At("span_start_llhttp__on_body_1")
  /\ Consume(MessageComplete([s EXCEPT !.content_length = 0]))
  /\ UNCHANGED read

\* A body without length is everything to the end of the buffer.
\* Bound: one byte stands for any number.
BodyToEof ==
  /\ At("span_start_llhttp__on_body_2")
  /\ s' = To(s, "returned")
  /\ event' = [call |-> "on_body", bytes |-> 1]
  /\ UNCHANGED read

-----------------------------------------------------------------------------
\* The digits of a chunk size are tested for overflow like a Content-Length.
ChunkDigit(d) ==
  IF Overflows(HexRadix, d) THEN Move(Fail(s, "INVALID_CHUNK_SIZE"))
  ELSE /\ Quietly(To(MulAdd(HexRadix, d), "chunk_size"))
       /\ read' = [read EXCEPT !.length = @ * HexRadix + d]

ChunkSizeDigit ==
  /\ At("chunk_size_digit")
  /\ (\E d \in HexDigit : ChunkDigit(d)) \/ Move(Fail(s, "INVALID_CHUNK_SIZE"))

\* After the digits: CR, extensions, or an error.  What follows the ";" after
\* an extension's value is read here, too.
ChunkSize ==
  /\ s.current \in {"chunk_size", "chunk_size_otherwise"}
  /\ \/ At("chunk_size") /\ \E d \in HexDigit : ChunkDigit(d)
     \/ Move(To(s, "chunk_size_almost_done"))
     \/ Move(To(s, "chunk_extensions"))
     \/ Move(Fail(s, "INVALID_CHUNK_SIZE"))

\* Extensions: names and values, which nothing in src/ looks at.  A span that
\* ends calls a callback that is not registered.
ChunkExtensions ==
  /\ At("chunk_extensions")
  /\ \/ Move(Fail(s, "STRICT"))
     \/ Move(Open(s, "chunk_extension_name", "on_chunk_extension_name"))

\* After a name: CR, ";", "=" and a value, or an error.
ExtensionNameEnd ==
  \/ EndSpan(To(s, "chunk_size_almost_done"))
  \/ EndSpan(To(s, "chunk_extensions"))
  \/ /\ s' = Open(s, "chunk_extension_value", "on_chunk_extension_value")
     /\ event' = [call |-> s.span, bytes |-> 0]
     /\ UNCHANGED read
  \/ EndSpan(Fail(s, "STRICT"))
ChunkExtensionName == At("chunk_extension_name") /\ ExtensionNameEnd

\* After a value: CR, ";" or an error.
ExtensionValueEnd ==
  \/ EndSpan(To(s, "chunk_size_almost_done"))
  \/ EndSpan(To(s, "chunk_size_otherwise"))
  \/ EndSpan(Fail(s, "STRICT"))
ChunkExtensionValue ==
  /\ At("chunk_extension_value")
  /\ \/ Move(To(s, "chunk_extension_quoted_value"))
     \/ ExtensionValueEnd

ChunkExtensionQuotedValue ==
  /\ At("chunk_extension_quoted_value")
  /\ \/ EndSpan(To(s, "chunk_extension_quoted_value_done"))
     \/ EndSpan(Fail(s, "STRICT"))

ChunkExtensionQuotedValueDone ==
  /\ At("chunk_extension_quoted_value_done")
  /\ \/ Move(To(s, "chunk_size_almost_done"))
     \/ Move(To(s, "chunk_extensions"))
     \/ Move(Fail(s, "STRICT"))

\* The chunk of size zero is the last, trailer lines follow.
ChunkSizeAlmostDone ==
  /\ At("chunk_size_almost_done")
  /\ Move(IF s.content_length = 0
          THEN To(OrFlags(s, {"TRAILING"}), "header_field_start")
          ELSE To(s, "span_start_llhttp__on_body"))

ChunkBody ==
  /\ At("span_start_llhttp__on_body")
  /\ Consume(To(s, "chunk_data_almost_done"))
  /\ UNCHANGED read

\* Two characters after the data of a chunk are skipped, whatever they are.
ChunkDataAlmostDone ==
  /\ At("chunk_data_almost_done")
  /\ Quietly([s EXCEPT !.content_length = 0, !.current = "chunk_size_digit"])
  /\ read' = [read EXCEPT !.length = 0]

Body ==
  \/ HeadersAlmostDone \/ BodyOfLength \/ BodyToEof
  \/ ChunkSizeDigit \/ ChunkSize \/ ChunkExtensions \/ ChunkExtensionName
  \/ ChunkExtensionValue \/ ChunkExtensionQuotedValue
  \/ ChunkExtensionQuotedValueDone \/ ChunkSizeAlmostDone
  \/ ChunkBody \/ ChunkDataAlmostDone
=============================================================================
