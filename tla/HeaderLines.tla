---------------------------- MODULE HeaderLines ----------------------------
(***************************************************************************)
(* llhttp's automaton over the header lines of a message and, after the    *)
(* last chunk, over its trailer lines: from headers_start to the empty     *)
(* line.  Four fields steer the parser: Connection (and Proxy-Connection), *)
(* Content-Length, Transfer-Encoding, Upgrade.                             *)
(***************************************************************************)
EXTENDS ParserState

\* A space before the first header line is an error.
HeadersStart ==
  /\ At("headers_start")
  /\ \/ Move(To(s, "header_field_start"))
     \/ Move(Fail(s, "UNEXPECTED_SPACE"))

\* The fields the parser knows; Proxy-Connection is read as Connection.
SpecialHeader == {"connection", "content_length", "transfer_encoding",
                  "upgrade"}

\* A character that is neither CR nor LF begins a field name.
HeaderFieldStart ==
  /\ At("header_field_start")
  /\ \/ Move(To(s, "headers_almost_done"))
     \/ \E h \in SpecialHeader \cup {"general"} :
          /\ Quietly(Open(StoreHeaderState(s, h),
                          IF h = "general" THEN "header_field_general"
                          ELSE "header_field_colon",
                          "on_header_field"))
          /\ read' = [read EXCEPT !.line = @ + 1]

FieldEnd == EndSpan(To(s, "header_value_discard_ws"))

\* After a name the parser knows: ":", or a space, or it is a longer name.
HeaderFieldColon ==
  /\ At("header_field_colon")
  /\ \/ FieldEnd
     \/ EndSpan(Fail(s, "INVALID_HEADER_TOKEN"))
     \/ Move(To(StoreHeaderState(s, "general"), "header_field_general"))

HeaderFieldGeneral ==
  /\ At("header_field_general")
  /\ \/ FieldEnd
     \/ Move(Fail(s, "INVALID_HEADER_TOKEN"))

-----------------------------------------------------------------------------
\* A line of codings.  After "chunked" it is an error in a request; CHUNKED
\* is cleared.
BeginCodings(t) ==
  IF "CHUNKED" \in t.flags /\ t.type = "HTTP_REQUEST"
  THEN Fail(t, "INVALID_TRANSFER_ENCODING")
  ELSE [OrFlags(t, {"TRANSFER_ENCODING"}) EXCEPT
          !.flags = @ \ {"CHUNKED"}, !.current = "header_value_te_chunked"]

\* Where a value, or a folded line of it, is read: load_header_state_2.  t has
\* the span on_header_value open.  A second Content-Length is an error.
DispatchValue(t) ==
  CASE t.header_state = "connection" -> To(t, "header_value_connection")
    [] t.header_state = "content_length" ->
         IF "CONTENT_LENGTH" \in t.flags
         THEN Fail(t, "UNEXPECTED_CONTENT_LENGTH")
         ELSE To(t, "header_value_content_length")
    [] t.header_state = "transfer_encoding" -> BeginCodings(t)
    [] t.header_state = "upgrade" ->
         To(StoreHeaderState(OrFlags(t, {"UPGRADE"}), "general"),
            "header_value")
    [] OTHER -> To(t, "header_value")

\* The span of a refused Transfer-Encoding ends, empty, before the error; that
\* of a refused Content-Length does not.
BeginValue(t, reading) ==
  LET u == DispatchValue([t EXCEPT !.span = "on_header_value"])
      starts == IF u.current = "header_value_te_chunked"
                THEN [reading EXCEPT !.coding = "other"] ELSE reading
      digits == IF u.current = "header_value_content_length"
                THEN [starts EXCEPT !.length = 0] ELSE starts
  IN  /\ read' = digits
      /\ s' = IF u.error = "INVALID_TRANSFER_ENCODING"
              THEN [u EXCEPT !.span = "none"] ELSE u
      /\ event' = IF u.error = "INVALID_TRANSFER_ENCODING"
                  THEN [call |-> "on_header_value", bytes |-> 0] ELSE NoCall

\* Slip: a value that is empty is not given to its callback.
EmptyValueSkipped ==
  IF s.header_state = "content_length"
  THEN Move(Fail(s, "INVALID_CONTENT_LENGTH"))
  ELSE Move(To(SaveHeaderState(s), "header_field_start"))

\* An empty value still makes a span, and saves what it says.
EmptyValue ==
  IF s.header_state = "content_length"
  THEN Move(Fail(s, "INVALID_CONTENT_LENGTH"))
  ELSE /\ s' = To(SaveHeaderState(s), "header_field_start")
       /\ event' = [call |-> "on_header_value", bytes |-> 0]
       /\ UNCHANGED read

\* After the colon and white space: the value, a lone LF, or an empty line,
\* which is an empty value (an error for Content-Length) unless white space
\* follows it.
HeaderValueDiscardWs ==
  /\ At("header_value_discard_ws")
  /\ \/ BeginValue(s, read)
     \/ Move(Fail(s, "INVALID_HEADER_TOKEN"))
     \/ Move(To(s, "header_value_discard_lws"))

HeaderValueDiscardLws ==
  /\ At("header_value_discard_lws")
  /\ \/ Move(To(s, "header_value_discard_ws"))
     \/ EmptyValue

-----------------------------------------------------------------------------
\* CR ends the text of a value; another character that is not allowed in it
\* ends it too, and is an error.
ValueOtherwise(t, reading) ==
  /\ \/ Call(To(t, "header_value_almost_done"))
     \/ Call(Fail(t, "INVALID_HEADER_TOKEN"))
  /\ read' = reading

HeaderValue == At("header_value") /\ ValueOtherwise(s, read)

HeaderValueAlmostDone ==
  /\ At("header_value_almost_done")
  /\ \/ Move(To(s, "header_value_lws"))
     \/ Move(Fail(s, "LF_EXPECTED"))

\* Slip: a folded line after "chunked" leaves the header state alone.
FoldAfterChunked ==
  /\ At("header_value_lws")
  /\ \/ BeginValue(s, [read EXCEPT !.folds = @ + 1,
                                   !.coding = IF s.header_state = "te_chunked"
                                              THEN "other" ELSE @])
     \/ Move(To(SaveHeaderState(s), "header_field_start"))

\* The line after a value: white space folds it into the value, with a span
\* of its own; else the value is complete.
HeaderValueLws ==
  /\ At("header_value_lws")
  /\ \/ BeginValue(IF s.header_state = "te_chunked"
                   THEN StoreHeaderState(s, "general") ELSE s,
                   [read EXCEPT !.folds = @ + 1,
                                !.coding = IF s.header_state = "te_chunked"
                                           THEN "other" ELSE @])
     \/ Move(To(SaveHeaderState(s), "header_field_start"))

-----------------------------------------------------------------------------
\* Connection: a list of tokens, three of which count.  "," saves what the
\* token was, a longer token is none of the three.
HeaderValueConnection ==
  /\ At("header_value_connection")
  /\ \/ \E h \in {"connection_close", "connection_keep_alive",
                  "connection_upgrade"} :
          Move(To(StoreHeaderState(s, h), "header_value_connection_ws"))
     \/ Move(To(s, "header_value_connection_token"))

HeaderValueConnectionToken ==
  /\ At("header_value_connection_token")
  /\ \/ Move(To(s, "header_value_connection"))
     \/ ValueOtherwise(s, read)

ReadClose ==
  IF s.header_state = "connection_close"
  THEN [read EXCEPT !.close = TRUE] ELSE read

\* Slip: "," forgets what the token before it was.
NextTokenForgetting ==
  Quietly(To(s, "header_value_connection")) /\ read' = ReadClose

NextToken ==
  Quietly(To(SaveHeaderState(s), "header_value_connection")) /\ read' = ReadClose

HeaderValueConnectionWs ==
  /\ At("header_value_connection_ws")
  /\ \/ NextToken
     \/ ValueOtherwise(s, ReadClose)
     \/ Move(To(StoreHeaderState(s, "general"),
                "header_value_connection_token"))

\* Content-Length: digits, each tested for overflow, then only spaces.
LengthDigit(d) ==
  IF Overflows(Radix, d) THEN EndSpan(Fail(s, "INVALID_CONTENT_LENGTH"))
  ELSE /\ Quietly(To(MulAdd(Radix, d), "header_value_content_length_ws"))
       /\ read' = [read EXCEPT !.length = @ * Radix + d]
LengthEnd ==
  ValueOtherwise(OrFlags(s, {"CONTENT_LENGTH"}), [read EXCEPT !.sized = TRUE])
HeaderValueContentLength ==
  /\ s.current \in {"header_value_content_length",
                    "header_value_content_length_ws"}
  /\ \/ \E d \in Digit : LengthDigit(d)
     \/ At("header_value_content_length_ws") /\ LengthEnd
     \/ EndSpan(Fail(s, "INVALID_CONTENT_LENGTH"))

\* Transfer-Encoding: a list of codings.  After "chunked" comes the end of the
\* line or "," (an error in a request), or it is a longer word.
HeaderValueTeChunked ==
  /\ At("header_value_te_chunked")
  /\ \/ Move(To(s, "header_value_te_chunked_last"))
     \/ Move(To(s, "header_value_te_token"))

ChunkedEnd ==
  ValueOtherwise(StoreHeaderState(s, "te_chunked"),
                 [read EXCEPT !.coding = "chunked"])
ChunkedNotLast ==
  IF s.type = "HTTP_REQUEST"
  THEN EndSpan(Fail(s, "INVALID_TRANSFER_ENCODING"))
  ELSE Move(To(s, "header_value_te_chunked"))
HeaderValueTeChunkedLast ==
  /\ At("header_value_te_chunked_last")
  /\ \/ ChunkedEnd
     \/ ChunkedNotLast
     \/ Move(To(s, "header_value_te_token"))

\* Another coding: "," goes on to the next, the rest is an ordinary value.
HeaderValueTeToken ==
  /\ At("header_value_te_token")
  /\ \/ Move(To(s, "header_value_te_chunked"))
     \/ Move(To(StoreHeaderState(s, "general"), "header_value"))

HeaderLine ==
  \/ HeadersStart \/ HeaderFieldStart \/ HeaderFieldColon
  \/ HeaderFieldGeneral \/ HeaderValueDiscardWs \/ HeaderValueDiscardLws
  \/ HeaderValue \/ HeaderValueAlmostDone \/ HeaderValueLws
  \/ HeaderValueConnection \/ HeaderValueConnectionToken
  \/ HeaderValueConnectionWs \/ HeaderValueContentLength
  \/ HeaderValueTeChunked \/ HeaderValueTeChunkedLast \/ HeaderValueTeToken
=============================================================================
