---------------------------- MODULE ParserState ----------------------------
(***************************************************************************)
(* llhttp's parser object (llhttp__internal_t) and the operations its      *)
(* automaton is built from, in the half of lib/llhttp.c that is compiled   *)
(* (LLHTTP_STRICT_MODE is 0).  The automaton itself is in StartLine,       *)
(* HeaderLines and MessageBody; HttpParser puts them together.             *)
(*                                                                         *)
(* Input is not kept: a step chooses what kind of character or word comes  *)
(* next and goes where the code goes.  Nodes have the names of the source. *)
(* src/ sets no lenient flag and none of its callbacks fails or pauses, so *)
(* the branches that need one of these are left out; so are the fields     *)
(* finish and initial_message_completed, which nothing here reads.         *)
(***************************************************************************)
EXTENDS Integers

CONSTANTS
  Type,              \* which of "HTTP_REQUEST" and "HTTP_RESPONSE" are parsed
  MaxLength,         \* the greatest content_length, 2^64 - 1 in the code
  Radix, HexRadix,   \* 10 and 16
  Digit, HexDigit,   \* bound: the digits of lengths and of chunk sizes tried
  VersionDigit,      \* bound: the digits of versions tried
  StatusCode,        \* bound: the status codes tried
  MethodWord         \* bound: the methods tried

ASSUME ParserAssumption ==
  /\ Type \subseteq {"HTTP_REQUEST", "HTTP_RESPONSE"}
  /\ MaxLength \in Nat
  /\ Radix \in Nat \ {0} /\ HexRadix \in Nat \ {0}
  /\ Digit \subseteq 0 .. Radix - 1
  /\ HexDigit \subseteq 0 .. HexRadix - 1
  /\ VersionDigit \subseteq 0 .. 9
  /\ StatusCode \subseteq 100 .. 999

VARIABLES
  s,       \* the parser object; s.current is its node, s.span the open span
  event,   \* the callback of the last step, with the bytes of an on_body
  read     \* history: what the message so far has said

Flag == {"CONNECTION_KEEP_ALIVE", "CONNECTION_CLOSE", "CONNECTION_UPGRADE",
         "CHUNKED", "UPGRADE", "CONTENT_LENGTH", "TRAILING",
         "TRANSFER_ENCODING"}

HeaderState == {"general", "connection", "content_length",
                "transfer_encoding", "upgrade", "connection_keep_alive",
                "connection_close", "connection_upgrade", "te_chunked"}

NoCall == [call |-> "none", bytes |-> 0]

\* llhttp__internal_init clears the object; llhttp_init sets its type.
ParserInit ==
  /\ \E type \in Type :
       s = [type |-> type, current |-> "start", span |-> "none",
            error |-> "OK", method |-> 0, http_major |-> 0, http_minor |-> 0,
            status_code |-> 0, header_state |-> "general", flags |-> {},
            content_length |-> 0, upgrade |-> FALSE]
  /\ event = NoCall
  /\ read = [message |-> 0, line |-> 0, folds |-> 0, length |-> 0,
             sized |-> FALSE, coding |-> "none", close |-> FALSE]

-----------------------------------------------------------------------------
(* Steps.  At a node, one of these happens.                                 *)

At(n) == s.current = n
To(t, n) == [t EXCEPT !.current = n]
Fail(t, e) == [t EXCEPT !.current = "error", !.error = e]
Open(t, n, span) == [t EXCEPT !.current = n, !.span = span]

Quietly(t) == s' = t /\ event' = NoCall
Move(t) == Quietly(t) /\ UNCHANGED read

\* A span ends: its callback is called with the text since its start.
Call(t) ==
  /\ s' = [t EXCEPT !.span = "none"]
  /\ event' = [call |-> s.span, bytes |-> 0]
EndSpan(t) == Call(t) /\ UNCHANGED read

-----------------------------------------------------------------------------
(* The operations llhttp__internal__c_*.                                    *)

OrFlags(t, f) == [t EXCEPT !.flags = @ \cup f]
StoreHeaderState(t, h) == [t EXCEPT !.header_state = h]

\* Slip: only the product is tested, the sum may wrap around.
OverflowsOnProduct(radix, d) == s.content_length > MaxLength \div radix

\* mul_add_content_length and mul_add_content_length_1
Overflows(radix, d) ==
  \/ s.content_length > MaxLength \div radix
  \/ s.content_length * radix > MaxLength - d
MulAdd(radix, d) ==
  [s EXCEPT !.content_length = (@ * radix + d) % (MaxLength + 1)]

\* header_state 5 to 8 become flags when their value ends.
FlagOf == [connection_keep_alive |-> {"CONNECTION_KEEP_ALIVE"},
           connection_close |-> {"CONNECTION_CLOSE"},
           connection_upgrade |-> {"CONNECTION_UPGRADE"},
           te_chunked |-> {"CHUNKED"}]
SaveHeaderState(t) ==
  LET saved == IF t.header_state \in DOMAIN FlagOf
               THEN OrFlags(t, FlagOf[t.header_state]) ELSE t
  IN  IF t.header_state \in DOMAIN FlagOf \ {"te_chunked"}
      THEN StoreHeaderState(saved, "connection") ELSE saved

-----------------------------------------------------------------------------
(* llhttp's api.c, which is in libllhttp.so only.                           *)

HTTP_CONNECT == 5

NeedsEof(t) ==
  /\ t.type = "HTTP_RESPONSE"
  /\ t.status_code \notin (100 .. 199) \cup {204, 304}
  /\ \/ "TRANSFER_ENCODING" \in t.flags /\ "CHUNKED" \notin t.flags
     \/ t.flags \cap {"CHUNKED", "CONTENT_LENGTH"} = {}

ShouldKeepAlive(t) ==
  /\ IF t.http_major > 0 /\ t.http_minor > 0
     THEN "CONNECTION_CLOSE" \notin t.flags
     ELSE "CONNECTION_KEEP_ALIVE" \in t.flags
  /\ ~NeedsEof(t)

BeforeHeadersComplete(t) ==
  [t EXCEPT !.upgrade =
     IF {"UPGRADE", "CONNECTION_UPGRADE"} \subseteq t.flags
     THEN t.type = "HTTP_REQUEST" \/ t.status_code = 101
     ELSE t.method = HTTP_CONNECT]

\* What follows the header: nothing, another protocol, chunks, a body of the
\* length said, a body until the end of the connection, or an error.
AfterHeadersComplete(t) ==
  IF t.upgrade /\ (\/ t.method = HTTP_CONNECT
                   \/ "CHUNKED" \notin t.flags /\ t.content_length = 0)
  THEN "upgrade"
  ELSE IF "CHUNKED" \in t.flags THEN "chunked"
  ELSE IF "TRANSFER_ENCODING" \in t.flags
  THEN IF t.type = "HTTP_REQUEST" THEN "invalid" ELSE "eof"
  ELSE IF "CONTENT_LENGTH" \in t.flags
  THEN IF t.content_length = 0 THEN "none" ELSE "length"
  ELSE IF NeedsEof(t) THEN "eof" ELSE "none"
=============================================================================
