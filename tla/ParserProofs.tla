---------------------------- MODULE ParserProofs ----------------------------
(***************************************************************************)
(* Theorems about HttpParser, for any greatest length, any radix, and any  *)
(* digits, methods, status codes, messages and lines of the input.         *)
(***************************************************************************)
EXTENDS HttpParser, TLAPS

-----------------------------------------------------------------------------
(* The nodes of the automaton, by what is known at them.                    *)
LineNodes ==
  {"after_start_req", "req_first_space_before_url", "url_start", "url_schema",
   "url_server", "url_server_with_at", "url_path", "url_query",
   "url_fragment", "url_skip_to_http09", "url_skip_lf_to_http09",
   "url_skip_to_http", "req_http_major", "req_http_dot", "req_http_complete",
   "start_res", "res_http_major", "res_http_dot", "res_after_version",
   "res_status_code_digit_1", "res_status_code_digit_2",
   "res_status_code_digit_3", "res_status_code_otherwise", "res_status"}

\* Where a value has been read and its header state may still be saved.
ValueEndNodes == {"header_value_almost_done", "header_value_lws"}
CodingNodes == {"header_value_te_chunked", "header_value_te_chunked_last",
                "header_value_te_token"}
DigitNodes == {"header_value_content_length", "header_value_content_length_ws"}
\* Where the header state is an earlier line's.
BetweenLines == {"headers_start", "header_field_start", "headers_almost_done"}

Spans == {"none", "on_method", "on_url", "on_version", "on_status",
          "on_header_field", "on_header_value", "on_chunk_extension_name",
          "on_chunk_extension_value"}

IsParser(t) ==
  /\ t = [type |-> t.type, current |-> t.current, span |-> t.span,
          error |-> t.error, method |-> t.method, http_major |-> t.http_major,
          http_minor |-> t.http_minor, status_code |-> t.status_code,
          header_state |-> t.header_state, flags |-> t.flags,
          content_length |-> t.content_length, upgrade |-> t.upgrade]
  /\ t.span \in Spans
  /\ t.header_state \in HeaderState
  /\ t.flags \subseteq Flag
  /\ t.content_length \in 0 .. MaxLength
  /\ t.method \in 0 .. 45
  /\ t.upgrade \in BOOLEAN

IsReading(r) ==
  /\ r = [message |-> r.message, line |-> r.line, folds |-> r.folds,
          length |-> r.length, sized |-> r.sized, coding |-> r.coding,
          close |-> r.close]
  /\ r.length \in Nat
  /\ r.sized \in BOOLEAN
  /\ r.close \in BOOLEAN

AtStart(t, r) ==
  /\ t.flags = {} /\ t.content_length = 0
  /\ ~(r.close /\ t.http_major = 1 /\ t.http_minor = 1)

InLine(t, r) ==
  /\ t.flags = {} /\ t.content_length = 0
  /\ r.length = 0 /\ ~r.sized /\ r.coding = "none" /\ ~r.close

\* What is known of a "Connection: close" after the header.
Remembered(t, r) == r.close => "CONNECTION_CLOSE" \in t.flags

\* The flags say what the lines so far have said; what the last one says may
\* still be in the header state.
LengthSaid(t, r) ==
  /\ t.content_length = r.length
  /\ "CONTENT_LENGTH" \in t.flags <=> r.sized
  /\ "CONTENT_LENGTH" \notin t.flags
       /\ t.current # "header_value_content_length_ws" => t.content_length = 0
  /\ t.current \in DigitNodes => "CONTENT_LENGTH" \notin t.flags
CodingSaid(t, r) ==
  /\ "TRANSFER_ENCODING" \in t.flags <=> r.coding # "none"
  /\ r.coding = "chunked" <=>
       \/ "CHUNKED" \in t.flags
       \/ t.current \in ValueEndNodes /\ t.header_state = "te_chunked"
  /\ t.header_state = "te_chunked" => t.current \in ValueEndNodes \cup BetweenLines
  /\ t.current \in CodingNodes => r.coding = "other"
  /\ t.current \in ValueEndNodes /\ t.header_state = "te_chunked" =>
       "CHUNKED" \notin t.flags
CloseSaid(t, r) ==
  r.close =>
    \/ "CONNECTION_CLOSE" \in t.flags
    \/ /\ t.current \in ValueEndNodes \cup {"header_value"}
       /\ t.header_state = "connection_close"
InHeader(t, r) == LengthSaid(t, r) /\ CodingSaid(t, r) /\ CloseSaid(t, r)

InChunks(t, r) ==
  /\ {"CHUNKED", "TRANSFER_ENCODING"} \subseteq t.flags
  /\ "CONTENT_LENGTH" \notin t.flags
  /\ ~r.sized /\ r.coding = "chunked"
  /\ t.current # "chunk_data_almost_done" => t.content_length = r.length
  /\ Remembered(t, r)

InSizedBody(t, r) ==
  /\ "CONTENT_LENGTH" \in t.flags /\ r.sized
  /\ r.coding = "none"
  /\ t.content_length = r.length
  /\ Remembered(t, r)

InOpenBody(t, r) == t.flags \cap {"CHUNKED", "CONTENT_LENGTH"} = {}

Fits(t, r) ==
  /\ IsParser(t) /\ IsReading(r)
  /\ t.current = "start" => AtStart(t, r)
  /\ t.current \in LineNodes => InLine(t, r)
  /\ t.current \in HeaderNodes => InHeader(t, r)
  /\ t.current \in ChunkNodes => InChunks(t, r)
  /\ t.current = "span_start_llhttp__on_body_1" => InSizedBody(t, r)
  /\ t.current = "span_start_llhttp__on_body_2" => InOpenBody(t, r)

EventFits(t, e, r) ==
  /\ e.bytes \in Nat
  /\ e.call = "on_body"
       /\ (t.current = "returned" =>
             t.flags \cap {"CHUNKED", "CONTENT_LENGTH"} # {}) =>
       e.bytes + t.content_length = r.length

ParserInv == Fits(s, read) /\ EventFits(s, event, read)

-----------------------------------------------------------------------------
(* The operations on the parser object, by field.                           *)
Same(u, t) ==
  /\ u.type = t.type /\ u.method = t.method /\ u.flags = t.flags
  /\ u.content_length = t.content_length
  /\ u.header_state = t.header_state /\ u.upgrade = t.upgrade
  /\ u.http_major = t.http_major /\ u.http_minor = t.http_minor
  /\ u.status_code = t.status_code

LEMMA ToIs ==
  ASSUME NEW t, IsParser(t), NEW n
  PROVE  IsParser(To(t, n)) /\ To(t, n).current = n /\ Same(To(t, n), t)
         /\ To(t, n).error = t.error
BY DEF IsParser, To, Same

LEMMA FailIs ==
  ASSUME NEW t, IsParser(t), NEW e
  PROVE  /\ IsParser(Fail(t, e)) /\ Fail(t, e).current = "error"
         /\ Same(Fail(t, e), t) /\ Fail(t, e).error = e
<1> DEFINE v == [t EXCEPT !.current = "error"]
<1>1. IsParser(v) /\ v.current = "error" /\ Same(v, t)
  BY DEF IsParser, Same
<1>2. Fail(t, e) = [v EXCEPT !.error = e]
  BY DEF Fail
<1> HIDE DEF v
<1> QED
  BY <1>1, <1>2 DEF IsParser, Same

LEMMA OpenIs ==
  ASSUME NEW t, IsParser(t), NEW n, NEW span \in Spans
  PROVE  /\ IsParser(Open(t, n, span)) /\ Open(t, n, span).current = n
         /\ Same(Open(t, n, span), t)
<1> DEFINE v == [t EXCEPT !.current = n]
<1>1. IsParser(v) /\ v.current = n /\ Same(v, t)
  BY DEF IsParser, Same
<1>2. Open(t, n, span) = [v EXCEPT !.span = span]
  BY DEF Open
<1> HIDE DEF v
<1> QED
  BY <1>1, <1>2 DEF IsParser, Same

LEMMA StoreIs ==
  ASSUME NEW t, IsParser(t), NEW h \in HeaderState
  PROVE  LET u == StoreHeaderState(t, h) IN
         /\ IsParser(u) /\ u.current = t.current /\ u.header_state = h
         /\ u.flags = t.flags /\ u.content_length = t.content_length
         /\ u.type = t.type
         /\ u.http_major = t.http_major /\ u.http_minor = t.http_minor
BY DEF IsParser, StoreHeaderState

LEMMA OrIs ==
  ASSUME NEW t, IsParser(t), NEW f \in SUBSET Flag
  PROVE  LET u == OrFlags(t, f) IN
         /\ IsParser(u) /\ u.current = t.current
         /\ u.header_state = t.header_state
         /\ u.flags = t.flags \cup f /\ u.content_length = t.content_length
         /\ u.type = t.type
         /\ u.http_major = t.http_major /\ u.http_minor = t.http_minor
BY DEF IsParser, OrFlags

LEMMA SaveIs ==
  ASSUME NEW t, IsParser(t)
  PROVE  LET u == SaveHeaderState(t) IN
         /\ IsParser(u) /\ u.current = t.current
         /\ u.content_length = t.content_length /\ u.type = t.type
         /\ "CONTENT_LENGTH" \in u.flags <=> "CONTENT_LENGTH" \in t.flags
         /\ "TRANSFER_ENCODING" \in u.flags <=> "TRANSFER_ENCODING" \in t.flags
         /\ "CHUNKED" \in u.flags <=>
              "CHUNKED" \in t.flags \/ t.header_state = "te_chunked"
         /\ "CONNECTION_CLOSE" \in u.flags <=>
              "CONNECTION_CLOSE" \in t.flags \/ t.header_state = "connection_close"
         /\ "TRAILING" \in u.flags <=> "TRAILING" \in t.flags
         /\ u.header_state = "te_chunked" <=> t.header_state = "te_chunked"
<1> DEFINE named == t.header_state \in DOMAIN FlagOf
           saved == IF named THEN OrFlags(t, FlagOf[t.header_state]) ELSE t
<1>1. DOMAIN FlagOf = {"connection_keep_alive", "connection_close",
                       "connection_upgrade", "te_chunked"}
  BY DEF FlagOf
<1>2. /\ FlagOf["connection_keep_alive"] = {"CONNECTION_KEEP_ALIVE"}
      /\ FlagOf["connection_close"] = {"CONNECTION_CLOSE"}
      /\ FlagOf["connection_upgrade"] = {"CONNECTION_UPGRADE"}
      /\ FlagOf["te_chunked"] = {"CHUNKED"}
  BY DEF FlagOf
<1>3. named => FlagOf[t.header_state] \in SUBSET Flag
  BY <1>1, <1>2 DEF Flag
<1>4. /\ IsParser(saved) /\ saved.current = t.current
      /\ saved.content_length = t.content_length /\ saved.type = t.type
      /\ saved.header_state = t.header_state
      /\ saved.flags = IF named THEN t.flags \cup FlagOf[t.header_state] ELSE t.flags
      /\ saved.http_major = t.http_major /\ saved.http_minor = t.http_minor
  BY <1>3, OrIs
<1>5. SaveHeaderState(t) =
        IF t.header_state \in DOMAIN FlagOf \ {"te_chunked"}
        THEN StoreHeaderState(saved, "connection") ELSE saved
  BY DEF SaveHeaderState
<1> HIDE DEF saved
<1>6. LET u == SaveHeaderState(t) IN
      /\ IsParser(u) /\ u.current = t.current
      /\ u.content_length = t.content_length /\ u.type = t.type
      /\ u.flags = saved.flags
      /\ u.header_state = "te_chunked" <=> t.header_state = "te_chunked"
  BY <1>1, <1>4, <1>5, StoreIs DEF HeaderState
<1> QED
  BY <1>1, <1>2, <1>4, <1>6

-----------------------------------------------------------------------------
(* When what a step leads to fits.                                          *)
LEMMA StopFits ==
  ASSUME NEW u, NEW r, IsParser(u), IsReading(r),
         u.current \in {"error", "closed", "returned"}
  PROVE  Fits(u, r)
BY DEF Fits, LineNodes, HeaderNodes, ChunkNodes

LEMMA LineFits ==
  ASSUME NEW u, NEW r, IsParser(u), IsReading(r), u.current \in LineNodes, InLine(u, r)
  PROVE  Fits(u, r)
BY DEF Fits, LineNodes, HeaderNodes, ChunkNodes

LEMMA HeaderFits ==
  ASSUME NEW u, NEW r, IsParser(u), IsReading(r), u.current \in HeaderNodes, InHeader(u, r)
  PROVE  Fits(u, r)
BY DEF Fits, LineNodes, HeaderNodes, ChunkNodes

LEMMA ChunkFits ==
  ASSUME NEW u, NEW r, IsParser(u), IsReading(r), u.current \in ChunkNodes, InChunks(u, r)
  PROVE  Fits(u, r)
BY DEF Fits, LineNodes, HeaderNodes, ChunkNodes

LEMMA MoveFits ==
  ASSUME NEW u, NEW r, Fits(u, r), Quietly(u), read' = r
  PROVE  ParserInv'
BY DEF Quietly, ParserInv, EventFits, NoCall, Fits

LEMMA CallFits ==
  ASSUME ParserInv, NEW u, NEW r, Fits(u, r), Call(u), read' = r
  PROVE  ParserInv'
<1> DEFINE t == [u EXCEPT !.span = "none"]
<1>1. /\ IsParser(t) /\ t.current = u.current /\ Same(t, u)
  BY DEF Fits, IsParser, Same, Spans
<1>2. Fits(t, r)
  <2> HIDE DEF t
  <2> QED
    BY <1>1 DEF Fits, Same, AtStart, InLine, InHeader, InChunks, InSizedBody,
       InOpenBody, LengthSaid, CodingSaid, CloseSaid, Remembered
<1>3. s' = t /\ event' = [call |-> s.span, bytes |-> 0] /\ s.span # "on_body"
  BY DEF Call, ParserInv, Fits, IsParser, Spans
<1>4. EventFits(s', event', r)
  BY <1>3 DEF EventFits
<1> QED
  BY <1>2, <1>3, <1>4 DEF ParserInv

LEMMA LineStep ==
  ASSUME ParserInv, s.current \in LineNodes, NEW u, IsParser(u),
         u.flags = s.flags, u.content_length = s.content_length,
         u.current \in LineNodes \cup {"error", "headers_start"},
         Move(u) \/ EndSpan(u)
  PROVE  ParserInv'
<1>1. IsReading(read) /\ InLine(s, read)
  BY DEF ParserInv, Fits
<1>2. Fits(u, read)
  <2>1. CASE u.current \in LineNodes
    BY <1>1, <2>1, LineFits DEF InLine
  <2>2. CASE u.current = "error"
    BY <1>1, <2>2, StopFits
  <2>3. CASE u.current = "headers_start"
    <3>1. InHeader(u, read)
      <4>1. u.flags = {} /\ u.content_length = 0 /\ read.length = 0 /\ ~read.sized
            /\ read.coding = "none" /\ ~read.close
        BY <1>1 DEF InLine
      <4>2. LengthSaid(u, read)
        BY <2>3, <4>1 DEF LengthSaid, DigitNodes
      <4>3. CodingSaid(u, read)
        BY <2>3, <4>1 DEF CodingSaid, BetweenLines, CodingNodes, ValueEndNodes
      <4> QED
        BY <4>1, <4>2, <4>3 DEF InHeader, CloseSaid
    <3> QED
      BY <1>1, <2>3, <3>1, HeaderFits DEF HeaderNodes
  <2> QED
    BY <2>1, <2>2, <2>3
<1> QED
  BY <1>2, MoveFits, CallFits DEF Move, EndSpan

LEMMA InitFits == Init => ParserInv
<1> SUFFICES ASSUME Init PROVE ParserInv
  OBVIOUS
<1>1. IsParser(s) /\ IsReading(read) /\ s.current = "start" /\ AtStart(s, read)
  BY ParserAssumption DEF Init, ParserInit, IsParser, IsReading, AtStart, Spans, HeaderState
<1>2. event = NoCall
  BY DEF Init, ParserInit
<1> QED
  BY <1>1, <1>2 DEF ParserInv, Fits, EventFits, LineNodes, HeaderNodes, ChunkNodes, NoCall

-----------------------------------------------------------------------------
(* The first line.                                                          *)
LEMMA LineTo ==
  ASSUME ParserInv, s.current \in LineNodes, NEW n \in LineNodes \cup {"headers_start"},
         Move(To(s, n)) \/ EndSpan(To(s, n))
  PROVE  ParserInv'
BY LineStep, ToIs DEF Same, ParserInv, Fits

LEMMA LineFail ==
  ASSUME ParserInv, s.current \in LineNodes, NEW e,
         Move(Fail(s, e)) \/ EndSpan(Fail(s, e))
  PROVE  ParserInv'
BY LineStep, FailIs DEF Same, ParserInv, Fits

LEMMA LineOpen ==
  ASSUME ParserInv, s.current \in LineNodes, NEW n \in LineNodes, NEW span \in Spans,
         Move(Open(s, n, span))
  PROVE  ParserInv'
BY LineStep, OpenIs DEF Same, ParserInv, Fits

LEMMA UrlFits ==
  ASSUME ParserInv, UrlStart \/ UrlSchema \/ UrlServer \/ UrlPath \/ UrlQuery
  PROVE  ParserInv'
BY LineTo, LineFail
   DEF UrlStart, UrlSchema, UrlServer, UrlPath, UrlQuery, UrlEnd, InvalidUrl, At, LineNodes

LEMMA SpacesBeforeUrlFits == ASSUME ParserInv, SpacesBeforeUrl PROVE ParserInv'
BY LineOpen, LineFail DEF SpacesBeforeUrl, At, LineNodes, Spans

LEMMA AfterStartReqFits == ASSUME ParserInv, AfterStartReq PROVE ParserInv'
<1>1. s.current \in LineNodes
  BY DEF AfterStartReq, At, LineNodes
<1>2. CASE Move(Fail(s, "INVALID_METHOD"))
  BY <1>1, <1>2, LineFail
<1>3. ASSUME NEW m \in Methods,
             EndSpan([s EXCEPT !.method = m[2],
                               !.current = "req_first_space_before_url"])
      PROVE  ParserInv'
  <2> DEFINE v == [s EXCEPT !.method = m[2]]
  <2>1. m[2] \in 0 .. 45
    BY <1>3 DEF Methods, MethodsAB, MethodsC, MethodsDF, MethodsGH, MethodsL,
       MethodsMtoME, MethodsMKtoMO, MethodsNO, MethodsPAtoPO, MethodsPR,
       MethodsPU, MethodsR, MethodsSE, MethodsSOtoSU, MethodsT, MethodsU
  <2>2. /\ IsParser(v) /\ v.flags = s.flags /\ v.content_length = s.content_length
    BY <2>1 DEF ParserInv, Fits, IsParser
  <2>3. EndSpan(To(v, "req_first_space_before_url"))
    BY <1>3 DEF To
  <2> HIDE DEF v
  <2> QED
    BY <1>1, <2>2, <2>3, ToIs, LineStep DEF Same, LineNodes
<1> QED
  BY <1>2, <1>3 DEF AfterStartReq

LEMMA Http09Fits == ASSUME ParserInv, Http09 PROVE ParserInv'
<1>1. s.current \in LineNodes
  BY DEF Http09, At, LineNodes
<1>2. CASE InvalidUrl
  BY <1>1, <1>2, LineFail DEF InvalidUrl
<1>3. CASE Move([s EXCEPT !.http_major = 0, !.http_minor = 9,
                          !.current = "headers_start"])
  <2> DEFINE v0 == [s EXCEPT !.http_major = 0]
             v == [v0 EXCEPT !.http_minor = 9]
  <2>1. IsParser(v0) /\ v0.flags = s.flags /\ v0.content_length = s.content_length
    BY DEF ParserInv, Fits, IsParser
  <2>2. Move(To(v, "headers_start"))
    BY <1>3 DEF To
  <2> HIDE DEF v0
  <2>3. IsParser(v) /\ v.flags = s.flags /\ v.content_length = s.content_length
    BY <2>1 DEF IsParser
  <2> HIDE DEF v
  <2> QED
    BY <1>1, <2>2, <2>3, ToIs, LineStep DEF Same
<1> QED
  BY <1>2, <1>3 DEF Http09

LEMMA ReqHttpStartFits == ASSUME ParserInv, ReqHttpStart PROVE ParserInv'
BY LineOpen, LineFail DEF ReqHttpStart, At, LineNodes, Spans

\* The digits of versions.
LEMMA MajorFits ==
  ASSUME ParserInv, s.current \in LineNodes, NEW d, NEW n \in LineNodes,
         Move([s EXCEPT !.http_major = d, !.current = n])
  PROVE  ParserInv'
<1> DEFINE v == [s EXCEPT !.http_major = d]
<1>1. IsParser(v) /\ v.flags = s.flags /\ v.content_length = s.content_length
  BY DEF ParserInv, Fits, IsParser
<1>2. Move(To(v, n))
  BY DEF To
<1> HIDE DEF v
<1> QED
  BY <1>1, <1>2, ToIs, LineStep DEF Same

LEMMA MinorFits ==
  ASSUME ParserInv, s.current \in LineNodes, NEW d, NEW n \in LineNodes,
         EndVersion(d, n)
  PROVE  ParserInv'
<1> DEFINE v == [s EXCEPT !.http_minor = d]
<1>1. IsParser(v) /\ v.flags = s.flags /\ v.content_length = s.content_length
  BY DEF ParserInv, Fits, IsParser
<1>2. EndSpan(To(v, n)) \/ EndSpan(Fail(v, "INVALID_VERSION"))
  BY DEF EndVersion
<1> HIDE DEF v
<1> QED
  BY <1>1, <1>2, ToIs, FailIs, LineStep DEF Same

LEMMA ReqVersionFits ==
  ASSUME ParserInv, ReqHttpMajor \/ ReqHttpMinor \/ ReqHttpComplete
  PROVE  ParserInv'
BY MajorFits, MinorFits, LineTo, LineFail
   DEF ReqHttpMajor, ReqHttpMinor, ReqHttpComplete, InvalidVersion, At, LineNodes

LEMMA ResVersionFits ==
  ASSUME ParserInv, StartRes \/ ResHttpMajor \/ ResHttpMinor
  PROVE  ParserInv'
BY MajorFits, MinorFits, LineOpen, LineFail
   DEF StartRes, ResHttpMajor, ResHttpMinor, InvalidVersion, At, LineNodes, Spans

LEMMA StatusFits ==
  ASSUME ParserInv, s.current \in LineNodes, NEW c, NEW n \in LineNodes,
         Move([s EXCEPT !.status_code = c, !.current = n])
  PROVE  ParserInv'
<1> DEFINE v == [s EXCEPT !.status_code = c]
<1>1. IsParser(v) /\ v.flags = s.flags /\ v.content_length = s.content_length
  BY DEF ParserInv, Fits, IsParser
<1>2. Move(To(v, n))
  BY DEF To
<1> HIDE DEF v
<1> QED
  BY <1>1, <1>2, ToIs, LineStep DEF Same

LEMMA ResStatusFits ==
  ASSUME ParserInv, ResAfterVersion \/ ResStatusCode \/ ResStatusStart \/ ResStatus
  PROVE  ParserInv'
BY StatusFits, LineTo, LineOpen, LineFail
   DEF ResAfterVersion, ResStatusCode, ResStatusDigit, ResStatusStart, ResStatus,
       At, LineNodes, Spans

LEMMA StartFits == ASSUME ParserInv, Start PROVE ParserInv'
<1>1. IsParser(s) /\ IsReading(read) /\ AtStart(s, read)
  BY DEF ParserInv, Fits, Start, At
<1> DEFINE r == [read EXCEPT !.message = @ + 1, !.length = 0, !.sized = FALSE,
                             !.coding = "none", !.close = FALSE]
<1>2. /\ IsReading(r) /\ r.length = 0 /\ ~r.sized /\ r.coding = "none" /\ ~r.close
  <2> DEFINE no == FALSE
             r1 == [read EXCEPT !.message = @ + 1]
             r2 == [r1 EXCEPT !.length = 0]
             r3 == [r2 EXCEPT !.sized = no]
             r4 == [r3 EXCEPT !.coding = "none"]
             r5 == [r4 EXCEPT !.close = no]
  <2>1. IsReading(r1)
    BY <1>1 DEF IsReading
  <2>2. r = r5 /\ no \in BOOLEAN /\ ~no
    OBVIOUS
  <2> HIDE DEF no, r1, r
  <2>3. IsReading(r2) /\ r2.length = 0
    BY <2>1 DEF IsReading
  <2> HIDE DEF r2
  <2>4. IsReading(r3) /\ r3.length = 0 /\ r3.sized = no
    BY <2>2, <2>3 DEF IsReading
  <2> HIDE DEF r3
  <2>5. IsReading(r4) /\ r4.length = 0 /\ r4.sized = no /\ r4.coding = "none"
    BY <2>4 DEF IsReading
  <2> HIDE DEF r4
  <2>6. IsReading(r5) /\ r5.length = 0 /\ r5.sized = no /\ r5.coding = "none" /\ r5.close = no
    BY <2>2, <2>5 DEF IsReading
  <2> QED
    BY <2>2, <2>6
<1>3. read' = r /\ \E u \in {Open(s, "after_start_req", "on_method"),
                             To(s, "start_res")} : Quietly(u)
  BY DEF Start
<1> HIDE DEF r
<1>4. ASSUME NEW u \in {Open(s, "after_start_req", "on_method"), To(s, "start_res")}
      PROVE  Fits(u, r)
  <2>1. IsParser(u) /\ u.current \in LineNodes /\ Same(u, s)
    BY <1>1, <1>4, OpenIs, ToIs DEF LineNodes, Spans
  <2> QED
    BY <1>1, <1>2, <2>1, LineFits DEF InLine, AtStart, Same
<1> QED
  BY <1>3, <1>4, MoveFits

LEMMA FirstLineFits == ASSUME ParserInv, RequestLine \/ StatusLine PROVE ParserInv'
BY StartFits, AfterStartReqFits, SpacesBeforeUrlFits, UrlFits, Http09Fits,
   ReqHttpStartFits, ReqVersionFits, ResVersionFits, ResStatusFits
   DEF RequestLine, StatusLine

-----------------------------------------------------------------------------
(* What is read, by field.                                                  *)
ReadAlike(q, r) ==
  /\ q.length = r.length /\ q.sized = r.sized /\ q.coding = r.coding
  /\ q.close = r.close

LEMMA LineIs ==
  ASSUME NEW r, IsReading(r), NEW n
  PROVE  LET q == [r EXCEPT !.line = n] IN IsReading(q) /\ ReadAlike(q, r)
BY DEF IsReading, ReadAlike

LEMMA FoldsIs ==
  ASSUME NEW r, IsReading(r), NEW n
  PROVE  LET q == [r EXCEPT !.folds = n] IN IsReading(q) /\ ReadAlike(q, r)
BY DEF IsReading, ReadAlike

LEMMA LengthIs ==
  ASSUME NEW r, IsReading(r), NEW n \in Nat
  PROVE  LET q == [r EXCEPT !.length = n] IN
         /\ IsReading(q) /\ q.length = n
         /\ q.sized = r.sized /\ q.coding = r.coding /\ q.close = r.close
BY DEF IsReading

LEMMA CodingIs ==
  ASSUME NEW r, IsReading(r), NEW c
  PROVE  LET q == [r EXCEPT !.coding = c] IN
         /\ IsReading(q) /\ q.coding = c
         /\ q.length = r.length /\ q.sized = r.sized /\ q.close = r.close
BY DEF IsReading

LEMMA SizedIs ==
  ASSUME NEW r, IsReading(r)
  PROVE  LET q == [r EXCEPT !.sized = TRUE] IN
         /\ IsReading(q) /\ q.sized
         /\ q.length = r.length /\ q.coding = r.coding /\ q.close = r.close
<1> DEFINE yes == TRUE
           q == [r EXCEPT !.sized = yes]
<1>1. yes \in BOOLEAN
  OBVIOUS
<1>2. yes /\ q = [r EXCEPT !.sized = TRUE]
  OBVIOUS
<1> HIDE DEF yes
<1>3. IsReading(q) /\ q.sized = yes
      /\ q.length = r.length /\ q.coding = r.coding /\ q.close = r.close
  BY <1>1 DEF IsReading
<1> HIDE DEF q
<1> QED
  BY <1>2, <1>3

LEMMA ClosesIs ==
  ASSUME NEW r, IsReading(r)
  PROVE  LET q == [r EXCEPT !.close = TRUE] IN
         /\ IsReading(q) /\ q.close
         /\ q.length = r.length /\ q.coding = r.coding /\ q.sized = r.sized
<1> DEFINE yes == TRUE
           q == [r EXCEPT !.close = yes]
<1>1. yes \in BOOLEAN
  OBVIOUS
<1>2. yes /\ q = [r EXCEPT !.close = TRUE]
  OBVIOUS
<1> HIDE DEF yes
<1>3. IsReading(q) /\ q.close = yes
      /\ q.length = r.length /\ q.coding = r.coding /\ q.sized = r.sized
  BY <1>1 DEF IsReading
<1> HIDE DEF q
<1> QED
  BY <1>2, <1>3

-----------------------------------------------------------------------------
(* Header lines.                                                            *)
LEMMA EffectFits ==
  ASSUME NEW u, NEW r, Fits(u, r), s' \in {u, [u EXCEPT !.span = "none"]},
         event'.bytes = 0, event'.call # "on_body", read' = r
  PROVE  ParserInv'
<1> DEFINE t == [u EXCEPT !.span = "none"]
<1>1. IsParser(t) /\ t.current = u.current /\ Same(t, u)
  BY DEF Fits, IsParser, Same, Spans
<1>2. s' = u \/ s' = t
  OBVIOUS
<1> HIDE DEF t
<1>3. Fits(t, r)
  BY <1>1 DEF Fits, Same, AtStart, InLine, InHeader, InChunks, InSizedBody,
     InOpenBody, LengthSaid, CodingSaid, CloseSaid, Remembered
<1> QED
  BY <1>2, <1>3 DEF ParserInv, EventFits

LEMMA HeaderKnown ==
  ASSUME ParserInv, s.current \in HeaderNodes
  PROVE  /\ IsParser(s) /\ IsReading(read)
         /\ LengthSaid(s, read) /\ CodingSaid(s, read) /\ CloseSaid(s, read)
BY DEF ParserInv, Fits, InHeader

LEMMA FailStep ==
  ASSUME ParserInv, NEW e, Move(Fail(s, e)) \/ EndSpan(Fail(s, e))
  PROVE  ParserInv'
<1>1. Fits(Fail(s, e), read)
  BY FailIs, StopFits DEF ParserInv, Fits
<1> QED
  BY <1>1, MoveFits, CallFits DEF Move, EndSpan

\* From one node of a header to another.
LEMMA HeaderTo ==
  ASSUME ParserInv, s.current \in HeaderNodes \ DigitNodes,
         NEW n \in HeaderNodes \ DigitNodes,
         n \in CodingNodes => s.current \in CodingNodes,
         s.current \in ValueEndNodes => n \in ValueEndNodes,
         s.current = "header_value" => n \in ValueEndNodes,
         s.current \in BetweenLines => n \in BetweenLines
  PROVE  Fits(To(s, n), read)
<1>1. /\ IsParser(To(s, n)) /\ To(s, n).current = n /\ Same(To(s, n), s)
  BY HeaderKnown, ToIs
<1> DEFINE u == To(s, n)
<1> HIDE DEF u
<1>2. LengthSaid(u, read)
  BY <1>1, HeaderKnown DEF u, LengthSaid, Same, DigitNodes
<1>3. CodingSaid(u, read)
  BY <1>1, HeaderKnown DEF u, CodingSaid, Same, BetweenLines, ValueEndNodes, CodingNodes
<1>4. CloseSaid(u, read)
  BY <1>1, HeaderKnown DEF u, CloseSaid, Same
<1> QED
  BY <1>1, <1>2, <1>3, <1>4, HeaderKnown, HeaderFits DEF u, InHeader

LEMMA HeaderToStep ==
  ASSUME ParserInv, s.current \in HeaderNodes \ DigitNodes,
         NEW n \in HeaderNodes \ DigitNodes,
         n \in CodingNodes => s.current \in CodingNodes,
         s.current \in ValueEndNodes => n \in ValueEndNodes,
         s.current = "header_value" => n \in ValueEndNodes,
         s.current \in BetweenLines => n \in BetweenLines,
         Move(To(s, n)) \/ EndSpan(To(s, n))
  PROVE  ParserInv'
BY HeaderTo, MoveFits, CallFits DEF Move, EndSpan

\* A header state that is stored, other than that of "chunked".
LEMMA StoreTo ==
  ASSUME ParserInv,
         s.current \in HeaderNodes \ (DigitNodes \cup ValueEndNodes \cup {"header_value"}),
         NEW h \in HeaderState \ {"te_chunked"},
         NEW n \in HeaderNodes \ (DigitNodes \cup ValueEndNodes \cup CodingNodes),
         NEW t, IsParser(t), t.current = n, t.header_state = h,
         t.flags = s.flags, t.content_length = s.content_length,
         NEW r, IsReading(r), ReadAlike(r, read)
  PROVE  Fits(t, r)
<1>1. LengthSaid(t, r)
  BY HeaderKnown DEF LengthSaid, ReadAlike, DigitNodes
<1>2. CodingSaid(t, r)
  BY HeaderKnown DEF CodingSaid, ReadAlike, BetweenLines, ValueEndNodes, CodingNodes
<1>3. CloseSaid(t, r)
  BY HeaderKnown DEF CloseSaid, ReadAlike
<1> QED
  BY <1>1, <1>2, <1>3, HeaderFits DEF InHeader

LEMMA StoreToStep ==
  ASSUME ParserInv,
         s.current \in HeaderNodes \ (DigitNodes \cup ValueEndNodes \cup {"header_value"}),
         NEW h \in HeaderState \ {"te_chunked"},
         NEW n \in HeaderNodes \ (DigitNodes \cup ValueEndNodes \cup CodingNodes),
         Move(To(StoreHeaderState(s, h), n))
  PROVE  ParserInv'
<1> DEFINE v == StoreHeaderState(s, h)  t == To(v, n)
<1>1. IsParser(v) /\ v.header_state = h /\ v.flags = s.flags
      /\ v.content_length = s.content_length
  BY HeaderKnown, StoreIs
<1> HIDE DEF v
<1>2. IsParser(t) /\ t.current = n /\ Same(t, v)
  BY <1>1, ToIs
<1> HIDE DEF t
<1>3. ReadAlike(read, read) /\ IsReading(read)
  BY HeaderKnown DEF ReadAlike
<1>4. Fits(t, read)
  BY <1>1, <1>2, <1>3, StoreTo DEF Same
<1> QED
  BY <1>4, MoveFits DEF Move, t, v

\* A header state that is saved.
LEMMA SaveTo ==
  ASSUME ParserInv,
         s.current \in {"header_value_discard_lws", "header_value_lws",
                        "header_value_connection_ws"},
         NEW n \in {"header_field_start", "header_value_connection"},
         s.current = "header_value_lws" => n = "header_field_start",
         NEW r, IsReading(r), r.length = read.length, r.sized = read.sized,
         r.coding = read.coding,
         r.close => read.close \/ s.header_state = "connection_close"
  PROVE  Fits(To(SaveHeaderState(s), n), r)
<1> DEFINE v == SaveHeaderState(s)  u == To(v, n)
<1>1. s.current \in HeaderNodes
  BY DEF HeaderNodes
<1>2. /\ IsParser(v) /\ v.content_length = s.content_length
      /\ "CONTENT_LENGTH" \in v.flags <=> "CONTENT_LENGTH" \in s.flags
      /\ "TRANSFER_ENCODING" \in v.flags <=> "TRANSFER_ENCODING" \in s.flags
      /\ "CHUNKED" \in v.flags <=>
           "CHUNKED" \in s.flags \/ s.header_state = "te_chunked"
      /\ "CONNECTION_CLOSE" \in v.flags <=>
           "CONNECTION_CLOSE" \in s.flags \/ s.header_state = "connection_close"
      /\ v.header_state = "te_chunked" <=> s.header_state = "te_chunked"
  BY <1>1, HeaderKnown, SaveIs
<1> HIDE DEF v
<1>3. IsParser(u) /\ u.current = n /\ Same(u, v)
  BY <1>2, ToIs
<1> HIDE DEF u
<1>4. LengthSaid(u, r)
  BY <1>1, <1>2, <1>3, HeaderKnown DEF LengthSaid, Same, DigitNodes
<1>5. CodingSaid(u, r)
  BY <1>1, <1>2, <1>3, HeaderKnown
     DEF CodingSaid, Same, BetweenLines, ValueEndNodes, CodingNodes
<1>6. CloseSaid(u, r)
  BY <1>1, <1>2, <1>3, HeaderKnown DEF CloseSaid, Same
<1> QED
  BY <1>3, <1>4, <1>5, <1>6, HeaderFits DEF InHeader, HeaderNodes, u, v

LEMMA HeadersStartFits == ASSUME ParserInv, HeadersStart PROVE ParserInv'
BY HeaderToStep, FailStep
   DEF HeadersStart, At, HeaderNodes, DigitNodes, CodingNodes, ValueEndNodes, BetweenLines

LEMMA HeaderFieldStartFits == ASSUME ParserInv, HeaderFieldStart PROVE ParserInv'
<1>1. s.current = "header_field_start"
  BY DEF HeaderFieldStart, At
<1>2. CASE Move(To(s, "headers_almost_done"))
  BY <1>1, <1>2, HeaderToStep
     DEF HeaderNodes, DigitNodes, CodingNodes, ValueEndNodes, BetweenLines
<1>3. ASSUME NEW h \in SpecialHeader \cup {"general"}, 
             Quietly(Open(StoreHeaderState(s, h),
                          IF h = "general" THEN "header_field_general"
                          ELSE "header_field_colon",
                          "on_header_field")),
             read' = [read EXCEPT !.line = @ + 1]
      PROVE  ParserInv'
  <2> DEFINE v == StoreHeaderState(s, h)
             n == IF h = "general" THEN "header_field_general" ELSE "header_field_colon"
             t == Open(v, n, "on_header_field")
             r == [read EXCEPT !.line = @ + 1]
  <2>1. h \in HeaderState \ {"te_chunked"}
    BY <1>3 DEF SpecialHeader, HeaderState
  <2>2. s.current \in HeaderNodes \ (DigitNodes \cup ValueEndNodes \cup {"header_value"})
    BY <1>1 DEF HeaderNodes, DigitNodes, ValueEndNodes
  <2>3. n \in HeaderNodes \ (DigitNodes \cup ValueEndNodes \cup CodingNodes)
    BY DEF HeaderNodes, DigitNodes, ValueEndNodes, CodingNodes
  <2>4. IsParser(v) /\ v.header_state = h /\ v.flags = s.flags
        /\ v.content_length = s.content_length
    BY <2>1, <2>2, HeaderKnown, StoreIs
  <2>5. IsReading(r) /\ ReadAlike(r, read)
    BY <2>2, HeaderKnown, LineIs
  <2>6. Quietly(t) /\ read' = r
    BY <1>3
  <2> HIDE DEF v, n
  <2>7. IsParser(t) /\ t.current = n /\ Same(t, v)
    BY <2>4, OpenIs DEF Spans
  <2> HIDE DEF t, r
  <2>8. Fits(t, r)
    BY <2>1, <2>2, <2>3, <2>4, <2>5, <2>7, StoreTo DEF Same
  <2> QED
    BY <2>6, <2>8, MoveFits
<1> QED
  BY <1>2, <1>3 DEF HeaderFieldStart

LEMMA HeaderFieldFits ==
  ASSUME ParserInv, HeaderFieldColon \/ HeaderFieldGeneral PROVE ParserInv'
BY HeaderToStep, StoreToStep, FailStep
   DEF HeaderFieldColon, HeaderFieldGeneral, FieldEnd, At, HeaderNodes, DigitNodes,
       CodingNodes, ValueEndNodes, BetweenLines, HeaderState

\* What is known where a value begins, whether it is the first line of it or a
\* folded one.
AtValue(t, r) ==
  /\ IsParser(t) /\ IsReading(r)
  /\ t.content_length = r.length
  /\ "CONTENT_LENGTH" \in t.flags <=> r.sized
  /\ "CONTENT_LENGTH" \notin t.flags => t.content_length = 0
  /\ "TRANSFER_ENCODING" \in t.flags <=> r.coding # "none"
  /\ "CHUNKED" \in t.flags <=> r.coding = "chunked"
  /\ t.header_state # "te_chunked"
  /\ r.close => \/ "CONNECTION_CLOSE" \in t.flags
                \/ t.header_state = "connection_close"

LEMMA CodingsFit ==
  ASSUME NEW t, NEW r, AtValue(t, r), t.header_state = "transfer_encoding",
         BeginCodings(t).current = "header_value_te_chunked"
  PROVE  Fits(BeginCodings(t), [r EXCEPT !.coding = "other"])
<1> DEFINE u == BeginCodings(t)  q == [r EXCEPT !.coding = "other"]
           v == OrFlags(t, {"TRANSFER_ENCODING"})
           w == [v EXCEPT !.flags = @ \ {"CHUNKED"}]
<1>1. IsReading(q) /\ q.coding = "other" /\ q.length = r.length
      /\ q.sized = r.sized /\ q.close = r.close
  BY CodingIs DEF AtValue
<1>2. ~("CHUNKED" \in t.flags /\ t.type = "HTTP_REQUEST")
  BY FailIs DEF BeginCodings, AtValue
<1>3. u = To(w, "header_value_te_chunked")
  BY <1>2 DEF BeginCodings, To
<1>4. /\ IsParser(v) /\ v.header_state = t.header_state
      /\ v.flags = t.flags \cup {"TRANSFER_ENCODING"}
      /\ v.content_length = t.content_length
  BY OrIs DEF AtValue, Flag
<1> HIDE DEF u, q, v
<1>5. /\ IsParser(w) /\ w.header_state = t.header_state
      /\ w.flags = v.flags \ {"CHUNKED"} /\ w.content_length = v.content_length
  BY <1>4 DEF IsParser
<1> HIDE DEF w
<1>6. /\ IsParser(u) /\ Same(u, w) /\ u.current = "header_value_te_chunked"
  BY <1>3, <1>5, ToIs
<1>7. LengthSaid(u, q)
  BY <1>1, <1>4, <1>5, <1>6 DEF AtValue, LengthSaid, Same, DigitNodes
<1>8. CodingSaid(u, q)
  BY <1>1, <1>4, <1>5, <1>6 DEF AtValue, CodingSaid, Same, ValueEndNodes, CodingNodes
<1>9. CloseSaid(u, q)
  BY <1>1, <1>4, <1>5, <1>6 DEF AtValue, CloseSaid, Same
<1> QED
  BY <1>1, <1>6, <1>7, <1>8, <1>9, HeaderFits DEF InHeader, HeaderNodes, u, q

LEMMA DispatchFits ==
  ASSUME NEW t, NEW r, AtValue(t, r)
  PROVE  LET u == DispatchValue(t) IN
         \/ u.current = "header_value_te_chunked"
              /\ Fits(u, [r EXCEPT !.coding = "other"])
         \/ u.current = "header_value_content_length"
              /\ Fits(u, [r EXCEPT !.length = 0])
         \/ /\ u.current \notin {"header_value_te_chunked", "header_value_content_length"}
            /\ Fits(u, r)
<1> DEFINE u == DispatchValue(t)
<1>1. IsParser(t) /\ IsReading(r)
  BY DEF AtValue
<1>2. ASSUME NEW e, u = Fail(t, e)
      PROVE  u.current = "error" /\ Fits(u, r)
  BY <1>1, <1>2, FailIs, StopFits
<1>3. CASE t.header_state = "content_length" /\ "CONTENT_LENGTH" \in t.flags
  BY <1>2, <1>3 DEF DispatchValue
<1>4. CASE t.header_state = "content_length" /\ "CONTENT_LENGTH" \notin t.flags
  <2> DEFINE q == [r EXCEPT !.length = 0]
  <2>1. u = To(t, "header_value_content_length")
    BY <1>4 DEF DispatchValue
  <2>2. IsParser(u) /\ u.current = "header_value_content_length" /\ Same(u, t)
    BY <1>1, <2>1, ToIs
  <2>3. IsReading(q) /\ q.length = 0
        /\ q.sized = r.sized /\ q.coding = r.coding /\ q.close = r.close
    BY <1>1, LengthIs
  <2> HIDE DEF u, q
  <2>4. LengthSaid(u, q)
    BY <1>4, <2>2, <2>3 DEF AtValue, LengthSaid, Same, DigitNodes
  <2>5. CodingSaid(u, q)
    BY <1>4, <2>2, <2>3 DEF AtValue, CodingSaid, Same, ValueEndNodes, CodingNodes
  <2>6. CloseSaid(u, q)
    BY <1>4, <2>2, <2>3 DEF AtValue, CloseSaid, Same
  <2> QED
    BY <2>2, <2>3, <2>4, <2>5, <2>6, HeaderFits DEF InHeader, HeaderNodes, u, q
<1>5. CASE t.header_state = "transfer_encoding"
  <2>1. u = BeginCodings(t)
    BY <1>5 DEF DispatchValue
  <2>2. CASE u.current = "header_value_te_chunked"
    BY <1>5, <2>1, <2>2, CodingsFit
  <2>3. CASE u.current # "header_value_te_chunked"
    BY <1>1, <1>2, <2>1, <2>3 DEF BeginCodings
  <2> QED
    BY <2>2, <2>3
<1>6. CASE t.header_state \notin {"content_length", "transfer_encoding"}
  <2>1. \E n \in {"header_value", "header_value_connection"} :
          /\ u.current = n /\ IsParser(u)
          /\ u.content_length = t.content_length
          /\ u.header_state # "te_chunked"
          /\ "CONTENT_LENGTH" \in u.flags <=> "CONTENT_LENGTH" \in t.flags
          /\ "TRANSFER_ENCODING" \in u.flags <=> "TRANSFER_ENCODING" \in t.flags
          /\ "CHUNKED" \in u.flags <=> "CHUNKED" \in t.flags
          /\ "CONNECTION_CLOSE" \in u.flags <=> "CONNECTION_CLOSE" \in t.flags
          /\ t.header_state = "connection_close" =>
               n = "header_value" /\ u.header_state = "connection_close"
    <3>1. CASE t.header_state = "upgrade"
      <4> DEFINE v == OrFlags(t, {"UPGRADE"})  w == StoreHeaderState(v, "general")
      <4>1. u = To(w, "header_value")
        BY <3>1 DEF DispatchValue
      <4>2. IsParser(v) /\ v.flags = t.flags \cup {"UPGRADE"}
            /\ v.content_length = t.content_length
        BY <1>1, OrIs DEF Flag
      <4> HIDE DEF u, v
      <4>3. IsParser(w) /\ w.flags = v.flags /\ w.header_state = "general"
            /\ w.content_length = v.content_length
        BY <4>2, StoreIs DEF HeaderState
      <4> HIDE DEF w
      <4>4. IsParser(u) /\ Same(u, w) /\ u.current = "header_value"
        BY <4>1, <4>3, ToIs
      <4> QED
        BY <3>1, <4>2, <4>3, <4>4 DEF Same
    <3>2. CASE t.header_state # "upgrade"
      <4>1. u = To(t, IF t.header_state = "connection" THEN "header_value_connection"
                      ELSE "header_value")
        BY <1>6, <3>2 DEF DispatchValue
      <4> HIDE DEF u
      <4>2. IsParser(u) /\ Same(u, t)
            /\ u.current = IF t.header_state = "connection" THEN "header_value_connection"
                           ELSE "header_value"
        BY <1>1, <4>1, ToIs
      <4> QED
        BY <4>2 DEF Same, AtValue
    <3> QED
      BY <3>1, <3>2
  <2> HIDE DEF u
  <2>2. LengthSaid(u, r)
    BY <2>1 DEF AtValue, LengthSaid, DigitNodes
  <2>3. CodingSaid(u, r)
    BY <2>1 DEF AtValue, CodingSaid, ValueEndNodes, CodingNodes
  <2>4. CloseSaid(u, r)
    BY <2>1 DEF AtValue, CloseSaid
  <2>5. u.current \in HeaderNodes
    BY <2>1 DEF HeaderNodes
  <2> QED
    BY <1>1, <2>1, <2>2, <2>3, <2>4, <2>5, HeaderFits DEF InHeader, u
<1> QED
  BY <1>3, <1>4, <1>5, <1>6

LEMMA BeginValueFits ==
  ASSUME NEW t, NEW r, AtValue(t, r), BeginValue(t, r)
  PROVE  ParserInv'
<1> DEFINE v == [t EXCEPT !.span = "on_header_value"]
           u == DispatchValue(v)
           starts == IF u.current = "header_value_te_chunked"
                     THEN [r EXCEPT !.coding = "other"] ELSE r
           digits == IF u.current = "header_value_content_length"
                     THEN [starts EXCEPT !.length = 0] ELSE starts
<1>1. IsParser(v) /\ Same(v, t)
  BY DEF AtValue, IsParser, Same, Spans
<1>2. AtValue(v, r)
  <2> HIDE DEF v
  <2> QED
    BY <1>1 DEF AtValue, Same
<1>3. /\ read' = digits /\ s' \in {u, [u EXCEPT !.span = "none"]}
      /\ event' \in {[call |-> "on_header_value", bytes |-> 0], NoCall}
  BY DEF BeginValue
<1> HIDE DEF v
<1>4. Fits(u, digits)
  BY <1>2, DispatchFits
<1>5. event'.bytes = 0 /\ event'.call # "on_body"
  BY <1>3 DEF NoCall
<1> HIDE DEF u, digits
<1> QED
  BY <1>3, <1>4, <1>5, EffectFits

LEMMA DiscardWsFits ==
  ASSUME ParserInv, HeaderValueDiscardWs PROVE ParserInv'
<1>1. s.current = "header_value_discard_ws" /\ s.current \in HeaderNodes
  BY DEF HeaderValueDiscardWs, At, HeaderNodes
<1>2. AtValue(s, read)
  BY <1>1, HeaderKnown
     DEF AtValue, LengthSaid, CodingSaid, CloseSaid, ValueEndNodes, BetweenLines
<1>3. CASE Move(To(s, "header_value_discard_lws"))
  BY <1>1, <1>3, HeaderToStep
     DEF HeaderNodes, DigitNodes, CodingNodes, ValueEndNodes, BetweenLines
<1> QED
  BY <1>2, <1>3, BeginValueFits, FailStep DEF HeaderValueDiscardWs

LEMMA DiscardLwsFits ==
  ASSUME ParserInv, HeaderValueDiscardLws PROVE ParserInv'
<1>1. s.current = "header_value_discard_lws" /\ s.current \in HeaderNodes
  BY DEF HeaderValueDiscardLws, At, HeaderNodes
<1>2. CASE Move(To(s, "header_value_discard_ws"))
  BY <1>1, <1>2, HeaderToStep
     DEF HeaderNodes, DigitNodes, CodingNodes, ValueEndNodes, BetweenLines
<1>3. CASE EmptyValue
  <2>1. CASE s.header_state = "content_length"
    BY <1>3, <2>1, FailStep DEF EmptyValue
  <2>2. CASE s.header_state # "content_length"
    <3> DEFINE u == To(SaveHeaderState(s), "header_field_start")
    <3>1. Fits(u, read)
      BY <1>1, HeaderKnown, SaveTo
    <3>2. s' = u /\ event' = [call |-> "on_header_value", bytes |-> 0] /\ read' = read
      BY <1>3, <2>2 DEF EmptyValue
    <3> HIDE DEF u
    <3> QED
      BY <3>1, <3>2, EffectFits
  <2> QED
    BY <2>1, <2>2
<1> QED
  BY <1>2, <1>3 DEF HeaderValueDiscardLws

LEMMA LwsFits ==
  ASSUME ParserInv, HeaderValueLws PROVE ParserInv'
<1>1. s.current = "header_value_lws" /\ s.current \in HeaderNodes
  BY DEF HeaderValueLws, At, HeaderNodes
<1>2. CASE Move(To(SaveHeaderState(s), "header_field_start"))
  <2>1. Fits(To(SaveHeaderState(s), "header_field_start"), read)
    BY <1>1, HeaderKnown, SaveTo
  <2> QED
    BY <1>2, <2>1, MoveFits DEF Move
<1> DEFINE chunked == s.header_state = "te_chunked"
           t == IF chunked THEN StoreHeaderState(s, "general") ELSE s
           q == [read EXCEPT !.folds = @ + 1]
           r == [q EXCEPT !.coding = IF chunked THEN "other" ELSE @]
<1>3. CASE BeginValue(t, [read EXCEPT !.folds = @ + 1,
                                      !.coding = IF chunked THEN "other" ELSE @])
  <2>1. BeginValue(t, r)
    <3>1. r = [read EXCEPT !.folds = @ + 1, !.coding = IF chunked THEN "other" ELSE @]
      BY HeaderKnown, <1>1 DEF IsReading
    <3> QED
      BY <1>3, <3>1
  <2>2. IsReading(q) /\ ReadAlike(q, read)
    BY <1>1, HeaderKnown, FoldsIs
  <2>3. IsReading(r) /\ r.coding = (IF chunked THEN "other" ELSE q.coding)
        /\ r.length = q.length /\ r.sized = q.sized /\ r.close = q.close
    <3> HIDE DEF q
    <3> QED
      BY <2>2, CodingIs
  <2>4. IsParser(t) /\ t.flags = s.flags /\ t.content_length = s.content_length
        /\ t.header_state = IF chunked THEN "general" ELSE s.header_state
    BY <1>1, HeaderKnown, StoreIs DEF HeaderState
  <2> HIDE DEF q, r, t
  <2>5. AtValue(t, r)
    BY <1>1, <2>2, <2>3, <2>4, HeaderKnown
       DEF AtValue, LengthSaid, CodingSaid, CloseSaid, ValueEndNodes, ReadAlike
  <2> QED
    BY <2>1, <2>5, BeginValueFits
<1> QED
  BY <1>2, <1>3 DEF HeaderValueLws

\* The text of a value ends, and with it what t has read of it.
LEMMA ValueEndFits ==
  ASSUME ParserInv, NEW t, NEW r, ValueOtherwise(t, r), IsParser(t), IsReading(r),
         InHeader(To(t, "header_value_almost_done"), r)
  PROVE  ParserInv'
<1>1. Fits(To(t, "header_value_almost_done"), r)
  BY ToIs, HeaderFits DEF HeaderNodes
<1>2. Fits(Fail(t, "INVALID_HEADER_TOKEN"), r)
  BY FailIs, StopFits
<1> QED
  BY <1>1, <1>2, CallFits DEF ValueOtherwise

LEMMA OrdinaryValueFits ==
  ASSUME ParserInv,
         s.current \in {"header_value", "header_value_connection_token",
                        "header_value_connection_ws"},
         NEW r, IsReading(r), r.length = read.length, r.sized = read.sized,
         r.coding = read.coding,
         r.close => read.close \/ s.header_state = "connection_close",
         ValueOtherwise(s, r)
  PROVE  ParserInv'
<1>1. s.current \in HeaderNodes
  BY DEF HeaderNodes
<1> DEFINE u == To(s, "header_value_almost_done")
<1>2. IsParser(u) /\ Same(u, s) /\ u.current = "header_value_almost_done"
  BY <1>1, HeaderKnown, ToIs
<1> HIDE DEF u
<1>3. LengthSaid(u, r)
  BY <1>1, <1>2, HeaderKnown DEF LengthSaid, Same, DigitNodes
<1>4. CodingSaid(u, r)
  BY <1>1, <1>2, HeaderKnown
     DEF CodingSaid, Same, ValueEndNodes, CodingNodes, BetweenLines
<1>5. CloseSaid(u, r)
  BY <1>1, <1>2, HeaderKnown DEF CloseSaid, Same, ValueEndNodes
<1> QED
  BY <1>1, <1>3, <1>4, <1>5, HeaderKnown, ValueEndFits DEF InHeader, u

LEMMA ValueFits ==
  ASSUME ParserInv, HeaderValue \/ HeaderValueAlmostDone PROVE ParserInv'
<1>1. CASE HeaderValue
  <2>1. s.current = "header_value" /\ s.current \in HeaderNodes
    BY <1>1 DEF HeaderValue, At, HeaderNodes
  <2> QED
    BY <1>1, <2>1, HeaderKnown, OrdinaryValueFits DEF HeaderValue
<1>2. CASE HeaderValueAlmostDone
  BY <1>2, HeaderToStep, FailStep
     DEF HeaderValueAlmostDone, At, HeaderNodes, DigitNodes, CodingNodes,
         ValueEndNodes, BetweenLines
<1> QED
  BY <1>1, <1>2

LEMMA ConnectionFits ==
  ASSUME ParserInv, HeaderValueConnection \/ HeaderValueConnectionToken
  PROVE  ParserInv'
<1>1. CASE HeaderValueConnection
  BY <1>1, StoreToStep, HeaderToStep
     DEF HeaderValueConnection, At, HeaderNodes, DigitNodes, CodingNodes,
         ValueEndNodes, BetweenLines, HeaderState
<1>2. CASE HeaderValueConnectionToken
  <2>1. s.current = "header_value_connection_token" /\ s.current \in HeaderNodes
    BY <1>2 DEF HeaderValueConnectionToken, At, HeaderNodes
  <2>2. CASE Move(To(s, "header_value_connection"))
    BY <2>1, <2>2, HeaderToStep
       DEF HeaderNodes, DigitNodes, CodingNodes, ValueEndNodes, BetweenLines
  <2> QED
    BY <1>2, <2>1, <2>2, HeaderKnown, OrdinaryValueFits
       DEF HeaderValueConnectionToken
<1> QED
  BY <1>1, <1>2

LEMMA ConnectionWsFits ==
  ASSUME ParserInv, HeaderValueConnectionWs PROVE ParserInv'
<1>1. s.current = "header_value_connection_ws" /\ s.current \in HeaderNodes
  BY DEF HeaderValueConnectionWs, At, HeaderNodes
<1> DEFINE r == ReadClose
<1>2. /\ IsReading(r) /\ r.length = read.length /\ r.sized = read.sized
      /\ r.coding = read.coding
      /\ r.close => read.close \/ s.header_state = "connection_close"
  BY <1>1, HeaderKnown, ClosesIs DEF ReadClose
<1> HIDE DEF r
<1>3. CASE NextToken
  <2>1. Fits(To(SaveHeaderState(s), "header_value_connection"), r)
    BY <1>1, <1>2, SaveTo
  <2> QED
    BY <1>3, <2>1, MoveFits DEF NextToken, r
<1>4. CASE ValueOtherwise(s, ReadClose)
  BY <1>1, <1>2, <1>4, OrdinaryValueFits DEF r
<1>5. CASE Move(To(StoreHeaderState(s, "general"), "header_value_connection_token"))
  BY <1>1, <1>5, StoreToStep
     DEF HeaderNodes, DigitNodes, CodingNodes, ValueEndNodes, BetweenLines, HeaderState
<1> QED
  BY <1>3, <1>4, <1>5 DEF HeaderValueConnectionWs

-----------------------------------------------------------------------------
(* Digits.                                                                  *)
LEMMA NoWrap ==
  ASSUME NEW m \in Nat, NEW x \in 0 .. m
  PROVE  x % (m + 1) = x
OBVIOUS

LEMMA MulAddIs ==
  ASSUME ParserInv, NEW radix \in Nat \ {0}, NEW d \in 0 .. radix - 1,
         ~Overflows(radix, d)
  PROVE  LET u == MulAdd(radix, d) IN
         /\ IsParser(u) /\ u.content_length = s.content_length * radix + d
         /\ u.current = s.current /\ u.flags = s.flags
         /\ u.header_state = s.header_state /\ u.type = s.type
<1> DEFINE n == s.content_length * radix + d
<1>1. MaxLength \in Nat /\ s.content_length \in 0 .. MaxLength /\ IsParser(s)
  BY ParserAssumption DEF ParserInv, Fits, IsParser
<1>2. s.content_length * radix <= MaxLength - d
  BY <1>1 DEF Overflows
<1>3. n \in 0 .. MaxLength
  <2>1. s.content_length * radix \in Nat
    BY <1>1
  <2> QED
    BY <1>1, <1>2, <2>1
<1>4. n % (MaxLength + 1) = n
  BY <1>1, <1>3, NoWrap
<1>5. MulAdd(radix, d) = [s EXCEPT !.content_length = n]
  BY <1>4 DEF MulAdd
<1> HIDE DEF n
<1> QED
  BY <1>1, <1>3, <1>5 DEF n, IsParser

LEMMA ContentLengthFits ==
  ASSUME ParserInv, HeaderValueContentLength PROVE ParserInv'
<1>1. s.current \in DigitNodes /\ s.current \in HeaderNodes
  BY DEF HeaderValueContentLength, DigitNodes, HeaderNodes
<1>2. ASSUME NEW d \in Digit, LengthDigit(d)
      PROVE  ParserInv'
  <2>1. CASE Overflows(Radix, d)
    BY <1>2, <2>1, FailStep DEF LengthDigit
  <2>2. CASE ~Overflows(Radix, d)
    <3> DEFINE v == MulAdd(Radix, d)  u == To(v, "header_value_content_length_ws")
               n == read.length * Radix + d  r == [read EXCEPT !.length = n]
    <3>1. /\ IsParser(v) /\ v.content_length = s.content_length * Radix + d
          /\ v.flags = s.flags /\ v.header_state = s.header_state
      BY <2>2, MulAddIs, ParserAssumption
    <3>2. Quietly(u) /\ read' = [read EXCEPT !.length = @ * Radix + d]
      BY <1>2, <2>2 DEF LengthDigit
    <3> HIDE DEF v
    <3>3. IsParser(u) /\ Same(u, v) /\ u.current = "header_value_content_length_ws"
      BY <3>1, ToIs
    <3>4. s.content_length = read.length /\ read.length \in Nat
      BY <1>1, HeaderKnown DEF LengthSaid, IsReading
    <3>5. n \in Nat /\ v.content_length = n
      BY <3>1, <3>4, ParserAssumption
    <3>6. read' = r
      BY <3>2
    <3> HIDE DEF n
    <3>7. IsReading(r) /\ r.length = n
          /\ r.sized = read.sized /\ r.coding = read.coding /\ r.close = read.close
      BY <1>1, <3>5, HeaderKnown, LengthIs
    <3> HIDE DEF u, r
    <3>8. LengthSaid(u, r)
      BY <1>1, <3>1, <3>3, <3>5, <3>7, HeaderKnown DEF LengthSaid, Same, DigitNodes
    <3>9. CodingSaid(u, r)
      BY <1>1, <3>1, <3>3, <3>7, HeaderKnown
         DEF CodingSaid, Same, DigitNodes, ValueEndNodes, CodingNodes, BetweenLines
    <3>10. CloseSaid(u, r)
      BY <1>1, <3>1, <3>3, <3>7, HeaderKnown
         DEF CloseSaid, Same, DigitNodes, ValueEndNodes
    <3>11. Fits(u, r)
      BY <3>3, <3>7, <3>8, <3>9, <3>10, HeaderFits DEF InHeader, HeaderNodes
    <3> QED
      BY <3>2, <3>6, <3>11, MoveFits
  <2> QED
    BY <2>1, <2>2
<1>3. CASE s.current = "header_value_content_length_ws" /\ LengthEnd
  <2> DEFINE v == OrFlags(s, {"CONTENT_LENGTH"})  u == To(v, "header_value_almost_done")
             r == [read EXCEPT !.sized = TRUE]
  <2>1. /\ IsParser(v) /\ v.flags = s.flags \cup {"CONTENT_LENGTH"}
        /\ v.content_length = s.content_length /\ v.header_state = s.header_state
    BY <1>1, HeaderKnown, OrIs DEF Flag
  <2>2. /\ IsReading(r) /\ r.sized /\ r.length = read.length
        /\ r.coding = read.coding /\ r.close = read.close
    BY <1>1, HeaderKnown, SizedIs
  <2>3. ValueOtherwise(v, r)
    BY <1>3 DEF LengthEnd
  <2> HIDE DEF v, r
  <2>4. IsParser(u) /\ Same(u, v) /\ u.current = "header_value_almost_done"
    BY <2>1, ToIs
  <2> HIDE DEF u
  <2>5. LengthSaid(u, r)
    BY <1>1, <2>1, <2>2, <2>4, HeaderKnown DEF LengthSaid, Same, DigitNodes
  <2>6. CodingSaid(u, r)
    BY <1>3, <1>1, <2>1, <2>2, <2>4, HeaderKnown
       DEF CodingSaid, Same, ValueEndNodes, CodingNodes, BetweenLines
  <2>7. CloseSaid(u, r)
    BY <1>3, <1>1, <2>1, <2>2, <2>4, HeaderKnown DEF CloseSaid, Same, ValueEndNodes
  <2> QED
    BY <2>1, <2>2, <2>3, <2>5, <2>6, <2>7, ValueEndFits DEF InHeader, u
<1>4. CASE EndSpan(Fail(s, "INVALID_CONTENT_LENGTH"))
  BY <1>4, FailStep
<1> QED
  BY <1>2, <1>3, <1>4 DEF HeaderValueContentLength, At

-----------------------------------------------------------------------------
(* Codings.                                                                 *)
LEMMA CodingNodesFit ==
  ASSUME ParserInv, HeaderValueTeChunked \/ HeaderValueTeToken PROVE ParserInv'
BY HeaderToStep, StoreToStep
   DEF HeaderValueTeChunked, HeaderValueTeToken, At, HeaderNodes, DigitNodes,
       CodingNodes, ValueEndNodes, BetweenLines, HeaderState

LEMMA ChunkedLastFits ==
  ASSUME ParserInv, HeaderValueTeChunkedLast PROVE ParserInv'
<1>1. s.current = "header_value_te_chunked_last" /\ s.current \in HeaderNodes
  BY DEF HeaderValueTeChunkedLast, At, HeaderNodes
<1>2. CASE ChunkedEnd
  <2> DEFINE v == StoreHeaderState(s, "te_chunked")  u == To(v, "header_value_almost_done")
             r == [read EXCEPT !.coding = "chunked"]
  <2>1. /\ IsParser(v) /\ v.flags = s.flags
        /\ v.content_length = s.content_length /\ v.header_state = "te_chunked"
    BY <1>1, HeaderKnown, StoreIs DEF HeaderState
  <2>2. /\ IsReading(r) /\ r.coding = "chunked" /\ r.length = read.length
        /\ r.sized = read.sized /\ r.close = read.close
    BY <1>1, HeaderKnown, CodingIs
  <2>3. ValueOtherwise(v, r)
    BY <1>2 DEF ChunkedEnd
  <2> HIDE DEF v, r
  <2>4. IsParser(u) /\ Same(u, v) /\ u.current = "header_value_almost_done"
    BY <2>1, ToIs
  <2> HIDE DEF u
  <2>5. LengthSaid(u, r)
    BY <1>1, <2>1, <2>2, <2>4, HeaderKnown DEF LengthSaid, Same, DigitNodes
  <2>6. CodingSaid(u, r)
    BY <1>1, <2>1, <2>2, <2>4, HeaderKnown
       DEF CodingSaid, Same, ValueEndNodes, CodingNodes, BetweenLines
  <2>7. CloseSaid(u, r)
    BY <1>1, <2>1, <2>2, <2>4, HeaderKnown DEF CloseSaid, Same, ValueEndNodes
  <2> QED
    BY <2>1, <2>2, <2>3, <2>5, <2>6, <2>7, ValueEndFits DEF InHeader, u
<1>3. CASE Move(To(s, "header_value_te_chunked")) \/ Move(To(s, "header_value_te_token"))
  BY <1>1, <1>3, HeaderToStep
     DEF HeaderNodes, DigitNodes, CodingNodes, ValueEndNodes, BetweenLines
<1> QED
  BY <1>2, <1>3, FailStep DEF HeaderValueTeChunkedLast, ChunkedNotLast

LEMMA HeaderLineFits == ASSUME ParserInv, HeaderLine PROVE ParserInv'
BY HeadersStartFits, HeaderFieldStartFits, HeaderFieldFits, DiscardWsFits,
   DiscardLwsFits, LwsFits, ValueFits, ConnectionFits, ConnectionWsFits,
   ContentLengthFits, CodingNodesFit, ChunkedLastFits
   DEF HeaderLine

-----------------------------------------------------------------------------
(* The end of the header, and of the message.                               *)
LEMMA LeftIs ==
  ASSUME NEW t, IsParser(t), NEW n \in 0 .. MaxLength
  PROVE  LET u == [t EXCEPT !.content_length = n] IN
         /\ IsParser(u) /\ u.content_length = n
         /\ u.current = t.current /\ u.flags = t.flags
         /\ u.header_state = t.header_state /\ u.type = t.type
         /\ u.http_major = t.http_major /\ u.http_minor = t.http_minor
BY DEF IsParser

\* After a message, the next one is read unless this one said "close".
LEMMA CompleteFits ==
  ASSUME NEW t, NEW r, IsParser(t), IsReading(r), Remembered(t, r)
  PROVE  /\ Fits(AfterMessageComplete(t), r)
         /\ AfterMessageComplete(t).current = "start" =>
              AfterMessageComplete(t).content_length = 0
<1> DEFINE u == AfterMessageComplete(t)
           v == [t EXCEPT !.flags = {}]
           w == [v EXCEPT !.content_length = 0]
<1>1. /\ IsParser(v) /\ v.flags = {}
      /\ v.http_major = t.http_major /\ v.http_minor = t.http_minor
  BY DEF IsParser
<1>2. CASE ShouldKeepAlive(t)
  <2>1. u = To(w, "start")
    BY <1>2 DEF AfterMessageComplete, To
  <2> HIDE DEF u, v
  <2>2. /\ IsParser(w) /\ w.flags = {} /\ w.content_length = 0
        /\ w.http_major = t.http_major /\ w.http_minor = t.http_minor
    BY <1>1, LeftIs, ParserAssumption
  <2> HIDE DEF w
  <2>3. IsParser(u) /\ Same(u, w) /\ u.current = "start"
    BY <2>1, <2>2, ToIs
  <2>4. ~(r.close /\ t.http_major = 1 /\ t.http_minor = 1)
    BY <1>2 DEF ShouldKeepAlive, Remembered
  <2>5. AtStart(u, r)
    BY <2>2, <2>3, <2>4 DEF AtStart, Same
  <2> QED
    BY <2>2, <2>3, <2>5 DEF Fits, LineNodes, HeaderNodes, ChunkNodes, u, Same
<1>3. CASE ~ShouldKeepAlive(t)
  <2>1. u = To(v, "closed")
    BY <1>3 DEF AfterMessageComplete, To
  <2> HIDE DEF u, v
  <2>2. IsParser(u) /\ u.current = "closed"
    BY <1>1, <2>1, ToIs
  <2> QED
    BY <2>2, StopFits DEF u
<1> QED
  BY <1>2, <1>3

LEMMA MessageCompleteFits ==
  ASSUME NEW t, NEW r, IsParser(t), IsReading(r), Remembered(t, r)
  PROVE  Fits(MessageComplete(t), r)
BY CompleteFits, FailIs, StopFits DEF MessageComplete

LEMMA UpgradeIs ==
  ASSUME NEW t, IsParser(t)
  PROVE  LET u == BeforeHeadersComplete(t) IN
         /\ IsParser(u) /\ u.content_length = t.content_length
         /\ u.flags = t.flags
<1> DEFINE b == IF {"UPGRADE", "CONNECTION_UPGRADE"} \subseteq t.flags
                THEN t.type = "HTTP_REQUEST" \/ t.status_code = 101
                ELSE t.method = HTTP_CONNECT
<1>1. b \in BOOLEAN
  OBVIOUS
<1>2. BeforeHeadersComplete(t) = [t EXCEPT !.upgrade = b]
  BY DEF BeforeHeadersComplete
<1> HIDE DEF b
<1> QED
  BY <1>1, <1>2 DEF IsParser

LEMMA HeadersCompleteFits ==
  ASSUME ParserInv, s.current = "headers_almost_done",
         ~({"TRANSFER_ENCODING", "CONTENT_LENGTH"} \subseteq s.flags)
  PROVE  Fits(HeadersComplete(s), read)
<1> DEFINE u == BeforeHeadersComplete(s)
           next == AfterHeadersComplete(u)
           t == HeadersComplete(s)
<1>1. s.current \in HeaderNodes
  BY DEF HeaderNodes
<1>2. IsReading(read) /\ Remembered(s, read)
  BY <1>1, HeaderKnown DEF CloseSaid, Remembered, ValueEndNodes
<1>3. IsParser(u) /\ u.content_length = s.content_length /\ u.flags = s.flags
  BY <1>1, HeaderKnown, UpgradeIs
<1>4. Remembered(u, read)
  BY <1>2, <1>3 DEF Remembered
<1>5. CASE next = "upgrade"
  <2>1. t = Fail(u, "PAUSED_UPGRADE")
    BY <1>5 DEF HeadersComplete
  <2> QED
    BY <1>2, <1>3, <2>1, FailIs, StopFits
<1>6. CASE next = "chunked"
  <2> DEFINE v == [u EXCEPT !.content_length = 0]
  <2>1. t = To(v, "chunk_size_digit")
    BY <1>6 DEF HeadersComplete, To
  <2>2. "CHUNKED" \in u.flags
    BY <1>6 DEF AfterHeadersComplete
  <2> HIDE DEF t, u, next
  <2>3. IsParser(v) /\ v.content_length = 0 /\ v.flags = u.flags
    BY <1>3, LeftIs, ParserAssumption
  <2> HIDE DEF v
  <2>4. IsParser(t) /\ Same(t, v) /\ t.current = "chunk_size_digit"
    BY <2>1, <2>3, ToIs
  <2>5. "CHUNKED" \in s.flags /\ s.flags = t.flags /\ t.content_length = 0
    BY <1>3, <2>2, <2>3, <2>4 DEF Same
  <2>6. read.coding = "chunked" /\ "TRANSFER_ENCODING" \in s.flags
    BY <1>1, <2>5, HeaderKnown DEF CodingSaid
  <2>7. "CONTENT_LENGTH" \notin s.flags
    BY <2>6
  <2>8. ~read.sized /\ read.length = 0
    BY <1>1, <2>7, HeaderKnown DEF LengthSaid
  <2>9. InChunks(t, read)
    BY <1>2, <2>5, <2>6, <2>7, <2>8 DEF InChunks, Remembered
  <2> QED
    BY <1>2, <2>4, <2>9, ChunkFits DEF t, ChunkNodes
<1>7. CASE next = "length"
  <2>1. t = To(u, "span_start_llhttp__on_body_1")
    BY <1>7 DEF HeadersComplete
  <2>2. "CHUNKED" \notin u.flags /\ "TRANSFER_ENCODING" \notin u.flags
        /\ "CONTENT_LENGTH" \in u.flags
    BY <1>7 DEF AfterHeadersComplete
  <2> HIDE DEF t, u, next
  <2>3. IsParser(t) /\ Same(t, u) /\ t.current = "span_start_llhttp__on_body_1"
    BY <1>3, <2>1, ToIs
  <2>4. read.coding = "none"
    BY <1>1, <1>3, <2>2, HeaderKnown DEF CodingSaid
  <2>5. InSizedBody(t, read)
    BY <1>1, <1>2, <1>3, <2>2, <2>3, <2>4, HeaderKnown
       DEF LengthSaid, InSizedBody, Remembered, Same
  <2> QED
    BY <1>2, <2>3, <2>5 DEF Fits, LineNodes, HeaderNodes, ChunkNodes, t
<1>8. CASE next = "eof"
  <2>1. t = To(u, "span_start_llhttp__on_body_2")
    BY <1>8 DEF HeadersComplete
  <2>2. "CHUNKED" \notin u.flags /\
        ("TRANSFER_ENCODING" \in u.flags \/ "CONTENT_LENGTH" \notin u.flags)
    BY <1>8 DEF AfterHeadersComplete
  <2> HIDE DEF t, u, next
  <2>3. IsParser(t) /\ Same(t, u) /\ t.current = "span_start_llhttp__on_body_2"
    BY <1>3, <2>1, ToIs
  <2>4. InOpenBody(t, read)
    BY <1>3, <2>2, <2>3 DEF InOpenBody, Same
  <2> QED
    BY <1>2, <2>3, <2>4 DEF Fits, LineNodes, HeaderNodes, ChunkNodes, t
<1>9. CASE next = "invalid"
  <2>1. t = Fail(u, "INVALID_TRANSFER_ENCODING")
    BY <1>9 DEF HeadersComplete
  <2> QED
    BY <1>2, <1>3, <2>1, FailIs, StopFits
<1>10. CASE next = "none"
  <2>1. t = AfterMessageComplete(u)
    BY <1>10 DEF HeadersComplete
  <2> QED
    BY <1>2, <1>3, <1>4, <2>1, CompleteFits
<1>11. next \in {"upgrade", "chunked", "length", "eof", "invalid", "none"}
  BY DEF AfterHeadersComplete
<1> QED
  BY <1>5, <1>6, <1>7, <1>8, <1>9, <1>10, <1>11

LEMMA HeadersAlmostDoneFits == ASSUME ParserInv, HeadersAlmostDone PROVE ParserInv'
<1>1. s.current = "headers_almost_done" /\ s.current \in HeaderNodes
  BY DEF HeadersAlmostDone, At, HeaderNodes
<1>2. CASE Move(MessageComplete(s))
  <2>1. IsParser(s) /\ IsReading(read) /\ Remembered(s, read)
    BY <1>1, HeaderKnown DEF CloseSaid, Remembered, ValueEndNodes
  <2> QED
    BY <1>2, <2>1, MessageCompleteFits, MoveFits DEF Move
<1>3. CASE Move(HeadersComplete(s))
           /\ ~({"TRANSFER_ENCODING", "CONTENT_LENGTH"} \subseteq s.flags)
  BY <1>1, <1>3, HeadersCompleteFits, MoveFits DEF Move
<1> QED
  BY <1>2, <1>3, FailStep DEF HeadersAlmostDone

-----------------------------------------------------------------------------
(* Bodies.                                                                  *)
LEMMA ConsumeFits ==
  ASSUME ParserInv, NEW t, Fits([t EXCEPT !.content_length = 0], read),
         [t EXCEPT !.content_length = 0].content_length = 0,
         s.content_length = read.length, Consume(t), read' = read
  PROVE  ParserInv'
<1>1. IsParser(s) /\ IsReading(read) /\ s.content_length \in 0 .. MaxLength
      /\ MaxLength \in Nat
  BY ParserAssumption DEF ParserInv, Fits, IsParser
<1>2. CASE /\ s' = [t EXCEPT !.content_length = 0]
           /\ event' = [call |-> "on_body", bytes |-> s.content_length]
  <2>1. s'.content_length = 0 /\ Fits(s', read) /\ event'.bytes = s.content_length
    BY <1>2
  <2>2. EventFits(s', event', read)
    BY <1>1, <2>1 DEF EventFits
  <2> QED
    BY <2>1, <2>2 DEF ParserInv
<1>3. ASSUME NEW n \in 1 .. s.content_length - 1,
             s' = [s EXCEPT !.content_length = @ - n, !.current = "returned"],
             event' = [call |-> "on_body", bytes |-> n]
      PROVE  ParserInv'
  <2> DEFINE m == s.content_length - n  v == [s EXCEPT !.content_length = m]
  <2>1. m \in 0 .. MaxLength /\ n \in Nat /\ n + m = read.length
    BY <1>1
  <2>2. s' = To(v, "returned") /\ event'.bytes = n
    BY <1>3 DEF To
  <2> HIDE DEF m
  <2>3. IsParser(v) /\ v.content_length = m
    BY <1>1, <2>1, LeftIs
  <2> HIDE DEF v
  <2>4. IsParser(s') /\ s'.current = "returned" /\ s'.content_length = m
    BY <2>2, <2>3, ToIs DEF Same
  <2>5. Fits(s', read)
    BY <1>1, <2>4, StopFits
  <2>6. EventFits(s', event', read)
    BY <2>1, <2>2, <2>4 DEF EventFits
  <2> QED
    BY <2>5, <2>6 DEF ParserInv
<1> QED
  BY <1>2, <1>3 DEF Consume

LEMMA NothingLeft ==
  ASSUME NEW t, NEW r, Fits(t, r),
         t.current \in {"start", "closed", "error", "chunk_data_almost_done"}
  PROVE  LET u == [t EXCEPT !.content_length = 0] IN
         Fits(u, r) /\ u.content_length = 0
<1> DEFINE u == [t EXCEPT !.content_length = 0]
<1>1. /\ IsParser(u) /\ u.content_length = 0 /\ u.current = t.current
      /\ u.flags = t.flags
      /\ u.http_major = t.http_major /\ u.http_minor = t.http_minor
  BY LeftIs, ParserAssumption DEF Fits
<1> HIDE DEF u
<1>2. Fits(u, r)
  <2>1. IsReading(r)
    BY DEF Fits
  <2>2. CASE t.current = "start"
    BY <1>1, <2>1, <2>2 DEF Fits, AtStart, LineNodes, HeaderNodes, ChunkNodes
  <2>3. CASE t.current = "chunk_data_almost_done"
    <3>1. InChunks(t, r)
      BY <2>3 DEF Fits, ChunkNodes
    <3> QED
      BY <1>1, <2>1, <2>3, <3>1, ChunkFits DEF InChunks, Remembered, ChunkNodes
  <2>4. CASE t.current \in {"closed", "error"}
    BY <1>1, <2>1, <2>4, StopFits
  <2> QED
    BY <2>2, <2>3, <2>4
<1> QED
  BY <1>1, <1>2 DEF u

\* A message is over.
Completed(u) ==
  \/ u.current \in {"start", "closed"}
  \/ u.current = "error" /\ u.error = "PAUSED_UPGRADE"

LEMMA AfterMessageEdge ==
  ASSUME NEW t, IsParser(t)
  PROVE  IsParser(AfterMessageComplete(t)) /\ Completed(AfterMessageComplete(t))
<1> DEFINE v == [t EXCEPT !.flags = {}]  w == [v EXCEPT !.content_length = 0]
<1>1. AfterMessageComplete(t) \in {To(w, "start"), To(v, "closed")}
  BY DEF AfterMessageComplete, To
<1>2. IsParser(v)
  BY DEF IsParser
<1> HIDE DEF v
<1>3. IsParser(w)
  BY <1>2, LeftIs, ParserAssumption
<1> HIDE DEF w
<1> QED
  BY <1>1, <1>2, <1>3, ToIs DEF Completed

LEMMA MessageEdge ==
  ASSUME NEW t, IsParser(t)
  PROVE  IsParser(MessageComplete(t)) /\ Completed(MessageComplete(t))
<1>1. CASE t.upgrade
  BY <1>1, FailIs DEF MessageComplete, Completed
<1>2. CASE ~t.upgrade
  BY <1>2, AfterMessageEdge DEF MessageComplete
<1> QED
  BY <1>1, <1>2

LEMMA BodyOfLengthFits == ASSUME ParserInv, BodyOfLength PROVE ParserInv'
<1>1. /\ IsParser(s) /\ IsReading(read) /\ InSizedBody(s, read)
  BY DEF ParserInv, Fits, BodyOfLength, At
<1> DEFINE v == [s EXCEPT !.content_length = 0]
<1>2. IsParser(v) /\ v.flags = s.flags
  BY <1>1, LeftIs, ParserAssumption
<1>3. Consume(MessageComplete(v)) /\ read' = read
  BY DEF BodyOfLength
<1> HIDE DEF v
<1>4. Fits(MessageComplete(v), read)
  BY <1>1, <1>2, MessageCompleteFits DEF InSizedBody, Remembered
<1>5. MessageComplete(v).current \in {"start", "closed", "error"}
  BY <1>2, MessageEdge DEF Completed
<1> DEFINE t == MessageComplete(v)
<1> HIDE DEF t
<1>6. /\ Fits([t EXCEPT !.content_length = 0], read)
      /\ [t EXCEPT !.content_length = 0].content_length = 0
  BY <1>4, <1>5, NothingLeft DEF t
<1> QED
  BY <1>1, <1>3, <1>6, ConsumeFits DEF InSizedBody, t

LEMMA BodyToEofFits == ASSUME ParserInv, BodyToEof PROVE ParserInv'
<1>1. IsParser(s) /\ IsReading(read) /\ InOpenBody(s, read)
  BY DEF ParserInv, Fits, BodyToEof, At
<1>2. s' = To(s, "returned") /\ event'.bytes = 1 /\ read' = read
  BY DEF BodyToEof
<1>3. IsParser(s') /\ s'.current = "returned" /\ s'.flags = s.flags
  BY <1>1, <1>2, ToIs DEF Same
<1>4. Fits(s', read)
  BY <1>1, <1>3, StopFits
<1>5. EventFits(s', event', read)
  BY <1>1, <1>2, <1>3 DEF EventFits, InOpenBody
<1> QED
  BY <1>2, <1>4, <1>5 DEF ParserInv

-----------------------------------------------------------------------------
(* Chunks.                                                                  *)
LEMMA ChunkKnown ==
  ASSUME ParserInv, s.current \in ChunkNodes
  PROVE  IsParser(s) /\ IsReading(read) /\ InChunks(s, read)
BY DEF ParserInv, Fits

LEMMA ChunkTo ==
  ASSUME ParserInv, s.current \in ChunkNodes \ {"chunk_data_almost_done"},
         NEW u, IsParser(u), u.current \in ChunkNodes,
         u.flags = s.flags, u.content_length = s.content_length
  PROVE  Fits(u, read)
BY ChunkKnown, ChunkFits DEF InChunks, Remembered

LEMMA ChunkToStep ==
  ASSUME ParserInv, s.current \in ChunkNodes \ {"chunk_data_almost_done"},
         NEW n \in ChunkNodes, Move(To(s, n)) \/ EndSpan(To(s, n))
  PROVE  ParserInv'
<1>1. Fits(To(s, n), read)
  BY ChunkKnown, ToIs, ChunkTo DEF Same
<1> QED
  BY <1>1, MoveFits, CallFits DEF Move, EndSpan

LEMMA ChunkOpenFits ==
  ASSUME ParserInv, s.current \in ChunkNodes \ {"chunk_data_almost_done"},
         NEW n \in ChunkNodes, NEW span \in Spans
  PROVE  Fits(Open(s, n, span), read)
BY ChunkKnown, OpenIs, ChunkTo DEF Same

LEMMA ChunkDigitFits ==
  ASSUME ParserInv, s.current \in {"chunk_size_digit", "chunk_size"},
         NEW d \in HexDigit, ChunkDigit(d)
  PROVE  ParserInv'
<1>1. s.current \in ChunkNodes \ {"chunk_data_almost_done"}
  BY DEF ChunkNodes
<1>2. CASE Overflows(HexRadix, d)
  BY <1>2, FailStep DEF ChunkDigit
<1>3. CASE ~Overflows(HexRadix, d)
  <2> DEFINE v == MulAdd(HexRadix, d)  u == To(v, "chunk_size")
             n == read.length * HexRadix + d  r == [read EXCEPT !.length = n]
  <2>1. /\ IsParser(v) /\ v.content_length = s.content_length * HexRadix + d
        /\ v.flags = s.flags
    BY <1>3, MulAddIs, ParserAssumption
  <2>2. Quietly(u) /\ read' = r
    BY <1>3 DEF ChunkDigit
  <2> HIDE DEF v
  <2>3. IsParser(u) /\ Same(u, v) /\ u.current = "chunk_size"
    BY <2>1, ToIs
  <2>4. s.content_length = read.length /\ read.length \in Nat
    BY <1>1, ChunkKnown DEF InChunks, IsReading
  <2>5. n \in Nat /\ v.content_length = n
    BY <2>1, <2>4, ParserAssumption
  <2> HIDE DEF n
  <2>6. IsReading(r) /\ r.length = n
        /\ r.sized = read.sized /\ r.coding = read.coding /\ r.close = read.close
    BY <1>1, <2>5, ChunkKnown, LengthIs
  <2> HIDE DEF u, r
  <2>7. InChunks(u, r)
    BY <1>1, <2>1, <2>3, <2>5, <2>6, ChunkKnown DEF InChunks, Remembered, Same
  <2>8. Fits(u, r)
    BY <2>3, <2>6, <2>7, ChunkFits DEF ChunkNodes
  <2> QED
    BY <2>2, <2>8, MoveFits
<1> QED
  BY <1>2, <1>3

LEMMA ChunkSizeFits ==
  ASSUME ParserInv, ChunkSizeDigit \/ ChunkSize PROVE ParserInv'
BY ChunkDigitFits, ChunkToStep, FailStep DEF ChunkSizeDigit, ChunkSize, At, ChunkNodes

LEMMA ChunkExtensionNameFits ==
  ASSUME ParserInv, ChunkExtensions \/ ChunkExtensionName PROVE ParserInv'
<1>1. s.current \in ChunkNodes \ {"chunk_data_almost_done"}
  BY DEF ChunkExtensions, ChunkExtensionName, At, ChunkNodes
<1> DEFINE u == Open(s, "chunk_extension_name", "on_chunk_extension_name")
           v == Open(s, "chunk_extension_value", "on_chunk_extension_value")
<1>2. Fits(u, read) /\ Fits(v, read)
  BY <1>1, ChunkOpenFits DEF ChunkNodes, Spans
<1>3. CASE Move(u)
  BY <1>2, <1>3, MoveFits DEF Move
<1>4. CASE s' = v /\ event' = [call |-> s.span, bytes |-> 0] /\ read' = read
  <2>1. s.span # "on_body"
    BY <1>1, ChunkKnown DEF IsParser, Spans
  <2> HIDE DEF v
  <2>2. event'.bytes = 0 /\ event'.call # "on_body"
    BY <1>4, <2>1
  <2> QED
    BY <1>2, <1>4, <2>2, EffectFits
<1> QED
  BY <1>1, <1>3, <1>4, ChunkToStep, FailStep
     DEF ChunkExtensions, ChunkExtensionName, ExtensionNameEnd, ChunkNodes

LEMMA ChunkExtensionValueFits ==
  ASSUME ParserInv,
         \/ ChunkExtensionValue \/ ChunkExtensionQuotedValue
         \/ ChunkExtensionQuotedValueDone
  PROVE  ParserInv'
BY ChunkToStep, FailStep
   DEF ChunkExtensionValue, ChunkExtensionQuotedValue, ChunkExtensionQuotedValueDone,
       ExtensionValueEnd, At, ChunkNodes

LEMMA ChunkSizeAlmostDoneFits ==
  ASSUME ParserInv, ChunkSizeAlmostDone PROVE ParserInv'
<1>1. s.current = "chunk_size_almost_done"
      /\ s.current \in ChunkNodes \ {"chunk_data_almost_done"}
  BY DEF ChunkSizeAlmostDone, At, ChunkNodes
<1>2. CASE s.content_length # 0
  <2>1. Move(To(s, "span_start_llhttp__on_body"))
    BY <1>2 DEF ChunkSizeAlmostDone
  <2> QED
    BY <1>1, <2>1, ChunkToStep DEF ChunkNodes
<1>3. CASE s.content_length = 0
  <2> DEFINE v == OrFlags(s, {"TRAILING"})  u == To(v, "header_field_start")
  <2>1. Move(u)
    BY <1>3 DEF ChunkSizeAlmostDone
  <2>2. IsParser(v) /\ v.flags = s.flags \cup {"TRAILING"}
        /\ v.content_length = s.content_length
    BY <1>1, ChunkKnown, OrIs DEF Flag
  <2> HIDE DEF v
  <2>3. IsParser(u) /\ Same(u, v) /\ u.current = "header_field_start"
    BY <2>2, ToIs
  <2> HIDE DEF u
  <2>4. LengthSaid(u, read)
    BY <1>1, <1>3, <2>2, <2>3, ChunkKnown DEF InChunks, LengthSaid, Same, DigitNodes
  <2>5. CodingSaid(u, read)
    BY <1>1, <2>2, <2>3, ChunkKnown
       DEF InChunks, CodingSaid, Same, ValueEndNodes, BetweenLines, CodingNodes
  <2>6. CloseSaid(u, read)
    BY <1>1, <2>2, <2>3, ChunkKnown DEF InChunks, Remembered, CloseSaid, Same
  <2>7. Fits(u, read)
    BY <1>1, <2>3, <2>4, <2>5, <2>6, ChunkKnown, HeaderFits DEF InHeader, HeaderNodes
  <2> QED
    BY <2>1, <2>7, MoveFits DEF Move
<1> QED
  BY <1>2, <1>3

LEMMA ChunkBodyFits == ASSUME ParserInv, ChunkBody PROVE ParserInv'
<1>1. s.current = "span_start_llhttp__on_body"
      /\ s.current \in ChunkNodes \ {"chunk_data_almost_done"}
  BY DEF ChunkBody, At, ChunkNodes
<1> DEFINE t == To(s, "chunk_data_almost_done")
<1>2. Fits(t, read) /\ t.current = "chunk_data_almost_done"
  BY <1>1, ChunkKnown, ToIs, ChunkTo DEF ChunkNodes, Same
<1>3. Consume(t) /\ read' = read
  BY DEF ChunkBody
<1> HIDE DEF t
<1>4. /\ Fits([t EXCEPT !.content_length = 0], read)
      /\ [t EXCEPT !.content_length = 0].content_length = 0
  BY <1>2, NothingLeft
<1>5. s.content_length = read.length
  BY <1>1, ChunkKnown DEF InChunks
<1> QED
  BY <1>3, <1>4, <1>5, ConsumeFits

LEMMA ChunkDataAlmostDoneFits ==
  ASSUME ParserInv, ChunkDataAlmostDone PROVE ParserInv'
<1>1. s.current \in ChunkNodes
  BY DEF ChunkDataAlmostDone, At, ChunkNodes
<1> DEFINE v == [s EXCEPT !.content_length = 0]  u == To(v, "chunk_size_digit")
           r == [read EXCEPT !.length = 0]
<1>2. Quietly(u) /\ read' = r
  BY DEF ChunkDataAlmostDone, To
<1>3. IsParser(v) /\ v.content_length = 0 /\ v.flags = s.flags
  BY <1>1, ChunkKnown, LeftIs, ParserAssumption
<1> HIDE DEF v
<1>4. IsParser(u) /\ Same(u, v) /\ u.current = "chunk_size_digit"
  BY <1>3, ToIs
<1>5. IsReading(r) /\ r.length = 0
      /\ r.sized = read.sized /\ r.coding = read.coding /\ r.close = read.close
  BY <1>1, ChunkKnown, LengthIs
<1> HIDE DEF u, r
<1>6. InChunks(u, r)
  BY <1>1, <1>3, <1>4, <1>5, ChunkKnown DEF InChunks, Remembered, Same
<1>7. Fits(u, r)
  BY <1>4, <1>5, <1>6, ChunkFits DEF ChunkNodes
<1> QED
  BY <1>2, <1>7, MoveFits

LEMMA BodyFits == ASSUME ParserInv, Body PROVE ParserInv'
BY HeadersAlmostDoneFits, BodyOfLengthFits, BodyToEofFits, ChunkSizeFits,
   ChunkExtensionNameFits, ChunkExtensionValueFits, ChunkSizeAlmostDoneFits,
   ChunkBodyFits, ChunkDataAlmostDoneFits
   DEF Body

LEMMA EndOfBufferFits == ASSUME ParserInv, EndOfBuffer PROVE ParserInv'
<1>1. Fits(To(s, "returned"), read)
  BY ToIs, StopFits DEF ParserInv, Fits
<1> QED
  BY <1>1, CallFits DEF EndOfBuffer, EndSpan

-----------------------------------------------------------------------------
(* Only the first character of a message begins one.                        *)
LEMMA FirstLineKept ==
  ASSUME RequestLine \/ StatusLine
  PROVE  read' = read \/ s.current = "start"
BY DEF RequestLine, StatusLine, Start, AfterStartReq, SpacesBeforeUrl, UrlStart, UrlSchema,
   UrlServer, UrlPath, UrlQuery, UrlEnd, InvalidUrl, Http09, ReqHttpStart, ReqHttpMajor,
   ReqHttpMinor, ReqHttpComplete, EndVersion, InvalidVersion, StartRes, ResHttpMajor,
   ResHttpMinor, ResAfterVersion, ResStatusCode, ResStatusDigit, ResStatusStart, ResStatus,
   At, Move, EndSpan

LEMMA HeaderLineKept ==
  ASSUME IsReading(read), HeaderLine
  PROVE  read'.message = read.message
<1>1. ASSUME NEW t, NEW r, IsReading(r), BeginValue(t, r)
      PROVE  read'.message = r.message
  <2> DEFINE u == DispatchValue([t EXCEPT !.span = "on_header_value"])
             q == [r EXCEPT !.coding = "other"]
  <2>1. read' \in {r, q, [r EXCEPT !.length = 0], [q EXCEPT !.length = 0]}
    BY <1>1 DEF BeginValue
  <2>2. IsReading(q) /\ q.message = r.message
    BY <1>1 DEF IsReading
  <2> HIDE DEF q
  <2> QED
    BY <1>1, <2>1, <2>2 DEF IsReading
<1>2. CASE HeaderFieldStart
  BY <1>2 DEF HeaderFieldStart, Move, IsReading
<1>3. CASE HeaderValueDiscardWs \/ HeaderValueDiscardLws
  BY <1>1, <1>3 DEF HeaderValueDiscardWs, HeaderValueDiscardLws, EmptyValue, Move
<1>4. CASE HeaderValueLws
  <2> DEFINE q == [read EXCEPT !.folds = @ + 1]
             c == IF s.header_state = "te_chunked" THEN "other" ELSE q.coding
             r == [q EXCEPT !.coding = c]
  <2>1. IsReading(q) /\ q.message = read.message /\ q.coding = read.coding
    BY DEF IsReading
  <2>2. r = [read EXCEPT !.folds = @ + 1,
                         !.coding = IF s.header_state = "te_chunked" THEN "other" ELSE @]
    BY DEF IsReading
  <2>3. read' = read \/ \E t : BeginValue(t, r)
    BY <1>4, <2>2 DEF HeaderValueLws, Move
  <2> HIDE DEF q, c
  <2>4. IsReading(r) /\ r.message = q.message
    BY <2>1 DEF IsReading
  <2> QED
    BY <1>1, <2>1, <2>3, <2>4
<1>5. CASE HeaderValueConnectionWs
  BY <1>5 DEF HeaderValueConnectionWs, NextToken, ValueOtherwise, ReadClose, Move, IsReading
<1>6. CASE HeaderValueContentLength
  BY <1>6 DEF HeaderValueContentLength, LengthDigit, LengthEnd, ValueOtherwise, EndSpan,
     IsReading
<1>7. CASE HeaderValueTeChunkedLast
  BY <1>7 DEF HeaderValueTeChunkedLast, ChunkedEnd, ChunkedNotLast, ValueOtherwise,
     Move, EndSpan, IsReading
<1>8. CASE \/ HeadersStart \/ HeaderFieldColon \/ HeaderFieldGeneral \/ HeaderValue
           \/ HeaderValueAlmostDone \/ HeaderValueConnection \/ HeaderValueConnectionToken
           \/ HeaderValueTeChunked \/ HeaderValueTeToken
  BY <1>8 DEF HeadersStart, HeaderFieldColon, HeaderFieldGeneral, FieldEnd, HeaderValue,
     HeaderValueAlmostDone, HeaderValueConnection, HeaderValueConnectionToken,
     HeaderValueTeChunked, HeaderValueTeToken, ValueOtherwise, Move, EndSpan
<1> QED
  BY <1>2, <1>3, <1>4, <1>5, <1>6, <1>7, <1>8 DEF HeaderLine

LEMMA BodyKept ==
  ASSUME IsReading(read), Body
  PROVE  read'.message = read.message
<1>1. ASSUME NEW d, ChunkDigit(d) PROVE read'.message = read.message
  BY <1>1 DEF ChunkDigit, Move, IsReading
<1>2. CASE ChunkDataAlmostDone
  BY <1>2 DEF ChunkDataAlmostDone, IsReading
<1>3. CASE ChunkSizeDigit \/ ChunkSize
  BY <1>1, <1>3 DEF ChunkSizeDigit, ChunkSize, Move
<1>4. CASE \/ HeadersAlmostDone \/ BodyOfLength \/ BodyToEof \/ ChunkExtensions
           \/ ChunkExtensionName \/ ChunkExtensionValue \/ ChunkExtensionQuotedValue
           \/ ChunkExtensionQuotedValueDone \/ ChunkSizeAlmostDone \/ ChunkBody
  BY <1>4 DEF HeadersAlmostDone, BodyOfLength, BodyToEof, ChunkExtensions,
     ChunkExtensionName, ExtensionNameEnd, ChunkExtensionValue, ExtensionValueEnd,
     ChunkExtensionQuotedValue, ChunkExtensionQuotedValueDone, ChunkSizeAlmostDone,
     ChunkBody, Move, EndSpan
<1> QED
  BY <1>2, <1>3, <1>4 DEF Body

LEMMA MessageKept ==
  ASSUME ParserInv, Next
  PROVE  read'.message = read.message \/ s.current = "start"
BY FirstLineKept, HeaderLineKept, BodyKept
   DEF ParserInv, Fits, Next, Input, EndOfBuffer, EndSpan

-----------------------------------------------------------------------------
(* The theorems.                                                            *)
LEMMA Always == Spec => []ParserInv
<1>1. ASSUME ParserInv, [Next]_vars PROVE ParserInv'
  <2>1. CASE UNCHANGED vars
    BY <1>1, <2>1 DEF vars, ParserInv, Fits, EventFits, IsParser, IsReading, AtStart,
       InLine, InHeader, LengthSaid, CodingSaid, CloseSaid, InChunks, InSizedBody,
       InOpenBody, Remembered
  <2>2. CASE Next
    BY <1>1, <2>2, FirstLineFits, HeaderLineFits, BodyFits, EndOfBufferFits
       DEF Next, Input
  <2> QED
    BY <1>1, <2>1, <2>2
<1> QED
  BY <1>1, InitFits, PTL DEF Spec

(* Types: lengths stay below 2^64, whatever digits are sent.                *)
THEOREM ParserTypes == Spec => []TypeOK
<1>1. ParserInv => TypeOK
  BY DEF ParserInv, Fits, EventFits, IsParser, IsReading, TypeOK
<1> QED
  BY <1>1, Always, PTL

(* A body with a length, and a chunk, has as many bytes as its digits say,  *)
(* for any number of digits: mul_add_content_length never wraps around.     *)
THEOREM BodiesAsAnnounced == Spec => []BodyAsAnnounced
<1>1. ASSUME ParserInv PROVE BodyAsAnnounced
  <2>1. s.current \in {"header_value_content_length_ws", "chunk_size"} =>
          s.content_length = read.length
    <3>1. CASE s.current = "header_value_content_length_ws"
      BY <1>1, <3>1, HeaderKnown DEF HeaderNodes, LengthSaid
    <3>2. CASE s.current = "chunk_size"
      BY <1>1, <3>2, ChunkKnown DEF ChunkNodes, InChunks
    <3> QED
      BY <3>1, <3>2
  <2> QED
    BY <1>1, <2>1 DEF ParserInv, EventFits, BodyAsAnnounced, LengthDelimited
<1> QED
  BY <1>1, Always, PTL

(* A body is framed by what this message's header says, and by nothing left *)
(* over of an earlier line, of a folded one or of an earlier message, for   *)
(* any number of lines and messages.                                        *)
THEOREM FramingAlwaysAsSaid == Spec => []FramingAsSaid
<1>1. ParserInv => FramingAsSaid
  BY DEF ParserInv, Fits, InSizedBody, InChunks, ChunkNodes, FramingAsSaid, At
<1> QED
  BY <1>1, Always, PTL

(* No message is taken from the buffer after one of HTTP/1.1 that said      *)
(* "Connection: close", in whatever list or folded line it said so.         *)
THEOREM CloseAlwaysEnds == Spec => CloseEnds
<1>1. ParserInv /\ [Next]_vars =>
        [read.message' # read.message =>
           ~(read.close /\ s.http_major = 1 /\ s.http_minor = 1)]_vars
  <2>1. ASSUME ParserInv, Next PROVE read'.message = read.message \/ s.current = "start"
    BY <2>1, MessageKept
  <2>2. ASSUME ParserInv, s.current = "start"
        PROVE  ~(read.close /\ s.http_major = 1 /\ s.http_minor = 1)
    BY <2>2 DEF ParserInv, Fits, AtStart
  <2> QED
    BY <2>1, <2>2
<1> QED
  BY <1>1, Always, PTL DEF Spec, CloseEnds

-----------------------------------------------------------------------------
(* The refinement.  What HttpMessage sees of a step: the node it leads to,  *)
(* whether a trailer has begun, and the error.                              *)
LEMMA SpanEdge ==
  ASSUME NEW u, IsParser(u), s' = u \/ s' = [u EXCEPT !.span = "none"]
  PROVE  s'.current = u.current /\ s'.flags = u.flags /\ s'.error = u.error
BY DEF IsParser

LEMMA MoveEdge ==
  ASSUME NEW u, IsParser(u), Move(u) \/ EndSpan(u) \/ Quietly(u) \/ Call(u)
  PROVE  s'.current = u.current /\ s'.flags = u.flags /\ s'.error = u.error
<1>1. s' = u \/ s' = [u EXCEPT !.span = "none"]
  BY DEF Move, EndSpan, Quietly, Call
<1> QED
  BY <1>1, SpanEdge

LEMMA ToEdge ==
  ASSUME NEW v, IsParser(v), NEW n,
         Move(To(v, n)) \/ EndSpan(To(v, n)) \/ Quietly(To(v, n)) \/ Call(To(v, n))
  PROVE  s'.current = n /\ s'.flags = v.flags
BY ToIs, MoveEdge DEF Same

LEMMA FailEdge ==
  ASSUME NEW v, IsParser(v), NEW e,
         Move(Fail(v, e)) \/ EndSpan(Fail(v, e)) \/ Call(Fail(v, e))
  PROVE  s'.current = "error" /\ s'.flags = v.flags /\ s'.error = e
BY FailIs, MoveEdge DEF Same

LEMMA OpenEdge ==
  ASSUME NEW v, IsParser(v), NEW n, NEW span \in Spans,
         Move(Open(v, n, span)) \/ Quietly(Open(v, n, span))
  PROVE  s'.current = n /\ s'.flags = v.flags
BY OpenIs, MoveEdge DEF Same

Refused == s'.current = "error" /\ s'.error # "PAUSED_UPGRADE"

LineEdge == s'.flags = s.flags /\ (s'.current \in LineNodes \cup {"headers_start"} \/ Refused)

LEMMA MethodEdge == ASSUME IsParser(s), AfterStartReq PROVE LineEdge
<1>1. CASE Move(Fail(s, "INVALID_METHOD"))
  BY <1>1, FailEdge DEF LineEdge, Refused
<1>2. ASSUME NEW m \in Methods,
             EndSpan([s EXCEPT !.method = m[2],
                               !.current = "req_first_space_before_url"])
      PROVE  LineEdge
  <2> DEFINE v == [s EXCEPT !.method = m[2]]
  <2>1. m[2] \in 0 .. 45
    BY <1>2 DEF Methods, MethodsAB, MethodsC, MethodsDF, MethodsGH, MethodsL,
       MethodsMtoME, MethodsMKtoMO, MethodsNO, MethodsPAtoPO, MethodsPR,
       MethodsPU, MethodsR, MethodsSE, MethodsSOtoSU, MethodsT, MethodsU
  <2>2. IsParser(v) /\ v.flags = s.flags
    BY <2>1 DEF IsParser
  <2>3. EndSpan(To(v, "req_first_space_before_url"))
    BY <1>2 DEF To
  <2> HIDE DEF v
  <2> QED
    BY <2>2, <2>3, ToEdge DEF LineEdge, LineNodes
<1> QED
  BY <1>1, <1>2 DEF AfterStartReq

LEMMA Http09Edge == ASSUME IsParser(s), Http09 PROVE LineEdge
<1>1. CASE InvalidUrl
  BY <1>1, FailEdge DEF InvalidUrl, LineEdge, Refused
<1>2. CASE Move([s EXCEPT !.http_major = 0, !.http_minor = 9,
                          !.current = "headers_start"])
  <2> DEFINE v0 == [s EXCEPT !.http_major = 0]
             v == [v0 EXCEPT !.http_minor = 9]
  <2>1. IsParser(v0) /\ v0.flags = s.flags
    BY DEF IsParser
  <2>2. Move(To(v, "headers_start"))
    BY <1>2 DEF To
  <2> HIDE DEF v0
  <2>3. IsParser(v) /\ v.flags = s.flags
    BY <2>1 DEF IsParser
  <2> HIDE DEF v
  <2> QED
    BY <2>2, <2>3, ToEdge DEF LineEdge
<1> QED
  BY <1>1, <1>2 DEF Http09

LEMMA DigitEdge ==
  ASSUME IsParser(s), NEW d, NEW n \in LineNodes,
         \/ Move([s EXCEPT !.http_major = d, !.current = n])
         \/ Move([s EXCEPT !.status_code = d, !.current = n])
         \/ EndVersion(d, n)
  PROVE  LineEdge
<1>1. ASSUME NEW v, IsParser(v), v.flags = s.flags,
             Move(To(v, n)) \/ EndSpan(To(v, n)) \/ EndSpan(Fail(v, "INVALID_VERSION"))
      PROVE  LineEdge
  BY <1>1, ToEdge, FailEdge DEF LineEdge, Refused
<1>2. CASE Move([s EXCEPT !.http_major = d, !.current = n])
  <2> DEFINE v == [s EXCEPT !.http_major = d]
  <2>1. IsParser(v) /\ v.flags = s.flags
    BY DEF IsParser
  <2>2. Move(To(v, n))
    BY <1>2 DEF To
  <2> HIDE DEF v
  <2> QED
    BY <1>1, <2>1, <2>2
<1>3. CASE Move([s EXCEPT !.status_code = d, !.current = n])
  <2> DEFINE v == [s EXCEPT !.status_code = d]
  <2>1. IsParser(v) /\ v.flags = s.flags
    BY DEF IsParser
  <2>2. Move(To(v, n))
    BY <1>3 DEF To
  <2> HIDE DEF v
  <2> QED
    BY <1>1, <2>1, <2>2
<1>4. CASE EndVersion(d, n)
  <2> DEFINE v == [s EXCEPT !.http_minor = d]
  <2>1. IsParser(v) /\ v.flags = s.flags
    BY DEF IsParser
  <2>2. EndSpan(To(v, n)) \/ EndSpan(Fail(v, "INVALID_VERSION"))
    BY <1>4 DEF EndVersion
  <2> HIDE DEF v
  <2> QED
    BY <1>1, <2>1, <2>2
<1> QED
  BY <1>2, <1>3, <1>4

LEMMA LineEdges ==
  ASSUME IsParser(s), RequestLine \/ StatusLine
  PROVE  s.current \in LineNodes \cup {"start"} /\ LineEdge
<1> USE DEF At, LineNodes
<1>1. CASE Start
  BY <1>1, ToEdge, OpenEdge DEF Start, LineEdge, Spans
<1>2. CASE SpacesBeforeUrl \/ ReqHttpStart \/ StartRes \/ ResStatusStart \/ ResStatus
  BY <1>2, ToEdge, OpenEdge, FailEdge
     DEF SpacesBeforeUrl, ReqHttpStart, StartRes, ResStatusStart, ResStatus,
         Spans, LineEdge, Refused
<1>3. CASE UrlStart \/ UrlSchema \/ UrlServer \/ UrlPath \/ UrlQuery
  BY <1>3, ToEdge, FailEdge
     DEF UrlStart, UrlSchema, UrlServer, UrlPath, UrlQuery, UrlEnd, InvalidUrl,
         LineEdge, Refused
<1>4. CASE AfterStartReq \/ Http09
  BY <1>4, MethodEdge, Http09Edge DEF AfterStartReq, Http09
<1>5. ASSUME InvalidVersion PROVE LineEdge
  BY <1>5, FailEdge DEF InvalidVersion, LineEdge, Refused
<1>6. CASE ReqHttpMajor \/ ResHttpMajor \/ ReqHttpMinor \/ ResHttpMinor
  BY <1>5, <1>6, DigitEdge DEF ReqHttpMajor, ResHttpMajor, ReqHttpMinor, ResHttpMinor
<1>7. CASE ReqHttpComplete
  BY <1>7, ToEdge, FailEdge DEF ReqHttpComplete, LineEdge, Refused
<1>8. CASE ResAfterVersion \/ ResStatusCode
  <2>1. ASSUME NEW e, Move(Fail(s, e)), e # "PAUSED_UPGRADE" PROVE LineEdge
    BY <2>1, FailEdge DEF LineEdge, Refused
  <2> QED
    BY <1>8, <2>1, DigitEdge DEF ResAfterVersion, ResStatusCode, ResStatusDigit
<1> QED
  BY <1>1, <1>2, <1>3, <1>4, <1>6, <1>7, <1>8 DEF RequestLine, StatusLine

HeaderEdge ==
  /\ "TRAILING" \in s'.flags <=> "TRAILING" \in s.flags
  /\ s'.current \in HeaderNodes \/ Refused

LEMMA ToHeader ==
  ASSUME NEW v, IsParser(v), "TRAILING" \in v.flags <=> "TRAILING" \in s.flags,
         NEW n \in HeaderNodes,
         Move(To(v, n)) \/ EndSpan(To(v, n)) \/ Quietly(To(v, n)) \/ Call(To(v, n))
  PROVE  HeaderEdge
BY ToEdge DEF HeaderEdge

LEMMA FailHeader ==
  ASSUME NEW v, IsParser(v), "TRAILING" \in v.flags <=> "TRAILING" \in s.flags,
         NEW e, e # "PAUSED_UPGRADE",
         Move(Fail(v, e)) \/ EndSpan(Fail(v, e)) \/ Call(Fail(v, e))
  PROVE  HeaderEdge
BY FailEdge DEF HeaderEdge, Refused

\* What begins a value leads to.
Dispatched(u, t) ==
  /\ IsParser(u)
  /\ "TRAILING" \in u.flags <=> "TRAILING" \in t.flags
  /\ \/ u.current \in HeaderNodes
     \/ u.current = "error" /\ u.error # "PAUSED_UPGRADE"

LEMMA DispatchTo ==
  ASSUME NEW t, NEW v, IsParser(v), "TRAILING" \in v.flags <=> "TRAILING" \in t.flags,
         NEW n \in HeaderNodes
  PROVE  Dispatched(To(v, n), t)
BY ToIs DEF Dispatched, Same

LEMMA DispatchFail ==
  ASSUME NEW t, IsParser(t), NEW e, e # "PAUSED_UPGRADE"
  PROVE  Dispatched(Fail(t, e), t)
BY FailIs DEF Dispatched, Same

LEMMA CodingsDispatched ==
  ASSUME NEW t, IsParser(t) PROVE Dispatched(BeginCodings(t), t)
<1> DEFINE w == OrFlags(t, {"TRANSFER_ENCODING"})  x == [w EXCEPT !.flags = @ \ {"CHUNKED"}]
<1>1. BeginCodings(t) \in {Fail(t, "INVALID_TRANSFER_ENCODING"),
                           To(x, "header_value_te_chunked")}
  BY DEF BeginCodings, To
<1>2. IsParser(w) /\ w.flags = t.flags \cup {"TRANSFER_ENCODING"}
  BY OrIs DEF Flag
<1> HIDE DEF w
<1>3. IsParser(x) /\ x.flags = w.flags \ {"CHUNKED"}
  BY <1>2 DEF IsParser
<1> HIDE DEF x
<1>4. Dispatched(To(x, "header_value_te_chunked"), t)
  BY <1>2, <1>3, DispatchTo DEF HeaderNodes
<1> QED
  BY <1>1, <1>4, DispatchFail

LEMMA ValueDispatched ==
  ASSUME NEW t, IsParser(t) PROVE Dispatched(DispatchValue(t), t)
<1> DEFINE w == OrFlags(t, {"UPGRADE"})  x == StoreHeaderState(w, "general")
<1>1. IsParser(w) /\ w.flags = t.flags \cup {"UPGRADE"}
  BY OrIs DEF Flag
<1>2. DispatchValue(t) \in {Fail(t, "UNEXPECTED_CONTENT_LENGTH"), BeginCodings(t),
        To(x, "header_value"), To(t, "header_value_connection"),
        To(t, "header_value_content_length"), To(t, "header_value")}
  BY DEF DispatchValue
<1> HIDE DEF w
<1>3. IsParser(x) /\ x.flags = w.flags
  BY <1>1, StoreIs DEF HeaderState
<1> HIDE DEF x
<1>4. Dispatched(To(x, "header_value"), t)
  BY <1>1, <1>3, DispatchTo DEF HeaderNodes
<1>5. ASSUME NEW n \in HeaderNodes PROVE Dispatched(To(t, n), t)
  BY DispatchTo
<1>6. {"header_value_connection", "header_value_content_length", "header_value"}
        \subseteq HeaderNodes
  BY DEF HeaderNodes
<1> QED
  BY <1>2, <1>4, <1>5, <1>6, DispatchFail, CodingsDispatched

LEMMA BeginValueEdge ==
  ASSUME NEW t, IsParser(t), t.flags = s.flags, NEW r, BeginValue(t, r)
  PROVE  HeaderEdge
<1> DEFINE v == [t EXCEPT !.span = "on_header_value"]  u == DispatchValue(v)
<1>1. IsParser(v) /\ v.flags = s.flags
  BY DEF IsParser, Spans
<1>2. s' = u \/ s' = [u EXCEPT !.span = "none"]
  BY DEF BeginValue
<1> HIDE DEF v
<1>3. Dispatched(u, v)
  BY <1>1, ValueDispatched
<1> HIDE DEF u
<1> QED
  BY <1>1, <1>2, <1>3, SpanEdge DEF Dispatched, HeaderEdge, Refused

LEMMA OtherwiseEdge ==
  ASSUME NEW t, IsParser(t), "TRAILING" \in t.flags <=> "TRAILING" \in s.flags,
         NEW r, ValueOtherwise(t, r)
  PROVE  HeaderEdge
BY ToHeader, FailHeader DEF ValueOtherwise, HeaderNodes

LEMMA StoreEdge ==
  ASSUME IsParser(s), NEW h \in HeaderState
  PROVE  /\ IsParser(StoreHeaderState(s, h))
         /\ "TRAILING" \in StoreHeaderState(s, h).flags <=> "TRAILING" \in s.flags
BY StoreIs

LEMMA SaveEdge ==
  ASSUME IsParser(s)
  PROVE  /\ IsParser(SaveHeaderState(s))
         /\ "TRAILING" \in SaveHeaderState(s).flags <=> "TRAILING" \in s.flags
BY SaveIs

LEMMA FieldEdges ==
  ASSUME IsParser(s),
         HeadersStart \/ HeaderFieldStart \/ HeaderFieldColon \/ HeaderFieldGeneral
  PROVE  HeaderEdge
<1>1. CASE HeadersStart \/ HeaderFieldGeneral
  BY <1>1, ToHeader, FailHeader DEF HeadersStart, HeaderFieldGeneral, FieldEnd, HeaderNodes
<1>2. CASE HeaderFieldStart
  <2>1. ASSUME NEW h \in HeaderState, NEW n \in HeaderNodes,
               Quietly(Open(StoreHeaderState(s, h), n, "on_header_field"))
        PROVE  HeaderEdge
    BY <2>1, StoreEdge, OpenEdge DEF HeaderEdge, Spans
  <2>2. CASE Move(To(s, "headers_almost_done"))
    BY <2>2, ToHeader DEF HeaderNodes
  <2> QED
    BY <1>2, <2>1, <2>2 DEF HeaderFieldStart, SpecialHeader, HeaderState, HeaderNodes
<1>3. CASE HeaderFieldColon
  <2>1. CASE FieldEnd \/ EndSpan(Fail(s, "INVALID_HEADER_TOKEN"))
    BY <2>1, ToHeader, FailHeader DEF FieldEnd, HeaderNodes
  <2>2. CASE Move(To(StoreHeaderState(s, "general"), "header_field_general"))
    BY <2>2, StoreEdge, ToHeader DEF HeaderNodes, HeaderState
  <2> QED
    BY <1>3, <2>1, <2>2 DEF HeaderFieldColon
<1> QED
  BY <1>1, <1>2, <1>3

LEMMA ValueEdges ==
  ASSUME IsParser(s),
         \/ HeaderValueDiscardWs \/ HeaderValueDiscardLws \/ HeaderValue
         \/ HeaderValueAlmostDone \/ HeaderValueLws
  PROVE  HeaderEdge
<1>1. CASE HeaderValueDiscardWs
  BY <1>1, BeginValueEdge, ToHeader, FailHeader DEF HeaderValueDiscardWs, HeaderNodes
<1>2. CASE HeaderValueDiscardLws
  <2> DEFINE v == SaveHeaderState(s)
  <2>1. CASE s' = To(v, "header_field_start")
    <3> HIDE DEF v
    <3>1. IsParser(v) /\ ("TRAILING" \in v.flags <=> "TRAILING" \in s.flags)
      BY SaveEdge DEF v
    <3> QED
      BY <2>1, <3>1, ToIs DEF HeaderEdge, HeaderNodes, Same
  <2> HIDE DEF v
  <2> QED
    BY <1>2, <2>1, ToHeader, FailHeader
       DEF HeaderValueDiscardLws, EmptyValue, HeaderNodes, v
<1>3. CASE HeaderValue \/ HeaderValueAlmostDone
  BY <1>3, OtherwiseEdge, ToHeader, FailHeader
     DEF HeaderValue, HeaderValueAlmostDone, HeaderNodes
<1>4. CASE HeaderValueLws
  <2> DEFINE t == IF s.header_state = "te_chunked"
                  THEN StoreHeaderState(s, "general") ELSE s
             r == [read EXCEPT !.folds = @ + 1,
                               !.coding = IF s.header_state = "te_chunked"
                                          THEN "other" ELSE @]
  <2>1. CASE BeginValue(t, r)
    <3>1. IsParser(t) /\ t.flags = s.flags
      BY StoreIs DEF HeaderState
    <3> HIDE DEF t, r
    <3> QED
      BY <2>1, <3>1, BeginValueEdge
  <2>2. CASE Move(To(SaveHeaderState(s), "header_field_start"))
    BY <2>2, SaveEdge, ToHeader DEF HeaderNodes
  <2> QED
    BY <1>4, <2>1, <2>2 DEF HeaderValueLws
<1> QED
  BY <1>1, <1>2, <1>3, <1>4

LEMMA TokenEdges ==
  ASSUME IsParser(s),
         HeaderValueConnection \/ HeaderValueConnectionToken \/ HeaderValueConnectionWs
  PROVE  HeaderEdge
<1>1. CASE HeaderValueConnection
  <2>1. ASSUME NEW h \in HeaderState,
               Move(To(StoreHeaderState(s, h), "header_value_connection_ws"))
        PROVE  HeaderEdge
    BY <2>1, StoreEdge, ToHeader DEF HeaderNodes
  <2> QED
    BY <1>1, <2>1, ToHeader DEF HeaderValueConnection, HeaderNodes, HeaderState
<1>2. CASE HeaderValueConnectionToken
  BY <1>2, OtherwiseEdge, ToHeader DEF HeaderValueConnectionToken, HeaderNodes
<1>3. CASE HeaderValueConnectionWs
  <2>1. CASE NextToken
    BY <2>1, SaveEdge, ToHeader DEF NextToken, HeaderNodes
  <2>2. CASE ValueOtherwise(s, ReadClose)
    BY <2>2, OtherwiseEdge
  <2>3. CASE Move(To(StoreHeaderState(s, "general"), "header_value_connection_token"))
    BY <2>3, StoreEdge, ToHeader DEF HeaderNodes, HeaderState
  <2> QED
    BY <1>3, <2>1, <2>2, <2>3 DEF HeaderValueConnectionWs
<1> QED
  BY <1>1, <1>2, <1>3

LEMMA LengthEdges == ASSUME ParserInv, HeaderValueContentLength PROVE HeaderEdge
<1>1. IsParser(s)
  BY DEF ParserInv, Fits
<1>2. ASSUME NEW d \in Digit, LengthDigit(d) PROVE HeaderEdge
  <2>1. CASE Overflows(Radix, d)
    BY <1>1, <1>2, <2>1, FailHeader DEF LengthDigit
  <2>2. CASE ~Overflows(Radix, d)
    BY <1>2, <2>2, MulAddIs, ParserAssumption, ToHeader DEF LengthDigit, HeaderNodes
  <2> QED
    BY <2>1, <2>2
<1>3. CASE LengthEnd
  <2>1. IsParser(OrFlags(s, {"CONTENT_LENGTH"}))
        /\ OrFlags(s, {"CONTENT_LENGTH"}).flags = s.flags \cup {"CONTENT_LENGTH"}
    BY <1>1, OrIs DEF Flag
  <2> QED
    BY <1>3, <2>1, OtherwiseEdge DEF LengthEnd
<1> QED
  BY <1>1, <1>2, <1>3, FailHeader DEF HeaderValueContentLength

LEMMA CodingEdges ==
  ASSUME IsParser(s),
         HeaderValueTeChunked \/ HeaderValueTeChunkedLast \/ HeaderValueTeToken
  PROVE  HeaderEdge
<1>1. CASE HeaderValueTeChunked
  BY <1>1, ToHeader DEF HeaderValueTeChunked, HeaderNodes
<1>2. CASE HeaderValueTeChunkedLast
  <2>1. CASE ChunkedEnd
    BY <2>1, StoreEdge, OtherwiseEdge DEF ChunkedEnd, HeaderState
  <2>2. CASE ChunkedNotLast
    BY <2>2, ToHeader, FailHeader DEF ChunkedNotLast, HeaderNodes
  <2>3. CASE Move(To(s, "header_value_te_token"))
    BY <2>3, ToHeader DEF HeaderNodes
  <2> QED
    BY <1>2, <2>1, <2>2, <2>3 DEF HeaderValueTeChunkedLast
<1>3. CASE HeaderValueTeToken
  <2>1. CASE Move(To(StoreHeaderState(s, "general"), "header_value"))
    BY <2>1, StoreEdge, ToHeader DEF HeaderNodes, HeaderState
  <2> QED
    BY <1>3, <2>1, ToHeader DEF HeaderValueTeToken, HeaderNodes
<1> QED
  BY <1>1, <1>2, <1>3

LEMMA HeaderEdges ==
  ASSUME ParserInv, HeaderLine PROVE s.current \in HeaderNodes /\ HeaderEdge
<1>1. IsParser(s)
  BY DEF ParserInv, Fits
<1>2. s.current \in HeaderNodes
  BY DEF HeaderLine, HeadersStart, HeaderFieldStart, HeaderFieldColon, HeaderFieldGeneral,
     HeaderValueDiscardWs, HeaderValueDiscardLws, HeaderValue, HeaderValueAlmostDone,
     HeaderValueLws, HeaderValueConnection, HeaderValueConnectionToken,
     HeaderValueConnectionWs, HeaderValueContentLength, HeaderValueTeChunked,
     HeaderValueTeChunkedLast, HeaderValueTeToken, At, HeaderNodes
<1> QED
  BY <1>1, <1>2, FieldEdges, ValueEdges, TokenEdges, LengthEdges, CodingEdges DEF HeaderLine

Bodies == {"chunk_size_digit", "span_start_llhttp__on_body_1",
           "span_start_llhttp__on_body_2"}

LEMMA HeadersEdge ==
  ASSUME IsParser(s)
  PROVE  LET t == HeadersComplete(s) IN
         /\ IsParser(t)
         /\ \/ Completed(t) \/ t.current \in Bodies
            \/ t.current = "error" /\ t.error = "INVALID_TRANSFER_ENCODING"
<1> DEFINE u == BeforeHeadersComplete(s)  v == [u EXCEPT !.content_length = 0]
<1>1. AfterHeadersComplete(u) \in {"upgrade", "chunked", "length", "eof", "invalid", "none"}
  BY DEF AfterHeadersComplete
<1>2. HeadersComplete(s) \in
        {Fail(u, "PAUSED_UPGRADE"), To(v, "chunk_size_digit"),
         To(u, "span_start_llhttp__on_body_1"), To(u, "span_start_llhttp__on_body_2"),
         Fail(u, "INVALID_TRANSFER_ENCODING"), AfterMessageComplete(u)}
  BY <1>1 DEF HeadersComplete, To
<1>3. IsParser(u)
  BY UpgradeIs
<1> HIDE DEF u
<1>4. IsParser(v)
  BY <1>3, LeftIs, ParserAssumption
<1> HIDE DEF v
<1> QED
  BY <1>2, <1>3, <1>4, ToIs, FailIs, AfterMessageEdge DEF Completed, Bodies

LEMMA AlmostDoneEdge ==
  ASSUME IsParser(s), HeadersAlmostDone
  PROVE  /\ s.current = "headers_almost_done"
         /\ \/ Completed(s') \/ Refused
            \/ "TRAILING" \notin s.flags /\ s'.current \in Bodies
<1>1. CASE "TRAILING" \in s.flags
  BY <1>1, MessageEdge DEF HeadersAlmostDone, Move, Quietly, At
<1>2. CASE "TRAILING" \notin s.flags /\ s' = HeadersComplete(s)
  BY <1>2, HeadersEdge DEF HeadersAlmostDone, At, Refused
<1>3. CASE s' = Fail(s, "UNEXPECTED_CONTENT_LENGTH")
  BY <1>3, FailIs DEF HeadersAlmostDone, At, Refused
<1> QED
  BY <1>1, <1>2, <1>3 DEF HeadersAlmostDone, Move, Quietly

LEMMA ConsumeEdge ==
  ASSUME IsParser(s), NEW t, IsParser(t), Consume(t)
  PROVE  \/ s'.current = "returned"
         \/ s'.current = t.current /\ s'.error = t.error
<1>1. CASE s' = [t EXCEPT !.content_length = 0]
  BY <1>1 DEF IsParser
<1>2. ASSUME NEW n \in 1 .. s.content_length - 1,
             s' = [s EXCEPT !.content_length = @ - n, !.current = "returned"]
      PROVE  s'.current = "returned"
  <2> DEFINE m == s.content_length - n  v == [s EXCEPT !.content_length = m]
  <2>1. m \in 0 .. MaxLength
    BY <1>2, ParserAssumption DEF IsParser
  <2>2. s' = To(v, "returned")
    BY <1>2 DEF To
  <2> HIDE DEF m
  <2>3. IsParser(v)
    BY <2>1, LeftIs
  <2> HIDE DEF v
  <2> QED
    BY <2>2, <2>3, ToIs
<1> QED
  BY <1>1, <1>2 DEF Consume

LEMMA BodyEdge ==
  ASSUME IsParser(s), BodyOfLength
  PROVE  /\ s.current = "span_start_llhttp__on_body_1"
         /\ s'.current = "returned" \/ Completed(s')
<1> DEFINE v == [s EXCEPT !.content_length = 0]
<1>1. IsParser(v)
  BY LeftIs, ParserAssumption
<1>2. Consume(MessageComplete(v)) /\ s.current = "span_start_llhttp__on_body_1"
  BY DEF BodyOfLength, At
<1> HIDE DEF v
<1> QED
  BY <1>1, <1>2, MessageEdge, ConsumeEdge DEF Completed

ChunkEdge ==
  \/ s'.current \in ChunkNodes \cup {"returned"}
  \/ Refused
  \/ s'.current = "header_field_start" /\ "TRAILING" \in s'.flags

LEMMA ToChunk ==
  ASSUME NEW v, IsParser(v), NEW n \in ChunkNodes,
         Move(To(v, n)) \/ EndSpan(To(v, n)) \/ Quietly(To(v, n))
  PROVE  ChunkEdge
BY ToEdge DEF ChunkEdge

LEMMA FailChunk ==
  ASSUME IsParser(s), NEW e, e # "PAUSED_UPGRADE",
         Move(Fail(s, e)) \/ EndSpan(Fail(s, e))
  PROVE  ChunkEdge
BY FailEdge DEF ChunkEdge, Refused

LEMMA SizeEdge == ASSUME ParserInv, ChunkSizeDigit \/ ChunkSize PROVE ChunkEdge
<1>1. IsParser(s)
  BY DEF ParserInv, Fits
<1>2. ASSUME NEW d \in HexDigit, ChunkDigit(d) PROVE ChunkEdge
  <2>1. CASE Overflows(HexRadix, d)
    BY <1>1, <1>2, <2>1, FailChunk DEF ChunkDigit
  <2>2. CASE ~Overflows(HexRadix, d)
    BY <1>2, <2>2, MulAddIs, ParserAssumption, ToChunk DEF ChunkDigit, ChunkNodes
  <2> QED
    BY <2>1, <2>2
<1> QED
  BY <1>1, <1>2, ToChunk, FailChunk DEF ChunkSizeDigit, ChunkSize, ChunkNodes

LEMMA ExtensionEdge ==
  ASSUME IsParser(s),
         \/ ChunkExtensions \/ ChunkExtensionName \/ ChunkExtensionValue
         \/ ChunkExtensionQuotedValue \/ ChunkExtensionQuotedValueDone
  PROVE  ChunkEdge
<1>1. CASE ChunkExtensions
  BY <1>1, OpenEdge, FailChunk DEF ChunkExtensions, ChunkEdge, ChunkNodes, Spans
<1>2. CASE ChunkExtensionName
  <2>1. CASE s' = Open(s, "chunk_extension_value", "on_chunk_extension_value")
    BY <2>1, OpenIs DEF ChunkEdge, ChunkNodes, Spans
  <2> QED
    BY <1>2, <2>1, ToChunk, FailChunk DEF ChunkExtensionName, ExtensionNameEnd, ChunkNodes
<1>3. CASE ChunkExtensionValue \/ ChunkExtensionQuotedValue \/ ChunkExtensionQuotedValueDone
  BY <1>3, ToChunk, FailChunk
     DEF ChunkExtensionValue, ChunkExtensionQuotedValue, ChunkExtensionQuotedValueDone,
         ExtensionValueEnd, ChunkNodes
<1> QED
  BY <1>1, <1>2, <1>3

LEMMA DataEdge ==
  ASSUME IsParser(s), ChunkSizeAlmostDone \/ ChunkBody \/ ChunkDataAlmostDone
  PROVE  ChunkEdge
<1>1. CASE ChunkSizeAlmostDone
  <2>1. /\ IsParser(OrFlags(s, {"TRAILING"}))
        /\ OrFlags(s, {"TRAILING"}).flags = s.flags \cup {"TRAILING"}
    BY OrIs DEF Flag
  <2>2. CASE Move(To(OrFlags(s, {"TRAILING"}), "header_field_start"))
    BY <2>1, <2>2, ToEdge DEF ChunkEdge
  <2>3. CASE Move(To(s, "span_start_llhttp__on_body"))
    BY <2>3, ToChunk DEF ChunkNodes
  <2> QED
    BY <1>1, <2>2, <2>3 DEF ChunkSizeAlmostDone
<1>2. CASE ChunkBody
  <2>1. IsParser(To(s, "chunk_data_almost_done"))
        /\ To(s, "chunk_data_almost_done").current = "chunk_data_almost_done"
    BY ToIs
  <2> QED
    BY <1>2, <2>1, ConsumeEdge DEF ChunkBody, ChunkEdge, ChunkNodes
<1>3. CASE ChunkDataAlmostDone
  <2> DEFINE v == [s EXCEPT !.content_length = 0]
  <2>1. IsParser(v)
    BY LeftIs, ParserAssumption
  <2>2. Quietly(To(v, "chunk_size_digit"))
    BY <1>3 DEF ChunkDataAlmostDone, To
  <2> HIDE DEF v
  <2> QED
    BY <2>1, <2>2, ToChunk DEF ChunkNodes
<1> QED
  BY <1>1, <1>2, <1>3

Chunk ==
  \/ ChunkSizeDigit \/ ChunkSize \/ ChunkExtensions \/ ChunkExtensionName
  \/ ChunkExtensionValue \/ ChunkExtensionQuotedValue
  \/ ChunkExtensionQuotedValueDone \/ ChunkSizeAlmostDone
  \/ ChunkBody \/ ChunkDataAlmostDone

LEMMA ChunkEdges ==
  ASSUME ParserInv, Chunk PROVE s.current \in ChunkNodes /\ ChunkEdge
<1>1. IsParser(s)
  BY DEF ParserInv, Fits
<1>2. s.current \in ChunkNodes
  BY DEF Chunk, ChunkSizeDigit, ChunkSize, ChunkExtensions, ChunkExtensionName,
     ChunkExtensionValue, ChunkExtensionQuotedValue, ChunkExtensionQuotedValueDone,
     ChunkSizeAlmostDone, ChunkBody, ChunkDataAlmostDone, At, ChunkNodes
<1> QED
  BY <1>1, <1>2, SizeEdge, ExtensionEdge, DataEdge DEF Chunk

-----------------------------------------------------------------------------
(* The steps of HttpMessage.                                                *)
PhasesAre ==
  /\ s.current \in LineNodes \cup {"start"} => Phase = "line" /\ Framing = "none"
  /\ s.current \in HeaderNodes =>
       IF "TRAILING" \in s.flags THEN Phase = "trailer" /\ Framing = "chunked"
       ELSE Phase = "header" /\ Framing = "none"
  /\ s.current \in ChunkNodes => Phase = "body" /\ Framing = "chunked"
  /\ At("span_start_llhttp__on_body_1") => Phase = "body" /\ Framing = "length"
  /\ At("span_start_llhttp__on_body_2") => Phase = "body" /\ Framing = "eof"
  /\ At("closed") => Phase = "closed" /\ Framing = "none"
  /\ At("returned") => Phase = "ended" /\ Framing = "none"
  /\ At("error") =>
       /\ Phase = IF s.error = "PAUSED_UPGRADE" THEN "switched" ELSE "refused"
       /\ Framing = "none"
  /\ Phase \in {"switched", "refused", "ended"} => At("error") \/ At("returned")

LEMMA Phases == PhasesAre
BY DEF PhasesAre, Phase, Framing, At, LineNodes, HeaderNodes, ChunkNodes

LEMMA PhasesNext == PhasesAre'
BY Phases, PTL

Mapped == [Message!Next]_<<Phase, Framing>>

LEMMA EndedMapped ==
  ASSUME s.current \notin {"error", "returned"}, s'.current = "returned"
  PROVE  Mapped
BY Phases, PhasesNext DEF PhasesAre, At, Mapped, Message!Next, Message!Stop

LEMMA RefusedMapped ==
  ASSUME Refused, s.current \in LineNodes \cup {"start"} \cup HeaderNodes \cup ChunkNodes
  PROVE  Mapped
BY Phases, PhasesNext DEF PhasesAre, At, Refused, Mapped, Message!Next, Message!Stop

LEMMA CompletedMapped ==
  ASSUME s.current \in HeaderNodes \/ At("span_start_llhttp__on_body_1"), Completed(s')
  PROVE  Mapped
BY Phases, PhasesNext
   DEF PhasesAre, At, Completed, Mapped, Message!Next, Message!Complete

LEMMA LineMapped == ASSUME ParserInv, RequestLine \/ StatusLine PROVE Mapped
<1>1. IsParser(s) /\ s.current \in LineNodes \cup {"start"} /\ LineEdge
  BY LineEdges DEF ParserInv, Fits
<1>2. s.flags = {}
  BY <1>1 DEF ParserInv, Fits, AtStart, InLine
<1>3. CASE s'.current \in LineNodes
  BY <1>1, <1>3, Phases, PhasesNext DEF PhasesAre, Mapped
<1>4. CASE s'.current = "headers_start"
  <2>1. s'.current \in HeaderNodes /\ "TRAILING" \notin s'.flags
    BY <1>1, <1>2, <1>4 DEF LineEdge, HeaderNodes
  <2> QED
    BY <1>1, <2>1, Phases, PhasesNext DEF PhasesAre, Mapped, Message!Next, Message!Header
<1> QED
  BY <1>1, <1>3, <1>4, RefusedMapped DEF LineEdge

LEMMA HeaderMapped == ASSUME ParserInv, HeaderLine PROVE Mapped
<1>1. s.current \in HeaderNodes /\ HeaderEdge
  BY HeaderEdges
<1>2. CASE s'.current \in HeaderNodes
  BY <1>1, <1>2, Phases, PhasesNext DEF PhasesAre, HeaderEdge, Mapped
<1> QED
  BY <1>1, <1>2, RefusedMapped DEF HeaderEdge

LEMMA ChunkMapped == ASSUME ParserInv, Chunk PROVE Mapped
<1>1. s.current \in ChunkNodes /\ ChunkEdge
  BY ChunkEdges
<1>2. CASE s'.current \in ChunkNodes
  BY <1>1, <1>2, Phases, PhasesNext DEF PhasesAre, Mapped
<1>3. CASE s'.current = "header_field_start" /\ "TRAILING" \in s'.flags
  <2>1. s'.current \in HeaderNodes
    BY <1>3 DEF HeaderNodes
  <2> QED
    BY <1>1, <1>3, <2>1, Phases, PhasesNext
       DEF PhasesAre, Mapped, Message!Next, Message!LastChunk
<1>4. s.current \notin {"error", "returned"}
  BY <1>1 DEF ChunkNodes
<1> QED
  BY <1>1, <1>2, <1>3, <1>4, RefusedMapped, EndedMapped DEF ChunkEdge

LEMMA BodyMapped ==
  ASSUME ParserInv, HeadersAlmostDone \/ BodyOfLength \/ BodyToEof PROVE Mapped
<1>1. IsParser(s)
  BY DEF ParserInv, Fits
<1>2. CASE HeadersAlmostDone
  <2>1. s.current \in HeaderNodes
    BY <1>1, <1>2, AlmostDoneEdge DEF HeaderNodes
  <2>2. CASE "TRAILING" \notin s.flags /\ s'.current \in Bodies
    BY <2>1, <2>2, Phases, PhasesNext
       DEF PhasesAre, At, Bodies, ChunkNodes, Mapped, Message!Next, Message!Decide
  <2> QED
    BY <1>1, <1>2, <2>1, <2>2, AlmostDoneEdge, CompletedMapped, RefusedMapped
<1>3. CASE BodyOfLength
  BY <1>1, <1>3, BodyEdge, CompletedMapped, EndedMapped DEF At
<1>4. CASE BodyToEof
  BY <1>1, <1>4, ToIs, EndedMapped DEF BodyToEof, At
<1> QED
  BY <1>2, <1>3, <1>4

LEMMA EndMapped == ASSUME ParserInv, EndOfBuffer PROVE Mapped
<1>1. s'.current = "returned"
  BY ToEdge DEF ParserInv, Fits, EndOfBuffer
<1> QED
  BY <1>1, EndedMapped DEF EndOfBuffer

(* First line, header, body and trailer follow each other as HttpMessage    *)
(* says, for any input of any length and wherever it ends.                  *)
THEOREM MessagesImplemented == Spec => ImplementsMessage
<1>1. Init => Message!Init
  <2>1. Init => s.current = "start"
    BY DEF Init, ParserInit
  <2> QED
    BY <2>1, Phases DEF PhasesAre, Message!Init
<1>2. ASSUME ParserInv, [Next]_vars PROVE [Message!Next]_<<Phase, Framing>>
  <2>1. CASE UNCHANGED vars
    BY <2>1 DEF vars, Phase, Framing, At
  <2>2. CASE Next
    BY <1>2, <2>2, LineMapped, HeaderMapped, ChunkMapped, BodyMapped, EndMapped
       DEF Next, Input, Body, Chunk, Mapped
  <2> QED
    BY <1>2, <2>1, <2>2
<1> QED
  BY <1>1, <1>2, Always, PTL DEF Spec, ImplementsMessage, Message!Spec

-----------------------------------------------------------------------------
(* Keys and values.  Where a name is collected, where its value is still to *)
(* begin, where a value is collected, and where neither is.                 *)
Stage(n) ==
  IF n \in {"header_field_colon", "header_field_general"} THEN "name"
  ELSE IF n \in {"header_value_discard_ws", "header_value_discard_lws"} THEN "gap"
  ELSE IF n \in {"header_value", "header_value_connection",
                 "header_value_connection_token", "header_value_connection_ws"}
                  \cup DigitNodes \cup CodingNodes THEN "value"
  ELSE IF n \in {"error", "returned"} THEN "over" ELSE "between"

HeaderCalls == {"on_header_field", "on_header_value"}

\* The open span is the one of what is collected.
Spanned(t) ==
  LET stage == Stage(t.current) IN
  /\ stage = "name" => t.span = "on_header_field"
  /\ stage = "value" => t.span = "on_header_value"
  /\ stage \in {"gap", "between"} => t.span \notin HeaderCalls
  /\ stage # "over" => t.error = "OK"

\* A list holds one piece for each header line, in order; after a fold, a
\* value may be of an earlier line than its place, never of a later one.
KeysListed == \A i \in 1 .. Len(keys) : keys[i] = i
ValuesListed ==
  \A i \in 1 .. Len(values) :
    values[i] <= i /\ (read.folds = 0 => values[i] = i)

\* How many pieces of the lines so far are in the lists.
Listed(stage, line, folds, ks, vs) ==
  stage # "over" =>
    /\ Len(ks) = IF stage = "name" THEN line - 1 ELSE line
    /\ Len(vs) >= IF stage = "between" THEN line ELSE line - 1
    /\ folds = 0 => Len(vs) = IF stage = "between" THEN line ELSE line - 1

PairInv ==
  /\ read.line \in Nat /\ read.folds \in Nat
  /\ keys \in Seq(Nat) /\ values \in Seq(Nat)
  /\ KeysListed /\ ValuesListed
  /\ Listed(Stage(s.current), read.line, read.folds, keys, values)
  /\ Spanned(s)

\* What a step does to the lists, by stage.
Kept == read'.line = read.line /\ read'.folds = read.folds
Quiet == event'.call \notin HeaderCalls
From(stage) == Stage(s.current) = stage
Into(stages) == Stage(s'.current) \in stages

Still ==
  /\ Kept /\ Quiet
  /\ ~From("over") /\ Stage(s'.current) \in {Stage(s.current), "over"}
Naming ==
  /\ Quiet /\ read'.line = read.line + 1 /\ read'.folds = read.folds
  /\ From("between") /\ Into({"name"})
Named ==
  /\ Kept /\ event'.call = "on_header_field"
  /\ From("name") /\ Into({"gap", "over"})
Begun == Kept /\ Quiet /\ From("gap") /\ Into({"value"})
Valued ==
  /\ Kept /\ event'.call = "on_header_value"
  /\ From("gap") \/ From("value")
  /\ Into({"between", "over"})
Folded ==
  /\ read'.line = read.line /\ read'.folds = read.folds + 1
  /\ From("between")
  /\ \/ Quiet /\ Into({"value", "over"})
     \/ event'.call = "on_header_value" /\ Into({"over"})

PairStep ==
  /\ Spanned(s')
  /\ Still \/ Naming \/ Named \/ Begun \/ Valued \/ Folded

-----------------------------------------------------------------------------
\* Both lists after a step that makes at most one of the two calls.
LEMMA PiecesListed ==
  ASSUME NEW seq \in Seq(Nat), NEW line \in Nat
  PROVE  /\ Append(seq, line) \in Seq(Nat)
         /\ Len(Append(seq, line)) = Len(seq) + 1
         /\ Append(seq, line)[Len(seq) + 1] = line
         /\ \A i \in 1 .. Len(seq) : Append(seq, line)[i] = seq[i]
OBVIOUS

LEMMA StageIs ==
  ASSUME NEW n
  PROVE  Stage(n) \in {"name", "gap", "value", "over", "between"}
BY DEF Stage

LEMMA PairKept ==
  ASSUME PairInv, Kept, Quiet, Callbacks, Spanned(s'),
         Listed(Stage(s'.current), read.line, read.folds, keys, values)
  PROVE  PairInv'
<1>1. keys' = keys /\ values' = values
  BY DEF Quiet, HeaderCalls, Callbacks, Collect
<1> QED
  BY <1>1 DEF Kept, PairInv, KeysListed, ValuesListed, Listed

LEMMA PairKeyed ==
  ASSUME PairInv, Named, Callbacks, Spanned(s')
  PROVE  PairInv'
<1> DEFINE line == read.line  folds == read.folds  ks == Append(keys, line)
<1>1. keys' = ks /\ values' = values
  BY DEF Named, Kept, Callbacks, Collect
<1>2. /\ line \in Nat /\ folds \in Nat /\ keys \in Seq(Nat) /\ values \in Seq(Nat)
      /\ Len(keys) = line - 1 /\ Len(values) >= line - 1
      /\ folds = 0 => Len(values) = line - 1
      /\ KeysListed /\ ValuesListed
  BY DEF PairInv, Listed, Named, From
<1>3. read'.line = line /\ read'.folds = folds /\ Stage(s'.current) \in {"gap", "over"}
  BY DEF Named, Kept, Into
<1> HIDE DEF line, folds
<1>4. /\ ks \in Seq(Nat) /\ Len(ks) = Len(keys) + 1
      /\ ks[Len(keys) + 1] = line
      /\ \A i \in 1 .. Len(keys) : ks[i] = keys[i]
  BY <1>2, PiecesListed
<1> HIDE DEF ks
<1>5. \A i \in 1 .. Len(ks) : ks[i] = i
  <2> SUFFICES ASSUME NEW i \in 1 .. Len(ks) PROVE ks[i] = i
    OBVIOUS
  <2>1. CASE i \in 1 .. Len(keys)
    BY <1>2, <1>4, <2>1 DEF KeysListed
  <2>2. CASE i = Len(keys) + 1
    BY <1>2, <1>4, <2>2
  <2> QED
    BY <1>2, <1>4, <2>1, <2>2
<1>6. KeysListed'
  BY <1>1, <1>5 DEF KeysListed
<1>7. ValuesListed'
  BY <1>1, <1>2, <1>3 DEF ValuesListed, folds
<1>8. Len(ks) = line
  BY <1>2, <1>4
<1>9. Listed(Stage(s'.current), read'.line, read'.folds, keys', values')
  BY <1>1, <1>2, <1>3, <1>8 DEF Listed
<1> QED
  BY <1>1, <1>2, <1>3, <1>4, <1>6, <1>7, <1>9 DEF PairInv

\* A value is appended where a value is missing, or one more than the lines.
LEMMA PairValued ==
  ASSUME PairInv, Valued \/ Folded, event'.call = "on_header_value",
         Callbacks, Spanned(s')
  PROVE  PairInv'
<1> DEFINE line == read.line  folds == read.folds  more == read'.folds
           vs == Append(values, line)
<1>1. keys' = keys /\ values' = vs
  BY DEF Valued, Folded, Kept, Callbacks, Collect
<1>2. /\ line \in Nat /\ folds \in Nat /\ keys \in Seq(Nat) /\ values \in Seq(Nat)
      /\ KeysListed /\ ValuesListed
      /\ Len(values) >= line - 1
  BY DEF PairInv, Listed, Valued, Folded, From
<1>3. /\ read'.line = line /\ more \in Nat
      /\ more = 0 => folds = 0 /\ Len(values) = line - 1
  BY <1>2 DEF PairInv, Listed, Valued, Folded, From, Kept
<1>4. \/ Stage(s'.current) = "over"
      \/ Stage(s'.current) = "between" /\ Len(keys) = line
  BY DEF Valued, Folded, Into, From, PairInv, Listed, Quiet, HeaderCalls
<1> HIDE DEF line
<1>5. /\ vs \in Seq(Nat) /\ Len(vs) = Len(values) + 1
      /\ vs[Len(values) + 1] = line
      /\ \A i \in 1 .. Len(values) : vs[i] = values[i]
  BY <1>2, PiecesListed
<1> HIDE DEF vs, folds, more
<1>6. \A i \in 1 .. Len(values) : values[i] <= i /\ (more = 0 => values[i] = i)
  BY <1>2, <1>3 DEF ValuesListed, folds
<1>7. line <= Len(values) + 1 /\ (more = 0 => line = Len(values) + 1)
  BY <1>2, <1>3
<1>8. \A i \in 1 .. Len(vs) : vs[i] <= i /\ (more = 0 => vs[i] = i)
  <2> SUFFICES ASSUME NEW i \in 1 .. Len(vs)
               PROVE  vs[i] <= i /\ (more = 0 => vs[i] = i)
    OBVIOUS
  <2>1. CASE i \in 1 .. Len(values)
    BY <1>5, <1>6, <2>1
  <2>2. CASE i = Len(values) + 1
    BY <1>5, <1>7, <2>2
  <2> QED
    BY <1>2, <1>5, <2>1, <2>2
<1>9. ValuesListed'
  BY <1>1, <1>8 DEF ValuesListed, more
<1>10. KeysListed'
  BY <1>1, <1>2 DEF KeysListed
<1>11. Len(vs) >= line /\ (more = 0 => Len(vs) = line)
  BY <1>2, <1>5, <1>7
<1>12. Listed(Stage(s'.current), line, more, keys, vs)
  BY <1>4, <1>11 DEF Listed
<1> QED
  BY <1>1, <1>2, <1>3, <1>5, <1>9, <1>10, <1>12 DEF PairInv, more

LEMMA PairNext ==
  ASSUME PairInv, PairStep, Callbacks PROVE PairInv'
<1>1. read.line \in Nat /\ read.folds \in Nat /\ Spanned(s')
  BY DEF PairInv, PairStep
<1>2. Len(keys) \in Nat /\ Len(values) \in Nat
  BY DEF PairInv
<1>3. CASE Still \/ Begun
  <2>1. Listed(Stage(s'.current), read.line, read.folds, keys, values)
    BY <1>3 DEF PairInv, Listed, Still, Begun, From, Into
  <2> QED
    BY <1>1, <1>3, <2>1, PairKept DEF Still, Begun
<1>4. CASE Naming
  <2>1. keys' = keys /\ values' = values
    BY <1>4 DEF Naming, Quiet, HeaderCalls, Callbacks, Collect
  <2>2. Listed("name", read.line + 1, read.folds, keys, values)
    BY <1>1, <1>2, <1>4 DEF PairInv, Listed, Naming, From
  <2> QED
    BY <1>1, <1>4, <2>1, <2>2 DEF PairInv, Naming, Into, KeysListed, ValuesListed
<1>5. CASE Named
  BY <1>1, <1>5, PairKeyed
<1>6. CASE Valued \/ (Folded /\ event'.call = "on_header_value")
  BY <1>1, <1>6, PairValued DEF Valued
<1>7. CASE Folded /\ Quiet
  <2>1. keys' = keys /\ values' = values
    BY <1>7 DEF Quiet, HeaderCalls, Callbacks, Collect
  <2>2. read'.folds > 0 /\ read'.folds \in Nat /\ read'.line = read.line
    BY <1>1, <1>7 DEF Folded
  <2>3. Listed(Stage(s'.current), read.line, read'.folds, keys, values)
    BY <1>1, <1>2, <1>7, <2>2 DEF PairInv, Listed, Folded, From, Into, Quiet, HeaderCalls
  <2>4. ValuesListed'
    BY <2>1, <2>2 DEF PairInv, ValuesListed
  <2> QED
    BY <1>1, <2>1, <2>2, <2>3, <2>4 DEF PairInv, KeysListed
<1> QED
  BY <1>3, <1>4, <1>5, <1>6, <1>7 DEF PairStep, Folded

-----------------------------------------------------------------------------
\* Span and error, operation by operation.
Alike(u, t) == IsParser(u) /\ u.span = t.span /\ u.error = t.error

LEMMA ToAlike ==
  ASSUME NEW t, IsParser(t), NEW n
  PROVE  Alike(To(t, n), t) /\ To(t, n).current = n
BY DEF IsParser, To, Alike

LEMMA StoreAlike ==
  ASSUME NEW t, IsParser(t), NEW h \in HeaderState
  PROVE  Alike(StoreHeaderState(t, h), t)
BY DEF IsParser, StoreHeaderState, Alike

LEMMA OrAlike ==
  ASSUME NEW t, IsParser(t), NEW f \in SUBSET Flag
  PROVE  Alike(OrFlags(t, f), t)
BY DEF IsParser, OrFlags, Alike

LEMMA SaveAlike ==
  ASSUME NEW t, IsParser(t)
  PROVE  Alike(SaveHeaderState(t), t)
<1> DEFINE u == SaveHeaderState(t)
           named == t.header_state \in DOMAIN FlagOf
           saved == IF named THEN OrFlags(t, FlagOf[t.header_state]) ELSE t
<1>1. named => FlagOf[t.header_state] \in SUBSET Flag
  BY DEF FlagOf, Flag
<1>2. Alike(saved, t)
  BY <1>1, OrAlike DEF Alike
<1>3. u \in {StoreHeaderState(saved, "connection"), saved}
  BY DEF SaveHeaderState
<1> HIDE DEF saved, u
<1>4. Alike(StoreHeaderState(saved, "connection"), saved)
  BY <1>2, StoreAlike DEF Alike, HeaderState
<1> QED
  BY <1>2, <1>3, <1>4 DEF Alike, u

LEMMA LengthAlike ==
  ASSUME NEW t, IsParser(t), NEW n \in 0 .. MaxLength
  PROVE  Alike([t EXCEPT !.content_length = n], t)
BY DEF IsParser, Alike

LEMMA FailAlike ==
  ASSUME NEW t, IsParser(t), NEW e
  PROVE  /\ IsParser(Fail(t, e)) /\ Fail(t, e).current = "error"
         /\ Fail(t, e).span = t.span
<1> DEFINE v == [t EXCEPT !.current = "error"]
<1>1. IsParser(v) /\ v.current = "error" /\ v.span = t.span
  BY DEF IsParser
<1>2. Fail(t, e) = [v EXCEPT !.error = e]
  BY DEF Fail
<1> HIDE DEF v
<1> QED
  BY <1>1, <1>2 DEF IsParser

LEMMA OpenAlike ==
  ASSUME NEW t, IsParser(t), NEW n, NEW span \in Spans
  PROVE  /\ IsParser(Open(t, n, span)) /\ Open(t, n, span).current = n
         /\ Open(t, n, span).span = span /\ Open(t, n, span).error = t.error
<1> DEFINE v == [t EXCEPT !.current = n]
<1>1. IsParser(v) /\ v.current = n /\ v.error = t.error
  BY DEF IsParser
<1>2. Open(t, n, span) = [v EXCEPT !.span = span]
  BY DEF Open
<1> HIDE DEF v
<1> QED
  BY <1>1, <1>2 DEF IsParser

LEMMA ErrorSpanned ==
  ASSUME s'.current = "error" PROVE Spanned(s') /\ Into({"over"})
BY DEF Spanned, Into, Stage, DigitNodes, CodingNodes

LEMMA CallIs ==
  ASSUME NEW u, IsParser(u), Call(u)
  PROVE  /\ s'.current = u.current /\ s'.span = "none" /\ s'.error = u.error
         /\ event'.call = s.span
BY DEF Call, IsParser

\* From a node to one of the same stage.
LEMMA StillTo ==
  ASSUME Spanned(s), NEW v, Alike(v, s), NEW n, ~From("over"),
         Stage(n) = Stage(s.current), Quietly(To(v, n)), Kept
  PROVE  PairStep
<1>1. /\ s'.current = n /\ s'.span = s.span /\ s'.error = s.error
      /\ event' = NoCall
  BY ToAlike DEF Quietly, Alike
<1>2. Spanned(s')
  BY <1>1 DEF Spanned
<1> QED
  BY <1>1, <1>2 DEF PairStep, Still, From, Into, Quiet, HeaderCalls, NoCall

LEMMA StillMove ==
  ASSUME Spanned(s), NEW v, Alike(v, s), NEW n, ~From("over"),
         Stage(n) = Stage(s.current), Move(To(v, n))
  PROVE  PairStep
BY StillTo DEF Move, Kept

LEMMA FailMove ==
  ASSUME IsParser(s), NEW e, ~From("over"), Move(Fail(s, e))
  PROVE  PairStep
<1>1. s'.current = "error" /\ event' = NoCall /\ Kept
  BY FailIs DEF Move, Quietly, Kept
<1> QED
  BY <1>1, ErrorSpanned DEF PairStep, Still, Into, Quiet, HeaderCalls, NoCall

\* A call of what is collected, or of nothing a header collects.
LEMMA CallStep ==
  ASSUME Spanned(s), NEW u, IsParser(u), Call(u), Kept,
         u.error = s.error \/ u.current = "error",
         \/ From("name") /\ Stage(u.current) \in {"gap", "over"}
         \/ From("value") /\ Stage(u.current) \in {"between", "over"}
         \/ From("between") /\ Stage(u.current) \in {"between", "over"}
  PROVE  PairStep
<1>1. /\ s'.current = u.current /\ s'.span = "none" /\ s'.error = u.error
      /\ event'.call = s.span
  BY CallIs
<1>2. Stage("error") = "over"
  BY DEF Stage, DigitNodes, CodingNodes
<1>3. Spanned(s')
  BY <1>1, <1>2 DEF Spanned, From, HeaderCalls
<1>4. CASE From("name") /\ Stage(u.current) \in {"gap", "over"}
  BY <1>1, <1>3, <1>4 DEF PairStep, Named, From, Into, Spanned
<1>5. CASE From("value") /\ Stage(u.current) \in {"between", "over"}
  BY <1>1, <1>3, <1>5 DEF PairStep, Valued, From, Into, Spanned
<1>6. CASE From("between") /\ Stage(u.current) \in {"between", "over"}
  BY <1>1, <1>3, <1>6 DEF PairStep, Still, From, Into, Spanned, Quiet, HeaderCalls
<1> QED
  BY <1>4, <1>5, <1>6

LEMMA CallTo ==
  ASSUME Spanned(s), NEW v, Alike(v, s), NEW n, Call(To(v, n)), Kept,
         \/ From("name") /\ Stage(n) \in {"gap", "over"}
         \/ From("value") /\ Stage(n) \in {"between", "over"}
         \/ From("between") /\ Stage(n) \in {"between", "over"}
  PROVE  PairStep
BY ToAlike, CallStep DEF Alike

LEMMA CallFail ==
  ASSUME Spanned(s), NEW v, IsParser(v), NEW e, Call(Fail(v, e)), Kept,
         From("name") \/ From("value") \/ From("between")
  PROVE  PairStep
<1>1. Stage("error") = "over"
  BY DEF Stage, DigitNodes, CodingNodes
<1> QED
  BY <1>1, FailIs, CallStep

-----------------------------------------------------------------------------
(* The first line.                                                          *)
LEMMA BetweenStages ==
  /\ \A n \in LineNodes : Stage(n) = "between"
  /\ \A n \in ChunkNodes : Stage(n) = "between"
  /\ \A n \in {"start", "closed", "headers_start", "header_field_start",
               "headers_almost_done", "header_value_almost_done",
               "header_value_lws", "span_start_llhttp__on_body_1",
               "span_start_llhttp__on_body_2"} : Stage(n) = "between"
  /\ Stage("error") = "over" /\ Stage("returned") = "over"
BY DEF Stage, LineNodes, ChunkNodes, DigitNodes, CodingNodes

\* A step outside of a header line calls nothing a header collects.
Outside ==
  /\ s'.span \notin HeaderCalls /\ event'.call \notin HeaderCalls
  /\ s'.error = s.error \/ s'.current \in {"error", "returned"}
  /\ Kept

LEMMA OutsideStep ==
  ASSUME Spanned(s), From("between"), Into({"between", "over"}), Outside
  PROVE  PairStep
BY BetweenStages DEF Spanned, From, Into, Outside, PairStep, Still, Quiet

LEMMA OutsideTo ==
  ASSUME Spanned(s), From("between"), NEW u, IsParser(u),
         u.span \notin HeaderCalls, u.error = s.error \/ u.current = "error",
         Quietly(u) \/ Call(u), Kept
  PROVE  Outside
<1>1. CASE Quietly(u)
  BY <1>1 DEF Outside, Quietly, NoCall, HeaderCalls
<1>2. CASE Call(u)
  BY <1>2, CallIs DEF Outside, Spanned, From, HeaderCalls
<1> QED
  BY <1>1, <1>2

LEMMA LineOutside ==
  ASSUME IsParser(s), IsReading(read), Spanned(s), From("between"),
         RequestLine \/ StatusLine
  PROVE  Outside
<1>1. ASSUME NEW v, Alike(v, s), NEW n,
             Quietly(To(v, n)) \/ Call(To(v, n)), Kept
      PROVE  Outside
  <2>1. s.span \notin HeaderCalls
    BY DEF Spanned, From
  <2> QED
    BY <1>1, <2>1, ToAlike, OutsideTo DEF Alike
<1>2. ASSUME NEW v, IsParser(v), v.span = s.span, NEW e,
             Quietly(Fail(v, e)) \/ Call(Fail(v, e)), Kept
      PROVE  Outside
  <2>1. /\ IsParser(Fail(v, e)) /\ Fail(v, e).current = "error"
        /\ Fail(v, e).span = s.span /\ s.span \notin HeaderCalls
    BY <1>2, FailAlike DEF Spanned, From
  <2> QED
    BY <1>2, <2>1, OutsideTo
<1>3. ASSUME NEW n, NEW span \in {"on_method", "on_url", "on_version", "on_status"},
             Quietly(Open(s, n, span)), Kept
      PROVE  Outside
  <2>1. /\ IsParser(Open(s, n, span)) /\ Open(s, n, span).error = s.error
        /\ Open(s, n, span).span = span
    BY OpenAlike DEF Spans
  <2> QED
    BY <1>3, <2>1, OutsideTo DEF HeaderCalls
<1>4. Alike(s, s) /\ s.span = s.span
  BY DEF Alike
<1>5. CASE Start
  <2>1. Kept
    <3> DEFINE a == [read EXCEPT !.message = read.message + 1]
               b == [a EXCEPT !.length = 0]
               no == FALSE
               c == [b EXCEPT !.sized = no]
               d == [c EXCEPT !.coding = "none"]
               q == [d EXCEPT !.close = no]
    <3>1. read' = q
      BY <1>5 DEF Start
    <3>2. IsReading(a) /\ a.line = read.line /\ a.folds = read.folds
      BY DEF IsReading
    <3> HIDE DEF a
    <3>3. IsReading(b) /\ b.line = read.line /\ b.folds = read.folds
      BY <3>2 DEF IsReading
    <3>4. no \in BOOLEAN
      OBVIOUS
    <3> HIDE DEF b, no
    <3>5. IsReading(c) /\ c.line = read.line /\ c.folds = read.folds
      BY <3>3, <3>4 DEF IsReading
    <3> HIDE DEF c
    <3>6. IsReading(d) /\ d.line = read.line /\ d.folds = read.folds
      BY <3>5 DEF IsReading
    <3> HIDE DEF d
    <3>7. q.line = read.line /\ q.folds = read.folds
      BY <3>6 DEF IsReading
    <3> QED
      BY <3>1, <3>7 DEF Kept
  <2> QED
    BY <1>1, <1>3, <1>4, <1>5, <2>1 DEF Start
<1>6. CASE SpacesBeforeUrl \/ ReqHttpStart \/ StartRes \/ ResStatusStart \/ ResStatus
  BY <1>1, <1>2, <1>3, <1>4, <1>6
     DEF SpacesBeforeUrl, ReqHttpStart, StartRes, ResStatusStart, ResStatus,
         Move, EndSpan, Kept
<1>7. CASE UrlStart \/ UrlSchema \/ UrlServer \/ UrlPath \/ UrlQuery
  BY <1>1, <1>2, <1>4, <1>7
     DEF UrlStart, UrlSchema, UrlServer, UrlPath, UrlQuery, UrlEnd, InvalidUrl,
         Move, EndSpan, Kept
<1>8. CASE ReqHttpComplete
  BY <1>1, <1>2, <1>4, <1>8 DEF ReqHttpComplete, Move, Kept
<1>9. ASSUME InvalidVersion \/ InvalidUrl PROVE Outside
  BY <1>2, <1>4, <1>9 DEF InvalidVersion, InvalidUrl, Move, EndSpan, Kept
<1>10. ASSUME NEW d, NEW n, Move([s EXCEPT !.http_major = d, !.current = n])
       PROVE  Outside
  <2> DEFINE v == [s EXCEPT !.http_major = d]
  <2>1. Alike(v, s)
    BY DEF IsParser, Alike
  <2>2. Quietly(To(v, n)) /\ Kept
    BY <1>10 DEF To, Move, Kept
  <2> HIDE DEF v
  <2> QED
    BY <1>1, <2>1, <2>2
<1>11. ASSUME NEW d, NEW n, Move([s EXCEPT !.status_code = d, !.current = n])
       PROVE  Outside
  <2> DEFINE v == [s EXCEPT !.status_code = d]
  <2>1. Alike(v, s)
    BY DEF IsParser, Alike
  <2>2. Quietly(To(v, n)) /\ Kept
    BY <1>11 DEF To, Move, Kept
  <2> HIDE DEF v
  <2> QED
    BY <1>1, <2>1, <2>2
<1>12. ASSUME NEW d, NEW n, EndVersion(d, n) PROVE Outside
  <2> DEFINE v == [s EXCEPT !.http_minor = d]
  <2>1. Alike(v, s)
    BY DEF IsParser, Alike
  <2>2. (Call(To(v, n)) \/ Call(Fail(v, "INVALID_VERSION"))) /\ Kept
    BY <1>12 DEF EndVersion, EndSpan, Kept
  <2> HIDE DEF v
  <2> QED
    BY <1>1, <1>2, <2>1, <2>2 DEF Alike
<1>13. CASE ReqHttpMajor \/ ResHttpMajor \/ ReqHttpMinor \/ ResHttpMinor
  BY <1>9, <1>10, <1>12, <1>13
     DEF ReqHttpMajor, ResHttpMajor, ReqHttpMinor, ResHttpMinor
<1>14. CASE ResAfterVersion \/ ResStatusCode
  BY <1>2, <1>4, <1>11, <1>14 DEF ResAfterVersion, ResStatusCode, ResStatusDigit, Move, Kept
<1>15. CASE Http09
  <2>1. CASE Move([s EXCEPT !.http_major = 0, !.http_minor = 9,
                            !.current = "headers_start"])
    <3> DEFINE v0 == [s EXCEPT !.http_major = 0]  v == [v0 EXCEPT !.http_minor = 9]
    <3>1. Alike(v0, s)
      BY DEF IsParser, Alike
    <3>2. Quietly(To(v, "headers_start")) /\ Kept
      BY <2>1 DEF To, Move, Kept
    <3> HIDE DEF v0
    <3>3. Alike(v, v0)
      BY <3>1 DEF IsParser, Alike
    <3> HIDE DEF v
    <3> QED
      BY <1>1, <3>1, <3>2, <3>3 DEF Alike
  <2> QED
    BY <1>9, <1>15, <2>1 DEF Http09
<1>16. CASE AfterStartReq
  <2>1. ASSUME NEW m \in Methods,
               EndSpan([s EXCEPT !.method = m[2],
                                 !.current = "req_first_space_before_url"])
        PROVE  Outside
    <3> DEFINE v == [s EXCEPT !.method = m[2]]
    <3>1. m[2] \in 0 .. 45
      BY <2>1 DEF Methods, MethodsAB, MethodsC, MethodsDF, MethodsGH, MethodsL,
         MethodsMtoME, MethodsMKtoMO, MethodsNO, MethodsPAtoPO, MethodsPR,
         MethodsPU, MethodsR, MethodsSE, MethodsSOtoSU, MethodsT, MethodsU
    <3>2. Alike(v, s)
      BY <3>1 DEF IsParser, Alike
    <3>3. Call(To(v, "req_first_space_before_url")) /\ Kept
      BY <2>1 DEF To, EndSpan, Kept
    <3> HIDE DEF v
    <3> QED
      BY <1>1, <3>2, <3>3
  <2> QED
    BY <1>2, <1>4, <1>16, <2>1 DEF AfterStartReq, Move, Kept
<1> QED
  BY <1>5, <1>6, <1>7, <1>8, <1>13, <1>14, <1>15, <1>16 DEF RequestLine, StatusLine

LEMMA LinePairs ==
  ASSUME ParserInv, Spanned(s), RequestLine \/ StatusLine PROVE PairStep
<1>1. IsParser(s) /\ IsReading(read)
  BY DEF ParserInv, Fits
<1>2. s.current \in LineNodes \cup {"start"} /\ LineEdge
  BY <1>1, LineEdges
<1>3. From("between") /\ Into({"between", "over"})
  BY <1>2, BetweenStages DEF From, Into, LineEdge, Refused
<1> QED
  BY <1>1, <1>3, LineOutside, OutsideStep

-----------------------------------------------------------------------------
(* The body.                                                                *)
LEMMA CompleteAlike ==
  ASSUME NEW t, IsParser(t)
  PROVE  LET u == MessageComplete(t) IN
         /\ IsParser(u) /\ u.span = t.span
         /\ u.error = t.error \/ u.current = "error"
         /\ u.current \in {"start", "closed", "error"}
<1> DEFINE v == [t EXCEPT !.flags = {}]  w == [v EXCEPT !.content_length = 0]
<1>1. MessageComplete(t) \in {Fail(t, "PAUSED_UPGRADE"), To(w, "start"), To(v, "closed")}
  BY DEF MessageComplete, AfterMessageComplete, To
<1>2. Alike(v, t)
  BY DEF IsParser, Alike
<1> HIDE DEF v
<1>3. Alike(w, t)
  BY <1>2, LengthAlike, ParserAssumption DEF Alike
<1> HIDE DEF w
<1> QED
  BY <1>1, <1>2, <1>3, ToAlike, FailAlike DEF Alike

LEMMA HeadersAlike ==
  ASSUME IsParser(s)
  PROVE  LET t == HeadersComplete(s) IN
         /\ IsParser(t) /\ t.span = s.span
         /\ t.error = s.error \/ t.current = "error"
         /\ t.current \in {"start", "closed", "error"} \cup Bodies
<1> DEFINE u == BeforeHeadersComplete(s)  v == [u EXCEPT !.content_length = 0]
           x == [u EXCEPT !.upgrade = FALSE]
<1>1. AfterHeadersComplete(u) \in {"upgrade", "chunked", "length", "eof", "invalid", "none"}
  BY DEF AfterHeadersComplete
<1>2. HeadersComplete(s) \in
        {Fail(u, "PAUSED_UPGRADE"), To(v, "chunk_size_digit"),
         To(u, "span_start_llhttp__on_body_1"), To(u, "span_start_llhttp__on_body_2"),
         Fail(u, "INVALID_TRANSFER_ENCODING"), AfterMessageComplete(u)}
  BY <1>1 DEF HeadersComplete, To
<1>3. Alike(u, s)
  <2> DEFINE b == IF {"UPGRADE", "CONNECTION_UPGRADE"} \subseteq s.flags
                  THEN s.type = "HTTP_REQUEST" \/ s.status_code = 101
                  ELSE s.method = HTTP_CONNECT
  <2>1. b \in BOOLEAN
    OBVIOUS
  <2>2. u = [s EXCEPT !.upgrade = b]
    BY DEF BeforeHeadersComplete
  <2> HIDE DEF b, u
  <2> QED
    BY <2>1, <2>2 DEF IsParser, Alike
<1> HIDE DEF u
<1>4. Alike(v, s)
  BY <1>3, LengthAlike, ParserAssumption DEF Alike
<1> HIDE DEF v
<1> DEFINE y == [u EXCEPT !.flags = {}]  z == [y EXCEPT !.content_length = 0]
<1>5. AfterMessageComplete(u) \in {To(z, "start"), To(y, "closed")}
  BY DEF AfterMessageComplete, To
<1>6. Alike(y, s)
  BY <1>3 DEF IsParser, Alike
<1> HIDE DEF y
<1>7. Alike(z, s)
  BY <1>6, LengthAlike, ParserAssumption DEF Alike
<1> HIDE DEF z
<1> QED
  BY <1>2, <1>3, <1>4, <1>5, <1>6, <1>7, ToAlike, FailAlike DEF Alike, Bodies

LEMMA ConsumeOutside ==
  ASSUME Spanned(s), From("between"), IsParser(s), UNCHANGED read,
         NEW t, IsParser(t), t.span = s.span,
         t.error = s.error \/ t.current = "error", Consume(t)
  PROVE  Outside
<1>1. s.span \notin HeaderCalls
  BY DEF Spanned, From
<1>2. event'.call = "on_body" /\ Kept
  <2>1. \E n : event' = [call |-> "on_body", bytes |-> n]
    BY DEF Consume
  <2> QED
    BY <2>1 DEF Kept
<1>3. CASE s' = [t EXCEPT !.content_length = 0]
  <2>1. s'.span = t.span /\ s'.error = t.error /\ s'.current = t.current
    BY <1>3 DEF IsParser
  <2> QED
    BY <1>1, <1>2, <2>1 DEF Outside, HeaderCalls
<1>4. ASSUME NEW n \in 1 .. s.content_length - 1,
             s' = [s EXCEPT !.content_length = @ - n, !.current = "returned"]
      PROVE  Outside
  <2> DEFINE m == s.content_length - n  v == [s EXCEPT !.content_length = m]
  <2>1. m \in 0 .. MaxLength
    BY <1>4, ParserAssumption DEF IsParser
  <2>2. s' = To(v, "returned")
    BY <1>4 DEF To
  <2> HIDE DEF m
  <2>3. Alike(v, s)
    BY <2>1, LengthAlike
  <2> HIDE DEF v
  <2> QED
    BY <1>1, <1>2, <2>2, <2>3, ToAlike DEF Alike, Outside, HeaderCalls
<1> QED
  BY <1>3, <1>4 DEF Consume

LEMMA AlmostDonePairs ==
  ASSUME ParserInv, Spanned(s), HeadersAlmostDone PROVE PairStep
<1>1. IsParser(s) /\ From("between")
  BY BetweenStages DEF ParserInv, Fits, HeadersAlmostDone, At, From
<1>2. PICK u : /\ Move(u) /\ IsParser(u) /\ u.span = s.span
               /\ u.error = s.error \/ u.current = "error"
               /\ u.current \in {"start", "closed", "error"} \cup Bodies
  BY <1>1, CompleteAlike, HeadersAlike, FailAlike DEF HeadersAlmostDone
<1>3. Outside
  BY <1>1, <1>2, OutsideTo DEF Move, Kept, Spanned, From
<1>4. Into({"between", "over"})
  BY <1>2, BetweenStages DEF Move, Quietly, Into, Bodies, ChunkNodes
<1> QED
  BY <1>1, <1>3, <1>4, OutsideStep

LEMMA BodyPairs ==
  ASSUME ParserInv, Spanned(s), BodyOfLength \/ BodyToEof PROVE PairStep
<1>1. IsParser(s) /\ From("between")
  BY BetweenStages DEF ParserInv, Fits, BodyOfLength, BodyToEof, At, From
<1>2. CASE BodyOfLength
  <2> DEFINE v == [s EXCEPT !.content_length = 0]
  <2>1. Alike(v, s)
    BY <1>1, LengthAlike, ParserAssumption
  <2>2. Consume(MessageComplete(v)) /\ UNCHANGED read
    BY <1>2 DEF BodyOfLength
  <2> HIDE DEF v
  <2>3. Outside
    BY <1>1, <2>1, <2>2, CompleteAlike, ConsumeOutside DEF Alike
  <2>4. Into({"between", "over"})
    BY <1>1, <1>2, BodyEdge, BetweenStages DEF Into, Completed
  <2> QED
    BY <1>1, <2>3, <2>4, OutsideStep
<1>3. CASE BodyToEof
  <2>1. /\ s'.current = "returned" /\ s'.span = s.span /\ event'.call = "on_body"
        /\ Kept
    BY <1>1, <1>3, ToAlike DEF BodyToEof, Alike, Kept
  <2> QED
    BY <1>1, <2>1, OutsideStep, BetweenStages
       DEF Outside, Into, From, Spanned, HeaderCalls
<1> QED
  BY <1>2, <1>3

LEMMA ChunkOutside ==
  ASSUME ParserInv, Spanned(s), From("between"), Chunk PROVE Outside
<1>1. IsParser(s) /\ IsReading(read) /\ s.span \notin HeaderCalls /\ Alike(s, s)
  BY DEF ParserInv, Fits, Spanned, From, Alike
<1>2. ASSUME NEW v, Alike(v, s), NEW n,
             Quietly(To(v, n)) \/ Call(To(v, n)), Kept
      PROVE  Outside
  BY <1>1, <1>2, ToAlike, OutsideTo DEF Alike
<1>3. ASSUME NEW e, Quietly(Fail(s, e)) \/ Call(Fail(s, e)), Kept
      PROVE  Outside
  BY <1>1, <1>3, FailAlike, OutsideTo
<1>4. ASSUME NEW d \in HexDigit, ChunkDigit(d) PROVE Outside
  <2>1. CASE Overflows(HexRadix, d)
    BY <1>3, <1>4, <2>1 DEF ChunkDigit, Move, Kept
  <2>2. CASE ~Overflows(HexRadix, d)
    <3> DEFINE u == MulAdd(HexRadix, d)
               n == (s.content_length * HexRadix + d) % (MaxLength + 1)
    <3>1. IsParser(u)
      BY <2>2, MulAddIs, ParserAssumption
    <3>2. u = [s EXCEPT !.content_length = n]
      BY DEF MulAdd
    <3> HIDE DEF n
    <3>3. Alike(u, s)
      BY <1>1, <3>1, <3>2 DEF Alike, IsParser
    <3>4. Quietly(To(u, "chunk_size")) /\ Kept
      BY <1>1, <1>4, <2>2 DEF ChunkDigit, Kept, IsReading
    <3> HIDE DEF u
    <3> QED
      BY <1>2, <3>3, <3>4
  <2> QED
    BY <2>1, <2>2
<1>5. CASE ChunkSizeDigit \/ ChunkSize
  BY <1>1, <1>2, <1>3, <1>4, <1>5 DEF ChunkSizeDigit, ChunkSize, Move, Kept
<1>6. CASE ChunkExtensions
  <2>1. CASE Move(Open(s, "chunk_extension_name", "on_chunk_extension_name"))
    BY <1>1, <2>1, OpenAlike, OutsideTo DEF Spans, HeaderCalls, Move, Kept
  <2> QED
    BY <1>3, <1>6, <2>1 DEF ChunkExtensions, Move, Kept
<1>7. CASE ChunkExtensionName
  <2>1. CASE /\ s' = Open(s, "chunk_extension_value", "on_chunk_extension_value")
             /\ event' = [call |-> s.span, bytes |-> 0]
             /\ UNCHANGED read
    BY <1>1, <2>1, OpenAlike DEF Spans, HeaderCalls, Outside, Kept
  <2> QED
    BY <1>1, <1>2, <1>3, <1>7, <2>1
       DEF ChunkExtensionName, ExtensionNameEnd, EndSpan, Kept
<1>8. CASE ChunkExtensionValue \/ ChunkExtensionQuotedValue \/ ChunkExtensionQuotedValueDone
  BY <1>1, <1>2, <1>3, <1>8
     DEF ChunkExtensionValue, ChunkExtensionQuotedValue, ChunkExtensionQuotedValueDone,
         ExtensionValueEnd, EndSpan, Move, Kept
<1>9. CASE ChunkSizeAlmostDone
  <2>1. Alike(OrFlags(s, {"TRAILING"}), s)
    BY <1>1, OrAlike DEF Flag
  <2> QED
    BY <1>1, <1>2, <1>9, <2>1 DEF ChunkSizeAlmostDone, Move, Kept
<1>10. CASE ChunkBody
  BY <1>1, <1>10, ToAlike, ConsumeOutside DEF ChunkBody, Alike
<1>11. CASE ChunkDataAlmostDone
  <2> DEFINE v == [s EXCEPT !.content_length = 0]
  <2>1. Alike(v, s)
    BY <1>1, LengthAlike, ParserAssumption
  <2>2. Quietly(To(v, "chunk_size_digit")) /\ Kept
    BY <1>1, <1>11 DEF ChunkDataAlmostDone, To, Kept, IsReading
  <2> HIDE DEF v
  <2> QED
    BY <1>2, <2>1, <2>2
<1> QED
  BY <1>5, <1>6, <1>7, <1>8, <1>9, <1>10, <1>11 DEF Chunk

LEMMA ChunkPairs ==
  ASSUME ParserInv, Spanned(s), Chunk PROVE PairStep
<1>1. s.current \in ChunkNodes /\ ChunkEdge
  BY ChunkEdges
<1>2. From("between") /\ Into({"between", "over"})
  BY <1>1, BetweenStages DEF From, Into, ChunkEdge, Refused
<1> QED
  BY <1>2, ChunkOutside, OutsideStep

-----------------------------------------------------------------------------
(* Header lines.                                                            *)
StagesAre ==
  /\ \A n \in {"header_field_colon", "header_field_general"} : Stage(n) = "name"
  /\ \A n \in {"header_value_discard_ws", "header_value_discard_lws"} : Stage(n) = "gap"
  /\ \A n \in {"header_value", "header_value_connection",
               "header_value_connection_token", "header_value_connection_ws"}
              \cup DigitNodes \cup CodingNodes : Stage(n) = "value"

LEMMA Stages == StagesAre
BY DEF StagesAre, Stage, DigitNodes, CodingNodes

LEMMA FieldPairs ==
  ASSUME IsParser(s), IsReading(read), Spanned(s), read.line \in Nat,
         HeadersStart \/ HeaderFieldStart \/ HeaderFieldColon \/ HeaderFieldGeneral
  PROVE  PairStep
<1>1. Alike(s, s)
  BY DEF Alike
<1>2. CASE HeadersStart
  <2>1. From("between") /\ Stage("header_field_start") = "between"
    BY <1>2, BetweenStages DEF HeadersStart, At, From
  <2> QED
    BY <1>1, <1>2, <2>1, StillMove, FailMove DEF HeadersStart, From
<1>3. CASE HeaderFieldStart
  <2>1. From("between") /\ Stage("headers_almost_done") = "between"
    BY <1>3, BetweenStages DEF HeaderFieldStart, At, From
  <2>2. CASE Move(To(s, "headers_almost_done"))
    BY <1>1, <2>1, <2>2, StillMove DEF From
  <2>3. ASSUME NEW h \in HeaderState,
               NEW n \in {"header_field_colon", "header_field_general"},
               Quietly(Open(StoreHeaderState(s, h), n, "on_header_field")),
               read' = [read EXCEPT !.line = @ + 1]
        PROVE  PairStep
    <3> DEFINE v == StoreHeaderState(s, h)
    <3>1. Alike(v, s)
      BY StoreAlike
    <3>2. Quietly(Open(v, n, "on_header_field"))
      BY <2>3
    <3> HIDE DEF v
    <3>3. /\ s'.current = n /\ s'.span = "on_header_field" /\ s'.error = s.error
          /\ event' = NoCall
      BY <3>1, <3>2, OpenAlike DEF Quietly, Alike, Spans
    <3>4. read'.line = read.line + 1 /\ read'.folds = read.folds
      BY <2>3 DEF IsReading
    <3>5. Stage(n) = "name"
      BY Stages DEF StagesAre
    <3>6. Spanned(s')
      BY <2>1, <3>3, <3>5 DEF Spanned, From
    <3>7. Naming
      BY <2>1, <3>3, <3>4, <3>5 DEF Naming, Quiet, NoCall, HeaderCalls, Into
    <3> QED
      BY <3>6, <3>7 DEF PairStep
  <2> QED
    BY <1>3, <2>2, <2>3 DEF HeaderFieldStart, SpecialHeader, HeaderState
<1>4. ASSUME FieldEnd, From("name") PROVE PairStep
  <2>1. Stage("header_value_discard_ws") = "gap"
    BY Stages DEF StagesAre
  <2> QED
    BY <1>1, <1>4, <2>1, CallTo DEF FieldEnd, EndSpan, Kept
<1>5. CASE HeaderFieldColon
  <2>1. From("name") /\ Stage("header_field_general") = "name"
    BY <1>5, Stages DEF HeaderFieldColon, At, From, StagesAre
  <2>2. CASE EndSpan(Fail(s, "INVALID_HEADER_TOKEN"))
    BY <2>1, <2>2, CallFail DEF EndSpan, Kept
  <2>3. CASE Move(To(StoreHeaderState(s, "general"), "header_field_general"))
    <3>1. Alike(StoreHeaderState(s, "general"), s)
      BY StoreAlike DEF HeaderState
    <3> QED
      BY <2>1, <2>3, <3>1, StillMove DEF From
  <2> QED
    BY <1>4, <1>5, <2>1, <2>2, <2>3 DEF HeaderFieldColon
<1>6. CASE HeaderFieldGeneral
  <2>1. From("name")
    BY <1>6, Stages DEF HeaderFieldGeneral, At, From, StagesAre
  <2> QED
    BY <1>4, <1>6, <2>1, FailMove DEF HeaderFieldGeneral, From
<1> QED
  BY <1>2, <1>3, <1>5, <1>6

\* What begins a value opens its span, or fails.
Beginning(u, t) ==
  /\ IsParser(u) /\ u.span = t.span
  /\ \/ Stage(u.current) = "value" /\ u.error = t.error
     \/ u.current = "error"

LEMMA BeginningTo ==
  ASSUME NEW t, NEW v, Alike(v, t), NEW n, Stage(n) = "value"
  PROVE  Beginning(To(v, n), t)
BY ToAlike DEF Alike, Beginning

LEMMA ValueBeginning ==
  ASSUME NEW t, IsParser(t) PROVE Beginning(DispatchValue(t), t)
<1> DEFINE w == OrFlags(t, {"UPGRADE"})  x == StoreHeaderState(w, "general")
           y == OrFlags(t, {"TRANSFER_ENCODING"})
           z == [y EXCEPT !.flags = @ \ {"CHUNKED"}]
<1>1. DispatchValue(t) \in {Fail(t, "UNEXPECTED_CONTENT_LENGTH"),
        Fail(t, "INVALID_TRANSFER_ENCODING"), To(z, "header_value_te_chunked"),
        To(x, "header_value"), To(t, "header_value_connection"),
        To(t, "header_value_content_length"), To(t, "header_value")}
  BY DEF DispatchValue, BeginCodings, To
<1>2. Alike(w, t) /\ Alike(y, t) /\ Alike(t, t)
  BY OrAlike DEF Flag, Alike
<1> HIDE DEF w
<1>3. Alike(x, t)
  <2>1. Alike(x, w)
    BY <1>2, StoreAlike DEF HeaderState, Alike
  <2> QED
    BY <1>2, <2>1 DEF Alike
<1>4. y.flags \subseteq Flag
  BY <1>2 DEF Alike, IsParser
<1> HIDE DEF x, y
<1>5. Alike(z, t)
  BY <1>2, <1>4 DEF IsParser, Alike
<1> HIDE DEF z
<1>6. \A n \in {"header_value_te_chunked", "header_value", "header_value_connection",
              "header_value_content_length"} : Stage(n) = "value"
  BY Stages DEF StagesAre, DigitNodes, CodingNodes
<1>7. ASSUME NEW e PROVE Beginning(Fail(t, e), t)
  BY FailAlike DEF Beginning
<1> QED
  BY <1>1, <1>2, <1>3, <1>5, <1>6, <1>7, BeginningTo

LEMMA BeginStep ==
  ASSUME NEW t, Alike(t, s), Spanned(s), NEW r, IsReading(r), BeginValue(t, r),
         From("gap") \/ From("between"),
         r.line = read.line,
         r.folds = IF From("gap") THEN read.folds ELSE read.folds + 1
  PROVE  PairStep
<1> DEFINE v == [t EXCEPT !.span = "on_header_value"]
           u == DispatchValue(v)
           starts == IF u.current = "header_value_te_chunked"
                     THEN [r EXCEPT !.coding = "other"] ELSE r
           digits == IF u.current = "header_value_content_length"
                     THEN [starts EXCEPT !.length = 0] ELSE starts
           refused == u.error = "INVALID_TRANSFER_ENCODING"
<1>1. IsParser(v) /\ v.span = "on_header_value" /\ v.error = s.error
  BY DEF Alike, IsParser, Spans
<1>2. /\ read' = digits /\ s' = IF refused THEN [u EXCEPT !.span = "none"] ELSE u
      /\ event' = IF refused THEN [call |-> "on_header_value", bytes |-> 0] ELSE NoCall
  BY DEF BeginValue
<1> HIDE DEF v
<1>3. Beginning(u, v)
  BY <1>1, ValueBeginning
<1>4. IsReading(starts) /\ starts.line = r.line /\ starts.folds = r.folds
  <2> HIDE DEF u
  <2> QED
    BY DEF IsReading
<1> HIDE DEF starts, u
<1>5. digits.line = r.line /\ digits.folds = r.folds
  BY <1>4 DEF IsReading
<1> HIDE DEF digits
<1>6. s.error = "OK"
  BY DEF Spanned, From
<1>7. /\ s'.current = u.current /\ s'.error = u.error
      /\ refused => u.current = "error"
      /\ ~refused => s'.span = "on_header_value"
  BY <1>1, <1>2, <1>3, <1>6 DEF Beginning, IsParser
<1>8. Stage(s'.current) \in {"value", "over"}
  BY <1>3, <1>7, BetweenStages DEF Beginning
<1>9. Spanned(s')
  BY <1>1, <1>3, <1>6, <1>7, <1>8, BetweenStages DEF Spanned, Beginning
<1>10. IF refused THEN event'.call = "on_header_value" /\ Into({"over"})
       ELSE Quiet /\ Into({"value", "over"})
  BY <1>2, <1>7, <1>8, BetweenStages DEF Into, Quiet, NoCall, HeaderCalls
<1> HIDE DEF refused
<1>11. CASE From("gap")
  BY <1>2, <1>5, <1>9, <1>10, <1>11
     DEF PairStep, Still, Begun, Valued, Kept, Into, From
<1>12. CASE From("between")
  BY <1>2, <1>5, <1>9, <1>10, <1>12 DEF PairStep, Folded, Into, From
<1> QED
  BY <1>11, <1>12

LEMMA DiscardPairs ==
  ASSUME IsParser(s), IsReading(read), Spanned(s),
         HeaderValueDiscardWs \/ HeaderValueDiscardLws
  PROVE  PairStep
<1>1. Alike(s, s) /\ From("gap")
  BY Stages DEF Alike, HeaderValueDiscardWs, HeaderValueDiscardLws, At, From, StagesAre
<1>2. Stage("header_value_discard_ws") = "gap" /\ Stage("header_value_discard_lws") = "gap"
  BY Stages DEF StagesAre
<1>3. CASE HeaderValueDiscardWs
  BY <1>1, <1>2, <1>3, BeginStep, StillMove, FailMove DEF HeaderValueDiscardWs, From
<1>4. CASE EmptyValue
  <2>1. CASE Move(Fail(s, "INVALID_CONTENT_LENGTH"))
    BY <1>1, <2>1, FailMove DEF From
  <2>2. CASE /\ s' = To(SaveHeaderState(s), "header_field_start")
             /\ event' = [call |-> "on_header_value", bytes |-> 0]
             /\ UNCHANGED read
    <3> DEFINE v == SaveHeaderState(s)
    <3>1. Alike(v, s)
      BY SaveAlike
    <3>2. s' = To(v, "header_field_start")
      BY <2>2
    <3> HIDE DEF v
    <3>3. /\ s'.current = "header_field_start" /\ s'.span = s.span
          /\ s'.error = s.error
      BY <3>1, <3>2, ToAlike DEF Alike
    <3>4. Spanned(s') /\ Into({"between"})
      BY <1>1, <3>3, BetweenStages DEF Spanned, From, Into
    <3>5. event'.call = "on_header_value" /\ Kept
      BY <2>2 DEF Kept
    <3> QED
      BY <1>1, <3>4, <3>5 DEF PairStep, Valued, Into
  <2> QED
    BY <1>4, <2>1, <2>2 DEF EmptyValue
<1>5. CASE HeaderValueDiscardLws
  BY <1>1, <1>2, <1>4, <1>5, StillMove DEF HeaderValueDiscardLws, From
<1> QED
  BY <1>3, <1>5

LEMMA LwsPairs ==
  ASSUME IsParser(s), IsReading(read), Spanned(s),
         HeaderValueAlmostDone \/ HeaderValueLws
  PROVE  PairStep
<1>1. Alike(s, s) /\ From("between")
  BY BetweenStages DEF Alike, HeaderValueAlmostDone, HeaderValueLws, At, From
<1>2. Stage("header_value_lws") = "between" /\ Stage("header_field_start") = "between"
  BY BetweenStages
<1>3. CASE HeaderValueAlmostDone
  BY <1>1, <1>2, <1>3, StillMove, FailMove DEF HeaderValueAlmostDone, From
<1>4. CASE HeaderValueLws
  <2> DEFINE q == [read EXCEPT !.folds = @ + 1]
             c == IF s.header_state = "te_chunked" THEN "other" ELSE q.coding
             r == [q EXCEPT !.coding = c]
             t == IF s.header_state = "te_chunked"
                  THEN StoreHeaderState(s, "general") ELSE s
  <2>1. CASE Move(To(SaveHeaderState(s), "header_field_start"))
    BY <1>1, <1>2, <2>1, SaveAlike, StillMove DEF From
  <2>2. /\ IsReading(q) /\ q.line = read.line /\ q.folds = read.folds + 1
        /\ q.coding = read.coding
    BY DEF IsReading
  <2>3. r = [read EXCEPT !.folds = @ + 1,
                         !.coding = IF s.header_state = "te_chunked" THEN "other" ELSE @]
    BY DEF IsReading
  <2>4. BeginValue(t, r) \/ Move(To(SaveHeaderState(s), "header_field_start"))
    BY <1>4, <2>3 DEF HeaderValueLws
  <2>5. Alike(t, s)
    BY <1>1, StoreAlike DEF HeaderState
  <2> HIDE DEF q, c, t
  <2>6. IsReading(r) /\ r.line = q.line /\ r.folds = q.folds
    BY <2>2 DEF IsReading
  <2> HIDE DEF r
  <2> QED
    BY <1>1, <2>1, <2>2, <2>4, <2>5, <2>6, BeginStep DEF From
<1> QED
  BY <1>3, <1>4

LEMMA OtherwisePairs ==
  ASSUME Spanned(s), From("value"), NEW t, Alike(t, s), NEW r,
         r.line = read.line, r.folds = read.folds, ValueOtherwise(t, r)
  PROVE  PairStep
<1>1. Stage("header_value_almost_done") = "between" /\ Kept
  BY BetweenStages DEF ValueOtherwise, Kept
<1> QED
  BY <1>1, CallTo, CallFail DEF ValueOtherwise, Alike

LEMMA ValuePairs ==
  ASSUME ParserInv, Spanned(s),
         \/ HeaderValue \/ HeaderValueConnection \/ HeaderValueConnectionToken
         \/ HeaderValueConnectionWs \/ HeaderValueContentLength
         \/ HeaderValueTeChunked \/ HeaderValueTeChunkedLast \/ HeaderValueTeToken
  PROVE  PairStep
<1>1. IsParser(s) /\ IsReading(read) /\ Alike(s, s)
  BY DEF ParserInv, Fits, Alike
<1>2. From("value")
  BY Stages
     DEF HeaderValue, HeaderValueConnection, HeaderValueConnectionToken,
         HeaderValueConnectionWs, HeaderValueContentLength, HeaderValueTeChunked,
         HeaderValueTeChunkedLast, HeaderValueTeToken, At, From, StagesAre,
         DigitNodes, CodingNodes
<1>3. \A n \in {"header_value", "header_value_connection", "header_value_connection_token",
               "header_value_connection_ws", "header_value_content_length_ws",
               "header_value_te_chunked", "header_value_te_chunked_last",
               "header_value_te_token"} : Stage(n) = Stage(s.current)
  BY <1>2, Stages DEF StagesAre, From, DigitNodes, CodingNodes
<1>4. ~From("over")
  BY <1>2 DEF From
<1>5. \A h \in HeaderState : Alike(StoreHeaderState(s, h), s)
  BY <1>1, StoreAlike
<1>6. {"general", "connection_close", "connection_keep_alive", "connection_upgrade",
       "te_chunked"} \subseteq HeaderState
  BY DEF HeaderState
<1>7. ReadClose.line = read.line /\ ReadClose.folds = read.folds
  BY <1>1 DEF ReadClose, IsReading
<1>8. ASSUME NEW e, EndSpan(Fail(s, e)) PROVE PairStep
  BY <1>1, <1>2, <1>8, CallFail DEF EndSpan, Kept
<1>9. CASE HeaderValue
  BY <1>1, <1>2, <1>9, OtherwisePairs DEF HeaderValue
<1>10. CASE HeaderValueConnection
  BY <1>1, <1>3, <1>4, <1>5, <1>6, <1>10, StillMove DEF HeaderValueConnection
<1>11. CASE HeaderValueConnectionToken
  BY <1>1, <1>2, <1>3, <1>4, <1>11, StillMove, OtherwisePairs
     DEF HeaderValueConnectionToken
<1>12. CASE HeaderValueConnectionWs
  <2>1. CASE NextToken
    BY <1>1, <1>3, <1>4, <1>7, <2>1, SaveAlike, StillTo DEF NextToken, Kept
  <2>2. CASE ValueOtherwise(s, ReadClose)
    BY <1>1, <1>2, <1>7, <2>2, OtherwisePairs
  <2>3. CASE Move(To(StoreHeaderState(s, "general"), "header_value_connection_token"))
    BY <1>3, <1>4, <1>5, <1>6, <2>3, StillMove
  <2> QED
    BY <1>12, <2>1, <2>2, <2>3 DEF HeaderValueConnectionWs
<1>13. CASE HeaderValueContentLength
  <2>1. ASSUME NEW d \in Digit, LengthDigit(d), ~Overflows(Radix, d) PROVE PairStep
    <3> DEFINE u == MulAdd(Radix, d)
               n == (s.content_length * Radix + d) % (MaxLength + 1)
    <3>1. IsParser(u)
      BY <2>1, MulAddIs, ParserAssumption
    <3>2. u = [s EXCEPT !.content_length = n]
      BY DEF MulAdd
    <3> HIDE DEF n
    <3>3. Alike(u, s)
      BY <1>1, <3>1, <3>2 DEF Alike, IsParser
    <3>4. Quietly(To(u, "header_value_content_length_ws")) /\ Kept
      BY <1>1, <2>1 DEF LengthDigit, Kept, IsReading
    <3> HIDE DEF u
    <3> QED
      BY <1>3, <1>4, <3>3, <3>4, StillTo
  <2>2. ASSUME NEW d \in Digit, LengthDigit(d) PROVE PairStep
    BY <1>8, <2>1, <2>2 DEF LengthDigit
  <2>3. CASE LengthEnd
    <3> DEFINE r == [read EXCEPT !.sized = TRUE]
    <3>1. Alike(OrFlags(s, {"CONTENT_LENGTH"}), s)
      BY <1>1, OrAlike DEF Flag
    <3>2. r.line = read.line /\ r.folds = read.folds
      <4> DEFINE yes == TRUE
      <4>1. r = [read EXCEPT !.sized = yes]
        OBVIOUS
      <4> HIDE DEF yes
      <4> QED
        BY <1>1, <4>1 DEF IsReading
    <3>3. ValueOtherwise(OrFlags(s, {"CONTENT_LENGTH"}), r)
      BY <2>3 DEF LengthEnd
    <3> HIDE DEF r
    <3> QED
      BY <1>2, <3>1, <3>2, <3>3, OtherwisePairs
  <2> QED
    BY <1>8, <1>13, <2>2, <2>3 DEF HeaderValueContentLength
<1>14. CASE HeaderValueTeChunked
  BY <1>1, <1>3, <1>4, <1>14, StillMove DEF HeaderValueTeChunked
<1>15. CASE HeaderValueTeChunkedLast
  <2>1. CASE ChunkedEnd
    <3> DEFINE r == [read EXCEPT !.coding = "chunked"]
    <3>1. r.line = read.line /\ r.folds = read.folds
      BY <1>1 DEF IsReading
    <3>2. ValueOtherwise(StoreHeaderState(s, "te_chunked"), r)
      BY <2>1 DEF ChunkedEnd
    <3> HIDE DEF r
    <3> QED
      BY <1>2, <1>5, <1>6, <3>1, <3>2, OtherwisePairs
  <2>2. CASE ChunkedNotLast
    BY <1>1, <1>3, <1>4, <1>8, <2>2, StillMove DEF ChunkedNotLast
  <2>3. CASE Move(To(s, "header_value_te_token"))
    BY <1>1, <1>3, <1>4, <2>3, StillMove
  <2> QED
    BY <1>15, <2>1, <2>2, <2>3 DEF HeaderValueTeChunkedLast
<1>16. CASE HeaderValueTeToken
  BY <1>1, <1>3, <1>4, <1>5, <1>6, <1>16, StillMove DEF HeaderValueTeToken
<1> QED
  BY <1>9, <1>10, <1>11, <1>12, <1>13, <1>14, <1>15, <1>16

LEMMA EndPairs ==
  ASSUME ParserInv, Spanned(s), EndOfBuffer PROVE PairStep
<1>1. IsParser(s) /\ Alike(s, s) /\ Call(To(s, "returned")) /\ Kept
  BY DEF ParserInv, Fits, Alike, EndOfBuffer, EndSpan, Kept
<1>2. ~From("over")
  BY DEF EndOfBuffer, From, Stage
<1>3. CASE From("gap")
  <2>1. /\ s'.current = "returned" /\ event'.call = s.span
    BY <1>1, ToAlike, CallIs DEF Alike
  <2> QED
    BY <1>1, <1>3, <2>1, BetweenStages
       DEF PairStep, Still, Quiet, From, Into, Spanned
<1> QED
  BY <1>1, <1>2, <1>3, StageIs, BetweenStages, CallTo DEF From

LEMMA PairsStep ==
  ASSUME ParserInv, PairInv, Next PROVE PairInv'
<1>1. /\ IsParser(s) /\ IsReading(read) /\ Spanned(s) /\ read.line \in Nat
      /\ Callbacks
  BY DEF ParserInv, Fits, PairInv, Next
<1>2. HeaderLine => PairStep
  BY <1>1, FieldPairs, DiscardPairs, LwsPairs, ValuePairs DEF HeaderLine
<1>3. Body => PairStep
  BY <1>1, AlmostDonePairs, BodyPairs, ChunkPairs DEF Body, Chunk
<1>4. PairStep
  BY <1>1, <1>2, <1>3, LinePairs, EndPairs DEF Next, Input
<1> QED
  BY <1>1, <1>4, PairNext

(* Keys and values keep in step, for any number of lines and messages: each *)
(* callback appends where its line belongs, and only a folded line adds to  *)
(* the values more than its line's one.                                      *)
THEOREM FieldsAlwaysPaired == Spec => []FieldsPaired
<1>1. Init => PairInv
  <2> SUFFICES ASSUME Init PROVE PairInv
    OBVIOUS
  <2>1. /\ s.current = "start" /\ s.span = "none" /\ s.error = "OK"
        /\ read.line = 0 /\ read.folds = 0 /\ keys = <<>> /\ values = <<>>
    BY DEF Init, ParserInit
  <2> QED
    BY <2>1, BetweenStages
       DEF PairInv, KeysListed, ValuesListed, Listed, Spanned, HeaderCalls
<1>2. PairInv => FieldsPaired
  <2> SUFFICES ASSUME PairInv, NEW i \in DOMAIN keys \cap DOMAIN values
               PROVE  IF read.folds = 0 THEN values[i] = keys[i]
                      ELSE values[i] <= keys[i]
    BY DEF FieldsPaired
  <2>1. i \in 1 .. Len(keys) /\ i \in 1 .. Len(values)
    BY DEF PairInv
  <2> QED
    BY <2>1 DEF PairInv, KeysListed, ValuesListed
<1>3. ASSUME ParserInv, PairInv, [Next]_vars PROVE PairInv'
  <2>1. CASE UNCHANGED vars
    BY <1>3, <2>1 DEF vars, collected, PairInv, KeysListed, ValuesListed, Listed, Spanned
  <2> QED
    BY <1>3, <2>1, PairsStep
<1> QED
  BY <1>1, <1>2, <1>3, Always, PTL DEF Spec
=============================================================================
