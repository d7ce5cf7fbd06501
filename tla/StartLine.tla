----------------------------- MODULE StartLine -----------------------------
(***************************************************************************)
(* llhttp's automaton from the first character of a message to the end of  *)
(* its first line: method, URL and version of a request, or version and    *)
(* status of a response.                                                   *)
(***************************************************************************)
EXTENDS ParserState

HTTP_SOURCE == 33
HTTP_PRI == 34
HttpMethods == 0 .. 34
RtspMethods == {1, 3, 6} \cup 35 .. 45

\* The automaton's tree of methods, branch by branch: word and number.
MethodsAB == {<<"ACL", 19>>, <<"ANNOUNCE", 36>>, <<"BIND", 16>>}
MethodsC == {<<"CHECKOUT", 22>>, <<"CONNECT", 5>>, <<"COPY", 8>>}
MethodsDF == {<<"DELETE", 0>>, <<"DESCRIBE", 35>>, <<"FLUSH", 45>>}
MethodsGH == {<<"GET", 1>>, <<"GET_PARAMETER", 41>>, <<"HEAD", 2>>}
MethodsL == {<<"LINK", 31>>, <<"LOCK", 9>>}
MethodsMtoME == {<<"M-SEARCH", 24>>, <<"MERGE", 23>>}
MethodsMKtoMO == {<<"MKACTIVITY", 21>>, <<"MKCALENDAR", 30>>,
                  <<"MKCOL", 10>>, <<"MOVE", 11>>}
MethodsNO == {<<"NOTIFY", 25>>, <<"OPTIONS", 6>>}
MethodsPAtoPO == {<<"PATCH", 28>>, <<"PAUSE", 39>>, <<"PLAY", 38>>,
                  <<"POST", 3>>}
MethodsPR == {<<"PROPFIND", 12>>, <<"PROPPATCH", 13>>, <<"PRI", 34>>}
MethodsPU == {<<"PURGE", 29>>, <<"PUT", 4>>}
MethodsR == {<<"REBIND", 17>>, <<"RECORD", 44>>, <<"REDIRECT", 43>>,
             <<"REPORT", 20>>}
MethodsSE == {<<"SEARCH", 14>>, <<"SETUP", 37>>, <<"SET_PARAMETER", 42>>}
MethodsSOtoSU == {<<"SOURCE", 33>>, <<"SUBSCRIBE", 26>>}
MethodsT == {<<"TEARDOWN", 40>>, <<"TRACE", 7>>}
MethodsU == {<<"UNBIND", 18>>, <<"UNLINK", 32>>, <<"UNLOCK", 15>>,
             <<"UNSUBSCRIBE", 27>>}
Methods == UNION {MethodsAB, MethodsC, MethodsDF, MethodsGH, MethodsL,
                  MethodsMtoME, MethodsMKtoMO, MethodsNO, MethodsPAtoPO,
                  MethodsPR, MethodsPU, MethodsR, MethodsSE, MethodsSOtoSU,
                  MethodsT, MethodsU}

-----------------------------------------------------------------------------
\* Blank lines before a message are skipped; the next character begins it.
Start ==
  /\ At("start")
  /\ Quietly(IF s.type = "HTTP_REQUEST"
             THEN Open(s, "after_start_req", "on_method")
             ELSE To(s, "start_res"))
  /\ read' = [read EXCEPT !.message = @ + 1, !.length = 0, !.sized = FALSE,
                          !.coding = "none", !.close = FALSE]

\* A method is read, or a character that continues none of them.
AfterStartReq ==
  /\ At("after_start_req")
  /\ \/ \E m \in Methods :
          /\ m[1] \in MethodWord
          /\ EndSpan([s EXCEPT !.method = m[2],
                               !.current = "req_first_space_before_url"])
     \/ Move(Fail(s, "INVALID_METHOD"))

\* Spaces, then the first character of the URL, which is not consumed.  After
\* CONNECT the URL begins with the server.
SpacesBeforeUrl ==
  /\ At("req_first_space_before_url")
  /\ \/ Move(Open(s, IF s.method = HTTP_CONNECT THEN "url_server"
                     ELSE "url_start", "on_url"))
     \/ Move(Fail(s, "INVALID_METHOD"))

\* The URL ends with LF, CR or a space.
UrlEnd ==
  \E next \in {"url_skip_to_http09", "url_skip_lf_to_http09",
               "url_skip_to_http"} : EndSpan(To(s, next))
InvalidUrl == Move(Fail(s, "INVALID_URL"))

\* "/" or "*" begins a path, a letter a schema.
UrlStart ==
  /\ At("url_start")
  /\ \/ Move(To(s, "url_path"))
     \/ Move(To(s, "url_schema"))
     \/ InvalidUrl

\* A schema, "://" and a server.
UrlSchema ==
  /\ At("url_schema")
  /\ \/ Move(To(s, "url_server"))
     \/ InvalidUrl

\* A server, with at most one "@" in a row, ends the URL or goes on with a
\* path ("/") or a query ("?").
UrlServer ==
  /\ s.current \in {"url_server", "url_server_with_at"}
  /\ \/ UrlEnd
     \/ At("url_server") /\ Move(To(s, "url_server_with_at"))
     \/ At("url_server_with_at") /\ Move(To(s, "url_server"))
     \/ Move(To(s, "url_path"))
     \/ Move(To(s, "url_query"))
     \/ InvalidUrl

\* A path may be followed by a query ("?") or a fragment ("#").
UrlPath ==
  /\ At("url_path")
  /\ \/ UrlEnd
     \/ Move(To(s, "url_query"))
     \/ Move(To(s, "url_fragment"))
     \/ InvalidUrl

UrlQuery ==
  /\ s.current \in {"url_query", "url_fragment"}
  /\ \/ UrlEnd
     \/ At("url_query") /\ Move(To(s, "url_fragment"))
     \/ InvalidUrl

\* A line that ends after the URL is HTTP/0.9.
Http09 ==
  /\ s.current \in {"url_skip_to_http09", "url_skip_lf_to_http09"}
  /\ \/ Move([s EXCEPT !.http_major = 0, !.http_minor = 9,
                       !.current = "headers_start"])
     \/ At("url_skip_lf_to_http09") /\ InvalidUrl

\* "HTTP/", "ICE/" or "RTSP/" after the URL, each with its methods.
ReqHttpStart ==
  /\ At("url_skip_to_http")
  /\ \/ \E methods \in {HttpMethods, {HTTP_SOURCE}, RtspMethods} :
          IF s.method \in methods
          THEN Move(Open(s, "req_http_major", "on_version"))
          ELSE Move(Fail(s, "INVALID_CONSTANT"))
     \/ Move(Fail(s, "INVALID_CONSTANT"))

InvalidVersion == EndSpan(Fail(s, "INVALID_VERSION"))

ReqHttpMajor ==
  /\ At("req_http_major")
  /\ \/ \E d \in VersionDigit :
          Move([s EXCEPT !.http_major = d, !.current = "req_http_dot"])
     \/ InvalidVersion

\* llhttp knows HTTP/0.9, 1.0, 1.1 and 2.0.
KnownVersion(major, minor) ==
  <<major, minor>> \in {<<0, 9>>, <<1, 0>>, <<1, 1>>, <<2, 0>>}

\* The last digit of a version.
EndVersion(d, next) ==
  EndSpan(LET t == [s EXCEPT !.http_minor = d] IN
          IF KnownVersion(t.http_major, d) THEN To(t, next)
          ELSE Fail(t, "INVALID_VERSION"))

ReqHttpMinor ==
  /\ At("req_http_dot")
  /\ \/ \E d \in VersionDigit : EndVersion(d, "req_http_complete")
     \/ InvalidVersion

\* The end of the request line, or HTTP/2's preface.
ReqHttpComplete ==
  /\ At("req_http_complete")
  /\ IF s.method = HTTP_PRI
     THEN \E e \in {"PAUSED_H2_UPGRADE", "INVALID_VERSION"} : Move(Fail(s, e))
     ELSE \/ Move(To(s, "headers_start"))
          \/ Move(Fail(s, "INVALID_VERSION"))

-----------------------------------------------------------------------------
StartRes ==
  /\ At("start_res")
  /\ \/ Move(Open(s, "res_http_major", "on_version"))
     \/ Move(Fail(s, "INVALID_CONSTANT"))

ResHttpMajor ==
  /\ At("res_http_major")
  /\ \/ \E d \in VersionDigit :
          Move([s EXCEPT !.http_major = d, !.current = "res_http_dot"])
     \/ InvalidVersion

ResHttpMinor ==
  /\ At("res_http_dot")
  /\ \/ \E d \in VersionDigit : EndVersion(d, "res_after_version")
     \/ InvalidVersion

\* A space; the status code starts from nothing.
ResAfterVersion ==
  /\ At("res_after_version")
  /\ \/ Move([s EXCEPT !.status_code = 0,
                       !.current = "res_status_code_digit_1"])
     \/ Move(Fail(s, "INVALID_VERSION"))

\* What mul_add_status_code makes of one more digit.
StatusDigit(d) == s.status_code * 10 + d

\* The first and second digit, and the third.  A number above 16 bits, which
\* three digits do not reach, fails like anything that is no digit.
ResStatusDigit(from, scale, next) ==
  /\ At(from)
  /\ \/ \E c \in StatusCode :
          /\ (c \div scale) \div 10 = s.status_code
          /\ StatusDigit((c \div scale) % 10) < 2 ^ 16
          /\ Move([s EXCEPT !.status_code = StatusDigit((c \div scale) % 10),
                            !.current = next])
     \/ Move(Fail(s, "INVALID_STATUS"))

ResStatusCode ==
  \/ ResStatusDigit("res_status_code_digit_1", 100, "res_status_code_digit_2")
  \/ ResStatusDigit("res_status_code_digit_2", 10, "res_status_code_digit_3")
  \/ ResStatusDigit("res_status_code_digit_3", 1, "res_status_code_otherwise")

\* A space, CR or LF; then the reason, which may be missing.
ResStatusStart ==
  /\ At("res_status_code_otherwise")
  /\ \/ Move(To(s, "headers_start"))
     \/ Move(Open(s, "res_status", "on_status"))
     \/ Move(Fail(s, "INVALID_STATUS"))

\* The reason goes on until CR or LF; the character after CR is skipped.
ResStatus == At("res_status") /\ EndSpan(To(s, "headers_start"))

RequestLine ==
  \/ Start \/ AfterStartReq \/ SpacesBeforeUrl \/ UrlStart \/ UrlSchema
  \/ UrlServer \/ UrlPath \/ UrlQuery \/ Http09 \/ ReqHttpStart \/ ReqHttpMajor
  \/ ReqHttpMinor \/ ReqHttpComplete

StatusLine ==
  \/ StartRes \/ ResHttpMajor \/ ResHttpMinor \/ ResAfterVersion
  \/ ResStatusCode \/ ResStatusStart \/ ResStatus
=============================================================================
