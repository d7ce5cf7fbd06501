---------------------------- MODULE HttpMessage ----------------------------
(***************************************************************************)
(* What a parser of HTTP messages promises: a first line, a header, and a  *)
(* body framed in the one way that was decided when the header ended, with *)
(* a trailer after chunks and only there.                                  *)
(***************************************************************************)
VARIABLES phase, framing

Init == phase = "line" /\ framing = "none"

Header == phase = "line" /\ phase' = "header" /\ UNCHANGED framing

Decide ==
  /\ phase = "header"
  /\ phase' = "body"
  /\ framing' \in {"length", "chunked", "eof"}

LastChunk ==
  /\ phase = "body" /\ framing = "chunked"
  /\ phase' = "trailer"
  /\ UNCHANGED framing

\* The message ends: another follows, or the rest is skipped, or is no HTTP.
Complete ==
  /\ \/ phase \in {"header", "trailer"}
     \/ phase = "body" /\ framing = "length"
  /\ phase' \in {"line", "closed", "switched"}
  /\ framing' = "none"

\* A message that is not one is refused, and the input may end anywhere.
Stop ==
  /\ phase \notin {"switched", "refused", "ended"}
  /\ phase' \in {"refused", "ended"}
  /\ phase' = "refused" => phase # "closed" /\ framing \notin {"length", "eof"}
  /\ framing' = "none"

Next == Header \/ Decide \/ LastChunk \/ Complete \/ Stop

Spec == Init /\ [][Next]_<<phase, framing>>
=============================================================================
