------------------------------ MODULE MCRelay ------------------------------
(* Instances of the relay for TLC. *)
EXTENDS Relay

\* The shape of a response in a buffer of five bytes: three are its header, and
\* its fields are known after two.
Shape(length, body, encoded, chunked, nul) ==
  [fields |-> 2, head |-> 3, body |-> body, length |-> length,
   encoded |-> encoded, chunked |-> chunked, nul |-> nul]

\* Without and with a Content-Length, of one digit or two, met or not met by the
\* body, beyond an int; with a zero byte; encoded; in chunks; one too long for
\* the buffer, and two whose body goes on behind its Content-Length.
Plain   == {Shape(<<>>, n, FALSE, FALSE, 0) : n \in {0, 2}}
Long    == {Shape(<<2>>, n, FALSE, FALSE, 0) : n \in 0 .. 2}
Odd     == {Shape(<<9>>, 1, FALSE, FALSE, 0), Shape(<<0>>, 0, FALSE, FALSE, 0),
            Shape(<<2>>, 2, FALSE, FALSE, 1),
            Shape(<<2>>, 2, TRUE, FALSE, 0), Shape(<<>>, 2, TRUE, TRUE, 0)}
Pieces  == {Shape(<<>>, n, FALSE, TRUE, 0) : n \in {0, 3}}
TooLong == {Shape(<<3>>, 3, FALSE, FALSE, 0)}
More    == {Shape(<<1>>, 2, FALSE, FALSE, 0), Shape(<<2>>, 3, FALSE, FALSE, 0)}
TwoDigits == {[fields |-> 3, head |-> 3, body |-> 2, length |-> <<1, 2>>,
               encoded |-> FALSE, chunked |-> FALSE, nul |-> 0]}
Responses == UNION {Plain, Long, Odd, Pieces, TooLong, More, TwoDigits}
=============================================================================
