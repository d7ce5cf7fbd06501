------------------------------ MODULE Streams ------------------------------
(***************************************************************************)
(* The two connections of a request, as send() and recv() show them: one   *)
(* to the client and one to the origin.  The bytes a peer sends are        *)
(* numbered from 1; TCP neither loses nor reorders them, and hands them    *)
(* over in pieces of any size.  What the peers do is external.             *)
(***************************************************************************)
EXTENDS Integers, Sequences

VARIABLES
  peer,    \* "open", "finished" (will send no more), "reset" (has reset the
           \* connection), or "gone" (the proxy has been told of the reset)
  sent,    \* how many bytes each peer has sent
  read,    \* how many of them the proxy has read
  got      \* what each peer has received from the proxy

streams == <<peer, sent, read, got>>

Side == {"client", "origin"}

Unread(side) == sent[side] - read[side]

\* select() reports a socket that has data, or whose peer will send no more.
Readable(side) == Unread(side) > 0 \/ peer[side] # "open"

\* The first n bytes not read yet.
Bytes(side, n) == [i \in 1 .. n |-> read[side] + i]

\* recv() of at most room bytes: what there is; then -1, once, if the peer has
\* reset the connection; then 0, if it will send no more.
Recv(side, room) ==
  LET available == IF Unread(side) < room THEN Unread(side) ELSE room
  IN  IF available > 0 THEN {available}
      ELSE CASE peer[side] = "open"  -> {}
             [] peer[side] = "reset" -> {-1}
             [] OTHER                -> {0}

Took(side, n) ==
  /\ read' = [read EXCEPT ![side] = IF n > 0 THEN @ + n ELSE @]
  /\ peer' = [peer EXCEPT ![side] = IF n = -1 THEN "gone" ELSE @]
  /\ UNCHANGED <<sent, got>>

Gave(side, bytes) ==
  /\ got' = [got EXCEPT ![side] = @ \o bytes]
  /\ UNCHANGED <<peer, sent, read>>

-----------------------------------------------------------------------------
SendByte(side) ==
  /\ peer[side] = "open"
  /\ sent' = [sent EXCEPT ![side] = @ + 1]
  /\ UNCHANGED <<peer, read, got>>

\* A peer shuts down its sending side, or resets the connection.
HangUp(side, how) ==
  /\ \/ peer[side] = "open" /\ how \in {"finished", "reset"}
     \/ peer[side] = "finished" /\ how = "reset"
  /\ peer' = [peer EXCEPT ![side] = how]
  /\ UNCHANGED <<sent, read, got>>
=============================================================================
