---------------------------- MODULE RelayProofs ----------------------------
(***************************************************************************)
(* Theorems about Relay, for any size of the buffer, any responses, and    *)
(* any number of bytes in a tunnel.                                        *)
(***************************************************************************)
EXTENDS Relay, FiniteSetTheorems, SequenceTheorems, TLAPS

-----------------------------------------------------------------------------
(* Sequences of numbered bytes: the first has number k + 1, and numbers      *)
(* below 1 stand for bytes that no peer sent.                                *)
Numbered(s, k) == \A i \in 1 .. Len(s) : k + i >= 1 => s[i] = k + i

LEMMA NumberedParts ==
  ASSUME NEW s \in Seq(Byte), NEW k \in Int, Numbered(s, k), NEW n \in 0 .. Len(s)
  PROVE  /\ SubSeq(s, 1, n) \in Seq(Byte) /\ Len(SubSeq(s, 1, n)) = n
         /\ SubSeq(s, n + 1, Len(s)) \in Seq(Byte)
         /\ Len(SubSeq(s, n + 1, Len(s))) = Len(s) - n
         /\ Numbered(SubSeq(s, 1, n), k)
         /\ Numbered(SubSeq(s, n + 1, Len(s)), k + n)
<1>1. Len(s) \in Nat /\ \A i \in 1 .. Len(s) : s[i] \in Byte
  OBVIOUS
<1>2. /\ SubSeq(s, 1, n) \in Seq(Byte) /\ Len(SubSeq(s, 1, n)) = n
      /\ \A i \in 1 .. n : SubSeq(s, 1, n)[i] = s[i]
  BY <1>1, SubSeqProperties
<1>3. /\ SubSeq(s, n + 1, Len(s)) \in Seq(Byte)
      /\ Len(SubSeq(s, n + 1, Len(s))) = Len(s) - n
      /\ \A i \in 1 .. Len(s) - n : SubSeq(s, n + 1, Len(s))[i] = s[n + i]
  BY <1>1, SubSeqProperties
<1>4. Numbered(SubSeq(s, 1, n), k)
  BY <1>1, <1>2 DEF Numbered
<1>5. Numbered(SubSeq(s, n + 1, Len(s)), k + n)
  BY <1>1, <1>3 DEF Numbered
<1> QED
  BY <1>2, <1>3, <1>4, <1>5

LEMMA NumberedConcat ==
  ASSUME NEW s \in Seq(Byte), NEW t \in Seq(Byte), NEW k \in Int,
         Numbered(s, k), Numbered(t, k + Len(s))
  PROVE  /\ s \o t \in Seq(Byte) /\ Len(s \o t) = Len(s) + Len(t)
         /\ Numbered(s \o t, k)
<1>1. /\ s \o t \in Seq(Byte) /\ Len(s \o t) = Len(s) + Len(t)
      /\ \A i \in 1 .. Len(s) + Len(t) :
           (s \o t)[i] = IF i <= Len(s) THEN s[i] ELSE t[i - Len(s)]
  BY ConcatProperties
<1>2. Len(s) \in Nat /\ Len(t) \in Nat
  OBVIOUS
<1>3. ASSUME NEW i \in 1 .. Len(s) + Len(t), k + i >= 1
      PROVE  (s \o t)[i] = k + i
  <2>1. CASE i <= Len(s)
    BY <2>1, <1>1, <1>2, <1>3 DEF Numbered
  <2>2. CASE i > Len(s)
    <3> DEFINE j == i - Len(s)
    <3>1. j \in 1 .. Len(t) /\ k + Len(s) + j = k + i
      BY <2>2, <1>2
    <3>2. t[j] = k + i
      BY <3>1, <1>2, <1>3 DEF Numbered
    <3> QED
      BY <2>2, <3>2, <1>1, <1>2
  <2> QED
    BY <2>1, <2>2, <1>2
<1> QED
  BY <1>1, <1>3 DEF Numbered

-----------------------------------------------------------------------------
(* The length of a text is a number, and so is what is read of a length.    *)
LEMMA TextLengthType ==
  ASSUME NEW b \in [1 .. BufferSize -> Nat]
  PROVE  TextLength(b) \in Nat
<1> DEFINE T == {n \in DOMAIN b : \A i \in 1 .. n : ~EndsText(b[i])}
<1>1. IsFiniteSet(1 .. BufferSize)
  BY FS_Interval, HttpClientAssumption
<1>2. T \in SUBSET (1 .. BufferSize)
  OBVIOUS
<1>3. IsFiniteSet(T)
  BY <1>1, <1>2, FS_Subset
<1>4. Cardinality(T) \in Nat
  BY <1>3, FS_CardinalityType
<1> QED
  BY <1>4 DEF TextLength

LEMMA ResponseFacts ==
  ASSUME response \in Response
  PROVE  /\ response.fields \in Nat \ {0} /\ response.head \in Nat
         /\ response.body \in Nat /\ response.length \in Seq(Nat)
         /\ Len(response.length) \in Nat
         /\ \A i \in 1 .. Len(response.length) : response.length[i] \in Nat
BY HttpClientAssumption

LEMMA LengthInType ==
  ASSUME response \in Response, NEW b \in [1 .. BufferSize -> Nat]
  PROVE  LengthIn(b) \in Nat
<1> DEFINE missing == response.fields - TextLength(b)
           digits == Len(response.length) - (IF missing > 0 THEN missing ELSE 0)
<1>1. missing \in Int
  BY ResponseFacts, TextLengthType
<1>2. digits \in Int /\ digits <= Len(response.length)
  BY <1>1, ResponseFacts
<1>3. LengthIn(b) = IF Begins(b) /\ digits > 0 THEN response.length[digits] ELSE 0
  BY DEF LengthIn
<1> HIDE DEF missing, digits
<1>4. digits > 0 => response.length[digits] \in Nat
  BY <1>2, ResponseFacts
<1> QED
  BY <1>3, <1>4

LEMMA PaddingFacts ==
  /\ Padding \in [1 .. BufferSize -> Nat]
  /\ ~Begins(Padding)
  /\ LengthIn(Padding) = 0 /\ BodySize(Padding) = 0
<1>1. Padding \in [1 .. BufferSize -> Nat] /\ Padding[1] = 0
  BY HttpClientAssumption DEF Padding
<1>2. ~Begins(Padding)
  BY <1>1 DEF Begins
<1> QED
  BY <1>1, <1>2 DEF LengthIn, BodySize

-----------------------------------------------------------------------------
(* The buffer is in use only inside the loop, where recv() has put a byte    *)
(* into it before it can fail: so the -1 does not move total below 0.  What  *)
(* is counted has been read, and what is read of a response is part of it.   *)
Reading ==
  /\ pc = "receiveMore" => total >= 1 \/ peer["origin"] = "gone"
  /\ pc \notin {"receiveMore", "killed", "undefined"} => buffer = Padding /\ total = 0
  /\ peer["origin"] = "gone" => Unread("origin") = 0
  /\ total <= read["origin"]
  /\ mode # "tunnel" => sent["origin"] <= response.head + response.body

Crashed == pc \in {"killed", "undefined"}

\* The bytes that the client gets before the origin's.
Lead == IF mode = "tunnel" THEN 1 ELSE 0

\* The bytes that have been read and are still on their way.
Outgoing == IF pc = "sendRequest" THEN Len(held) ELSE 0
Incoming ==
  IF pc \in {"received", "sendResponse"} THEN Len(held)
  ELSE IF pc = "receiveMore" THEN total ELSE 0

(* What goes to a peer goes on from what it has, and as long as the peer can *)
(* be sent anything, what was read is with it or on its way; except, once    *)
(* the origin has reset the connection, for a byte that the -1 has taken.    *)
OriginInOrder ==
  /\ Numbered(got["origin"], 0)
  /\ Staying("origin") =>
       /\ Len(got["origin"]) + Outgoing = read["client"]
       /\ pc = "sendRequest" => Numbered(held, Len(got["origin"]))
ClientInOrder ==
  /\ Numbered(got["client"], 0 - Lead)
  /\ Staying("client") =>
       /\ pc \in {"received", "sendResponse"} => Numbered(held, Len(got["client"]) - Lead)
       /\ pc = "receiveMore" =>
            \A i \in 1 .. total : buffer[i] = Len(got["client"]) - Lead + i
       /\ peer["origin"] # "gone" /\ ~Crashed =>
            Len(got["client"]) + Incoming = Lead + read["origin"]

Ordered == ~response.encoded => OriginInOrder /\ ClientInOrder

RelayInv == TypeOK /\ Reading /\ Ordered

-----------------------------------------------------------------------------
LEMMA FunctionIsSeq ==
  ASSUME NEW n \in Nat, NEW S, NEW f \in [1 .. n -> S]
  PROVE  f \in Seq(S) /\ Len(f) = n
OBVIOUS

LEMMA ByteFacts == OK_200 \in Byte /\ Nat \subseteq Byte
BY DEF Byte

LEMMA EmptyNumbered ==
  ASSUME NEW s, s = <<>>, NEW k
  PROVE  s \in Seq(Byte) /\ Len(s) = 0 /\ Numbered(s, k)
BY DEF Numbered

LEMMA SideFacts == "client" \in Side /\ "origin" \in Side /\ "client" # "origin"
BY DEF Side

LEMMA InitInv == Init => RelayInv
<1> SUFFICES ASSUME Init PROVE RelayInv
  OBVIOUS
<1>1. /\ buffer = Padding /\ total = 0 /\ wanted = 0 /\ left = Timeout
      /\ got = [side \in Side |-> <<>>] /\ read = sent
      /\ peer = [side \in Side |-> "open"] /\ response \in Response
  BY DEF Init
<1>2. got["client"] = <<>> /\ got["origin"] = <<>>
  BY <1>1, SideFacts
<1>3. peer["client"] = "open" /\ peer["origin"] = "open"
  BY <1>1, SideFacts
<1>4. CASE mode = "fetch"
  <2>1. pc = "sendRequest" /\ held = [i \in 1 .. MaxSent |-> i]
    BY <1>4 DEF Init
  <2>2. sent["client"] = MaxSent /\ sent["origin"] = 0 /\ sent \in [Side -> Nat]
    BY <1>4, SideFacts, RelayAssumption DEF Init
  <2>3. held \in Seq(Byte) /\ Len(held) = MaxSent /\ \A i \in 1 .. MaxSent : held[i] = i
    <3>1. held \in [1 .. MaxSent -> Byte] /\ \A i \in 1 .. MaxSent : held[i] = i
      BY <2>1, ByteFacts, RelayAssumption
    <3> QED
      BY <3>1, FunctionIsSeq, RelayAssumption
  <2>4. TypeOK
    <3>1. /\ peer \in [Side -> {"open", "finished", "reset", "gone"}]
          /\ got \in [Side -> Seq(Byte)]
      BY <1>1
    <3>2. /\ read \in [Side -> Nat] /\ \A side \in Side : read[side] <= sent[side]
      BY <1>1, <2>2
    <3>3. total \in 0 .. BufferSize /\ wanted \in 0 .. MaxInt /\ left \in 0 .. Timeout
      BY <1>1, HttpClientAssumption, RelayAssumption
    <3> QED
      BY <1>1, <1>4, <2>1, <2>2, <2>3, <3>1, <3>2, <3>3, PaddingFacts DEF TypeOK
  <2>5. Reading
    BY <1>1, <1>3, <1>4, <2>1, <2>2, ResponseFacts, HttpClientAssumption DEF Reading, Unread
  <2>6. OriginInOrder
    <3>1. Numbered(got["origin"], 0) /\ Numbered(held, 0) /\ Len(got["origin"]) = 0
      BY <1>2, <2>3, EmptyNumbered DEF Numbered
    <3>2. Outgoing = MaxSent
      BY <2>1, <2>3 DEF Outgoing
    <3> QED
      BY <1>1, <2>1, <2>2, <2>3, <3>1, <3>2, RelayAssumption DEF OriginInOrder
  <2>7. ClientInOrder
    <3>1. Numbered(got["client"], 0 - Lead) /\ Len(got["client"]) = 0
      BY <1>2, EmptyNumbered
    <3>2. Incoming = 0 /\ Lead = 0
      BY <1>4, <2>1 DEF Incoming, Lead
    <3> QED
      BY <1>1, <1>2, <2>1, <2>2, <2>3, <3>1, <3>2 DEF ClientInOrder
  <2> QED
    BY <2>4, <2>5, <2>6, <2>7 DEF RelayInv, Ordered
<1>5. CASE mode = "tunnel"
  <2>1. pc = "sendResponse" /\ held = <<OK_200>>
    BY <1>5 DEF Init
  <2>2. sent["client"] = 0 /\ sent["origin"] = 0 /\ sent \in [Side -> Nat]
    BY <1>5, SideFacts DEF Init
  <2>3. held \in Seq(Byte) /\ Len(held) = 1
    BY <2>1, ByteFacts
  <2>4. TypeOK
    <3>1. /\ peer \in [Side -> {"open", "finished", "reset", "gone"}]
          /\ got \in [Side -> Seq(Byte)]
      BY <1>1
    <3>2. /\ read \in [Side -> Nat] /\ \A side \in Side : read[side] <= sent[side]
      BY <1>1, <2>2
    <3>3. total \in 0 .. BufferSize /\ wanted \in 0 .. MaxInt /\ left \in 0 .. Timeout
      BY <1>1, HttpClientAssumption, RelayAssumption
    <3> QED
      BY <1>1, <1>5, <2>1, <2>2, <2>3, <3>1, <3>2, <3>3, PaddingFacts DEF TypeOK
  <2>5. Reading
    BY <1>1, <1>3, <1>5, <2>1, <2>2, ResponseFacts, HttpClientAssumption DEF Reading, Unread
  <2>6. OriginInOrder
    <3>1. Numbered(got["origin"], 0) /\ Len(got["origin"]) = 0
      BY <1>2, EmptyNumbered
    <3>2. Outgoing = 0
      BY <2>1 DEF Outgoing
    <3> QED
      BY <1>1, <2>1, <2>2, <3>1, <3>2 DEF OriginInOrder
  <2>7. ClientInOrder
    <3>1. Numbered(got["client"], 0 - Lead) /\ Len(got["client"]) = 0
      BY <1>2, EmptyNumbered
    <3>3. Numbered(held, 0 - 1)
      BY <2>3 DEF Numbered
    <3>2. Incoming = 1 /\ Lead = 1
      BY <1>5, <2>1, <2>3 DEF Incoming, Lead
    <3> QED
      BY <1>1, <1>2, <2>1, <2>2, <2>3, <3>1, <3>2, <3>3 DEF ClientInOrder
  <2> QED
    BY <2>4, <2>5, <2>6, <2>7 DEF RelayInv, Ordered
<1> QED
  BY <1>4, <1>5 DEF Init

-----------------------------------------------------------------------------
(* The network, pointwise.                                                  *)
LEMMA TypeFacts ==
  ASSUME TypeOK
  PROVE  /\ \A side \in Side :
              /\ sent[side] \in Nat /\ read[side] \in Nat /\ Unread(side) \in Nat
              /\ got[side] \in Seq(Byte) /\ Len(got[side]) \in Nat
              /\ peer[side] \in {"open", "finished", "reset", "gone"}
         /\ total \in Nat /\ total <= BufferSize /\ Len(held) \in Nat
         /\ wanted \in Nat /\ BufferSize \in Nat /\ BufferSize >= 1 /\ MaxInt \in Nat
         /\ Lead \in {0, 1} /\ Outgoing \in Nat /\ Incoming \in Nat
<1>1. \A side \in Side : sent[side] \in Nat /\ read[side] \in Nat /\ Unread(side) \in Nat
  BY DEF TypeOK, Unread
<1>2. \A side \in Side :
        /\ got[side] \in Seq(Byte) /\ Len(got[side]) \in Nat
        /\ peer[side] \in {"open", "finished", "reset", "gone"}
  BY DEF TypeOK
<1>3. /\ total \in Nat /\ total <= BufferSize /\ Len(held) \in Nat
      /\ wanted \in Nat /\ BufferSize \in Nat /\ BufferSize >= 1 /\ MaxInt \in Nat
  BY HttpClientAssumption DEF TypeOK
<1>4. Lead \in {0, 1} /\ Outgoing \in Nat /\ Incoming \in Nat
  BY <1>3 DEF Lead, Outgoing, Incoming
<1> QED
  BY <1>1, <1>2, <1>3, <1>4

\* What recv() of at most the buffer's size does.
LEMMA TookFacts ==
  ASSUME TypeOK, NEW side \in Side, NEW n \in Recv(side, BufferSize), Took(side, n)
  PROVE  /\ n \in Int /\ n >= -1 /\ n <= BufferSize
         /\ n > 0 => n <= Unread(side)
         /\ n <= 0 => Unread(side) = 0
         /\ n = -1 => peer[side] = "reset" /\ peer'[side] = "gone"
         /\ n # -1 => peer' = peer
         /\ n = 0 => peer[side] \in {"finished", "gone"}
         /\ read'[side] = read[side] + (IF n > 0 THEN n ELSE 0)
         /\ \A other \in Side : other # side =>
              peer'[other] = peer[other] /\ read'[other] = read[other]
         /\ sent' = sent /\ got' = got
         /\ peer' \in [Side -> {"open", "finished", "reset", "gone"}]
         /\ read' \in [Side -> Nat]
         /\ \A other \in Side : read'[other] <= sent'[other]
<1> DEFINE available == IF Unread(side) < BufferSize THEN Unread(side) ELSE BufferSize
<1>1. available \in Nat /\ available <= BufferSize /\ available <= Unread(side)
      /\ (available = 0 => Unread(side) = 0)
  BY TypeFacts
<1>2. n \in IF available > 0 THEN {available}
            ELSE CASE peer[side] = "open"  -> {}
                   [] peer[side] = "reset" -> {-1}
                   [] OTHER                -> {0}
  BY DEF Recv
<1> HIDE DEF available
<1>3. \/ available > 0 /\ n = available
      \/ available = 0 /\ peer[side] = "reset" /\ n = -1
      \/ available = 0 /\ peer[side] \in {"finished", "gone"} /\ n = 0
  BY <1>1, <1>2, TypeFacts
<1>4. /\ n \in Int /\ n >= -1 /\ n <= BufferSize
      /\ n > 0 => n <= Unread(side)
      /\ n <= 0 => Unread(side) = 0
      /\ n = -1 => peer[side] = "reset"
      /\ n = 0 => peer[side] \in {"finished", "gone"}
  BY <1>1, <1>3, TypeFacts
<1>5. /\ read' = [read EXCEPT ![side] = IF n > 0 THEN read[side] + n ELSE read[side]]
      /\ peer' = [peer EXCEPT ![side] = IF n = -1 THEN "gone" ELSE peer[side]]
      /\ sent' = sent /\ got' = got
  BY DEF Took
<1>6. peer \in [Side -> {"open", "finished", "reset", "gone"}] /\ read \in [Side -> Nat]
  BY DEF TypeOK
<1>7. /\ read'[side] = read[side] + (IF n > 0 THEN n ELSE 0)
      /\ read' \in [Side -> Nat]
      /\ \A other \in Side : other # side => read'[other] = read[other]
  BY <1>4, <1>5, <1>6
<1>8. /\ n = -1 => peer'[side] = "gone"
      /\ n # -1 => peer' = peer
      /\ peer' \in [Side -> {"open", "finished", "reset", "gone"}]
      /\ \A other \in Side : other # side => peer'[other] = peer[other]
  BY <1>5, <1>6
<1>9. ASSUME NEW other \in Side PROVE read'[other] <= sent'[other]
  <2>1. CASE other = side
    BY <2>1, <1>4, <1>5, <1>7, TypeFacts DEF Unread
  <2>2. CASE other # side
    BY <2>2, <1>5, <1>7 DEF TypeOK
  <2> QED
    BY <2>1, <2>2
<1> QED
  BY <1>4, <1>5, <1>7, <1>8, <1>9

LEMMA GaveFacts ==
  ASSUME TypeOK, NEW side \in Side, NEW bytes \in Seq(Byte), Gave(side, bytes)
  PROVE  /\ got'[side] = got[side] \o bytes
         /\ \A other \in Side : other # side => got'[other] = got[other]
         /\ got' \in [Side -> Seq(Byte)]
         /\ peer' = peer /\ sent' = sent /\ read' = read
<1>1. got \in [Side -> Seq(Byte)] /\ got[side] \o bytes \in Seq(Byte)
  BY ConcatProperties DEF TypeOK
<1> QED
  BY <1>1 DEF Gave

\* What a peer does by itself.
LEMMA PeersFacts ==
  ASSUME TypeOK, Peers
  PROVE  /\ UNCHANGED <<read, got, clientVars, relayVars>>
         /\ sent' \in [Side -> Nat]
         /\ peer' \in [Side -> {"open", "finished", "reset", "gone"}]
         /\ \A side \in Side :
              /\ read'[side] <= sent'[side]
              /\ peer[side] = "gone" => peer'[side] = "gone" /\ sent'[side] = sent[side]
              /\ peer'[side] = "gone" => peer[side] = "gone"
              /\ peer[side] = "finished" =>
                   peer'[side] \in {"finished", "reset"} /\ sent'[side] = sent[side]
              /\ peer'[side] \in {"open", "finished"} => peer[side] \in {"open", "finished"}
              /\ sent'[side] # sent[side] => MaySend(side) /\ sent'[side] = sent[side] + 1
<1>1. PICK side \in Side :
        \/ MaySend(side) /\ SendByte(side)
        \/ \E how \in {"finished", "reset"} : HangUp(side, how)
  BY DEF Peers
<1>2. UNCHANGED <<clientVars, relayVars>>
  BY DEF Peers
<1>3. /\ sent \in [Side -> Nat] /\ peer \in [Side -> {"open", "finished", "reset", "gone"}]
      /\ \A other \in Side : read[other] <= sent[other]
  BY DEF TypeOK
<1>4. CASE MaySend(side) /\ SendByte(side)
  BY <1>2, <1>3, <1>4, TypeFacts DEF SendByte
<1>5. CASE \E how \in {"finished", "reset"} : HangUp(side, how)
  BY <1>2, <1>3, <1>5, TypeFacts DEF HangUp
<1> QED
  BY <1>1, <1>4, <1>5

-----------------------------------------------------------------------------
(* One step after the other keeps the invariant.                            *)
LEMMA PeersInv ==
  ASSUME RelayInv, Peers
  PROVE  RelayInv'
<1> USE DEF RelayInv
<1>1. /\ read' = read /\ got' = got /\ pc' = pc /\ response' = response
      /\ buffer' = buffer /\ total' = total /\ wanted' = wanted /\ held' = held
      /\ mode' = mode /\ left' = left
  BY PeersFacts DEF clientVars, relayVars
<1>2. TypeOK'
  BY <1>1, PeersFacts DEF TypeOK
<1>3. Reading'
  <2>1. mode # "tunnel" => sent'["origin"] <= response.head + response.body
    <3>1. sent["origin"] \in Nat /\ response.head \in Nat /\ response.body \in Nat
      BY TypeFacts, ResponseFacts, SideFacts DEF TypeOK
    <3>2. sent'["origin"] # sent["origin"] =>
            MaySend("origin") /\ sent'["origin"] = sent["origin"] + 1
      BY PeersFacts, SideFacts
    <3>3. mode # "tunnel" /\ MaySend("origin") =>
            sent["origin"] < response.head + response.body
      BY SideFacts DEF MaySend
    <3> QED
      BY <3>1, <3>2, <3>3 DEF Reading
  <2>2. peer'["origin"] = "gone" => Unread("origin")' = 0
    BY <1>1, PeersFacts, SideFacts DEF Reading, Unread
  <2>3. pc' = "receiveMore" => total' >= 1 \/ peer'["origin"] = "gone"
    BY <1>1, PeersFacts, SideFacts DEF Reading
  <2> QED
    BY <1>1, <2>1, <2>2, <2>3 DEF Reading
<1>4. /\ Staying("client")' => Staying("client")
      /\ Staying("origin")' => Staying("origin")
      /\ peer'["origin"] # "gone" => peer["origin"] # "gone"
      /\ Lead' = Lead /\ Outgoing' = Outgoing /\ Incoming' = Incoming /\ Crashed' = Crashed
  BY <1>1, PeersFacts, SideFacts DEF Staying, Lead, Outgoing, Incoming, Crashed
<1>5. Ordered'
  <2>1. SUFFICES ASSUME OriginInOrder /\ ClientInOrder
                 PROVE  OriginInOrder' /\ ClientInOrder'
    BY <1>1 DEF Ordered
  <2>2. OriginInOrder'
    BY <1>1, <1>4, <2>1 DEF OriginInOrder, Numbered
  <2>3. ClientInOrder'
    BY <1>1, <1>4, <2>1 DEF ClientInOrder, Numbered
  <2> QED
    BY <2>2, <2>3
<1> QED
  BY <1>2, <1>3, <1>5

\* Steps that move no byte: from a place to another one with the same bytes on
\* their way, or to the end.
LEMMA QuietInv ==
  ASSUME RelayInv,
         UNCHANGED <<streams, response, buffer, total, wanted, held>>,
         mode' \in {"fetch", "chunked", "tunnel"},
         mode' = "tunnel" <=> mode = "tunnel",
         left' \in 0 .. Timeout,
         \/ pc = "received" /\ pc' = "sendResponse"
         \/ pc = "select" /\ pc' \in {"select", "receive"}
         \/ pc \in {"null", "select"} /\ pc' = "done"
         \/ pc = "received" /\ held = <<>> /\ pc' = "done"
  PROVE  RelayInv'
<1>1. /\ peer' = peer /\ sent' = sent /\ read' = read /\ got' = got
      /\ response' = response /\ buffer' = buffer /\ total' = total
      /\ wanted' = wanted /\ held' = held
  BY DEF streams
<1>2. TypeOK'
  BY <1>1 DEF RelayInv, TypeOK
<1>3. Reading'
  BY <1>1 DEF RelayInv, Reading, Unread
<1>4. /\ Lead' = Lead /\ Outgoing' = Outgoing /\ Incoming' = Incoming
      /\ ~Crashed' /\ ~Crashed
      /\ \A side \in Side : Staying(side)' = Staying(side)
  BY <1>1 DEF Lead, Outgoing, Incoming, Crashed, Staying
<1>5. ASSUME OriginInOrder PROVE OriginInOrder'
  BY <1>1, <1>4, <1>5, SideFacts DEF OriginInOrder, Numbered
<1>6. ASSUME ClientInOrder PROVE ClientInOrder'
  BY <1>1, <1>4, <1>6, SideFacts DEF ClientInOrder, Numbered
<1> QED
  BY <1>1, <1>2, <1>3, <1>5, <1>6 DEF RelayInv, Ordered

LEMMA QuietStepsInv ==
  ASSUME RelayInv, Received \/ ReceivedNull \/ SelectOrigin \/ SelectTimeout \/ Tick
  PROVE  RelayInv'
<1>1. CASE Received
  BY <1>1, QuietInv DEF Received, RelayInv, TypeOK
<1>2. CASE ReceivedNull
  BY <1>2, QuietInv DEF ReceivedNull, RelayInv, TypeOK, relayVars
<1>3. CASE SelectOrigin
  BY <1>3, QuietInv DEF SelectOrigin, RelayInv, TypeOK, relayVars
<1>4. CASE SelectTimeout
  BY <1>4, QuietInv DEF SelectTimeout, RelayInv, TypeOK, relayVars
<1>5. CASE Tick
  <2>1. left' \in 0 .. Timeout
    BY <1>5, RelayAssumption DEF Tick, RelayInv, TypeOK
  <2> QED
    BY <1>5, <2>1, QuietInv DEF Tick, RelayInv, TypeOK, clientVars
<1> QED
  BY <1>1, <1>2, <1>3, <1>4, <1>5

-----------------------------------------------------------------------------
\* A send loop, for either side: it is done with all of held, it gives a part of
\* it to a peer that takes it, or the peer has reset the connection.
SendPlaces(side) ==
  IF side = "origin" THEN {"select", "receive"} ELSE {"done", "receive", "select"}

LEMMA SendFacts ==
  ASSUME RelayInv,
         NEW side \in Side, NEW at, NEW next \in SendPlaces(side),
         SendAll(at, side, next, "done"),
         at = IF side = "origin" THEN "sendRequest" ELSE "sendResponse"
  PROVE  /\ pc = at /\ peer' = peer /\ sent' = sent /\ read' = read
         /\ response' = response /\ buffer' = buffer /\ total' = total /\ wanted' = wanted
         /\ \/ held = <<>> /\ pc' = next /\ held' = held /\ got' = got
            \/ /\ Staying(side)
               /\ \E n \in 1 .. Len(held) :
                    /\ Gave(side, SubSeq(held, 1, n))
                    /\ held' = SubSeq(held, n + 1, Len(held))
                    /\ pc' = IF n = Len(held) THEN next ELSE at
            \/ /\ ~Staying(side) /\ got' = got
               /\ \/ pc' \in {next, "done"} /\ held' = <<>>
                  \/ pc' = "killed" /\ held' = held
<1>1. /\ pc = at
      /\ \/ /\ held = <<>> /\ pc' = next
            /\ UNCHANGED <<response, buffer, total, wanted, held, streams>>
         \/ held # <<>> /\ peer[side] \in {"open", "finished"} /\ SendPart(at, side, next)
         \/ held # <<>> /\ peer[side] \in {"reset", "gone"} /\ SendToGone(next, "done")
  BY DEF SendAll
<1>2. CASE held = <<>> /\ pc' = next /\ UNCHANGED <<response, buffer, total, wanted, held, streams>>
  BY <1>1, <1>2 DEF streams
<1>3. CASE held # <<>> /\ peer[side] \in {"open", "finished"} /\ SendPart(at, side, next)
  <2>1. PICK n \in 1 .. Len(held) :
          /\ Gave(side, SubSeq(held, 1, n))
          /\ held' = SubSeq(held, n + 1, Len(held))
          /\ pc' = (IF n = Len(held) THEN next ELSE at)
          /\ UNCHANGED <<response, buffer, total, wanted>>
    BY <1>3 DEF SendPart
  <2>2. peer' = peer /\ sent' = sent /\ read' = read
    BY <2>1 DEF Gave
  <2> QED
    BY <1>1, <1>3, <2>1, <2>2 DEF Staying
<1>4. CASE held # <<>> /\ peer[side] \in {"reset", "gone"} /\ SendToGone(next, "done")
  <2>1. /\ UNCHANGED <<response, buffer, total, wanted, peer, sent, read, got>>
        /\ \/ pc' \in {next, "done"} /\ held' = <<>>
           \/ pc' = "killed" /\ held' = held
    BY <1>4 DEF SendToGone, Crash, streams
  <2>2. ~Staying(side)
    BY <1>4 DEF Staying
  <2> QED
    BY <1>1, <2>1, <2>2
<1> QED
  BY <1>1, <1>2, <1>3, <1>4

\* What it leaves of the invariant, whatever it sends.
LEMMA SendKeeps ==
  ASSUME RelayInv,
         NEW side \in Side, NEW at, NEW next \in SendPlaces(side),
         SendAll(at, side, next, "done"),
         at = IF side = "origin" THEN "sendRequest" ELSE "sendResponse",
         UNCHANGED relayVars
  PROVE  TypeOK' /\ Reading' /\ Lead' = Lead /\ UNCHANGED <<response, peer>>
<1>1. /\ peer' = peer /\ sent' = sent /\ read' = read /\ response' = response
      /\ buffer' = buffer /\ total' = total /\ wanted' = wanted
      /\ mode' = mode /\ left' = left
  BY SendFacts DEF relayVars
<1>2. held \in Seq(Byte) /\ got \in [Side -> Seq(Byte)]
  BY DEF RelayInv, TypeOK
<1>3. /\ pc = at
      /\ pc' \in {"sendRequest", "sendResponse", "done", "receive", "select", "killed"}
  BY SendFacts DEF SendPlaces
<1>4. held' \in Seq(Byte) /\ got' \in [Side -> Seq(Byte)]
  <2>1. CASE held' = held /\ got' = got
    BY <1>2, <2>1
  <2>2. CASE held' = <<>> /\ got' = got
    BY <1>2, <2>2
  <2>3. ASSUME NEW n \in 1 .. Len(held),
               Gave(side, SubSeq(held, 1, n)), held' = SubSeq(held, n + 1, Len(held))
        PROVE  held' \in Seq(Byte) /\ got' \in [Side -> Seq(Byte)]
    <3>1. SubSeq(held, 1, n) \in Seq(Byte) /\ SubSeq(held, n + 1, Len(held)) \in Seq(Byte)
      BY <1>2, SubSeqProperties
    <3> QED
      BY <2>3, <3>1, GaveFacts DEF RelayInv
  <2> QED
    BY <2>1, <2>2, <2>3, SendFacts
<1>5. TypeOK'
  BY <1>1, <1>3, <1>4 DEF RelayInv, TypeOK
<1>6. Reading'
  BY <1>1, <1>3 DEF RelayInv, Reading, Unread
<1> QED
  BY <1>1, <1>5, <1>6 DEF Lead

LEMMA SendRequestInv ==
  ASSUME RelayInv, SendRequest
  PROVE  RelayInv'
<1> DEFINE next == IF mode = "tunnel" THEN "select" ELSE "receive"
<1>1. SendAll("sendRequest", "origin", next, "done") /\ UNCHANGED relayVars
  BY DEF SendRequest
<1>2. next \in SendPlaces("origin")
  BY DEF SendPlaces
<1> HIDE DEF next
<1>3. /\ TypeOK' /\ Reading' /\ Lead' = Lead /\ response' = response /\ peer' = peer
  BY <1>1, <1>2, SendKeeps, SideFacts
<1>4. /\ pc = "sendRequest" /\ read' = read
      /\ pc' \in {"sendRequest", "select", "receive", "done", "killed"}
      /\ got'["client"] = got["client"]
  <2>1. got'["client"] = got["client"]
    BY <1>1, <1>2, SendFacts, SideFacts DEF Gave, RelayInv, TypeOK
  <2> QED
    BY <1>1, <1>2, <2>1, SendFacts, SideFacts DEF SendPlaces
<1>5. ASSUME ClientInOrder PROVE ClientInOrder'
  BY <1>3, <1>4, <1>5 DEF ClientInOrder, Numbered, Staying, Incoming, Crashed
<1>6. ASSUME OriginInOrder PROVE OriginInOrder'
  <2>1. CASE held = <<>> /\ pc' = next /\ held' = held /\ got' = got
    <3>1. Len(held) = 0 /\ pc' # "sendRequest"
      BY <1>2, <2>1 DEF SendPlaces
    <3> QED
      BY <1>3, <1>4, <1>6, <2>1, <3>1 DEF OriginInOrder, Numbered, Staying, Outgoing
  <2>2. CASE ~Staying("origin") /\ got' = got
    BY <1>3, <1>6, <2>2 DEF OriginInOrder, Numbered, Staying
  <2>3. ASSUME Staying("origin"), NEW n \in 1 .. Len(held),
               Gave("origin", SubSeq(held, 1, n)),
               held' = SubSeq(held, n + 1, Len(held)),
               pc' = IF n = Len(held) THEN next ELSE "sendRequest"
        PROVE  OriginInOrder'
    <3> DEFINE k == Len(got["origin"])
    <3>1. /\ held \in Seq(Byte) /\ k \in Nat /\ got["origin"] \in Seq(Byte)
          /\ Numbered(got["origin"], 0) /\ Numbered(held, k)
          /\ k + Len(held) = read["client"] /\ n \in 0 .. Len(held)
      BY <1>4, <1>6, <2>3, TypeFacts, SideFacts
         DEF OriginInOrder, Outgoing, RelayInv, TypeOK
    <3>2. /\ SubSeq(held, 1, n) \in Seq(Byte) /\ Len(SubSeq(held, 1, n)) = n
          /\ Numbered(SubSeq(held, 1, n), k)
          /\ Len(held') = Len(held) - n /\ Numbered(held', k + n)
      BY <2>3, <3>1, NumberedParts
    <3>3. got'["origin"] = got["origin"] \o SubSeq(held, 1, n)
      BY <2>3, <3>2, GaveFacts, SideFacts DEF RelayInv
    <3>4. Numbered(got'["origin"], 0) /\ Len(got'["origin"]) = k + n
      <4>1. 0 + Len(got["origin"]) = k /\ 0 \in Int
        BY <3>1
      <4>2. Numbered(SubSeq(held, 1, n), 0 + Len(got["origin"]))
        BY <3>2, <4>1
      <4>3. /\ Numbered(got["origin"] \o SubSeq(held, 1, n), 0)
            /\ Len(got["origin"] \o SubSeq(held, 1, n)) = k + n
        BY <3>1, <3>2, <4>1, <4>2, NumberedConcat
      <4> QED
        BY <3>3, <4>3
    <3>5. Outgoing' = Len(held')
      BY <1>2, <2>3, <3>1, <3>2 DEF Outgoing, SendPlaces
    <3> HIDE DEF k
    <3> QED
      BY <1>4, <3>1, <3>2, <3>4, <3>5 DEF OriginInOrder
  <2> QED
    BY <1>1, <1>2, <2>1, <2>2, <2>3, SendFacts, SideFacts
<1> QED
  BY <1>3, <1>5, <1>6 DEF RelayInv, Ordered

LEMMA SendResponseInv ==
  ASSUME RelayInv, SendResponse
  PROVE  RelayInv'
<1> DEFINE next == CASE mode = "fetch"   -> "done"
                     [] mode = "chunked" -> "receive"
                     [] mode = "tunnel"  -> "select"
<1>1. SendAll("sendResponse", "client", next, "done") /\ UNCHANGED relayVars
  BY DEF SendResponse
<1>2. next \in SendPlaces("client") /\ next \in {"done", "receive", "select"}
  BY DEF SendPlaces, RelayInv, TypeOK
<1> HIDE DEF next
<1>3. TypeOK' /\ Reading' /\ Lead' = Lead /\ response' = response /\ peer' = peer
  BY <1>1, <1>2, SendKeeps, SideFacts
<1>4. /\ pc = "sendResponse" /\ read' = read
      /\ pc' \in {"sendResponse", "select", "receive", "done", "killed"}
      /\ got'["origin"] = got["origin"]
  <2>1. got'["origin"] = got["origin"]
    BY <1>1, <1>2, SendFacts, SideFacts DEF Gave, RelayInv, TypeOK
  <2> QED
    BY <1>1, <1>2, <2>1, SendFacts, SideFacts
<1>5. ASSUME OriginInOrder PROVE OriginInOrder'
  BY <1>3, <1>4, <1>5 DEF OriginInOrder, Numbered, Staying, Outgoing
<1>6. ASSUME ClientInOrder PROVE ClientInOrder'
  <2>1. CASE held = <<>> /\ pc' = next /\ held' = held /\ got' = got
    <3>1. Incoming = 0 /\ Incoming' = 0 /\ pc' \notin {"received", "sendResponse", "receiveMore"}
      BY <1>2, <1>4, <2>1 DEF Incoming
    <3> QED
      BY <1>3, <1>4, <1>6, <2>1, <3>1 DEF ClientInOrder, Numbered, Staying, Crashed
  <2>2. CASE ~Staying("client") /\ got' = got
    BY <1>3, <1>6, <2>2 DEF ClientInOrder, Numbered, Staying
  <2>3. ASSUME Staying("client"), NEW n \in 1 .. Len(held),
               Gave("client", SubSeq(held, 1, n)),
               held' = SubSeq(held, n + 1, Len(held)),
               pc' = IF n = Len(held) THEN next ELSE "sendResponse"
        PROVE  ClientInOrder'
    <3> DEFINE k == Len(got["client"]) - Lead
    <3>0. Lead \in Int /\ Len(held) \in Nat /\ Len(got["client"]) \in Nat
      BY TypeFacts, SideFacts DEF RelayInv
    <3>1. /\ held \in Seq(Byte) /\ k \in Int /\ got["client"] \in Seq(Byte)
          /\ 0 - Lead \in Int /\ n \in 0 .. Len(held)
          /\ Numbered(got["client"], 0 - Lead) /\ Numbered(held, k)
      <4>1. held \in Seq(Byte) /\ got["client"] \in Seq(Byte)
        BY TypeFacts, SideFacts DEF RelayInv, TypeOK
      <4>2. Numbered(got["client"], 0 - Lead) /\ Numbered(held, k)
        BY <1>4, <1>6, <2>3 DEF ClientInOrder
      <4> QED
        BY <2>3, <3>0, <4>1, <4>2
    <3>2. /\ SubSeq(held, 1, n) \in Seq(Byte) /\ Len(SubSeq(held, 1, n)) = n
          /\ Numbered(SubSeq(held, 1, n), k)
          /\ Len(held') = Len(held) - n /\ Numbered(held', k + n)
      BY <2>3, <3>1, NumberedParts
    <3>3. got'["client"] = got["client"] \o SubSeq(held, 1, n)
      BY <2>3, <3>2, GaveFacts, SideFacts DEF RelayInv
    <3>4. /\ Numbered(got'["client"], 0 - Lead)
          /\ Len(got'["client"]) = Len(got["client"]) + n
      <4>1. 0 - Lead + Len(got["client"]) = k
        <5> DEFINE a == Lead
                   b == Len(got["client"])
        <5>1. a \in Int /\ b \in Int
          BY <3>0
        <5> HIDE DEF a, b
        <5>2. 0 - a + b = b - a
          BY <5>1
        <5> QED
          BY <5>2 DEF a, b
      <4>2. Numbered(SubSeq(held, 1, n), 0 - Lead + Len(got["client"]))
        BY <3>2, <4>1
      <4>3. /\ Numbered(got["client"] \o SubSeq(held, 1, n), 0 - Lead)
            /\ Len(got["client"] \o SubSeq(held, 1, n)) = Len(got["client"]) + n
        BY <3>1, <3>2, <4>2, NumberedConcat
      <4> QED
        BY <3>3, <4>3
    <3>5. k + n = Len(got'["client"]) - Lead
      BY <3>0, <3>1, <3>4
    <3>6. Incoming = Len(held) /\ Incoming' = Len(held')
      BY <1>2, <1>4, <2>3, <3>0, <3>1, <3>2 DEF Incoming
    <3>7. peer["origin"] # "gone" => Len(got["client"]) + Len(held) = Lead + read["origin"]
      BY <1>4, <1>6, <2>3, <3>6 DEF ClientInOrder, Crashed
    <3>8. peer["origin"] # "gone" /\ ~Crashed' =>
            Len(got'["client"]) + Incoming' = Lead + read["origin"]
      BY <3>0, <3>1, <3>2, <3>4, <3>6, <3>7 DEF Crashed
    <3>9. pc' # "receiveMore"
      BY <1>4
    <3> HIDE DEF k
    <3> QED
      BY <1>3, <1>4, <3>2, <3>4, <3>5, <3>8, <3>9 DEF ClientInOrder
  <2> QED
    BY <1>1, <1>2, <2>1, <2>2, <2>3, SendFacts, SideFacts
<1> QED
  BY <1>3, <1>5, <1>6 DEF RelayInv, Ordered

-----------------------------------------------------------------------------
LEMMA SelectClientInv ==
  ASSUME RelayInv, SelectClient
  PROVE  RelayInv'
<1>1. PICK n \in Recv("client", BufferSize) :
        /\ Took("client", n)
        /\ held' = Bytes("client", n)
        /\ pc' = IF n = -1 THEN "done" ELSE "sendRequest"
  BY DEF SelectClient
<1>2. /\ pc = "select" /\ response' = response /\ buffer' = buffer /\ total' = total
      /\ wanted' = wanted /\ mode' = mode /\ left' = left
  BY DEF SelectClient, relayVars
<1>3. /\ n \in Int /\ n >= -1
      /\ n = -1 => peer'["client"] = "gone"
      /\ n # -1 => peer' = peer
      /\ read'["client"] = read["client"] + (IF n > 0 THEN n ELSE 0)
      /\ peer'["origin"] = peer["origin"] /\ read'["origin"] = read["origin"]
      /\ sent' = sent /\ got' = got
      /\ peer' \in [Side -> {"open", "finished", "reset", "gone"}]
      /\ read' \in [Side -> Nat]
      /\ \A other \in Side : read'[other] <= sent'[other]
  BY <1>1, TookFacts, SideFacts DEF RelayInv
<1>4. /\ held' \in Seq(Byte) /\ Len(held') = (IF n > 0 THEN n ELSE 0)
      /\ \A i \in 1 .. Len(held') : held'[i] = read["client"] + i
  <2>1. read["client"] \in Nat
    BY TypeFacts, SideFacts DEF RelayInv
  <2>2. held' \in [1 .. n -> Byte] /\ \A i \in 1 .. n : held'[i] = read["client"] + i
    BY <1>1, <1>3, <2>1, ByteFacts DEF Bytes
  <2>3. CASE n >= 0
    BY <1>3, <2>2, <2>3, FunctionIsSeq
  <2>4. CASE n = -1
    <3>1. 1 .. n = 1 .. 0
      BY <2>4
    <3>2. held' \in Seq(Byte) /\ Len(held') = 0
      BY <2>2, <3>1, FunctionIsSeq
    <3> QED
      BY <2>4, <3>2
  <2> QED
    BY <1>3, <2>3, <2>4
<1>5. TypeOK'
  BY <1>1, <1>2, <1>3, <1>4 DEF RelayInv, TypeOK
<1>6. Reading'
  BY <1>1, <1>2, <1>3 DEF RelayInv, Reading, Unread
<1>7. Lead' = Lead /\ Incoming = 0 /\ Incoming' = 0
  BY <1>1, <1>2 DEF Lead, Incoming
<1>8. ASSUME ClientInOrder PROVE ClientInOrder'
  <2>1. pc' \in {"done", "sendRequest"} /\ (Staying("client")' => Staying("client"))
    BY <1>1, <1>3 DEF Staying
  <2> QED
    BY <1>2, <1>3, <1>7, <1>8, <2>1 DEF ClientInOrder, Numbered, Crashed
<1>9. ASSUME OriginInOrder PROVE OriginInOrder'
  <2>1. Staying("origin")' <=> Staying("origin")
    BY <1>3 DEF Staying
  <2>2. Outgoing = 0 /\ Outgoing' = (IF n > 0 THEN n ELSE 0)
    BY <1>1, <1>2, <1>3, <1>4 DEF Outgoing
  <2>3. Len(got["origin"]) \in Nat
    BY TypeFacts, SideFacts DEF RelayInv
  <2>4. ASSUME Staying("origin")
        PROVE  /\ Len(got["origin"]) = read["client"]
               /\ Numbered(held', Len(got["origin"]))
    <3>1. Len(got["origin"]) = read["client"]
      BY <1>9, <2>2, <2>3, <2>4 DEF OriginInOrder
    <3> QED
      BY <1>4, <3>1 DEF Numbered
  <2>5. Numbered(got'["origin"], 0)
    BY <1>3, <1>9 DEF OriginInOrder
  <2> QED
    BY <1>3, <2>1, <2>2, <2>3, <2>4, <2>5 DEF OriginInOrder
<1> QED
  BY <1>2, <1>5, <1>6, <1>8, <1>9 DEF RelayInv, Ordered

-----------------------------------------------------------------------------
\* The buffer after a recv() behind what it holds.
LEMMA WrittenFacts ==
  ASSUME TypeOK, NEW n \in Int, n >= -1, total + n >= 0, total + n <= BufferSize
  PROVE  /\ Written(n) \in [1 .. BufferSize -> Nat]
         /\ \A i \in 1 .. total + n :
              Written(n)[i] = IF i <= total THEN buffer[i] ELSE read["origin"] + i - total
         /\ SubSeq(Written(n), 1, total + n) \in Seq(Byte)
         /\ Len(SubSeq(Written(n), 1, total + n)) = total + n
         /\ \A i \in 1 .. total + n : SubSeq(Written(n), 1, total + n)[i] = Written(n)[i]
         /\ n = 0 => Written(n) = buffer
<1> DEFINE b == Written(n)
<1>1. /\ total \in Nat /\ BufferSize \in Nat /\ read["origin"] \in Nat
      /\ buffer \in [1 .. BufferSize -> Nat]
  BY TypeFacts, SideFacts DEF TypeOK
<1>2. b = [i \in 1 .. BufferSize |->
             IF i \in total + 1 .. total + n THEN read["origin"] + i - total ELSE buffer[i]]
  BY DEF Written
<1> HIDE DEF b
<1>3. /\ b \in [1 .. BufferSize -> Nat]
      /\ \A i \in 1 .. BufferSize :
           b[i] = IF i \in total + 1 .. total + n THEN read["origin"] + i - total ELSE buffer[i]
  BY <1>1, <1>2
<1>4. \A i \in 1 .. total + n :
        b[i] = IF i <= total THEN buffer[i] ELSE read["origin"] + i - total
  BY <1>1, <1>3
<1>5. \A i \in 1 .. total + n : b[i] \in Byte
  BY <1>1, <1>3, ByteFacts
<1>7. /\ SubSeq(b, 1, total + n) \in Seq(Byte)
      /\ Len(SubSeq(b, 1, total + n)) = total + n
      /\ \A i \in 1 .. total + n : SubSeq(b, 1, total + n)[i] = b[i]
  <2> DEFINE m == total + n
  <2>1. m \in Int /\ m >= 0 /\ \A i \in 1 .. m : b[i] \in Byte
    BY <1>1, <1>5
  <2> HIDE DEF m
  <2>2. /\ SubSeq(b, 1, m) \in Seq(Byte) /\ Len(SubSeq(b, 1, m)) = m
        /\ \A i \in 1 .. m : SubSeq(b, 1, m)[i] = b[i]
    BY <2>1, SubSeqProperties
  <2> QED
    BY <2>2 DEF m
<1>8. n = 0 => b = buffer
  <2> SUFFICES ASSUME n = 0 PROVE b = buffer
    OBVIOUS
  <2>1. \A i \in 1 .. BufferSize : b[i] = buffer[i]
    BY <1>1, <1>3
  <2> QED
    BY <1>1, <1>3, <2>1
<1> QED
  BY <1>3, <1>4, <1>7, <1>8 DEF b

\* What recvResponse() can do with what recv() returned: read on, return the
\* bytes of the buffer or, encoded, all of it, return NULL, or crash.
ReadsOn(n) ==
  /\ n > 0 \/ (n = -1 /\ pc = "receiveMore")
  /\ total + n <= BufferSize
  /\ pc' = "receiveMore" /\ buffer' = Written(n) /\ total' = total + n /\ held' = held
Returns(n) ==
  /\ n >= 0 \/ pc = "receiveMore"
  /\ total + n <= BufferSize
  /\ pc' = "received" /\ buffer' = Padding /\ total' = 0
  /\ held' = SubSeq(Written(n), 1, total + n)
ReturnsAll(n) ==
  /\ response.encoded /\ pc = "receive" /\ n >= 0
  /\ pc' = "received" /\ buffer' = Padding /\ total' = 0 /\ held' = Written(n)
ReturnsNull(n) ==
  /\ pc = "receive" /\ n = -1
  /\ pc' = "null" /\ buffer' = Padding /\ total' = 0 /\ held' = held
Crashes ==
  pc' \in {"killed", "undefined"} /\ buffer' = buffer /\ total' = total /\ held' = held

LEMMA RecvInv ==
  ASSUME RelayInv, pc \in {"receive", "receiveMore"},
         NEW n \in Recv("origin", BufferSize), Took("origin", n),
         response' = response, mode' = mode, left' = left, wanted' \in 0 .. MaxInt,
         ReadsOn(n) \/ Returns(n) \/ ReturnsAll(n) \/ ReturnsNull(n) \/ Crashes
  PROVE  RelayInv'
<1>1. /\ n \in Int /\ n >= -1 /\ n <= BufferSize
      /\ n > 0 => n <= Unread("origin")
      /\ n <= 0 => Unread("origin") = 0
      /\ n = -1 => peer["origin"] = "reset" /\ peer'["origin"] = "gone"
      /\ n # -1 => peer' = peer
      /\ n = 0 => peer["origin"] \in {"finished", "gone"}
      /\ read'["origin"] = read["origin"] + (IF n > 0 THEN n ELSE 0)
      /\ peer'["client"] = peer["client"] /\ read'["client"] = read["client"]
      /\ sent' = sent /\ got' = got
      /\ peer' \in [Side -> {"open", "finished", "reset", "gone"}]
      /\ read' \in [Side -> Nat]
      /\ \A other \in Side : read'[other] <= sent'[other]
  BY TookFacts, SideFacts DEF RelayInv
<1>2. /\ total \in Nat /\ total <= BufferSize /\ BufferSize \in Nat /\ BufferSize >= 1
      /\ sent["origin"] \in Nat /\ read["origin"] \in Nat
      /\ buffer \in [1 .. BufferSize -> Nat] /\ held \in Seq(Byte)
      /\ total <= read["origin"]
      /\ pc = "receive" => total = 0
      /\ pc = "receiveMore" => total >= 1 \/ peer["origin"] = "gone"
      /\ peer["origin"] = "gone" => Unread("origin") = 0
  BY TypeFacts, SideFacts DEF RelayInv, TypeOK, Reading
<1>3. (n >= 0 \/ pc = "receiveMore") => total + n >= 0
  BY <1>1, <1>2
<1>4. ReadsOn(n) \/ Returns(n) =>
        total + n >= 0 /\ total + n <= BufferSize
  BY <1>1, <1>2, <1>3 DEF ReadsOn, Returns
<1>5. TypeOK'
  <2>1. /\ total' \in 0 .. BufferSize /\ buffer' \in [1 .. BufferSize -> Nat]
        /\ held' \in Seq(Byte)
    <3>1. CASE ReadsOn(n)
      <4>1. Written(n) \in [1 .. BufferSize -> Nat]
        BY <1>1, <1>4, <3>1, WrittenFacts DEF RelayInv
      <4>2. total + n \in 0 .. BufferSize
        BY <1>1, <1>2, <1>4, <3>1
      <4> QED
        BY <1>2, <3>1, <4>1, <4>2 DEF ReadsOn
    <3>2. CASE Returns(n)
      <4>1. SubSeq(Written(n), 1, total + n) \in Seq(Byte)
        BY <1>1, <1>4, <3>2, WrittenFacts DEF RelayInv
      <4>2. held' \in Seq(Byte) /\ buffer' = Padding /\ total' = 0
        BY <3>2, <4>1 DEF Returns
      <4> QED
        BY <1>2, <4>2, PaddingFacts
    <3>3. CASE ReturnsAll(n)
      <4>0. total + n >= 0 /\ total + n <= BufferSize
        BY <1>1, <1>2, <3>3 DEF ReturnsAll
      <4>1. Written(n) \in [1 .. BufferSize -> Nat]
        BY <1>1, <4>0, WrittenFacts DEF RelayInv
      <4>2. Written(n) \in [1 .. BufferSize -> Byte]
        BY <4>1, ByteFacts
      <4> QED
        BY <1>2, <3>3, <4>2, PaddingFacts, FunctionIsSeq DEF ReturnsAll
    <3>4. CASE ReturnsNull(n)
      BY <1>2, <3>4, PaddingFacts DEF ReturnsNull
    <3>5. CASE Crashes
      BY <1>2, <3>5 DEF Crashes
    <3> QED
      BY <3>1, <3>2, <3>3, <3>4, <3>5
  <2>2. pc' \in {"receiveMore", "received", "null", "killed", "undefined"}
    BY DEF ReadsOn, Returns, ReturnsAll, ReturnsNull, Crashes
  <2> QED
    BY <1>1, <2>1, <2>2 DEF RelayInv, TypeOK
<1>6. Reading'
  <2>1. pc' = "receiveMore" => total' >= 1 \/ peer'["origin"] = "gone"
    BY <1>1, <1>2 DEF ReadsOn, Returns, ReturnsAll, ReturnsNull, Crashes
  <2>2. pc' \notin {"receiveMore", "killed", "undefined"} => buffer' = Padding /\ total' = 0
    BY DEF ReadsOn, Returns, ReturnsAll, ReturnsNull, Crashes
  <2>3. peer'["origin"] = "gone" => Unread("origin")' = 0
    BY <1>1, <1>2 DEF Unread
  <2>4. total' <= read'["origin"]
    BY <1>1, <1>2 DEF ReadsOn, Returns, ReturnsAll, ReturnsNull, Crashes
  <2>5. mode' # "tunnel" => sent'["origin"] <= (response.head + response.body)'
    BY <1>1 DEF RelayInv, Reading
  <2> QED
    BY <2>1, <2>2, <2>3, <2>4, <2>5 DEF Reading
<1>7. Lead' = Lead /\ Outgoing = 0 /\ Outgoing' = 0 /\ Staying("client")' = Staying("client")
  BY <1>1 DEF Lead, Outgoing, Staying, ReadsOn, Returns, ReturnsAll, ReturnsNull, Crashes
<1>8. pc' # "sendRequest" /\ (Staying("origin")' => Staying("origin"))
  BY <1>1 DEF Staying, ReadsOn, Returns, ReturnsAll, ReturnsNull, Crashes
<1>9. ASSUME OriginInOrder PROVE OriginInOrder'
  BY <1>1, <1>7, <1>8, <1>9 DEF OriginInOrder, Numbered
<1>10. ASSUME ClientInOrder, ~response.encoded PROVE ClientInOrder'
  <2> DEFINE k == Len(got["client"]) - Lead
  <2>00. Len(got["client"]) \in Nat /\ Lead \in Nat
    BY TypeFacts, SideFacts DEF RelayInv
  <2>0. /\ Len(got["client"]) \in Nat /\ Lead \in Nat /\ k \in Int
        /\ Len(got["client"]) = Lead + k
    BY <2>00
  <2>1. Numbered(got'["client"], (0 - Lead)')
    BY <1>1, <1>7, <1>10 DEF ClientInOrder
  <2>2. ASSUME Staying("client")
        PROVE  /\ pc' = "received" => Numbered(held', k)
               /\ pc' = "receiveMore" => \A i \in 1 .. total' : buffer'[i] = k + i
               /\ peer'["origin"] # "gone" /\ ~Crashed' =>
                    Len(got["client"]) + Incoming' = Lead + read'["origin"]
    <3>1. /\ \A i \in 1 .. total : buffer[i] = k + i
          /\ peer["origin"] # "gone" => k + total = read["origin"]
      <4>1. Incoming = total
        BY <1>2 DEF Incoming
      <4>2. peer["origin"] # "gone" => Len(got["client"]) + total = Lead + read["origin"]
        BY <1>10, <2>2, <4>1 DEF ClientInOrder, Crashed
      <4>3. pc = "receiveMore" => \A i \in 1 .. total : buffer[i] = k + i
        BY <1>10, <2>2 DEF ClientInOrder
      <4> HIDE DEF k
      <4>4. peer["origin"] # "gone" => k + total = read["origin"]
        <5> DEFINE length == Len(got["client"])
                   lead == Lead
        <5>1. /\ length \in Nat /\ lead \in Nat /\ k \in Int /\ length = lead + k
              /\ peer["origin"] # "gone" => length + total = lead + read["origin"]
          BY <2>0, <4>2
        <5>2. total \in Nat /\ read["origin"] \in Nat
          BY <1>2
        <5> HIDE DEF length, lead
        <5> QED
          BY <5>1, <5>2
      <4>5. pc = "receive" => 1 .. total = {}
        BY <1>2
      <4> QED
        BY <4>3, <4>4, <4>5
    <3>2. ASSUME ReadsOn(n) \/ Returns(n)
          PROVE  /\ \A i \in 1 .. total + n : Written(n)[i] = k + i
                 /\ peer'["origin"] # "gone" => k + total + n = read'["origin"]
      <4>1. peer["origin"] = "gone" => n <= 0
        BY <1>1, <1>2
      <4>2. ASSUME NEW i \in 1 .. total + n PROVE Written(n)[i] = k + i
        <5>1. Written(n)[i] = IF i <= total THEN buffer[i] ELSE read["origin"] + i - total
          BY <1>1, <1>4, <3>2, WrittenFacts DEF RelayInv
        <5>2. CASE i <= total
          BY <1>1, <1>2, <3>1, <5>1, <5>2
        <5>3. CASE i > total
          <6>1. n > 0 /\ k + total = read["origin"]
            BY <1>1, <1>2, <3>1, <4>1, <5>3
          <6> HIDE DEF k
          <6> QED
            BY <1>1, <1>2, <2>0, <5>1, <5>3, <6>1
        <5> QED
          BY <1>1, <1>2, <5>2, <5>3
      <4>3. peer'["origin"] # "gone" => k + total + n = read'["origin"]
        <5> HIDE DEF k
        <5> QED
          BY <1>1, <1>2, <2>0, <3>1
      <4> QED
        BY <4>2, <4>3
    <3>3. CASE ReadsOn(n)
      <4>1. Incoming' = total + n
        BY <3>3 DEF Incoming, ReadsOn
      <4> HIDE DEF k
      <4> QED
        BY <1>1, <1>2, <2>0, <3>2, <3>3, <4>1 DEF ReadsOn
    <3>4. CASE Returns(n)
      <4>1. /\ Len(held') = total + n
            /\ \A i \in 1 .. total + n : held'[i] = Written(n)[i]
        BY <1>1, <1>4, <3>4, WrittenFacts DEF Returns, RelayInv
      <4>2. Incoming' = total + n
        BY <3>4, <4>1 DEF Incoming, Returns
      <4>3. Numbered(held', k)
        BY <3>2, <3>4, <4>1 DEF Numbered
      <4> HIDE DEF k
      <4> QED
        BY <1>1, <1>2, <2>0, <3>2, <3>4, <4>2, <4>3 DEF Returns
    <3>5. CASE ReturnsAll(n)
      BY <1>10, <3>5 DEF ReturnsAll
    <3>6. CASE ReturnsNull(n)
      <4>1. pc' = "null" /\ Incoming' = 0 /\ total = 0
        BY <1>2, <3>6 DEF ReturnsNull, Incoming
      <4>2. n = -1
        BY <3>6 DEF ReturnsNull
      <4> QED
        BY <1>1, <1>2, <2>0, <3>1, <4>1, <4>2
    <3>7. CASE Crashes
      BY <3>7 DEF Crashes, Crashed
    <3> QED
      BY <3>3, <3>4, <3>5, <3>6, <3>7
  <2>3. pc' # "sendResponse"
    BY DEF ReadsOn, Returns, ReturnsAll, ReturnsNull, Crashes
  <2> QED
    BY <1>1, <1>7, <2>1, <2>2, <2>3 DEF ClientInOrder
<1> QED
  BY <1>5, <1>6, <1>9, <1>10 DEF RelayInv, Ordered

\* The loop's condition decides between reading on and returning.
LEMMA LoopFacts ==
  ASSUME NEW n, Loop(Written(n), wanted', n)
  PROVE  /\ response' = response
         /\ \/ /\ BodySize(Written(n)) < wanted'
               /\ pc' = "receiveMore" /\ buffer' = Written(n) /\ total' = total + n
               /\ held' = held
            \/ /\ ~(BodySize(Written(n)) < wanted')
               /\ pc' = "received" /\ buffer' = Padding /\ total' = 0
               /\ held' = SubSeq(Written(n), 1, total + n)
BY DEF Loop, Return

LEMMA RecvFirstInv ==
  ASSUME RelayInv, RecvFirst, UNCHANGED relayVars
  PROVE  RelayInv'
<1>1. PICK n \in Recv("origin", BufferSize) :
        /\ Took("origin", n)
        /\ LET b == Written(n)  whole == FieldsKnown(b) /\ response.encoded IN
             IF n = -1 THEN Null
             ELSE IF whole THEN Return(b) /\ wanted' = 0
             ELSE IF LengthIn(b) > MaxInt THEN Crash("killed")
             ELSE Loop(b, LengthIn(b), n) /\ wanted' = LengthIn(b)
  BY DEF RecvFirst
<1>2. /\ pc = "receive" /\ total = 0 /\ buffer = Padding /\ mode' = mode /\ left' = left
      /\ wanted \in 0 .. MaxInt /\ 0 \in 0 .. MaxInt /\ response \in Response
  BY HttpClientAssumption DEF RecvFirst, relayVars, RelayInv, Reading, TypeOK
<1>3. n \in Int /\ n >= -1 /\ n <= BufferSize
  BY <1>1, TookFacts, SideFacts DEF RelayInv
<1>4. n # -1 => /\ total + n = n /\ n >= 0
                /\ Written(n) \in [1 .. BufferSize -> Nat]
                /\ (n = 0 => Written(n) = Padding)
  <2> SUFFICES ASSUME n # -1
               PROVE  /\ total + n = n /\ n >= 0
                      /\ Written(n) \in [1 .. BufferSize -> Nat]
                      /\ (n = 0 => Written(n) = Padding)
    OBVIOUS
  <2>1. total + n = n /\ n >= 0 /\ total + n >= 0 /\ total + n <= BufferSize
    BY <1>2, <1>3
  <2> QED
    BY <1>2, <1>3, <2>1, WrittenFacts DEF RelayInv
<1>5. CASE n = -1
  <2>1. response' = response /\ wanted' = wanted /\ ReturnsNull(n)
    BY <1>1, <1>2, <1>5 DEF Null, ReturnsNull
  <2> QED
    BY <1>1, <1>2, <2>1, RecvInv
<1>6. CASE n # -1 /\ FieldsKnown(Written(n)) /\ response.encoded
  <2>1. response' = response /\ wanted' = 0 /\ ReturnsAll(n)
    BY <1>1, <1>2, <1>4, <1>6 DEF Return, ReturnsAll
  <2> QED
    BY <1>1, <1>2, <2>1, RecvInv
<1>7. CASE /\ n # -1 /\ ~(FieldsKnown(Written(n)) /\ response.encoded)
           /\ LengthIn(Written(n)) > MaxInt
  <2>1. Crash("killed")
    BY <1>1, <1>7
  <2>2. response' = response /\ wanted' = wanted /\ Crashes
    BY <2>1 DEF Crash, Crashes
  <2> QED
    BY <1>1, <1>2, <2>2, RecvInv
<1>8. CASE /\ n # -1 /\ ~(FieldsKnown(Written(n)) /\ response.encoded)
           /\ ~(LengthIn(Written(n)) > MaxInt)
  <2>1. Loop(Written(n), wanted', n) /\ wanted' = LengthIn(Written(n))
    BY <1>1, <1>8
  <2>2. LengthIn(Written(n)) \in Nat
    BY <1>2, <1>4, <1>8, LengthInType
  <2>3. wanted' \in 0 .. MaxInt
    BY <1>8, <2>1, <2>2, HttpClientAssumption
  <2>4. n = 0 => ~(BodySize(Written(n)) < wanted')
    BY <1>4, <1>8, <2>1, PaddingFacts
  <2>5. response' = response /\ (ReadsOn(n) \/ Returns(n))
    <3>1. n >= 0 /\ total + n <= BufferSize
      BY <1>2, <1>3, <1>4, <1>8
    <3>2. ~(BodySize(Written(n)) < wanted') \/ n > 0
      BY <1>3, <2>4, <3>1
    <3> QED
      BY <2>1, <3>1, <3>2, LoopFacts DEF ReadsOn, Returns
  <2> QED
    BY <1>1, <1>2, <2>3, <2>5, RecvInv
<1> QED
  BY <1>5, <1>6, <1>7, <1>8

LEMMA RecvMoreInv ==
  ASSUME RelayInv, RecvMore, UNCHANGED relayVars
  PROVE  RelayInv'
<1>1. PICK n \in Recv("origin", BufferSize) :
        /\ Took("origin", n) /\ wanted' = wanted
        /\ IF total + n > BufferSize THEN Crash("undefined")
           ELSE IF n = 0 THEN Return(SubSeq(buffer, 1, total))
           ELSE Loop(Written(n), wanted, n)
  BY DEF RecvMore
<1>2. /\ pc = "receiveMore" /\ mode' = mode /\ left' = left
      /\ wanted \in 0 .. MaxInt /\ wanted' \in 0 .. MaxInt
      /\ total \in Nat /\ total <= BufferSize /\ BufferSize \in Nat
  BY <1>1, TypeFacts DEF RecvMore, relayVars, RelayInv, TypeOK
<1>3. n \in Int /\ n >= -1 /\ n <= BufferSize
  BY <1>1, TookFacts, SideFacts DEF RelayInv
<1>4. CASE total + n > BufferSize
  <2>1. Crash("undefined")
    BY <1>1, <1>4
  <2>2. response' = response /\ Crashes
    BY <2>1 DEF Crash, Crashes
  <2> QED
    BY <1>1, <1>2, <2>2, RecvInv
<1>5. CASE ~(total + n > BufferSize) /\ n = 0
  <2>1. Return(SubSeq(buffer, 1, total))
    BY <1>1, <1>5
  <2>2. total + n = total /\ total + n >= 0 /\ total + n <= BufferSize
    BY <1>2, <1>5
  <2>3. Written(n) = buffer
    BY <1>3, <1>5, <2>2, WrittenFacts DEF RelayInv
  <2>4. response' = response /\ Returns(n)
    BY <1>2, <1>5, <2>1, <2>2, <2>3 DEF Return, Returns
  <2> QED
    BY <1>1, <1>2, <2>4, RecvInv
<1>6. CASE ~(total + n > BufferSize) /\ n # 0
  <2>1. Loop(Written(n), wanted', n)
    BY <1>1, <1>6
  <2>2. total + n <= BufferSize /\ (n > 0 \/ n = -1)
    BY <1>2, <1>3, <1>6
  <2>3. response' = response /\ (ReadsOn(n) \/ Returns(n))
    BY <1>2, <2>1, <2>2, LoopFacts DEF ReadsOn, Returns
  <2> QED
    BY <1>1, <1>2, <2>3, RecvInv
<1> QED
  BY <1>4, <1>5, <1>6

-----------------------------------------------------------------------------
LEMMA StutterInv ==
  ASSUME RelayInv, UNCHANGED vars
  PROVE  RelayInv'
<1>1. UNCHANGED <<peer, sent, read, got, pc, response, buffer, total, wanted, held, mode, left>>
  BY DEF vars, streams, clientVars, relayVars
<1>2. TypeOK' /\ Reading'
  BY <1>1 DEF RelayInv, TypeOK, Reading, Unread
<1>3. Lead' = Lead /\ Outgoing' = Outgoing /\ Incoming' = Incoming /\ Crashed' = Crashed
  BY <1>1 DEF Lead, Outgoing, Incoming, Crashed
<1>4. Ordered'
  BY <1>1, <1>3 DEF RelayInv, Ordered, OriginInOrder, ClientInOrder, Numbered, Staying
<1> QED
  BY <1>2, <1>4 DEF RelayInv

LEMMA NextInv == RelayInv /\ [Next]_vars => RelayInv'
<1> SUFFICES ASSUME RelayInv, [Next]_vars PROVE RelayInv'
  OBVIOUS
<1>1. CASE SendRequest
  BY <1>1, SendRequestInv
<1>2. CASE SendResponse
  BY <1>2, SendResponseInv
<1>3. CASE Receive
  BY <1>3, RecvFirstInv, RecvMoreInv DEF Receive, RecvResponse
<1>4. CASE Received \/ ReceivedNull \/ SelectOrigin \/ SelectTimeout \/ Tick
  BY <1>4, QuietStepsInv
<1>5. CASE SelectClient
  BY <1>5, SelectClientInv
<1>6. CASE Peers
  BY <1>6, PeersInv
<1>7. CASE UNCHANGED vars
  BY <1>7, StutterInv
<1> QED
  BY <1>1, <1>2, <1>3, <1>4, <1>5, <1>6, <1>7 DEF Next, Thread

-----------------------------------------------------------------------------
\* What the invariant says of the bytes that the peers have.
LEMMA OrderedInOrder == TypeOK /\ Ordered => InOrder
<1> SUFFICES ASSUME TypeOK, Ordered, ~response.encoded PROVE InOrder
  BY DEF InOrder
<1>1. /\ Numbered(got["origin"], 0) /\ Numbered(got["client"], 0 - Lead)
      /\ got["origin"] \in Seq(Byte) /\ got["client"] \in Seq(Byte)
  BY TypeFacts, SideFacts DEF Ordered, OriginInOrder, ClientInOrder
<1>2. \A i \in DOMAIN got["origin"] : got["origin"][i] = i
  BY <1>1 DEF Numbered
<1> DEFINE ofOrigin == IF mode = "tunnel" /\ got["client"] # <<>>
                       THEN Tail(got["client"]) ELSE got["client"]
<1>3. \A i \in DOMAIN ofOrigin : ofOrigin[i] = i
  <2>1. CASE got["client"] = <<>>
    BY <2>1
  <2>2. CASE mode # "tunnel"
    <3>1. Numbered(got["client"], 0)
      BY <1>1, <2>2 DEF Lead
    <3> QED
      BY <1>1, <2>2, <3>1 DEF Numbered
  <2>3. CASE mode = "tunnel" /\ got["client"] # <<>>
    <3>1. Numbered(got["client"], 0 - 1)
      BY <1>1, <2>3 DEF Lead
    <3>2. /\ Tail(got["client"]) \in Seq(Byte)
          /\ Len(Tail(got["client"])) = Len(got["client"]) - 1
          /\ \A i \in 1 .. Len(Tail(got["client"])) : Tail(got["client"])[i] = got["client"][i + 1]
      BY <1>1, <2>3, HeadTailProperties
    <3>3. ASSUME NEW i \in 1 .. Len(Tail(got["client"]))
          PROVE  Tail(got["client"])[i] = i
      <4>1. Len(got["client"]) \in Nat
        BY <1>1
      <4>2. i + 1 \in 1 .. Len(got["client"]) /\ 0 - 1 + (i + 1) = i /\ i >= 1
        BY <3>2, <4>1
      <4>3. got["client"][i + 1] = i
        BY <3>1, <4>2 DEF Numbered
      <4> QED
        BY <3>2, <4>3
    <3>4. DOMAIN Tail(got["client"]) = 1 .. Len(Tail(got["client"]))
      BY <3>2
    <3> QED
      BY <2>3, <3>3, <3>4
  <2> QED
    BY <2>1, <2>2, <2>3
<1> HIDE DEF ofOrigin
<1>4. \A bytes \in {ofOrigin, got["origin"]} : \A i \in DOMAIN bytes : bytes[i] = i
  BY <1>2, <1>3
<1> QED
  BY <1>4 DEF InOrder, ofOrigin

\* A response that fits: recv() adds no more than is left of it.
LEMMA NextNoOverrun == RelayInv /\ NoOverrun /\ [Next]_vars => NoOverrun'
<1> SUFFICES ASSUME RelayInv, NoOverrun, [Next]_vars, mode' # "tunnel", Fits'
             PROVE  pc' # "undefined"
  BY DEF NoOverrun
<1>1. mode # "tunnel" /\ response' = response /\ Fits
  <2>1. CASE SendRequest
    BY <2>1 DEF SendRequest, SendAll, SendPart, SendToGone, Crash, relayVars, Fits
  <2>2. CASE SendResponse
    BY <2>2 DEF SendResponse, SendAll, SendPart, SendToGone, Crash, relayVars, Fits
  <2>3. CASE Receive
    BY <2>3 DEF Receive, RecvResponse, RecvFirst, RecvMore, Null, Return, Crash, Loop, relayVars, Fits
  <2>4. CASE Received \/ ReceivedNull \/ SelectOrigin \/ SelectTimeout \/ Tick
    BY <2>4 DEF Received, ReceivedNull, SelectOrigin, SelectTimeout, Tick, clientVars, relayVars, Fits
  <2>5. CASE SelectClient
    BY <2>5 DEF SelectClient, relayVars, Fits
  <2>6. CASE Peers
    BY <2>6 DEF Peers, clientVars, relayVars, Fits
  <2>7. CASE UNCHANGED vars
    BY <2>7 DEF vars, clientVars, relayVars, Fits
  <2> QED
    BY <2>1, <2>2, <2>3, <2>4, <2>5, <2>6, <2>7 DEF Next, Thread
<1>2. pc # "undefined"
  BY <1>1 DEF NoOverrun
<1>3. CASE RecvMore
  <2>1. PICK n \in Recv("origin", BufferSize) :
          /\ Took("origin", n) /\ wanted' = wanted
          /\ IF total + n > BufferSize THEN Crash("undefined")
             ELSE IF n = 0 THEN Return(SubSeq(buffer, 1, total))
             ELSE Loop(Written(n), wanted, n)
    BY <1>3 DEF RecvMore
  <2>2. /\ n \in Int /\ n >= -1 /\ (n > 0 => n <= Unread("origin"))
    BY <2>1, TookFacts, SideFacts DEF RelayInv
  <2>3. /\ total \in Nat /\ total <= BufferSize /\ BufferSize \in Nat
        /\ total <= read["origin"] /\ read["origin"] \in Nat /\ sent["origin"] \in Nat
        /\ sent["origin"] <= response.head + response.body
    BY <1>1, TypeFacts, SideFacts DEF RelayInv, Reading
  <2>4. response.head \in Nat /\ response.body \in Nat
    BY ResponseFacts DEF RelayInv, TypeOK
  <2>5. total + n <= BufferSize
    BY <1>1, <2>2, <2>3, <2>4 DEF Unread, Fits
  <2> QED
    BY <2>1, <2>2, <2>3, <2>5 DEF Return, Loop
<1>4. CASE RecvFirst
  BY <1>4 DEF RecvFirst, Null, Return, Crash, Loop
<1>5. CASE SendRequest
  BY <1>5 DEF SendRequest, SendAll, SendPart, SendToGone, Crash
<1>6. CASE SendResponse
  <2> DEFINE next == CASE mode = "fetch"   -> "done"
                       [] mode = "chunked" -> "receive"
                       [] mode = "tunnel"  -> "select"
  <2>1. SendAll("sendResponse", "client", next, "done")
    BY <1>6 DEF SendResponse
  <2>2. next \in {"done", "receive", "select"}
    BY DEF RelayInv, TypeOK
  <2> HIDE DEF next
  <2> QED
    BY <2>1, <2>2 DEF SendAll, SendPart, SendToGone, Crash
<1>7. CASE Received \/ ReceivedNull \/ SelectOrigin \/ SelectTimeout \/ Tick \/ SelectClient
  BY <1>2, <1>7 DEF Received, ReceivedNull, SelectOrigin, SelectTimeout, Tick, SelectClient, clientVars
<1>8. CASE Peers \/ UNCHANGED vars
  BY <1>2, <1>8 DEF Peers, vars, clientVars
<1> QED
  BY <1>3, <1>4, <1>5, <1>6, <1>7, <1>8 DEF Next, Thread, Receive, RecvResponse

-----------------------------------------------------------------------------
(* Why the tail of a response is not lost.  The buffer is zero behind what   *)
(* is counted, as long as no -1 has moved the count back, so its text is no  *)
(* longer than what has been read: when the text holds the body that the     *)
(* Content-Length announces, all of it has been read.                        *)
LEMMA TextBounded ==
  ASSUME NEW b \in [1 .. BufferSize -> Nat], NEW m \in Nat, m <= BufferSize,
         \A i \in m + 1 .. BufferSize : b[i] = 0
  PROVE  TextLength(b) \in Nat /\ TextLength(b) <= m
<1> DEFINE T == {n \in DOMAIN b : \A i \in 1 .. n : ~EndsText(b[i])}
<1>1. BufferSize \in Nat
  BY HttpClientAssumption
<1>2. ASSUME NEW k \in T, k > m PROVE FALSE
  <2>1. k \in Nat /\ k <= BufferSize /\ \A i \in 1 .. k : ~EndsText(b[i])
    BY <1>1
  <2>2. m + 1 \in 1 .. k /\ m + 1 \in m + 1 .. BufferSize
    BY <1>1, <1>2, <2>1
  <2>3. b[m + 1] = 0
    BY <2>2
  <2> QED
    BY <2>1, <2>2, <2>3 DEF EndsText
<1>3. T \in SUBSET (1 .. m)
  BY <1>1, <1>2
<1>4. IsFiniteSet(1 .. m) /\ Cardinality(1 .. m) = m
  BY FS_Interval
<1>5. Cardinality(T) <= m
  BY <1>3, <1>4, FS_Subset
<1> QED
  BY <1>5, TextLengthType DEF TextLength

LEMMA BodySizeType ==
  ASSUME response \in Response, NEW b \in [1 .. BufferSize -> Nat]
  PROVE  /\ BodySize(b) \in Nat
         /\ BodySize(b) > 0 => TextLength(b) = response.head + BodySize(b)
<1>1. response.head \in Nat /\ TextLength(b) \in Nat
  BY ResponseFacts, TextLengthType
<1> DEFINE text == TextLength(b)
<1>2. BodySize(b) = IF Begins(b) /\ text > response.head THEN text - response.head ELSE 0
  BY DEF BodySize
<1>3. text \in Nat
  BY <1>1
<1> HIDE DEF text
<1>4. /\ BodySize(b) \in Nat
      /\ BodySize(b) > 0 => text = response.head + BodySize(b)
  BY <1>1, <1>2, <1>3
<1> QED
  BY <1>4 DEF text

LEMMA LengthInPositive ==
  ASSUME response \in Response, NEW b \in [1 .. BufferSize -> Nat], LengthIn(b) > 0
  PROVE  response.length # <<>>
<1> SUFFICES ASSUME response.length = <<>> PROVE FALSE
  OBVIOUS
<1> DEFINE missing == response.fields - TextLength(b)
           digits == Len(response.length) - (IF missing > 0 THEN missing ELSE 0)
<1>1. missing \in Int
  BY ResponseFacts, TextLengthType
<1>2. digits <= 0 /\ digits \in Int
  BY <1>1
<1>3. LengthIn(b) = IF Begins(b) /\ digits > 0 THEN response.length[digits] ELSE 0
  BY DEF LengthIn
<1> HIDE DEF missing, digits
<1> QED
  BY <1>2, <1>3

\* Where the thread can be, and what it has there.
Places ==
  /\ pc = "select" => mode = "tunnel"
  /\ pc = "null" => ~Staying("origin")
  /\ pc = "receiveMore" => wanted > 0
  /\ wanted > 0 => response.length # <<>>
  /\ mode = "chunked" => response.chunked
  /\ Staying("origin") => \A i \in total + 1 .. BufferSize : buffer[i] = 0

\* All that an origin sends has been read: no more is to come.
Drained ==
  /\ Unread("origin") = 0
  /\ peer["origin"] = "finished" \/ sent["origin"] = response.head + response.body

(* What is returned of a response with a known length, and the empty piece   *)
(* that ends a chunked one, are returned after all that the origin sent.     *)
LastPiece ==
  \/ LengthKnown /\ pc \in {"received", "sendResponse", "done"}
  \/ mode = "chunked" /\ pc = "received" /\ held = <<>>
  \/ mode = "chunked" /\ pc = "done" /\ Staying("client")
Ending ==
  mode # "tunnel" /\ ~response.encoded /\ Staying("origin") /\ LastPiece => Drained

LEMMA EndingInit == Init => Places /\ Ending
<1> SUFFICES ASSUME Init PROVE Places /\ Ending
  OBVIOUS
<1>1. /\ pc \in {"sendRequest", "sendResponse"} /\ total = 0 /\ wanted = 0
      /\ mode \in {"fetch", "tunnel"} /\ buffer = Padding
      /\ mode = "fetch" => pc = "sendRequest"
  BY DEF Init
<1>2. \A i \in total + 1 .. BufferSize : buffer[i] = 0
  BY <1>1, HttpClientAssumption DEF Padding
<1> QED
  BY <1>1, <1>2 DEF Places, Ending, LastPiece, LengthKnown

LEMMA EndingPeers ==
  ASSUME RelayInv, Places, Ending, Peers
  PROVE  Places' /\ Ending'
<1>1. /\ read' = read /\ pc' = pc /\ response' = response /\ buffer' = buffer
      /\ total' = total /\ wanted' = wanted /\ held' = held /\ mode' = mode
  BY PeersFacts DEF RelayInv, clientVars, relayVars
<1>2. /\ Staying("origin")' => Staying("origin")
      /\ Staying("client")' => Staying("client")
  BY PeersFacts, SideFacts DEF RelayInv, Staying
<1>3. Places'
  BY <1>1, <1>2 DEF Places
<1>4. ASSUME Drained, mode # "tunnel", Staying("origin")' PROVE Drained'
  <2>1. /\ peer["origin"] = "finished" =>
             peer'["origin"] = "finished" /\ sent'["origin"] = sent["origin"]
        /\ sent'["origin"] # sent["origin"] => MaySend("origin")
    BY <1>4, PeersFacts, SideFacts DEF RelayInv, Staying
  <2>2. sent["origin"] = response.head + response.body => ~MaySend("origin")
    BY <1>4, TypeFacts, SideFacts DEF MaySend, RelayInv
  <2> QED
    BY <1>1, <1>4, <2>1, <2>2 DEF Drained, Unread
<1>5. Ending'
  BY <1>1, <1>2, <1>4 DEF Ending, LastPiece, LengthKnown
<1> QED
  BY <1>3, <1>5

LEMMA EndingSendRequest ==
  ASSUME RelayInv, Places, Ending, SendRequest
  PROVE  Places' /\ Ending'
<1> DEFINE next == IF mode = "tunnel" THEN "select" ELSE "receive"
<1>1. SendAll("sendRequest", "origin", next, "done") /\ mode' = mode
  BY DEF SendRequest, relayVars
<1>2. next \in SendPlaces("origin")
  BY DEF SendPlaces
<1>3. /\ pc = "sendRequest" /\ peer' = peer /\ response' = response /\ buffer' = buffer
      /\ total' = total /\ wanted' = wanted
      /\ pc' \in {"sendRequest", next, "done", "killed"}
      /\ pc' = "done" => ~Staying("origin")
  <2> HIDE DEF next
  <2>1. next # "done"
    BY <1>2 DEF SendPlaces
  <2> QED
    BY <1>1, <1>2, <2>1, SendFacts, SideFacts
<1>4. Places'
  BY <1>3, <1>1 DEF Places, Staying
<1>5. Ending'
  BY <1>3, <1>1 DEF Ending, LastPiece, Staying
<1> QED
  BY <1>4, <1>5

LEMMA EndingSendResponse ==
  ASSUME RelayInv, Places, Ending, SendResponse
  PROVE  Places' /\ Ending'
<1> DEFINE next == CASE mode = "fetch"   -> "done"
                     [] mode = "chunked" -> "receive"
                     [] mode = "tunnel"  -> "select"
<1>1. SendAll("sendResponse", "client", next, "done") /\ mode' = mode
  BY DEF SendResponse, relayVars
<1>2. /\ next \in SendPlaces("client")
      /\ mode = "chunked" => next = "receive"
      /\ mode # "tunnel" => next # "select"
      /\ next \in {"done", "receive", "select"}
  BY DEF SendPlaces, RelayInv, TypeOK
<1> HIDE DEF next
<1>3. /\ pc = "sendResponse" /\ peer' = peer /\ sent' = sent /\ read' = read
      /\ response' = response /\ buffer' = buffer /\ total' = total /\ wanted' = wanted
      /\ pc' \in {"sendResponse", next, "done", "killed"}
      /\ pc' # next /\ pc' = "done" => ~Staying("client")
  BY <1>1, <1>2, SendFacts, SideFacts
<1>4. Places'
  BY <1>1, <1>2, <1>3 DEF Places, Staying
<1>5. Ending'
  BY <1>1, <1>2, <1>3 DEF Ending, LastPiece, LengthKnown, Drained, Staying, Unread
<1> QED
  BY <1>4, <1>5

LEMMA EndingQuiet ==
  ASSUME RelayInv, Places, Ending,
         Received \/ ReceivedNull \/ SelectOrigin \/ SelectTimeout \/ Tick
  PROVE  Places' /\ Ending'
<1>1. CASE Received
  <2>1. /\ peer' = peer /\ sent' = sent /\ read' = read /\ response' = response
        /\ buffer' = buffer /\ total' = total /\ wanted' = wanted /\ pc = "received"
        /\ mode' = mode \/ (mode = "fetch" /\ mode' = "chunked" /\ response.chunked)
        /\ \/ pc' = "done" /\ mode = "chunked" /\ held = <<>> /\ mode' = mode
           \/ pc' = "sendResponse"
    BY <1>1 DEF Received, streams
  <2> QED
    BY <2>1 DEF Places, Ending, LastPiece, LengthKnown, Drained, Staying, Unread
<1>2. CASE ReceivedNull
  <2>1. /\ peer' = peer /\ sent' = sent /\ read' = read /\ response' = response
        /\ buffer' = buffer /\ total' = total /\ wanted' = wanted /\ mode' = mode
        /\ pc = "null" /\ pc' = "done"
    BY <1>2 DEF ReceivedNull, streams, relayVars
  <2> QED
    BY <2>1 DEF Places, Ending, Staying
<1>3. CASE SelectOrigin \/ SelectTimeout \/ Tick
  <2>1. /\ peer' = peer /\ response' = response /\ buffer' = buffer /\ total' = total
        /\ wanted' = wanted /\ mode' = mode
        /\ pc = "select" /\ pc' \in {"receive", "done", "select"}
    BY <1>3 DEF SelectOrigin, SelectTimeout, Tick, streams, clientVars, relayVars
  <2> QED
    BY <2>1 DEF Places, Ending, Staying
<1> QED
  BY <1>1, <1>2, <1>3

LEMMA EndingSelectClient ==
  ASSUME RelayInv, Places, Ending, SelectClient
  PROVE  Places' /\ Ending'
<1>1. /\ pc = "select" /\ response' = response /\ buffer' = buffer /\ total' = total
      /\ wanted' = wanted /\ mode' = mode /\ pc' \in {"done", "sendRequest"}
      /\ peer'["origin"] = peer["origin"]
  <2>1. PICK n \in Recv("client", BufferSize) : Took("client", n)
    BY DEF SelectClient
  <2>2. peer'["origin"] = peer["origin"]
    BY <2>1, TookFacts, SideFacts DEF RelayInv
  <2> QED
    BY <2>2 DEF SelectClient, relayVars
<1> QED
  BY <1>1 DEF Places, Ending, Staying

\* A response whose Content-Length is known is returned with all of its body.
LEMMA ReturnedWhole ==
  ASSUME RelayInv, Places, mode # "tunnel", Staying("origin"),
         NEW n \in Nat, n <= Unread("origin"), total + n <= BufferSize,
         LengthKnown', response' = response, peer' = peer, sent' = sent,
         read'["origin"] = read["origin"] + n,
         ~(BodySize(Written(n)) < wanted'), wanted' \in Nat
  PROVE  Drained'
<1>1. /\ total \in Nat /\ BufferSize \in Nat /\ sent["origin"] \in Nat
      /\ read["origin"] \in Nat /\ total <= read["origin"]
      /\ sent["origin"] <= response.head + response.body
      /\ response \in Response
  BY TypeFacts, SideFacts DEF RelayInv, Reading, TypeOK
<1>2. /\ response.head \in Nat /\ response.body \in Nat
      /\ wanted' > 0 /\ response.body <= wanted'
  BY <1>1, ResponseFacts, HttpClientAssumption DEF LengthKnown
<1> DEFINE b == Written(n)
           m == total + n
<1>3. b \in [1 .. BufferSize -> Nat] /\ m \in Nat /\ m <= BufferSize
  BY <1>1, WrittenFacts DEF RelayInv
<1>4. \A i \in m + 1 .. BufferSize : b[i] = 0
  BY <1>1 DEF Written, Places
<1>5. ~(BodySize(b) < wanted')
  OBVIOUS
<1> HIDE DEF b
<1>6. TextLength(b) \in Nat /\ TextLength(b) <= m
  <2> HIDE DEF m
  <2> QED
    BY <1>3, <1>4, TextBounded
<1>7. BodySize(b) \in Nat /\ (BodySize(b) > 0 => TextLength(b) = response.head + BodySize(b))
  BY <1>1, <1>3, BodySizeType
<1>8. response.head + response.body <= m
  <2> DEFINE body == BodySize(b)
             text == TextLength(b)
  <2>1. /\ body \in Nat /\ text \in Nat /\ text <= m
        /\ body > 0 => text = response.head + body
        /\ ~(body < wanted')
    BY <1>5, <1>6, <1>7
  <2> HIDE DEF body, text, m
  <2> QED
    BY <1>2, <1>3, <2>1
<1>9. n <= sent["origin"] - read["origin"]
  BY DEF Unread
<1>10. read'["origin"] = sent["origin"] /\ sent["origin"] = response.head + response.body
  BY <1>1, <1>2, <1>8, <1>9
<1> QED
  BY <1>1, <1>10 DEF Drained, Unread

LEMMA EndingReceive ==
  ASSUME RelayInv, Places, Ending, Receive
  PROVE  Places' /\ Ending'
<1>1. PICK n \in Recv("origin", BufferSize) :
        /\ Took("origin", n)
        /\ \/ /\ pc = "receive"
              /\ LET b == Written(n)  whole == FieldsKnown(b) /\ response.encoded IN
                   IF n = -1 THEN Null
                   ELSE IF whole THEN Return(b) /\ wanted' = 0
                   ELSE IF LengthIn(b) > MaxInt THEN Crash("killed")
                   ELSE Loop(b, LengthIn(b), n) /\ wanted' = LengthIn(b)
           \/ /\ pc = "receiveMore" /\ wanted' = wanted
              /\ IF total + n > BufferSize THEN Crash("undefined")
                 ELSE IF n = 0 THEN Return(SubSeq(buffer, 1, total))
                 ELSE Loop(Written(n), wanted, n)
  BY DEF Receive, RecvResponse, RecvFirst, RecvMore
<1>2. /\ n \in Int /\ n >= -1 /\ n <= BufferSize
      /\ n > 0 => n <= Unread("origin")
      /\ n <= 0 => Unread("origin") = 0
      /\ n = -1 => peer'["origin"] = "gone"
      /\ n # -1 => peer' = peer
      /\ n = 0 => peer["origin"] \in {"finished", "gone"}
      /\ read'["origin"] = read["origin"] + (IF n > 0 THEN n ELSE 0)
      /\ sent' = sent
  BY <1>1, TookFacts, SideFacts DEF RelayInv
<1>3. /\ mode' = mode /\ response' = response /\ response \in Response
      /\ total \in Nat /\ total <= BufferSize /\ BufferSize \in Nat
      /\ wanted \in Nat /\ read["origin"] \in Nat /\ Unread("origin") \in Nat
      /\ pc = "receive" => total = 0 /\ buffer = Padding
      /\ pc # "select" /\ pc # "null"
  <2>1. response' = response
    BY <1>1 DEF Null, Return, Crash, Loop
  <2> QED
    BY <1>1, <2>1, TypeFacts, SideFacts DEF Receive, relayVars, RelayInv, TypeOK, Reading
<1>4. Staying("origin")' => n # -1 /\ n \in Nat /\ Staying("origin") /\ peer' = peer
  BY <1>2 DEF Staying
<1>5. n # -1 => n \in Nat
  BY <1>2
<1>6. Padding \in [1 .. BufferSize -> Nat] /\ \A i \in 1 .. BufferSize : Padding[i] = 0
  BY <1>3, PaddingFacts DEF Padding
<1>7. ASSUME NEW length \in Nat, Loop(Written(n), length, n), wanted' = length,
             n = -1 => pc = "receiveMore",
             total + n <= BufferSize,
             length > 0 => response.length # <<>>
      PROVE  Places' /\ Ending'
  <2>2. \/ /\ BodySize(Written(n)) < wanted'
           /\ pc' = "receiveMore" /\ buffer' = Written(n) /\ total' = total + n
        \/ /\ ~(BodySize(Written(n)) < wanted')
           /\ pc' = "received" /\ buffer' = Padding /\ total' = 0
           /\ held' = SubSeq(Written(n), 1, total + n)
    BY <1>7, LoopFacts
  <2>3. total + n >= 0
    <3>1. n = -1 => total >= 1 \/ peer["origin"] = "gone"
      BY <1>7 DEF RelayInv, Reading
    <3>2. n = -1 => peer["origin"] = "reset"
      BY <1>1, TookFacts, SideFacts DEF RelayInv
    <3> QED
      BY <1>2, <1>3, <3>1, <3>2
  <2>4. /\ Written(n) \in [1 .. BufferSize -> Nat]
        /\ Len(SubSeq(Written(n), 1, total + n)) = total + n
    BY <1>2, <1>7, <2>3, WrittenFacts DEF RelayInv
  <2>5. BodySize(Written(n)) \in Nat
    BY <1>3, <2>4, BodySizeType
  <2>6. pc' = "receiveMore" => wanted' > 0
    <3> DEFINE body == BodySize(Written(n))
    <3>1. body \in Nat /\ (pc' = "receiveMore" => body < wanted')
      BY <2>2, <2>5
    <3> HIDE DEF body
    <3> QED
      BY <1>7, <3>1
  <2>7. Staying("origin")' => \A i \in total' + 1 .. BufferSize : buffer'[i] = 0
    <3>1. CASE buffer' = Padding /\ total' = 0
      BY <1>3, <1>6, <3>1
    <3>2. CASE buffer' = Written(n) /\ total' = total + n
      <4> SUFFICES ASSUME Staying("origin")', NEW i \in total + n + 1 .. BufferSize
                   PROVE  Written(n)[i] = 0
        BY <3>2
      <4>1. i \in 1 .. BufferSize /\ i \notin total + 1 .. total + n /\ i \in total + 1 .. BufferSize
        BY <1>3, <1>4
      <4> QED
        BY <1>4, <4>1 DEF Written, Places
    <3> QED
      BY <2>2, <3>1, <3>2
  <2>8. Places'
    BY <1>3, <1>7, <2>2, <2>6, <2>7 DEF Places
  <2>9. ASSUME mode # "tunnel", Staying("origin")', LastPiece' PROVE Drained'
    <3>1. n \in Nat /\ Staying("origin") /\ peer' = peer
      BY <1>4, <2>9
    <3>2. CASE LengthKnown'
      <4>1. pc' = "received"
        BY <1>3, <2>2, <2>9 DEF LastPiece
      <4>2. ~(BodySize(Written(n)) < wanted')
        BY <2>2, <4>1
      <4>3. n <= Unread("origin") /\ read'["origin"] = read["origin"] + n
        BY <1>2, <1>3, <3>1
      <4> QED
        BY <1>2, <1>3, <1>7, <2>9, <3>1, <3>2, <4>2, <4>3, ReturnedWhole
    <3>3. CASE pc' = "received" /\ held' = <<>>
      <4>1. total + n = 0
        BY <2>2, <2>4, <3>3
      <4>2. n = 0
        BY <1>3, <3>1, <4>1
      <4> QED
        BY <1>2, <1>3, <3>1, <4>2 DEF Drained, Unread, Staying
    <3> QED
      BY <2>2, <2>9, <3>2, <3>3 DEF LastPiece
  <2> QED
    BY <1>3, <2>8, <2>9 DEF Ending
<1>8. CASE pc' \in {"killed", "undefined"} /\ UNCHANGED <<buffer, total, wanted>>
  BY <1>3, <1>4, <1>8 DEF Places, Ending, LastPiece
<1>9. CASE pc = "receive" /\ n = -1
  <2>1. Null
    BY <1>1, <1>9
  <2> QED
    BY <1>2, <1>3, <1>4, <1>9, <2>1 DEF Null, Places, Ending, Staying
<1>10. CASE pc = "receive" /\ n # -1 /\ FieldsKnown(Written(n)) /\ response.encoded
  <2>1. Return(Written(n)) /\ wanted' = 0
    BY <1>1, <1>10
  <2> QED
    BY <1>3, <1>6, <1>10, <2>1 DEF Return, Places, Ending
<1>11. CASE /\ pc = "receive" /\ n # -1
            /\ ~(FieldsKnown(Written(n)) /\ response.encoded) /\ ~(LengthIn(Written(n)) > MaxInt)
  <2>1. Loop(Written(n), LengthIn(Written(n)), n) /\ wanted' = LengthIn(Written(n))
    BY <1>1, <1>11
  <2>2. Written(n) \in [1 .. BufferSize -> Nat] /\ total + n <= BufferSize
    <3>1. total + n >= 0 /\ total + n <= BufferSize
      BY <1>2, <1>3, <1>5, <1>11
    <3> QED
      BY <1>2, <1>3, <1>11, <3>1, WrittenFacts DEF RelayInv
  <2>3. LengthIn(Written(n)) \in Nat /\ (LengthIn(Written(n)) > 0 => response.length # <<>>)
    BY <1>3, <2>2, LengthInType, LengthInPositive
  <2> DEFINE length == LengthIn(Written(n))
  <2>5. /\ length \in Nat /\ Loop(Written(n), length, n) /\ wanted' = length
        /\ length > 0 => response.length # <<>>
    BY <2>1, <2>3
  <2> HIDE DEF length
  <2> QED
    BY <1>7, <1>11, <2>2, <2>5
<1>12. CASE pc = "receive" /\ n # -1 /\ LengthIn(Written(n)) > MaxInt
             /\ ~(FieldsKnown(Written(n)) /\ response.encoded)
  <2>1. Crash("killed")
    BY <1>1, <1>12
  <2> QED
    BY <1>8, <2>1 DEF Crash
<1>13. CASE pc = "receiveMore" /\ total + n > BufferSize
  BY <1>1, <1>8, <1>13 DEF Crash
<1>14. CASE pc = "receiveMore" /\ ~(total + n > BufferSize) /\ n = 0
  <2>1. Return(SubSeq(buffer, 1, total)) /\ wanted' = wanted
    BY <1>1, <1>14
  <2>2. Staying("origin")' => Drained'
    BY <1>2, <1>3, <1>4, <1>14 DEF Drained, Unread, Staying
  <2> QED
    BY <1>3, <1>6, <2>1, <2>2 DEF Return, Places, Ending
<1>15. CASE pc = "receiveMore" /\ ~(total + n > BufferSize) /\ n # 0
  <2>1. Loop(Written(n), wanted, n) /\ wanted' = wanted
    BY <1>1, <1>15
  <2>2. wanted > 0 => response.length # <<>>
    BY DEF Places
  <2>3. total + n <= BufferSize
    BY <1>2, <1>3, <1>15
  <2> QED
    BY <1>3, <1>7, <1>15, <2>1, <2>2, <2>3
<1> QED
  BY <1>1, <1>9, <1>10, <1>11, <1>12, <1>13, <1>14, <1>15

LEMMA NextEnding == RelayInv /\ Places /\ Ending /\ [Next]_vars => Places' /\ Ending'
<1> SUFFICES ASSUME RelayInv, Places, Ending, [Next]_vars PROVE Places' /\ Ending'
  OBVIOUS
<1>1. CASE UNCHANGED vars
  BY <1>1 DEF vars, streams, clientVars, relayVars, Places, Ending, LastPiece, LengthKnown,
              Drained, Staying, Unread
<1> QED
  BY <1>1, EndingSendRequest, EndingSendResponse, EndingReceive, EndingQuiet,
     EndingSelectClient, EndingPeers DEF Next, Thread

LEMMA EndingEntire == RelayInv /\ Places /\ Ending => Entire
<1> SUFFICES ASSUME RelayInv, Places, Ending, pc = "done", mode # "tunnel",
                    ~response.encoded, Staying("client"), Staying("origin"),
                    mode = "chunked" \/ LengthKnown
             PROVE  Len(got["client"]) = sent["origin"]
  BY DEF Entire
<1>1. Unread("origin") = 0
  BY DEF Ending, LastPiece, Drained
<1>2. Len(got["client"]) + Incoming = Lead + read["origin"]
  BY DEF RelayInv, Ordered, ClientInOrder, Crashed, Staying
<1>3. Incoming = 0 /\ Lead = 0
  BY DEF Incoming, Lead
<1>4. sent["origin"] \in Nat /\ read["origin"] \in Nat /\ Len(got["client"]) \in Nat
  BY TypeFacts, SideFacts DEF RelayInv
<1>5. Len(got["client"]) = read["origin"]
  BY <1>2, <1>3, <1>4
<1> QED
  BY <1>1, <1>4, <1>5 DEF Unread

-----------------------------------------------------------------------------
(* What a step of the thread does to the steps that remain: it takes one     *)
(* off, or it reads, and what it read is worth more than it has added.       *)
Nearer ==
  \/ ToHear' = ToHear /\ left' + Work' < left + Work
  \/ ToHear' < ToHear /\ left' = left /\ Work' < BufferSize + 10 + Work

LEMMA MeasureTypes ==
  TypeOK => /\ ToHear \in Nat /\ Work \in Nat /\ left \in Nat /\ BufferSize + 10 \in Nat
            /\ After \in {3, 8} /\ Len(held) \in Nat
            /\ total \in Nat /\ total <= BufferSize
<1> SUFFICES ASSUME TypeOK
             PROVE  /\ ToHear \in Nat /\ Work \in Nat /\ left \in Nat /\ BufferSize + 10 \in Nat
                    /\ After \in {3, 8} /\ Len(held) \in Nat
                    /\ total \in Nat /\ total <= BufferSize
  OBVIOUS
<1>1. /\ total \in Nat /\ total <= BufferSize /\ Len(held) \in Nat /\ BufferSize \in Nat
      /\ Unread("client") \in Nat /\ Unread("origin") \in Nat
  BY TypeFacts, SideFacts
<1>2. left \in Nat /\ After \in {3, 8}
  BY RelayAssumption DEF TypeOK, After
<1>3. ToHear \in Nat
  BY <1>1 DEF ToHear
<1>4. Work \in Nat
  <2> DEFINE h == Len(held)
             a == After
  <2>1. h \in Nat /\ a \in Nat
    BY <1>1, <1>2
  <2>2. Work \in {h + 8, 7, 2, 6, total + a + 2, 1, h + a + 1, h + a, 0}
    BY DEF Work
  <2> HIDE DEF h, a
  <2> QED
    BY <1>1, <2>1, <2>2
<1> QED
  BY <1>1, <1>2, <1>3, <1>4

LEMMA NearerRemaining ==
  ASSUME TypeOK, TypeOK', Nearer
  PROVE  Remaining' \in 0 .. Remaining - 1
<1> DEFINE k == BufferSize + 10
           x == ToHear
           y == ToHear'
           v == left + Work
           w == left' + Work'
<1>1. /\ k \in Nat /\ x \in Nat /\ v \in Nat
      /\ left \in Nat /\ Work \in Nat
  BY MeasureTypes
<1>2. /\ y \in Nat /\ w \in Nat /\ left' \in Nat /\ Work' \in Nat
  <2>1. (TypeOK => ToHear \in Nat /\ Work \in Nat /\ left \in Nat)'
    BY MeasureTypes, PTL
  <2> QED
    BY <2>1
<1>3. \/ y = x /\ w < v
      \/ y < x /\ w < k + v
  <2>1. \/ y = x /\ left' + Work' < left + Work
        \/ y < x /\ left' = left /\ Work' < k + Work
    BY DEF Nearer
  <2> DEFINE l == left
             m == left'
             a == Work
             b == Work'
  <2>2. /\ l \in Nat /\ m \in Nat /\ a \in Nat /\ b \in Nat /\ k \in Nat
        /\ v = l + a /\ w = m + b
        /\ \/ y = x /\ m + b < l + a
           \/ y < x /\ m = l /\ b < k + a
    BY <1>1, <1>2, <2>1
  <2> HIDE DEF k, x, y, v, w, l, m, a, b
  <2> QED
    BY <2>2
<1>4. Remaining = k * x + v /\ Remaining' = k * y + w
  <2>1. Remaining = k * x + left + Work /\ Remaining' = k * y + left' + Work'
    BY DEF Remaining
  <2>2. k * x \in Nat /\ k * y \in Nat
    <3> HIDE DEF k, x, y
    <3> QED
      BY <1>1, <1>2
  <2> DEFINE p == k * x
             q == k * y
  <2> HIDE DEF p, q
  <2>3. p \in Nat /\ q \in Nat /\ Remaining = p + left + Work /\ Remaining' = q + left' + Work'
    BY <2>1, <2>2 DEF p, q
  <2>4. Remaining = p + v /\ Remaining' = q + w
    BY <1>1, <1>2, <2>3
  <2> QED
    BY <2>4 DEF p, q
<1> HIDE DEF k, x, y, v, w
<1>5. k * y \in Nat /\ k * x \in Nat
  BY <1>1, <1>2
<1>6. y < x => k * y + k <= k * x
  <2> SUFFICES ASSUME y < x PROVE k * y + k <= k * x
    OBVIOUS
  <2>1. PICK d \in Nat : x = y + 1 + d
    <3>1. x - y - 1 \in Nat /\ x = y + 1 + (x - y - 1)
      BY <1>1, <1>2
    <3> QED
      BY <3>1
  <2>2. k * x = k * y + k + k * d /\ k * d \in Nat
    BY <1>1, <1>2, <2>1
  <2> QED
    BY <1>1, <1>5, <2>2
<1> DEFINE p == k * x
           q == k * y
<1>7. /\ p \in Nat /\ q \in Nat /\ Remaining = p + v /\ Remaining' = q + w
      /\ y < x => q + k <= p
      /\ y = x => q = p
  BY <1>4, <1>5, <1>6
<1> HIDE DEF p, q
<1> QED
  BY <1>1, <1>2, <1>3, <1>7

LEMMA SendsNearer ==
  ASSUME RelayInv, RelayInv', SendRequest \/ SendResponse
  PROVE  Nearer
<1>1. left \in Nat /\ Work \in Nat /\ After \in {3, 8} /\ Len(held) \in Nat
  BY MeasureTypes DEF RelayInv
<1>2. Len(held') \in Nat
  BY DEF RelayInv, TypeOK
<1>3. mode' = mode /\ left' = left
  BY DEF SendRequest, SendResponse, relayVars
<1>4. After' = After
  BY <1>3 DEF After
<1>5. ASSUME NEW side \in Side, NEW at, NEW next \in SendPlaces(side),
             SendAll(at, side, next, "done"),
             at = IF side = "origin" THEN "sendRequest" ELSE "sendResponse"
      PROVE  /\ ToHear' = ToHear /\ pc = at
             /\ \/ Len(held) = 0 /\ pc' = next
                \/ Len(held') < Len(held) /\ pc' \in {at, next}
                \/ pc' \in {"done", next, "killed"}
  <2>1. /\ pc = at /\ peer' = peer /\ sent' = sent /\ read' = read
        /\ \/ held = <<>> /\ pc' = next
           \/ \E n \in 1 .. Len(held) :
                /\ held' = SubSeq(held, n + 1, Len(held))
                /\ pc' = IF n = Len(held) THEN next ELSE at
           \/ pc' \in {next, "done", "killed"}
    BY <1>5, SendFacts
  <2>2. ASSUME NEW n \in 1 .. Len(held), held' = SubSeq(held, n + 1, Len(held))
        PROVE  Len(held') < Len(held)
    <3>1. held \in Seq(Byte)
      BY DEF RelayInv, TypeOK
    <3>2. Len(held') = Len(held) - n
      BY <2>2, <3>1, SubSeqProperties
    <3> QED
      BY <1>1, <1>2, <3>2
  <2>3. ToHear' = ToHear
    BY <2>1 DEF ToHear, Unread
  <2> QED
    BY <2>1, <2>2, <2>3
<1>6. CASE SendRequest
  <2> DEFINE next == IF mode = "tunnel" THEN "select" ELSE "receive"
  <2>1. SendAll("sendRequest", "origin", next, "done") /\ next \in SendPlaces("origin")
    BY <1>6 DEF SendRequest, SendPlaces
  <2>2. /\ ToHear' = ToHear /\ pc = "sendRequest"
        /\ \/ Len(held) = 0 /\ pc' = next
           \/ Len(held') < Len(held) /\ pc' \in {"sendRequest", next}
           \/ pc' \in {"done", next, "killed"}
    <3> HIDE DEF next
    <3> QED
      BY <1>5, <2>1, SideFacts
  <2>3. Work = Len(held) + 8
    BY <2>2 DEF Work
  <2>4. /\ pc' = "sendRequest" => Work' = Len(held') + 8
        /\ pc' # "sendRequest" => Work' \in {0, 2, 6, 7}
    BY <2>2 DEF Work
  <2>5. Work' < Work
    <3> DEFINE h == Len(held)
               g == Len(held')
    <3>1. /\ h \in Nat /\ g \in Nat /\ Work = h + 8
          /\ (pc' = "sendRequest" => Work' = g + 8) /\ (pc' = "sendRequest" => g < h)
      BY <1>1, <1>2, <2>2, <2>3, <2>4
    <3> HIDE DEF h, g
    <3> QED
      BY <2>4, <3>1
  <2> QED
    BY <1>1, <1>3, <2>2, <2>4, <2>5, <1>2, <2>3 DEF Nearer
<1>7. CASE SendResponse
  <2> DEFINE next == CASE mode = "fetch"   -> "done"
                       [] mode = "chunked" -> "receive"
                       [] mode = "tunnel"  -> "select"
  <2>0. mode \in {"fetch", "chunked", "tunnel"}
    BY DEF RelayInv, TypeOK
  <2>1. SendAll("sendResponse", "client", next, "done") /\ next \in SendPlaces("client")
    BY <1>7, <2>0 DEF SendResponse, SendPlaces
  <2>2. /\ ToHear' = ToHear /\ pc = "sendResponse"
        /\ \/ Len(held) = 0 /\ pc' = next
           \/ Len(held') < Len(held) /\ pc' \in {"sendResponse", next}
           \/ pc' \in {"done", next, "killed"}
    <3> HIDE DEF next
    <3> QED
      BY <1>5, <2>1, SideFacts
  <2>3. Work = Len(held) + After
    BY <2>2 DEF Work
  <2>4. /\ pc' = "sendResponse" => Work' = Len(held') + After
        /\ pc' # "sendResponse" => Work' \in 0 .. After - 1
    <3>1. pc' = "sendResponse" => Work' = Len(held') + After
      BY <1>4 DEF Work
    <3>2. pc' \in {"done", "killed"} => Work' = 0
      BY DEF Work
    <3>3. pc' = next /\ pc' # "done" =>
            \/ mode = "chunked" /\ pc' = "receive"
            \/ mode = "tunnel" /\ pc' = "select"
      BY <2>0
    <3>4. mode = "chunked" /\ pc' = "receive" => Work' = 2 /\ After = 3
      BY <1>3 DEF Work, After
    <3>5. mode = "tunnel" /\ pc' = "select" => Work' = 7 /\ After = 8
      BY DEF Work, After
    <3> HIDE DEF next
    <3> QED
      BY <1>1, <2>2, <3>1, <3>2, <3>3, <3>4, <3>5
  <2>5. Work' < Work
    <3> DEFINE h == Len(held)
               g == Len(held')
               a == After
    <3>1. /\ h \in Nat /\ g \in Nat /\ Work = h + a /\ a \in {3, 8}
          /\ pc' = "sendResponse" => Work' = g + a /\ g < h
          /\ pc' # "sendResponse" => Work' \in 0 .. a - 1
      BY <1>1, <1>2, <2>0, <2>2, <2>3, <2>4
    <3> HIDE DEF h, g, a, next
    <3> QED
      BY <3>1
  <2>6. Work' \in Int
    BY <1>1, <1>2, <2>4
  <2> QED
    BY <1>1, <1>3, <2>2, <2>5, <2>6 DEF Nearer
<1> QED
  BY <1>6, <1>7

LEMMA QuietNearer ==
  ASSUME RelayInv, Received \/ ReceivedNull \/ SelectOrigin \/ SelectTimeout \/ Tick
  PROVE  Nearer
<1>1. left \in Nat /\ After \in {3, 8} /\ Len(held) \in Nat
  BY MeasureTypes DEF RelayInv
<1>2. ToHear' = ToHear
  BY DEF Received, ReceivedNull, SelectOrigin, SelectTimeout, Tick, streams, ToHear, Unread
<1>3. CASE Received
  <2>1. /\ pc = "received" /\ held' = held /\ left' = left
        /\ mode' = mode \/ (mode = "fetch" /\ mode' = "chunked" /\ held # <<>>)
        /\ pc' = IF mode = "chunked" /\ held = <<>> THEN "done" ELSE "sendResponse"
    BY <1>3 DEF Received
  <2>2. After' = After
    BY <2>1 DEF After
  <2>3. /\ Work = IF mode = "chunked" /\ held = <<>> THEN 1 ELSE Len(held) + After + 1
        /\ Work' = IF mode = "chunked" /\ held = <<>> THEN 0 ELSE Len(held) + After
    BY <2>1, <2>2 DEF Work
  <2> QED
    BY <1>1, <1>2, <2>1, <2>3 DEF Nearer
<1>4. CASE ReceivedNull
  <2>1. Work = 1 /\ Work' = 0 /\ left' = left
    BY <1>4 DEF ReceivedNull, Work, relayVars
  <2> QED
    BY <1>1, <1>2, <2>1 DEF Nearer
<1>5. CASE SelectOrigin \/ SelectTimeout
  <2>1. Work = 7 /\ Work' \in {0, 2, 6} /\ left' = left
    BY <1>5 DEF SelectOrigin, SelectTimeout, Work, relayVars
  <2> DEFINE w == Work'
  <2>2. w \in {0, 2, 6}
    BY <2>1
  <2> HIDE DEF w
  <2>3. left + w < left + 7
    BY <1>1, <2>2
  <2> QED
    BY <1>2, <2>1, <2>3 DEF Nearer, w
<1>6. CASE Tick
  <2>1. Work = 7 /\ Work' = 7 /\ left' = left - 1
    BY <1>6 DEF Tick, Work, clientVars
  <2>2. left' + Work' < left + Work
    BY <1>1, <2>1
  <2> QED
    BY <1>2, <2>2 DEF Nearer
<1> QED
  BY <1>3, <1>4, <1>5, <1>6

LEMMA SelectClientNearer ==
  ASSUME RelayInv, SelectClient, peer["client"] = "open"
  PROVE  Nearer
<1>1. PICK n \in Recv("client", BufferSize) :
        /\ Took("client", n) /\ held' = Bytes("client", n)
        /\ pc' = IF n = -1 THEN "done" ELSE "sendRequest"
  BY DEF SelectClient
<1>2. pc = "select" /\ left' = left
  BY DEF SelectClient, relayVars
<1>3. /\ n \in Nat /\ n > 0 /\ n <= BufferSize /\ n <= Unread("client")
      /\ peer' = peer /\ sent' = sent /\ read'["origin"] = read["origin"]
      /\ read'["client"] = read["client"] + n
  BY <1>1, TookFacts, SideFacts DEF RelayInv
<1>4. /\ sent["client"] \in Nat /\ read["client"] \in Nat /\ BufferSize \in Nat
      /\ Unread("origin") \in Nat
  BY TypeFacts, SideFacts DEF RelayInv
<1>5. ToHear' < ToHear
  <2>1. Unread("origin")' = Unread("origin") /\ Unread("client")' = Unread("client") - n
    BY <1>3, <1>4 DEF Unread
  <2>2. Unread("client") \in Nat
    BY TypeFacts, SideFacts DEF RelayInv
  <2> QED
    BY <1>3, <1>4, <2>1, <2>2 DEF ToHear
<1>6. Len(held') = n
  <2>1. held' \in [1 .. n -> Nat]
    BY <1>1, <1>3, <1>4 DEF Bytes
  <2> QED
    BY <1>3, <2>1, FunctionIsSeq
<1>7. Work = 7 /\ Work' = n + 8
  BY <1>1, <1>2, <1>3, <1>6 DEF Work
<1> QED
  BY <1>2, <1>3, <1>4, <1>5, <1>7 DEF Nearer

LEMMA ReceiveNearer ==
  ASSUME RelayInv, Receive, mode = "tunnel" => peer["origin"] = "open"
  PROVE  Nearer
<1>1. PICK n \in Recv("origin", BufferSize) :
        /\ Took("origin", n)
        /\ \/ /\ pc = "receive"
              /\ LET b == Written(n)  whole == FieldsKnown(b) /\ response.encoded IN
                   IF n = -1 THEN Null
                   ELSE IF whole THEN Return(b) /\ wanted' = 0
                   ELSE IF LengthIn(b) > MaxInt THEN Crash("killed")
                   ELSE Loop(b, LengthIn(b), n) /\ wanted' = LengthIn(b)
           \/ /\ pc = "receiveMore" /\ wanted' = wanted
              /\ IF total + n > BufferSize THEN Crash("undefined")
                 ELSE IF n = 0 THEN Return(SubSeq(buffer, 1, total))
                 ELSE Loop(Written(n), wanted, n)
  BY DEF Receive, RecvResponse, RecvFirst, RecvMore
<1>2. /\ n \in Int /\ n >= -1 /\ n <= BufferSize
      /\ n > 0 => n <= Unread("origin")
      /\ n = -1 => peer["origin"] = "reset" /\ peer'["origin"] = "gone"
      /\ n # -1 => peer' = peer
      /\ n = 0 => peer["origin"] \in {"finished", "gone"}
      /\ read'["origin"] = read["origin"] + (IF n > 0 THEN n ELSE 0)
      /\ read'["client"] = read["client"] /\ sent' = sent
  BY <1>1, TookFacts, SideFacts DEF RelayInv
<1>3. /\ mode' = mode /\ left' = left /\ After' = After /\ After \in {3, 8}
      /\ mode # "tunnel" => After = 3
      /\ total \in Nat /\ total <= BufferSize /\ BufferSize \in Nat
      /\ pc = "receive" => total = 0 /\ buffer = Padding
      /\ left \in Nat
  BY <1>1, MeasureTypes, TypeFacts DEF Receive, relayVars, RelayInv, Reading, After
<1>4. /\ pc = "receive" => Work = IF mode = "chunked" THEN 2 ELSE 6
      /\ pc = "receiveMore" => Work = total + After + 2
  BY DEF Work
<1>5. /\ n > 0 => ToHear' < ToHear
      /\ n = -1 => ToHear' < ToHear
      /\ n = 0 => ToHear' = ToHear
  <2>1. /\ sent["origin"] \in Nat /\ read["origin"] \in Nat
        /\ Unread("origin") \in Nat /\ Unread("client") \in Nat
    BY TypeFacts, SideFacts DEF RelayInv
  <2>2. /\ Unread("client")' = Unread("client")
        /\ Unread("origin")' = Unread("origin") - (IF n > 0 THEN n ELSE 0)
    BY <1>2, <2>1 DEF Unread
  <2> QED
    BY <1>2, <2>1, <2>2 DEF ToHear
\* What it returns, or reads on with.
<1>6. \/ pc' = "receiveMore" /\ total' = total + n /\ total + n <= BufferSize /\ n # 0
      \/ /\ pc' = "received" /\ Len(held') \in Nat /\ Len(held') <= BufferSize
         /\ n = 0 => Len(held') = total
      \/ pc' = "null" /\ n = -1
      \/ pc' \in {"killed", "undefined"}
  <2>1. ASSUME n # -1 \/ pc = "receiveMore", total + n <= BufferSize
        PROVE  /\ total + n >= 0
               /\ Written(n) \in [1 .. BufferSize -> Nat]
               /\ Len(SubSeq(Written(n), 1, total + n)) = total + n
               /\ n = 0 => Written(n) = buffer
    <3>1. n = -1 => total >= 1 \/ peer["origin"] = "gone"
      BY <2>1 DEF RelayInv, Reading
    <3>2. total + n >= 0
      BY <1>2, <1>3, <3>1
    <3> QED
      BY <1>2, <2>1, <3>2, WrittenFacts DEF RelayInv
  <2>2. ASSUME NEW length, Loop(Written(n), length, n), wanted' = length,
               n # -1 \/ pc = "receiveMore", total + n <= BufferSize,
               n = 0 => ~(BodySize(Written(n)) < length)
        PROVE  \/ pc' = "receiveMore" /\ total' = total + n /\ n # 0
               \/ pc' = "received" /\ Len(held') = total + n
    BY <2>1, <2>2, LoopFacts
  <2>3. CASE pc = "receive" /\ n = -1
    BY <1>1, <2>3 DEF Null
  <2>4. CASE pc = "receive" /\ n # -1 /\ FieldsKnown(Written(n)) /\ response.encoded
    <3>1. Return(Written(n)) /\ total + n <= BufferSize
      BY <1>1, <1>2, <1>3, <2>4
    <3>2. Written(n) \in [1 .. BufferSize -> Nat] /\ (n = 0 => Written(n) = Padding)
      BY <1>3, <2>1, <2>4, <3>1
    <3>3. Len(held') = BufferSize
      BY <1>3, <3>1, <3>2, FunctionIsSeq DEF Return
    <3>4. n # 0
      BY <2>4, <3>2, PaddingFacts DEF FieldsKnown
    <3> QED
      BY <1>3, <3>1, <3>3, <3>4 DEF Return
  <2>5. CASE /\ pc = "receive" /\ n # -1
             /\ ~(FieldsKnown(Written(n)) /\ response.encoded) /\ ~(LengthIn(Written(n)) > MaxInt)
    <3>1. Loop(Written(n), LengthIn(Written(n)), n) /\ wanted' = LengthIn(Written(n))
      BY <1>1, <2>5
    <3>2. total + n <= BufferSize
      BY <1>2, <1>3, <2>5
    <3>3. n = 0 => Written(n) = Padding
      BY <1>3, <2>1, <2>5, <3>2
    <3>4. n = 0 => ~(BodySize(Written(n)) < LengthIn(Written(n)))
      BY <3>3, PaddingFacts
    <3>5. \/ pc' = "receiveMore" /\ total' = total + n /\ n # 0
          \/ pc' = "received" /\ Len(held') = total + n
      BY <2>2, <2>5, <3>1, <3>2, <3>4
    <3> QED
      BY <1>2, <1>3, <2>1, <2>5, <3>2, <3>5
  <2>6. CASE /\ pc = "receive" /\ n # -1
             /\ ~(FieldsKnown(Written(n)) /\ response.encoded) /\ LengthIn(Written(n)) > MaxInt
    BY <1>1, <2>6 DEF Crash
  <2>7. CASE pc = "receiveMore" /\ total + n > BufferSize
    BY <1>1, <2>7 DEF Crash
  <2>8. CASE pc = "receiveMore" /\ ~(total + n > BufferSize) /\ n = 0
    <3>1. Return(SubSeq(buffer, 1, total)) /\ total + n = total
      BY <1>1, <1>3, <2>8
    <3>2. Len(SubSeq(buffer, 1, total)) = total
      BY <1>3, <2>1, <2>8, <3>1
    <3> QED
      BY <1>3, <3>1, <3>2 DEF Return
  <2>9. CASE pc = "receiveMore" /\ ~(total + n > BufferSize) /\ n # 0
    <3>1. Loop(Written(n), wanted, n) /\ wanted' = wanted
      BY <1>1, <2>9
    <3>2. total + n <= BufferSize
      BY <1>2, <1>3, <2>9
    <3>3. \/ pc' = "receiveMore" /\ total' = total + n
          \/ pc' = "received" /\ Len(held') = total + n
      BY <2>2, <2>9, <3>1, <3>2
    <3> QED
      BY <1>2, <1>3, <2>1, <2>9, <3>2, <3>3
  <2> QED
    BY <1>1, <2>3, <2>4, <2>5, <2>6, <2>7, <2>8, <2>9
<1>7. /\ pc' = "receiveMore" => Work' = total' + After + 2
      /\ pc' = "received" => Work' = IF mode = "chunked" /\ held' = <<>> THEN 1
                                     ELSE Len(held') + After + 1
      /\ pc' = "null" => Work' = 1
      /\ pc' \in {"killed", "undefined"} => Work' = 0
  BY <1>3 DEF Work
<1>8. CASE n # 0
  <2>1. Work \in Nat /\ Work > 0
    BY <1>1, <1>3, <1>4
  <2>2. Work' < BufferSize + 10 + Work
    <3> DEFINE h == Len(held')
               a == After
               e == Work'
               w == Work
    <3>1. /\ w \in Nat /\ w > 0 /\ a \in {3, 8}
          /\ \/ e = total + n + a + 2 /\ total + n <= BufferSize
             \/ h \in Nat /\ h <= BufferSize /\ e \in {1, h + a + 1}
             \/ e \in {0, 1}
      BY <1>3, <1>6, <1>7, <2>1
    <3> HIDE DEF h, a, e, w
    <3>2. e < BufferSize + 10 + w
      BY <1>2, <1>3, <3>1
    <3> QED
      BY <3>2 DEF e, w
  <2> QED
    BY <1>2, <1>3, <1>5, <1>8, <2>2 DEF Nearer
<1>9. CASE n = 0
  <2>1. mode # "tunnel" /\ After = 3
    BY <1>2, <1>3, <1>9
  <2>2. Work' < Work /\ Work \in Nat /\ Work' \in Int
    <3> DEFINE h == Len(held')
               a == After
    <3>0. h = 0 => held' = <<>>
      BY <1>6, <1>7
    <3>1. \/ /\ pc' = "received" /\ h = total
             /\ Work' \in {1, h + a + 1}
             /\ mode = "chunked" /\ held' = <<>> => Work' = 1
          \/ pc' \in {"killed", "undefined"} /\ Work' = 0
      BY <1>2, <1>6, <1>7, <1>9
    <3>2. a = 3 /\ (pc = "receiveMore" => Work = total + a + 2)
      BY <1>4, <2>1
    <3>3. pc = "receive" => Work \in {2, 6} /\ total = 0 /\ (mode # "chunked" => Work = 6)
      BY <1>3, <1>4
    <3>4. h = 0 /\ mode = "chunked" => held' = <<>>
      BY <3>0
    <3> HIDE DEF h, a
    <3> QED
      BY <1>1, <1>3, <3>1, <3>2, <3>3, <3>4
  <2>3. left' + Work' < left + Work
    <3> DEFINE w == Work
               e == Work'
               l == left
    <3>1. w \in Nat /\ e \in Int /\ e < w /\ l \in Nat /\ left' = l
      BY <1>3, <2>2
    <3> HIDE DEF w, e, l
    <3>2. left' + e < l + w
      BY <3>1
    <3> QED
      BY <3>2 DEF w, e, l
  <2> QED
    BY <1>5, <1>9, <2>3 DEF Nearer
<1> QED
  BY <1>8, <1>9

LEMMA NextNearer ==
  ASSUME RelayInv, RelayInv', Places, Thread,
         mode = "tunnel" => \A side \in Side : peer[side] = "open"
  PROVE  Remaining' \in 0 .. Remaining - 1
<1>1. SelectClient => peer["client"] = "open"
  BY SideFacts DEF SelectClient, Places
<1>2. mode = "tunnel" => peer["origin"] = "open"
  BY SideFacts
<1>3. Nearer
  BY <1>1, <1>2, SendsNearer, QuietNearer, SelectClientNearer, ReceiveNearer DEF Thread
<1> QED
  BY <1>3, NearerRemaining DEF RelayInv

-----------------------------------------------------------------------------
(* TypeOK always holds: what recvResponse() counts stays within the buffer   *)
(* for any pieces and wherever the origin resets the connection, although    *)
(* an error moves the count back.                                            *)
THEOREM TypeAlways == Spec => []TypeOK
<1>1. Init => RelayInv
  BY InitInv
<1>2. RelayInv /\ [Next]_vars => RelayInv'
  BY NextInv
<1>3. RelayInv => TypeOK
  BY DEF RelayInv
<1> QED
  BY <1>1, <1>2, <1>3, PTL DEF Spec

(* InOrder always holds, for any size of the buffer and any responses: what  *)
(* recvResponse(), sendRequest() and sendResponse() have passed on is a      *)
(* beginning of what was sent.                                               *)
THEOREM InOrderAlways == Spec => []InOrder
<1>1. Init => RelayInv
  BY InitInv
<1>2. RelayInv /\ [Next]_vars => RelayInv'
  BY NextInv
<1>3. RelayInv => InOrder
  BY OrderedInOrder DEF RelayInv
<1> QED
  BY <1>1, <1>2, <1>3, PTL DEF Spec

(* NoOverrun always holds: recvResponse() does not write behind its buffer   *)
(* if the response fits into it, though recv() is given the whole length.    *)
THEOREM NoOverrunAlways == Spec => []NoOverrun
<1>1. Init => RelayInv /\ NoOverrun
  BY InitInv DEF Init, NoOverrun
<1>2. RelayInv /\ NoOverrun /\ [Next]_vars => (RelayInv /\ NoOverrun)'
  BY NextInv, NextNoOverrun
<1> QED
  BY <1>1, <1>2, PTL DEF Spec

(* Entire always holds: for any pieces and any partial sends, a client that  *)
(* stays has all of a response that comes in chunks, or whose Content-Length *)
(* was known, when the thread ends; recvResponse() has not returned before.  *)
THEOREM EntireAlways == Spec => []Entire
<1>1. Init => RelayInv /\ Places /\ Ending
  BY InitInv, EndingInit
<1>2. RelayInv /\ Places /\ Ending /\ [Next]_vars => (RelayInv /\ Places /\ Ending)'
  BY NextInv, NextEnding
<1>3. RelayInv /\ Places /\ Ending => Entire
  BY EndingEntire
<1> QED
  BY <1>1, <1>2, <1>3, PTL DEF Spec

(* NoSpin always holds: each step of a thread, outside a tunnel or while     *)
(* both sides of it are open, takes it nearer to a recv() that waits, or to  *)
(* its end, for any size of the buffer; the loop of recvResponse() included, *)
(* which neither an error nor the end of the stream keeps going.             *)
THEOREM NoSpinAlways == Spec => NoSpin
<1> DEFINE Turn == /\ Thread /\ (mode = "tunnel" => \A side \in Side : peer[side] = "open")
                        => Remaining' \in 0 .. Remaining - 1
                   /\ Peers /\ sent' = sent => Remaining' = Remaining
<1>1. Init => RelayInv /\ Places /\ Ending
  BY InitInv, EndingInit
<1>2. RelayInv /\ Places /\ Ending /\ [Next]_vars => (RelayInv /\ Places /\ Ending)'
  BY NextInv, NextEnding
<1>3. RelayInv /\ Places /\ [Next]_vars => [Turn]_vars
  <2> SUFFICES ASSUME RelayInv, Places, [Next]_vars PROVE [Turn]_vars
    OBVIOUS
  <2>1. RelayInv'
    BY NextInv
  <2>2. ASSUME Thread, mode = "tunnel" => \A side \in Side : peer[side] = "open"
        PROVE  Remaining' \in 0 .. Remaining - 1
    BY <2>1, <2>2, NextNearer
  <2>3. ASSUME Peers, sent' = sent PROVE Remaining' = Remaining
    <3>1. /\ read' = read /\ pc' = pc /\ total' = total /\ held' = held
          /\ mode' = mode /\ left' = left
      BY <2>3, PeersFacts DEF RelayInv, clientVars, relayVars
    <3>2. peer'["origin"] = "gone" <=> peer["origin"] = "gone"
      BY <2>3, PeersFacts, SideFacts DEF RelayInv
    <3>3. ToHear' = ToHear /\ Work' = Work
      BY <2>3, <3>1, <3>2 DEF ToHear, Unread, Work, After
    <3> QED
      BY <3>1, <3>3 DEF Remaining
  <2> QED
    BY <2>2, <2>3
<1> QED
  BY <1>1, <1>2, <1>3, PTL DEF Spec, NoSpin
=============================================================================
