---------------------------- MODULE FramingProof -----------------------------
(***************************************************************************)
(* Theorems about Framing, for any threads, sizes and capacities: messages *)
(* come out as they went in.                                               *)
(***************************************************************************)
EXTENDS Framing, SequenceTheorems, TLAPS

ByteOf(m, i) == [of |-> m, at |-> i]
Length(m) == Size[m.kind] + 2

Receiver == [mReadState : {"WAIT_HEADER", "WAIT_REMAINING", "lost"},
             mBuff : Seq(Byte), mExpectedReadSize : Nat]

\* A thread that has bytes to send holds mTransactionsMutex.
Exclusive == \A w \in Thread : Busy(w) => mTransactionsMutex = w

\* What a sender has not handed over is the end of one message.
Remainders ==
    \A s \in Sender : Busy(s) =>
        LET b == Head(sending[s]) IN
        /\ b.at >= 1
        /\ Len(sending[s]) = Length(b.of) + 1 - b.at
        /\ \A i \in DOMAIN sending[s] : sending[s][i] = ByteOf(b.of, b.at + i - 1)

\* Who is in the middle of a message towards e, and what is left of it: unless
\* messages were mixed, there is one at most.
Begun(e) == {s \in Sender : Towards(s) = e /\ Partly(s)}
OneAtATime(e) == \A r, s \in Begun(e) : r = s
IsRest(e, rest) == IF Begun(e) = {} THEN rest = <<>>
                   ELSE \E s \in Begun(e) : rest = sending[s]

\* These bytes are what is left of the messages, one after the other, from the p-th
\* byte of the k-th one on; start says where each of them starts, the k-th possibly
\* in front of the bytes.
Laid(start, k, p, messages, bytes) ==
    /\ start \in [Nat -> Int]
    /\ start[k] = 2 - p
    /\ start[Len(messages) + 1] = Len(bytes) + 1
    /\ \A m \in k .. Len(messages) :
        /\ start[m + 1] = start[m] + Length(messages[m])
        /\ start[m + 1] <= Len(bytes) + 1
        /\ \A i \in 1 .. Length(messages[m]) :
            start[m] + i >= 2 => bytes[start[m] + i - 1] = ByteOf(messages[m], i)

\* The message that e receives next or is receiving, and which of its bytes comes
\* next.
Current(e) == Len(handled[e]) + 1
Position(e) == IF receiver[e].mReadState = "WAIT_HEADER" THEN 1
               ELSE Len(receiver[e].mBuff) + 3

\* An end is in step: what it handled is what was sent first, what it has is the
\* beginning of the current message, and what comes is the rest of it and the others.
InStep(e) ==
    /\ receiver[e].mReadState # "lost"
    /\ Len(handled[e]) <= Len(sent[e])
    /\ \A i \in DOMAIN handled[e] : handled[e][i] = sent[e][i]
    /\ receiver[e].mReadState = "WAIT_REMAINING" =>
        /\ Current(e) <= Len(sent[e])
        /\ receiver[e].mExpectedReadSize = Size[sent[e][Current(e)].kind]
        /\ \A i \in DOMAIN receiver[e].mBuff :
            receiver[e].mBuff[i] = ByteOf(sent[e][Current(e)], i + 2)
    /\ \E rest, start : /\ IsRest(e, rest)
                        /\ Laid(start, Current(e), Position(e), sent[e], wire[e] \o rest)

Typed ==
    /\ wire \in [End -> Seq(Byte)]
    /\ receiver \in [End -> Receiver]
    /\ sent \in [End -> Seq(Message)] /\ handled \in [End -> Seq(Message)]

FramingIInv ==
    /\ FramingTypeOK /\ Typed
    /\ Exclusive
    /\ Remainders
    /\ \A e \in End : Clean(e) => OneAtATime(e) /\ InStep(e)
-----------------------------------------------------------------------------
(* Types.                                                                  *)

LEMMA SameItems ==
    ASSUME NEW S, NEW s \in Seq(S), NEW t \in Seq(S), Len(s) = Len(t),
           \A i \in 1 .. Len(s) : s[i] = t[i]
    PROVE  s = t
  OBVIOUS

LEMMA Lengths ==
    \A m \in Message : /\ Size[m.kind] \in Nat \ {0} /\ Length(m) \in Nat
                       /\ Length(m) = Size[m.kind] + 2 /\ Length(m) >= 3
  BY FramingAssumption DEF Message, Length

\* A message as it is sent.
LEMMA BytesOf ==
    ASSUME NEW m \in Message
    PROVE  /\ Bytes(m) \in Seq(Byte) /\ Len(Bytes(m)) = Length(m)
           /\ DOMAIN Bytes(m) = 1 .. Length(m) /\ Bytes(m) # <<>>
           /\ \A i \in 1 .. Length(m) : Bytes(m)[i] = ByteOf(m, i)
           /\ Head(Bytes(m)) = ByteOf(m, 1)
<1>1. Length(m) \in Nat /\ Length(m) >= 3
  BY Lengths
<1>2. Bytes(m) = [i \in 1 .. Length(m) |-> ByteOf(m, i)]
  BY DEF Bytes, Length, ByteOf
<1>3. \A i \in 1 .. Length(m) : ByteOf(m, i) \in Byte
  BY <1>1 DEF ByteOf, Byte
<1>4. Bytes(m) \in Seq(Byte) /\ Len(Bytes(m)) = Length(m)
  BY <1>1, <1>2, <1>3
<1>5. Bytes(m)[1] = ByteOf(m, 1) /\ Bytes(m) # <<>>
  BY <1>1, <1>2, <1>4
<1>6. Head(Bytes(m)) = Bytes(m)[1]
  BY <1>4, <1>5
<1> QED BY <1>1, <1>2, <1>4, <1>5, <1>6

LEMMA FromBytes ==
    ASSUME NEW bytes \in Seq(Byte)
    PROVE  Begins(bytes) \subseteq Message /\ Decoded(bytes) \subseteq Message
<1>1. \A i \in DOMAIN bytes : bytes[i].of \in Message
  <2>1. \A i \in DOMAIN bytes : bytes[i] \in Byte
    OBVIOUS
  <2> QED BY <2>1 DEF Byte
<1> QED BY <1>1 DEF Begins, Decoded

\* The header and the payload are of one message only.
LEMMA HeaderOf ==
    ASSUME NEW m \in Message, NEW bytes \in Seq(Byte), Len(bytes) = 2,
           bytes[1] = ByteOf(m, 1), bytes[2] = ByteOf(m, 2)
    PROVE  Begins(bytes) = {m}
<1>1. Bytes(m) \in Seq(Byte) /\ Len(Bytes(m)) = Length(m) /\ Length(m) >= 3
      /\ \A i \in 1 .. Length(m) : Bytes(m)[i] = ByteOf(m, i)
  BY BytesOf, Lengths
<1>2. bytes = Header(m)
  <2>1. Header(m) \in Seq(Byte) /\ Len(Header(m)) = 2
        /\ \A i \in 1 .. 2 : Header(m)[i] = Bytes(m)[i]
    BY <1>1, SubSeqProperties DEF Header
  <2>2. \A i \in 1 .. 2 : bytes[i] = Header(m)[i]
    BY <1>1, <2>1
  <2> QED BY <2>1, <2>2
<1>3. \A i \in DOMAIN bytes : bytes[i].of = m
  BY DEF ByteOf
<1>4. 1 \in DOMAIN bytes
  OBVIOUS
<1> QED BY <1>2, <1>3, <1>4 DEF Begins

LEMMA PayloadOf ==
    ASSUME NEW m \in Message, NEW bytes \in Seq(Byte), Len(bytes) = Size[m.kind],
           \A i \in DOMAIN bytes : bytes[i] = ByteOf(m, i + 2)
    PROVE  Decoded(bytes) = {m}
<1>1. Bytes(m) \in Seq(Byte) /\ Len(Bytes(m)) = Length(m)
      /\ Length(m) = Size[m.kind] + 2 /\ Size[m.kind] \in Nat \ {0}
      /\ \A i \in 1 .. Length(m) : Bytes(m)[i] = ByteOf(m, i)
  BY BytesOf, Lengths
<1>2. bytes = Payload(m)
  <2>1. Payload(m) \in Seq(Byte) /\ Len(Payload(m)) = Size[m.kind]
        /\ \A i \in 1 .. Size[m.kind] : Payload(m)[i] = Bytes(m)[i + 2]
    <3> DEFINE s == Bytes(m)
               z == Size[m.kind]
    <3>1. s \in Seq(Byte) /\ Len(s) = z + 2 /\ z \in Nat \ {0}
      BY <1>1
    <3> HIDE DEF s, z
    <3>2. SubSeq(s, 3, z + 2) \in Seq(Byte) /\ Len(SubSeq(s, 3, z + 2)) = z
          /\ \A i \in 1 .. z : SubSeq(s, 3, z + 2)[i] = s[i + 2]
      BY <3>1
    <3> QED BY <3>2 DEF Payload, s, z
  <2>2. PICK z : z = Size[m.kind]
    OBVIOUS
  <2>3. ASSUME NEW i \in 1 .. z PROVE bytes[i] = Payload(m)[i]
    <3>1. i \in DOMAIN bytes /\ i + 2 \in 1 .. Length(m)
      BY <1>1, <2>2
    <3> QED BY <1>1, <2>1, <2>2, <3>1
  <2> QED BY <1>1, <2>1, <2>2, <2>3, SameItems
<1>3. \A i \in DOMAIN bytes : bytes[i].of = m
  BY DEF ByteOf
<1>4. 1 \in DOMAIN bytes
  BY <1>1
<1> QED BY <1>2, <1>3, <1>4 DEF Decoded

\* A sender has made a message.
LEMMA MakesType ==
    ASSUME FramingTypeOK, NEW s \in Sender, NEW kind \in Kind, Makes(s, kind)
    PROVE  \E m \in Message :
            /\ m.from = s /\ sending' = [sending EXCEPT ![s] = Bytes(m)]
            /\ sending'[s] = Bytes(m)
            /\ sending' \in [Sender -> Seq(Byte)] /\ made' \in [Sender -> Nat]
<1> DEFINE m == [kind |-> kind, from |-> s, n |-> made[s] + 1]
<1>1. m \in Message
  BY DEF Message, FramingTypeOK
<1>2. /\ sending' = [sending EXCEPT ![s] = Bytes(m)]
      /\ made' = [made EXCEPT ![s] = @ + 1]
  BY DEF Makes
<1> HIDE DEF m
<1>3. Bytes(m) \in Seq(Byte)
  BY <1>1, BytesOf
<1>4. m.from = s
  BY DEF m
<1>5. sending' \in [Sender -> Seq(Byte)] /\ sending'[s] = Bytes(m)
  BY <1>2, <1>3 DEF FramingTypeOK
<1>6. made' \in [Sender -> Nat]
  BY <1>2 DEF FramingTypeOK
<1> QED BY <1>1, <1>2, <1>4, <1>5, <1>6

\* The numbers of a send.
Room(s) == Capacity - Len(wire[Towards(s)])
Amount(s) == IF Room(s) < Len(sending[s]) THEN Room(s) ELSE Len(sending[s])
Left(s) == SubSeq(sending[s], Amount(s) + 1, Len(sending[s]))
Given(s) == SubSeq(sending[s], 1, Amount(s))

LEMMA SendShape ==
    ASSUME FramingTypeOK, Typed, NEW s \in Sender, NEW e, e = Towards(s), Send(s)
    PROVE  /\ e \in End /\ Busy(s)
           /\ wire' = [wire EXCEPT ![e] = @ \o Given(s)]
           /\ sending' = [sending EXCEPT ![s] = Left(s)]
           /\ Amount(s) \in 1 .. Len(sending[s])
           /\ Len(wire[e]) + Amount(s) <= Capacity
           /\ Given(s) \in Seq(Byte) /\ Len(Given(s)) = Amount(s)
           /\ Left(s) \in Seq(Byte) /\ Len(Left(s)) = Len(sending[s]) - Amount(s)
           /\ \A i \in DOMAIN Left(s) : Left(s)[i] = sending[s][Amount(s) + i]
           /\ Given(s) \o Left(s) = sending[s]
<1>1. e \in End
  BY DEF Towards, End
<1>2. Busy(s) /\ Room(s) > 0
  BY DEF Send, Room
<1>3. wire' = [wire EXCEPT ![e] = @ \o Given(s)] /\ sending' = [sending EXCEPT ![s] = Left(s)]
  BY DEF Send, Given, Left, Amount, Room
<1>4. /\ sending[s] \in Seq(Byte) /\ wire[e] \in Seq(Byte) /\ Len(wire[e]) \in Nat
      /\ Len(sending[s]) \in Nat \ {0} /\ Capacity \in Nat
  BY <1>1, <1>2, FramingAssumption DEF FramingTypeOK, Typed, Busy
<1>5. Amount(s) \in 1 .. Len(sending[s]) /\ Len(wire[e]) + Amount(s) <= Capacity
  <2>1. PICK room, len : room = Room(s) /\ len = Len(sending[s])
    OBVIOUS
  <2>2. PICK cap, full : cap = Capacity /\ full = Len(wire[e])
    OBVIOUS
  <2>3. room = cap - full /\ room > 0 /\ full \in Nat /\ cap \in Nat /\ len \in Nat \ {0}
    BY <1>2, <1>4, <2>1, <2>2 DEF Room
  <2>4. Amount(s) = IF room < len THEN room ELSE len
    BY <2>1 DEF Amount
  <2>5. Amount(s) \in 1 .. len /\ full + Amount(s) <= cap
    BY <2>3, <2>4
  <2> QED BY <2>1, <2>2, <2>5
<1>6. PICK q, n : q = sending[s] /\ n = Amount(s)
  OBVIOUS
<1>7. /\ SubSeq(q, 1, n) \in Seq(Byte) /\ Len(SubSeq(q, 1, n)) = n
      /\ SubSeq(q, n + 1, Len(q)) \in Seq(Byte) /\ Len(SubSeq(q, n + 1, Len(q))) = Len(q) - n
      /\ \A i \in DOMAIN SubSeq(q, n + 1, Len(q)) :
            SubSeq(q, n + 1, Len(q))[i] = q[n + i]
  BY <1>4, <1>5, <1>6, SMTT(30)
<1>8. SubSeq(q, 1, n) \o SubSeq(q, n + 1, Len(q)) = q
  <2>1. /\ q \in Seq(Byte) /\ 1 \in 1 .. Len(q) + 1 /\ n \in 1 - 1 .. Len(q)
        /\ Len(q) \in n .. Len(q)
    BY <1>4, <1>5, <1>6
  <2>2. SubSeq(q, 1, n) \o SubSeq(q, n + 1, Len(q)) = SubSeq(q, 1, Len(q))
    BY <2>1, ConcatAdjacentSubSeq
  <2> QED BY <2>1, <2>2, SubSeqFull
<1> QED BY <1>1, <1>2, <1>3, <1>5, <1>6, <1>7, <1>8 DEF Given, Left

\* A sender is busy with the message of its first byte.
LEMMA InHand ==
    ASSUME FramingTypeOK, NEW s \in Sender, Busy(s)
    PROVE  /\ sending[s] \in Seq(Byte) /\ Len(sending[s]) \in Nat \ {0}
           /\ 1 \in DOMAIN sending[s] /\ Head(sending[s]) = sending[s][1]
           /\ Head(sending[s]) \in Byte
           /\ Head(sending[s]).of \in Message /\ Head(sending[s]).at \in Nat
<1>1. sending[s] \in Seq(Byte) /\ sending[s] # <<>>
  BY DEF FramingTypeOK, Busy
<1>2. /\ Len(sending[s]) \in Nat \ {0}
      /\ 1 \in DOMAIN sending[s] /\ Head(sending[s]) = sending[s][1]
      /\ Head(sending[s]) \in Byte
  BY <1>1
<1> QED BY <1>1, <1>2 DEF Byte

LEMMA SendTypes ==
    ASSUME FramingTypeOK, Typed, NEW s \in Sender, Send(s)
    PROVE  FramingTypeOK' /\ Typed'
<1>1. PICK e : e = Towards(s)
  OBVIOUS
<1>2. /\ e \in End /\ Busy(s)
      /\ wire' = [wire EXCEPT ![e] = @ \o Given(s)]
      /\ sending' = [sending EXCEPT ![s] = Left(s)]
      /\ Len(wire[e]) + Amount(s) <= Capacity
      /\ Given(s) \in Seq(Byte) /\ Len(Given(s)) = Amount(s) /\ Left(s) \in Seq(Byte)
  BY <1>1, SendShape
<1>3. wire' \in [End -> Seq(Byte)] /\ \A x \in End : Len(wire'[x]) <= Capacity
  <2>1. PICK q, g : q = wire[e] /\ g = Given(s)
    OBVIOUS
  <2>2. q \in Seq(Byte) /\ g \in Seq(Byte)
    BY <1>2, <2>1 DEF Typed
  <2>3. q \o g \in Seq(Byte) /\ Len(q \o g) = Len(q) + Len(g)
    BY <2>2
  <2> QED BY <1>2, <2>1, <2>3 DEF FramingTypeOK, Typed
<1>4. sending' \in [Sender -> Seq(Byte)]
  BY <1>2 DEF FramingTypeOK
<1>5. mTransactionsMutex' \in Thread \cup {None} /\ mixed' \in BOOLEAN
      /\ halved' \in [End -> BOOLEAN]
  BY DEF Send, FramingTypeOK
<1>6. sent' \in [End -> Seq(Message)]
  <2>1. Head(sending[s]).of \in Message
    BY <1>2, InHand
  <2>2. Append(sent[e], Head(sending[s]).of) \in Seq(Message)
    BY <1>2, <2>1 DEF Typed
  <2>3. sent' = sent \/ sent' = [sent EXCEPT ![e] = Append(@, Head(sending[s]).of)]
    BY <1>1 DEF Send
  <2> QED BY <2>2, <2>3 DEF Typed
<1>7. UNCHANGED <<receiver, made, handled>>
  BY DEF Send
<1> QED BY <1>3, <1>4, <1>5, <1>6, <1>7 DEF FramingTypeOK, Typed

\* The numbers of a read: bytes of the wire that were asked for.
Got(e, n) == SubSeq(wire[e], 1, n)
ReadsBytes(e, n) ==
    /\ n \in 1 .. Wanted(e) /\ n <= Len(wire[e])
    /\ wire' = [wire EXCEPT ![e] = SubSeq(wire[e], n + 1, Len(wire[e]))]
    /\ \/ /\ receiver[e].mReadState = "WAIT_HEADER"
          /\ halved' = IF n = 1 THEN [halved EXCEPT ![e] = TRUE] ELSE halved
          /\ IF Begins(Got(e, n)) = {} THEN Lost(e)
             ELSE \E m \in Begins(Got(e, n)) :
                    receiver' = [receiver EXCEPT ![e] = Remaining(Got(e, n), Size[m.kind])]
       \/ /\ receiver[e].mReadState = "WAIT_REMAINING"
          /\ receiver' = [receiver EXCEPT ![e].mBuff = @ \o Got(e, n)]
          /\ UNCHANGED halved

LEMMA ReadShape ==
    ASSUME FramingTypeOK, Typed, NEW e \in End, HandleRead(e)
    PROVE  \E n : ReadsBytes(e, n)
<1>1. PICK bytes : bytes = SubSeq(wire[e], 1, Len(wire[e]))
  OBVIOUS
<1>2. bytes = wire[e]
  BY <1>1, SubSeqFull DEF Typed
<1>3. PICK n \in 1 .. Wanted(e) :
        /\ n <= Len(bytes)
        /\ wire' = [wire EXCEPT ![e] = SubSeq(bytes, n + 1, Len(bytes))]
        /\ \/ /\ receiver[e].mReadState = "WAIT_HEADER"
              /\ halved' = IF n = 1 THEN [halved EXCEPT ![e] = TRUE] ELSE halved
              /\ IF Begins(SubSeq(bytes, 1, n)) = {} THEN Lost(e)
                 ELSE \E m \in Begins(SubSeq(bytes, 1, n)) :
                        receiver' = [receiver EXCEPT
                            ![e] = Remaining(SubSeq(bytes, 1, n), Size[m.kind])]
           \/ /\ receiver[e].mReadState = "WAIT_REMAINING"
              /\ receiver' = [receiver EXCEPT ![e].mBuff = @ \o SubSeq(bytes, 1, n)]
              /\ UNCHANGED halved
  BY <1>1, Zenon DEF HandleRead
<1> QED BY <1>2, <1>3 DEF ReadsBytes, Got

\* What was read, and what is left.
LEMMA ReadItems ==
    ASSUME FramingTypeOK, Typed, NEW e \in End, NEW n, ReadsBytes(e, n)
    PROVE  /\ n \in Nat \ {0} /\ n <= Len(wire[e])
           /\ Got(e, n) \in Seq(Byte) /\ Len(Got(e, n)) = n
           /\ \A i \in 1 .. n : Got(e, n)[i] = wire[e][i] /\ i \in DOMAIN wire[e]
           /\ wire'[e] \in Seq(Byte) /\ Len(wire'[e]) = Len(wire[e]) - n
           /\ \A i \in DOMAIN wire'[e] : wire'[e][i] = wire[e][i + n]
           /\ \A x \in End : x # e => wire'[x] = wire[x]
<1>1. /\ wire[e] \in Seq(Byte) /\ Wanted(e) \in Int
  <2>1. receiver[e].mBuff \in Seq(Byte) /\ receiver[e].mExpectedReadSize \in Nat
    BY DEF Typed, Receiver
  <2>2. Len(receiver[e].mBuff) \in Nat
    BY <2>1
  <2> QED BY <2>1, <2>2 DEF Wanted, Typed
<1>2. n \in Nat \ {0} /\ n <= Len(wire[e])
  BY <1>1 DEF ReadsBytes
<1>3. PICK q : q = wire[e]
  OBVIOUS
<1>4. /\ SubSeq(q, 1, n) \in Seq(Byte) /\ Len(SubSeq(q, 1, n)) = n
      /\ \A i \in 1 .. n : SubSeq(q, 1, n)[i] = q[i] /\ i \in DOMAIN q
      /\ SubSeq(q, n + 1, Len(q)) \in Seq(Byte) /\ Len(SubSeq(q, n + 1, Len(q))) = Len(q) - n
      /\ \A i \in DOMAIN SubSeq(q, n + 1, Len(q)) : SubSeq(q, n + 1, Len(q))[i] = q[i + n]
  BY <1>1, <1>2, <1>3
<1>5. wire'[e] = SubSeq(q, n + 1, Len(q)) /\ \A x \in End : x # e => wire'[x] = wire[x]
  BY <1>3 DEF ReadsBytes, Typed
<1> QED BY <1>2, <1>3, <1>4, <1>5 DEF Got

LEMMA ReadTypes ==
    ASSUME FramingTypeOK, Typed, NEW e \in End, HandleRead(e)
    PROVE  FramingTypeOK' /\ Typed'
<1>1. PICK n : ReadsBytes(e, n)
  BY ReadShape
<1>2. /\ n \in Nat \ {0} /\ Got(e, n) \in Seq(Byte) /\ Len(Got(e, n)) = n
      /\ wire'[e] \in Seq(Byte) /\ Len(wire'[e]) = Len(wire[e]) - n
      /\ \A x \in End : x # e => wire'[x] = wire[x]
  BY <1>1, ReadItems
<1>3. wire' \in [End -> Seq(Byte)] /\ \A x \in End : Len(wire'[x]) <= Capacity
  <2>1. wire' \in [End -> Seq(Byte)]
    BY <1>1, <1>2 DEF ReadsBytes, Typed
  <2>2. Len(wire[e]) \in Nat /\ Capacity \in Nat
    BY FramingAssumption DEF Typed
  <2>3. \A x \in End : Len(wire[x]) <= Capacity
    BY DEF FramingTypeOK
  <2>4. Len(wire'[e]) <= Capacity
    BY <1>2, <2>2, <2>3
  <2>5. ASSUME NEW x \in End PROVE Len(wire'[x]) <= Capacity
    BY <1>2, <2>3, <2>4
  <2> QED BY <2>1, <2>5
<1>4. PICK r : r = receiver[e]
  OBVIOUS
<1>5. r \in Receiver /\ Len(r.mBuff) <= r.mExpectedReadSize
  BY <1>4 DEF FramingTypeOK, Typed
<1>6. /\ receiver'[e] \in Receiver
      /\ Len(receiver'[e].mBuff) <= receiver'[e].mExpectedReadSize
      /\ receiver' = [receiver EXCEPT ![e] = receiver'[e]]
  <2>1. CASE Lost(e)
    BY <1>4, <1>5, <2>1 DEF Lost, Receiver, Typed
  <2>2. ASSUME NEW m \in Begins(Got(e, n)),
               receiver' = [receiver EXCEPT ![e] = Remaining(Got(e, n), Size[m.kind])]
        PROVE  /\ receiver'[e] \in Receiver
               /\ Len(receiver'[e].mBuff) <= receiver'[e].mExpectedReadSize
               /\ receiver' = [receiver EXCEPT ![e] = receiver'[e]]
    <3>1. m \in Message
      BY <1>2, FromBytes
    <3>2. Size[m.kind] \in Nat
      BY <3>1, Lengths
    <3>3. Remaining(Got(e, n), Size[m.kind]) \in Receiver
      BY <3>2 DEF Remaining, Receiver
    <3> QED BY <2>2, <3>2, <3>3 DEF Remaining, Typed
  <2>3. ASSUME r.mReadState = "WAIT_REMAINING",
               receiver' = [receiver EXCEPT ![e].mBuff = @ \o Got(e, n)]
        PROVE  /\ receiver'[e] \in Receiver
               /\ Len(receiver'[e].mBuff) <= receiver'[e].mExpectedReadSize
               /\ receiver' = [receiver EXCEPT ![e] = receiver'[e]]
    <3>1. PICK b, g : b = r.mBuff /\ g = Got(e, n)
      OBVIOUS
    <3>2. b \in Seq(Byte) /\ g \in Seq(Byte) /\ Len(g) = n
      BY <1>2, <1>5, <3>1 DEF Receiver
    <3>3. b \o g \in Seq(Byte) /\ Len(b \o g) = Len(b) + n /\ Len(b) \in Nat
      BY <3>2
    <3>4. n <= r.mExpectedReadSize - Len(b)
      BY <1>1, <1>2, <1>4, <1>5, <2>3, <3>1, <3>3 DEF ReadsBytes, Wanted, Receiver
    <3>5. receiver'[e] = [r EXCEPT !.mBuff = b \o g]
      BY <1>4, <2>3, <3>1 DEF Typed
    <3>6. receiver'[e] \in Receiver
      BY <1>5, <3>3, <3>5 DEF Receiver
    <3>7. Len(b \o g) <= r.mExpectedReadSize
      <4>1. r.mExpectedReadSize \in Nat
        BY <1>5 DEF Receiver
      <4> QED BY <1>2, <3>3, <3>4, <4>1
    <3>8. receiver'[e].mBuff = b \o g /\ receiver'[e].mExpectedReadSize = r.mExpectedReadSize
      BY <1>5, <3>5 DEF Receiver
    <3> QED BY <1>4, <2>3, <3>1, <3>5, <3>6, <3>7, <3>8 DEF Typed
  <2> QED BY <1>1, <1>4, <2>1, <2>2, <2>3 DEF ReadsBytes
<1>7. UNCHANGED <<sending, mTransactionsMutex, made, sent, handled, mixed>>
      /\ halved' \in [End -> BOOLEAN]
  <2>1. halved' \in [End -> BOOLEAN]
    BY <1>1 DEF ReadsBytes, FramingTypeOK
  <2> QED BY <2>1 DEF HandleRead
<1>8. receiver' \in [End -> Receiver]
      /\ \A x \in End : Len(receiver'[x].mBuff) <= receiver'[x].mExpectedReadSize
  BY <1>6 DEF FramingTypeOK, Typed
<1> QED BY <1>3, <1>7, <1>8 DEF FramingTypeOK, Typed, Receiver

\* What Handle makes of the message that has come, if it is one.
HandlesMessage(e, m) ==
    /\ handled' = [handled EXCEPT ![e] = Append(@, m)]
    /\ receiver' = [receiver EXCEPT ![e] = WaitHeader]
    /\ \/ UNCHANGED <<sending, made>>
       \/ \E kind \in Kind : Makes(At(e), kind)

LEMMA HandleShape ==
    ASSUME NEW e \in End, Handle(e)
    PROVE  /\ Whole(e) /\ At(e) \in Sender /\ ~Busy(At(e))
           /\ UNCHANGED <<wire, mTransactionsMutex, sent, mixed, halved>>
           /\ \/ /\ Decoded(receiver[e].mBuff) = {}
                 /\ Lost(e) /\ UNCHANGED <<handled, sending, made>>
              \/ \E m \in Decoded(receiver[e].mBuff) : HandlesMessage(e, m)
<1>1. At(e) \in Sender
  BY DEF At, Sender
<1>2. \A k : Response(k) \subseteq Kind
  BY DEF Response, Kind
<1> QED BY <1>1, <1>2 DEF Handle, HandlesMessage

LEMMA HandleTypes ==
    ASSUME FramingTypeOK, Typed, NEW e \in End, Handle(e)
    PROVE  FramingTypeOK' /\ Typed'
<1>1. sending' \in [Sender -> Seq(Byte)] /\ made' \in [Sender -> Nat]
  BY HandleShape, MakesType DEF HandlesMessage, FramingTypeOK
<1>2. /\ receiver' \in [End -> Receiver]
      /\ \A x \in End : Len(receiver'[x].mBuff) <= receiver'[x].mExpectedReadSize
  <2>1. CASE Lost(e)
    BY <2>1 DEF Lost, Receiver, Typed, FramingTypeOK
  <2>2. CASE receiver' = [receiver EXCEPT ![e] = WaitHeader]
    <3>1. WaitHeader \in Receiver /\ Len(WaitHeader.mBuff) <= WaitHeader.mExpectedReadSize
      BY DEF WaitHeader, Receiver
    <3> QED BY <2>2, <3>1 DEF Typed, FramingTypeOK
  <2> QED BY <2>1, <2>2, HandleShape DEF HandlesMessage
<1>3. handled' \in [End -> Seq(Message)]
  <2>1. ASSUME NEW m \in Decoded(receiver[e].mBuff) PROVE m \in Message
    BY FromBytes DEF Typed, Receiver
  <2>2. ASSUME NEW m \in Message, handled' = [handled EXCEPT ![e] = Append(@, m)]
        PROVE  handled' \in [End -> Seq(Message)]
    BY <2>2 DEF Typed
  <2>3. handled' = handled \/ \E m \in Message : handled' = [handled EXCEPT ![e] = Append(@, m)]
    BY <2>1, HandleShape DEF HandlesMessage
  <2> QED BY <2>2, <2>3 DEF Typed
<1> QED BY <1>1, <1>2, <1>3, HandleShape DEF FramingTypeOK, Typed, Receiver

LEMMA TypesNext ==
    ASSUME FramingTypeOK, Typed, FramingNext
    PROVE  FramingTypeOK' /\ Typed'
<1>1. ASSUME NEW w \in Thread, AddTransaction(w)
      PROVE  FramingTypeOK' /\ Typed'
  <2>1. w \in Sender /\ "request" \in Kind
    BY DEF Sender, Kind
  <2>2. sending' \in [Sender -> Seq(Byte)] /\ made' \in [Sender -> Nat]
    BY <1>1, <2>1, MakesType DEF AddTransaction
  <2>3. mTransactionsMutex' \in Thread \cup {None}
    BY <1>1 DEF AddTransaction, Locked
  <2> QED BY <1>1, <2>2, <2>3 DEF AddTransaction, FramingTypeOK, Typed
<1>2. ASSUME HandleOther
      PROVE  FramingTypeOK' /\ Typed'
  <2>1. Reactor \in Sender /\ {"notification", "call"} \subseteq Kind
    BY DEF Sender, Kind
  <2>2. sending' \in [Sender -> Seq(Byte)] /\ made' \in [Sender -> Nat]
    BY <1>2, <2>1, MakesType DEF HandleOther
  <2> QED BY <1>2, <2>2 DEF HandleOther, FramingTypeOK, Typed
<1> QED BY <1>1, <1>2, SendTypes, ReadTypes, HandleTypes DEF FramingNext

-----------------------------------------------------------------------------
(* Who sends.                                                              *)

\* A message that a sender has just made is not begun.
LEMMA MadeAnew ==
    ASSUME FramingTypeOK, Remainders, NEW s \in Sender, NEW kind \in Kind,
           ~Busy(s), Makes(s, kind)
    PROVE  /\ Remainders'
           /\ \A r \in Sender : (Partly(r)' <=> Partly(r)) /\ (r # s => sending'[r] = sending[r])
<1>1. PICK m \in Message :
        sending' = [sending EXCEPT ![s] = Bytes(m)] /\ sending'[s] = Bytes(m)
  BY MakesType
<1>2. \A r \in Sender : r # s => sending'[r] = sending[r]
  BY <1>1 DEF FramingTypeOK
<1>3. /\ Head(sending'[s]) = ByteOf(m, 1) /\ Len(sending'[s]) = Length(m)
      /\ DOMAIN sending'[s] = 1 .. Length(m)
      /\ \A i \in 1 .. Length(m) : sending'[s][i] = ByteOf(m, i)
      /\ Length(m) \in Nat
  BY <1>1, BytesOf, Lengths
<1>4. ~Partly(s) /\ ~Partly(s)'
  BY <1>3 DEF Partly, Busy, ByteOf
<1>5. ASSUME NEW r \in Sender, Busy(r)', NEW b, b = Head(sending'[r])
      PROVE  /\ b.at >= 1
             /\ Len(sending'[r]) = Length(b.of) + 1 - b.at
             /\ \A i \in DOMAIN sending'[r] : sending'[r][i] = ByteOf(b.of, b.at + i - 1)
  <2>1. CASE r = s
    BY <1>3, <1>5, <2>1 DEF ByteOf
  <2>2. CASE r # s
    BY <1>2, <1>5, <2>2 DEF Remainders, Busy
  <2> QED BY <2>1, <2>2
<1>6. \A r \in Sender : Partly(r)' <=> Partly(r)
  BY <1>2, <1>4 DEF Partly, Busy
<1> QED BY <1>2, <1>5, <1>6 DEF Remainders

\* A send goes on where the sender is.
LEMMA SendGoesOn ==
    ASSUME FramingTypeOK, Typed, Remainders, NEW s \in Sender, Send(s)
    PROVE  /\ Remainders'
           /\ \A r \in Sender : r # s => sending'[r] = sending[r]
           /\ Partly(s)' <=> Left(s) # <<>>
<1>1. PICK e : e = Towards(s)
  OBVIOUS
<1>2. /\ Busy(s) /\ sending' = [sending EXCEPT ![s] = Left(s)]
      /\ Amount(s) \in 1 .. Len(sending[s])
      /\ Left(s) \in Seq(Byte) /\ Len(Left(s)) = Len(sending[s]) - Amount(s)
      /\ \A i \in DOMAIN Left(s) : Left(s)[i] = sending[s][Amount(s) + i]
  BY <1>1, SendShape
<1>3. \A r \in Sender : r # s => sending'[r] = sending[r]
  BY <1>2 DEF FramingTypeOK
<1>4. sending'[s] = Left(s)
  BY <1>2 DEF FramingTypeOK
<1>5. PICK b, n, len : b = Head(sending[s]) /\ n = Amount(s) /\ len = Len(sending[s])
  OBVIOUS
<1>6. /\ b.of \in Message /\ b.at \in Nat /\ b.at >= 1 /\ len \in Nat /\ n \in 1 .. len
      /\ len = Length(b.of) + 1 - b.at /\ Length(b.of) \in Nat
      /\ \A i \in DOMAIN sending[s] : sending[s][i] = ByteOf(b.of, b.at + i - 1)
      /\ DOMAIN sending[s] = 1 .. len
  BY <1>2, <1>5, InHand, Lengths DEF Remainders
<1>7. ASSUME NEW i \in DOMAIN Left(s)
      PROVE  i \in Nat /\ Left(s)[i] = ByteOf(b.of, b.at + n + i - 1)
  <2>1. i \in Nat \ {0} /\ n + i \in 1 .. len
    <3>1. PICK l : l = Left(s)
      OBVIOUS
    <3>2. l \in Seq(Byte) /\ Len(l) = len - n /\ i \in DOMAIN l
      BY <1>2, <1>5, <1>7, <3>1
    <3>3. i \in 1 .. len - n
      BY <3>2
    <3> QED BY <1>6, <3>3
  <2>2. Left(s)[i] = ByteOf(b.of, b.at + (n + i) - 1)
    BY <1>2, <1>5, <1>6, <2>1
  <2>3. \A x, y, z \in Nat : x + (y + z) - 1 = x + y + z - 1
    OBVIOUS
  <2>4. b.at \in Nat /\ n \in Nat /\ i \in Nat
    BY <1>6, <2>1
  <2> QED BY <2>2, <2>3, <2>4
<1>8. ASSUME Left(s) # <<>>
      PROVE  /\ Head(Left(s)) = ByteOf(b.of, b.at + n)
             /\ Len(Left(s)) = Length(b.of) + 1 - (b.at + n)
  <2>1. 1 \in DOMAIN Left(s) /\ Head(Left(s)) = Left(s)[1]
    BY <1>2, <1>8
  <2>2. Left(s)[1] = ByteOf(b.of, b.at + n + 1 - 1)
    BY <1>7, <2>1
  <2> QED BY <1>2, <1>5, <1>6, <2>1, <2>2, SMTT(30)
<1>9. ASSUME NEW r \in Sender, Busy(r)', NEW d, d = Head(sending'[r])
      PROVE  /\ d.at >= 1
             /\ Len(sending'[r]) = Length(d.of) + 1 - d.at
             /\ \A i \in DOMAIN sending'[r] : sending'[r][i] = ByteOf(d.of, d.at + i - 1)
  <2>1. CASE r = s
    <3>1. d = ByteOf(b.of, b.at + n) /\ Len(Left(s)) = Length(b.of) + 1 - (b.at + n)
      BY <1>4, <1>8, <1>9, <2>1 DEF Busy
    <3>2. d.of = b.of /\ d.at = b.at + n
      BY <3>1 DEF ByteOf
    <3>3. d.at >= 1
      BY <1>6, <3>2
    <3> QED BY <1>4, <1>7, <2>1, <3>1, <3>2, <3>3
  <2>2. CASE r # s
    BY <1>3, <1>9, <2>2 DEF Remainders, Busy
  <2> QED BY <2>1, <2>2
<1>10. Partly(s)' <=> Left(s) # <<>>
  <2>1. Left(s) # <<>> => Head(Left(s)).at = b.at + n /\ b.at + n > 1
    BY <1>6, <1>8 DEF ByteOf
  <2> QED BY <1>4, <2>1 DEF Partly, Busy
<1> QED BY <1>3, <1>9, <1>10 DEF Remainders

\* addTransaction sends under the mutex, from the first byte to the last.
LEMMA ExclusiveNext ==
    ASSUME FramingTypeOK, Typed, Remainders, Exclusive, FramingNext
    PROVE  Exclusive' /\ Remainders'
<1>0. None \notin Thread /\ Reader \notin Thread /\ Reactor \notin Thread
  BY FramingAssumption
<1>1. ASSUME NEW w \in Thread, AddTransaction(w)
      PROVE  Exclusive' /\ Remainders'
  <2>1. w \in Sender /\ "request" \in Kind
    BY DEF Sender, Kind
  <2>2. Remainders' /\ \A r \in Sender : r # w => sending'[r] = sending[r]
    BY <1>1, <2>1, MadeAnew DEF AddTransaction
  <2>3. mTransactionsMutex = None /\ mTransactionsMutex' = w
    BY <1>1 DEF AddTransaction, Locked
  <2> QED BY <1>0, <2>2, <2>3 DEF Exclusive, Busy, Sender
<1>2. ASSUME NEW s \in Sender, Send(s)
      PROVE  Exclusive' /\ Remainders'
  <2>1. Remainders' /\ (\A r \in Sender : r # s => sending'[r] = sending[r]) /\ Busy(s)
    BY <1>2, SendGoesOn DEF Send
  <2>2. sending'[s] = Left(s)
    BY <1>2, SendShape DEF FramingTypeOK
  <2>3. mTransactionsMutex' = IF mTransactionsMutex = s /\ Left(s) = <<>> THEN None
                              ELSE mTransactionsMutex
    BY <1>2 DEF Send, Left, Amount, Room
  <2>4. ASSUME NEW w \in Thread, Busy(w)' PROVE mTransactionsMutex' = w
    <3>1. w \in Sender
      BY DEF Sender
    <3>2. CASE w = s
      BY <2>1, <2>2, <2>3, <2>4, <3>2 DEF Exclusive, Busy
    <3>3. CASE w # s
      BY <2>1, <2>3, <2>4, <3>1, <3>3 DEF Exclusive, Busy
    <3> QED BY <3>2, <3>3
  <2> QED BY <2>1, <2>4 DEF Exclusive
<1>3. ASSUME NEW s \in {Reader, Reactor}, NEW kind \in Kind, ~Busy(s), Makes(s, kind),
             mTransactionsMutex' = mTransactionsMutex
      PROVE  Exclusive' /\ Remainders'
  <2>1. s \in Sender
    BY DEF Sender
  <2>2. Remainders' /\ \A r \in Sender : r # s => sending'[r] = sending[r]
    BY <1>3, <2>1, MadeAnew
  <2> QED BY <1>0, <1>3, <2>2 DEF Exclusive, Busy, Sender
<1>4. ASSUME sending' = sending, mTransactionsMutex' = mTransactionsMutex
      PROVE  Exclusive' /\ Remainders'
  BY <1>4 DEF Exclusive, Remainders, Busy
<1>5. ASSUME NEW e \in End, Handle(e)
      PROVE  Exclusive' /\ Remainders'
  <2>1. At(e) \in {Reader, Reactor}
    BY DEF At
  <2> QED BY <1>3, <1>4, <1>5, <2>1, HandleShape DEF HandlesMessage
<1>6. ASSUME HandleOther PROVE Exclusive' /\ Remainders'
  BY <1>3, <1>6 DEF HandleOther, Kind
<1>7. ASSUME NEW e \in End, HandleRead(e) PROVE Exclusive' /\ Remainders'
  BY <1>4, <1>7 DEF HandleRead
<1> QED BY <1>1, <1>2, <1>5, <1>6, <1>7 DEF FramingNext

-----------------------------------------------------------------------------
(* Bytes and messages.                                                     *)

\* v is w without its first n items.
Without(v, w, n) ==
    n <= Len(w) /\ Len(v) = Len(w) - n /\ \A i \in DOMAIN v : v[i] = w[i + n]

\* The next bytes are those of the current message.
Continues(bytes, m, p) ==
    \A x \in Nat \ {0} : p + x - 1 <= Length(m) => bytes[x] = ByteOf(m, p + x - 1)

LEMMA LaidItems ==
    ASSUME NEW messages \in Seq(Message), NEW bytes, NEW k \in 1 .. Len(messages),
           NEW p \in Nat \ {0}, NEW start, Laid(start, k, p, messages, bytes)
    PROVE  Continues(bytes, messages[k], p)
<1>1. PICK m : m = messages[k]
  OBVIOUS
<1>2. Length(m) \in Nat /\ k \in k .. Len(messages)
  BY <1>1, Lengths
<1>3. ASSUME NEW x \in Nat \ {0}, p + x - 1 <= Length(m)
      PROVE  bytes[x] = ByteOf(m, p + x - 1)
  <2>1. PICK i : i = p + x - 1
    OBVIOUS
  <2>2. i \in 1 .. Length(m)
    BY <1>2, <1>3, <2>1
  <2>3. start[k] = 2 - p /\ start[k] + i >= 2 /\ start[k] + i - 1 = x
    BY <2>1, <2>2 DEF Laid
  <2>4. start[k] + i >= 2 => bytes[start[k] + i - 1] = ByteOf(m, i)
    BY <1>1, <1>2, <2>2 DEF Laid
  <2> QED BY <2>1, <2>3, <2>4
<1> QED BY <1>1, <1>3 DEF Continues

\* Where there are bytes, there is a message.
LEMMA LaidSome ==
    ASSUME NEW messages \in Seq(Message), NEW bytes \in Seq(Byte), Len(bytes) > 0,
           NEW k \in 1 .. Len(messages) + 1, NEW p \in Nat \ {0},
           NEW start, Laid(start, k, p, messages, bytes)
    PROVE  k \in 1 .. Len(messages)
<1>1. start[k] = 2 - p /\ start[Len(messages) + 1] = Len(bytes) + 1
  BY DEF Laid
<1>2. Len(messages) \in Nat /\ Len(bytes) \in Nat
  OBVIOUS
<1> QED BY <1>1, <1>2

\* Bytes of the current message are taken.
LEMMA LaidTaken ==
    ASSUME NEW messages \in Seq(Message), NEW bytes \in Seq(Byte), NEW less \in Seq(Byte),
           NEW n \in Nat \ {0}, Without(less, bytes, n),
           NEW k \in 1 .. Len(messages), NEW p \in Nat \ {0},
           p + n <= Length(messages[k]) + 1,
           NEW start, Laid(start, k, p, messages, bytes)
    PROVE  \E s : Laid(s, k, p + n, messages, less)
<1> DEFINE s == [m \in Nat |-> start[m] - n]
<1>1. start \in [Nat -> Int]
  BY DEF Laid
<1>2. s \in [Nat -> Int] /\ \A m \in Nat : s[m] = start[m] - n
  BY <1>1
<1> HIDE DEF s
<1>3. /\ Len(messages) \in Nat /\ Len(bytes) \in Nat /\ Len(less) \in Nat
      /\ Len(less) = Len(bytes) - n /\ \A i \in DOMAIN less : less[i] = bytes[i + n]
  BY DEF Without
<1>4. s[k] = 2 - (p + n) /\ s[Len(messages) + 1] = Len(less) + 1
  BY <1>1, <1>2, <1>3 DEF Laid
<1>5. ASSUME NEW m \in k .. Len(messages)
      PROVE  /\ s[m + 1] = s[m] + Length(messages[m])
             /\ s[m + 1] <= Len(less) + 1
             /\ \A i \in 1 .. Length(messages[m]) :
                  s[m] + i >= 2 => less[s[m] + i - 1] = ByteOf(messages[m], i)
  <2>1. PICK z : z = Length(messages[m])
    OBVIOUS
  <2>2. z \in Nat /\ m \in Nat /\ m + 1 \in Nat
    <3>1. messages[m] \in Message
      OBVIOUS
    <3> QED BY <2>1, <3>1, Lengths
  <2>3. PICK a, b : a = start[m] /\ b = start[m + 1]
    OBVIOUS
  <2>4. /\ a \in Int /\ b \in Int /\ b = a + z /\ b <= Len(bytes) + 1
        /\ \A i \in 1 .. z : a + i >= 2 => bytes[a + i - 1] = ByteOf(messages[m], i)
    BY <1>1, <2>1, <2>2, <2>3 DEF Laid
  <2>5. s[m] = a - n /\ s[m + 1] = b - n
    BY <1>2, <2>2, <2>3
  <2>6. ASSUME NEW i \in 1 .. z, s[m] + i >= 2
        PROVE  less[s[m] + i - 1] = ByteOf(messages[m], i)
    <3>1. PICK x : x = a - n + i - 1
      OBVIOUS
    <3>2. x \in 1 .. Len(less) /\ x + n = a + i - 1 /\ a + i >= 2
      <4>1. PICK ll, lb : ll = Len(less) /\ lb = Len(bytes)
        OBVIOUS
      <4>2. ll \in Nat /\ lb \in Nat /\ ll = lb - n
        BY <1>3, <4>1
      <4>3. i \in Nat /\ 1 <= i /\ i <= z
        BY <2>2
      <4>4. a - n + i >= 2 /\ a + z <= lb + 1
        BY <2>4, <2>5, <2>6, <4>1
      <4>5. x \in 1 .. ll /\ x + n = a + i - 1 /\ a + i >= 2
        BY <2>2, <2>4, <3>1, <4>2, <4>3, <4>4
      <4> QED BY <4>1, <4>5
    <3>3. less[x] = bytes[a + i - 1]
      <4>1. x \in DOMAIN less
        BY <3>2
      <4> QED BY <1>3, <3>2, <4>1
    <3>4. s[m] + i - 1 = x
      BY <2>5, <3>1
    <3> QED BY <2>4, <3>2, <3>3, <3>4
  <2>7. s[m + 1] = s[m] + z /\ s[m + 1] <= Len(less) + 1
    <3>1. PICK ll, lb : ll = Len(less) /\ lb = Len(bytes)
      OBVIOUS
    <3>2. ll \in Nat /\ lb \in Nat /\ ll = lb - n /\ b <= lb + 1
      BY <1>3, <2>4, <3>1
    <3>3. b - n = a - n + z /\ b - n <= ll + 1
      BY <2>2, <2>4, <3>2
    <3> QED BY <2>5, <3>1, <3>3
  <2> QED BY <2>1, <2>6, <2>7
<1>6. Laid(s, k, p + n, messages, less)
  BY <1>2, <1>4, <1>5 DEF Laid
<1> QED BY <1>6

\* A message is put behind.
LEMMA LaidMore ==
    ASSUME NEW messages \in Seq(Message), NEW bytes \in Seq(Byte), NEW m \in Message,
           NEW k \in 1 .. Len(messages) + 1, NEW p \in Nat \ {0},
           NEW start, Laid(start, k, p, messages, bytes)
    PROVE  \E s : Laid(s, k, p, Append(messages, m), bytes \o Bytes(m))
<1>1. PICK l, b, z : l = Len(messages) /\ b = Len(bytes) /\ z = Length(m)
  OBVIOUS
<1>2. l \in Nat /\ b \in Nat /\ z \in Nat
  BY <1>1, Lengths
<1> DEFINE s == [start EXCEPT ![l + 2] = start[l + 1] + z]
<1>3. /\ start \in [Nat -> Int] /\ start[k] = 2 - p /\ start[l + 1] = b + 1
  BY <1>1 DEF Laid
<1>4. /\ s \in [Nat -> Int] /\ s[l + 2] = b + 1 + z
      /\ \A j \in Nat : j # l + 2 => s[j] = start[j]
  BY <1>2, <1>3
<1> HIDE DEF s
<1>5. PICK more, longer : more = bytes \o Bytes(m) /\ longer = Append(messages, m)
  OBVIOUS
<1>6. /\ more \in Seq(Byte) /\ Len(more) = b + z
      /\ \A i \in 1 .. b : more[i] = bytes[i]
      /\ \A i \in 1 .. z : more[b + i] = ByteOf(m, i)
  <2>1. PICK t : t = Bytes(m)
    OBVIOUS
  <2>2. t \in Seq(Byte) /\ Len(t) = z /\ \A i \in 1 .. z : t[i] = ByteOf(m, i)
    BY <1>1, <2>1, BytesOf
  <2>3. more = bytes \o t /\ bytes \in Seq(Byte) /\ Len(bytes) = b
    BY <1>1, <1>5, <2>1
  <2>4. more \in Seq(Byte) /\ Len(more) = b + z
    BY <2>2, <2>3, ConcatProperties
  <2>5. \A i \in 1 .. b : more[i] = bytes[i]
    BY <1>2, <2>2, <2>3
  <2>6. ASSUME NEW i \in 1 .. z PROVE more[b + i] = t[i]
    <3>1. b + i \in 1 .. b + z /\ ~(b + i <= b) /\ b + i - b = i
      BY <1>2
    <3> QED BY <2>2, <2>3, <2>4, <3>1
  <2> QED BY <2>2, <2>4, <2>5, <2>6
<1>7. /\ Len(longer) = l + 1 /\ longer[l + 1] = m
      /\ \A j \in 1 .. l : longer[j] = messages[j]
  BY <1>1, <1>2, <1>5
<1>8. s[k] = 2 - p /\ s[Len(longer) + 1] = Len(more) + 1
  <2>1. k \in Nat /\ k # l + 2 /\ Len(longer) + 1 = l + 2
    BY <1>1, <1>2, <1>7
  <2> QED BY <1>2, <1>3, <1>4, <1>6, <2>1
<1>9. ASSUME NEW j \in k .. Len(longer)
      PROVE  /\ s[j + 1] = s[j] + Length(longer[j])
             /\ s[j + 1] <= Len(more) + 1
             /\ \A i \in 1 .. Length(longer[j]) :
                  s[j] + i >= 2 => more[s[j] + i - 1] = ByteOf(longer[j], i)
  <2>1. CASE j = l + 1
    <3>1. /\ longer[j] = m /\ j \in Nat /\ j # l + 2 /\ j + 1 = l + 2
          /\ s[j] = b + 1 /\ s[j + 1] = b + 1 + z
      BY <1>2, <1>3, <1>4, <1>7, <2>1
    <3>2. ASSUME NEW i \in 1 .. z PROVE more[b + 1 + i - 1] = ByteOf(m, i)
      <4>1. b + 1 + i - 1 = b + i
        BY <1>2
      <4> QED BY <1>6, <4>1
    <3>3. Length(longer[j]) = z /\ s[j + 1] = s[j] + z /\ s[j + 1] <= Len(more) + 1
      BY <1>1, <1>2, <1>6, <3>1
    <3> QED BY <3>1, <3>2, <3>3
  <2>2. CASE j # l + 1
    <3>1. /\ j \in k .. l /\ j \in 1 .. l /\ j \in Nat /\ j + 1 \in Nat
          /\ j # l + 2 /\ j + 1 # l + 2
      BY <1>1, <1>2, <1>7, <2>2
    <3>2. longer[j] = messages[j] /\ s[j] = start[j] /\ s[j + 1] = start[j + 1]
      BY <1>4, <1>7, <3>1
    <3>3. PICK y, a : y = Length(messages[j]) /\ a = start[j]
      OBVIOUS
    <3>4. /\ a \in Int /\ start[j + 1] = a + y /\ a + y <= b + 1
          /\ \A i \in 1 .. y : a + i >= 2 => bytes[a + i - 1] = ByteOf(messages[j], i)
      BY <1>1, <1>3, <3>1, <3>3 DEF Laid
    <3>5. y \in Nat
      <4>1. messages[j] \in Message
        BY <1>1, <3>1
      <4> QED BY <3>3, <4>1, Lengths
    <3>6. ASSUME NEW i \in 1 .. y, a + i >= 2
          PROVE  more[a + i - 1] = ByteOf(messages[j], i)
      <4>1. a + i - 1 \in 1 .. b
        BY <1>2, <3>4, <3>5, <3>6
      <4> QED BY <1>6, <3>4, <3>6, <4>1
    <3> QED BY <1>2, <1>6, <3>2, <3>3, <3>4, <3>5, <3>6
  <2> QED BY <2>1, <2>2
<1>10. Laid(s, k, p, longer, more)
  BY <1>4, <1>8, <1>9 DEF Laid
<1> QED BY <1>5, <1>10

\* The current message is complete: the next one starts with the next byte.
LEMMA LaidNext ==
    ASSUME NEW messages \in Seq(Message), NEW bytes, NEW k \in 1 .. Len(messages),
           NEW p, p = Length(messages[k]) + 1, NEW start, Laid(start, k, p, messages, bytes)
    PROVE  Laid(start, k + 1, 1, messages, bytes)
<1>1. PICK z : z = Length(messages[k])
  OBVIOUS
<1>2. z \in Nat
  BY <1>1, Lengths
<1>3. start[k + 1] = start[k] + z /\ start[k] = 2 - p /\ start \in [Nat -> Int]
  BY <1>1 DEF Laid
<1>4. start[k + 1] = 2 - 1
  BY <1>1, <1>2, <1>3
<1>5. \A m \in k + 1 .. Len(messages) : m \in k .. Len(messages)
  OBVIOUS
<1> QED BY <1>4, <1>5 DEF Laid

-----------------------------------------------------------------------------
(* The steps of an end.                                                    *)

\* Bytes are taken from the front of what has come; what follows is not touched.
BothFollowed(w, v, r, n) ==
    /\ w \o r \in Seq(Byte) /\ v \o r \in Seq(Byte) /\ Without(v \o r, w \o r, n)
    /\ Len(w \o r) >= Len(w) /\ \A i \in DOMAIN w : (w \o r)[i] = w[i]

LEMMA FrontTaken ==
    ASSUME NEW w \in Seq(Byte), NEW v \in Seq(Byte), NEW r \in Seq(Byte),
           NEW n \in Nat, Without(v, w, n)
    PROVE  BothFollowed(w, v, r, n)
<1>0. n <= Len(w) /\ Len(v) = Len(w) - n /\ \A i \in DOMAIN v : v[i] = w[i + n]
  BY DEF Without
<1>1. PICK a, b, lw, lv, lr : /\ a = w \o r /\ b = v \o r
                              /\ lw = Len(w) /\ lv = Len(v) /\ lr = Len(r)
  OBVIOUS
<1>2. /\ a \in Seq(Byte) /\ b \in Seq(Byte) /\ Len(a) = lw + lr /\ Len(b) = lv + lr
      /\ \A i \in 1 .. lw + lr : a[i] = IF i <= lw THEN w[i] ELSE r[i - lw]
      /\ \A i \in 1 .. lv + lr : b[i] = IF i <= lv THEN v[i] ELSE r[i - lv]
  BY <1>1, ConcatProperties
<1>3. lw \in Nat /\ lv \in Nat /\ lr \in Nat /\ lv = lw - n
      /\ DOMAIN w = 1 .. lw /\ DOMAIN v = 1 .. lv /\ DOMAIN b = 1 .. lv + lr
  BY <1>0, <1>1, <1>2
<1>4. ASSUME NEW i \in DOMAIN b PROVE b[i] = a[i + n]
  <2>1. i \in 1 .. lv + lr /\ i + n \in 1 .. lw + lr
    BY <1>3
  <2>2. CASE i <= lv
    <3>1. i \in DOMAIN v /\ i + n <= lw
      BY <1>3, <2>1, <2>2
    <3> QED BY <1>0, <1>2, <2>1, <2>2, <3>1
  <2>3. CASE ~(i <= lv)
    <3>1. ~(i + n <= lw) /\ i + n - lw = i - lv
      BY <1>3, <2>1, <2>3
    <3>2. PICK j : j = i + n
      OBVIOUS
    <3>3. a[j] = r[j - lw]
      BY <1>2, <2>1, <3>1, <3>2
    <3>4. b[i] = r[i - lv]
      BY <1>2, <2>1, <2>3
    <3> QED BY <1>3, <2>1, <3>1, <3>2, <3>3, <3>4
  <2> QED BY <2>2, <2>3
<1>5. \A i \in DOMAIN w : a[i] = w[i]
  BY <1>2, <1>3
<1>6. Len(a) >= lw /\ Len(b) = Len(a) - n /\ n <= Len(a)
  BY <1>0, <1>1, <1>2, <1>3
<1>7. Without(b, a, n)
  BY <1>4, <1>6 DEF Without
<1> QED BY <1>1, <1>2, <1>5, <1>6, <1>7 DEF BothFollowed

\* Where an end is.
LEMMA WhereItIs ==
    ASSUME Typed, NEW e \in End, InStep(e)
    PROVE  /\ Current(e) \in Nat \ {0} /\ Current(e) <= Len(sent[e]) + 1
           /\ Position(e) \in Nat \ {0} /\ Len(sent[e]) \in Nat
           /\ sent[e] \in Seq(Message) /\ wire[e] \in Seq(Byte)
           /\ receiver[e] \in Receiver /\ receiver[e].mBuff \in Seq(Byte)
           /\ Len(receiver[e].mBuff) \in Nat
<1>1. /\ handled[e] \in Seq(Message) /\ sent[e] \in Seq(Message) /\ wire[e] \in Seq(Byte)
      /\ receiver[e] \in Receiver /\ receiver[e].mBuff \in Seq(Byte)
  BY DEF Typed, Receiver
<1>2. /\ Len(handled[e]) \in Nat /\ Len(sent[e]) \in Nat /\ Len(receiver[e].mBuff) \in Nat
      /\ Len(handled[e]) <= Len(sent[e])
  BY <1>1 DEF InStep
<1> QED BY <1>1, <1>2 DEF Current, Position

LEMMA RestTyped ==
    ASSUME FramingTypeOK, NEW e, NEW rest, IsRest(e, rest)
    PROVE  rest \in Seq(Byte)
<1>1. \A s \in Begun(e) : sending[s] \in Seq(Byte)
  BY DEF FramingTypeOK, Begun
<1>2. <<>> \in Seq(Byte)
  OBVIOUS
<1> QED BY <1>1, <1>2 DEF IsRest

\* What others do elsewhere leaves an end in step.
Undisturbed(e) ==
    /\ wire'[e] = wire[e] /\ receiver'[e] = receiver[e]
    /\ sent'[e] = sent[e] /\ handled'[e] = handled[e]

SendersKept(e) ==
    \A r \in Sender : Towards(r) = e =>
        (Partly(r)' <=> Partly(r)) /\ (Partly(r) => sending'[r] = sending[r])

LEMMA RestKept ==
    ASSUME NEW e, SendersKept(e)
    PROVE  /\ OneAtATime(e) => OneAtATime(e)'
           /\ \A rest : IsRest(e, rest) => IsRest(e, rest)'
<1>1. Begun(e)' = Begun(e)
  BY DEF Begun, SendersKept
<1>2. \A s \in Begun(e) : sending'[s] = sending[s]
  BY DEF Begun, SendersKept
<1>3. OneAtATime(e) => OneAtATime(e)'
  BY <1>1 DEF OneAtATime
<1>4. ASSUME NEW rest, IsRest(e, rest) PROVE IsRest(e, rest)'
  BY <1>1, <1>2, <1>4 DEF IsRest
<1> QED BY <1>3, <1>4

LEMMA UndisturbedKept ==
    ASSUME NEW e, Undisturbed(e), SendersKept(e), OneAtATime(e), InStep(e)
    PROVE  OneAtATime(e)' /\ InStep(e)'
<1>1. OneAtATime(e)' /\ \A rest : IsRest(e, rest) => IsRest(e, rest)'
  BY RestKept
<1>2. Current(e)' = Current(e) /\ Position(e)' = Position(e)
  BY DEF Undisturbed, Current, Position
<1>3. PICK rest, start : /\ IsRest(e, rest)
                         /\ Laid(start, Current(e), Position(e), sent[e], wire[e] \o rest)
  BY DEF InStep
<1>4. /\ IsRest(e, rest)'
      /\ Laid(start, Current(e)', Position(e)', sent'[e], wire'[e] \o rest)
  BY <1>1, <1>2, <1>3 DEF Undisturbed
<1> QED BY <1>1, <1>2, <1>4 DEF InStep, Undisturbed

\* handleRead takes the header, or more of the payload.
LEMMA ReadInStep ==
    ASSUME FramingTypeOK, Typed, NEW e \in End, HandleRead(e), Clean(e)',
           OneAtATime(e), InStep(e)
    PROVE  OneAtATime(e)' /\ InStep(e)'
<1>1. PICK n : ReadsBytes(e, n)
  BY ReadShape
<1>2. UNCHANGED <<sending, sent, handled>>
  BY DEF HandleRead
<1>3. OneAtATime(e)' /\ \A rest : IsRest(e, rest) => IsRest(e, rest)'
  BY <1>2, RestKept DEF SendersKept, Partly, Busy
<1>4. PICK k, p, ms, w, v, b : /\ k = Current(e) /\ p = Position(e) /\ ms = sent[e]
                               /\ w = wire[e] /\ v = wire'[e] /\ b = receiver[e].mBuff
  OBVIOUS
<1>5. PICK rest, start, all, less :
        /\ all = w \o rest /\ less = v \o rest
        /\ IsRest(e, rest) /\ Laid(start, k, p, ms, all)
  BY <1>4 DEF InStep
<1>6. /\ k \in 1 .. Len(ms) + 1 /\ p \in Nat \ {0} /\ ms \in Seq(Message)
      /\ w \in Seq(Byte) /\ b \in Seq(Byte) /\ Len(b) \in Nat
      /\ receiver[e] \in Receiver /\ rest \in Seq(Byte)
  BY <1>4, <1>5, WhereItIs, RestTyped
<1>7. /\ n \in Nat \ {0} /\ n <= Len(w)
      /\ Got(e, n) \in Seq(Byte) /\ Len(Got(e, n)) = n
      /\ \A i \in 1 .. n : Got(e, n)[i] = w[i] /\ i \in DOMAIN w
      /\ v \in Seq(Byte) /\ Len(v) = Len(w) - n /\ \A i \in DOMAIN v : v[i] = w[i + n]
  BY <1>1, <1>4, ReadItems
<1>8. /\ all \in Seq(Byte) /\ less \in Seq(Byte)
      /\ Without(less, all, n) /\ Len(all) >= Len(w)
      /\ \A i \in DOMAIN w : all[i] = w[i]
  <2>1. Without(v, w, n) /\ n \in Nat
    BY <1>7 DEF Without
  <2>2. w \in Seq(Byte) /\ v \in Seq(Byte) /\ rest \in Seq(Byte)
    BY <1>6, <1>7
  <2>3. all = w \o rest /\ less = v \o rest
    BY <1>5
  <2>4. BothFollowed(w, v, rest, n)
    BY <2>1, <2>2, FrontTaken
  <2> QED BY <2>3, <2>4 DEF BothFollowed
<1>9. k \in 1 .. Len(ms)
  <2>1. Len(all) > 0
    BY <1>6, <1>7, <1>8
  <2> QED BY <1>5, <1>6, <1>8, <2>1, LaidSome
<1>10. PICK m, z : m = ms[k] /\ z = Size[m.kind]
  OBVIOUS
<1>11. m \in Message /\ z \in Nat \ {0} /\ Length(m) = z + 2
  <2>1. m \in Message
    BY <1>6, <1>9, <1>10
  <2> QED BY <1>10, <2>1, Lengths
<1>12. ASSUME NEW i \in 1 .. n, p + i - 1 <= Length(m)
       PROVE  Got(e, n)[i] = ByteOf(m, p + i - 1)
  <2>1. Continues(all, ms[k], p)
    BY <1>5, <1>6, <1>9, LaidItems
  <2>2. i \in Nat \ {0}
    BY <1>7
  <2>3. all[i] = ByteOf(m, p + i - 1)
    BY <1>10, <1>12, <2>1, <2>2 DEF Continues
  <2> QED BY <1>7, <1>8, <2>3
<1>13. ASSUME Position(e)' = p + n, p + n <= Length(m) + 1
       PROVE  \E s : Laid(s, Current(e)', Position(e)', sent'[e], wire'[e] \o rest)
  <2>1. \E s : Laid(s, k, p + n, ms, less)
    <3>1. p + n <= Length(ms[k]) + 1
      BY <1>10, <1>13
    <3> QED BY <1>5, <1>6, <1>7, <1>8, <1>9, <3>1, LaidTaken
  <2>2. Current(e)' = k /\ sent'[e] = ms /\ wire'[e] = v
    BY <1>2, <1>4 DEF Current
  <2> QED BY <1>5, <1>13, <2>1, <2>2
<1>14. CASE receiver[e].mReadState = "WAIT_HEADER"
  <2>1. n = 2 /\ p = 1
    <3>1. n = 1 => halved'[e]
      BY <1>1, <1>14 DEF ReadsBytes, FramingTypeOK
    <3>2. n # 1
      BY <3>1 DEF Clean
    <3>3. n \in 1 .. 2
      BY <1>1, <1>14 DEF ReadsBytes, Wanted
    <3>4. p = 1
      BY <1>4, <1>14 DEF Position
    <3> QED BY <3>2, <3>3, <3>4
  <2>2. Got(e, n)[1] = ByteOf(m, 1) /\ Got(e, n)[2] = ByteOf(m, 2)
    <3>1. /\ 1 \in 1 .. n /\ 2 \in 1 .. n /\ p + 1 - 1 = 1 /\ p + 2 - 1 = 2
          /\ 1 <= Length(m) /\ 2 <= Length(m)
      BY <1>11, <2>1
    <3> QED BY <1>12, <3>1
  <2>3. Begins(Got(e, n)) = {m}
    BY <1>7, <1>11, <2>1, <2>2, HeaderOf
  <2>4. receiver' = [receiver EXCEPT ![e] = Remaining(Got(e, n), z)]
    BY <1>1, <1>10, <1>14, <2>3 DEF ReadsBytes
  <2>5. receiver'[e] = [mReadState |-> "WAIT_REMAINING", mBuff |-> <<>>,
                        mExpectedReadSize |-> z]
    BY <2>4 DEF Remaining, Typed
  <2>6. Position(e)' = p + n
    BY <2>1, <2>5 DEF Position
  <2>7. \E s : Laid(s, Current(e)', Position(e)', sent'[e], wire'[e] \o rest)
    <3>1. p + n <= Length(m) + 1
      BY <1>11, <2>1
    <3> QED BY <1>13, <2>6, <3>1
  <2>8. /\ Len(handled'[e]) <= Len(sent'[e]) /\ \A i \in DOMAIN handled'[e] : handled'[e][i] = sent'[e][i]
        /\ Current(e)' = k /\ sent'[e] = ms
    BY <1>2, <1>4 DEF InStep, Current
  <2>9. Current(e)' <= Len(sent'[e])
    BY <1>9, <2>8
  <2> QED BY <1>3, <1>5, <1>10, <2>5, <2>7, <2>8, <2>9 DEF InStep
<1>15. CASE receiver[e].mReadState = "WAIT_REMAINING"
  <2>1. /\ p = Len(b) + 3 /\ receiver[e].mExpectedReadSize = z
        /\ \A i \in DOMAIN b : b[i] = ByteOf(m, i + 2)
    BY <1>4, <1>10, <1>15 DEF Position, InStep
  <2>2. n <= z - Len(b)
    BY <1>1, <1>4, <1>7, <1>15, <2>1 DEF ReadsBytes, Wanted
  <2>3. PICK g, d : g = Got(e, n) /\ d = b \o g
    OBVIOUS
  <2>4. receiver'[e] = [receiver[e] EXCEPT !.mBuff = d]
    BY <1>1, <1>4, <1>15, <2>3 DEF ReadsBytes, Typed
  <2>5. /\ receiver'[e].mReadState = "WAIT_REMAINING" /\ receiver'[e].mBuff = d
        /\ receiver'[e].mExpectedReadSize = z
    BY <1>6, <1>15, <2>1, <2>4 DEF Receiver
  <2>6. /\ d \in Seq(Byte) /\ Len(d) = Len(b) + n
        /\ \A i \in 1 .. Len(b) + n : d[i] = IF i <= Len(b) THEN b[i] ELSE g[i - Len(b)]
    <3>1. b \in Seq(Byte) /\ g \in Seq(Byte) /\ Len(g) = n
      BY <1>6, <1>7, <2>3
    <3> QED BY <2>3, <3>1, ConcatProperties
  <2>7. ASSUME NEW i \in DOMAIN d PROVE d[i] = ByteOf(m, i + 2)
    <3>1. PICK l : l = Len(b)
      OBVIOUS
    <3>2. l \in Nat /\ i \in 1 .. l + n /\ DOMAIN b = 1 .. l
      BY <1>6, <1>7, <2>6, <3>1
    <3>3. CASE i <= l
      BY <2>1, <2>6, <3>1, <3>2, <3>3
    <3>4. CASE ~(i <= l)
      <4>1. PICK j : j = i - l
        OBVIOUS
      <4>2. j \in 1 .. n /\ p + j - 1 = i + 2 /\ p + j - 1 <= Length(m)
        BY <1>7, <1>11, <2>1, <2>2, <3>1, <3>2, <3>4, <4>1, SMTT(30)
      <4>3. d[i] = g[j]
        BY <2>6, <3>1, <3>2, <3>4, <4>1
      <4> QED BY <1>12, <2>3, <4>2, <4>3
    <3> QED BY <3>3, <3>4
  <2>8. Position(e)' = p + n
    <3>1. Len(d) + 3 = p + n
      BY <1>6, <1>7, <2>1, <2>6
    <3> QED BY <2>5, <3>1 DEF Position
  <2>9. \E s : Laid(s, Current(e)', Position(e)', sent'[e], wire'[e] \o rest)
    <3>1. p + n <= Length(m) + 1
      BY <1>6, <1>7, <1>11, <2>1, <2>2
    <3> QED BY <1>13, <2>8, <3>1
  <2>10. /\ Len(handled'[e]) <= Len(sent'[e]) /\ \A i \in DOMAIN handled'[e] : handled'[e][i] = sent'[e][i]
         /\ Current(e)' = k /\ sent'[e] = ms
    BY <1>2, <1>4 DEF InStep, Current
  <2>11. Current(e)' <= Len(sent'[e])
    BY <1>9, <2>10
  <2> QED BY <1>3, <1>5, <1>10, <2>5, <2>7, <2>9, <2>10, <2>11 DEF InStep
<1> QED BY <1>1, <1>14, <1>15 DEF ReadsBytes

\* handle and onMsg: what has come is the current message.
LEMMA HandleInStep ==
    ASSUME FramingTypeOK, Typed, Remainders, NEW e \in End, Handle(e),
           OneAtATime(e), InStep(e)
    PROVE  OneAtATime(e)' /\ InStep(e)'
<1>1. /\ Whole(e) /\ At(e) \in Sender /\ ~Busy(At(e))
      /\ UNCHANGED <<wire, mTransactionsMutex, sent, mixed, halved>>
      /\ \/ /\ Decoded(receiver[e].mBuff) = {}
            /\ Lost(e) /\ UNCHANGED <<handled, sending, made>>
         \/ \E m \in Decoded(receiver[e].mBuff) : HandlesMessage(e, m)
  BY HandleShape
<1>2. PICK k, p, ms, b : /\ k = Current(e) /\ p = Position(e) /\ ms = sent[e]
                         /\ b = receiver[e].mBuff
  OBVIOUS
<1>3. PICK rest, start : IsRest(e, rest) /\ Laid(start, k, p, ms, wire[e] \o rest)
  BY <1>2 DEF InStep
<1>4. /\ k \in Nat \ {0} /\ p \in Nat \ {0} /\ ms \in Seq(Message) /\ b \in Seq(Byte)
      /\ Len(b) \in Nat /\ Len(ms) \in Nat
  BY <1>2, WhereItIs
<1>5. PICK m, z : m = ms[k] /\ z = Size[m.kind]
  OBVIOUS
<1>6. /\ receiver[e].mReadState = "WAIT_REMAINING"
      /\ Len(b) = z /\ k <= Len(ms) /\ \A i \in DOMAIN b : b[i] = ByteOf(m, i + 2)
  BY <1>1, <1>2, <1>5 DEF Whole, InStep
<1>7. k \in 1 .. Len(ms) /\ m \in Message /\ z \in Nat \ {0} /\ Length(m) = z + 2
  <2>1. k \in 1 .. Len(ms)
    BY <1>4, <1>6
  <2>2. m \in Message
    BY <1>4, <1>5, <2>1
  <2> QED BY <1>5, <2>1, <2>2, Lengths
<1>8. Decoded(b) = {m}
  BY <1>4, <1>5, <1>6, <1>7, PayloadOf
<1>9. HandlesMessage(e, m)
  BY <1>1, <1>2, <1>8
<1>10. /\ receiver'[e] = WaitHeader /\ handled'[e] = Append(handled[e], m)
       /\ wire'[e] = wire[e] /\ sent'[e] = ms
  BY <1>1, <1>2, <1>9 DEF HandlesMessage, Typed
<1>11. /\ Len(handled'[e]) = k /\ Current(e)' = k + 1
       /\ \A i \in DOMAIN handled'[e] : handled'[e][i] = ms[i]
  <2>1. handled[e] \in Seq(Message) /\ Len(handled[e]) + 1 = k
    BY <1>2 DEF Typed, Current
  <2>2. \A i \in DOMAIN handled[e] : handled[e][i] = ms[i]
    BY <1>2 DEF InStep
  <2>3. Len(handled'[e]) = k
    BY <1>7, <1>10, <2>1
  <2>4. ASSUME NEW i \in DOMAIN handled'[e] PROVE handled'[e][i] = ms[i]
    <3>1. PICK h : h = handled[e]
      OBVIOUS
    <3>2. /\ h \in Seq(Message) /\ Len(h) + 1 = k /\ i \in DOMAIN Append(h, m)
          /\ handled'[e][i] = Append(h, m)[i]
      BY <1>10, <2>1, <2>4, <3>1
    <3>3. \/ i \in DOMAIN h /\ Append(h, m)[i] = h[i]
          \/ i = k /\ Append(h, m)[i] = m
      BY <1>7, <3>2
    <3> QED BY <1>5, <2>2, <3>1, <3>2, <3>3
  <2> QED BY <2>3, <2>4 DEF Current
<1>12. Position(e)' = 1 /\ receiver'[e].mReadState = "WAIT_HEADER"
  BY <1>10 DEF Position, WaitHeader
<1>13. Laid(start, k + 1, 1, ms, wire[e] \o rest)
  <2>1. p = Length(m) + 1
    BY <1>2, <1>6, <1>7 DEF Position
  <2> QED BY <1>3, <1>4, <1>5, <1>7, <2>1, LaidNext
<1>14. SendersKept(e)
  <2>1. CASE UNCHANGED <<sending, made>>
    BY <2>1 DEF SendersKept, Partly, Busy
  <2>2. ASSUME NEW kind \in Kind, Makes(At(e), kind) PROVE SendersKept(e)
    <3>1. \A r \in Sender : (Partly(r)' <=> Partly(r))
                            /\ (r # At(e) => sending'[r] = sending[r])
      BY <1>1, <2>2, MadeAnew
    <3>2. ~Partly(At(e))
      BY <1>1 DEF Partly
    <3> QED BY <3>1, <3>2 DEF SendersKept
  <2> QED BY <1>9, <2>1, <2>2 DEF HandlesMessage
<1>15. OneAtATime(e)' /\ IsRest(e, rest)'
  BY <1>3, <1>14, RestKept
<1>16. Laid(start, Current(e)', Position(e)', sent'[e], wire'[e] \o rest)
  BY <1>10, <1>11, <1>12, <1>13
<1>17. Len(handled'[e]) <= Len(sent'[e])
  BY <1>6, <1>10, <1>11
<1> QED BY <1>10, <1>11, <1>12, <1>15, <1>16, <1>17 DEF InStep

\* Nobody begins a message where another has not ended his, unless they mix them:
\* threads exclude each other by the mutex, and only the reactor sends to the client.
LEMMA BeginsAlone ==
    ASSUME FramingTypeOK, Exclusive, NEW s \in Sender, Send(s), Clean(Towards(s))',
           ~Partly(s)
    PROVE  Begun(Towards(s)) = {}
<1>1. SUFFICES ASSUME NEW r \in Sender, Towards(r) = Towards(s), Partly(r)
               PROVE  FALSE
  BY DEF Begun
<1>2. r # s /\ Busy(r) /\ Busy(s)
  BY <1>1 DEF Partly, Send
<1>3. s # Reactor /\ r # Reactor
  BY <1>1, <1>2 DEF Towards
<1>4. r # Reader /\ s # Reader
  <2>1. ~mixed'
    BY <1>3 DEF Clean, Towards
  <2>2. Interrupted(s) = {}
    BY <2>1 DEF Send
  <2> QED BY <1>1, <1>2, <2>2 DEF Interrupted
<1>5. r \in Thread /\ s \in Thread
  BY <1>1, <1>2, <1>4 DEF Sender, Towards
<1> QED BY <1>2, <1>5 DEF Exclusive

\* ::send hands over the next bytes of a message.
LEMMA SendInStep ==
    ASSUME FramingTypeOK, Typed, Exclusive, Remainders, NEW s \in Sender, Send(s),
           NEW e, e = Towards(s), Clean(e)', OneAtATime(e), InStep(e)
    PROVE  OneAtATime(e)' /\ InStep(e)'
<1>0. PICK left, given : left = Left(s) /\ given = Given(s)
  OBVIOUS
<1>1. /\ e \in End /\ Busy(s)
      /\ wire' = [wire EXCEPT ![e] = @ \o given]
      /\ sending' = [sending EXCEPT ![s] = left]
      /\ given \in Seq(Byte) /\ left \in Seq(Byte)
      /\ given \o left = sending[s]
  BY <1>0, SendShape
<1>2. /\ \A r \in Sender : r # s => sending'[r] = sending[r]
      /\ Partly(s)' <=> left # <<>>
      /\ sending'[s] = left
  BY <1>0, <1>1, SendGoesOn DEF FramingTypeOK
<1>3. wire'[e] = wire[e] \o given /\ UNCHANGED <<receiver, made, handled>>
  BY <1>1 DEF Send, Typed
<1>4. Current(e)' = Current(e) /\ Position(e)' = Position(e)
  BY <1>3 DEF Current, Position
<1>5. PICK k, p, ms : k = Current(e) /\ p = Position(e) /\ ms = sent[e]
  OBVIOUS
<1>6. PICK rest, start : IsRest(e, rest) /\ Laid(start, k, p, ms, wire[e] \o rest)
  BY <1>5 DEF InStep
<1>7. /\ k \in Nat \ {0} /\ k <= Len(ms) + 1 /\ p \in Nat \ {0}
      /\ Len(ms) \in Nat /\ ms \in Seq(Message) /\ wire[e] \in Seq(Byte)
  BY <1>1, <1>5, WhereItIs
<1>8. wire'[e] \o left = wire[e] \o sending[s]
  <2>1. (wire[e] \o given) \o left = wire[e] \o (given \o left)
    <3>1. PICK w : w = wire[e]
      OBVIOUS
    <3>2. w \in Seq(Byte) /\ given \in Seq(Byte) /\ left \in Seq(Byte)
      BY <1>1, <1>7, <3>1
    <3>3. (w \o given) \o left = w \o (given \o left)
      BY ONLY <3>2, ConcatAssociative
    <3> QED BY <3>1, <3>3
  <2> QED BY <1>1, <1>3, <2>1
<1>9. ASSUME Begun(e) \subseteq {s}
      PROVE  OneAtATime(e)' /\ IsRest(e, left)'
  <2>1. \A r \in Sender : r # s => (Partly(r)' <=> Partly(r))
    BY <1>2 DEF Partly, Busy
  <2>2. Begun(e)' \subseteq {s} /\ (s \in Begun(e)' <=> left # <<>>)
    BY <1>2, <1>9, <2>1 DEF Begun
  <2>3. OneAtATime(e)'
    BY <2>2 DEF OneAtATime
  <2>4. IsRest(e, left)'
    BY <1>2, <2>2 DEF IsRest
  <2> QED BY <2>3, <2>4
<1>10. CASE Partly(s)
  <2>1. s \in Begun(e) /\ Begun(e) \subseteq {s}
    BY <1>10 DEF Begun, OneAtATime
  <2>2. rest = sending[s]
    BY <1>6, <2>1 DEF IsRest
  <2>3. sent' = sent
    BY <1>10 DEF Send
  <2>4. Laid(start, Current(e)', Position(e)', sent'[e], wire'[e] \o left)
    BY <1>4, <1>5, <1>6, <1>8, <2>2, <2>3
  <2> QED BY <1>3, <1>4, <1>9, <2>1, <2>3, <2>4 DEF InStep
<1>11. CASE ~Partly(s)
  <2>1. Begun(e) = {}
    BY <1>11, BeginsAlone
  <2>2. rest = <<>> /\ wire[e] \o rest = wire[e]
    BY <1>6, <1>7, <2>1, ConcatEmptySeq DEF IsRest
  <2>3. PICK m : m = Head(sending[s]).of
    OBVIOUS
  <2>4. m \in Message /\ sending[s] \in Seq(Byte)
    BY <1>1, <2>3, InHand
  <2>5. sending[s] = Bytes(m)
    <3>1. Head(sending[s]).at = 1
      BY <1>1, <1>11, InHand DEF Partly, Remainders
    <3>2. /\ Len(sending[s]) = Length(m) + 1 - 1
          /\ \A i \in DOMAIN sending[s] : sending[s][i] = ByteOf(m, 1 + i - 1)
      BY <1>1, <2>3, <3>1 DEF Remainders
    <3>3. Length(m) \in Nat
      BY <2>4, Lengths
    <3>4. ASSUME NEW i \in 1 .. Len(sending[s]) PROVE sending[s][i] = Bytes(m)[i]
      <4>1. i \in DOMAIN sending[s] /\ i \in 1 .. Length(m) /\ 1 + i - 1 = i
        BY <2>4, <3>2, <3>3
      <4> QED BY <2>4, <3>2, <4>1, BytesOf
    <3>5. Bytes(m) \in Seq(Byte) /\ Len(Bytes(m)) = Len(sending[s])
      BY <2>4, <3>2, <3>3, BytesOf
    <3> QED BY <2>4, <3>4, <3>5, SameItems
  <2>6. sent'[e] = Append(ms, m)
    BY <1>1, <1>5, <1>11, <2>3 DEF Send, Typed
  <2>7. PICK more : more = Append(ms, m)
    OBVIOUS
  <2>8. /\ Len(more) = Len(ms) + 1 /\ \A i \in 1 .. Len(ms) : more[i] = ms[i]
    BY <1>7, <2>4, <2>7
  <2>9. \E start2 : Laid(start2, k, p, more, wire[e] \o Bytes(m))
    <3>1. k \in 1 .. Len(ms) + 1 /\ Laid(start, k, p, ms, wire[e])
      BY <1>6, <1>7, <2>2
    <3> QED BY <1>7, <2>4, <2>7, <3>1, LaidMore
  <2>10. \E start2 : Laid(start2, Current(e)', Position(e)', sent'[e], wire'[e] \o left)
    BY <1>4, <1>5, <1>8, <2>5, <2>6, <2>7, <2>9
  <2>11. /\ Len(handled'[e]) <= Len(sent'[e])
         /\ \A i \in DOMAIN handled'[e] : handled'[e][i] = sent'[e][i]
    <3>1. handled[e] \in Seq(Message) /\ Len(handled[e]) <= Len(ms)
      BY <1>1, <1>5 DEF Typed, InStep
    <3>2. ASSUME NEW i \in DOMAIN handled[e] PROVE handled[e][i] = more[i]
      <4>1. i \in 1 .. Len(ms)
        BY <1>7, <3>1
      <4> QED BY <1>5, <2>8, <4>1 DEF InStep
    <3>3. Len(handled[e]) <= Len(ms) + 1
      BY <1>7, <3>1
    <3> QED BY <1>3, <2>6, <2>7, <2>8, <3>2, <3>3
  <2>12. ASSUME receiver[e].mReadState = "WAIT_REMAINING"
         PROVE  /\ Current(e)' <= Len(sent'[e]) /\ sent'[e][Current(e)'] = ms[k]
    <3>1. k <= Len(ms)
      BY <1>5, <2>12 DEF InStep
    <3> QED BY <1>4, <1>5, <1>7, <2>6, <2>7, <2>8, <3>1
  <2>13. receiver'[e] = receiver[e]
    BY <1>3
  <2> QED BY <1>4, <1>5, <1>9, <2>1, <2>10, <2>11, <2>12, <2>13 DEF InStep
<1> QED BY <1>10, <1>11

-----------------------------------------------------------------------------
(* All together.                                                           *)

LEMMA FramingIInvInit == FramingInit => FramingIInv
<1> SUFFICES ASSUME FramingInit PROVE FramingIInv
  OBVIOUS
<1>1. /\ wire = [e \in End |-> <<>>] /\ sending = [s \in Sender |-> <<>>]
      /\ mTransactionsMutex = None /\ receiver = [e \in End |-> WaitHeader]
      /\ made = [s \in Sender |-> 0] /\ mixed = FALSE
      /\ halved = [e \in End |-> FALSE]
      /\ sent = [e \in End |-> <<>>] /\ handled = [e \in End |-> <<>>]
  BY DEF FramingInit
<1>2. /\ WaitHeader \in Receiver /\ WaitHeader.mReadState = "WAIT_HEADER"
      /\ Len(WaitHeader.mBuff) = 0 /\ WaitHeader.mExpectedReadSize = 0
  BY DEF WaitHeader, Receiver
<1>3. Typed
  BY <1>1, <1>2 DEF Typed
<1>4. FramingTypeOK
  <2>1. Capacity \in Nat
    BY FramingAssumption
  <2>2. \A e \in End : wire[e] \in Seq(Byte) /\ Len(wire[e]) <= Capacity
    BY <1>1, <2>1
  <2>3. \A e \in End :
          /\ receiver[e].mReadState \in {"WAIT_HEADER", "WAIT_REMAINING", "lost"}
          /\ receiver[e].mBuff \in Seq(Byte)
          /\ Len(receiver[e].mBuff) <= receiver[e].mExpectedReadSize
    BY <1>1, <1>2 DEF Receiver
  <2>4. sending \in [Sender -> Seq(Byte)]
    BY <1>1
  <2>5. made \in [Sender -> Nat]
    BY <1>1
  <2>6. mTransactionsMutex \in Thread \cup {None} /\ mixed \in BOOLEAN
        /\ halved \in [End -> BOOLEAN]
    BY <1>1
  <2>7. sent \in [End -> Seq(Message)] /\ handled \in [End -> Seq(Message)]
    BY <1>3 DEF Typed
  <2> QED BY <2>2, <2>3, <2>4, <2>5, <2>6, <2>7 DEF FramingTypeOK
<1>5. \A s \in Sender : ~Busy(s)
  BY <1>1 DEF Busy
<1>6. Exclusive /\ Remainders
  BY <1>5 DEF Exclusive, Remainders, Sender
<1>7. ASSUME NEW e \in End PROVE OneAtATime(e) /\ InStep(e)
  <2>1. Begun(e) = {}
    BY <1>5 DEF Begun, Partly
  <2>2. /\ handled[e] = <<>> /\ sent[e] = <<>> /\ wire[e] = <<>>
        /\ receiver[e].mReadState = "WAIT_HEADER"
    BY <1>1, <1>2
  <2>3. Current(e) = 1 /\ Position(e) = 1
    BY <2>2 DEF Current, Position
  <2>4. Laid([m \in Nat |-> 1], 1, 1, <<>>, <<>>)
    BY DEF Laid
  <2>5. IsRest(e, <<>>) /\ wire[e] \o <<>> = <<>>
    BY <2>1, <2>2 DEF IsRest
  <2>6. \E rest, start : /\ IsRest(e, rest)
                         /\ Laid(start, Current(e), Position(e), sent[e], wire[e] \o rest)
    BY <2>2, <2>3, <2>4, <2>5
  <2> QED BY <2>1, <2>2, <2>6 DEF OneAtATime, InStep
<1> QED BY <1>3, <1>4, <1>6, <1>7 DEF FramingIInv

\* What an end cannot cope with stays with it.
LEMMA CleanBefore ==
    ASSUME FramingTypeOK, Typed, FramingNext, NEW e \in End, Clean(e)'
    PROVE  Clean(e)
<1>1. mixed => mixed'
  BY DEF FramingNext, AddTransaction, Send, HandleRead, Handle, HandleOther
<1>2. halved[e] => halved'[e]
  <2>1. ASSUME NEW x \in End, HandleRead(x)
        PROVE  halved[e] => halved'[e]
    <3>1. PICK n : ReadsBytes(x, n)
      BY <2>1, ReadShape
    <3>2. halved' = halved \/ halved' = [halved EXCEPT ![x] = TRUE]
      BY <3>1 DEF ReadsBytes
    <3> QED BY <3>2 DEF FramingTypeOK
  <2> QED BY <2>1 DEF FramingNext, AddTransaction, Send, Handle, HandleOther
<1> QED BY <1>1, <1>2 DEF Clean

\* The steps of InStep, by action.
LEMMA InStepNext ==
    ASSUME FramingIInv, FramingNext, NEW e \in End, Clean(e)'
    PROVE  OneAtATime(e)' /\ InStep(e)'
<1>1. Clean(e)
  BY CleanBefore DEF FramingIInv
<1>2. /\ FramingTypeOK /\ Typed /\ Exclusive /\ Remainders
      /\ OneAtATime(e) /\ InStep(e)
  BY <1>1 DEF FramingIInv
<1>3. ASSUME NEW s \in Sender, NEW kind \in Kind, ~Busy(s), Makes(s, kind)
      PROVE  SendersKept(e)
  BY <1>2, <1>3, MadeAnew DEF SendersKept, Partly
<1>4. ASSUME NEW w \in Thread, AddTransaction(w)
      PROVE  OneAtATime(e)' /\ InStep(e)'
  <2>1. SendersKept(e)
    BY <1>3, <1>4 DEF AddTransaction, Sender, Kind
  <2> QED BY <1>2, <1>4, <2>1, UndisturbedKept DEF AddTransaction, Undisturbed
<1>5. ASSUME HandleOther
      PROVE  OneAtATime(e)' /\ InStep(e)'
  <2>1. SendersKept(e)
    BY <1>3, <1>5 DEF HandleOther, Sender, Kind
  <2> QED BY <1>2, <1>5, <2>1, UndisturbedKept DEF HandleOther, Undisturbed
<1>6. ASSUME NEW s \in Sender, Send(s)
      PROVE  OneAtATime(e)' /\ InStep(e)'
  <2>1. CASE Towards(s) = e
    BY <1>2, <1>6, <2>1, SendInStep
  <2>2. CASE Towards(s) # e
    <3>1. PICK x : x = Towards(s)
      OBVIOUS
    <3>2. /\ \A r \in Sender : r # s => sending'[r] = sending[r]
          /\ wire' = [wire EXCEPT ![x] = @ \o Given(s)]
      BY <1>2, <1>6, <3>1, SendGoesOn, SendShape
    <3>3. SendersKept(e)
      BY <2>2, <3>2 DEF SendersKept, Partly, Busy
    <3>4. Undisturbed(e)
      BY <1>2, <1>6, <2>2, <3>1, <3>2 DEF Send, Undisturbed, Typed
    <3> QED BY <1>2, <3>3, <3>4, UndisturbedKept
  <2> QED BY <2>1, <2>2
<1>7. ASSUME NEW x \in End, HandleRead(x)
      PROVE  OneAtATime(e)' /\ InStep(e)'
  <2>1. CASE x = e
    BY <1>2, <1>7, <2>1, ReadInStep
  <2>2. CASE x # e
    <3>1. SendersKept(e)
      BY <1>7 DEF HandleRead, SendersKept, Partly, Busy
    <3>2. Undisturbed(e)
      <4>1. PICK n : ReadsBytes(x, n)
        BY <1>2, <1>7, ReadShape
      <4> QED BY <1>2, <1>7, <2>2, <4>1 DEF HandleRead, ReadsBytes, Lost, Undisturbed, Typed
    <3> QED BY <1>2, <3>1, <3>2, UndisturbedKept
  <2> QED BY <2>1, <2>2
<1>8. ASSUME NEW x \in End, Handle(x)
      PROVE  OneAtATime(e)' /\ InStep(e)'
  <2>1. CASE x = e
    BY <1>2, <1>8, <2>1, HandleInStep
  <2>2. CASE x # e
    <3>1. SendersKept(e)
      <4>1. CASE UNCHANGED sending
        BY <4>1 DEF SendersKept, Partly, Busy
      <4> QED BY <1>3, <1>8, <4>1, HandleShape DEF HandlesMessage
    <3>2. Undisturbed(e)
      BY <1>2, <1>8, <2>2, HandleShape DEF HandlesMessage, Lost, Undisturbed, Typed
    <3> QED BY <1>2, <3>1, <3>2, UndisturbedKept
  <2> QED BY <2>1, <2>2
<1> QED BY <1>4, <1>5, <1>6, <1>7, <1>8 DEF FramingNext

LEMMA FramingIInvNext ==
    ASSUME FramingIInv, [FramingNext]_framingVars
    PROVE  FramingIInv'
<1>1. CASE FramingNext
  <2>1. FramingTypeOK' /\ Typed'
    BY <1>1, TypesNext DEF FramingIInv
  <2>2. Exclusive' /\ Remainders'
    BY <1>1, ExclusiveNext DEF FramingIInv
  <2>3. \A e \in End : Clean(e)' => OneAtATime(e)' /\ InStep(e)'
    BY <1>1, InStepNext
  <2> QED BY <2>1, <2>2, <2>3 DEF FramingIInv
<1>2. CASE UNCHANGED framingVars
  <2>1. FramingTypeOK' /\ Typed'
    BY <1>2 DEF framingVars, FramingIInv, FramingTypeOK, Typed
  <2>2. Exclusive' /\ Remainders'
    BY <1>2 DEF framingVars, FramingIInv, Exclusive, Remainders, Busy
  <2>3. ASSUME NEW e \in End, Clean(e)'
        PROVE  OneAtATime(e)' /\ InStep(e)'
    <3>1. Undisturbed(e) /\ SendersKept(e)
      BY <1>2 DEF framingVars, Undisturbed, SendersKept, Partly, Busy
    <3>2. OneAtATime(e) /\ InStep(e)
      BY <1>2, <2>3 DEF framingVars, FramingIInv, Clean
    <3> QED BY <3>1, <3>2, UndisturbedKept
  <2> QED BY <2>1, <2>2, <2>3 DEF FramingIInv
<1> QED BY <1>1, <1>2

\* What has been sent and not handled is at hand, byte by byte, at each end of the
\* connection, in what has been read, on the wire and with whoever is sending, as
\* long as no read of that end brought half a header and nobody mixed messages there.
THEOREM FramingInvariance == FramingSpec => []FramingIInv
<1>1. FramingIInv /\ [FramingNext]_framingVars => FramingIInv'
  BY FramingIInvNext
<1> QED BY <1>1, FramingIInvInit, PTL DEF FramingSpec

\* Buffers, wires and messages keep their types, and mBuff is never overrun: no
\* read asks for more than the message that is announced, even where a header has
\* come in two pieces or messages were mixed.
THEOREM FramingTypeCorrect == FramingSpec => []FramingTypeOK
<1>1. FramingInit => FramingTypeOK /\ Typed
  BY FramingIInvInit DEF FramingIInv
<1>2. FramingTypeOK /\ Typed /\ [FramingNext]_framingVars => (FramingTypeOK /\ Typed)'
  <2>1. ASSUME FramingTypeOK, Typed, UNCHANGED framingVars PROVE FramingTypeOK' /\ Typed'
    BY <2>1 DEF framingVars, FramingTypeOK, Typed
  <2> QED BY <2>1, TypesNext
<1> QED BY <1>1, <1>2, PTL DEF FramingSpec

\* Each end handles the messages that were sent to it, whole and in order, however
\* the payloads were cut up on their way, whoever waited for room and whatever
\* became of the other direction: an end loses its step only where a read brings it
\* half a header, and the server also where the client's reader and a thread wrote
\* into each other's message.
THEOREM AlwaysDeliveredAsSent == FramingSpec => []DeliveredAsSent
<1>1. ASSUME FramingIInv PROVE DeliveredAsSent
  <2>1. ASSUME NEW e \in End, Clean(e)
        PROVE  receiver[e].mReadState # "lost" /\ IsPrefix(handled[e], sent[e])
    <3>1. /\ InStep(e) /\ handled[e] \in Seq(Message) /\ sent[e] \in Seq(Message)
      BY <1>1, <2>1 DEF FramingIInv, Typed
    <3>2. PICK h, q, n : h = handled[e] /\ q = sent[e] /\ n = Len(handled[e])
      OBVIOUS
    <3>3. /\ h \in Seq(Message) /\ q \in Seq(Message) /\ n = Len(h) /\ n \in Nat
          /\ n <= Len(q) /\ \A i \in DOMAIN h : h[i] = q[i]
      BY <3>1, <3>2 DEF InStep
    <3>4. /\ SubSeq(h, 1, n) \in Seq(Message) /\ SubSeq(q, 1, n) \in Seq(Message)
          /\ Len(SubSeq(h, 1, n)) = n /\ Len(SubSeq(q, 1, n)) = n
          /\ \A i \in 1 .. n : SubSeq(h, 1, n)[i] = h[i] /\ SubSeq(q, 1, n)[i] = q[i]
      BY <3>3
    <3>5. SubSeq(h, 1, n) = SubSeq(q, 1, n)
      BY <3>3, <3>4, SameItems
    <3> QED BY <3>1, <3>2, <3>3, <3>5 DEF IsPrefix, InStep
  <2> QED BY <2>1 DEF DeliveredAsSent
<1> QED BY <1>1, FramingInvariance, PTL
=============================================================================
