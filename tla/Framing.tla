------------------------------ MODULE Framing -------------------------------
(***************************************************************************)
(* One connection, byte by byte: how messages go into its two directions   *)
(* and come out, client/src/Client.cpp (addTransaction, send, handleRead,  *)
(* handle) and server/src/ConnectionSession.cpp.  A message is a header of *)
(* two bytes, which is its size, and as many bytes as that.                *)
(*                                                                         *)
(* A direction holds so many bytes at a time, and who sends more waits:    *)
(* the threads of the client, one at a time, since they send under         *)
(* mTransactionsMutex; its reader, which answers calls without that mutex  *)
(* and takes it for whatever it has read; and the server's reactor, which  *)
(* reads nothing while it sends.                                           *)
(***************************************************************************)
EXTENDS Naturals, FiniteSets, SequencesExt

CONSTANTS
    Thread,     \* the threads of the client that make requests
    Capacity,   \* the bytes that a direction holds
    Size,       \* the size of a message of each kind
    Requests,   \* bound on the requests of each thread
    Unasked,    \* bound on what the server has sent when it sends of its own
    None

Kind == {"request", "answer", "notification", "call", "reply"}

Reader == "reader"
Reactor == "reactor"

ASSUME FramingAssumption ==
    /\ Size \in [Kind -> Nat \ {0}]
    /\ Capacity \in Nat \ {0, 1}
    /\ Requests \in Nat /\ Unasked \in Nat
    /\ Thread \cap {Reader, Reactor, None} = {}

Sender == Thread \cup {Reader, Reactor}

\* A direction has the name of the end that it leads to.
End == {"client", "server"}
Towards(s) == IF s = Reactor THEN "client" ELSE "server"

VARIABLES
    wire,               \* the bytes on their way to each end
    sending,            \* what each sender has not handed over yet
    mTransactionsMutex, \* the thread that holds it, or None
    receiver,           \* of each end: mReadState, mBuff, mExpectedReadSize
    made                \* how many messages each sender has made

\* Observations: the messages in the order in which their first byte went out,
\* those that each end has handled, whether the reader and a thread have sent into
\* each other's message, and whether a read has brought each end half a header.
VARIABLES sent, handled, mixed, halved

framingVars == <<wire, sending, mTransactionsMutex, receiver, made, sent, handled,
                 mixed, halved>>

Message == [kind : Kind, from : Sender, n : Nat]
Byte == [of : Message, at : Nat]

\* What a message looks like on the wire; its bytes 1 and 2 are the header.
Bytes(m) == [i \in 1 .. Size[m.kind] + 2 |-> [of |-> m, at |-> i]]
Header(m) == SubSeq(Bytes(m), 1, 2)
Payload(m) == SubSeq(Bytes(m), 3, Size[m.kind] + 2)

FramingTypeOK ==
    /\ \A e \in End : wire[e] \in Seq(Byte) /\ Len(wire[e]) <= Capacity
    /\ sending \in [Sender -> Seq(Byte)]
    /\ mTransactionsMutex \in Thread \cup {None}
    /\ \A e \in End :
        /\ receiver[e].mReadState \in {"WAIT_HEADER", "WAIT_REMAINING", "lost"}
        /\ receiver[e].mBuff \in Seq(Byte)
        /\ Len(receiver[e].mBuff) <= receiver[e].mExpectedReadSize
    /\ made \in [Sender -> Nat]
    /\ sent \in [End -> Seq(Message)] /\ handled \in [End -> Seq(Message)]
    /\ mixed \in BOOLEAN /\ halved \in [End -> BOOLEAN]

WaitHeader == [mReadState |-> "WAIT_HEADER", mBuff |-> <<>>, mExpectedReadSize |-> 0]

FramingInit ==
    /\ wire = [e \in End |-> <<>>]
    /\ sending = [s \in Sender |-> <<>>]
    /\ mTransactionsMutex = None
    /\ receiver = [e \in End |-> WaitHeader]
    /\ made = [s \in Sender |-> 0]
    /\ sent = [e \in End |-> <<>>] /\ handled = [e \in End |-> <<>>]
    /\ mixed = FALSE /\ halved = [e \in End |-> FALSE]

-----------------------------------------------------------------------------
(* Faulty variants of definitions below, which nothing uses.               *)

\* addTransaction releases the mutex before it sends.
Locked_early(w) == mTransactionsMutex = None /\ UNCHANGED mTransactionsMutex

\* handleRead asks for the whole message each time.
Wanted_whole(e) ==
    IF receiver[e].mReadState = "WAIT_HEADER" THEN 2 ELSE receiver[e].mExpectedReadSize

\* handleRead leaves the header in mBuff.
Remaining_kept(header, size) ==
    [mReadState |-> "WAIT_REMAINING", mBuff |-> header, mExpectedReadSize |-> size]

-----------------------------------------------------------------------------
(* Sending.                                                                *)

Busy(s) == sending[s] # <<>>
Partly(s) == Busy(s) /\ Head(sending[s]).at > 1

\* The sender s has made a message of this kind.
Makes(s, kind) ==
    /\ sending' = [sending EXCEPT
            ![s] = Bytes([kind |-> kind, from |-> s, n |-> made[s] + 1])]
    /\ made' = [made EXCEPT ![s] = @ + 1]

Locked(w) == mTransactionsMutex = None /\ mTransactionsMutex' = w

\* addTransaction up to its send.
AddTransaction(w) ==
    /\ ~Busy(w)
    /\ made[w] < Requests
    /\ Locked(w)
    /\ Makes(w, "request")
    /\ UNCHANGED <<wire, receiver, sent, handled, mixed, halved>>

\* The others of the client that are in the middle of a message, the reader being
\* one of the two.
Interrupted(s) ==
    {r \in Sender \ {s} : Towards(r) = Towards(s) /\ Partly(r) /\ Reader \in {r, s}}

\* ::send hands over what there is room for.  addTransaction ends with the last
\* byte.
Send(s) ==
    LET e == Towards(s)
        room == Capacity - Len(wire[e])
        n == IF room < Len(sending[s]) THEN room ELSE Len(sending[s])
        rest == SubSeq(sending[s], n + 1, Len(sending[s]))
    IN  /\ Busy(s)
        /\ room > 0
        /\ wire' = [wire EXCEPT ![e] = @ \o SubSeq(sending[s], 1, n)]
        /\ sending' = [sending EXCEPT ![s] = rest]
        /\ mTransactionsMutex' =
                IF mTransactionsMutex = s /\ rest = <<>> THEN None ELSE mTransactionsMutex
        /\ sent' = IF Partly(s) THEN sent
                   ELSE [sent EXCEPT ![e] = Append(@, Head(sending[s]).of)]
        /\ mixed' = (mixed \/ Interrupted(s) # {})
        /\ UNCHANGED <<receiver, made, handled, halved>>

-----------------------------------------------------------------------------
(* Receiving.                                                              *)

\* The sender that an end's reading thread is.
At(e) == IF e = "client" THEN Reader ELSE Reactor

\* All that mExpectedReadSize asks for has come.
Whole(e) ==
    /\ receiver[e].mReadState = "WAIT_REMAINING"
    /\ Len(receiver[e].mBuff) = receiver[e].mExpectedReadSize

\* readSize
Wanted(e) ==
    IF receiver[e].mReadState = "WAIT_HEADER" THEN 2
    ELSE receiver[e].mExpectedReadSize - Len(receiver[e].mBuff)

\* mReadState and mBuffIdx after the header.
Remaining(header, size) ==
    [mReadState |-> "WAIT_REMAINING", mBuff |-> <<>>, mExpectedReadSize |-> size]

\* The messages that have these bytes for a header, or for a payload.
Begins(bytes) == {m \in {bytes[i].of : i \in DOMAIN bytes} : bytes = Header(m)}
Decoded(bytes) == {m \in {bytes[i].of : i \in DOMAIN bytes} : bytes = Payload(m)}

\* An end has lost its step.  What comes next is left out: half a header leaves the
\* other byte of the size as mBuff had it, and its other half counts as payload.
Lost(e) == receiver' = [receiver EXCEPT ![e].mReadState = "lost"]

\* handleRead: a read brings any part of what is asked for and has come.  A read of
\* the header is over with whatever it brought: half of one is taken for the size.
HandleRead(e) ==
    LET bytes == SubSeq(wire[e], 1, Len(wire[e])) IN
    /\ ~Busy(At(e)) /\ ~Whole(e)
    /\ \E n \in 1 .. Wanted(e) :
        LET got == SubSeq(bytes, 1, n) IN
        /\ n <= Len(bytes)
        /\ wire' = [wire EXCEPT ![e] = SubSeq(bytes, n + 1, Len(bytes))]
        /\ \/ /\ receiver[e].mReadState = "WAIT_HEADER"
              /\ halved' = IF n = 1 THEN [halved EXCEPT ![e] = TRUE] ELSE halved
              /\ IF Begins(got) = {} THEN Lost(e)
                 ELSE \E m \in Begins(got) :
                        receiver' = [receiver EXCEPT ![e] = Remaining(got, Size[m.kind])]
           \/ /\ receiver[e].mReadState = "WAIT_REMAINING"
              /\ receiver' = [receiver EXCEPT ![e].mBuff = @ \o got]
              /\ UNCHANGED halved
    /\ UNCHANGED <<sending, mTransactionsMutex, made, sent, handled, mixed>>

\* What the thread that reads sends after a message of this kind.
Response(kind) ==
    CASE kind = "request" -> {"answer"}
      [] kind = "call" -> {"reply"}
      [] OTHER -> {}

\* decodeMessage, handle and onMsg.  The client looks for a transaction under
\* mTransactionsMutex first.
Handle(e) ==
    /\ Whole(e)
    /\ ~Busy(At(e))
    /\ e = "client" => mTransactionsMutex = None
    /\ IF Decoded(receiver[e].mBuff) = {}
       THEN Lost(e) /\ UNCHANGED <<handled, sending, made>>
       ELSE \E m \in Decoded(receiver[e].mBuff) :
            /\ handled' = [handled EXCEPT ![e] = Append(@, m)]
            /\ receiver' = [receiver EXCEPT ![e] = WaitHeader]
            /\ IF Response(m.kind) = {} THEN UNCHANGED <<sending, made>>
               ELSE \E kind \in Response(m.kind) : Makes(At(e), kind)
    /\ UNCHANGED <<wire, mTransactionsMutex, sent, mixed, halved>>

\* The reactor handles a message of another client, which it tells this one of.
HandleOther ==
    /\ ~Busy(Reactor) /\ ~Whole("server")
    /\ made[Reactor] < Unasked
    /\ \E kind \in {"notification", "call"} : Makes(Reactor, kind)
    /\ UNCHANGED <<wire, mTransactionsMutex, receiver, sent, handled, mixed, halved>>

FramingNext ==
    \/ \E w \in Thread : AddTransaction(w)
    \/ \E s \in Sender : Send(s)
    \/ \E e \in End : HandleRead(e) \/ Handle(e)
    \/ HandleOther

\* A send goes on when there is room, and both ends read.
FramingFairness ==
    /\ \A s \in Sender : WF_framingVars(Send(s))
    /\ \A e \in End : WF_framingVars(HandleRead(e)) /\ WF_framingVars(Handle(e))

FramingSpec == FramingInit /\ [][FramingNext]_framingVars /\ FramingFairness

-----------------------------------------------------------------------------
\* Nothing that an end cannot cope with has happened on its way: no read brought it
\* half a header, nor have the client's reader and a thread, who both send to the
\* server, sent into each other's message.
Clean(e) == ~halved[e] /\ (e = "server" => ~mixed)

\* The threads of a client, the reader and the server's reactor send as they
\* like, the socket fills up anywhere in a message and empties in pieces: each end
\* handles exactly the messages that were sent to it, in the order in which they
\* were sent, until one of two things costs it its step, which no read of the code
\* finds again: handleRead has taken one byte for a header (Client.cpp, 493,
\* ConnectionSession.cpp, 53), or the reader answered a call while a thread of its
\* client was stuck in the middle of a request, or the other way round.  Pieces of
\* a payload never do, nor does what happens in the other direction.
DeliveredAsSent ==
    \A e \in End : Clean(e) =>
        receiver[e].mReadState # "lost" /\ IsPrefix(handled[e], sent[e])

\* All that was sent has been handled.
Through ==
    /\ \A s \in Sender : ~Busy(s)
    /\ \A e \in End : handled[e] = sent[e]

Full(e) == Len(wire[e]) = Capacity

\* The reactor waits for the client to read; the client's reader waits for the
\* server to read, or for a thread that does.
Gridlock ==
    /\ Full("client") /\ Busy(Reactor)
    /\ Full("server")
    /\ Busy(Reader) \/ (Whole("client") /\ mTransactionsMutex # None)

\* As long as neither end has lost its step by half a header or a mixed message,
\* that is the only way in which the exchange ever stops: nobody waits for a byte or
\* for the mutex while one of the two directions has room.
StopsInGridlockOnly == []<>(Through \/ Gridlock \/ \E e \in End : ~Clean(e))
=============================================================================
