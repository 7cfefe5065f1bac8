---------------------- MODULE BrokerConnection_proofs ----------------------
(***************************************************************************)
(* Proofs about BrokerConnection, for any number of requests and blocks.   *)
(***************************************************************************)
EXTENDS BrokerConnection, TLAPS

(***************************************************************************)
(* The way of a stream.  The messages of a stream are ranked: block n has  *)
(* the rank n, what ends the stream comes last.  On their way from the     *)
(* future of the broker (rest), over the async frames, the socket and the  *)
(* mailbox of the actor to the application, each stage holds a segment of  *)
(* them, and the segments follow each other without a gap.                 *)
(***************************************************************************)

\* m is a message of request r.
Of(m, r) == m # Stop /\ m # Close /\ m.id = r

Rank(m, last) == IF m.what = "block" THEN m.n ELSE last

NoneOf(s, r) == \A k \in 1..Len(s) : ~ Of(s[k], r)

\* The messages of r in s are those of ranks i + 1 to j, in this order.
Segment(s, r, last, i, j) ==
  /\ i <= j
  /\ \A k \in 1..Len(s) : Of(s[k], r) => Rank(s[k], last) > i /\ Rank(s[k], last) <= j
  /\ \A k, l \in 1..Len(s) :
       k < l /\ Of(s[k], r) /\ Of(s[l], r) => Rank(s[k], last) < Rank(s[l], last)
  /\ \A n \in Nat : n > i /\ n <= j =>
       \E k \in 1..Len(s) : Of(s[k], r) /\ Rank(s[k], last) = n

\* Blocks of the stream that reached the application's end of it.
Passed(r) == Len(received[r]) + Len(chan[r])

\* The actor passes blocks on, and somebody may read them.
Live(r) ==
  /\ kind[r] = "stream" /\ actor[r] = "running"
  /\ ~ chan_closed[r] /\ stream[r] # "dropped"

\* A reader loop that has ended delivers nothing more, nor does the broker
\* after its Close.
Pipeline(r) ==
  \E a, b, c, d \in Nat :
    /\ Segment(mailbox[r], r, produced[r] + 1, Passed(r), a)
    /\ reader = "loop" => Segment(down, r, produced[r] + 1, a, b)
    /\ reader = "loop" /\ server # "ended" =>
         /\ Segment(frames, r, produced[r] + 1, b, c)
         /\ Segment(rest, r, produced[r] + 1, c, d)

\* The broker has not answered the request yet.
InUp(r) == \E i \in 1..Len(up) : up[i] = Request(r)
Unanswered(r) == call[r] \in {"new", "send"} \/ InUp(r)

Untouched(r) ==
  /\ NoneOf(mailbox[r], r) /\ NoneOf(down, r) /\ NoneOf(frames, r) /\ NoneOf(rest, r)
  /\ produced[r] = 0 /\ received[r] = << >> /\ chan[r] = << >> /\ ~ chan_closed[r]

UpOnce ==
  /\ \A i, j \in 1..Len(up) : up[i] = up[j] /\ up[i] # Close => i = j
  /\ \A r \in Requests : call[r] \in {"new", "send"} => ~ InUp(r)

NewOK(r) ==
  call[r] = "new" =>
    actor[r] = "none" /\ mailbox[r] = << >> /\ r \notin registered

MailboxOwn(r) == \A k \in 1..Len(mailbox[r]) : mailbox[r][k] # Stop => mailbox[r][k].id = r

\* The blocks that arrived are the first ones, in order.
InOrder(r) ==
  /\ \A i \in 1..Len(received[r]) : received[r][i] = i
  /\ \A i \in 1..Len(chan[r]) : chan[r][i] = Len(received[r]) + i

StopQueued(s) == \E k \in 1..Len(s) : s[k] = Stop

\* An actor is stopped because its stream is over or the connection is.
StoppedOK(r) ==
  /\ kind[r] = "stream" /\ (actor[r] = "gone" \/ StopQueued(mailbox[r]))
       => chan_closed[r] \/ ~ sink_open
  /\ kind[r] = "stream" /\ chan_closed[r] /\ stream[r] # "dropped" => Passed(r) = produced[r]
  /\ stream[r] # "none" => kind[r] = "stream" /\ call[r] = "ok"
  /\ stream[r] = "ended" => chan[r] = << >> /\ (chan_closed[r] \/ actor[r] = "gone")

ServerOK == server = "stream" <=> rest # << >>

RequestInv(r) ==
  /\ NewOK(r) /\ MailboxOwn(r) /\ InOrder(r) /\ StoppedOK(r)
  /\ Unanswered(r) => Untouched(r)
  /\ Live(r) => Pipeline(r)

StreamInv == UpOnce /\ ServerOK /\ \A r \in Requests : RequestInv(r)

Inv == TypeOK /\ StreamInv

-----------------------------------------------------------------------------
(***************************************************************************)
(* Types.                                                                  *)
(***************************************************************************)

LEMMA HeadTail ==
  ASSUME NEW S, NEW s \in Seq(S), s # << >>
  PROVE  /\ Head(s) \in S /\ Tail(s) \in Seq(S) /\ Len(s) \in Nat \ {0}
         /\ Head(s) = s[1] /\ Len(Tail(s)) = Len(s) - 1
         /\ \A k \in 1..Len(Tail(s)) : Tail(s)[k] = s[k + 1]
OBVIOUS

LEMMA Appended ==
  ASSUME NEW S, NEW s \in Seq(S), NEW m \in S
  PROVE  /\ Append(s, m) \in Seq(S) /\ Len(Append(s, m)) = Len(s) + 1
         /\ Append(s, m)[Len(s) + 1] = m
         /\ \A k \in 1..Len(s) : Append(s, m)[k] = s[k]
OBVIOUS

LEMMA ResponseFields ==
  ASSUME NEW m \in Response
  PROVE  /\ m.id \in Requests /\ m.what \in {"done", "fail", "eos", "block"}
         /\ m.what = "block" => m.n \in 1..MaxBlocks
         /\ m # Stop /\ m # Close
BY DEF Response, Stop, Close

LEMMA ResponseTypes ==
  ASSUME NEW r \in Requests
  PROVE  /\ \A what \in {"done", "fail"} : [what |-> what, id |-> r] \in Response
         /\ Eos(r) \in Response
         /\ \A i \in 1..MaxBlocks : Block(r, i) \in Response
BY DEF Response, Eos, Block

LEMMA BlocksType ==
  ASSUME NEW r \in Requests, NEW i \in 1..MaxBlocks, NEW j \in 1..MaxBlocks
  PROVE  Blocks(r, i, j) \in Seq(Response)
<1>1. j - i + 1 <= 0 \/ j - i + 1 \in Nat
  BY ConstantsAssumption
<1>2. ASSUME NEW k \in 1..(j - i + 1) PROVE Block(r, i + k - 1) \in Response
  <2>1. i + k - 1 \in 1..MaxBlocks
    BY ConstantsAssumption
  <2> QED BY <2>1, ResponseTypes
<1>3. CASE j - i + 1 \in Nat
  BY <1>2, <1>3 DEF Blocks
<1>4. CASE j - i + 1 <= 0
  <2>1. Blocks(r, i, j) = << >>
    BY <1>4, ConstantsAssumption DEF Blocks
  <2> QED BY <2>1
<1> QED BY <1>1, <1>3, <1>4

Frame == {Request(r) : r \in Requests} \cup {Close}

LEMMA FrameCases ==
  ASSUME NEW m \in Frame, m # Close
  PROVE  m.id \in Requests /\ m = Request(m.id)
BY DEF Frame, Request

LEMMA CallTypes ==
  ASSUME TypeOK, NEW r \in Requests,
         (\E k \in {"simple", "stream"} : before(r, k)) \/ Call(r) \/ wait_for_stop(r)
  PROVE  TypeOK'
<1>1. ASSUME NEW k \in {"simple", "stream"}, before(r, k) PROVE TypeOK'
  BY <1>1 DEF TypeOK, before, servervars
<1>2. ASSUME send(r) PROVE TypeOK'
  <2>1. Request(r) \in Frame
    BY DEF Frame
  <2>2. up' \in Seq(Frame)
    <3>1. up \in Seq(Frame)
      BY DEF TypeOK, Frame
    <3> QED BY <1>2, <2>1, <3>1, Appended DEF send
  <2>3. /\ call' \in [Requests -> {"new", "send", "wait"} \cup Returned]
        /\ actor' \in [Requests -> {"none", "running", "gone"}]
    BY <1>2 DEF TypeOK, send, Returned
  <2>4. mailbox' \in [Requests -> Seq(Response \cup {Stop})]
    <3>1. << >> \in Seq(Response \cup {Stop})
      OBVIOUS
    <3> QED BY <1>2, <3>1 DEF TypeOK, send
  <2>5. writer' \subseteq Requests
    BY <1>2 DEF TypeOK, send
  <2> QED BY <1>2, <2>2, <2>3, <2>4, <2>5 DEF TypeOK, send, servervars, Frame
<1>3. ASSUME after(r) PROVE TypeOK'
  BY <1>3 DEF TypeOK, after, servervars, actorvars, Returned
<1>4. ASSUME first_reply(r) PROVE TypeOK'
  BY <1>4 DEF TypeOK, first_reply, servervars, actorvars, Returned
<1>5. ASSUME wait_for_stop(r) PROVE TypeOK'
  BY <1>5 DEF TypeOK, wait_for_stop, servervars, actorvars, appvars
<1> QED BY <1>1, <1>2, <1>3, <1>4, <1>5 DEF Call

LEMMA CloseSinkTypes ==
  ASSUME TypeOK, CloseSink
  PROVE  sink_open' \in BOOLEAN /\ up' \in Seq({Request(r) : r \in Requests} \cup {Close})
<1>1. up \in Seq(Frame) /\ Close \in Frame
  BY DEF TypeOK, Frame
<1>2. up' \in Seq(Frame)
  BY <1>1, Appended DEF CloseSink
<1> QED BY <1>2 DEF CloseSink, Frame

LEMMA AppTypes ==
  ASSUME TypeOK, (\E r \in Requests : next_block(r) \/ drop_stream(r)) \/ close
  PROVE  TypeOK'
<1>1. ASSUME NEW r \in Requests, next_block(r) PROVE TypeOK'
  <2>1. PICK c : c = chan[r]
    OBVIOUS
  <2>2. c \in Seq(1..MaxBlocks)
    BY <2>1 DEF TypeOK
  <2>3. c # << >> => Head(c) \in 1..MaxBlocks /\ Tail(c) \in Seq(1..MaxBlocks)
    BY <2>2, HeadTail
  <2>4. c # << >> => Append(received[r], Head(c)) \in Seq(1..MaxBlocks)
    BY <2>3, Appended DEF TypeOK
  <2>5. received' \in [Requests -> Seq(1..MaxBlocks)]
    BY <1>1, <2>1, <2>4 DEF TypeOK, next_block
  <2>6. chan' \in [Requests -> Seq(1..MaxBlocks)]
    BY <1>1, <2>1, <2>3 DEF TypeOK, next_block
  <2>7. stream' \in [Requests -> {"none", "open", "dropped", "ended"}]
    BY <1>1 DEF TypeOK, next_block
  <2> QED BY <1>1, <2>5, <2>6, <2>7 DEF TypeOK, next_block, clientvars, servervars
<1>2. ASSUME NEW r \in Requests, drop_stream(r) PROVE TypeOK'
  BY <1>2 DEF TypeOK, drop_stream, clientvars, servervars
<1>3. ASSUME close PROVE TypeOK'
  BY <1>3, CloseSinkTypes DEF TypeOK, close, actorvars, servervars
<1> QED BY <1>1, <1>2, <1>3

LEMMA HandleTypes ==
  ASSUME TypeOK, NEW r \in Requests, handle(r)
  PROVE  TypeOK'
<1>1. PICK s, m : s = mailbox[r] /\ m = Head(s)
  OBVIOUS
<1>2. s \in Seq(Response \cup {Stop}) /\ s # << >>
  BY <1>1 DEF TypeOK, handle
<1>3. /\ m \in Response \cup {Stop} /\ Tail(s) \in Seq(Response \cup {Stop})
      /\ Append(Tail(s), Stop) \in Seq(Response \cup {Stop})
  BY <1>1, <1>2
<1>4. m # Stop => m \in Response
  BY <1>3
<1>5. actor' \in [Requests -> {"none", "running", "gone"}]
  BY DEF TypeOK, handle
<1>6. mailbox' \in [Requests -> Seq(Response \cup {Stop})]
  <2>1. CASE mailbox' = [mailbox EXCEPT ![r] = << >>]
    <3>1. << >> \in Seq(Response \cup {Stop})
      OBVIOUS
    <3> QED BY <2>1, <3>1 DEF TypeOK
  <2>2. CASE mailbox' = [mailbox EXCEPT ![r] = Tail(s)]
    BY <1>3, <2>2 DEF TypeOK
  <2>3. CASE mailbox' = [mailbox EXCEPT ![r] = Append(Tail(s), Stop)]
    BY <1>3, <2>3 DEF TypeOK
  <2> QED BY <1>1, <2>1, <2>2, <2>3 DEF handle, handle_reply, handle_stream
<1>7. reply' \in [Requests -> {"empty", "ok", "fail"}]
  BY DEF TypeOK, handle, handle_reply, handle_stream
<1>8. chan' \in [Requests -> Seq(1..MaxBlocks)]
  <2>1. CASE chan' = chan
    BY <2>1 DEF TypeOK
  <2>2. CASE m # Stop /\ m.what = "block" /\ chan' = [chan EXCEPT ![r] = Append(@, m.n)]
    BY <1>4, <2>2, ResponseFields DEF TypeOK
  <2> QED BY <1>1, <2>1, <2>2 DEF handle, handle_reply, handle_stream
<1>9. chan_closed' \in [Requests -> BOOLEAN]
  <2>1. CASE UNCHANGED chan_closed
    BY <2>1 DEF TypeOK
  <2>2. CASE \E p : chan_closed' = [chan_closed EXCEPT ![r] = chan_closed[r] \/ p]
    <3>1. PICK p : chan_closed' = [chan_closed EXCEPT ![r] = chan_closed[r] \/ p]
      BY <2>2
    <3>2. PICK x : x = (chan_closed[r] \/ p)
      OBVIOUS
    <3>3. x \in BOOLEAN
      BY <3>2, Zenon
    <3>4. chan_closed' = [chan_closed EXCEPT ![r] = x]
      BY <3>1, <3>2, Zenon
    <3> QED BY <3>3, <3>4 DEF TypeOK
  <2> QED BY <2>1, <2>2 DEF handle, handle_reply, handle_stream
<1> QED BY <1>5, <1>6, <1>7, <1>8, <1>9 DEF TypeOK, handle, appvars, clientvars, servervars

LEMMA ReaderTypes ==
  ASSUME TypeOK, Reader
  PROVE  TypeOK'
<1>1. ASSUME read_frame PROVE TypeOK'
  <2>1. PICK m : m = Head(down)
    OBVIOUS
  <2>2. down \in Seq(Response \cup {Close}) /\ down # << >> /\ down' = Tail(down)
    BY <1>1 DEF TypeOK, read_frame
  <2>3. m \in Response \cup {Close} /\ down' \in Seq(Response \cup {Close})
    BY <2>1, <2>2, HeadTail
  <2>4. ASSUME NEW r \in Requests, NEW x \in Response \cup {Stop}
        PROVE  Append(mailbox[r], x) \in Seq(Response \cup {Stop})
    <3>1. mailbox[r] \in Seq(Response \cup {Stop})
      BY DEF TypeOK
    <3> QED BY <3>1, Appended
  <2>5. mailbox' \in [Requests -> Seq(Response \cup {Stop})]
    <3>1. CASE mailbox' = [r \in Requests |-> IF r \in Released
                                               THEN Append(mailbox[r], Stop)
                                               ELSE mailbox[r]]
      BY <2>4, <3>1 DEF TypeOK
    <3>2. CASE m # Close /\ mailbox' = [mailbox EXCEPT ![m.id] = Append(@, m)]
      <4>1. m \in Response /\ m.id \in Requests
        BY <2>3, <3>2, ResponseFields
      <4>2. Append(mailbox[m.id], m) \in Seq(Response \cup {Stop})
        BY <2>4, <4>1
      <4> QED BY <3>2, <4>2 DEF TypeOK
    <3>3. CASE UNCHANGED mailbox
      BY <3>3 DEF TypeOK
    <3> QED BY <1>1, <2>1, <3>1, <3>2, <3>3 DEF read_frame
  <2>6. reader' \in {"loop", "closing", "ended"} /\ sink_open' \in BOOLEAN
    BY <1>1 DEF TypeOK, read_frame
  <2> QED BY <1>1, <2>3, <2>5, <2>6 DEF TypeOK, read_frame, appvars, servervars
<1>2. ASSUME read_shutdown PROVE TypeOK'
  BY <1>2 DEF TypeOK, read_shutdown, appvars, actorvars, servervars
<1>3. ASSUME close_writer PROVE TypeOK'
  BY <1>3, CloseSinkTypes DEF TypeOK, close_writer, appvars, actorvars, servervars
<1> QED BY <1>1, <1>2, <1>3 DEF Reader

\* The reply to a stream request.
LEMMA StreamResponseTypes ==
  ASSUME TypeOK, NEW r \in Requests, stream_response(r)
  PROVE  /\ down' \in Seq(Response \cup {Close}) /\ rest' \in Seq(Response)
         /\ server' \in {"loop", "stream", "ended"}
         /\ produced' \in [Requests -> 0..MaxBlocks]
<1>1. down \in Seq(Response \cup {Close}) /\ MaxBlocks \in Nat
  BY ConstantsAssumption DEF TypeOK
<1>2. CASE /\ down' = Append(down, [what |-> "fail", id |-> r])
           /\ UNCHANGED <<rest, server, produced>>
  BY <1>1, <1>2, ResponseTypes, Appended DEF TypeOK
<1>3. CASE down' = Append(down, Eos(r)) /\ UNCHANGED <<rest, server, produced>>
  BY <1>1, <1>3, ResponseTypes, Appended DEF TypeOK
<1>4. ASSUME NEW len \in 1..MaxBlocks,
             down' = down \o Blocks(r, 1, 1),
             rest' = Append(Blocks(r, 2, len), Eos(r)),
             produced' = [produced EXCEPT ![r] = len],
             server' = "stream"
      PROVE  /\ down' \in Seq(Response \cup {Close}) /\ rest' \in Seq(Response)
             /\ server' \in {"loop", "stream", "ended"}
             /\ produced' \in [Requests -> 0..MaxBlocks]
  <2>1. 1 \in 1..MaxBlocks
    BY <1>1, <1>4
  <2>2. Blocks(r, 1, 1) \in Seq(Response \cup {Close})
    <3>1. Blocks(r, 1, 1) \in Seq(Response)
      BY <2>1, BlocksType
    <3> QED BY <3>1
  <2>3. down' \in Seq(Response \cup {Close})
    BY <1>1, <1>4, <2>2
  <2>4. Blocks(r, 2, len) \in Seq(Response)
    <3>1. CASE len = 1
      <4>1. Blocks(r, 2, len) = << >>
        BY <3>1 DEF Blocks
      <4>2. << >> \in Seq(Response)
        OBVIOUS
      <4> QED BY <4>1, <4>2
    <3>2. CASE len # 1
      <4>1. 2 \in 1..MaxBlocks
        BY <1>1, <1>4, <3>2
      <4> QED BY <1>4, <4>1, BlocksType
    <3> QED BY <3>1, <3>2
  <2>5. rest' \in Seq(Response)
    BY <1>4, <2>4, ResponseTypes, Appended
  <2>6. produced' \in [Requests -> 0..MaxBlocks]
    <3>1. len \in 0..MaxBlocks
      BY <1>1, <1>4
    <3> QED BY <1>4, <3>1 DEF TypeOK
  <2> QED BY <1>4, <2>3, <2>5, <2>6
<1> QED BY <1>2, <1>3, <1>4 DEF stream_response

LEMMA ServerTypes ==
  ASSUME TypeOK, ServerOK, ConnectionLoop \/ send_frame \/ transport_error
  PROVE  TypeOK'
<1>1. down \in Seq(Response \cup {Close}) /\ rest \in Seq(Response) /\ frames \in Seq(Response)
  BY DEF TypeOK
<1>2. ASSUME handle_incoming PROVE TypeOK'
  <2>1. PICK m : m = Head(up)
    OBVIOUS
  <2>2. up \in Seq(Frame) /\ up # << >> /\ up' = Tail(up)
    BY <1>2 DEF TypeOK, handle_incoming, Frame
  <2>3. m \in Frame /\ up' \in Seq(Frame)
    BY <2>1, <2>2, HeadTail
  <2>4. CASE m = Close
    <3>1. down' = Append(down, Close) /\ server' = "ended" /\ UNCHANGED <<rest, produced>>
      BY <1>2, <2>1, <2>4, FrameCases DEF handle_incoming
    <3>2. down' \in Seq(Response \cup {Close})
      BY <1>1, <3>1, Appended
    <3> QED BY <1>2, <2>3, <3>1, <3>2
        DEF TypeOK, handle_incoming, appvars, actorvars, clientvars, Frame
  <2>5. CASE m # Close
    <3>1. m.id \in Requests
      BY <2>3, <2>5, FrameCases
    <3>2. CASE /\ \E what \in {"done", "fail"} : down' = Append(down, [what |-> what, id |-> m.id])
               /\ UNCHANGED <<server, rest, produced>>
      <4>1. down' \in Seq(Response \cup {Close})
        <5>1. PICK x \in Response : down' = Append(down, x)
          BY <3>1, <3>2, ResponseTypes
        <5> QED BY <1>1, <5>1, Appended
      <4> QED BY <1>2, <2>3, <3>2, <4>1
          DEF TypeOK, handle_incoming, appvars, actorvars, clientvars, Frame
    <3>3. CASE stream_response(m.id)
      BY <1>2, <2>3, <3>1, <3>3, StreamResponseTypes
      DEF TypeOK, handle_incoming, appvars, actorvars, clientvars, Frame
    <3> QED BY <1>2, <2>1, <2>5, <3>2, <3>3 DEF handle_incoming
  <2> QED BY <2>4, <2>5
<1>3. ASSUME send_rest, rest # << >> PROVE TypeOK'
  <2>1. frames' \in Seq(Response) /\ rest' \in Seq(Response)
    BY <1>1, <1>3, HeadTail, Appended DEF send_rest
  <2> QED BY <1>3, <2>1 DEF TypeOK, send_rest, appvars, actorvars, clientvars
<1>4. ASSUME send_frame PROVE TypeOK'
  <2>1. Head(frames) \in Response \cup {Close} /\ frames' \in Seq(Response)
    BY <1>1, <1>4, HeadTail DEF send_frame
  <2>2. down' \in Seq(Response \cup {Close})
    BY <1>1, <1>4, <2>1, Appended DEF send_frame
  <2> QED BY <1>4, <2>1, <2>2 DEF TypeOK, send_frame, appvars, actorvars, clientvars
<1>5. ASSUME transport_error PROVE TypeOK'
  <2>1. down' \in Seq(Response \cup {Close})
    BY <1>1, <1>5, Appended DEF transport_error
  <2> QED BY <1>5, <2>1 DEF TypeOK, transport_error, appvars, actorvars, clientvars
<1> QED BY <1>2, <1>3, <1>4, <1>5 DEF ConnectionLoop, send_rest, ServerOK

-----------------------------------------------------------------------------
(***************************************************************************)
(* Segments.                                                               *)
(***************************************************************************)

Message == Response \cup {Stop, Close}

LEMMA RankNat ==
  ASSUME NEW m \in Message, NEW r, Of(m, r), NEW last \in Nat
  PROVE  Rank(m, last) \in Nat
<1>1. m \in Response
  BY DEF Message, Of
<1> QED BY <1>1, ResponseFields, ConstantsAssumption DEF Rank

LEMMA SegNone ==
  ASSUME NEW s \in Seq(Message), NEW r, NEW last \in Nat, NEW i \in Nat, NoneOf(s, r)
  PROVE  Segment(s, r, last, i, i)
BY DEF Segment, NoneOf

LEMMA SegAppend ==
  ASSUME NEW s \in Seq(Message), NEW m \in Message, NEW r, NEW last \in Nat,
         NEW i \in Nat, NEW j \in Nat, Segment(s, r, last, i, j),
         Of(m, r), Rank(m, last) = j + 1
  PROVE  Segment(Append(s, m), r, last, i, j + 1)
<1>1. PICK t, n : t = Append(s, m) /\ n = Len(s)
  OBVIOUS
<1>2. /\ n \in Nat /\ Len(t) = n + 1 /\ t[n + 1] = m
      /\ \A k \in 1..n : t[k] = s[k]
  BY <1>1, Appended
<1>3. \A k \in 1..n : Of(s[k], r) =>
         /\ Rank(s[k], last) \in Nat /\ Rank(s[k], last) > i /\ Rank(s[k], last) <= j
  <2> SUFFICES ASSUME NEW k \in 1..n, Of(s[k], r)
               PROVE  /\ Rank(s[k], last) \in Nat
                      /\ Rank(s[k], last) > i /\ Rank(s[k], last) <= j
    OBVIOUS
  <2>1. s[k] \in Message
    BY <1>1
  <2> QED BY <1>1, <2>1, RankNat DEF Segment
<1>4. i <= j + 1
  BY DEF Segment
<1>5. ASSUME NEW k \in 1..(n + 1), Of(t[k], r)
      PROVE  Rank(t[k], last) > i /\ Rank(t[k], last) <= j + 1
  <2>1. CASE k = n + 1
    BY <1>2, <2>1 DEF Segment
  <2>2. CASE k # n + 1
    <3>1. k \in 1..n
      BY <1>2, <2>2
    <3> QED BY <1>2, <1>3, <1>5, <3>1
  <2> QED BY <2>1, <2>2
<1>6. ASSUME NEW k \in 1..(n + 1), NEW l \in 1..(n + 1), k < l, Of(t[k], r), Of(t[l], r)
      PROVE  Rank(t[k], last) < Rank(t[l], last)
  <2>1. k \in 1..n
    BY <1>2, <1>6
  <2>2. CASE l = n + 1
    BY <1>2, <1>3, <1>6, <2>1, <2>2
  <2>3. CASE l # n + 1
    <3>1. l \in 1..n
      BY <1>2, <2>3
    <3> QED BY <1>1, <1>2, <1>6, <2>1, <3>1 DEF Segment
  <2> QED BY <2>2, <2>3
<1>7. ASSUME NEW x \in Nat, x > i, x <= j + 1
      PROVE  \E k \in 1..(n + 1) : Of(t[k], r) /\ Rank(t[k], last) = x
  <2>1. CASE x = j + 1
    BY <1>2, <2>1
  <2>2. CASE x # j + 1
    <3>1. x <= j
      BY <1>7, <2>2
    <3>2. PICK k \in 1..n : Of(s[k], r) /\ Rank(s[k], last) = x
      BY <1>1, <1>7, <3>1 DEF Segment
    <3>3. k \in 1..(n + 1) /\ t[k] = s[k]
      BY <1>2
    <3> QED BY <3>2, <3>3
  <2> QED BY <2>1, <2>2
<1>8. Segment(t, r, last, i, j + 1)
  BY <1>2, <1>4, <1>5, <1>6, <1>7 DEF Segment
<1> QED BY <1>1, <1>8

LEMMA SegAppendOther ==
  ASSUME NEW s \in Seq(Message), NEW m \in Message, NEW r, NEW last \in Nat,
         NEW i \in Nat, NEW j \in Nat, Segment(s, r, last, i, j), ~ Of(m, r)
  PROVE  Segment(Append(s, m), r, last, i, j)
<1>1. PICK t, n : t = Append(s, m) /\ n = Len(s)
  OBVIOUS
<1>2. /\ n \in Nat /\ Len(t) = n + 1 /\ t[n + 1] = m
      /\ \A k \in 1..n : t[k] = s[k]
  BY <1>1, Appended
<1>3. ASSUME NEW k \in 1..(n + 1), Of(t[k], r) PROVE k \in 1..n /\ t[k] = s[k]
  BY <1>2, <1>3
<1>4. \A k \in 1..n : k \in 1..(n + 1) /\ t[k] = s[k]
  BY <1>2
<1>5. \A k \in 1..(n + 1) : Of(t[k], r) => Rank(t[k], last) > i /\ Rank(t[k], last) <= j
  BY <1>1, <1>3 DEF Segment
<1>6. \A k, l \in 1..(n + 1) :
        k < l /\ Of(t[k], r) /\ Of(t[l], r) => Rank(t[k], last) < Rank(t[l], last)
  BY <1>1, <1>3 DEF Segment
<1>7. ASSUME NEW x \in Nat, x > i, x <= j
      PROVE  \E k \in 1..(n + 1) : Of(t[k], r) /\ Rank(t[k], last) = x
  <2>1. PICK k \in 1..n : Of(s[k], r) /\ Rank(s[k], last) = x
    BY <1>1, <1>7 DEF Segment
  <2> QED BY <1>4, <2>1
<1>8. Segment(t, r, last, i, j)
  BY <1>2, <1>5, <1>6, <1>7 DEF Segment
<1> QED BY <1>1, <1>8

\* The first message of a segment is the next one of the stream.
LEMMA SegHead ==
  ASSUME NEW s \in Seq(Message), s # << >>, NEW r, NEW last \in Nat,
         NEW i \in Nat, NEW j \in Nat, Segment(s, r, last, i, j), Of(Head(s), r)
  PROVE  /\ i < j /\ Rank(Head(s), last) = i + 1
         /\ Segment(Tail(s), r, last, i + 1, j)
<1>1. PICK t, n, m : t = Tail(s) /\ n = Len(s) /\ m = Head(s)
  OBVIOUS
<1>2. /\ n \in Nat \ {0} /\ Len(t) = n - 1 /\ m = s[1] /\ m \in Message
      /\ \A k \in 1..(n - 1) : t[k] = s[k + 1]
  BY <1>1, HeadTail
<1>3. \A k \in 1..n : Of(s[k], r) =>
         /\ Rank(s[k], last) \in Nat /\ Rank(s[k], last) > i /\ Rank(s[k], last) <= j
  <2> SUFFICES ASSUME NEW k \in 1..n, Of(s[k], r)
               PROVE  /\ Rank(s[k], last) \in Nat
                      /\ Rank(s[k], last) > i /\ Rank(s[k], last) <= j
    OBVIOUS
  <2>1. s[k] \in Message
    BY <1>1
  <2> QED BY <1>1, <2>1, RankNat DEF Segment
<1>4. 1 \in 1..n /\ Of(s[1], r)
  BY <1>1, <1>2
<1>5. i < j /\ i + 1 \in Nat /\ i + 1 > i /\ i + 1 <= j
  BY <1>3, <1>4
<1>6. PICK k0 \in 1..n : Of(s[k0], r) /\ Rank(s[k0], last) = i + 1
  BY <1>1, <1>5 DEF Segment
<1>7. k0 = 1
  <2>1. CASE k0 > 1
    <3>1. Rank(s[1], last) < Rank(s[k0], last)
      BY <1>1, <1>4, <1>6, <2>1 DEF Segment
    <3>2. Rank(s[1], last) \in Nat /\ Rank(s[1], last) > i
      BY <1>3, <1>4
    <3> QED BY <1>6, <3>1, <3>2
  <2> QED BY <2>1
<1>8. Rank(m, last) = i + 1
  BY <1>2, <1>6, <1>7
<1>9. \A k \in 1..(n - 1) : k + 1 \in 1..n /\ k + 1 > 1 /\ t[k] = s[k + 1]
  BY <1>2
<1>10. ASSUME NEW k \in 1..(n - 1), Of(t[k], r)
       PROVE  Rank(t[k], last) > i + 1 /\ Rank(t[k], last) <= j
  <2>1. k + 1 \in 1..n /\ k + 1 > 1 /\ t[k] = s[k + 1]
    BY <1>9
  <2>2. Rank(s[1], last) < Rank(s[k + 1], last)
    BY <1>1, <1>4, <1>10, <2>1 DEF Segment
  <2>3. Rank(s[k + 1], last) \in Nat /\ Rank(s[k + 1], last) <= j
    BY <1>3, <1>10, <2>1
  <2> QED BY <1>2, <1>8, <2>1, <2>2, <2>3
<1>11. ASSUME NEW k \in 1..(n - 1), NEW l \in 1..(n - 1), k < l, Of(t[k], r), Of(t[l], r)
       PROVE  Rank(t[k], last) < Rank(t[l], last)
  <2>1. k + 1 \in 1..n /\ l + 1 \in 1..n /\ t[k] = s[k + 1] /\ t[l] = s[l + 1] /\ k + 1 < l + 1
    BY <1>9, <1>11
  <2> QED BY <1>1, <1>11, <2>1 DEF Segment
<1>12. ASSUME NEW x \in Nat, x > i + 1, x <= j
       PROVE  \E k \in 1..(n - 1) : Of(t[k], r) /\ Rank(t[k], last) = x
  <2>1. PICK k \in 1..n : Of(s[k], r) /\ Rank(s[k], last) = x
    <3>1. x > i
      BY <1>12
    <3> QED BY <1>1, <1>12, <3>1 DEF Segment
  <2>2. k # 1
    BY <1>2, <1>8, <1>12, <2>1
  <2>3. k - 1 \in 1..(n - 1) /\ t[k - 1] = s[k]
    BY <1>2, <2>2
  <2> QED BY <2>1, <2>3
<1>13. Segment(t, r, last, i + 1, j)
  BY <1>2, <1>5, <1>10, <1>11, <1>12 DEF Segment
<1> QED BY <1>1, <1>5, <1>8, <1>13

LEMMA SegHeadOther ==
  ASSUME NEW s \in Seq(Message), s # << >>, NEW r, NEW last \in Nat,
         NEW i \in Nat, NEW j \in Nat, Segment(s, r, last, i, j), ~ Of(Head(s), r)
  PROVE  Segment(Tail(s), r, last, i, j)
<1>1. PICK t, n : t = Tail(s) /\ n = Len(s)
  OBVIOUS
<1>2. /\ n \in Nat \ {0} /\ Len(t) = n - 1 /\ ~ Of(s[1], r)
      /\ \A k \in 1..(n - 1) : t[k] = s[k + 1]
  BY <1>1, HeadTail
<1>3. \A k \in 1..(n - 1) : k + 1 \in 1..n /\ t[k] = s[k + 1]
  BY <1>2
<1>4. \A k \in 1..(n - 1) : Of(t[k], r) => Rank(t[k], last) > i /\ Rank(t[k], last) <= j
  BY <1>1, <1>3 DEF Segment
<1>5. ASSUME NEW k \in 1..(n - 1), NEW l \in 1..(n - 1), k < l, Of(t[k], r), Of(t[l], r)
      PROVE  Rank(t[k], last) < Rank(t[l], last)
  <2>1. k + 1 \in 1..n /\ l + 1 \in 1..n /\ t[k] = s[k + 1] /\ t[l] = s[l + 1] /\ k + 1 < l + 1
    BY <1>3, <1>5
  <2> QED BY <1>1, <1>5, <2>1 DEF Segment
<1>6. ASSUME NEW x \in Nat, x > i, x <= j
      PROVE  \E k \in 1..(n - 1) : Of(t[k], r) /\ Rank(t[k], last) = x
  <2>1. PICK k \in 1..n : Of(s[k], r) /\ Rank(s[k], last) = x
    BY <1>1, <1>6 DEF Segment
  <2>2. k # 1
    BY <1>2, <2>1
  <2>3. k - 1 \in 1..(n - 1) /\ t[k - 1] = s[k]
    BY <1>2, <2>2
  <2> QED BY <2>1, <2>3
<1>7. i <= j
  BY DEF Segment
<1>8. Segment(t, r, last, i, j)
  BY <1>2, <1>4, <1>5, <1>6, <1>7 DEF Segment
<1> QED BY <1>1, <1>8

-----------------------------------------------------------------------------
(***************************************************************************)
(* Steps of the application and of the client that move no message.        *)
(***************************************************************************)

LEMMA SubSeqs ==
  ASSUME NEW A, NEW B, A \subseteq B, NEW s \in Seq(A)
  PROVE  s \in Seq(B)
OBVIOUS

LEMMA SeqTypes ==
  ASSUME TypeOK, NEW r \in Requests
  PROVE  /\ mailbox[r] \in Seq(Message) /\ down \in Seq(Message)
         /\ frames \in Seq(Message) /\ rest \in Seq(Message)
         /\ produced[r] \in Nat /\ produced[r] + 1 \in Nat
         /\ Len(received[r]) \in Nat /\ Len(chan[r]) \in Nat /\ Passed(r) \in Nat
<1>1. /\ mailbox[r] \in Seq(Response \cup {Stop}) /\ down \in Seq(Response \cup {Close})
      /\ frames \in Seq(Response) /\ rest \in Seq(Response)
  BY DEF TypeOK
<1>2. mailbox[r] \in Seq(Message) /\ down \in Seq(Message)
  BY <1>1, SubSeqs DEF Message
<1>3. frames \in Seq(Message) /\ rest \in Seq(Message)
  BY <1>1, SubSeqs DEF Message
<1>4. produced[r] \in Nat
  BY ConstantsAssumption DEF TypeOK
<1>5. received[r] \in Seq(1..MaxBlocks) /\ chan[r] \in Seq(1..MaxBlocks)
  BY DEF TypeOK
<1>6. Len(received[r]) \in Nat /\ Len(chan[r]) \in Nat
  BY <1>5
<1>7. produced[r] + 1 \in Nat
  BY <1>4
<1>8. Passed(r) \in Nat
  <2>1. PICK x \in Nat, y \in Nat : x = Len(received[r]) /\ y = Len(chan[r])
    BY <1>6
  <2>2. x + y \in Nat
    OBVIOUS
  <2> QED BY <2>1, <2>2 DEF Passed
<1> QED BY <1>2, <1>3, <1>4, <1>6, <1>7, <1>8

\* Nothing has been sent on the stream: the empty segments.
LEMMA UntouchedPipeline ==
  ASSUME TypeOK, NEW r \in Requests, Untouched(r)
  PROVE  Pipeline(r)
<1>1. Passed(r) = 0
  BY DEF Untouched, Passed
<1>2. /\ Segment(mailbox[r], r, produced[r] + 1, 0, 0)
      /\ Segment(down, r, produced[r] + 1, 0, 0)
      /\ Segment(frames, r, produced[r] + 1, 0, 0)
      /\ Segment(rest, r, produced[r] + 1, 0, 0)
  BY SeqTypes, SegNone DEF Untouched
<1> QED BY <1>1, <1>2 DEF Pipeline

LEMMA UntouchedPipelines ==
  TypeOK => \A r \in Requests : Untouched(r) => Pipeline(r)
BY UntouchedPipeline

LEMMA UntouchedPipelineNext ==
  TypeOK' => \A r \in Requests : Untouched(r)' => Pipeline(r)'
<1>1. (TypeOK => \A r \in Requests : Untouched(r) => Pipeline(r))'
  BY UntouchedPipelines, PTL
<1> QED BY <1>1

\* What a step does not change of a request.
SameData(r) ==
  /\ kind'[r] = kind[r] /\ actor'[r] = actor[r] /\ mailbox'[r] = mailbox[r]
  /\ received'[r] = received[r] /\ chan'[r] = chan[r]
  /\ chan_closed'[r] = chan_closed[r] /\ produced'[r] = produced[r]

SamePipes ==
  /\ UNCHANGED <<down, frames, rest, server>>
  /\ reader' = "loop" => reader = "loop"
  /\ sink_open' => sink_open

\* A step of the call or of the application that leaves the messages alone.
LEMMA RequestGoesOn ==
  ASSUME NEW r \in Requests, RequestInv(r), SameData(r), SamePipes,
         call'[r] = "new" => call[r] = "new" /\ r \notin registered',
         Unanswered(r)' => Unanswered(r),
         stream'[r] = stream[r] \/ (stream[r] = "none" /\ stream'[r] = "open"),
         stream'[r] # "none" => kind[r] = "stream" /\ call'[r] = "ok"
  PROVE  RequestInv(r)'
<1>1. NewOK(r)'
  BY DEF RequestInv, NewOK, SameData
<1>2. MailboxOwn(r)' /\ InOrder(r)'
  BY DEF RequestInv, MailboxOwn, InOrder, SameData
<1>3. StoppedOK(r)'
  BY DEF RequestInv, StoppedOK, Passed, SameData, SamePipes
<1>4. Untouched(r) => Untouched(r)'
  BY DEF Untouched, SameData, SamePipes
<1>5. Live(r)' => Live(r)
  BY DEF Live, SameData
<1>6. ASSUME Pipeline(r) PROVE Pipeline(r)'
  <2>1. PICK a \in Nat, b \in Nat, c \in Nat, d \in Nat :
          /\ Segment(mailbox[r], r, produced[r] + 1, Passed(r), a)
          /\ reader = "loop" => Segment(down, r, produced[r] + 1, a, b)
          /\ reader = "loop" /\ server # "ended" =>
               /\ Segment(frames, r, produced[r] + 1, b, c)
               /\ Segment(rest, r, produced[r] + 1, c, d)
    BY <1>6 DEF Pipeline
  <2>2. Passed(r)' = Passed(r)
    BY DEF Passed, SameData
  <2>3. Segment(mailbox[r], r, produced[r] + 1, Passed(r), a)'
    BY <2>1, <2>2 DEF SameData
  <2> QED BY <2>1, <2>3 DEF Pipeline, SameData, SamePipes
<1> QED BY <1>1, <1>2, <1>3, <1>4, <1>5, <1>6 DEF RequestInv

LEMMA RequestKept ==
  ASSUME NEW r \in Requests, RequestInv(r), SameData(r), SamePipes, InUp(r)' => InUp(r),
         call'[r] = call[r], stream'[r] = stream[r],
         call[r] = "new" => r \notin registered'
  PROVE  RequestInv(r)'
<1>1. Unanswered(r)' => Unanswered(r)
  BY DEF Unanswered
<1>2. stream'[r] # "none" => kind[r] = "stream" /\ call'[r] = "ok"
  BY DEF RequestInv, StoppedOK
<1> QED BY <1>1, <1>2, RequestGoesOn

LEMMA UpKept ==
  ASSUME UpOnce, UNCHANGED up,
         \A r \in Requests : call'[r] \in {"new", "send"} => call[r] \in {"new", "send"}
  PROVE  UpOnce'
BY DEF UpOnce, InUp

LEMMA BeforeInv ==
  ASSUME Inv, NEW q \in Requests, NEW k \in {"simple", "stream"}, before(q, k)
  PROVE  StreamInv'
<1>1. /\ call[q] = "new" /\ call' = [call EXCEPT ![q] = "send"]
      /\ kind' = [kind EXCEPT ![q] = k] /\ actor' = [actor EXCEPT ![q] = "running"]
      /\ registered' = registered \cup {q}
      /\ UNCHANGED <<mailbox, chan, chan_closed, stream, received, reader, sink_open,
                     server, rest, frames, produced, up, down>>
  BY DEF before, servervars
<1>2. TypeOK /\ UpOnce /\ ServerOK /\ \A r \in Requests : RequestInv(r)
  BY DEF Inv, StreamInv
<1>3. call'[q] = "send" /\ kind'[q] = k /\ actor'[q] = "running"
  BY <1>1, <1>2 DEF TypeOK
<1>4. UpOnce' /\ ServerOK'
  BY <1>1, <1>2, UpKept DEF TypeOK, ServerOK
<1>5. ASSUME NEW r \in Requests, r # q PROVE RequestInv(r)'
  <2>1. SameData(r) /\ SamePipes /\ call'[r] = call[r] /\ (InUp(r)' => InUp(r))
    BY <1>1, <1>2, <1>5 DEF TypeOK, SameData, SamePipes, InUp
  <2>2. call[r] = "new" => r \notin registered'
    BY <1>1, <1>2, <1>5 DEF RequestInv, NewOK
  <2> QED BY <1>1, <1>2, <2>1, <2>2, RequestKept
<1>6. RequestInv(q)'
  <2>1. RequestInv(q) /\ Untouched(q) /\ mailbox[q] = << >>
    BY <1>1, <1>2 DEF RequestInv, NewOK, Unanswered
  <2>2. Untouched(q)'
    BY <1>1, <2>1 DEF Untouched
  <2>3. TypeOK'
    BY <1>2, CallTypes
  <2>4. Pipeline(q)'
    BY <2>2, <2>3, UntouchedPipelineNext
  <2>5. NewOK(q)' /\ MailboxOwn(q)' /\ InOrder(q)'
    BY <1>1, <1>3, <2>1 DEF RequestInv, NewOK, MailboxOwn, InOrder
  <2>6. stream[q] = "none"
    BY <1>1, <2>1 DEF RequestInv, StoppedOK
  <2>7. StoppedOK(q)'
    BY <1>1, <1>3, <2>1, <2>2, <2>6 DEF StoppedOK, StopQueued, Untouched
  <2> QED BY <2>2, <2>4, <2>5, <2>7 DEF RequestInv
<1> QED BY <1>4, <1>5, <1>6 DEF StreamInv

\* The request goes out, or the call gives up on a dead socket.
LEMMA SendInv ==
  ASSUME Inv, NEW q \in Requests, send(q)
  PROVE  StreamInv'
<1>1. /\ call[q] = "send"
      /\ UNCHANGED <<kind, chan, chan_closed, stream, received, registered, reader,
                     sink_open, server, rest, frames, produced, down>>
  BY DEF send, servervars
<1>2. TypeOK /\ UpOnce /\ ServerOK /\ \A r \in Requests : RequestInv(r)
  BY DEF Inv, StreamInv
<1>3. ServerOK'
  BY <1>1, <1>2 DEF ServerOK
<1>4. stream[q] = "none" /\ ~ InUp(q) /\ Untouched(q)
  BY <1>1, <1>2 DEF RequestInv, StoppedOK, UpOnce, Unanswered
<1>5. CASE /\ up' = Append(up, Request(q)) /\ call' = [call EXCEPT ![q] = "wait"]
           /\ UNCHANGED <<actor, mailbox>>
  <2>1. PICK n, u : n = Len(up) /\ u = up'
    OBVIOUS
  <2>2. /\ n \in Nat /\ Len(u) = n + 1 /\ u[n + 1] = Request(q)
        /\ \A k \in 1..n : u[k] = up[k]
    <3>1. up \in Seq(Frame) /\ Request(q) \in Frame
      BY <1>2 DEF TypeOK, Frame
    <3> QED BY <1>5, <2>1, <3>1, Appended
  <2>3. \A k \in 1..(n + 1) : k = n + 1 \/ k \in 1..n
    BY <2>2
  <2>4. \A k \in 1..n : up[k] # Request(q)
    BY <1>4, <2>1 DEF InUp
  <2>5. ASSUME NEW r \in Requests, r # q PROVE InUp(r)' => InUp(r)
    <3>1. Request(q) # Request(r)
      BY <2>5 DEF Request
    <3> QED BY <2>1, <2>2, <2>3, <3>1 DEF InUp
  <2>6. UpOnce'
    <3>1. ASSUME NEW i \in 1..(n + 1), NEW j \in 1..(n + 1), u[i] = u[j], u[i] # Close
          PROVE  i = j
      <4>1. CASE i \in 1..n /\ j \in 1..n
        BY <1>2, <2>1, <2>2, <3>1, <4>1 DEF UpOnce
      <4> QED BY <2>2, <2>3, <2>4, <3>1, <4>1
    <3>2. ASSUME NEW r \in Requests, call'[r] \in {"new", "send"} PROVE ~ InUp(r)'
      <4>1. r # q /\ call[r] \in {"new", "send"}
        BY <1>2, <1>5, <3>2 DEF TypeOK
      <4> QED BY <1>2, <2>5, <4>1 DEF UpOnce
    <3> QED BY <2>1, <2>2, <3>1, <3>2 DEF UpOnce
  <2>7. ASSUME NEW r \in Requests PROVE RequestInv(r)'
    <3>1. SameData(r) /\ SamePipes
      BY <1>1, <1>5 DEF SameData, SamePipes
    <3>2. CASE r # q
      <4>1. call'[r] = call[r]
        BY <1>2, <1>5, <3>2 DEF TypeOK
      <4>2. call[r] = "new" => r \notin registered'
        BY <1>1, <1>2 DEF RequestInv, NewOK
      <4> QED BY <1>1, <1>2, <2>5, <3>1, <3>2, <4>1, <4>2, RequestKept
    <3>3. CASE r = q
      <4>1. call'[q] = "wait"
        BY <1>2, <1>5 DEF TypeOK
      <4>2. Unanswered(q)
        BY <1>1 DEF Unanswered
      <4> QED BY <1>1, <1>2, <1>4, <3>1, <3>3, <4>1, <4>2, RequestGoesOn
    <3> QED BY <3>2, <3>3
  <2> QED BY <1>3, <2>6, <2>7 DEF StreamInv
<1>6. CASE /\ ~ sink_open /\ UNCHANGED up
           /\ call' = [call EXCEPT ![q] = "writeerror"]
           /\ actor' = [actor EXCEPT ![q] = "gone"]
           /\ mailbox' = [mailbox EXCEPT ![q] = << >>]
  <2>1. /\ call'[q] = "writeerror" /\ actor'[q] = "gone" /\ mailbox'[q] = << >>
        /\ \A r \in Requests : r # q =>
             call'[r] = call[r] /\ actor'[r] = actor[r] /\ mailbox'[r] = mailbox[r]
    BY <1>2, <1>6 DEF TypeOK
  <2>2. UpOnce'
    <3>1. \A r \in Requests : call'[r] \in {"new", "send"} => call[r] \in {"new", "send"}
      BY <1>1, <2>1
    <3> QED BY <1>2, <1>6, <3>1, UpKept
  <2>3. ASSUME NEW r \in Requests, r # q PROVE RequestInv(r)'
    <3>1. SameData(r) /\ SamePipes /\ call'[r] = call[r] /\ (InUp(r)' => InUp(r))
      BY <1>1, <1>6, <2>1, <2>3 DEF SameData, SamePipes, InUp
    <3>2. call[r] = "new" => r \notin registered'
      BY <1>1, <1>2 DEF RequestInv, NewOK
    <3> QED BY <1>1, <1>2, <3>1, <3>2, RequestKept
  <2>4. RequestInv(q)'
    <3>1. Untouched(q)'
      BY <1>1, <1>4, <2>1 DEF Untouched, NoneOf
    <3>2. NewOK(q)' /\ MailboxOwn(q)' /\ ~ Live(q)'
      BY <2>1 DEF NewOK, MailboxOwn, Live
    <3>3. InOrder(q)' /\ StoppedOK(q)'
      BY <1>1, <1>2, <1>4, <1>6, <3>1 DEF RequestInv, InOrder, StoppedOK, Untouched
    <3> QED BY <3>1, <3>2, <3>3 DEF RequestInv
  <2> QED BY <1>3, <2>2, <2>3, <2>4 DEF StreamInv
<1> QED BY <1>5, <1>6 DEF send

\* A call that returns.
LEMMA ReturnInv ==
  ASSUME Inv, NEW q \in Requests, after(q) \/ first_reply(q) \/ wait_for_stop(q)
  PROVE  StreamInv'
<1>1. /\ UNCHANGED <<kind, actorvars, received, reader, sink_open, servervars, up, down>>
      /\ registered' \subseteq registered
  BY DEF after, first_reply, wait_for_stop, appvars
<1>2. TypeOK /\ UpOnce /\ ServerOK /\ \A r \in Requests : RequestInv(r)
  BY DEF Inv, StreamInv
<1>3. \A r \in Requests : r # q => call'[r] = call[r] /\ stream'[r] = stream[r]
  BY <1>2 DEF TypeOK, after, first_reply, wait_for_stop, appvars
<1>4. /\ call[q] \in {"wait", "ok"} /\ call'[q] \notin {"new", "send"}
      /\ \/ call'[q] = call[q] /\ stream'[q] = stream[q]
         \/ call[q] = "wait" /\ stream'[q] = stream[q]
         \/ call[q] = "wait" /\ kind[q] = "stream" /\ call'[q] = "ok" /\ stream'[q] = "open"
  <2>1. CASE wait_for_stop(q)
    BY <2>1 DEF wait_for_stop, appvars
  <2>2. CASE after(q)
    BY <1>2, <2>2 DEF TypeOK, after
  <2>3. CASE first_reply(q)
    BY <1>2, <2>3 DEF TypeOK, first_reply
  <2> QED BY <2>1, <2>2, <2>3
<1>5. ServerOK' /\ UpOnce'
  <2>1. \A r \in Requests : call'[r] \in {"new", "send"} => call[r] \in {"new", "send"}
    BY <1>3, <1>4
  <2> QED BY <1>1, <1>2, <2>1, UpKept DEF ServerOK, servervars
<1>6. ASSUME NEW r \in Requests PROVE RequestInv(r)'
  <2>1. SameData(r) /\ SamePipes /\ (InUp(r)' => InUp(r))
    BY <1>1 DEF SameData, SamePipes, InUp, actorvars, servervars
  <2>2. call[r] = "new" => r \notin registered'
    BY <1>1, <1>2 DEF RequestInv, NewOK
  <2>3. CASE r # q
    BY <1>2, <1>3, <2>1, <2>2, <2>3, RequestKept
  <2>4. CASE r = q
    <3>1. stream[q] # "none" => kind[q] = "stream" /\ call[q] = "ok"
      BY <1>2 DEF RequestInv, StoppedOK
    <3>2. Unanswered(q)' => Unanswered(q)
      BY <1>4, <2>1, <2>4 DEF Unanswered
    <3> QED BY <1>2, <1>4, <2>1, <2>4, <3>1, <3>2, RequestGoesOn
  <2> QED BY <2>3, <2>4
<1> QED BY <1>5, <1>6 DEF StreamInv

\* The application reads a block: it is the next one.
LEMMA NextBlockInv ==
  ASSUME Inv, NEW q \in Requests, next_block(q)
  PROVE  StreamInv'
<1>1. /\ stream[q] = "open"
      /\ UNCHANGED <<kind, call, actor, mailbox, chan_closed, registered, reader, sink_open,
                     server, rest, frames, produced, up, down>>
  BY DEF next_block, clientvars, servervars
<1>2. TypeOK /\ UpOnce /\ ServerOK /\ \A r \in Requests : RequestInv(r)
  BY DEF Inv, StreamInv
<1>3. UpOnce' /\ ServerOK'
  BY <1>1, <1>2, UpKept DEF ServerOK
<1>4. ASSUME NEW r \in Requests, r # q PROVE RequestInv(r)'
  <2>1. received'[r] = received[r] /\ chan'[r] = chan[r] /\ stream'[r] = stream[r]
    BY <1>2, <1>4 DEF TypeOK, next_block
  <2>2. SameData(r) /\ SamePipes /\ call'[r] = call[r] /\ (InUp(r)' => InUp(r))
    BY <1>1, <2>1 DEF SameData, SamePipes, InUp
  <2>3. call[r] = "new" => r \notin registered'
    BY <1>1, <1>2 DEF RequestInv, NewOK
  <2> QED BY <1>2, <2>1, <2>2, <2>3, RequestKept
<1>5. RequestInv(q) /\ (Unanswered(q)' => Unanswered(q))
  BY <1>1, <1>2 DEF Unanswered, InUp
<1>6. NewOK(q)' /\ MailboxOwn(q)'
  BY <1>1, <1>5 DEF RequestInv, NewOK, MailboxOwn
<1>7. ASSUME Passed(q)' = Passed(q), Pipeline(q) PROVE Pipeline(q)'
  <2>1. PICK a \in Nat, b \in Nat, c \in Nat, d \in Nat :
          /\ Segment(mailbox[q], q, produced[q] + 1, Passed(q), a)
          /\ reader = "loop" => Segment(down, q, produced[q] + 1, a, b)
          /\ reader = "loop" /\ server # "ended" =>
               /\ Segment(frames, q, produced[q] + 1, b, c)
               /\ Segment(rest, q, produced[q] + 1, c, d)
    BY <1>7 DEF Pipeline
  <2>2. Segment(mailbox[q], q, produced[q] + 1, Passed(q), a)'
    BY <1>1, <1>7, <2>1
  <2> QED BY <1>1, <2>1, <2>2 DEF Pipeline
<1>8. CASE /\ chan[q] # << >> /\ UNCHANGED stream
           /\ received' = [received EXCEPT ![q] = Append(@, Head(chan[q]))]
           /\ chan' = [chan EXCEPT ![q] = Tail(@)]
  <2>1. PICK s, c, t, e, n : /\ s = received[q] /\ c = chan[q] /\ t = received'[q]
                             /\ e = chan'[q] /\ n = Len(s)
    OBVIOUS
  <2>2. t = Append(s, Head(c)) /\ e = Tail(c)
    BY <1>2, <1>8, <2>1 DEF TypeOK
  <2>3. s \in Seq(1..MaxBlocks) /\ c \in Seq(1..MaxBlocks) /\ c # << >>
    BY <1>2, <1>8, <2>1 DEF TypeOK
  <2>4. PICK l \in Nat : l + 1 = Len(c) /\ Len(e) = l /\ Head(c) = c[1] /\ Head(c) \in 1..MaxBlocks
                         /\ \A k \in 1..l : e[k] = c[k + 1]
    <3>1. /\ Len(c) \in Nat \ {0} /\ Len(e) = Len(c) - 1 /\ Head(c) = c[1]
          /\ Head(c) \in 1..MaxBlocks /\ \A k \in 1..Len(e) : e[k] = c[k + 1]
      BY <2>2, <2>3, HeadTail
    <3>2. Len(c) - 1 \in Nat /\ (Len(c) - 1) + 1 = Len(c)
      BY <3>1
    <3> QED BY <3>1, <3>2
  <2>5. n \in Nat /\ Len(t) = n + 1 /\ t[n + 1] = c[1] /\ \A k \in 1..n : t[k] = s[k]
    BY <2>1, <2>2, <2>3, <2>4, Appended
  <2>6. Passed(q) = n + (l + 1) /\ Passed(q)' = (n + 1) + l
    BY <2>1, <2>4, <2>5 DEF Passed
  <2>7. Passed(q)' = Passed(q)
    BY <2>4, <2>5, <2>6
  <2>8. /\ \A i \in 1..n : s[i] = i
        /\ \A i \in 1..(l + 1) : c[i] = n + i
    BY <1>5, <2>1, <2>4 DEF RequestInv, InOrder
  <2>9. \A i \in 1..(n + 1) : t[i] = i
    BY <2>4, <2>5, <2>8
  <2>10. \A i \in 1..l : e[i] = (n + 1) + i
    BY <2>4, <2>5, <2>8
  <2>11. InOrder(q)'
    BY <2>1, <2>4, <2>5, <2>9, <2>10 DEF InOrder
  <2>12. StoppedOK(q)'
    BY <1>1, <1>5, <1>8, <2>7 DEF RequestInv, StoppedOK
  <2>13. Live(q)' => Live(q)
    BY <1>1, <1>8 DEF Live
  <2>14. ~ Untouched(q)
    BY <1>8 DEF Untouched
  <2> QED BY <1>5, <1>6, <1>7, <2>7, <2>11, <2>12, <2>13, <2>14, <1>3, <1>4 DEF RequestInv, StreamInv
<1>9. CASE /\ chan[q] = << >> /\ (chan_closed[q] \/ actor[q] = "gone")
           /\ stream' = [stream EXCEPT ![q] = "ended"]
           /\ UNCHANGED <<received, chan>>
  <2>1. stream'[q] = "ended"
    BY <1>2, <1>9 DEF TypeOK
  <2>2. Passed(q)' = Passed(q) /\ InOrder(q)'
    BY <1>5, <1>9 DEF Passed, RequestInv, InOrder
  <2>3. StoppedOK(q)'
    BY <1>1, <1>5, <1>9, <2>1, <2>2 DEF RequestInv, StoppedOK
  <2>4. Live(q)' => Live(q)
    BY <1>1, <2>1 DEF Live
  <2>5. Untouched(q) => Untouched(q)'
    BY <1>1, <1>9 DEF Untouched
  <2> QED BY <1>5, <1>6, <1>7, <2>2, <2>3, <2>4, <2>5, <1>3, <1>4 DEF RequestInv, StreamInv
<1> QED BY <1>8, <1>9 DEF next_block

LEMMA DropStreamInv ==
  ASSUME Inv, NEW q \in Requests, drop_stream(q)
  PROVE  StreamInv'
<1>1. /\ stream[q] = "open" /\ stream' = [stream EXCEPT ![q] = "dropped"]
      /\ chan' = [chan EXCEPT ![q] = << >>]
      /\ UNCHANGED <<kind, call, actor, mailbox, received, chan_closed, registered, reader,
                     sink_open, server, rest, frames, produced, up, down>>
  BY DEF drop_stream, clientvars, servervars
<1>2. TypeOK /\ UpOnce /\ ServerOK /\ \A r \in Requests : RequestInv(r)
  BY DEF Inv, StreamInv
<1>3. UpOnce' /\ ServerOK'
  BY <1>1, <1>2, UpKept DEF ServerOK
<1>4. ASSUME NEW r \in Requests, r # q PROVE RequestInv(r)'
  <2>1. chan'[r] = chan[r] /\ stream'[r] = stream[r]
    BY <1>1, <1>2, <1>4 DEF TypeOK
  <2>2. SameData(r) /\ SamePipes /\ call'[r] = call[r] /\ (InUp(r)' => InUp(r))
    BY <1>1, <2>1 DEF SameData, SamePipes, InUp
  <2>3. call[r] = "new" => r \notin registered'
    BY <1>1, <1>2 DEF RequestInv, NewOK
  <2> QED BY <1>2, <2>1, <2>2, <2>3, RequestKept
<1>5. RequestInv(q) /\ (Unanswered(q)' => Unanswered(q))
  BY <1>1, <1>2 DEF Unanswered, InUp
<1>6. stream'[q] = "dropped" /\ chan'[q] = << >>
  BY <1>1, <1>2 DEF TypeOK
<1>7. NewOK(q)' /\ MailboxOwn(q)' /\ InOrder(q)'
  BY <1>1, <1>5, <1>6 DEF RequestInv, NewOK, MailboxOwn, InOrder
<1>8. StoppedOK(q)' /\ ~ Live(q)'
  BY <1>1, <1>5, <1>6 DEF RequestInv, StoppedOK, Live
<1>9. Untouched(q) => Untouched(q)'
  BY <1>1, <1>6 DEF Untouched
<1> QED BY <1>3, <1>4, <1>5, <1>7, <1>8, <1>9 DEF RequestInv, StreamInv

\* The connection is closed from the client's side.
LEMMA CloseInv ==
  ASSUME Inv, close \/ read_shutdown \/ close_writer
  PROVE  StreamInv'
<1>1. /\ UNCHANGED <<kind, call, stream, received, actorvars, registered, servervars, down>>
      /\ (reader' = "loop" => reader = "loop") /\ (sink_open' => sink_open)
      /\ up' = up \/ up' = Append(up, Close)
  BY DEF close, read_shutdown, close_writer, CloseSink, appvars
<1>2. TypeOK /\ UpOnce /\ ServerOK /\ \A r \in Requests : RequestInv(r)
  BY DEF Inv, StreamInv
<1>3. up \in Seq(Frame) /\ Close \in Frame
  BY <1>2 DEF TypeOK, Frame
<1>4. PICK n, u : n = Len(up) /\ u = up'
  OBVIOUS
<1>5. CASE u = up
  <2>1. ServerOK' /\ UpOnce'
    BY <1>1, <1>2, <1>4, <1>5, UpKept DEF ServerOK, servervars
  <2>2. ASSUME NEW r \in Requests PROVE RequestInv(r)'
    <3>1. SameData(r) /\ SamePipes /\ (InUp(r)' => InUp(r))
      BY <1>1, <1>4, <1>5 DEF SameData, SamePipes, InUp, actorvars, servervars
    <3>2. call[r] = "new" => r \notin registered'
      BY <1>1, <1>2 DEF RequestInv, NewOK
    <3> QED BY <1>1, <1>2, <3>1, <3>2, RequestKept
  <2> QED BY <2>1, <2>2 DEF StreamInv
<1>6. CASE u = Append(up, Close)
  <2>1. /\ n \in Nat /\ Len(u) = n + 1 /\ u[n + 1] = Close
        /\ \A k \in 1..n : u[k] = up[k]
    BY <1>3, <1>4, <1>6, Appended
  <2>2. \A k \in 1..(n + 1) : k = n + 1 \/ k \in 1..n
    BY <2>1
  <2>3. ASSUME NEW r \in Requests PROVE InUp(r)' => InUp(r)
    <3>1. Request(r) # Close
      BY DEF Request, Close
    <3> QED BY <1>4, <2>1, <2>2, <3>1 DEF InUp
  <2>4. UpOnce'
    <3>1. ASSUME NEW i \in 1..(n + 1), NEW j \in 1..(n + 1), u[i] = u[j], u[i] # Close
          PROVE  i = j
      <4>1. i \in 1..n /\ j \in 1..n
        BY <2>1, <2>2, <3>1
      <4> QED BY <1>2, <1>4, <2>1, <3>1, <4>1 DEF UpOnce
    <3>2. \A r \in Requests : call'[r] \in {"new", "send"} => ~ InUp(r)'
      BY <1>1, <1>2, <2>3 DEF UpOnce
    <3> QED BY <1>4, <2>1, <3>1, <3>2 DEF UpOnce
  <2>5. ServerOK'
    BY <1>1, <1>2 DEF ServerOK, servervars
  <2>6. ASSUME NEW r \in Requests PROVE RequestInv(r)'
    <3>1. SameData(r) /\ SamePipes
      BY <1>1 DEF SameData, SamePipes, actorvars, servervars
    <3>2. call[r] = "new" => r \notin registered'
      BY <1>1, <1>2 DEF RequestInv, NewOK
    <3> QED BY <1>1, <1>2, <2>3, <3>1, <3>2, RequestKept
  <2> QED BY <2>4, <2>5, <2>6 DEF StreamInv
<1> QED BY <1>1, <1>4, <1>5, <1>6

-----------------------------------------------------------------------------
(***************************************************************************)
(* The actor takes a message.                                              *)
(***************************************************************************)

LEMMA NoneAppend ==
  ASSUME NEW s \in Seq(Message), NEW m \in Message, NEW r, NoneOf(s, r), ~ Of(m, r)
  PROVE  NoneOf(Append(s, m), r)
<1>1. PICK t, n : t = Append(s, m) /\ n = Len(s)
  OBVIOUS
<1>2. /\ n \in Nat /\ Len(t) = n + 1 /\ t[n + 1] = m
      /\ \A k \in 1..n : t[k] = s[k]
  BY <1>1, Appended
<1>3. \A k \in 1..(n + 1) : k = n + 1 \/ k \in 1..n
  BY <1>2
<1> QED BY <1>1, <1>2, <1>3 DEF NoneOf

LEMMA NoneTail ==
  ASSUME NEW s \in Seq(Message), s # << >>, NEW r, NoneOf(s, r)
  PROVE  NoneOf(Tail(s), r) /\ ~ Of(Head(s), r)
<1>1. PICK t, n : t = Tail(s) /\ n = Len(s)
  OBVIOUS
<1>2. /\ n \in Nat \ {0} /\ Len(t) = n - 1 /\ Head(s) = s[1]
      /\ \A k \in 1..(n - 1) : t[k] = s[k + 1]
  BY <1>1, HeadTail
<1>3. 1 \in 1..n /\ \A k \in 1..(n - 1) : k + 1 \in 1..n
  BY <1>2
<1> QED BY <1>1, <1>2, <1>3 DEF NoneOf

\* The rest of the mailbox, with or without a stop event behind it.
LEMMA MailboxRest ==
  ASSUME NEW s \in Seq(Message), s # << >>, NEW t, t \in {Tail(s), Append(Tail(s), Stop)}
  PROVE  /\ t \in Seq(Message)
         /\ \A k \in 1..Len(t) : t[k] = Stop \/ \E l \in 1..Len(s) : t[k] = s[l]
         /\ \A r : NoneOf(s, r) => NoneOf(t, r)
         /\ t = Tail(s) /\ StopQueued(t) => StopQueued(s)
<1>1. PICK e, n : e = Tail(s) /\ n = Len(s)
  OBVIOUS
<1>2. /\ n \in Nat \ {0} /\ Len(e) = n - 1 /\ e \in Seq(Message)
      /\ \A k \in 1..(n - 1) : e[k] = s[k + 1]
  BY <1>1, HeadTail
<1>3. \A k \in 1..(n - 1) : k + 1 \in 1..n
  BY <1>2
<1>4. CASE t = e
  BY <1>1, <1>2, <1>3, <1>4, NoneTail DEF StopQueued
<1>5. CASE t = Append(e, Stop)
  <2>1. Stop \in Message
    BY DEF Message
  <2>2. t \in Seq(Message) /\ Len(t) = n /\ t[n] = Stop /\ \A k \in 1..(n - 1) : t[k] = e[k]
    <3>1. /\ t \in Seq(Message) /\ Len(t) = Len(e) + 1 /\ t[Len(e) + 1] = Stop
          /\ \A k \in 1..Len(e) : t[k] = e[k]
      BY <1>2, <1>5, <2>1, Appended
    <3>2. Len(e) + 1 = n
      BY <1>2
    <3> QED BY <1>2, <3>1, <3>2
  <2>3. \A k \in 1..n : k = n \/ k \in 1..(n - 1)
    BY <1>2
  <2>4. \A k \in 1..n : t[k] = Stop \/ \E l \in 1..n : t[k] = s[l]
    BY <1>2, <1>3, <2>2, <2>3
  <2>5. t # e
    BY <1>2, <2>2
  <2>6. \A r : NoneOf(s, r) => NoneOf(t, r)
    BY <1>1, <2>2, <2>4 DEF NoneOf, Of
  <2> QED BY <1>1, <2>2, <2>4, <2>5, <2>6
<1> QED BY <1>1, <1>4, <1>5

LEMMA HandleInv ==
  ASSUME Inv, NEW q \in Requests, handle(q)
  PROVE  StreamInv'
<1>1. /\ actor[q] = "running" /\ mailbox[q] # << >>
      /\ UNCHANGED <<kind, call, received, stream, registered, reader, sink_open,
                     server, rest, frames, produced, up, down>>
  BY DEF handle, appvars, clientvars, servervars
<1>2. TypeOK /\ UpOnce /\ ServerOK /\ \A r \in Requests : RequestInv(r)
  BY DEF Inv, StreamInv
<1>3. UpOnce' /\ ServerOK'
  BY <1>1, <1>2, UpKept DEF ServerOK
<1>4. ASSUME NEW r \in Requests, r # q PROVE RequestInv(r)'
  <2>1. actor'[r] = actor[r] /\ mailbox'[r] = mailbox[r]
    BY <1>2, <1>4 DEF TypeOK, handle, handle_reply, handle_stream
  <2>2. chan'[r] = chan[r] /\ chan_closed'[r] = chan_closed[r]
    BY <1>2, <1>4 DEF TypeOK, handle, handle_reply, handle_stream
  <2>3. SameData(r) /\ SamePipes /\ (InUp(r)' => InUp(r))
    BY <1>1, <2>1, <2>2 DEF SameData, SamePipes, InUp
  <2>4. call[r] = "new" => r \notin registered'
    BY <1>1, <1>2 DEF RequestInv, NewOK
  <2> QED BY <1>1, <1>2, <2>3, <2>4, RequestKept
<1>5. RequestInv(q) /\ (Unanswered(q)' => Unanswered(q)) /\ NewOK(q)'
  BY <1>1, <1>2 DEF Unanswered, InUp, RequestInv, NewOK
<1>6. PICK s, m : s = mailbox[q] /\ m = Head(s)
  OBVIOUS
<1>7. /\ s \in Seq(Message) /\ s # << >> /\ m \in Response \cup {Stop}
      /\ 1 \in 1..Len(s) /\ m = s[1]
  <2>1. s \in Seq(Response \cup {Stop})
    BY <1>2, <1>6 DEF TypeOK
  <2>2. m \in Response \cup {Stop} /\ Len(s) \in Nat \ {0} /\ m = s[1]
    BY <1>1, <1>6, <2>1, HeadTail
  <2> QED BY <1>1, <1>2, <1>6, <2>2, SeqTypes
<1>8. CASE m = Stop /\ actor'[q] = "gone" /\ mailbox'[q] = << >> /\ UNCHANGED <<chan, chan_closed>>
  <2>1. MailboxOwn(q)' /\ InOrder(q)' /\ ~ Live(q)'
    BY <1>1, <1>5, <1>8 DEF RequestInv, MailboxOwn, InOrder, Live
  <2>2. Untouched(q) => Untouched(q)'
    BY <1>1, <1>8 DEF Untouched, NoneOf
  <2>3. StopQueued(mailbox[q])
    BY <1>6, <1>7, <1>8 DEF StopQueued
  <2>4. StoppedOK(q)'
    BY <1>1, <1>5, <1>8, <2>3 DEF RequestInv, StoppedOK, Passed
  <2> QED BY <1>3, <1>4, <1>5, <2>1, <2>2, <2>4 DEF RequestInv, StreamInv
<1>9. ASSUME NEW t, t \in {Tail(s), Append(Tail(s), Stop)}, mailbox'[q] = t PROVE MailboxOwn(q)'
  <2>1. \A k \in 1..Len(t) : t[k] = Stop \/ \E l \in 1..Len(s) : t[k] = s[l]
    BY <1>7, <1>9, MailboxRest
  <2> QED BY <1>5, <1>6, <1>9, <2>1 DEF RequestInv, MailboxOwn
<1>10. CASE /\ kind[q] = "simple" /\ mailbox'[q] = Append(Tail(s), Stop)
            /\ UNCHANGED <<actor, chan, chan_closed>>
  <2>1. MailboxOwn(q)' /\ InOrder(q)' /\ ~ Live(q)'
    BY <1>1, <1>5, <1>9, <1>10 DEF RequestInv, InOrder, Live
  <2>2. NoneOf(mailbox[q], q) => NoneOf(mailbox'[q], q)
    BY <1>6, <1>7, <1>10, MailboxRest
  <2>3. Untouched(q) => Untouched(q)'
    BY <1>1, <1>10, <2>2 DEF Untouched
  <2>4. StoppedOK(q)'
    BY <1>1, <1>5, <1>10 DEF RequestInv, StoppedOK
  <2> QED BY <1>3, <1>4, <1>5, <2>1, <2>3, <2>4 DEF RequestInv, StreamInv
<1>11. ASSUME m # Stop, kind[q] = "stream" PROVE m \in Response /\ Of(m, q) /\ ~ Unanswered(q)
  <2>1. m \in Response /\ m # Close
    BY <1>7, <1>11, ResponseFields
  <2>2. m.id = q
    BY <1>5, <1>6, <1>7, <1>11 DEF RequestInv, MailboxOwn
  <2>3. Of(m, q)
    BY <1>11, <2>1, <2>2 DEF Of
  <2>4. ~ Untouched(q)
    BY <1>6, <1>7, <2>3 DEF Untouched, NoneOf
  <2> QED BY <1>5, <2>1, <2>3, <2>4 DEF RequestInv
<1>12. PICK x : x = Passed(q)
  OBVIOUS
<1>13. x \in Nat /\ produced[q] \in Nat /\ Len(chan[q]) \in Nat /\ Len(received[q]) \in Nat
  BY <1>2, <1>12, SeqTypes
<1>14. ASSUME m # Stop, Live(q)
       PROVE  /\ Rank(m, produced[q] + 1) = x + 1
              /\ \E a \in Nat :
                   /\ Segment(Tail(s), q, produced[q] + 1, x + 1, a)
                   /\ reader = "loop" => \E b \in Nat :
                        /\ Segment(down, q, produced[q] + 1, a, b)
                        /\ server # "ended" => \E c, d \in Nat :
                             /\ Segment(frames, q, produced[q] + 1, b, c)
                             /\ Segment(rest, q, produced[q] + 1, c, d)
  <2>1. PICK a \in Nat, b \in Nat, c \in Nat, d \in Nat :
          /\ Segment(mailbox[q], q, produced[q] + 1, Passed(q), a)
          /\ reader = "loop" => Segment(down, q, produced[q] + 1, a, b)
          /\ reader = "loop" /\ server # "ended" =>
               /\ Segment(frames, q, produced[q] + 1, b, c)
               /\ Segment(rest, q, produced[q] + 1, c, d)
    BY <1>5, <1>14 DEF RequestInv, Pipeline
  <2>2. Of(Head(s), q) /\ produced[q] + 1 \in Nat
    BY <1>6, <1>11, <1>13, <1>14 DEF Live
  <2>3. Rank(m, produced[q] + 1) = x + 1 /\ Segment(Tail(s), q, produced[q] + 1, x + 1, a)
    BY <1>6, <1>7, <1>12, <1>13, <2>1, <2>2, SegHead
  <2> QED BY <2>1, <2>3
<1>15. CASE /\ m # Stop /\ kind[q] = "stream" /\ UNCHANGED actor
            /\ m.what = "block" /\ ~ chan_closed[q] /\ stream[q] # "dropped"
            /\ chan' = [chan EXCEPT ![q] = Append(@, m.n)] /\ ~ chan_closed'[q]
            /\ mailbox'[q] = Tail(s)
  <2>1. Live(q)
    BY <1>1, <1>15 DEF Live
  <2>2. m.n = x + 1
    BY <1>14, <1>15, <2>1 DEF Rank
  <2>3. PICK c, e, l, n : c = chan[q] /\ e = chan'[q] /\ l = Len(c) /\ n = Len(received[q])
    OBVIOUS
  <2>4. e = Append(c, m.n) /\ c \in Seq(1..MaxBlocks)
    BY <1>2, <1>15, <2>3 DEF TypeOK
  <2>5. m.n \in 1..MaxBlocks
    BY <1>11, <1>15, ResponseFields
  <2>6. l \in Nat /\ n \in Nat /\ Len(e) = l + 1 /\ e[l + 1] = m.n /\ \A k \in 1..l : e[k] = c[k]
    BY <1>13, <2>3, <2>4, <2>5, Appended
  <2>7. x = n + l
    BY <1>12, <2>3 DEF Passed
  <2>8. Passed(q)' = x + 1
    <3>1. Passed(q)' = n + (l + 1)
      BY <1>1, <2>3, <2>6 DEF Passed
    <3> QED BY <2>6, <2>7, <3>1
  <2>9. InOrder(q)'
    <3>1. \A i \in 1..l : c[i] = n + i
      BY <1>5, <2>3 DEF RequestInv, InOrder
    <3>2. \A i \in 1..(l + 1) : e[i] = n + i
      BY <2>2, <2>6, <2>7, <3>1
    <3> QED BY <1>1, <1>5, <2>3, <2>6, <3>2 DEF RequestInv, InOrder
  <2>10. MailboxOwn(q)' /\ (StopQueued(mailbox'[q]) => StopQueued(mailbox[q]))
    BY <1>6, <1>7, <1>9, <1>15, MailboxRest
  <2>11. StoppedOK(q)'
    BY <1>1, <1>5, <1>15, <2>10 DEF RequestInv, StoppedOK
  <2>12. Pipeline(q)'
    <3>1. PICK a \in Nat :
            /\ Segment(Tail(s), q, produced[q] + 1, x + 1, a)
            /\ reader = "loop" => \E b \in Nat :
                 /\ Segment(down, q, produced[q] + 1, a, b)
                 /\ server # "ended" => \E c1, d \in Nat :
                      /\ Segment(frames, q, produced[q] + 1, b, c1)
                      /\ Segment(rest, q, produced[q] + 1, c1, d)
      BY <1>14, <1>15, <2>1
    <3>2. Segment(mailbox[q], q, produced[q] + 1, Passed(q), a)'
      BY <1>1, <1>15, <2>8, <3>1
    <3>3. PICK b \in Nat, c1 \in Nat, d \in Nat :
            /\ reader = "loop" => Segment(down, q, produced[q] + 1, a, b)
            /\ reader = "loop" /\ server # "ended" =>
                 /\ Segment(frames, q, produced[q] + 1, b, c1)
                 /\ Segment(rest, q, produced[q] + 1, c1, d)
      BY <3>1
    <3> QED BY <1>1, <3>2, <3>3 DEF Pipeline
  <2> QED BY <1>3, <1>4, <1>5, <1>11, <1>15, <2>9, <2>10, <2>11, <2>12 DEF RequestInv, StreamInv
<1>16. CASE /\ m # Stop /\ kind[q] = "stream" /\ UNCHANGED <<actor, chan>>
            /\ ~ (m.what = "block" /\ ~ chan_closed[q] /\ stream[q] # "dropped")
            /\ chan_closed'[q] /\ mailbox'[q] = Append(Tail(s), Stop)
  <2>1. MailboxOwn(q)' /\ InOrder(q)' /\ ~ Live(q)'
    BY <1>1, <1>5, <1>9, <1>16 DEF RequestInv, InOrder, Live
  <2>2. Passed(q)' = x
    BY <1>1, <1>12, <1>16 DEF Passed
  <2>3. ASSUME stream[q] # "dropped" PROVE x = produced[q]
    <3>1. CASE chan_closed[q]
      BY <1>5, <1>12, <1>16, <2>3, <3>1 DEF RequestInv, StoppedOK
    <3>2. CASE ~ chan_closed[q]
      <4>1. Live(q) /\ m.what # "block"
        BY <1>1, <1>16, <2>3, <3>2 DEF Live
      <4>2. produced[q] + 1 = x + 1
        BY <1>14, <1>16, <4>1 DEF Rank
      <4> QED BY <1>13, <4>2
    <3> QED BY <3>1, <3>2
  <2>4. StoppedOK(q)'
    BY <1>1, <1>5, <1>16, <2>2, <2>3 DEF RequestInv, StoppedOK
  <2> QED BY <1>3, <1>4, <1>5, <1>11, <1>16, <2>1, <2>4 DEF RequestInv, StreamInv
<1>17. CASE m = Stop
  <2>1. actor'[q] = "gone" /\ mailbox'[q] = << >> /\ UNCHANGED <<chan, chan_closed>>
    BY <1>2, <1>6, <1>17 DEF TypeOK, handle
  <2> QED BY <1>8, <1>17, <2>1
<1>18. CASE m # Stop /\ kind[q] = "simple"
  <2>1. mailbox'[q] = Append(Tail(s), Stop) /\ UNCHANGED <<actor, chan, chan_closed>>
    BY <1>2, <1>6, <1>18 DEF TypeOK, handle, handle_reply
  <2> QED BY <1>10, <1>18, <2>1
<1>19. CASE m # Stop /\ kind[q] = "stream"
  <2>1. handle_stream(q, m) /\ UNCHANGED actor
    BY <1>6, <1>19 DEF handle
  <2>2. CASE m.what = "block" /\ ~ chan_closed[q] /\ stream[q] # "dropped"
    <3>1. chan' = [chan EXCEPT ![q] = Append(@, m.n)] /\ mailbox'[q] = Tail(s)
      BY <1>2, <1>6, <2>1, <2>2 DEF TypeOK, handle_stream
    <3>2. ~ chan_closed'[q]
      BY <1>2, <2>1, <2>2 DEF TypeOK, handle_stream
    <3> QED BY <1>15, <1>19, <2>1, <2>2, <3>1, <3>2
  <2>3. CASE ~ (m.what = "block" /\ ~ chan_closed[q] /\ stream[q] # "dropped")
    <3>1. chan' = chan /\ mailbox'[q] = Append(Tail(s), Stop)
      BY <1>2, <1>6, <2>1, <2>3 DEF TypeOK, handle_stream
    <3>2. chan_closed'[q]
      BY <1>2, <2>1, <2>3 DEF TypeOK, handle_stream
    <3> QED BY <1>16, <1>19, <2>1, <2>3, <3>1, <3>2
  <2> QED BY <2>2, <2>3
<1>20. m = Stop \/ kind[q] = "simple" \/ kind[q] = "stream"
  BY <1>6 DEF handle
<1> QED BY <1>17, <1>18, <1>19, <1>20

-----------------------------------------------------------------------------
(***************************************************************************)
(* Messages in transit.                                                    *)
(***************************************************************************)

\* A message goes from the head of one stage to the end of the next.
LEMMA SegShift ==
  ASSUME NEW s \in Seq(Message), s # << >>, NEW t \in Seq(Message), NEW r, NEW last \in Nat,
         NEW i \in Nat, NEW j \in Nat, NEW k \in Nat,
         Segment(t, r, last, i, j), Segment(s, r, last, j, k)
  PROVE  \E l \in Nat : /\ Segment(Append(t, Head(s)), r, last, i, l)
                        /\ Segment(Tail(s), r, last, l, k)
<1>1. PICK m : m = Head(s)
  OBVIOUS
<1>2. m \in Message
  BY <1>1, HeadTail
<1>3. CASE Of(m, r)
  <2>1. Rank(m, last) = j + 1 /\ Segment(Tail(s), r, last, j + 1, k)
    BY <1>1, <1>3, SegHead
  <2>2. Segment(Append(t, m), r, last, i, j + 1)
    BY <1>2, <1>3, <2>1, SegAppend
  <2>3. j + 1 \in Nat
    OBVIOUS
  <2> QED BY <1>1, <2>1, <2>2, <2>3
<1>4. CASE ~ Of(m, r)
  <2>1. Segment(Append(t, m), r, last, i, j)
    BY <1>2, <1>4, SegAppendOther
  <2>2. Segment(Tail(s), r, last, j, k)
    BY <1>1, <1>4, SegHeadOther
  <2> QED BY <1>1, <2>1, <2>2
<1> QED BY <1>3, <1>4

LEMMA NoneShift ==
  ASSUME NEW s \in Seq(Message), s # << >>, NEW t \in Seq(Message), NEW r,
         NoneOf(s, r), NoneOf(t, r)
  PROVE  NoneOf(Append(t, Head(s)), r) /\ NoneOf(Tail(s), r)
<1>1. Head(s) \in Message
  BY HeadTail
<1> QED BY <1>1, NoneTail, NoneAppend

\* A step that moves messages and leaves the client's end of r alone.
LEMMA RequestFlows ==
  ASSUME NEW r \in Requests, RequestInv(r), SameData(r), sink_open' => sink_open,
         call'[r] = call[r], stream'[r] = stream[r], InUp(r)' => InUp(r),
         UNCHANGED registered,
         Unanswered(r)' => NoneOf(down', r) /\ NoneOf(frames', r) /\ NoneOf(rest', r),
         Live(r) => Pipeline(r)'
  PROVE  RequestInv(r)'
<1>1. NewOK(r)'
  BY DEF RequestInv, NewOK, SameData
<1>2. MailboxOwn(r)' /\ InOrder(r)'
  BY DEF RequestInv, MailboxOwn, InOrder, SameData
<1>3. StoppedOK(r)'
  BY DEF RequestInv, StoppedOK, Passed, SameData
<1>4. Unanswered(r)' => Unanswered(r)
  BY DEF Unanswered
<1>5. Unanswered(r)' => Untouched(r)'
  BY <1>4 DEF RequestInv, Untouched, SameData
<1>6. Live(r)' => Live(r)
  BY DEF Live, SameData
<1> QED BY <1>1, <1>2, <1>3, <1>5, <1>6 DEF RequestInv

LEMMA Closed ==
  ASSUME TypeOK, NEW r \in Requests
  PROVE  Close \in Message /\ Stop \in Message /\ ~ Of(Close, r) /\ ~ Of(Stop, r)
BY DEF Message, Of

LEMMA ReadFrameInv ==
  ASSUME Inv, read_frame
  PROVE  StreamInv'
<1>1. /\ reader = "loop" /\ down # << >> /\ down' = Tail(down)
      /\ UNCHANGED <<kind, call, stream, received, actor, chan, chan_closed, registered,
                     server, rest, frames, produced, up>>
  BY DEF read_frame, appvars, servervars
<1>2. TypeOK /\ UpOnce /\ ServerOK /\ \A r \in Requests : RequestInv(r)
  BY DEF Inv, StreamInv
<1>3. UpOnce' /\ ServerOK'
  BY <1>1, <1>2, UpKept DEF ServerOK
<1>4. PICK m : m = Head(down)
  OBVIOUS
<1>5. m \in Response \cup {Close}
  <2>1. down \in Seq(Response \cup {Close})
    BY <1>2 DEF TypeOK
  <2> QED BY <1>1, <1>4, <2>1, HeadTail
<1>6. \A r \in Requests : (Unanswered(r)' <=> Unanswered(r)) /\ (InUp(r)' => InUp(r))
  BY <1>1 DEF Unanswered, InUp
<1>7. ASSUME NEW r \in Requests, Unanswered(r)
      PROVE  NoneOf(down', r) /\ NoneOf(frames', r) /\ NoneOf(rest', r) /\ ~ Of(m, r)
  <2>1. Untouched(r)
    BY <1>2, <1>7 DEF RequestInv
  <2>2. down \in Seq(Message)
    BY <1>2, SeqTypes
  <2> QED BY <1>1, <1>4, <2>1, <2>2, NoneTail DEF Untouched
<1>8. ASSUME NEW r \in Requests, mailbox'[r] = mailbox[r] PROVE SameData(r)
  BY <1>1, <1>8 DEF SameData
<1>9. ASSUME NEW r \in Requests, Live(r)
      PROVE  \E a, b, c, d \in Nat :
               /\ Segment(mailbox[r], r, produced[r] + 1, Passed(r), a)
               /\ Segment(down, r, produced[r] + 1, a, b)
               /\ server # "ended" => /\ Segment(frames, r, produced[r] + 1, b, c)
                                      /\ Segment(rest, r, produced[r] + 1, c, d)
  BY <1>1, <1>2, <1>9 DEF RequestInv, Pipeline
<1>10. \A r \in Requests : Passed(r)' = Passed(r)
  BY <1>1 DEF Passed
<1>11. CASE /\ m = Close /\ reader' = "closing" /\ sink_open' = FALSE
            /\ mailbox' = [r \in Requests |-> IF r \in Released
                                              THEN Append(mailbox[r], Stop)
                                              ELSE mailbox[r]]
  <2>1. ASSUME NEW r \in Requests, r \notin Released PROVE RequestInv(r)'
    <3>1. SameData(r)
      BY <1>8, <1>11, <2>1
    <3>2. Live(r) => Pipeline(r)'
      <4>1. ASSUME Live(r) PROVE \E a \in Nat : Segment(mailbox[r], r, produced[r] + 1, Passed(r), a)'
        BY <1>1, <1>9, <1>10, <3>1, <4>1 DEF SameData
      <4> QED BY <1>11, <4>1 DEF Pipeline
    <3> QED BY <1>1, <1>2, <1>6, <1>7, <1>11, <3>1, <3>2, RequestFlows
  <2>2. ASSUME NEW r \in Requests, r \in Released PROVE RequestInv(r)'
    <3>1. PICK s, t, n : s = mailbox[r] /\ t = mailbox'[r] /\ n = Len(s)
      OBVIOUS
    <3>2. t = Append(s, Stop) /\ actor[r] = "running" /\ RequestInv(r)
      BY <1>2, <1>11, <2>2, <3>1 DEF Released
    <3>3. s \in Seq(Message) /\ Stop \in Message /\ ~ Of(Stop, r)
      BY <1>2, <3>1, SeqTypes, Closed
    <3>4. /\ n \in Nat /\ Len(t) = n + 1 /\ t[n + 1] = Stop
          /\ \A k \in 1..n : t[k] = s[k]
      BY <3>1, <3>2, <3>3, Appended
    <3>5. \A k \in 1..(n + 1) : k = n + 1 \/ k \in 1..n
      BY <3>4
    <3>6. MailboxOwn(r)'
      BY <3>1, <3>2, <3>4, <3>5 DEF RequestInv, MailboxOwn
    <3>7. NewOK(r)' /\ InOrder(r)'
      BY <1>1, <3>2 DEF RequestInv, NewOK, InOrder
    <3>8. StoppedOK(r)'
      BY <1>1, <1>11, <3>2, <1>10 DEF RequestInv, StoppedOK
    <3>9. NoneOf(s, r) => NoneOf(t, r)
      BY <3>2, <3>3, NoneAppend
    <3>10. Unanswered(r)' => Untouched(r)'
      BY <1>1, <1>6, <1>7, <3>1, <3>2, <3>9 DEF RequestInv, Untouched
    <3>11. ASSUME Live(r) PROVE Pipeline(r)'
      <4>1. PICK a \in Nat : Segment(s, r, produced[r] + 1, Passed(r), a)
        BY <1>9, <3>1, <3>11
      <4>2. Segment(t, r, produced[r] + 1, Passed(r), a)
        BY <1>2, <3>2, <3>3, <4>1, SeqTypes, SegAppendOther
      <4>3. Segment(mailbox[r], r, produced[r] + 1, Passed(r), a)'
        BY <1>1, <1>10, <3>1, <4>2
      <4> QED BY <1>11, <4>3 DEF Pipeline
    <3>12. Live(r)' => Live(r)
      BY <1>1 DEF Live
    <3> QED BY <3>6, <3>7, <3>8, <3>10, <3>11, <3>12 DEF RequestInv
  <2> QED BY <1>3, <2>1, <2>2 DEF StreamInv
<1>12. CASE /\ m # Close /\ m.id \in registered /\ actor[m.id] = "running"
            /\ mailbox' = [mailbox EXCEPT ![m.id] = Append(@, m)]
            /\ UNCHANGED <<reader, sink_open>>
  <2>1. PICK q : q = m.id
    OBVIOUS
  <2>2. m \in Response /\ q \in Requests /\ Of(m, q) /\ m # Stop /\ m \in Message
    BY <1>5, <1>12, <2>1, ResponseFields DEF Of, Message
  <2>3. ASSUME NEW r \in Requests, r # q PROVE RequestInv(r)'
    <3>1. SameData(r) /\ ~ Of(m, r)
      BY <1>2, <1>8, <1>12, <2>1, <2>3 DEF TypeOK, Of
    <3>2. ASSUME Live(r) PROVE Pipeline(r)'
      <4>1. PICK a \in Nat, b \in Nat, c \in Nat, d \in Nat :
               /\ Segment(mailbox[r], r, produced[r] + 1, Passed(r), a)
               /\ Segment(down, r, produced[r] + 1, a, b)
               /\ server # "ended" => /\ Segment(frames, r, produced[r] + 1, b, c)
                                      /\ Segment(rest, r, produced[r] + 1, c, d)
        BY <1>9, <3>2
      <4>2. Segment(down', r, produced[r] + 1, a, b)
        BY <1>1, <1>2, <1>4, <3>1, <4>1, SeqTypes, SegHeadOther
      <4>3. Segment(mailbox[r], r, produced[r] + 1, Passed(r), a)'
        BY <1>1, <1>10, <3>1, <4>1 DEF SameData
      <4> QED BY <1>1, <4>1, <4>2, <4>3 DEF Pipeline
    <3> QED BY <1>1, <1>2, <1>6, <1>7, <1>12, <3>1, <3>2, RequestFlows
  <2>4. RequestInv(q)'
    <3>1. PICK s, t, n : s = mailbox[q] /\ t = mailbox'[q] /\ n = Len(s)
      OBVIOUS
    <3>2. t = Append(s, m) /\ RequestInv(q) /\ q \in registered
      BY <1>2, <1>12, <2>1, <2>2, <3>1 DEF TypeOK
    <3>3. s \in Seq(Message) /\ down \in Seq(Message)
      BY <1>2, <2>2, <3>1, SeqTypes
    <3>4. /\ n \in Nat /\ Len(t) = n + 1 /\ t[n + 1] = m
          /\ \A k \in 1..n : t[k] = s[k]
      BY <2>2, <3>1, <3>2, <3>3, Appended
    <3>5. \A k \in 1..(n + 1) : k = n + 1 \/ k \in 1..n
      BY <3>4
    <3>6. MailboxOwn(q)' /\ (StopQueued(mailbox'[q]) => StopQueued(mailbox[q]))
      BY <2>1, <2>2, <3>1, <3>2, <3>4, <3>5 DEF RequestInv, MailboxOwn, StopQueued
    <3>7. NewOK(q)' /\ InOrder(q)'
      BY <1>1, <3>2 DEF RequestInv, NewOK, InOrder
    <3>8. StoppedOK(q)'
      BY <1>1, <1>10, <1>12, <2>2, <3>2, <3>6 DEF RequestInv, StoppedOK
    <3>9. ~ Unanswered(q)'
      BY <1>6, <1>7, <2>2
    <3>10. ASSUME Live(q) PROVE Pipeline(q)'
      <4>1. PICK a \in Nat, b \in Nat, c \in Nat, d \in Nat :
               /\ Segment(s, q, produced[q] + 1, Passed(q), a)
               /\ Segment(down, q, produced[q] + 1, a, b)
               /\ server # "ended" => /\ Segment(frames, q, produced[q] + 1, b, c)
                                      /\ Segment(rest, q, produced[q] + 1, c, d)
        BY <1>9, <2>2, <3>1, <3>10
      <4>2. PICK l \in Nat : /\ Segment(t, q, produced[q] + 1, Passed(q), l)
                             /\ Segment(down', q, produced[q] + 1, l, b)
        <5>1. produced[q] + 1 \in Nat /\ Passed(q) \in Nat
          BY <1>2, <2>2, SeqTypes
        <5> QED BY <1>1, <1>4, <3>2, <3>3, <4>1, <5>1, SegShift
      <4>3. Segment(mailbox[q], q, produced[q] + 1, Passed(q), l)'
        BY <1>1, <1>10, <2>2, <3>1, <4>2
      <4> QED BY <1>1, <4>1, <4>2, <4>3 DEF Pipeline
    <3>11. Live(q)' => Live(q)
      BY <1>1 DEF Live
    <3> QED BY <3>6, <3>7, <3>8, <3>9, <3>10, <3>11 DEF RequestInv
  <2> QED BY <1>3, <2>3, <2>4 DEF StreamInv
<1>13. CASE reader' = "closing" /\ UNCHANGED <<mailbox, sink_open>>
  <2>1. ASSUME NEW r \in Requests PROVE RequestInv(r)'
    <3>1. SameData(r)
      BY <1>8, <1>13
    <3>2. Live(r) => Pipeline(r)'
      <4>1. ASSUME Live(r) PROVE \E a \in Nat : Segment(mailbox[r], r, produced[r] + 1, Passed(r), a)'
        BY <1>1, <1>9, <1>10, <3>1, <4>1 DEF SameData
      <4> QED BY <1>13, <4>1 DEF Pipeline
    <3> QED BY <1>1, <1>2, <1>6, <1>7, <1>13, <3>1, <3>2, RequestFlows
  <2> QED BY <1>3, <2>1 DEF StreamInv
<1> QED BY <1>4, <1>11, <1>12, <1>13 DEF read_frame

-----------------------------------------------------------------------------
(***************************************************************************)
(* Steps of the broker.                                                    *)
(***************************************************************************)

\* What the broker leaves alone.
Client ==
  UNCHANGED <<kind, call, stream, received, actor, mailbox, chan, chan_closed,
              registered, reader, sink_open>>

\* The segments of a stream that somebody may read.
LEMMA Segments ==
  ASSUME StreamInv, NEW r \in Requests, Live(r)
  PROVE  \E a, b, c, d \in Nat :
           /\ Segment(mailbox[r], r, produced[r] + 1, Passed(r), a)
           /\ reader = "loop" => Segment(down, r, produced[r] + 1, a, b)
           /\ reader = "loop" /\ server # "ended" =>
                /\ Segment(frames, r, produced[r] + 1, b, c)
                /\ Segment(rest, r, produced[r] + 1, c, d)
BY DEF StreamInv, RequestInv, Pipeline

\* The future puts the next message in the channel of async frames.
LEMMA SendRestInv ==
  ASSUME Inv, send_rest
  PROVE  StreamInv'
<1>1. /\ server = "stream" /\ frames' = Append(frames, Head(rest)) /\ rest' = Tail(rest)
      /\ server' = IF Len(rest) = 1 THEN "loop" ELSE "stream"
      /\ Client /\ UNCHANGED <<produced, up, down>>
  BY DEF send_rest, Client, appvars, actorvars, clientvars
<1>2. TypeOK /\ UpOnce /\ ServerOK /\ StreamInv /\ \A r \in Requests : RequestInv(r)
  BY DEF Inv, StreamInv
<1>3. rest # << >> /\ rest \in Seq(Response)
  BY <1>1, <1>2 DEF ServerOK, TypeOK
<1>4. UpOnce' /\ ServerOK'
  <2>1. Len(rest) \in Nat \ {0} /\ Len(Tail(rest)) = Len(rest) - 1 /\ Tail(rest) \in Seq(Response)
    BY <1>3, HeadTail
  <2>2. rest' = << >> <=> Len(rest) = 1
    BY <1>1, <2>1
  <2> QED BY <1>1, <1>2, <2>2, UpKept DEF ServerOK, Client
<1>5. ASSUME NEW r \in Requests PROVE RequestInv(r)'
  <2>1. SameData(r) /\ Passed(r)' = Passed(r) /\ (Unanswered(r)' => Unanswered(r)) /\ (InUp(r)' => InUp(r))
    BY <1>1 DEF SameData, Client, Unanswered, InUp, Passed
  <2>2. /\ frames \in Seq(Message) /\ rest \in Seq(Message)
        /\ produced[r] + 1 \in Nat
    BY <1>2, SeqTypes
  <2>3. Unanswered(r)' => NoneOf(down', r) /\ NoneOf(frames', r) /\ NoneOf(rest', r)
    BY <1>1, <1>2, <1>3, <2>1, <2>2, NoneShift DEF RequestInv, Untouched
  <2>4. ASSUME Live(r) PROVE Pipeline(r)'
    <3>1. PICK a \in Nat, b \in Nat, c \in Nat, d \in Nat :
            /\ Segment(mailbox[r], r, produced[r] + 1, Passed(r), a)
            /\ reader = "loop" => Segment(down, r, produced[r] + 1, a, b)
            /\ reader = "loop" /\ server # "ended" =>
                 /\ Segment(frames, r, produced[r] + 1, b, c)
                 /\ Segment(rest, r, produced[r] + 1, c, d)
      BY <1>2, <2>4, Segments
    <3>2. Segment(mailbox[r], r, produced[r] + 1, Passed(r), a)'
      BY <1>1, <2>1, <3>1 DEF Client
    <3>3. CASE reader = "loop"
      <4>1. Segment(frames, r, produced[r] + 1, b, c) /\ Segment(rest, r, produced[r] + 1, c, d)
        BY <1>1, <3>1, <3>3
      <4>2. PICK l \in Nat : /\ Segment(frames', r, produced[r] + 1, b, l)
                             /\ Segment(rest', r, produced[r] + 1, l, d)
        BY <1>1, <1>3, <2>2, <4>1, SegShift
      <4> QED BY <1>1, <3>1, <3>2, <3>3, <4>2 DEF Pipeline, Client
    <3>4. CASE reader # "loop"
      BY <1>1, <3>2, <3>4 DEF Pipeline, Client
    <3> QED BY <3>3, <3>4
  <2> QED BY <1>1, <1>2, <2>1, <2>3, <2>4, RequestFlows DEF Client
<1> QED BY <1>4, <1>5 DEF StreamInv

\* The async frames task writes the next frame, if the socket still takes it.
LEMMA SendFrameInv ==
  ASSUME Inv, send_frame
  PROVE  StreamInv'
<1>1. /\ frames # << >> /\ frames' = Tail(frames)
      /\ down' = IF server = "ended" THEN down ELSE Append(down, Head(frames))
      /\ Client /\ UNCHANGED <<server, rest, produced, up>>
  BY DEF send_frame, Client, appvars, actorvars, clientvars
<1>2. TypeOK /\ UpOnce /\ ServerOK /\ StreamInv /\ \A r \in Requests : RequestInv(r)
  BY DEF Inv, StreamInv
<1>3. UpOnce' /\ ServerOK'
  BY <1>1, <1>2, UpKept DEF ServerOK, Client
<1>4. ASSUME NEW r \in Requests PROVE RequestInv(r)'
  <2>1. SameData(r) /\ Passed(r)' = Passed(r) /\ (Unanswered(r)' => Unanswered(r)) /\ (InUp(r)' => InUp(r))
    BY <1>1 DEF SameData, Client, Unanswered, InUp, Passed
  <2>2. frames \in Seq(Message) /\ down \in Seq(Message) /\ produced[r] + 1 \in Nat
    BY <1>2, SeqTypes
  <2>3. Unanswered(r)' => NoneOf(down', r) /\ NoneOf(frames', r) /\ NoneOf(rest', r)
    BY <1>1, <1>2, <2>1, <2>2, NoneShift DEF RequestInv, Untouched
  <2>4. ASSUME Live(r) PROVE Pipeline(r)'
    <3>1. PICK a \in Nat, b \in Nat, c \in Nat, d \in Nat :
            /\ Segment(mailbox[r], r, produced[r] + 1, Passed(r), a)
            /\ reader = "loop" => Segment(down, r, produced[r] + 1, a, b)
            /\ reader = "loop" /\ server # "ended" =>
                 /\ Segment(frames, r, produced[r] + 1, b, c)
                 /\ Segment(rest, r, produced[r] + 1, c, d)
      BY <1>2, <2>4, Segments
    <3>2. Segment(mailbox[r], r, produced[r] + 1, Passed(r), a)'
      BY <1>1, <2>1, <3>1 DEF Client
    <3>3. CASE reader = "loop" /\ server # "ended"
      <4>1. PICK l \in Nat : /\ Segment(down', r, produced[r] + 1, a, l)
                             /\ Segment(frames', r, produced[r] + 1, l, c)
        BY <1>1, <2>2, <3>1, <3>3, SegShift
      <4> QED BY <1>1, <3>1, <3>2, <3>3, <4>1 DEF Pipeline, Client
    <3>4. CASE ~ (reader = "loop" /\ server # "ended")
      BY <1>1, <3>1, <3>2, <3>4 DEF Pipeline, Client
    <3> QED BY <3>3, <3>4
  <2> QED BY <1>1, <1>2, <2>1, <2>3, <2>4, RequestFlows DEF Client
<1> QED BY <1>3, <1>4 DEF StreamInv

\* The connection loop ends with a Close.
LEMMA ServerCloses ==
  ASSUME Inv, Client, server = "loop", server' = "ended", down' = Append(down, Close),
         UNCHANGED <<rest, frames, produced>>, NEW r \in Requests, InUp(r)' => InUp(r)
  PROVE  RequestInv(r)'
<1>1. TypeOK /\ StreamInv /\ RequestInv(r)
  BY DEF Inv, StreamInv
<1>2. SameData(r) /\ Passed(r)' = Passed(r) /\ (Unanswered(r)' => Unanswered(r))
  BY DEF SameData, Client, Unanswered, Passed
<1>3. down \in Seq(Message) /\ Close \in Message /\ ~ Of(Close, r) /\ produced[r] + 1 \in Nat
  BY <1>1, SeqTypes, Closed
<1>4. Unanswered(r)' => NoneOf(down', r) /\ NoneOf(frames', r) /\ NoneOf(rest', r)
  BY <1>1, <1>2, <1>3, NoneAppend DEF RequestInv, Untouched
<1>5. ASSUME Live(r) PROVE Pipeline(r)'
  <2>1. PICK a \in Nat, b \in Nat :
          /\ Segment(mailbox[r], r, produced[r] + 1, Passed(r), a)
          /\ reader = "loop" => Segment(down, r, produced[r] + 1, a, b)
    BY <1>1, <1>5, Segments
  <2>2. Segment(mailbox[r], r, produced[r] + 1, Passed(r), a)'
    BY <1>2, <2>1 DEF Client
  <2>3. reader = "loop" => Segment(down', r, produced[r] + 1, a, b)
    BY <1>3, <2>1, SegAppendOther
  <2> QED BY <2>2, <2>3 DEF Pipeline, Client
<1> QED BY <1>1, <1>2, <1>4, <1>5, RequestFlows DEF Client

LEMMA TransportErrorInv ==
  ASSUME Inv, transport_error
  PROVE  StreamInv'
<1>1. /\ server = "loop" /\ server' = "ended" /\ down' = Append(down, Close)
      /\ Client /\ UNCHANGED <<rest, frames, produced, up>>
  BY DEF transport_error, Client, appvars, actorvars, clientvars
<1>2. TypeOK /\ UpOnce /\ ServerOK
  BY DEF Inv, StreamInv
<1>3. UpOnce' /\ ServerOK'
  BY <1>1, <1>2, UpKept DEF ServerOK, Client
<1>4. \A r \in Requests : InUp(r)' => InUp(r)
  BY <1>1 DEF InUp
<1>5. ASSUME NEW r \in Requests PROVE RequestInv(r)'
  BY <1>1, <1>4, ServerCloses
<1> QED BY <1>3, <1>5 DEF StreamInv

\* A message of another request is written.
LEMMA OtherReply ==
  ASSUME Inv, Client, NEW q \in Requests, NEW m \in Response, m.id = q, down' = Append(down, m),
         server = "loop", UNCHANGED frames,
         NEW r \in Requests, r # q, InUp(r)' => InUp(r),
         produced'[r] = produced[r], rest' \in Seq(Message), NoneOf(rest', r)
  PROVE  RequestInv(r)'
<1>1. TypeOK /\ StreamInv /\ RequestInv(r)
  BY DEF Inv, StreamInv
<1>2. SameData(r) /\ Passed(r)' = Passed(r) /\ (Unanswered(r)' => Unanswered(r))
  BY DEF SameData, Client, Unanswered, Passed
<1>3. down \in Seq(Message) /\ m \in Message /\ ~ Of(m, r) /\ produced[r] + 1 \in Nat
  BY <1>1, SeqTypes DEF Message, Of
<1>4. Unanswered(r)' => NoneOf(down', r) /\ NoneOf(frames', r) /\ NoneOf(rest', r)
  BY <1>1, <1>2, <1>3, NoneAppend DEF RequestInv, Untouched
<1>5. ASSUME Live(r) PROVE Pipeline(r)'
  <2>1. PICK a \in Nat, b \in Nat, c \in Nat :
          /\ Segment(mailbox[r], r, produced[r] + 1, Passed(r), a)
          /\ reader = "loop" => Segment(down, r, produced[r] + 1, a, b)
          /\ reader = "loop" => Segment(frames, r, produced[r] + 1, b, c)
    BY <1>1, <1>5, Segments
  <2>2. Segment(mailbox[r], r, produced[r] + 1, Passed(r), a)'
    BY <1>2, <2>1 DEF Client
  <2>3. reader = "loop" => Segment(down', r, produced[r] + 1, a, b)
    BY <1>3, <2>1, SegAppendOther
  <2>4. Segment(rest', r, produced[r] + 1, c, c)
    BY <1>3, <1>5, <2>1, SegNone
  <2> QED BY <2>1, <2>2, <2>3, <2>4 DEF Pipeline, Client
<1> QED BY <1>1, <1>2, <1>4, <1>5, RequestFlows DEF Client

\* The messages the future of a stream reply sends.
LEMMA RestSegment ==
  ASSUME NEW q \in Requests, NEW len \in 1..MaxBlocks, NEW s, s = Append(Blocks(q, 2, len), Eos(q))
  PROVE  /\ s \in Seq(Message) /\ s # << >>
         /\ Segment(s, q, len + 1, 1, len + 1)
         /\ \A r \in Requests : r # q => NoneOf(s, r)
<1>1. PICK t : t = Blocks(q, 2, len)
  OBVIOUS
<1>2. MaxBlocks \in Nat /\ len \in Nat /\ len >= 1 /\ len <= MaxBlocks
  BY ConstantsAssumption
<1>3. t \in Seq(Response)
  <2>1. CASE len = 1
    <3>1. t = << >>
      BY <1>1, <2>1 DEF Blocks
    <3>2. << >> \in Seq(Response)
      OBVIOUS
    <3> QED BY <3>1, <3>2
  <2>2. CASE len # 1
    <3>1. 2 \in 1..MaxBlocks
      BY <1>2, <2>2
    <3> QED BY <1>1, <3>1, BlocksType
  <2> QED BY <2>1, <2>2
<1>4. PICK n \in Nat : n + 1 = len
  <2>1. len - 1 \in Nat /\ (len - 1) + 1 = len
    BY <1>2
  <2> QED BY <2>1
<1>5. Len(t) = n /\ \A k \in 1..n : t[k] = Block(q, k + 1)
  <2>1. t = [k \in 1..n |-> Block(q, k + 1)]
    <3>1. len - 2 + 1 = n
      BY <1>2, <1>4
    <3>2. \A k \in 1..n : 2 + k - 1 = k + 1
      BY <1>4
    <3> QED BY <1>1, <3>1, <3>2 DEF Blocks
  <2> QED BY <1>4, <2>1
<1>6. \A k \in 1..n : Of(t[k], q) /\ Rank(t[k], len + 1) = k + 1
  <2> SUFFICES ASSUME NEW k \in 1..n PROVE Of(t[k], q) /\ Rank(t[k], len + 1) = k + 1
    OBVIOUS
  <2>1. t[k] \in Response
    BY <1>3, <1>5
  <2>2. t[k].what = "block" /\ t[k].id = q /\ t[k].n = k + 1
    BY <1>5 DEF Block
  <2> QED BY <2>1, <2>2, ResponseFields DEF Of, Rank
<1>7. Segment(t, q, len + 1, 1, len)
  <2>1. ASSUME NEW x \in Nat, x > 1, x <= len
        PROVE  \E k \in 1..n : Of(t[k], q) /\ Rank(t[k], len + 1) = x
    <3>1. x - 1 \in 1..n /\ (x - 1) + 1 = x
      BY <1>4, <2>1
    <3> QED BY <1>6, <3>1
  <2>2. \A k \in 1..n : Rank(t[k], len + 1) > 1 /\ Rank(t[k], len + 1) <= len
    BY <1>4, <1>6
  <2>3. \A k, l \in 1..n : k < l => Rank(t[k], len + 1) < Rank(t[l], len + 1)
    BY <1>4, <1>6
  <2> QED BY <1>2, <1>5, <2>1, <2>2, <2>3 DEF Segment
<1>8. Eos(q) \in Response /\ Eos(q).what = "eos" /\ Eos(q).id = q
  BY ResponseTypes DEF Eos
<1>9. Of(Eos(q), q) /\ Rank(Eos(q), len + 1) = len + 1 /\ Eos(q) \in Message
  BY <1>8, ResponseFields DEF Of, Rank, Message
<1>10. t \in Seq(Message)
  BY <1>3, SubSeqs DEF Message
<1>11. Segment(s, q, len + 1, 1, len + 1)
  <2>1. len + 1 \in Nat /\ 1 \in Nat
    BY <1>2
  <2> QED BY <1>1, <1>2, <1>7, <1>9, <1>10, <2>1, SegAppend
<1>12. s \in Seq(Message) /\ Len(s) = n + 1
  BY <1>1, <1>5, <1>9, <1>10, Appended
<1>13. s # << >>
  BY <1>4, <1>12
<1>14. ASSUME NEW r \in Requests, r # q PROVE NoneOf(s, r)
  <2>1. NoneOf(t, r)
    BY <1>5, <1>6, <1>14 DEF NoneOf, Of
  <2>2. ~ Of(Eos(q), r)
    BY <1>8, <1>14 DEF Of
  <2> QED BY <1>1, <1>9, <1>10, <2>1, <2>2, NoneAppend
<1> QED BY <1>11, <1>12, <1>13, <1>14

\* The first block is written before the future is polled.
LEMMA FirstBlock ==
  ASSUME TypeOK, NEW q \in Requests, MaxBlocks >= 1
  PROVE  down \o Blocks(q, 1, 1) = Append(down, Block(q, 1)) /\ Block(q, 1) \in Response
<1>1. Blocks(q, 1, 1) = <<Block(q, 1)>>
  <2>1. 1 - 1 + 1 = 1 /\ 1 + 1 - 1 = 1 /\ \A k \in 1..1 : 1 + k - 1 = 1
    OBVIOUS
  <2>2. Blocks(q, 1, 1) = [k \in 1..1 |-> Block(q, 1)]
    BY <2>1 DEF Blocks
  <2> QED BY <2>2
<1>2. 1 \in 1..MaxBlocks
  BY ConstantsAssumption
<1>3. Block(q, 1) \in Response
  BY <1>2, ResponseTypes
<1>4. down \in Seq(Response \cup {Close})
  BY DEF TypeOK
<1>5. PICK m : m = Block(q, 1)
  OBVIOUS
<1>6. down \o <<m>> = Append(down, m)
  BY <1>3, <1>4, <1>5
<1> QED BY <1>1, <1>3, <1>5, <1>6

\* The reply to a stream request: its messages are those of ranks 1 to the last.
LEMMA StreamReply ==
  ASSUME TypeOK, NEW q \in Requests, RequestInv(q), Unanswered(q), ~ Unanswered(q)', Client,
         kind[q] = "stream", call[q] \notin {"new", "send"}, UNCHANGED frames,
         NEW m \in Response, m.id = q, down' = Append(down, m),
         NEW len \in Nat, NEW d \in Nat, produced'[q] = len, Rank(m, len + 1) = 1,
         rest' \in Seq(Message), Segment(rest', q, len + 1, 1, d)
  PROVE  RequestInv(q)'
<1>1. Untouched(q)
  BY DEF RequestInv
<1>2. NewOK(q)' /\ MailboxOwn(q)' /\ InOrder(q)'
  BY DEF RequestInv, NewOK, MailboxOwn, InOrder, Client
<1>3. StoppedOK(q)'
  BY <1>1 DEF RequestInv, StoppedOK, Client, Untouched
<1>4. m \in Message /\ Of(m, q)
  BY ResponseFields DEF Message, Of
<1>5. mailbox[q] \in Seq(Message) /\ down \in Seq(Message) /\ frames \in Seq(Message)
  BY SeqTypes
<1>6. len + 1 \in Nat /\ 0 \in Nat /\ 1 \in Nat /\ 0 + 1 = 1
  OBVIOUS
<1>7. Segment(mailbox[q], q, len + 1, 0, 0) /\ Segment(down, q, len + 1, 0, 0)
  BY <1>1, <1>5, <1>6, SegNone DEF Untouched
<1>8. Segment(down', q, len + 1, 0, 1)
  BY <1>4, <1>5, <1>6, <1>7, SegAppend
<1>9. Segment(frames, q, len + 1, 1, 1)
  BY <1>1, <1>5, <1>6, SegNone DEF Untouched
<1>10. Passed(q)' = 0
  BY <1>1 DEF Untouched, Passed, Client
<1>11. Segment(mailbox[q], q, produced[q] + 1, Passed(q), 0)'
  BY <1>7, <1>10 DEF Client
<1>12. Pipeline(q)'
  BY <1>6, <1>8, <1>9, <1>11 DEF Pipeline
<1> QED BY <1>2, <1>3, <1>12 DEF RequestInv

LEMMA HandleIncomingInv ==
  ASSUME Inv, handle_incoming
  PROVE  StreamInv'
<1>1. /\ server = "loop" /\ up # << >> /\ up' = Tail(up)
      /\ Client /\ UNCHANGED frames
  BY DEF handle_incoming, Client, appvars, actorvars, clientvars
<1>2. TypeOK /\ UpOnce /\ ServerOK /\ StreamInv /\ \A r \in Requests : RequestInv(r)
  BY DEF Inv, StreamInv
<1>3. rest = << >> /\ rest \in Seq(Message)
  <2>1. << >> \in Seq(Message)
    OBVIOUS
  <2> QED BY <1>1, <1>2, <2>1 DEF ServerOK
<1>4. PICK m, n, u : m = Head(up) /\ n = Len(up) /\ u = up'
  OBVIOUS
<1>5. /\ m \in Frame /\ m = up[1] /\ n \in Nat \ {0} /\ Len(u) = n - 1
      /\ \A k \in 1..(n - 1) : u[k] = up[k + 1]
  <2>1. up \in Seq(Frame)
    BY <1>2 DEF TypeOK, Frame
  <2> QED BY <1>1, <1>4, <2>1, HeadTail
<1>6. 1 \in 1..n /\ \A k \in 1..(n - 1) : k + 1 \in 1..n /\ k + 1 # 1
  BY <1>5
<1>7. \A r \in Requests : InUp(r)' => InUp(r)
  BY <1>4, <1>5, <1>6 DEF InUp
<1>8. UpOnce'
  <2>1. ASSUME NEW i \in 1..(n - 1), NEW j \in 1..(n - 1), u[i] = u[j], u[i] # Close
        PROVE  i = j
    <3>1. i + 1 = j + 1
      BY <1>2, <1>4, <1>5, <1>6, <2>1 DEF UpOnce
    <3> QED BY <3>1
  <2>2. \A r \in Requests : call'[r] \in {"new", "send"} => ~ InUp(r)'
    BY <1>1, <1>2, <1>7 DEF UpOnce, Client
  <2> QED BY <1>4, <1>5, <2>1, <2>2 DEF UpOnce
<1>9. CASE m = Close /\ server' = "ended" /\ down' = Append(down, Close) /\ UNCHANGED <<rest, produced>>
  <2>1. ServerOK'
    BY <1>3, <1>9 DEF ServerOK
  <2>2. ASSUME NEW r \in Requests PROVE RequestInv(r)'
    BY <1>1, <1>7, <1>9, ServerCloses
  <2> QED BY <1>8, <2>1, <2>2 DEF StreamInv
<1>10. CASE m # Close
  <2>1. PICK q : q = m.id
    OBVIOUS
  <2>2. q \in Requests /\ m = Request(q)
    BY <1>5, <1>10, <2>1, FrameCases
  <2>3. InUp(q) /\ ~ InUp(q)'
    <3>1. InUp(q)
      BY <1>4, <1>5, <1>6, <2>2 DEF InUp
    <3>2. \A k \in 1..(n - 1) : u[k] # m
      BY <1>2, <1>4, <1>5, <1>6, <1>10 DEF UpOnce
    <3> QED BY <1>4, <1>5, <2>2, <3>1, <3>2 DEF InUp
  <2>4. call[q] \notin {"new", "send"} /\ Unanswered(q) /\ ~ Unanswered(q)'
    BY <1>1, <1>2, <2>2, <2>3 DEF UpOnce, Unanswered, Client
  <2>5. ASSUME NEW what \in {"done", "fail", "eos"}, NEW x, x = [what |-> what, id |-> q]
        PROVE  x \in Response /\ x.id = q /\ \A last : Rank(x, last) = last
    BY <2>2, <2>5 DEF Response, Rank
  <2>6. CASE /\ kind[q] = "simple" /\ UNCHANGED <<server, rest, produced>>
             /\ \E what \in {"done", "fail"} : down' = Append(down, [what |-> what, id |-> q])
    <3>1. PICK what \in {"done", "fail"} : down' = Append(down, [what |-> what, id |-> q])
      BY <2>6
    <3>2. PICK x : x = [what |-> what, id |-> q]
      OBVIOUS
    <3>3. x \in Response /\ x.id = q /\ down' = Append(down, x)
      BY <2>5, <3>1, <3>2
    <3>4. ServerOK'
      BY <1>2, <2>6 DEF ServerOK
    <3>5. ASSUME NEW r \in Requests, r # q PROVE RequestInv(r)'
      <4>1. NoneOf(rest', r) /\ produced'[r] = produced[r] /\ rest' \in Seq(Message)
        BY <1>3, <2>6 DEF NoneOf
      <4> QED BY <1>1, <1>7, <2>2, <3>3, <3>5, <4>1, OtherReply
    <3>6. RequestInv(q)'
      <4>1. SameData(q) /\ ~ Live(q)
        BY <1>1, <2>6 DEF SameData, Live, Client
      <4> QED BY <1>1, <1>2, <1>7, <2>2, <2>4, <4>1, RequestFlows DEF Client
    <3> QED BY <1>8, <3>4, <3>5, <3>6 DEF StreamInv
  <2>7. ASSUME kind[q] = "stream", NEW what \in {"fail", "eos"},
               down' = Append(down, [what |-> what, id |-> q]),
               UNCHANGED <<rest, server, produced>>
        PROVE  StreamInv'
    <3>1. PICK x : x = [what |-> what, id |-> q]
      OBVIOUS
    <3>2. x \in Response /\ x.id = q /\ down' = Append(down, x) /\ \A last : Rank(x, last) = last
      BY <2>5, <2>7, <3>1
    <3>3. ServerOK'
      BY <1>2, <2>7 DEF ServerOK
    <3>4. ASSUME NEW r \in Requests, r # q PROVE RequestInv(r)'
      <4>1. NoneOf(rest', r) /\ produced'[r] = produced[r] /\ rest' \in Seq(Message)
        BY <1>3, <2>7 DEF NoneOf
      <4> QED BY <1>1, <1>7, <2>2, <3>2, <3>4, <4>1, OtherReply
    <3>5. RequestInv(q)'
      <4>1. produced'[q] = 0
        BY <1>2, <2>2, <2>4, <2>7 DEF RequestInv, Untouched
      <4>2. Rank(x, 0 + 1) = 1 /\ 0 \in Nat /\ 1 \in Nat /\ 0 + 1 \in Nat
        BY <3>2
      <4>3. rest' \in Seq(Message) /\ Segment(rest', q, 0 + 1, 1, 1)
        <5>1. rest' \in Seq(Message) /\ NoneOf(rest', q)
          BY <1>3, <2>7 DEF NoneOf
        <5> QED BY <4>2, <5>1, SegNone
      <4> QED BY <1>1, <1>2, <2>2, <2>4, <2>7, <3>2, <4>1, <4>2, <4>3, StreamReply
    <3> QED BY <1>8, <3>3, <3>4, <3>5 DEF StreamInv
  <2>8. ASSUME kind[q] = "stream", NEW len \in 1..MaxBlocks,
               down' = down \o Blocks(q, 1, 1), rest' = Append(Blocks(q, 2, len), Eos(q)),
               produced' = [produced EXCEPT ![q] = len], server' = "stream"
        PROVE  StreamInv'
    <3>1. len \in Nat /\ len + 1 \in Nat /\ MaxBlocks >= 1
      BY <2>8, ConstantsAssumption
    <3>2. PICK x : x = Block(q, 1)
      OBVIOUS
    <3>3. x \in Response /\ x.id = q /\ x.what = "block" /\ x.n = 1 /\ down' = Append(down, x)
      <4>1. x \in Response /\ down' = Append(down, x)
        BY <1>2, <2>2, <2>8, <3>1, <3>2, FirstBlock
      <4> QED BY <3>2, <4>1 DEF Block
    <3>4. /\ rest' \in Seq(Message) /\ rest' # << >> /\ Segment(rest', q, len + 1, 1, len + 1)
          /\ \A r \in Requests : r # q => NoneOf(rest', r)
      BY <2>2, <2>8, RestSegment
    <3>5. produced'[q] = len /\ \A r \in Requests : r # q => produced'[r] = produced[r]
      BY <1>2, <2>2, <2>8 DEF TypeOK
    <3>6. ServerOK'
      BY <2>8, <3>4 DEF ServerOK
    <3>7. ASSUME NEW r \in Requests, r # q PROVE RequestInv(r)'
      BY <1>1, <1>7, <2>2, <3>3, <3>4, <3>5, <3>7, OtherReply
    <3>8. RequestInv(q)'
      <4>1. Rank(x, len + 1) = 1
        BY <3>3 DEF Rank
      <4> QED BY <1>1, <1>2, <2>2, <2>4, <2>8, <3>1, <3>3, <3>4, <3>5, <4>1, StreamReply
    <3> QED BY <1>8, <3>6, <3>7, <3>8 DEF StreamInv
  <2>9. CASE kind[q] = "stream" /\ stream_response(q)
    BY <2>7, <2>8, <2>9 DEF stream_response, Eos
  <2> QED BY <1>4, <1>10, <2>1, <2>6, <2>9 DEF handle_incoming
<1> QED BY <1>4, <1>9, <1>10 DEF handle_incoming

-----------------------------------------------------------------------------
(***************************************************************************)
(* The theorems.                                                           *)
(***************************************************************************)

LEMMA InitInv == Init => Inv
<1> SUFFICES ASSUME Init PROVE Inv
  OBVIOUS
<1>1. << >> \in Seq(Frame) /\ << >> \in Seq(Response) /\ << >> \in Seq(1..MaxBlocks)
  OBVIOUS
<1>2. << >> \in Seq(Response \cup {Stop}) /\ << >> \in Seq(Response \cup {Close})
  OBVIOUS
<1>3. TypeOK
  <2>1. up \in Seq({Request(r) : r \in Requests} \cup {Close})
    BY <1>1 DEF Init, Frame
  <2>2. /\ mailbox \in [Requests -> Seq(Response \cup {Stop})]
        /\ chan \in [Requests -> Seq(1..MaxBlocks)] /\ received \in [Requests -> Seq(1..MaxBlocks)]
    BY <1>1, <1>2 DEF Init
  <2>3. down \in Seq(Response \cup {Close}) /\ rest \in Seq(Response) /\ frames \in Seq(Response)
    BY <1>1, <1>2 DEF Init
  <2>4. produced \in [Requests -> 0..MaxBlocks]
    BY ConstantsAssumption DEF Init
  <2>5. /\ kind \in [Requests -> {"none", "simple", "stream"}]
        /\ call \in [Requests -> {"new", "send", "wait"} \cup Returned]
        /\ actor \in [Requests -> {"none", "running", "gone"}]
        /\ reply \in [Requests -> {"empty", "ok", "fail"}]
        /\ chan_closed \in [Requests -> BOOLEAN]
        /\ stream \in [Requests -> {"none", "open", "dropped", "ended"}]
    BY DEF Init
  <2> QED BY <2>1, <2>2, <2>3, <2>4, <2>5 DEF Init, TypeOK
<1>4. UpOnce /\ ServerOK
  BY DEF Init, UpOnce, InUp, ServerOK
<1>5. ASSUME NEW r \in Requests PROVE RequestInv(r)
  <2>1. Untouched(r) /\ ~ Live(r)
    BY DEF Init, Untouched, NoneOf, Live
  <2>2. NewOK(r) /\ MailboxOwn(r) /\ InOrder(r) /\ StoppedOK(r)
    BY DEF Init, NewOK, MailboxOwn, InOrder, StoppedOK
  <2> QED BY <2>1, <2>2 DEF RequestInv
<1> QED BY <1>3, <1>4, <1>5 DEF Inv, StreamInv

LEMMA StutterInv ==
  ASSUME Inv, UNCHANGED vars
  PROVE  Inv'
<1>1. UNCHANGED <<kind, call, stream, received, shutdown, actor, mailbox, reply, chan,
                  chan_closed, registered, reader, writer, sink_open, server, rest, frames,
                  produced, up, down>>
  BY DEF vars, appvars, actorvars, clientvars, servervars
<1>2. TypeOK'
  BY <1>1 DEF Inv, TypeOK
<1>3. UpOnce' /\ ServerOK'
  BY <1>1 DEF Inv, StreamInv, UpOnce, InUp, ServerOK
<1>4. ASSUME NEW r \in Requests PROVE RequestInv(r)'
  <2>1. RequestInv(r) /\ SameData(r) /\ SamePipes /\ (InUp(r)' => InUp(r))
    BY <1>1 DEF Inv, StreamInv, SameData, SamePipes, InUp
  <2>2. call[r] = "new" => r \notin registered'
    BY <1>1, <2>1 DEF RequestInv, NewOK
  <2> QED BY <1>1, <2>1, <2>2, RequestKept
<1> QED BY <1>2, <1>3, <1>4 DEF Inv, StreamInv

LEMMA NextInv ==
  ASSUME Inv, [Next]_vars
  PROVE  Inv'
<1>1. TypeOK /\ ServerOK
  BY DEF Inv, StreamInv
<1>2. ASSUME NEW r \in Requests, NEW k \in {"simple", "stream"}, before(r, k) PROVE Inv'
  BY <1>1, <1>2, CallTypes, BeforeInv DEF Inv
<1>3. ASSUME NEW r \in Requests, Call(r) PROVE Inv'
  BY <1>1, <1>3, CallTypes, SendInv, ReturnInv DEF Inv, Call
<1>4. ASSUME NEW r \in Requests, wait_for_stop(r) PROVE Inv'
  BY <1>1, <1>4, CallTypes, ReturnInv DEF Inv
<1>5. ASSUME NEW r \in Requests, handle(r) PROVE Inv'
  BY <1>1, <1>5, HandleTypes, HandleInv DEF Inv
<1>6. ASSUME NEW r \in Requests, next_block(r) PROVE Inv'
  BY <1>1, <1>6, AppTypes, NextBlockInv DEF Inv
<1>7. ASSUME NEW r \in Requests, drop_stream(r) PROVE Inv'
  BY <1>1, <1>7, AppTypes, DropStreamInv DEF Inv
<1>8. ASSUME close PROVE Inv'
  BY <1>1, <1>8, AppTypes, CloseInv DEF Inv
<1>9. ASSUME Reader PROVE Inv'
  BY <1>1, <1>9, ReaderTypes, ReadFrameInv, CloseInv DEF Inv, Reader
<1>10. ASSUME ConnectionLoop PROVE Inv'
  BY <1>1, <1>10, ServerTypes, HandleIncomingInv, SendRestInv DEF Inv, ConnectionLoop
<1>11. ASSUME send_frame PROVE Inv'
  BY <1>1, <1>11, ServerTypes, SendFrameInv DEF Inv
<1>12. ASSUME transport_error PROVE Inv'
  BY <1>1, <1>12, ServerTypes, TransportErrorInv DEF Inv
<1> QED
  BY <1>2, <1>3, <1>4, <1>5, <1>6, <1>7, <1>8, <1>9, <1>10, <1>11, <1>12, StutterInv DEF Next

LEMMA InvHolds == Spec => []Inv
BY InitInv, NextInv, PTL DEF Spec

\* Every message, mailbox and state of the connection keeps its type; it rests
\* on the connection loop being in the future of a stream reply exactly when
\* that has something left to send (connection.rs, server.rs, main.rs).
THEOREM TypeCorrect == Spec => []TypeOK
<1>1. Inv => TypeOK
  BY DEF Inv
<1> QED BY <1>1, InvHolds, PTL

LEMMA InvFaithful ==
  ASSUME Inv
  PROVE  StreamFaithful
<1> SUFFICES ASSUME NEW r \in Requests
             PROVE  /\ \A i \in 1..Len(received[r]) : received[r][i] = i
                    /\ stream[r] = "ended" /\ sink_open => Len(received[r]) = produced[r]
  BY DEF StreamFaithful
<1>1. TypeOK /\ InOrder(r) /\ StoppedOK(r)
  BY DEF Inv, StreamInv, RequestInv
<1>2. \A i \in 1..Len(received[r]) : received[r][i] = i
  BY <1>1 DEF InOrder
<1>3. ASSUME stream[r] = "ended", sink_open PROVE Len(received[r]) = produced[r]
  <2>1. kind[r] = "stream" /\ chan[r] = << >> /\ chan_closed[r]
    BY <1>1, <1>3 DEF StoppedOK
  <2>2. Passed(r) = produced[r]
    BY <1>1, <1>3, <2>1 DEF StoppedOK
  <2>3. PICK n \in Nat : n = Len(received[r])
    BY <1>1, SeqTypes
  <2>4. Passed(r) = n + 0
    BY <2>1, <2>3 DEF Passed
  <2> QED BY <2>2, <2>3, <2>4
<1> QED BY <1>2, <1>3

\* For any number of requests and blocks, however the connection loop, the
\* async frames task, the reader, the actors and the application interleave: a
\* stream delivers the blocks in the order the broker produced them, and all of
\* them when it ends on an open connection (BrokerMessageStreamActor, the
\* future of a stream reply and the async frames task of the node).
THEOREM StreamsFaithful == Spec => []StreamFaithful
BY InvHolds, InvFaithful, PTL
=============================================================================
