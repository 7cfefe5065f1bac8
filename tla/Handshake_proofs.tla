-------------------------- MODULE Handshake_proofs --------------------------
(***************************************************************************)
(* Proofs about Handshake, for any users, nonces and frames of the peer.   *)
(***************************************************************************)
EXTENDS Handshake, TLAPS

\* Where the server is in the conversation, in each protocol.
ServerPlace ==
  /\ protocol = "Start" /\ server = "loop" => handled = 0 /\ replies = << >>
  /\ protocol = "Auth" /\ server = "loop" =>
       /\ handled = 1 /\ sent[1].start = "Auth"
       /\ replies = <<ServerHello(nonce)>>
  /\ protocol = "Broker" =>
       /\ Len(replies) >= 1
       /\ server = "loop" => Len(replies) >= 2 /\ replies[2] = AuthResult("Ok")

\* Only the Broker protocol has been promised to the peer.
OkMeansBroker ==
  \A i \in 1..Len(replies) : replies[i] = AuthResult("Ok") => protocol = "Broker"

\* Where the client is.
ClientPlace ==
  /\ client = "ready" => sent = << >> /\ seen = 0
  /\ client = "hello_sent" => Len(sent) = 1 /\ seen = 0
  /\ client = "auth_sent" =>
       /\ Len(sent) = 2 /\ seen = 1
       /\ \E n \in Nonces :
            /\ replies[1] = ServerHello(n)
            /\ sent[2].auth = [user |-> me.user, nonce |-> n, signed |-> me.key]

Inv ==
  /\ TypeOK /\ RepliesInOrder /\ ServedAsSigner /\ Agreement
  /\ ServerPlace /\ OkMeansBroker /\ ClientPlace

-----------------------------------------------------------------------------
(***************************************************************************)
(* What is sent.                                                           *)
(***************************************************************************)

LEMMA AppendFacts ==
  ASSUME NEW S, NEW s \in Seq(S), NEW e \in S
  PROVE  /\ Append(s, e) \in Seq(S)
         /\ Len(s) \in Nat /\ Len(Append(s, e)) = Len(s) + 1
         /\ \A i \in 1..Len(s) : Append(s, e)[i] = s[i]
         /\ Append(s, e)[Len(s) + 1] = e
OBVIOUS

LEMMA AppendTwo ==
  ASSUME NEW S, NEW s \in Seq(S), Len(s) = 1, NEW a \in S, NEW b \in S
  PROVE  /\ Append(Append(s, a), b) \in Seq(S)
         /\ Len(Append(Append(s, a), b)) = 3
         /\ Append(Append(s, a), b)[1] = s[1]
         /\ Append(Append(s, a), b)[2] = a
         /\ Append(Append(s, a), b)[3] = b
<1>1. Append(s, a) \in Seq(S)
  OBVIOUS
<1>2. PICK t \in Seq(S) : t = Append(s, a)
  BY <1>1
<1>3. Len(t) = 2 /\ t[1] = s[1] /\ t[2] = a
  BY <1>2
<1> QED BY <1>2, <1>3

\* What the server sends, and what the client sends.
LEMMA ReplyTypes ==
  /\ Close \in Reply /\ BrokerReply \in Reply
  /\ \A n \in Nonces : ServerHello(n) \in Reply
  /\ \A r \in Results : AuthResult(r) \in Reply
BY DEF Reply

LEMMA FrameTypes ==
  /\ Hello \in Frame /\ Request \in Frame
  /\ \A u \in Users, n \in Nonces, s \in BOOLEAN : Auth(u, n, s) \in Frame
BY DEF Hello, Request, Auth, Frame, ClientAuth

\* The fields by which replies are told apart.
LEMMA ReplyFields ==
  /\ Close.what = "close" /\ BrokerReply.what = "reply"
  /\ \A n : ServerHello(n).what = "hello" /\ ServerHello(n).nonce = n
  /\ \A r : AuthResult(r).what = "result" /\ AuthResult(r).result = r
BY DEF Close, BrokerReply, ServerHello, AuthResult

\* A reply with a given field is one of that kind.
LEMMA ReplyKinds ==
  ASSUME NEW r \in Reply
  PROVE  /\ r.what = "hello" => \E n \in Nonces : r = ServerHello(n)
         /\ r.what = "result" => r.result \in Results /\ r = AuthResult(r.result)
BY ReplyFields DEF Reply

\* AuthProtocolHandler accepts a signed nonce of its own and nothing else.
LEMMA ProcessState ==
  ASSUME TypeOK, NEW m \in ClientAuth \cup {None}
  PROVE  /\ process_state(m).result \in Results
         /\ process_state(m).machine \in {"Ready", "ServerHelloSent", "ClientAuthReceived",
                                          "AuthResultOk", "AuthResultError"}
         /\ process_state(m).result = "Ok" =>
              m = [user |-> m.user, nonce |-> nonce, signed |-> TRUE] /\ m.user \in Users
<1>1. CASE machine # "ServerHelloSent"
  BY <1>1 DEF process_state, TypeOK, Results, AuthErrors
<1>2. CASE machine = "ServerHelloSent" /\ m = None
  BY <1>2 DEF process_state, Results, AuthErrors
<1>3. CASE machine = "ServerHelloSent" /\ m # None
  <2>1. m \in ClientAuth
    BY <1>3
  <2>2. m.user \in Users /\ m.signed \in BOOLEAN
        /\ m = [user |-> m.user, nonce |-> m.nonce, signed |-> m.signed]
    BY <2>1 DEF ClientAuth
  <2> QED BY <1>3, <2>2 DEF process_state, Results, AuthErrors
<1> QED BY <1>1, <1>2, <1>3

-----------------------------------------------------------------------------
(***************************************************************************)
(* The invariant holds at the beginning and is kept by every step.         *)
(***************************************************************************)

LEMMA InitInv == Init => Inv
<1> SUFFICES ASSUME Init PROVE Inv
  OBVIOUS
<1>1. TypeOK
  <2>1. sent \in Seq(Frame \cup {End}) /\ replies \in Seq(Reply)
    BY DEF Init
  <2>2. handled \in 0..Len(sent) /\ seen \in 0..Len(replies)
    BY DEF Init
  <2>3. lost \in BOOLEAN
    BY Zenon DEF Init
  <2> QED BY <2>1, <2>2, <2>3 DEF Init, TypeOK
<1>2. RepliesInOrder /\ OkMeansBroker
  BY DEF Init, RepliesInOrder, OkMeansBroker
<1>3. ServedAsSigner /\ Agreement /\ ServerPlace /\ ClientPlace
  BY DEF Init, ServedAsSigner, Agreement, ServerPlace, ClientPlace
<1> QED BY <1>1, <1>2, <1>3 DEF Inv

\* A step of the peer leaves the server where it is, and adds frames to those it
\* sent: what the server has read stays.
LEMMA PeerKeepsServer ==
  ASSUME Inv, UNCHANGED servervars, TypeOK',
         Len(sent') >= Len(sent), \A i \in 1..Len(sent) : sent'[i] = sent[i]
  PROVE  RepliesInOrder' /\ ServedAsSigner' /\ ServerPlace' /\ OkMeansBroker'
<1>1. RepliesInOrder' /\ OkMeansBroker'
  BY DEF Inv, RepliesInOrder, OkMeansBroker, servervars
<1>2. ServedAsSigner'
  <2> SUFFICES ASSUME protocol = "Broker" PROVE ServedAsSigner'
    BY DEF servervars, ServedAsSigner
  <2>1. handled \in Nat /\ Len(sent) \in Nat /\ handled >= 2 /\ handled <= Len(sent)
    BY DEF Inv, TypeOK, ServedAsSigner
  <2>2. sent'[1] = sent[1] /\ sent'[2] = sent[2]
    BY <2>1
  <2> QED BY <2>1, <2>2 DEF Inv, ServedAsSigner, servervars
<1>3. ServerPlace'
  BY DEF Inv, TypeOK, ServerPlace, servervars
<1> QED BY <1>1, <1>2, <1>3

\* A frame more leaves the earlier ones.
LEMMA SentGrows ==
  ASSUME TypeOK, NEW f \in Frame \cup {End}, sent' = Append(sent, f)
  PROVE  Len(sent') >= Len(sent) /\ \A i \in 1..Len(sent) : sent'[i] = sent[i]
<1>1. PICK s \in Seq(Frame \cup {End}) : s = sent
  BY DEF TypeOK
<1>2. /\ Len(s) \in Nat /\ Len(sent') = Len(s) + 1
      /\ \A i \in 1..Len(s) : sent'[i] = s[i]
  BY <1>1, AppendFacts
<1> QED BY <1>1, <1>2

LEMMA OpenStep == ASSUME Inv, open_broker_connection PROVE Inv'
<1> USE DEF Inv
<1>1. \/ sent' = Append(sent, Hello) /\ client' = "hello_sent"
      \/ sent' = Append(sent, End) /\ client' = "WriteError"
  BY DEF open_broker_connection, Write
<1>2. TypeOK'
  BY <1>1, FrameTypes DEF open_broker_connection, TypeOK, servervars, Failed
<1>3. Len(sent') >= Len(sent) /\ \A i \in 1..Len(sent) : sent'[i] = sent[i]
  <2>1. PICK f \in Frame \cup {End} : sent' = Append(sent, f)
    BY <1>1, FrameTypes
  <2> QED BY <2>1, SentGrows
<1>4. Agreement' /\ ClientPlace'
  BY <1>1, FrameTypes DEF open_broker_connection, TypeOK, ClientPlace, Agreement
<1> QED BY <1>2, <1>3, <1>4, PeerKeepsServer DEF open_broker_connection

LEMMA NoAnswerStep == ASSUME Inv, no_answer PROVE Inv'
<1> USE DEF Inv
<1>1. PICK e \in {"SerializationError", "InvalidState"} : GiveUp(e)
  BY DEF no_answer
<1>2. TypeOK'
  BY <1>1 DEF GiveUp, TypeOK, servervars, Failed, AuthErrors
<1>3. Len(sent') >= Len(sent) /\ \A i \in 1..Len(sent) : sent'[i] = sent[i]
  <2>1. sent' = Append(sent, End)
    BY <1>1 DEF GiveUp
  <2> QED BY <2>1, SentGrows
<1>4. Agreement' /\ ClientPlace'
  BY <1>1 DEF GiveUp, ClientPlace, Agreement
<1> QED BY <1>1, <1>2, <1>3, <1>4, PeerKeepsServer DEF GiveUp

LEMMA ServerHelloStep == ASSUME Inv, server_hello PROVE Inv'
<1> USE DEF Inv
<1>1. PICK n \in Nonces : replies[1] = ServerHello(n)
  BY ReplyKinds DEF server_hello, Answer, ClientPlace, TypeOK
<1>2. PICK f \in Frame :
        /\ f = Auth(me.user, n, me.key)
        /\ f.auth = [user |-> me.user, nonce |-> n, signed |-> me.key]
  BY FrameTypes DEF TypeOK, Auth
<1>3. seen = 0 /\ Len(sent) = 1 /\ seen' = 1 /\ Len(replies) >= 1
  BY DEF server_hello, Answer, ClientPlace, TypeOK
<1>4. \/ sent' = Append(sent, f) /\ client' = "auth_sent"
      \/ sent' = Append(sent, End) /\ client' \in {"WriteError", "SignatureError"}
  BY <1>1, <1>2, <1>3, ReplyFields DEF server_hello, Write
<1>5. TypeOK'
  <2>1. sent' \in Seq(Frame \cup {End}) /\ handled' \in 0..Len(sent')
    <3>1. PICK e \in Frame \cup {End} : sent' = Append(sent, e)
      BY <1>4
    <3> QED BY <3>1, AppendFacts DEF server_hello, TypeOK, servervars
  <2>2. seen' \in 0..Len(replies')
    BY <1>3 DEF server_hello, TypeOK, servervars
  <2>3. client' \in {"auth_sent"} \cup Failed
    BY <1>4 DEF Failed
  <2> QED BY <2>1, <2>2, <2>3 DEF server_hello, TypeOK, servervars
<1>6. Len(sent') >= Len(sent) /\ \A i \in 1..Len(sent) : sent'[i] = sent[i]
  <2>1. PICK e \in Frame \cup {End} : sent' = Append(sent, e)
    BY <1>2, <1>4
  <2> QED BY <2>1, SentGrows
<1>7. Agreement' /\ ClientPlace'
  <2>1. CASE sent' = Append(sent, f) /\ client' = "auth_sent"
    <3>1. Len(sent') = 2 /\ sent'[2] = f
      <4>1. sent \in Seq(Frame \cup {End}) /\ f \in Frame \cup {End}
        BY DEF TypeOK
      <4>2. Len(sent') = Len(sent) + 1 /\ sent'[Len(sent) + 1] = f
        BY <2>1, <4>1, AppendFacts
      <4> QED BY <1>3, <4>2
    <3> QED BY <1>1, <1>2, <1>3, <2>1, <3>1 DEF server_hello, ClientPlace, Agreement, servervars
  <2>2. CASE sent' = Append(sent, End) /\ client' \in {"WriteError", "SignatureError"}
    BY <2>2 DEF ClientPlace, Agreement
  <2> QED BY <1>4, <2>1, <2>2
<1> QED BY <1>5, <1>6, <1>7, PeerKeepsServer DEF server_hello

LEMMA AuthResultStep == ASSUME Inv, auth_result PROVE Inv'
<1> USE DEF Inv
<1>1. seen = 1 /\ seen' = 2 /\ Len(replies) >= 2 /\ replies[2] \in Reply
  BY DEF auth_result, Answer, ClientPlace, TypeOK
<1> DEFINE r == replies[2].result
<1>2. r \in Results /\ replies[2] = AuthResult(r)
  BY <1>1, ReplyKinds DEF auth_result, Answer
<1>3. \/ r = "Ok" /\ client' = "open" /\ sent' = sent
      \/ r # "Ok" /\ client' = r /\ sent' = Append(sent, End)
  BY <1>1 DEF auth_result
<1>4. r = "Ok" => protocol = "Broker" /\ user = me.user /\ me.key
  <2> SUFFICES ASSUME r = "Ok" PROVE protocol = "Broker" /\ user = me.user /\ me.key
    OBVIOUS
  <2>1. protocol = "Broker"
    BY <1>1, <1>2 DEF OkMeansBroker, TypeOK
  <2>2. PICK n \in Nonces :
          sent[2].auth = [user |-> me.user, nonce |-> n, signed |-> me.key]
    BY DEF auth_result, ClientPlace
  <2> QED BY <2>1, <2>2 DEF ServedAsSigner
<1> HIDE DEF r
<1>5. r # "Ok" => r \in AuthErrors /\ r \notin {"open", "ready", "hello_sent", "auth_sent"}
  BY <1>2 DEF Results, AuthErrors
<1>6. TypeOK'
  <2>1. sent' \in Seq(Frame \cup {End}) /\ handled' \in 0..Len(sent')
    BY <1>3 DEF auth_result, TypeOK, servervars
  <2>2. seen' \in 0..Len(replies')
    BY <1>1 DEF auth_result, TypeOK, servervars
  <2>3. client' \in {"open"} \cup Failed
    BY <1>3, <1>5 DEF Failed
  <2> QED BY <2>1, <2>2, <2>3 DEF auth_result, TypeOK, servervars
<1>7. Len(sent') >= Len(sent) /\ \A i \in 1..Len(sent) : sent'[i] = sent[i]
  <2>1. CASE sent' = Append(sent, End)
    BY <2>1, SentGrows
  <2>2. CASE sent' = sent
    BY <2>2 DEF TypeOK
  <2> QED BY <1>3, <2>1, <2>2
<1>8. Agreement' /\ ClientPlace'
  BY <1>3, <1>4, <1>5 DEF auth_result, ClientPlace, Agreement, servervars
<1> QED BY <1>6, <1>7, <1>8, PeerKeepsServer DEF auth_result

LEMMA RequestStep == ASSUME Inv, request \/ foreign_send PROVE Inv'
<1> USE DEF Inv
<1>1. PICK f \in Frame \cup {End} : sent' = Append(sent, f)
  BY FrameTypes, ConstantsAssumption DEF request, foreign_send
<1>2. client \in {"open", "foreign"} /\ UNCHANGED <<client, me, seen, servervars, lost>>
  BY DEF request, foreign_send
<1>3. TypeOK'
  BY <1>1, <1>2 DEF TypeOK, servervars
<1>4. Len(sent') >= Len(sent) /\ \A i \in 1..Len(sent) : sent'[i] = sent[i]
  BY <1>1, SentGrows
<1>5. Agreement' /\ ClientPlace'
  BY <1>2 DEF Agreement, ClientPlace, servervars
<1> QED BY <1>2, <1>3, <1>4, <1>5, PeerKeepsServer

LEMMA TransportStep == ASSUME Inv, transport_error PROVE Inv'
<1> USE DEF Inv
<1>1. TypeOK'
  BY DEF transport_error, TypeOK, peervars, servervars
<1>2. Agreement' /\ ClientPlace'
  BY DEF transport_error, Agreement, ClientPlace, peervars, servervars
<1> QED BY <1>1, <1>2, PeerKeepsServer DEF transport_error, TypeOK, peervars

\* A step of the server adds replies, and leaves the client where it is.
LEMMA ServerKeepsClient ==
  ASSUME Inv, UNCHANGED peervars, TypeOK',
         Len(replies') >= Len(replies), \A i \in 1..Len(replies) : replies'[i] = replies[i],
         protocol = "Broker" => protocol' = "Broker" /\ user' = user
  PROVE  ClientPlace' /\ Agreement'
<1>1. Agreement'
  BY DEF Inv, Agreement, peervars
<1>2. client = "auth_sent" => replies'[1] = replies[1]
  BY DEF Inv, ClientPlace, TypeOK
<1>3. ClientPlace'
  BY <1>2 DEF Inv, ClientPlace, peervars
<1> QED BY <1>1, <1>3

\* One more reply, each kind in its place.
LEMMA OneMoreReply ==
  ASSUME Inv, server = "loop", NEW r \in Reply, replies' = Append(replies, r),
         r.what = "close" => server' = "ended",
         r.what = "hello" => Len(replies) = 0,
         r.what = "result" => Len(replies) = 1,
         r.what = "reply" => Len(replies) >= 2 /\ replies[2] = AuthResult("Ok"),
         protocol = "Broker" => protocol' = "Broker",
         r = AuthResult("Ok") => protocol' = "Broker"
  PROVE  /\ replies' \in Seq(Reply) /\ Len(replies') = Len(replies) + 1
         /\ \A i \in 1..Len(replies) : replies'[i] = replies[i]
         /\ RepliesInOrder' /\ OkMeansBroker'
<1>1. replies \in Seq(Reply) /\ Len(replies) \in Nat
  BY DEF Inv, TypeOK
<1>2. /\ replies' \in Seq(Reply) /\ Len(replies') = Len(replies) + 1
      /\ \A i \in 1..Len(replies) : replies'[i] = replies[i]
      /\ replies'[Len(replies) + 1] = r
  BY <1>1, AppendFacts
<1>3. ASSUME NEW i \in 1..Len(replies')
      PROVE  /\ replies'[i].what = "hello" => i = 1
             /\ replies'[i].what = "result" => i = 2
             /\ replies'[i].what = "reply" => i > 2 /\ replies'[2] = AuthResult("Ok")
             /\ replies'[i].what = "close" => i = Len(replies') /\ server' = "ended"
             /\ replies'[i] = AuthResult("Ok") => protocol' = "Broker"
  <2>1. CASE i \in 1..Len(replies)
    <3>1. replies'[i] = replies[i] /\ (i > 2 => replies'[2] = replies[2])
      BY <1>1, <1>2, <2>1
    <3> QED BY <2>1, <3>1 DEF Inv, RepliesInOrder, OkMeansBroker
  <2>2. CASE i = Len(replies) + 1
    BY <1>1, <1>2, <2>2
  <2> QED BY <1>1, <1>2, <2>1, <2>2
<1> QED BY <1>2, <1>3 DEF RepliesInOrder, OkMeansBroker

LEMMA EndOfStreamStep == ASSUME Inv, end_of_stream PROVE Inv'
<1> USE DEF Inv
<1>1. /\ server = "loop" /\ server' = "ended" /\ replies' = Append(replies, Close)
      /\ UNCHANGED <<handled, protocol, machine, nonce, user, lost>>
      /\ UNCHANGED peervars
  BY DEF end_of_stream, Break
<1>2. /\ replies' \in Seq(Reply) /\ Len(replies') = Len(replies) + 1
      /\ \A i \in 1..Len(replies) : replies'[i] = replies[i]
      /\ RepliesInOrder' /\ OkMeansBroker'
  BY <1>1, ReplyTypes, ReplyFields, OneMoreReply
<1>3. TypeOK'
  BY <1>1, <1>2 DEF TypeOK, peervars
<1>4. Len(replies') >= Len(replies)
  BY <1>2 DEF TypeOK
<1>5. ClientPlace' /\ Agreement'
  BY <1>1, <1>2, <1>3, <1>4, ServerKeepsClient
<1>6. protocol = "Broker" => replies'[1] = replies[1]
  BY <1>2 DEF ServerPlace, TypeOK
<1>7. ServedAsSigner' /\ ServerPlace'
  BY <1>1, <1>2, <1>6 DEF ServedAsSigner, ServerPlace, TypeOK, peervars
<1> QED BY <1>2, <1>3, <1>5, <1>7

LEMMA BrokerMessageStep == ASSUME Inv, broker_message PROVE Inv'
<1> USE DEF Inv
<1>1. PICK r \in {BrokerReply, Close} :
        /\ replies' = Append(replies, r)
        /\ server' = IF r = Close THEN "ended" ELSE "loop"
  BY ReplyFields DEF broker_message, SendAndRead, Break
<1>2. /\ server = "loop" /\ protocol = "Broker" /\ handled' = handled + 1
      /\ handled' \in 0..Len(sent)
      /\ UNCHANGED <<protocol, machine, nonce, user, lost>> /\ UNCHANGED peervars
  BY DEF broker_message, Take, TypeOK
<1>3. r \in Reply /\ r.what = IF r = Close THEN "close" ELSE "reply"
  BY <1>1, ReplyTypes, ReplyFields
<1>4. Len(replies) >= 2 /\ replies[2] = AuthResult("Ok")
  BY <1>2 DEF ServerPlace
<1>5. r # AuthResult("Ok")
  BY <1>3, ReplyFields
<1>6. /\ replies' \in Seq(Reply) /\ Len(replies') = Len(replies) + 1
      /\ \A i \in 1..Len(replies) : replies'[i] = replies[i]
      /\ RepliesInOrder' /\ OkMeansBroker'
  BY <1>1, <1>2, <1>3, <1>4, <1>5, OneMoreReply
<1>7. TypeOK'
  BY <1>1, <1>2, <1>6 DEF TypeOK, peervars
<1>8. Len(replies) \in Nat /\ Len(replies') >= Len(replies)
  BY <1>6 DEF TypeOK
<1>9. ClientPlace' /\ Agreement'
  BY <1>2, <1>6, <1>7, <1>8, ServerKeepsClient
<1>10. replies'[1] = replies[1] /\ replies'[2] = replies[2]
  BY <1>4, <1>6, <1>8
<1>11. ServerPlace'
  BY <1>1, <1>2, <1>4, <1>6, <1>8, <1>10 DEF ServerPlace
<1>12. ServedAsSigner'
  BY <1>2, <1>10 DEF ServedAsSigner, TypeOK, peervars
<1> QED BY <1>6, <1>7, <1>9, <1>11, <1>12

\* The first frame.
LEMMA StartStep == ASSUME Inv, start_protocol PROVE Inv'
<1> USE DEF Inv
<1>1. /\ server = "loop" /\ protocol = "Start" /\ handled = 0 /\ replies = << >>
      /\ handled' = 1 /\ 1 <= Len(sent) /\ CurrentFrame = sent[1]
      /\ lost' = lost /\ UNCHANGED peervars
  BY DEF start_protocol, Take, ServerPlace, CurrentFrame, TypeOK
<1>2. seen = 0
  BY <1>1 DEF TypeOK
<1>3. client \notin {"auth_sent", "open"}
  BY <1>1, <1>2 DEF ClientPlace, Agreement
<1>4. ClientPlace' /\ Agreement'
  BY <1>2, <1>3 DEF ClientPlace, Agreement, start_protocol, peervars
<1>5. ASSUME TypeOK', protocol' # "Broker",
             \/ protocol' # "Auth" /\ server' # "loop" /\ replies' = << >>
             \/ server' = "ended" /\ replies' = <<Close>>
             \/ /\ server' = "loop" /\ protocol' = "Auth" /\ sent[1].start = "Auth"
                /\ replies' = <<ServerHello(nonce')>>
      PROVE  Inv'
  <2>1. RepliesInOrder' /\ OkMeansBroker'
    BY <1>5, ReplyFields DEF RepliesInOrder, OkMeansBroker
  <2>2. ServedAsSigner' /\ ServerPlace'
    BY <1>1, <1>5 DEF ServedAsSigner, ServerPlace, peervars
  <2> QED BY <1>4, <1>5, <2>1, <2>2
<1>6. ASSUME replies' \in Seq(Reply)
      PROVE  handled' \in 0..Len(sent') /\ seen' \in 0..Len(replies') /\ sent' = sent
             /\ me' = me /\ client' = client
  BY <1>1, <1>2, <1>6 DEF TypeOK, peervars
<1>7. CASE handle_init
  <2>1. PICK n \in Nonces : nonce' = n /\ SendAndRead(ServerHello(n))
    BY <1>7 DEF handle_init
  <2>2. \/ server' = "loop" /\ replies' = <<ServerHello(n)>>
        \/ server' = "ended" /\ replies' = <<Close>>
    BY <1>1, <2>1 DEF SendAndRead, Break
  <2>3. replies' \in Seq(Reply)
    <3>1. PICK r \in Reply : replies' = Append(replies, r)
      BY <2>1, ReplyTypes DEF SendAndRead, Break
    <3> QED BY <3>1, AppendFacts DEF TypeOK
  <2>4. TypeOK'
    BY <1>1, <1>6, <1>7, <2>1, <2>2, <2>3 DEF handle_init, TypeOK
  <2> QED BY <1>1, <1>5, <1>7, <2>1, <2>2, <2>4 DEF handle_init
<1>8. CASE handle_ext
  <2>1. TypeOK'
    BY <1>1, <1>6, <1>8 DEF handle_ext, TypeOK
  <2> QED BY <1>1, <1>5, <1>8, <2>1 DEF handle_ext
<1>9. CASE not_a_start
  <2>1. server' = "ended" /\ replies' = <<Close>> /\ replies' \in Seq(Reply)
    BY <1>1, <1>9, ReplyTypes DEF not_a_start, Break
  <2>2. TypeOK'
    BY <1>1, <1>6, <1>9, <2>1 DEF not_a_start, TypeOK
  <2> QED BY <1>1, <1>5, <1>9, <2>1, <2>2 DEF not_a_start
<1> QED BY <1>7, <1>8, <1>9 DEF start_protocol

\* A failure is reported after the ServerHello, and the connection closed.
LEMMA ReportThenClose ==
  ASSUME Inv, Len(replies) = 1, NEW e, e # "Ok", AuthResult(e) \in Reply,
         replies' = Append(Append(replies, AuthResult(e)), Close),
         server' = "ended", replies[1] = ServerHello(nonce)
  PROVE  /\ replies' \in Seq(Reply) /\ Len(replies') >= 1
         /\ replies'[1] = ServerHello(nonce) /\ RepliesInOrder' /\ OkMeansBroker'
<1>1. replies \in Seq(Reply) /\ Close \in Reply
  BY ReplyTypes DEF Inv, TypeOK
<1>2. PICK r \in Reply : r = AuthResult(e)
  OBVIOUS
<1>3. /\ replies' \in Seq(Reply) /\ Len(replies') = 3
      /\ replies'[1] = replies[1] /\ replies'[2] = r /\ replies'[3] = Close
  <2>1. replies' = Append(Append(replies, r), Close)
    BY <1>2
  <2> QED BY <1>1, <2>1, AppendTwo
<1>4. /\ replies'[1].what = "hello" /\ replies'[2].what = "result"
      /\ replies'[2].result # "Ok" /\ replies'[3].what = "close"
  BY <1>2, <1>3, ReplyFields
<1>5. \A i \in 1..Len(replies') : i = 1 \/ i = 2 \/ i = 3
  BY <1>3
<1>6. RepliesInOrder'
  BY <1>3, <1>4, <1>5 DEF RepliesInOrder
<1>7. OkMeansBroker'
  BY <1>3, <1>4, <1>5, ReplyFields DEF OkMeansBroker
<1> QED BY <1>3, <1>6, <1>7

\* The second frame.
LEMMA HandleIncomingStep == ASSUME Inv, handle_incoming PROVE Inv'
<1> USE DEF Inv
<1>1. /\ server = "loop" /\ protocol = "Auth" /\ nonce \in Nonces
      /\ handled = 1 /\ handled' = 2 /\ 2 <= Len(sent) /\ sent[1].start = "Auth"
      /\ CurrentFrame = sent[2] /\ sent[2] # End
      /\ replies = <<ServerHello(nonce)>> /\ Len(replies) = 1
      /\ nonce' = nonce /\ lost' = lost /\ UNCHANGED peervars
  BY DEF handle_incoming, Take, ServerPlace, CurrentFrame, TypeOK
<1> DEFINE m == sent[2].auth
           out == process_state(m)
<1>2. m \in ClientAuth \cup {None}
  <2>1. sent[2] \in Frame
    BY <1>1 DEF TypeOK
  <2> QED BY <2>1 DEF Frame
<1>3. /\ out.result \in Results
      /\ out.machine \in {"Ready", "ServerHelloSent", "ClientAuthReceived",
                         "AuthResultOk", "AuthResultError"}
      /\ out.result = "Ok" =>
           m = [user |-> m.user, nonce |-> nonce, signed |-> TRUE] /\ m.user \in Users
  BY <1>2, ProcessState
<1>4. /\ machine' = out.machine
      /\ \/ /\ out.result = "Ok" /\ user' = m.user /\ protocol' = "Broker"
            /\ SendAndRead(AuthResult("Ok"))
         \/ /\ out.result # "Ok" /\ SendAndBreak(AuthResult(out.result))
            /\ user' = user /\ protocol' = protocol
  BY <1>1 DEF handle_incoming
<1> HIDE DEF out
<1>5. ASSUME replies' \in Seq(Reply), Len(replies') >= 1, replies'[1] = ServerHello(nonce),
             server' \in {"loop", "ended"}
      PROVE  TypeOK' /\ ClientPlace' /\ Agreement'
  <2>1. seen' \in 0..Len(replies') /\ handled' \in 0..Len(sent') /\ sent' = sent
        /\ me' = me /\ client' = client
    BY <1>1, <1>5 DEF TypeOK, peervars
  <2>2. TypeOK'
    BY <1>1, <1>3, <1>4, <1>5, <2>1 DEF TypeOK
  <2>3. \A i \in 1..Len(replies) : replies'[i] = replies[i]
    BY <1>1, <1>5
  <2>4. ClientPlace' /\ Agreement'
    BY <1>1, <1>5, <2>2, <2>3, ServerKeepsClient
  <2> QED BY <2>2, <2>4
<1>6. CASE out.result = "Ok"
  <2>1. user' = m.user /\ protocol' = "Broker" /\ SendAndRead(AuthResult("Ok"))
    BY <1>4, <1>6
  <2>2. PICK r \in {AuthResult("Ok"), Close} :
          /\ replies' = Append(replies, r)
          /\ server' = IF r = Close THEN "ended" ELSE "loop"
    BY <2>1, ReplyFields DEF SendAndRead, Break
  <2>3. r \in Reply /\ r.what = IF r = Close THEN "close" ELSE "result"
    BY <2>2, ReplyTypes, ReplyFields DEF Results
  <2>4. /\ replies' \in Seq(Reply) /\ Len(replies') = Len(replies) + 1
        /\ \A i \in 1..Len(replies) : replies'[i] = replies[i]
        /\ RepliesInOrder' /\ OkMeansBroker'
    BY <1>1, <2>1, <2>2, <2>3, OneMoreReply
  <2>5. /\ Len(replies') = 2 /\ replies'[1] = ServerHello(nonce)
        /\ replies'[2] = r
    BY <1>1, <2>2, <2>3, <2>4, AppendFacts DEF TypeOK
  <2>6. ServerPlace'
    BY <2>1, <2>2, <2>5 DEF ServerPlace
  <2>7. ServedAsSigner'
    BY <1>1, <1>3, <1>6, <2>1, <2>5 DEF ServedAsSigner, peervars
  <2> QED BY <1>5, <2>2, <2>4, <2>5, <2>6, <2>7
<1>7. CASE out.result # "Ok"
  <2>1. protocol' = "Auth" /\ SendAndBreak(AuthResult(out.result))
    BY <1>1, <1>4, <1>7
  <2>2. server' = "ended" /\ protocol' # "Broker"
    BY <2>1 DEF SendAndBreak, Break
  <2>3. /\ replies' \in Seq(Reply) /\ Len(replies') >= 1
        /\ replies'[1] = ServerHello(nonce) /\ RepliesInOrder' /\ OkMeansBroker'
    <3>1. CASE replies' = Append(replies, Close)
      <4>1. /\ replies' \in Seq(Reply) /\ Len(replies') = Len(replies) + 1
            /\ \A i \in 1..Len(replies) : replies'[i] = replies[i]
            /\ RepliesInOrder' /\ OkMeansBroker'
        BY <1>1, <2>2, <3>1, ReplyTypes, ReplyFields, OneMoreReply
      <4> QED BY <1>1, <4>1
    <3>2. CASE replies' = Append(Append(replies, AuthResult(out.result)), Close)
      <4>1. AuthResult(out.result) \in Reply
        BY <1>3, ReplyTypes
      <4> QED BY <1>1, <1>7, <2>2, <3>2, <4>1, ReportThenClose
    <3> QED BY <2>1, <3>1, <3>2 DEF SendAndBreak, Break
  <2>4. ServerPlace' /\ ServedAsSigner'
    BY <2>1, <2>2 DEF ServerPlace, ServedAsSigner
  <2> QED BY <1>5, <2>2, <2>3, <2>4
<1> QED BY <1>6, <1>7

LEMMA NextInv == Inv /\ [Next]_vars => Inv'
<1> SUFFICES ASSUME Inv, [Next]_vars PROVE Inv'
  OBVIOUS
<1>1. CASE ClientNext
  BY <1>1, OpenStep, NoAnswerStep, ServerHelloStep, AuthResultStep, RequestStep DEF ClientNext
<1>2. CASE ServerNext
  BY <1>2, StartStep, HandleIncomingStep, BrokerMessageStep, EndOfStreamStep DEF ServerNext
<1>3. CASE transport_error
  BY <1>3, TransportStep
<1>4. CASE UNCHANGED vars
  <2>1. TypeOK'
    BY <1>4 DEF vars, peervars, servervars, Inv, TypeOK
  <2>2. Agreement' /\ ClientPlace'
    BY <1>4 DEF vars, peervars, servervars, Inv, Agreement, ClientPlace
  <2> QED BY <1>4, <2>1, <2>2, PeerKeepsServer DEF vars, peervars, Inv, TypeOK
<1> QED BY <1>1, <1>2, <1>3, <1>4 DEF Next

LEMMA InvHolds == Spec => []Inv
<1> QED BY InitInv, NextInv, PTL DEF Spec

-----------------------------------------------------------------------------
(***************************************************************************)
(* The theorems.                                                           *)
(***************************************************************************)

\* The variables of the client, the connection and the server keep their types;
\* the Broker protocol has a user and the Auth protocol a nonce, which the
\* code unwraps.
THEOREM TypeCorrect == Spec => []TypeOK
BY InvHolds, PTL DEF Inv

\* Whatever a peer sends, the server serves requests only for the user whose key
\* signed the nonce of this connection (ProtocolHandler, AuthProtocolHandler).
THEOREM ServesTheSigner == Spec => []ServedAsSigner
BY InvHolds, PTL DEF Inv

\* The replies of connection_loop come in the order of the protocol.
THEOREM RepliesOrdered == Spec => []RepliesInOrder
BY InvHolds, PTL DEF Inv

\* When open_broker_connection returns a connection, the server works for the
\* same user, whose key the application had.
THEOREM BothAgree == Spec => []Agreement
BY InvHolds, PTL DEF Inv
=============================================================================
