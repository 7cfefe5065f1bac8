----------------------------- MODULE Handshake -----------------------------
(***************************************************************************)
(* How a connection to a broker begins: open_broker_connection on the      *)
(* client (lofire-broker connection.rs), the protocols Start, Auth and     *)
(* Broker of the server's ProtocolHandler (server.rs, auth.rs), and the    *)
(* connection loop that carries their frames (lofire-node main.rs).        *)
(*                                                                         *)
(* The peer of the server is the client of this repository, or another one *)
(* that sends frames in any order.  A frame is what each of the three      *)
(* parsers makes of it, because the bytes carry no type: the bytes of a    *)
(* ClientAuth, say, begin like those of a ClientHello.  `sent' and         *)
(* `replies' are the two directions of the socket since the beginning,     *)
(* `handled' and `seen' how far each end has read.                         *)
(***************************************************************************)
EXTENDS Naturals, Sequences

CONSTANTS
  Users,          \* public keys
  Nonces,         \* what getrandom may return
  None,           \* the absent Option, and what a parser rejects
  ForeignFrames,  \* frames another client may send
  MaxFrames       \* bound on the frames a peer sends

ClientAuth == [user : Users, nonce : Nonces, signed : BOOLEAN]
Frame == [start : {"Auth", "Ext", None},
          auth : ClientAuth \cup {None},
          broker : BOOLEAN]

ASSUME ConstantsAssumption ==
  /\ None \notin Users \cup Nonces \cup ClientAuth \cup {"Auth", "Ext"}
  /\ ForeignFrames \subseteq Frame
  /\ MaxFrames \in Nat

VARIABLES
  client,       \* where open_broker_connection is, or what it returned
  me,           \* the user and whether the private key given is the user's
  sent,         \* frames written by the peer
  handled,      \* number of them the server has taken
  replies,      \* frames written by the server
  seen,         \* number of them the client has read
  lost,         \* the transport broke
  server,       \* the connection loop
  protocol,     \* ProtocolHandler.protocol
  machine,      \* AuthProtocolHandler.machine
  nonce,        \* AuthProtocolHandler.nonce
  user          \* AuthProtocolHandler.user, then BrokerProtocolHandler.user

peervars == <<client, me, sent, seen>>
servervars == <<handled, replies, server, protocol, machine, nonce, user>>
vars == <<peervars, servervars, lost>>

\* End: a websocket Close, or the end of the transport of a dropped socket.
End == [start |-> "End", auth |-> None, broker |-> FALSE]
Close == [what |-> "close"]
ServerHello(n) == [what |-> "hello", nonce |-> n]
AuthResult(r) == [what |-> "result", result |-> r]
BrokerReply == [what |-> "reply"]

AuthErrors == {"SerializationError", "AccessDenied", "InvalidState"}
Failed == AuthErrors \cup {"WriteError", "SignatureError"}
Results == AuthErrors \cup {"Ok"}
Reply == {Close, BrokerReply} \cup {ServerHello(n) : n \in Nonces}
           \cup {AuthResult(r) : r \in Results}

TypeOK ==
  /\ client \in {"foreign", "ready", "hello_sent", "auth_sent", "open"} \cup Failed
  /\ me \in [user : Users, key : BOOLEAN]
  /\ sent \in Seq(Frame \cup {End})
  /\ handled \in 0..Len(sent)
  /\ replies \in Seq(Reply)
  /\ seen \in 0..Len(replies)
  /\ lost \in BOOLEAN
  /\ server \in {"loop", "ended", "panicked"}
  /\ protocol \in {"Start", "Auth", "Broker", "Ext"}
  /\ machine \in {"Ready", "ServerHelloSent", "ClientAuthReceived",
                  "AuthResultOk", "AuthResultError"}
  /\ nonce \in Nonces \cup {None}
  /\ user \in Users \cup {None}
  /\ protocol = "Broker" => user \in Users
  /\ protocol = "Auth" => nonce \in Nonces

Init ==
  /\ client \in {"foreign", "ready"}
  /\ me \in [user : Users, key : BOOLEAN]
  /\ sent = << >> /\ handled = 0
  /\ replies = << >> /\ seen = 0
  /\ lost = FALSE
  /\ server = "loop"
  /\ protocol = "Start"
  /\ machine = "Ready"
  /\ nonce = None /\ user = None

-----------------------------------------------------------------------------
(***************************************************************************)
(* The client.                                                             *)
(***************************************************************************)

\* writer.send, which fails on a broken transport; a write that the
\* transport loses later succeeds.
Write(f, next) ==
  \/ /\ sent' = Append(sent, f)
     /\ client' = next
  \/ /\ lost
     /\ client' = "WriteError"
     /\ sent' = Append(sent, End)

Hello == [start |-> "Auth", auth |-> None, broker |-> FALSE]

open_broker_connection ==
  /\ client = "ready"
  /\ Write(Hello, "hello_sent")
  /\ UNCHANGED <<me, seen, servervars, lost>>

\* The stream the application gives turns a Close, or an error of the
\* transport, into an empty frame, which no parser accepts: `?' returns and
\* drops both halves of the socket.
Unreadable == IF seen < Len(replies) THEN replies[seen + 1] = Close ELSE lost

\* reader.next() is None: the stream has ended.
NoAnswer == seen = Len(replies) /\ lost

\* Both ways of giving up end the connection for the server.
GiveUp(e) ==
  /\ client' = e
  /\ sent' = Append(sent, End)
  /\ UNCHANGED <<me, seen, servervars, lost>>

no_answer ==
  /\ client \in {"hello_sent", "auth_sent"}
  /\ \/ Unreadable /\ GiveUp("SerializationError")
     \/ NoAnswer /\ GiveUp("InvalidState")

Answer(w) == seen < Len(replies) /\ replies[seen + 1].what = w

\* ServerHello: sign the nonce.  The keys are not compared: with another
\* private key than the user's the signature is wrong.  Bytes that are no
\* keys at all are an error, and `?' returns.
Auth(u, n, s) == [start |-> "Auth",
                  auth |-> [user |-> u, nonce |-> n, signed |-> s],
                  broker |-> FALSE]

server_hello ==
  /\ client = "hello_sent" /\ Answer("hello")
  /\ seen' = seen + 1
  /\ \/ Write(Auth(me.user, replies[seen + 1].nonce, me.key), "auth_sent")
     \/ client' = "SignatureError" /\ sent' = Append(sent, End)
  /\ UNCHANGED <<me, servervars, lost>>

\* Mutant: any answer to ClientAuth is taken for a success.
auth_result_unread ==
  /\ client = "auth_sent" /\ Answer("result")
  /\ seen' = seen + 1
  /\ client' = "open"
  /\ UNCHANGED <<sent, me, servervars, lost>>

auth_result ==
  /\ client = "auth_sent" /\ Answer("result")
  /\ seen' = seen + 1
  /\ LET r == replies[seen + 1].result IN
       \/ r = "Ok" /\ client' = "open" /\ UNCHANGED sent
       \/ r # "Ok" /\ client' = r /\ sent' = Append(sent, End)
  /\ UNCHANGED <<me, servervars, lost>>

\* A request, once the connection is open.
Request == [start |-> None, auth |-> None, broker |-> TRUE]
request ==
  /\ client = "open" /\ Len(sent) < MaxFrames
  /\ sent' = Append(sent, Request)
  /\ UNCHANGED <<client, me, seen, servervars, lost>>

\* Another client.
foreign_send ==
  /\ client = "foreign" /\ Len(sent) < MaxFrames
  /\ \A i \in 1..Len(sent) : sent[i] # End
  /\ \E f \in ForeignFrames \cup {End} : sent' = Append(sent, f)
  /\ UNCHANGED <<client, me, seen, servervars, lost>>

-----------------------------------------------------------------------------
(***************************************************************************)
(* The server: connection_loop and ProtocolHandler::handle_incoming.       *)
(***************************************************************************)

\* The loop takes the next frame.
CurrentFrame == sent[handled + 1]
Take ==
  /\ server = "loop"
  /\ handled < Len(sent) /\ CurrentFrame # End
  /\ handled' = handled + 1

\* Break: a Close is sent and the loop ends.
Break == server' = "ended" /\ replies' = Append(replies, Close)

\* Mutant: the loop ends without a word.
SendAndBreak_silent(r) == server' = "ended" /\ UNCHANGED replies

\* Mutant: an error code does not end the loop.
SendAndBreak_on(r) == server' = "loop" /\ replies' = Append(replies, r)

\* Send a reply, then break because its error code is not 0, or because it
\* could not be sent.
SendAndBreak(r) ==
  \/ server' = "ended" /\ replies' = Append(Append(replies, r), Close)
  \/ lost /\ Break

\* Send a reply and read on; a failure to send ends the loop.
SendAndRead(r) ==
  \/ server' = "loop" /\ replies' = Append(replies, r)
  \/ lost /\ Break

handle_init ==
  /\ CurrentFrame.start = "Auth"
  /\ protocol' = "Auth"
  /\ machine' = "ServerHelloSent"
  /\ \E n \in Nonces : nonce' = n /\ SendAndRead(ServerHello(n))
  /\ UNCHANGED user

\* ExtProtocolHandler::handle_incoming is unimplemented!().
handle_ext ==
  /\ CurrentFrame.start = "Ext"
  /\ protocol' = "Ext"
  /\ server' = "panicked"
  /\ UNCHANGED <<machine, nonce, user, replies>>

not_a_start ==
  /\ CurrentFrame.start = None
  /\ Break
  /\ UNCHANGED <<protocol, machine, nonce, user>>

start_protocol ==
  /\ protocol = "Start"
  /\ Take
  /\ handle_init \/ handle_ext \/ not_a_start
  /\ UNCHANGED <<peervars, lost>>

\* Mutant: the nonce is not compared.
process_state_any_nonce(m) ==
  CASE machine # "ServerHelloSent" ->
         [result |-> "InvalidState", machine |-> machine]
    [] m = None -> [result |-> "SerializationError", machine |-> machine]
    [] ~ m.signed -> [result |-> "AccessDenied", machine |-> "ClientAuthReceived"]
    [] OTHER -> [result |-> "Ok", machine |-> "AuthResultOk"]

\* AuthProtocolHandler::handle_incoming: the result, and the machine after it.
process_state(m) ==
  CASE machine # "ServerHelloSent" ->
         [result |-> "InvalidState", machine |-> machine]
    [] m = None -> [result |-> "SerializationError", machine |-> machine]
    [] ~ m.signed -> [result |-> "AccessDenied", machine |-> "ClientAuthReceived"]
    [] m.nonce # nonce -> [result |-> "AccessDenied", machine |-> "AuthResultError"]
    [] OTHER -> [result |-> "Ok", machine |-> "AuthResultOk"]

\* Mutant: the handler is replaced before its user is taken.
handle_incoming_no_user ==
  /\ protocol = "Auth"
  /\ Take
  /\ LET out == process_state(CurrentFrame.auth)
     IN /\ machine' = out.machine
        /\ \/ /\ out.result = "Ok"
              /\ protocol' = "Broker"
              /\ SendAndRead(AuthResult("Ok"))
           \/ /\ out.result # "Ok"
              /\ SendAndBreak(AuthResult(out.result))
              /\ UNCHANGED protocol
  /\ UNCHANGED <<peervars, user, nonce, lost>>

\* The Auth protocol.  A failure is reported, and its code ends the loop; a
\* success hands the user over to the Broker protocol.
handle_incoming ==
  /\ protocol = "Auth"
  /\ Take
  /\ LET m == CurrentFrame.auth
         out == process_state(m)
     IN /\ machine' = out.machine
        /\ \/ /\ out.result = "Ok"
              /\ user' = m.user
              /\ protocol' = "Broker"
              /\ SendAndRead(AuthResult("Ok"))
           \/ /\ out.result # "Ok"
              /\ SendAndBreak(AuthResult(out.result))
              /\ UNCHANGED <<user, protocol>>
  /\ UNCHANGED <<peervars, nonce, lost>>

\* The Broker protocol: a reply to each message, for the user of the
\* connection; a frame that is not a BrokerMessage ends the loop.
broker_message ==
  /\ protocol = "Broker"
  /\ Take
  /\ \/ CurrentFrame.broker /\ SendAndRead(BrokerReply)
     \/ ~ CurrentFrame.broker /\ Break
  /\ UNCHANGED <<peervars, protocol, machine, nonce, user, lost>>

\* Mutant: a Close is skipped like a ping.
end_of_stream_skip ==
  /\ server = "loop"
  /\ \/ lost /\ Break /\ UNCHANGED handled
     \/ /\ handled < Len(sent) /\ CurrentFrame = End
        /\ handled' = handled + 1
        /\ UNCHANGED <<server, replies>>
  /\ UNCHANGED <<peervars, protocol, machine, nonce, user, lost>>

\* The stream ends, with a Close from the client or an error.
end_of_stream ==
  /\ server = "loop"
  /\ lost \/ (handled < Len(sent) /\ CurrentFrame = End)
  /\ Break
  /\ UNCHANGED <<peervars, handled, protocol, machine, nonce, user, lost>>

transport_error ==
  /\ ~ lost /\ lost' = TRUE
  /\ UNCHANGED <<peervars, servervars>>

ClientNext == \/ open_broker_connection \/ server_hello \/ auth_result
              \/ no_answer \/ request \/ foreign_send
ServerNext == \/ start_protocol \/ handle_incoming \/ broker_message
              \/ end_of_stream
Next == ClientNext \/ ServerNext \/ transport_error
Spec == Init /\ [][Next]_vars

\* The client's call is a future that the application awaits, and the server's
\* task is scheduled; both make progress when they can.  Nothing is assumed
\* of another client or of further requests.  The transport may break, and both
\* ends see it; a peer that is silent for ever is waited for.
FairSpec ==
  /\ Spec
  /\ WF_vars(open_broker_connection \/ server_hello \/ auth_result \/ no_answer)
  /\ WF_vars(ServerNext)

-----------------------------------------------------------------------------
(***************************************************************************)
(* Properties.                                                             *)
(***************************************************************************)

\* Whatever frames arrive and in whatever order, the server serves requests
\* only for the user whose key signed the nonce that this connection's
\* ServerHello carried, in the frame after the ClientHello.
ServedAsSigner ==
  protocol = "Broker" =>
    /\ handled >= 2
    /\ sent[1].start = "Auth"
    /\ sent[2].auth = [user |-> user, nonce |-> nonce, signed |-> TRUE]
    /\ replies[1] = ServerHello(nonce)

\* The peer sees a ServerHello, one AuthResult, and replies to requests only
\* after an AuthResult of success; a Close is the last thing written.
RepliesInOrder ==
  \A i \in 1..Len(replies) :
    /\ replies[i].what = "hello" => i = 1
    /\ replies[i].what = "result" => i = 2
    /\ replies[i].what = "reply" => i > 2 /\ replies[2] = AuthResult("Ok")
    /\ replies[i].what = "close" => i = Len(replies) /\ server = "ended"

\* When open_broker_connection returns a connection, the server works in the
\* Broker protocol, for the user the application named, whose key it had.
Agreement ==
  client = "open" => protocol = "Broker" /\ user = me.user /\ me.key

\* open_broker_connection returns, whatever becomes of the connection.
OpenReturns == client = "hello_sent" ~> client \in {"open"} \cup Failed

\* A peer that has ended the connection, or lost it, does not keep the server's
\* task, whatever it sent before.
PeerGone == lost \/ \E i \in 1..Len(sent) : sent[i] = End
ServerReleased == PeerGone ~> server # "loop"
=============================================================================
