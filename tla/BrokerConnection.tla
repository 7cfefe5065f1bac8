-------------------------- MODULE BrokerConnection --------------------------
(***************************************************************************)
(* A remote connection to a broker: the client's calls, its reader loop    *)
(* and the actors that wait for the replies (lofire-broker connection.rs   *)
(* and lib.rs), and the server's connection loop with its asynchronous     *)
(* frames (lofire-node main.rs, lofire-broker server.rs).                  *)
(*                                                                         *)
(* The methods of the connection take &mut self, so the application has    *)
(* one call at a time, and any number of block streams that earlier calls  *)
(* returned.  A simple call waits for the actor of its request to stop; a  *)
(* stream call waits for its first reply, and keeps the writer locked      *)
(* meanwhile.  The socket is a FIFO channel in each direction.             *)
(*                                                                         *)
(* Payloads are left out: a reply succeeds or fails, and the blocks of a   *)
(* stream are numbered in the order in which the broker produces them.     *)
(***************************************************************************)
EXTENDS Naturals, Sequences

CONSTANTS
  Requests,   \* identifiers of the requests, in the order they are made
  MaxBlocks   \* bound on the blocks of a stream

ASSUME ConstantsAssumption ==
  /\ Requests \subseteq Nat
  /\ MaxBlocks \in Nat

VARIABLES
  kind,        \* "simple" or "stream" once the request is made
  call,        \* where the application is with the request
  actor,       \* the actor of the request
  mailbox,     \* messages and stop events queued for the actor
  reply,       \* one-shot channel from the actor to the call
  registered,  \* actors and stream_actors: requests the reader knows
  chan,        \* blocks the actor passed on and the application did not read
  chan_closed, \* the actor closed its end of chan
  stream,      \* the application's end of chan
  received,    \* blocks the application read
  reader,      \* the reader task
  writer,      \* who holds the writer mutex ({} or one request)
  sink_open,   \* whether the client can still write to the socket
  shutdown,    \* the application closed the connection
  up, down,    \* frames in transit to the server and to the client
  server,      \* the server's connection loop
  rest,        \* what the future of the current stream reply has yet to send
  frames,      \* async frames channel of the server
  produced     \* number of blocks of each stream

appvars == <<kind, call, stream, received, shutdown>>
actorvars == <<actor, mailbox, reply, chan, chan_closed>>
clientvars == <<registered, reader, writer, sink_open>>
servervars == <<server, rest, frames, produced>>
vars == <<appvars, actorvars, clientvars, servervars, up, down>>

Returned == {"ok", "fail", "closing", "writeerror"}

Response == [what : {"done", "fail", "eos"}, id : Requests]
              \cup [what : {"block"}, id : Requests, n : 1..MaxBlocks]
Stop == [what |-> "stop"]
Close == [what |-> "close"]
Request(r) == [what |-> "request", id |-> r]

TypeOK ==
  /\ kind \in [Requests -> {"none", "simple", "stream"}]
  /\ call \in [Requests -> {"new", "send", "wait"} \cup Returned]
  /\ actor \in [Requests -> {"none", "running", "gone"}]
  /\ mailbox \in [Requests -> Seq(Response \cup {Stop})]
  /\ reply \in [Requests -> {"empty", "ok", "fail"}]
  /\ registered \subseteq Requests
  /\ chan \in [Requests -> Seq(1..MaxBlocks)]
  /\ chan_closed \in [Requests -> BOOLEAN]
  /\ stream \in [Requests -> {"none", "open", "dropped", "ended"}]
  /\ received \in [Requests -> Seq(1..MaxBlocks)]
  /\ reader \in {"loop", "closing", "ended"}
  /\ writer \subseteq Requests
  /\ sink_open \in BOOLEAN
  /\ shutdown \in BOOLEAN
  /\ up \in Seq({Request(r) : r \in Requests} \cup {Close})
  /\ down \in Seq(Response \cup {Close})
  /\ server \in {"loop", "stream", "ended"}
  /\ rest \in Seq(Response)
  /\ frames \in Seq(Response)
  /\ produced \in [Requests -> 0..MaxBlocks]

Init ==
  /\ kind = [r \in Requests |-> "none"]
  /\ call = [r \in Requests |-> "new"]
  /\ actor = [r \in Requests |-> "none"]
  /\ mailbox = [r \in Requests |-> << >>]
  /\ reply = [r \in Requests |-> "empty"]
  /\ registered = {}
  /\ chan = [r \in Requests |-> << >>]
  /\ chan_closed = [r \in Requests |-> FALSE]
  /\ stream = [r \in Requests |-> "none"]
  /\ received = [r \in Requests |-> << >>]
  /\ reader = "loop"
  /\ writer = {}
  /\ sink_open = TRUE
  /\ shutdown = FALSE
  /\ up = << >>
  /\ down = << >>
  /\ server = "loop"
  /\ rest = << >>
  /\ frames = << >>
  /\ produced = [r \in Requests |-> 0]

-----------------------------------------------------------------------------
(***************************************************************************)
(* The application's calls.                                                *)
(***************************************************************************)

\* No call in progress: the next one can begin.
Free == \A r \in Requests : call[r] \in {"new"} \cup Returned

\* before!: start an actor for the request and register it with the reader.
before(r, k) ==
  /\ Free /\ ~ shutdown
  /\ call[r] = "new"
  /\ \A s \in Requests : s < r => call[s] # "new"
  /\ kind' = [kind EXCEPT ![r] = k]
  /\ call' = [call EXCEPT ![r] = "send"]
  /\ actor' = [actor EXCEPT ![r] = "running"]
  /\ registered' = registered \cup {r}
  /\ UNCHANGED <<mailbox, reply, chan, chan_closed, stream, received, shutdown,
                 reader, writer, sink_open, servervars, up, down>>

\* The request goes out under the writer mutex, which a stream call keeps.  If
\* the write fails the call returns at once: nothing holds the actor any more
\* and it ends, but the reader's map is not cleaned.
send(r) ==
  /\ call[r] = "send"
  /\ writer = {}
  /\ \/ /\ sink_open
        /\ up' = Append(up, Request(r))
        /\ writer' = IF kind[r] = "stream" THEN {r} ELSE {}
        /\ call' = [call EXCEPT ![r] = "wait"]
        /\ UNCHANGED <<actor, mailbox>>
     \/ /\ ~ sink_open
        /\ call' = [call EXCEPT ![r] = "writeerror"]
        /\ actor' = [actor EXCEPT ![r] = "gone"]
        /\ mailbox' = [mailbox EXCEPT ![r] = << >>]
        /\ UNCHANGED <<up, writer>>
  /\ UNCHANGED <<kind, stream, received, shutdown, reply, chan, chan_closed,
                 registered, reader, sink_open, servervars, down>>

\* after!: a simple call returns when its actor has stopped, with the reply if
\* there is one; only then the actor is unregistered.
after(r) ==
  /\ call[r] = "wait" /\ kind[r] = "simple"
  /\ actor[r] = "gone"
  /\ IF reply[r] = "empty"
     THEN call' = [call EXCEPT ![r] = "closing"] /\ UNCHANGED registered
     ELSE call' = [call EXCEPT ![r] = reply[r]] /\ registered' = registered \ {r}
  /\ UNCHANGED <<kind, stream, received, shutdown, actorvars, reader, writer,
                 sink_open, servervars, up, down>>

\* A stream call returns with its first reply, or when its actor is gone.
first_reply(r) ==
  /\ call[r] = "wait" /\ kind[r] = "stream"
  /\ \/ /\ reply[r] = "empty" /\ actor[r] = "gone"
        /\ call' = [call EXCEPT ![r] = "closing"]
        /\ UNCHANGED <<registered, stream>>
     \/ /\ reply[r] = "fail"
        /\ call' = [call EXCEPT ![r] = "fail"]
        /\ registered' = registered \ {r}
        /\ UNCHANGED stream
     \/ /\ reply[r] = "ok"
        /\ call' = [call EXCEPT ![r] = "ok"]
        /\ stream' = [stream EXCEPT ![r] = "open"]
        /\ UNCHANGED registered
  /\ writer' = {}
  /\ UNCHANGED <<kind, received, shutdown, actorvars, reader, sink_open,
                 servervars, up, down>>

\* The task spawned with a stream unregisters its actor once it has stopped.
wait_for_stop(r) ==
  /\ kind[r] = "stream" /\ call[r] = "ok"
  /\ actor[r] = "gone"
  /\ r \in registered
  /\ registered' = registered \ {r}
  /\ UNCHANGED <<appvars, actorvars, reader, writer, sink_open, servervars, up, down>>

\* The application reads a block of the stream, or learns that it is over.
next_block(r) ==
  /\ stream[r] = "open"
  /\ \/ /\ chan[r] # << >>
        /\ received' = [received EXCEPT ![r] = Append(@, Head(chan[r]))]
        /\ chan' = [chan EXCEPT ![r] = Tail(@)]
        /\ UNCHANGED stream
     \/ /\ chan[r] = << >>
        /\ chan_closed[r] \/ actor[r] = "gone"
        /\ stream' = [stream EXCEPT ![r] = "ended"]
        /\ UNCHANGED <<received, chan>>
  /\ UNCHANGED <<kind, call, shutdown, actor, mailbox, reply, chan_closed,
                 clientvars, servervars, up, down>>

\* The application may lose interest in a stream at any time.
drop_stream(r) ==
  /\ stream[r] = "open"
  /\ stream' = [stream EXCEPT ![r] = "dropped"]
  /\ chan' = [chan EXCEPT ![r] = << >>]
  /\ UNCHANGED <<kind, call, received, shutdown, actor, mailbox, reply,
                 chan_closed, clientvars, servervars, up, down>>

\* Writing a Close frame and closing the sink; both fail on a dead socket.
CloseSink ==
  /\ sink_open' = FALSE
  /\ up' = IF sink_open THEN Append(up, Close) ELSE up

close ==
  /\ Free /\ ~ shutdown
  /\ writer = {}
  /\ shutdown' = TRUE
  /\ CloseSink
  /\ UNCHANGED <<kind, call, stream, received, actorvars, registered, reader,
                 writer, servervars, down>>

-----------------------------------------------------------------------------
(***************************************************************************)
(* The actors.  ctx.stop() and addr.stop() queue a stop event behind the   *)
(* messages already in the mailbox.                                        *)
(***************************************************************************)

\* BrokerMessageActor: pass the reply on and stop.
handle_reply(r, m) ==
  /\ reply' = [reply EXCEPT ![r] = IF @ # "empty" THEN @
                                   ELSE IF m.what = "done" THEN "ok" ELSE "fail"]
  /\ mailbox' = [mailbox EXCEPT ![r] = Append(Tail(@), Stop)]
  /\ UNCHANGED <<chan, chan_closed>>

\* Mutant: the stream goes on after EndOfStream.
handle_stream_endless(r, m) ==
  /\ reply' = [reply EXCEPT ![r] = IF @ # "empty" THEN @
                                   ELSE IF m.what = "fail" THEN "fail" ELSE "ok"]
  /\ mailbox' = [mailbox EXCEPT ![r] = Tail(@)]
  /\ chan' = IF m.what = "block"
             THEN [chan EXCEPT ![r] = Append(@, m.n)] ELSE chan
  /\ UNCHANGED chan_closed

\* BrokerMessageStreamActor: the first message answers the call; blocks are
\* passed on; an error, the end of the stream and a receiver that is gone stop
\* the actor.
handle_stream(r, m) ==
  LET passed == m.what = "block" /\ ~ chan_closed[r] /\ stream[r] # "dropped"
  IN  /\ reply' = [reply EXCEPT ![r] = IF @ # "empty" THEN @
                                       ELSE IF m.what = "fail" THEN "fail" ELSE "ok"]
      /\ chan' = IF passed THEN [chan EXCEPT ![r] = Append(@, m.n)] ELSE chan
      /\ chan_closed' = [chan_closed EXCEPT ![r] = @ \/ ~ passed]
      /\ mailbox' = [mailbox EXCEPT ![r] =
                       IF passed THEN Tail(@) ELSE Append(Tail(@), Stop)]

handle(r) ==
  /\ actor[r] = "running"
  /\ mailbox[r] # << >>
  /\ LET m == Head(mailbox[r])
     IN  \/ /\ m = Stop
            /\ actor' = [actor EXCEPT ![r] = "gone"]
            /\ mailbox' = [mailbox EXCEPT ![r] = << >>]
            /\ UNCHANGED <<reply, chan, chan_closed>>
         \/ /\ m # Stop /\ kind[r] = "simple"
            /\ handle_reply(r, m)
            /\ UNCHANGED actor
         \/ /\ m # Stop /\ kind[r] = "stream"
            /\ handle_stream(r, m)
            /\ UNCHANGED actor
  /\ UNCHANGED <<appvars, clientvars, servervars, up, down>>

-----------------------------------------------------------------------------
(***************************************************************************)
(* The reader loop of the client.                                          *)
(***************************************************************************)

\* Mutant: only the actors of simple calls are released.
ReleasedSimple == {r \in registered : actor[r] = "running" /\ kind[r] = "simple"}

\* The actors a Close stops.
Released == {r \in registered : actor[r] = "running"}

\* A frame from the server.  Close releases the actors; a response that no
\* actor can take ends the loop as well, without releasing anyone.  After a
\* Close frame the socket refuses further writes.
read_frame ==
  /\ reader = "loop"
  /\ down # << >>
  /\ down' = Tail(down)
  /\ LET m == Head(down)
     IN  \/ /\ m = Close
            /\ mailbox' = [r \in Requests |-> IF r \in Released
                                               THEN Append(mailbox[r], Stop)
                                               ELSE mailbox[r]]
            /\ reader' = "closing"
            /\ sink_open' = FALSE
         \/ /\ m # Close
            /\ m.id \in registered /\ actor[m.id] = "running"
            /\ mailbox' = [mailbox EXCEPT ![m.id] = Append(@, m)]
            /\ UNCHANGED <<reader, sink_open>>
         \/ /\ m # Close
            /\ m.id \notin registered \/ actor[m.id] = "gone"
            /\ reader' = "closing"
            /\ UNCHANGED <<mailbox, sink_open>>
  /\ UNCHANGED <<appvars, actor, reply, chan, chan_closed, registered, writer,
                 servervars, up>>

\* select! may see the shutdown before the frames that have arrived.
read_shutdown ==
  /\ reader = "loop" /\ shutdown
  /\ reader' = "ended"
  /\ UNCHANGED <<appvars, actorvars, registered, writer, sink_open, servervars,
                 up, down>>

\* A loop that ended with an error closes the writer.
close_writer ==
  /\ reader = "closing"
  /\ writer = {}
  /\ reader' = "ended"
  /\ CloseSink
  /\ UNCHANGED <<appvars, actorvars, registered, writer, servervars, down>>

-----------------------------------------------------------------------------
(***************************************************************************)
(* The server's end.                                                       *)
(***************************************************************************)

Block(r, i) == [what |-> "block", id |-> r, n |-> i]

\* Mutant: one block too many.
BlocksOffByOne(r, i, j) == [k \in 1..(j - i + 2) |-> Block(r, i + k - 1)]

\* Blocks i to j of the stream.
Blocks(r, i, j) == [k \in 1..(j - i + 1) |-> Block(r, i + k - 1)]

Eos(r) == [what |-> "eos", id |-> r]

\* Mutant: the future is polled before the first block is written.
stream_response_late(r) ==
  \E len \in 1..MaxBlocks :
     /\ down' = down
     /\ rest' = Append(Blocks(r, 2, len), Eos(r)) \o Blocks(r, 1, 1)
     /\ produced' = [produced EXCEPT ![r] = len]
     /\ server' = "stream"

\* The reply to a stream request: an error, or the first block, with a future
\* that sends the others and the end of the stream.
stream_response(r) ==
  \/ /\ down' = Append(down, [what |-> "fail", id |-> r])
     /\ UNCHANGED <<rest, server, produced>>
  \/ /\ down' = Append(down, Eos(r))
     /\ UNCHANGED <<rest, server, produced>>
  \/ \E len \in 1..MaxBlocks :
        /\ down' = down \o Blocks(r, 1, 1)
        /\ rest' = Append(Blocks(r, 2, len), Eos(r))
        /\ produced' = [produced EXCEPT ![r] = len]
        /\ server' = "stream"

\* One iteration of connection_loop.
handle_incoming ==
  /\ server = "loop"
  /\ up # << >>
  /\ up' = Tail(up)
  /\ LET m == Head(up)
     IN  \/ /\ m = Close
            /\ server' = "ended"
            /\ down' = Append(down, Close)
            /\ UNCHANGED <<rest, produced>>
         \/ /\ m # Close /\ kind[m.id] = "simple"
            /\ \E what \in {"done", "fail"} :
                  down' = Append(down, [what |-> what, id |-> m.id])
            /\ UNCHANGED <<server, rest, produced>>
         \/ /\ m # Close /\ kind[m.id] = "stream"
            /\ stream_response(m.id)
  /\ UNCHANGED <<appvars, actorvars, clientvars, frames>>

\* The loop awaits the future, which fills the async frames channel.
send_rest ==
  /\ server = "stream"
  /\ frames' = Append(frames, Head(rest))
  /\ rest' = Tail(rest)
  /\ server' = IF Len(rest) = 1 THEN "loop" ELSE "stream"
  /\ UNCHANGED <<appvars, actorvars, clientvars, produced, up, down>>

\* The async frames task; after the loop has sent Close the socket refuses.
send_frame ==
  /\ frames # << >>
  /\ frames' = Tail(frames)
  /\ down' = IF server = "ended" THEN down ELSE Append(down, Head(frames))
  /\ UNCHANGED <<appvars, actorvars, clientvars, server, rest, produced, up>>

\* rx.next() returns an error: the loop ends and says Close.
transport_error ==
  /\ server = "loop"
  /\ server' = "ended"
  /\ down' = Append(down, Close)
  /\ UNCHANGED <<appvars, actorvars, clientvars, rest, frames, produced, up>>

-----------------------------------------------------------------------------

\* The call in progress, the reader task and the connection loop: each of them
\* does one thing at a time.
Call(r) == send(r) \/ after(r) \/ first_reply(r)

Reader == read_frame \/ read_shutdown \/ close_writer

ConnectionLoop == handle_incoming \/ send_rest

Next ==
  \/ \E r \in Requests :
        \/ \E k \in {"simple", "stream"} : before(r, k)
        \/ Call(r) \/ wait_for_stop(r) \/ handle(r)
        \/ next_block(r) \/ drop_stream(r)
  \/ close
  \/ Reader
  \/ ConnectionLoop
  \/ send_frame
  \/ transport_error

Spec == Init /\ [][Next]_vars

\* Every task is polled again when it can go on, and an application that has
\* a stream reads it.  It need not make another call, drop or close anything.
Fairness ==
  /\ \A r \in Requests :
        /\ WF_vars(Call(r))
        /\ WF_vars(wait_for_stop(r))
        /\ WF_vars(handle(r))
        /\ WF_vars(next_block(r))
  /\ WF_vars(Reader)
  /\ WF_vars(ConnectionLoop)
  /\ WF_vars(send_frame)

FairSpec == Spec /\ Fairness

-----------------------------------------------------------------------------

\* The blocks of a stream arrive in the order the broker produced them, though
\* the first is written by the connection loop and the others by the task of
\* the async frames; and if nobody closed the connection a stream that ends
\* has delivered all of them.
StreamFaithful ==
  \A r \in Requests :
    /\ \A i \in 1..Len(received[r]) : received[r][i] = i
    /\ stream[r] = "ended" /\ sink_open => Len(received[r]) = produced[r]

\* The application has given up none of its streams.
NoneDropped == \A r \in Requests : stream[r] # "dropped"

\* As long as the application drops no stream, no call is left waiting: it
\* returns the reply, or an error when the connection closes under it, even if
\* it was made while the reader was dealing with the Close.
CallsReturnIfRead ==
  \A r \in Requests :
    call[r] \in {"send", "wait"} ~> call[r] \in Returned \/ ~ NoneDropped

\* An application that goes on reading its streams comes to their end, unless
\* it closed the connection itself.
StreamsEnd ==
  \A r \in Requests :
    stream[r] = "open" ~> stream[r] # "open" \/ shutdown \/ ~ NoneDropped

\* When the reader loop ends it is "releasing the blocking calls on the actors":
\* every call returns.  It does so on Close only: a block for a stream that the
\* application dropped ends the loop too, and the call in progress waits on.
CallsReturn ==
  \A r \in Requests : call[r] \in {"send", "wait"} ~> call[r] \in Returned
=============================================================================
