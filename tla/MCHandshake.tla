---------------------------- MODULE MCHandshake ----------------------------
EXTENDS Handshake

\* Frames of another client: those of the handshake, well made and not, a
\* request, an ExtRequest and bytes that no parser accepts.
MCForeignFrames ==
  {Hello, Request,
   [start |-> "Ext", auth |-> None, broker |-> FALSE],
   [start |-> None, auth |-> None, broker |-> FALSE]}
    \cup {Auth(u, n, TRUE) : u \in Users, n \in Nonces}
    \cup {Auth(u, CHOOSE n \in Nonces : TRUE, FALSE) : u \in Users}
=============================================================================
