--------------------------- MODULE MCBrokerServer ---------------------------
(***************************************************************************)
(* Small instances of BrokerServer for TLC: the public and the private     *)
(* overlay of one repository, one user, and one peer whose adverts come    *)
(* out of order.                                                           *)
(***************************************************************************)
EXTENDS BrokerServer

CONSTANTS t1, t2, o1, o2, u1, p1, r1

MCRepoOf == [o \in Overlays |-> r1]

Advert(v) == [peer |-> p1, version |-> v]

MCPeerLists == {<<Advert(2)>>, <<Advert(1), Advert(3)>>}

MCNoPeers == {<<>>}
=============================================================================
