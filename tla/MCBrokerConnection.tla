------------------------ MODULE MCBrokerConnection ------------------------
(***************************************************************************)
(* Small instances of BrokerConnection for TLC.                            *)
(***************************************************************************)
EXTENDS BrokerConnection

MCRequests == 1..2
=============================================================================
