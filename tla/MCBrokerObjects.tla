-------------------------- MODULE MCBrokerObjects --------------------------
EXTENDS BrokerObjects

CONSTANTS l1, l2, r1, r2, d, o1, o2, o3, o4

\* Two objects with the same two leaves, the second one with a repetition, and
\* one whose only block is a leaf of the others; the fourth one lists the
\* dependencies of the second.
MCChildren == (l1 :> << >>) @@ (l2 :> << >>) @@ (r1 :> <<l1, l2>>) @@ (r2 :> <<l2, l1, l2>>)
              @@ (d :> << >>)
MCBlocksOf == (o1 :> <<l1, l2, r1>>) @@ (o2 :> <<l2, l1, l2, r2>>) @@ (o3 :> <<l1>>)
              @@ (o4 :> <<d>>)
MCDepListRef == (o2 :> o4)
=============================================================================
