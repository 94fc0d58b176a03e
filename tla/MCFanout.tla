------------------------------ MODULE MCFanout ------------------------------
\* Two clients, of a user each.
EXTENDS Fanout, TLC

CONSTANTS c1, c2, a, b

OneEach == (c1 :> a) @@ (c2 :> b)
=============================================================================
