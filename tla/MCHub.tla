------------------------------- MODULE MCHub -------------------------------
\* Three requests: two of one user, one of another, in one scope or two.
EXTENDS Hub, TLC

CONSTANTS c1, c2, c3, a, b, s1, s2

TwoAndOne == (c1 :> a) @@ (c2 :> a) @@ (c3 :> b)
OneScope == (c1 :> s1) @@ (c2 :> s1) @@ (c3 :> s1)
TwoScopes == (c1 :> s1) @@ (c2 :> s1) @@ (c3 :> s2)
=============================================================================
