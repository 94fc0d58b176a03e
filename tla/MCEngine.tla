------------------------------ MODULE MCEngine ------------------------------
(* Instances of Engine: one user with one or two sessions, or two users    *)
(* with a session each.  The .cfg files choose the processes and the       *)
(* faults; the names they use for them are model values.                   *)
EXTENDS Engine, TLC

CONSTANTS a, b, a1, a2, b1

OneOf == a1 :> a
TwoOf == (a1 :> a) @@ (a2 :> a)
OneEach == (a1 :> a) @@ (b1 :> b)
=============================================================================
