---------------------------- MODULE PresenceAbs ----------------------------
(***************************************************************************)
(* What the presence store promises its readers, with no keys, no scripts  *)
(* and no workers: each user has a set of sessions, the user is online     *)
(* exactly while that set is non-empty, and every change a reader could    *)
(* notice moves the user's version forward by one, in the same step.       *)
(***************************************************************************)
EXTENDS Naturals

CONSTANTS Users,     \* user ids of one scope
          Sessions,  \* session ids, each owned by one user
          UserOf     \* UserOf[s]: the owner of session s

VARIABLES sessions,  \* sessions[u]: the sessions user u has open
          online,    \* the users a reader is told are online
          version    \* version[u]: what orders the events about u

absVars == <<sessions, online, version>>

\* Online, as the sessions in f define it.
OnlineIn(f) == {u \in Users : f[u] # {}}

Init == /\ sessions = [u \in Users |-> {}]
        /\ online = {}
        /\ version = [u \in Users |-> 0]

\* A session opens (again, when it is already open: nothing moves then).
Open(s) == LET u == UserOf[s] IN
  /\ s \notin sessions[u]
  /\ sessions' = [sessions EXCEPT ![u] = @ \cup {s}]
  /\ online' = online \cup {u}
  /\ version' = [version EXCEPT ![u] = @ + 1]

\* A session closes; the user is offline with the last of them.
Close(s) == LET u == UserOf[s] IN
  /\ s \in sessions[u]
  /\ sessions' = [sessions EXCEPT ![u] = @ \ {s}]
  /\ online' = IF sessions[u] = {s} THEN online \ {u} ELSE online
  /\ version' = [version EXCEPT ![u] = @ + 1]

\* Something else about the user changes (its aggregate presence).
Touch(u) == /\ version' = [version EXCEPT ![u] = @ + 1]
            /\ UNCHANGED <<sessions, online>>

Next == \/ \E s \in Sessions : Open(s) \/ Close(s)
        \/ \E u \in Users : Touch(u)

Spec == Init /\ [][Next]_absVars
=============================================================================
