------------------------------ MODULE EventBus ------------------------------
(***************************************************************************)
(* The presence events of one scope, as the application that follows them  *)
(* sees them.  pkg/events publishes to a Redis channel with no memory and  *)
(* at most one delivery; a subscriber remembers the last version it        *)
(* applied for each user and skips every event that is not newer           *)
(* (pkg/sdk/client.go).  view[u] is the last event applied for u by a      *)
(* subscriber that has been listening from the start and keeps up.         *)
(***************************************************************************)
EXTENDS PresenceStore

CONSTANT Faults  \* the faults a run allows: "lost_event", and those of the workers

PresenceStates == {"active", "idle", "dnd"}
NoState == ""

EventTypes == {"user_online", "user_offline", "user_tabs", "user_presence"}

VARIABLE view

PresenceEvent(type, version, tabs, state) ==
  [type |-> type, version |-> version, tabs |-> tabs, state |-> state]

\* What a subscriber believes of a user it has heard nothing about.
Unheard == PresenceEvent("user_offline", 0, 0, NoState)

ViewTypeOK == view \in [Users -> [type : EventTypes, version : Nat, tabs : Nat,
                                  state : PresenceStates \cup {NoState}]]

ViewInit == view = [u \in Users |-> Unheard]

\* One event about u.  A failed PUBLISH is logged and forgotten by every
\* publisher, so a lost event is a fault that changes nothing else.
Publish(u, e) ==
  \/ view' = [view EXCEPT ![u] = IF e.version > @.version THEN e ELSE @]
  \/ "lost_event" \in Faults /\ view' = view

=============================================================================
