------------------------------ MODULE Sweeper ------------------------------
(***************************************************************************)
(* The zombie sweeper (pkg/presence/sweeper.go): it walks online_users,    *)
(* removes the sessions whose key has expired, takes the user offline when *)
(* none is left and the scope off the list when no user is.  Nothing it    *)
(* does is atomic: every Redis round trip is a step.                       *)
(*                                                                         *)
(* The SSCAN cursor is modelled by the users the scan has passed: {} is    *)
(* cursor 0, where a scan starts.                                          *)
(***************************************************************************)
EXTENDS PresenceService

CONSTANTS Sweepers,  \* worker processes
          ScanCount  \* users one SSCAN call may return

VARIABLES
  sweepCursor,  \* presence:sweep_cursor:{scope}
  sweep         \* sweep[w]: where sweeper w is, and what it has read

sweeperVars == <<sweepCursor, sweep>>

SweepSteps == {"idle", "scan", "user", "exists", "prune", "hdel", "card",
               "offline", "offline_incr", "offline_tell", "offline_del",
               "tabs_incr", "tabs_agg", "tabs_last", "tabs_tell", "empty", "delist"}

IdleSweep == [at |-> "idle", passed |-> {}, last |-> FALSE, batch |-> {}, user |-> CHOOSE u \in Users : TRUE,
              left |-> {}, dead |-> CHOOSE s \in Sessions : TRUE, pruned |-> FALSE,
              count |-> 0, version |-> 0, agg |-> NoState]

SweeperTypeOK ==
  /\ sweepCursor \subseteq Users
  /\ sweep \in [Sweepers -> [at : SweepSteps, passed : SUBSET Users, last : BOOLEAN, batch : SUBSET Users,
                             user : Users, left : SUBSET Sessions, dead : Sessions, pruned : BOOLEAN,
                             count : Nat, version : Nat, agg : PresenceStates \cup {NoState}]]

SweeperInit == /\ sweepCursor = {}
               /\ sweep = [w \in Sweepers |-> IdleSweep]

At(w, step) == sweep[w].at = step
SweepGoto(w, from, to) == At(w, from) /\ sweep' = [sweep EXCEPT ![w].at = to]

\* Done with a user: only what concerns the scan is kept.
NextUser(w) == [IdleSweep EXCEPT !.at = "user", !.passed = sweep[w].passed,
                                 !.last = sweep[w].last, !.batch = sweep[w].batch]

-----------------------------------------------------------------------------
\* Tick finds the scope listed; sweepScope resumes at the stored cursor.
StartSweep(w) ==
  /\ At(w, "idle") /\ scopeActive
  /\ sweep' = [sweep EXCEPT ![w].at = "scan", ![w].passed = sweepCursor]
  /\ UNCHANGED <<serviceVars, sweepCursor>>

\* The time budget is spent: the cursor is kept for the next tick.
PauseSweep(w) ==
  /\ At(w, "scan")
  /\ sweepCursor' = sweep[w].passed
  /\ sweep' = [sweep EXCEPT ![w] = IdleSweep]
  /\ UNCHANGED serviceVars

\* SSCAN returns users the scan has not passed; it is over when none is left.
\* It may pass the place of a user who is not in the set and comes later.
Scan(w) == LET todo == onlineUsers \ sweep[w].passed IN
  /\ At(w, "scan")
  /\ \E batch \in SUBSET todo, missed \in SUBSET (Users \ onlineUsers) :
       /\ Cardinality(batch) = IF Cardinality(todo) < ScanCount THEN Cardinality(todo) ELSE ScanCount
       /\ sweep' = [sweep EXCEPT ![w].at = "user", ![w].batch = batch,
                                 ![w].passed = @ \cup batch \cup missed, ![w].last = (batch = todo)]
  /\ UNCHANGED <<serviceVars, sweepCursor>>

\* sweepUser for the next user of the batch, if any.
SweepUser(w, u) ==
  /\ At(w, "user") /\ u \in sweep[w].batch
  /\ sweep' = [sweep EXCEPT ![w].at = "exists", ![w].batch = @ \ {u}, ![w].user = u,
                            ![w].left = userSessions[u], ![w].pruned = FALSE]
  /\ UNCHANGED <<serviceVars, sweepCursor>>

\* Mutant: a completed scan leaves the stored cursor behind.
EndBatchKeepsCursor(w) ==
  /\ At(w, "user") /\ sweep[w].batch = {}
  /\ sweep' = IF sweep[w].last THEN [sweep EXCEPT ![w] = [IdleSweep EXCEPT !.at = "empty"]]
              ELSE [sweep EXCEPT ![w].at = "scan"]
  /\ UNCHANGED <<serviceVars, sweepCursor>>

\* The batch is done: another SSCAN, or the end of the scan (cursor deleted).
EndBatch(w) ==
  /\ At(w, "user") /\ sweep[w].batch = {}
  /\ IF sweep[w].last
     THEN /\ sweep' = [sweep EXCEPT ![w] = [IdleSweep EXCEPT !.at = "empty"]]
          /\ sweepCursor' = {}
     ELSE /\ sweep' = [sweep EXCEPT ![w].at = "scan"]
          /\ UNCHANGED sweepCursor
  /\ UNCHANGED serviceVars

-----------------------------------------------------------------------------
\* EXISTS for each session read; one whose key is gone is pruned.
CheckSession(w, s) ==
  /\ At(w, "exists") /\ s \in sweep[w].left
  /\ sweep' = [sweep EXCEPT ![w].left = @ \ {s},
                            ![w].at = IF Alive(s) THEN "exists" ELSE "prune",
                            ![w].dead = IF Alive(s) THEN @ ELSE s]
  /\ UNCHANGED <<serviceVars, sweepCursor>>

\* Mutant: the index is deleted with the first dead session.
PruneAll(w) == LET u == sweep[w].user IN
  /\ At(w, "prune")
  /\ userSessions' = [userSessions EXCEPT ![u] = {}]
  /\ sweep' = [sweep EXCEPT ![w].at = "hdel", ![w].pruned = TRUE]
  /\ UNCHANGED <<session, onlineUsers, userVersion, scopeActive, sideVars, view, call, sweepCursor>>

Prune(w) == LET u == sweep[w].user IN
  /\ At(w, "prune")
  /\ userSessions' = [userSessions EXCEPT ![u] = @ \ {sweep[w].dead}]
  /\ sweep' = [sweep EXCEPT ![w].at = "hdel", ![w].pruned = TRUE]
  /\ UNCHANGED <<session, onlineUsers, userVersion, scopeActive, sideVars, view, call, sweepCursor>>

PruneState(w) ==
  /\ SweepGoto(w, "hdel", "exists")
  /\ sessionStates' = [sessionStates EXCEPT ![sweep[w].dead] = NoState]
  /\ UNCHANGED <<storeVars, invisibleUsers, userDevices, lastPub, view, call, sweepCursor>>

CountRemaining(w) == LET n == Cardinality(userSessions[sweep[w].user]) IN
  /\ At(w, "exists") /\ sweep[w].left = {}
  /\ sweep' = [sweep EXCEPT ![w] = IF n = 0 THEN [@ EXCEPT !.at = "offline"]
                                    ELSE IF sweep[w].pruned THEN [@ EXCEPT !.at = "tabs_incr", !.count = n]
                                    ELSE NextUser(w)]
  /\ UNCHANGED <<serviceVars, sweepCursor>>

-----------------------------------------------------------------------------
\* Nothing remains: SREM, INCR, event, DEL - by what SCARD said before.
TakeOffline(w) ==
  /\ SweepGoto(w, "offline", "offline_incr")
  /\ onlineUsers' = onlineUsers \ {sweep[w].user}
  /\ UNCHANGED <<session, userSessions, userVersion, scopeActive, sideVars, view, call, sweepCursor>>

\* Mutant: GET and add one, which stores nothing.
SweepGetVersion(w, from, to) == LET u == sweep[w].user IN
  /\ At(w, from)
  /\ sweep' = [sweep EXCEPT ![w].at = to, ![w].version = userVersion[u] + 1]
  /\ UNCHANGED <<serviceVars, sweepCursor>>

\* INCR, on the offline path and on the path where sessions remain.
SweepIncr(w, from, to) == LET u == sweep[w].user IN
  /\ At(w, from)
  /\ userVersion' = Bumped(u, TRUE)
  /\ sweep' = [sweep EXCEPT ![w].at = to, ![w].version = userVersion[u] + 1]
  /\ UNCHANGED <<session, userSessions, onlineUsers, scopeActive, sideVars, view, call, sweepCursor>>

TellOffline(w) ==
  /\ SweepGoto(w, "offline_tell", "offline_del")
  /\ Publish(sweep[w].user, PresenceEvent("user_offline", sweep[w].version, 0, NoState))
  /\ UNCHANGED <<storeVars, sideVars, call, sweepCursor>>

DeleteStates(w) ==
  /\ At(w, "offline_del")
  /\ sweep' = [sweep EXCEPT ![w] = NextUser(w)]
  /\ DropStates(sweep[w].user)
  /\ UNCHANGED <<storeVars, invisibleUsers, userDevices, view, call, sweepCursor>>

\* Some remain and some were pruned: INCR, aggregate, SET, event.
SweepAggregate(w) ==
  /\ At(w, "tabs_agg")
  /\ sweep' = [sweep EXCEPT ![w].at = "tabs_last", ![w].agg = Aggregate(sweep[w].user)]
  /\ UNCHANGED <<serviceVars, sweepCursor>>

SweepLast(w) ==
  /\ SweepGoto(w, "tabs_last", "tabs_tell")
  /\ lastPub' = [lastPub EXCEPT ![sweep[w].user] = sweep[w].agg]
  /\ UNCHANGED <<storeVars, invisibleUsers, userDevices, sessionStates, view, call, sweepCursor>>

TellTabs(w) ==
  /\ At(w, "tabs_tell")
  /\ sweep' = [sweep EXCEPT ![w] = NextUser(w)]
  /\ Publish(sweep[w].user, PresenceEvent("user_tabs", sweep[w].version, sweep[w].count, sweep[w].agg))
  /\ UNCHANGED <<storeVars, sideVars, call, sweepCursor>>

-----------------------------------------------------------------------------
\* The scan is complete: a scope nobody is online in is taken off the list.
CheckEmpty(w) ==
  /\ SweepGoto(w, "empty", IF onlineUsers = {} THEN "delist" ELSE "idle")
  /\ UNCHANGED <<serviceVars, sweepCursor>>

Delist(w) ==
  /\ SweepGoto(w, "delist", "idle")
  /\ scopeActive' = FALSE
  /\ UNCHANGED <<session, userSessions, onlineUsers, userVersion, sideVars, view, call, sweepCursor>>

\* The sweeper process stops anywhere and starts again with what is stored.
SweeperStops(w) ==
  /\ "sweeper_stops" \in Faults
  /\ ~At(w, "idle")
  /\ sweep' = [sweep EXCEPT ![w] = IdleSweep]
  /\ UNCHANGED <<serviceVars, sweepCursor>>

SweepUserStep(w) ==
  \/ \E s \in Sessions : CheckSession(w, s)
  \/ Prune(w) \/ PruneState(w) \/ CountRemaining(w)
  \/ TakeOffline(w) \/ SweepIncr(w, "offline_incr", "offline_tell") \/ TellOffline(w) \/ DeleteStates(w)
  \/ SweepIncr(w, "tabs_incr", "tabs_agg") \/ SweepAggregate(w) \/ SweepLast(w) \/ TellTabs(w)

SweepScopeStep(w) ==
  \/ Scan(w) \/ EndBatch(w) \/ CheckEmpty(w) \/ Delist(w)
  \/ \E u \in Users : SweepUser(w, u)

SweeperNext == \E w \in Sweepers :
  \/ StartSweep(w) \/ PauseSweep(w)
  \/ SweepScopeStep(w) \/ SweepUserStep(w)
  \/ SweeperStops(w)
=============================================================================
