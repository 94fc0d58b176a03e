----------------------------- MODULE Debouncer -----------------------------
(***************************************************************************)
(* Delayed disconnects (pkg/presence/debouncer.go): the queue of jobs of   *)
(* the scope, which gateways write through ScheduleDisconnect and          *)
(* CancelDisconnect, and the workers that execute them.                    *)
(*                                                                         *)
(* A job id is random; it is named here by the session and the number of   *)
(* the connection that scheduled it.  Delays are left out: a queued job    *)
(* may be found due at any time, in any order.                             *)
(***************************************************************************)
EXTENDS PresenceService

CONSTANTS Debouncers,        \* worker processes
          FlappingThreshold, \* 0, as cmd/worker-debouncer leaves it: no flapping detection
          MaxConns           \* connections made under one session id

Jobs == Sessions \X (1..MaxConns)
NoJob == <<CHOOSE s \in Sessions : TRUE, 1>>

VARIABLES
  jobQueue,     \* presence:disconnect_jobs:{scope} - ZSET of jobs
  jobMeta,      \* the jobs whose presence:disconnect_job_meta key exists
  jobIndex,     \* presence:disconnect_job_index:{scope}:{u}:{s}, all sessions
  worker,       \* worker[d]: where debouncer d is, and the job it executes
  transitions   \* presence:transitions:{scope}:{u} - how many are in the window

jobVars == <<jobQueue, jobMeta, jobIndex>>
workerVars == <<worker, transitions>>

WorkerSteps == {"idle", "scope", "execute", "announce", "presence", "cleanup"}
IdleWorker == [at |-> "idle", job |-> NoJob, flapping |-> FALSE]

DebouncerTypeOK ==
  /\ jobQueue \subseteq Jobs /\ jobMeta \subseteq Jobs /\ jobIndex \subseteq Jobs
  /\ worker \in [Debouncers -> [at : WorkerSteps, job : Jobs, flapping : BOOLEAN]]
  /\ transitions \in [Users -> 0..FlappingThreshold]

DebouncerInit ==
  /\ jobQueue = {} /\ jobMeta = {} /\ jobIndex = {}
  /\ worker = [d \in Debouncers |-> IdleWorker]
  /\ transitions = [u \in Users |-> 0]

-----------------------------------------------------------------------------
\* The gateway's side.  The pipelines are no transactions, but no process
\* looks at a job between the commands of one: it is not due yet.
ScheduleDisconnect(j) == /\ jobQueue' = jobQueue \cup {j}
                         /\ jobMeta' = jobMeta \cup {j}
                         /\ jobIndex' = jobIndex \cup {j}

\* Mutant: the jobs of all the user's sessions are cancelled.
CancelUser(s) == LET cancelled == {j \in jobIndex : UserOf[j[1]] = UserOf[s]} IN
  /\ jobQueue' = jobQueue \ cancelled
  /\ jobMeta' = jobMeta \ cancelled
  /\ jobIndex' = jobIndex \ cancelled

\* The index of the session is read first; no process adds to it before the
\* pipeline that cancels what was read, so both are one step.
CancelDisconnect(s) == LET cancelled == {j \in jobIndex : j[1] = s} IN
  /\ jobQueue' = jobQueue \ cancelled
  /\ jobMeta' = jobMeta \ cancelled
  /\ jobIndex' = jobIndex \ cancelled

-----------------------------------------------------------------------------
\* The workers' side: ProcessDueJobs visits the scope while it is listed.
WorkerGoto(d, from, to) == worker[d].at = from /\ worker' = [worker EXCEPT ![d].at = to]

EnterScope(d) == /\ scopeActive
                 /\ WorkerGoto(d, "idle", "scope")
                 /\ UNCHANGED <<serviceVars, jobVars, transitions>>

LeaveScope(d) == /\ worker[d].at = "scope"
                 /\ worker' = [worker EXCEPT ![d] = IdleWorker]
                 /\ UNCHANGED <<serviceVars, jobVars, transitions>>

\* executeJob, from the metadata that says whom to disconnect ...
TakeJob(d, j) ==
  /\ worker[d].at = "scope"
  /\ j \in jobQueue \cap jobMeta
  /\ worker' = [worker EXCEPT ![d].at = "execute", ![d].job = j]
  /\ StartDisconnect(d, j[1])
  /\ UNCHANGED <<storeVars, sideVars, view, jobVars, transitions>>

\* ... which is gone when the job was cancelled or has outlived its TTL.
DropOrphan(d, j) ==
  /\ worker[d].at = "scope"
  /\ j \in jobQueue \ jobMeta
  /\ jobQueue' = jobQueue \ {j}
  /\ UNCHANGED <<serviceVars, jobMeta, jobIndex, workerVars>>

\* recordTransition: whatever the job changed, it counts as a transition of
\* the user.  Counts above the threshold are not told apart from it.
Recorded(u) == IF transitions[u] < FlappingThreshold THEN transitions[u] + 1 ELSE FlappingThreshold

RecordTransition(d) == LET u == UserOfCall(d) IN
  /\ worker[d].at = "execute" /\ call[d].at = "returned"
  /\ transitions' = [transitions EXCEPT ![u] = Recorded(u)]
  /\ worker' = [worker EXCEPT ![d].at = "announce",
                  ![d].flapping = FlappingThreshold > 0 /\ Recorded(u) >= FlappingThreshold]
  /\ UNCHANGED <<serviceVars, jobVars>>

\* A recorded transition leaves the window.
WindowPasses(u) == /\ transitions[u] > 0
                   /\ transitions' = [transitions EXCEPT ![u] = @ - 1]
                   /\ UNCHANGED <<serviceVars, jobVars, worker>>

\* What a finished job has to tell: the user went offline, or tabs remain.
OfflineEvent(r) == PresenceEvent("user_offline", r.version, r.count, NoState)
TabsEvent(r, state) == PresenceEvent("user_tabs", r.version, r.count, state)

AfterAnnounce(d) == LET r == call[d].reply IN
  IF r.transition # "offline" /\ r.count > 0 /\ call[d].changed THEN "presence" ELSE "cleanup"

\* Mutant: only the last session of a user is announced.
AnnounceOfflineOnly(d) == LET r == call[d].reply IN
  /\ WorkerGoto(d, "announce", AfterAnnounce(d))
  /\ IF r.transition = "offline" /\ ~worker[d].flapping
     THEN Publish(UserOfCall(d), OfflineEvent(r)) ELSE UNCHANGED view
  /\ UNCHANGED <<storeVars, sideVars, call, jobVars, transitions>>

\* The offline event is suppressed while the user is flapping; tab events are
\* not.  A Disconnect that found nothing has nothing to tell.
AnnounceJob(d) == LET r == call[d].reply IN
  /\ WorkerGoto(d, "announce", AfterAnnounce(d))
  /\ \/ /\ r.transition = "offline" /\ ~worker[d].flapping
        /\ Publish(UserOfCall(d), OfflineEvent(r))
     \/ /\ r.transition # "offline" /\ r.count > 0
        /\ Publish(UserOfCall(d), TabsEvent(r, call[d].agg))
     \/ /\ IF r.transition = "offline" THEN worker[d].flapping ELSE r.count = 0
        /\ UNCHANGED view
  /\ UNCHANGED <<storeVars, sideVars, call, jobVars, transitions>>

\* A changed aggregate is told in a second event, of the same version.
AnnouncePresence(d) == LET r == call[d].reply IN
  /\ WorkerGoto(d, "presence", "cleanup")
  /\ Publish(UserOfCall(d), PresenceEvent("user_presence", r.version, r.count, call[d].agg))
  /\ UNCHANGED <<storeVars, sideVars, call, jobVars, transitions>>

FinishJob(d) == LET j == worker[d].job IN
  /\ worker[d].at = "cleanup"
  /\ jobQueue' = jobQueue \ {j}
  /\ jobMeta' = jobMeta \ {j}
  /\ jobIndex' = jobIndex \ {j}
  /\ worker' = [worker EXCEPT ![d] = [IdleWorker EXCEPT !.at = "scope"]]
  /\ call' = [call EXCEPT ![d] = NoCall]
  /\ UNCHANGED <<storeVars, sideVars, view, transitions>>

\* A worker stops anywhere (or a Redis error ends executeJob early): what it
\* had read is lost and the job, still queued, will be executed again.
DebouncerStops(d) ==
  /\ "debouncer_stops" \in Faults
  /\ worker[d].at # "idle"
  /\ worker' = [worker EXCEPT ![d] = IdleWorker]
  /\ call' = [call EXCEPT ![d] = NoCall]
  /\ UNCHANGED <<storeVars, sideVars, view, jobVars, transitions>>

\* JobTTL passes before a worker gets to the job.
JobExpires(j) == /\ "job_expires" \in Faults
                 /\ j \in jobMeta
                 /\ jobMeta' = jobMeta \ {j}
                 /\ UNCHANGED <<serviceVars, jobQueue, jobIndex, workerVars>>

ExecuteStep(d) ==
  \/ DisconnectStep(d) /\ UNCHANGED <<jobVars, workerVars>>
  \/ RecordTransition(d) \/ AnnounceJob(d) \/ AnnouncePresence(d) \/ FinishJob(d)

DebouncerNext ==
  \/ \E d \in Debouncers :
       \/ EnterScope(d) \/ LeaveScope(d)
       \/ \E j \in Jobs : TakeJob(d, j) \/ DropOrphan(d, j)
       \/ ExecuteStep(d) \/ DebouncerStops(d)
  \/ \E j \in Jobs : JobExpires(j)
  \/ \E u \in Users : WindowPasses(u)
=============================================================================
