----------------------------- MODULE JobWorker -----------------------------
(***************************************************************************)
(* The background-job worker: app/jobs/worker.py, the claim registry       *)
(* app/jobs/drives.py, and the queue routes of app/routers/jobs.py.        *)
(*                                                                         *)
(* One worker thread scans the queued rows each tick and starts, each in   *)
(* a thread of its own, the jobs whose drives it can claim.  The web       *)
(* routes write the same rows from other threads, the operator moves       *)
(* tapes by hand, commits fail, and the process restarts.                  *)
(***************************************************************************)
EXTENDS Naturals, FiniteSets

CONSTANTS
  Job,              \* the ids a row of table jobs can get
  Drive,            \* the drive numbers of the library
  Request,          \* the job submissions considered: [type, drive, tapes]
  MaxRoutes,        \* bound: cancel and pause requests in flight at a time
  MaxRestarts,      \* bound: restarts of the process
  MaxDbFailures,    \* bound: commits that fail
  MaxOperatorLoads  \* bound: tapes the operator loads by hand

JobType == {"write", "verify", "format", "restore",
            "batch_format", "tape_import", "backup"}

ASSUME JobIdsOrdered == Job \subseteq Nat /\ IsFiniteSet(Job)
ASSUME DriveNumbers == Drive \subseteq Nat /\ IsFiniteSet(Drive)
ASSUME RequestShape ==
  Request # {} /\ Request \subseteq [type: JobType, drive: Drive, tapes: Nat]
ASSUME BoundsAreNat ==
  /\ MaxRoutes \in Nat
  /\ MaxRestarts \in Nat
  /\ MaxDbFailures \in Nat
  /\ MaxOperatorLoads \in Nat

VARIABLES
  (* Table jobs, which survives a restart. *)
  status,           \* Job.status, "absent" before the row exists
  request,          \* Job.job_type and Job.params
  cancelRequested,  \* Job.cancel_requested
  pauseRequested,   \* Job.pause_requested
  (* The process. *)
  wpc,              \* where the worker is in its loop
  todo,             \* queued_ids: the rows this tick has not looked at yet
  snapshot,         \* the drives this tick's library_status() saw occupied
  claimed,          \* drives._claimed
  phase,            \* where the thread of a job is in _run_job
  held,             \* the local variable `claimed` of that thread
  outcome,          \* the status the thread is about to write
  inflight,         \* routes that read a row and have not committed yet
  (* The library. *)
  occupied,         \* the drives with a tape in them
  (* History and fault counters. *)
  dispatched,       \* how often a thread was started for the row
  restarts, dbFailures, operatorLoads

rowVars    == <<status, request, cancelRequested, pauseRequested>>
scanVars   == <<wpc, todo, snapshot>>
threadVars == <<phase, held, outcome, dispatched>>
faultVars  == <<restarts, dbFailures, operatorLoads>>
vars == <<rowVars, scanVars, threadVars, faultVars, claimed, inflight, occupied>>

Finished == {"completed", "failed", "interrupted"}
Stopped  == {"cancelled", "paused"}
Status   == {"absent", "queued", "running"} \cup Finished \cup Stopped
Phase    == {"none", "claimed", "work", "settle", "record", "release"}
Route    == [op: {"cancel", "pause"}, job: Job, saw: {"queued", "running"}]
-----------------------------------------------------------------------------
(* Which drives a job needs, and what the registry grants it.              *)

Exact    == {"write", "verify", "format"}
FanOut   == {"batch_format", "tape_import"}

(* The n smallest numbers of S. *)
Smallest(S, n) == {d \in S : Cardinality({e \in S : e < d}) < n}

(* AnyDrives(1, max_n). *)
MostDrives(r) ==
  IF r.type \in FanOut /\ r.tapes > 1 THEN r.tapes ELSE 1

(* The claims try_claim_for can make among the free drives: none or one. *)
Grants(r, free) ==
  IF r.type = "backup" THEN {{}}
  ELSE IF r.type \in Exact THEN {D \in {{r.drive}} : D \subseteq free}
  ELSE {D \in {Smallest(free, MostDrives(r))} : D # {}}

(* What the registry may hand out, against a library_status() that saw     *)
(* `seen` occupied; and the same without subtracting the claims.           *)
FreeForgettingClaims(seen) == Drive \ seen
FreeDrives(seen) == (Drive \ seen) \ claimed

(* The claim D is one the request asked for. *)
Suits(r, D) ==
  /\ r.type = "backup" => D = {}
  /\ r.type \in Exact => D = {r.drive}
  /\ r.type \notin Exact \cup {"backup"} =>
       D # {} /\ Cardinality(D) <= MostDrives(r)
-----------------------------------------------------------------------------
(* The routes that put rows into the queue.                                *)

(* enqueue: a new row, under the next id. *)
Enqueue(r) ==
  \E j \in Job :
    /\ status[j] = "absent"
    /\ \A k \in Job : k < j => status[k] # "absent"
    /\ status' = [status EXCEPT ![j] = "queued"]
    /\ request' = [request EXCEPT ![j] = r]
    /\ UNCHANGED <<cancelRequested, pauseRequested, scanVars, threadVars,
                   faultVars, claimed, inflight, occupied>>

(* The create routes.  do_format refuses a drive without a tape. *)
Submit(r) ==
  /\ r.type = "format" => r.drive \in occupied
  /\ Enqueue(r)

(* retry_job clones any row. *)
Retry(j) == status[j] # "absent" /\ Enqueue(request[j])

(* resume_job clones a paused row. *)
Resume(j) == status[j] = "paused" /\ Enqueue(request[j])

(* cancel_job and pause_job read the row, then write what that read calls  *)
(* for: the row may have moved in between.                                 *)
RouteReads(op, j) ==
  /\ Cardinality(inflight) < MaxRoutes
  /\ status[j] \in {"queued", "running"}
  /\ op = "pause" => request[j].type = "write"
  /\ inflight' = inflight \cup {[op |-> op, job |-> j, saw |-> status[j]]}
  /\ UNCHANGED <<rowVars, scanVars, threadVars, faultVars, claimed, occupied>>

(* A variant that tells only a running job. *)
CancelForgetsFlag(r) ==
  /\ r.op = "cancel"
  /\ cancelRequested' = [cancelRequested EXCEPT ![r.job] = @ \/ r.saw = "running"]
  /\ status' = IF r.saw = "queued" THEN [status EXCEPT ![r.job] = "cancelled"]
                                   ELSE status
  /\ inflight' = inflight \ {r}
  /\ UNCHANGED <<request, pauseRequested, scanVars, threadVars, faultVars,
                 claimed, occupied>>

CancelCommits(r) ==
  /\ r.op = "cancel"
  /\ cancelRequested' = [cancelRequested EXCEPT ![r.job] = TRUE]
  /\ status' = IF r.saw = "queued" THEN [status EXCEPT ![r.job] = "cancelled"]
                                   ELSE status
  /\ inflight' = inflight \ {r}
  /\ UNCHANGED <<request, pauseRequested, scanVars, threadVars, faultVars,
                 claimed, occupied>>

PauseCommits(r) ==
  /\ r.op = "pause"
  /\ pauseRequested' = [pauseRequested EXCEPT ![r.job] = TRUE]
  /\ status' = IF r.saw = "queued" THEN [status EXCEPT ![r.job] = "paused"]
                                   ELSE status
  /\ inflight' = inflight \ {r}
  /\ UNCHANGED <<request, cancelRequested, scanVars, threadVars, faultVars,
                 claimed, occupied>>
-----------------------------------------------------------------------------
(* The worker thread.                                                      *)

(* _recover_interrupted, on start; and a version that leaves the rows.     *)
RecoverNothing ==
  /\ wpc = "recover"
  /\ wpc' = "idle"
  /\ UNCHANGED <<rowVars, todo, snapshot, threadVars, faultVars, claimed,
                 inflight, occupied>>

Recover ==
  /\ wpc = "recover"
  /\ status' = [j \in Job |->
                  IF status[j] = "running" THEN "interrupted" ELSE status[j]]
  /\ wpc' = "idle"
  /\ UNCHANGED <<request, cancelRequested, pauseRequested, todo, snapshot,
                 threadVars, faultVars, claimed, inflight, occupied>>

(* A tick begins: list the queued rows... *)
ListQueued ==
  /\ wpc = "idle"
  /\ todo' = {j \in Job : status[j] = "queued"}
  /\ wpc' = "snapshot"
  /\ UNCHANGED <<rowVars, snapshot, threadVars, faultVars, claimed, inflight,
                 occupied>>

(* ... then ask the changer once what is where. *)
Snapshot ==
  /\ wpc = "snapshot"
  /\ snapshot' = occupied
  /\ wpc' = "scan"
  /\ UNCHANGED <<rowVars, todo, threadVars, faultVars, claimed, inflight,
                 occupied>>

(* library_status() raises: run() logs it and tries again next tick. *)
SnapshotFails ==
  /\ wpc = "snapshot"
  /\ wpc' = "idle"
  /\ todo' = {}
  /\ UNCHANGED <<rowVars, snapshot, threadVars, faultVars, claimed, inflight,
                 occupied>>

(* The row the scan is at: the oldest one left. *)
Oldest(j) == j \in todo /\ \A k \in todo : j <= k

(* The row is not queued any more, or its drives are not free. *)
SkipJob(j) ==
  /\ wpc = "scan"
  /\ Oldest(j)
  /\ status[j] # "queued" \/ Grants(request[j], FreeDrives(snapshot)) = {}
  /\ todo' = todo \ {j}
  /\ UNCHANGED <<rowVars, wpc, snapshot, threadVars, faultVars, claimed,
                 inflight, occupied>>

(* try_claim_for succeeds on a row read as queued; the commit is to come. *)
ClaimFor(j) ==
  /\ wpc = "scan"
  /\ Oldest(j)
  /\ status[j] = "queued"
  /\ \E D \in Grants(request[j], FreeDrives(snapshot)) :
       /\ held' = [held EXCEPT ![j] = D]
       /\ claimed' = claimed \cup D
  /\ phase' = [phase EXCEPT ![j] = "claimed"]
  /\ wpc' = "commit"
  /\ UNCHANGED <<rowVars, todo, snapshot, outcome, dispatched, faultVars,
                 inflight, occupied>>

(* The row becomes running, whatever it is by now, and the thread starts.  *)
StartJob(j) ==
  /\ wpc = "commit"
  /\ phase[j] = "claimed"
  /\ status' = [status EXCEPT ![j] = "running"]
  /\ phase' = [phase EXCEPT ![j] = "work"]
  /\ dispatched' = [dispatched EXCEPT ![j] = @ + 1]
  /\ todo' = todo \ {j}
  /\ wpc' = "scan"
  /\ UNCHANGED <<request, cancelRequested, pauseRequested, snapshot, held,
                 outcome, faultVars, claimed, inflight, occupied>>

(* The commit raises instead: the exception leaves _scan_and_start, the    *)
(* claim is never released.                                                *)
StartFails(j) ==
  /\ wpc = "commit"
  /\ phase[j] = "claimed"
  /\ dbFailures < MaxDbFailures
  /\ dbFailures' = dbFailures + 1
  /\ phase' = [phase EXCEPT ![j] = "none"]
  /\ held' = [held EXCEPT ![j] = {}]
  /\ todo' = {}
  /\ snapshot' = {}
  /\ wpc' = "idle"
  /\ UNCHANGED <<rowVars, outcome, dispatched, restarts,
                 operatorLoads, claimed, inflight, occupied>>

(* Nothing is left of this tick. *)
EndScan ==
  /\ wpc = "scan"
  /\ todo = {}
  /\ wpc' = "idle"
  /\ snapshot' = {}
  /\ UNCHANGED <<rowVars, todo, threadVars, faultVars, claimed, inflight,
                 occupied>>
-----------------------------------------------------------------------------
(* The thread of job j: _run_job.                                          *)

(* Its handler moves tapes into and out of the drives it was given; a      *)
(* format job only looks at the one tape it was told about.                *)
LoadsTape(j, d) ==
  /\ phase[j] = "work"
  /\ request[j].type # "format"
  /\ d \in held[j] \ occupied
  /\ occupied' = occupied \cup {d}
  /\ UNCHANGED <<rowVars, scanVars, threadVars, faultVars, claimed, inflight>>

UnloadsTape(j, d) ==
  /\ phase[j] = "work"
  /\ request[j].type # "format"
  /\ d \in held[j] \cap occupied
  /\ occupied' = occupied \ {d}
  /\ UNCHANGED <<rowVars, scanVars, threadVars, faultVars, claimed, inflight>>

(* dispatch returns.  format_tape insists on a tape in the drive. *)
DispatchReturns(j) ==
  /\ phase[j] = "work"
  /\ request[j].type = "format" => held[j] \subseteq occupied
  /\ phase' = [phase EXCEPT ![j] = "settle"]
  /\ UNCHANGED <<rowVars, scanVars, held, outcome, dispatched, faultVars,
                 claimed, inflight, occupied>>

(* dispatch raises, with or without tapes left in its drives. *)
DispatchRaises(j) ==
  /\ phase[j] = "work"
  /\ phase' = [phase EXCEPT ![j] = "record"]
  /\ outcome' = [outcome EXCEPT ![j] = "failed"]
  /\ UNCHANGED <<rowVars, scanVars, held, dispatched, faultVars, claimed,
                 inflight, occupied>>

(* The last look at the flags: cancel wins over pause.  The variant writes *)
(* a status JobStatus does not have.                                       *)
SettleUnknownStatus(j) ==
  /\ phase[j] = "settle"
  /\ phase' = [phase EXCEPT ![j] = "record"]
  /\ outcome' = [outcome EXCEPT ![j] =
                   IF cancelRequested[j] THEN "stopped" ELSE "completed"]
  /\ UNCHANGED <<rowVars, scanVars, held, dispatched, faultVars, claimed,
                 inflight, occupied>>

Settle(j) ==
  /\ phase[j] = "settle"
  /\ phase' = [phase EXCEPT ![j] = "record"]
  /\ outcome' = [outcome EXCEPT ![j] =
                   IF cancelRequested[j] THEN "cancelled"
                   ELSE IF pauseRequested[j] THEN "paused" ELSE "completed"]
  /\ UNCHANGED <<rowVars, scanVars, held, dispatched, faultVars, claimed,
                 inflight, occupied>>

(* The outcome is committed. *)
Record(j) ==
  /\ phase[j] = "record"
  /\ status' = [status EXCEPT ![j] = outcome[j]]
  /\ phase' = [phase EXCEPT ![j] = "release"]
  /\ UNCHANGED <<request, cancelRequested, pauseRequested, scanVars, held,
                 outcome, dispatched, faultVars, claimed, inflight, occupied>>

(* The commit raises: a first time the handler records a failure instead,  *)
(* and when that one raises too only the finally clause is left.           *)
RecordFails(j) ==
  /\ phase[j] = "record"
  /\ dbFailures < MaxDbFailures
  /\ dbFailures' = dbFailures + 1
  /\ \/ /\ outcome[j] # "failed"
        /\ outcome' = [outcome EXCEPT ![j] = "failed"]
        /\ UNCHANGED phase
     \/ /\ outcome[j] = "failed"
        /\ phase' = [phase EXCEPT ![j] = "release"]
        /\ UNCHANGED outcome
  /\ UNCHANGED <<rowVars, scanVars, held, dispatched, restarts, operatorLoads,
                 claimed, inflight, occupied>>

(* finally: drives.release, and the thread is gone; and a version that     *)
(* gives back nothing.                                                     *)
ReleaseNothing(j) ==
  /\ phase[j] = "release"
  /\ held' = [held EXCEPT ![j] = {}]
  /\ phase' = [phase EXCEPT ![j] = "none"]
  /\ outcome' = [outcome EXCEPT ![j] = "failed"]
  /\ UNCHANGED <<rowVars, scanVars, dispatched, faultVars, claimed,
                 inflight, occupied>>

Release(j) ==
  /\ phase[j] = "release"
  /\ claimed' = claimed \ held[j]
  /\ held' = [held EXCEPT ![j] = {}]
  /\ phase' = [phase EXCEPT ![j] = "none"]
  /\ outcome' = [outcome EXCEPT ![j] = "failed"]
  /\ UNCHANGED <<rowVars, scanVars, dispatched, faultVars, inflight,
                 occupied>>
-----------------------------------------------------------------------------
(* The operator at the library page, and the process.                      *)

(* do_load and do_unload look at no claim. *)
OperatorLoads(d) ==
  /\ operatorLoads < MaxOperatorLoads
  /\ d \notin occupied
  /\ occupied' = occupied \cup {d}
  /\ operatorLoads' = operatorLoads + 1
  /\ UNCHANGED <<rowVars, scanVars, threadVars, restarts, dbFailures, claimed,
                 inflight>>

OperatorUnloads(d) ==
  /\ d \in occupied
  /\ occupied' = occupied \ {d}
  /\ UNCHANGED <<rowVars, scanVars, threadVars, faultVars, claimed, inflight>>

(* The process dies and starts again: threads, registry and requests in    *)
(* flight are gone, the rows and the tapes are where they were.            *)
Restart ==
  /\ restarts < MaxRestarts
  /\ restarts' = restarts + 1
  /\ wpc' = "recover"
  /\ todo' = {}
  /\ snapshot' = {}
  /\ claimed' = {}
  /\ phase' = [j \in Job |-> "none"]
  /\ held' = [j \in Job |-> {}]
  /\ outcome' = [j \in Job |-> "failed"]
  /\ inflight' = {}
  /\ UNCHANGED <<rowVars, dispatched, dbFailures, operatorLoads, occupied>>
-----------------------------------------------------------------------------
(* A first start of the application with an empty jobs table; the operator *)
(* may have left tapes in the drives.                                      *)
Init ==
  /\ status = [j \in Job |-> "absent"]
  /\ request = [j \in Job |-> CHOOSE r \in Request : TRUE]
  /\ cancelRequested = [j \in Job |-> FALSE]
  /\ pauseRequested = [j \in Job |-> FALSE]
  /\ wpc = "recover"
  /\ todo = {}
  /\ snapshot = {}
  /\ claimed = {}
  /\ phase = [j \in Job |-> "none"]
  /\ held = [j \in Job |-> {}]
  /\ outcome = [j \in Job |-> "failed"]
  /\ inflight = {}
  /\ occupied \in SUBSET Drive
  /\ dispatched = [j \in Job |-> 0]
  /\ restarts = 0 /\ dbFailures = 0 /\ operatorLoads = 0

RouteStep ==
  \/ \E r \in Request : Submit(r)
  \/ \E j \in Job : Retry(j) \/ Resume(j)
  \/ \E op \in {"cancel", "pause"}, j \in Job : RouteReads(op, j)
  \/ \E r \in inflight : CancelCommits(r) \/ PauseCommits(r)

WorkerStep ==
  \/ Recover \/ ListQueued \/ Snapshot \/ SnapshotFails \/ EndScan
  \/ \E j \in Job : SkipJob(j) \/ ClaimFor(j) \/ StartJob(j) \/ StartFails(j)

ThreadStep(j) ==
  \/ \E d \in Drive : LoadsTape(j, d) \/ UnloadsTape(j, d)
  \/ DispatchReturns(j) \/ DispatchRaises(j)
  \/ Settle(j) \/ Record(j) \/ RecordFails(j) \/ Release(j)

OutsideStep ==
  \/ \E d \in Drive : OperatorLoads(d) \/ OperatorUnloads(d)
  \/ Restart

Next ==
  \/ RouteStep
  \/ WorkerStep
  \/ \E j \in Job : ThreadStep(j)
  \/ OutsideStep

Spec == Init /\ [][Next]_vars
-----------------------------------------------------------------------------
(* The worker loops for ever and a library_status() that is asked again    *)
(* and again answers in the end.                                           *)
WorkerFairness ==
  /\ WF_vars(Recover)
  /\ WF_vars(ListQueued)
  /\ SF_vars(Snapshot)
  /\ WF_vars(EndScan)
  /\ WF_vars(\E j \in Job : SkipJob(j) \/ ClaimFor(j))
  /\ WF_vars(\E j \in Job : StartJob(j))

(* Every hardware call has a timeout, so a handler returns or raises. *)
ThreadFairness ==
  \A j \in Job : /\ WF_vars(DispatchReturns(j) \/ DispatchRaises(j))
                 /\ WF_vars(Settle(j))
                 /\ WF_vars(Record(j))
                 /\ WF_vars(Release(j))

(* The operator takes out, sooner or later, a tape left in a drive. *)
OperatorFairness == \A d \in Drive : WF_vars(OperatorUnloads(d))

(* An operator who follows the manual and leaves a loaded tape alone. *)
FairSpec == Spec /\ WorkerFairness /\ ThreadFairness

LiveSpec == FairSpec /\ OperatorFairness
-----------------------------------------------------------------------------
(* Every variable has its type. *)
TypeOK ==
  /\ status \in [Job -> Status]
  /\ request \in [Job -> Request]
  /\ cancelRequested \in [Job -> BOOLEAN]
  /\ pauseRequested \in [Job -> BOOLEAN]
  /\ wpc \in {"recover", "idle", "snapshot", "scan", "commit"}
  /\ todo \in SUBSET Job
  /\ snapshot \in SUBSET Drive
  /\ claimed \in SUBSET Drive
  /\ phase \in [Job -> Phase]
  /\ held \in [Job -> SUBSET Drive]
  /\ outcome \in [Job -> Finished \cup Stopped]
  /\ inflight \in SUBSET Route
  /\ occupied \in SUBSET Drive
  /\ dispatched \in [Job -> Nat]
  /\ restarts \in 0 .. MaxRestarts
  /\ dbFailures \in 0 .. MaxDbFailures
  /\ operatorLoads \in 0 .. MaxOperatorLoads

(* Drives are never shared: no two jobs, nor a job and the one the worker  *)
(* is about to start, hold the same drive, across releases, failed commits *)
(* and restarts (app/jobs/drives.py:78, worker.py:254).                    *)
ExclusiveDrives ==
  \A j, k \in Job : j # k => held[j] \cap held[k] = {}

(* The registry covers every drive a thread may be using, so a drive in    *)
(* use never looks free (drives.py:26).                                    *)
HoldersRegistered == \A j \in Job : held[j] \subseteq claimed

(* What a thread runs with is what its own job asked for, whatever else    *)
(* was claimed or released meanwhile (drives.py:53, worker.py:204).        *)
NeedMet == \A j \in Job : phase[j] # "none" => Suits(request[j], held[j])

(* As long as every commit succeeds the registry holds nothing but the     *)
(* drives of jobs being started or running: nothing leaks, not even when   *)
(* a job fails, is cancelled, or the process restarts (worker.py:253).     *)
NothingLeaked == dbFailures = 0 => claimed = UNION {held[j] : j \in Job}

(* A row is run at most once, ever: a retry, a resume, a restart or a      *)
(* route racing the scan never makes the worker run a row again            *)
(* (worker.py:156, worker.py:202, routers/jobs.py:207).                    *)
AtMostOnce == \A j \in Job : dispatched[j] <= 1

(* Once the worker has recovered, a row shown as running has a thread      *)
(* unless a commit failed (worker.py:12, worker.py:156).                   *)
RunningIsLive ==
  dbFailures = 0 /\ wpc # "recover" =>
    \A j \in Job : status[j] = "running" => phase[j] # "none"

(* While a thread works its row never shows that the job is over, except   *)
(* that a cancel or pause which read the row while queued says so, and it  *)
(* has then raised the flag the thread obeys (routers/jobs.py:194-234).    *)
LiveRowNotFinished ==
  \A j \in Job : phase[j] \in {"work", "settle", "record"} =>
    \/ status[j] = "running"
    \/ status[j] = "cancelled" /\ cancelRequested[j]
    \/ status[j] = "paused" /\ pauseRequested[j]

(* The registry and the jobs agree: what jobs hold is held by one job      *)
(* each, and, as long as commits succeed, is all the registry holds        *)
(* (app/jobs/drives.py:78, worker.py:253).                                 *)
ClaimsMatchJobs == ExclusiveDrives /\ NothingLeaked

(* Rows and threads agree, through cancels, pauses, retries, restarts and  *)
(* routes that race the scan: a row gets one thread at the most, ever, a   *)
(* running row has its thread, and the row of a working thread never shows *)
(* that the job is over unless the thread has been told to stop            *)
(* (worker.py:12, :156, :202, routers/jobs.py:194-234).                    *)
RowsMatchThreads == AtMostOnce /\ RunningIsLive /\ LiveRowNotFinished

(* The outcome of a job is final: only a route that read the row before    *)
(* it was finished can still change it (worker.py:234-252).                *)
KeepsOutcomes ==
  \A j \in Job : status[j] \in Finished /\ (\A r \in inflight : r.job # j)
                  => status'[j] = status[j]

OutcomeIsFinal == [][KeepsOutcomes]_vars

(* The jobs, seen through what their threads hold, obey the promise of the *)
(* registry: all drives at once, exclusively, returned in one step.        *)
Reservation == INSTANCE DriveReservation
KeepsReservation == Reservation!Spec

(* Every job that is queued gets its turn and ends, provided the operator  *)
(* clears drives left loaded (worker.py:167).                              *)
EveryJobEnds ==
  \A j \in Job : status[j] = "queued" ~> status[j] \in Finished \cup Stopped

(* user-manual/jobs.md:42: a format job formats an already loaded tape, so *)
(* the job gets out of the queue while the tape is in its drive.           *)
FormatLeavesQueue ==
  \A j \in Job : (status[j] = "queued" /\ request[j].type = "format"
                  /\ request[j].drive \in occupied) ~> status[j] # "queued"
=============================================================================
