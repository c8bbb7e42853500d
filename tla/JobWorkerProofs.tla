-------------------------- MODULE JobWorkerProofs --------------------------
(***************************************************************************)
(* What JobWorker guarantees for every set of jobs and drives, every queue *)
(* of requests and every number of restarts and failed commits.            *)
(***************************************************************************)
EXTENDS JobWorker, FiniteSetTheorems, TLAPS

(* A claim the registry grants is one the job asked for.                   *)
LEMMA GrantsFree ==
  ASSUME NEW r \in Request, NEW F \in SUBSET Drive, NEW D \in Grants(r, F)
  PROVE  D \subseteq F
  BY DEF Grants, Smallest

(* Every variable keeps its type. *)
LEMMA TypeStep == TypeOK /\ [Next]_vars => TypeOK'
<1>. SUFFICES ASSUME TypeOK, [Next]_vars PROVE TypeOK'
  OBVIOUS
<1>. USE DEF TypeOK, rowVars, scanVars, threadVars, faultVars, Status, Phase,
             Finished, Stopped, Route
<1>1. ASSUME NEW r \in Request, Submit(r)
      PROVE  TypeOK'
  BY <1>1 DEF Submit, Enqueue
<1>2. ASSUME NEW j \in Job, Retry(j)
      PROVE  TypeOK'
  BY <1>2 DEF Retry, Enqueue
<1>3. ASSUME NEW j \in Job, Resume(j)
      PROVE  TypeOK'
  BY <1>3 DEF Resume, Enqueue
<1>4. ASSUME NEW op \in {"cancel", "pause"}, NEW j \in Job, RouteReads(op, j)
      PROVE  TypeOK'
  BY <1>4 DEF RouteReads
<1>5. ASSUME NEW r \in inflight, CancelCommits(r)
      PROVE  TypeOK'
  BY <1>5 DEF CancelCommits
<1>6. ASSUME NEW r \in inflight, PauseCommits(r)
      PROVE  TypeOK'
  BY <1>6 DEF PauseCommits
<1>7. CASE Recover
  BY <1>7 DEF Recover
<1>8. CASE ListQueued
  BY <1>8 DEF ListQueued
<1>9. CASE Snapshot
  BY <1>9 DEF Snapshot
<1>10. CASE SnapshotFails
  BY <1>10 DEF SnapshotFails
<1>11. CASE EndScan
  BY <1>11 DEF EndScan
<1>12. ASSUME NEW j \in Job, SkipJob(j)
      PROVE  TypeOK'
  BY <1>12 DEF SkipJob
<1>13. ASSUME NEW j \in Job, ClaimFor(j)
      PROVE  TypeOK'
  <2>1. FreeDrives(snapshot) \in SUBSET Drive
    BY DEF FreeDrives
  <2>2. ASSUME NEW D \in Grants(request[j], FreeDrives(snapshot))
        PROVE  D \in SUBSET Drive
    BY <2>1, <2>2, GrantsFree
  <2>. QED
    BY <1>13, <2>2 DEF ClaimFor
<1>14. ASSUME NEW j \in Job, StartJob(j)
      PROVE  TypeOK'
  BY <1>14 DEF StartJob
<1>15. ASSUME NEW j \in Job, StartFails(j)
      PROVE  TypeOK'
  BY <1>15, BoundsAreNat DEF StartFails
<1>16. ASSUME NEW j \in Job, NEW d \in Drive, LoadsTape(j, d)
      PROVE  TypeOK'
  BY <1>16 DEF LoadsTape
<1>17. ASSUME NEW j \in Job, NEW d \in Drive, UnloadsTape(j, d)
      PROVE  TypeOK'
  BY <1>17 DEF UnloadsTape
<1>18. ASSUME NEW j \in Job, DispatchReturns(j)
      PROVE  TypeOK'
  BY <1>18 DEF DispatchReturns
<1>19. ASSUME NEW j \in Job, DispatchRaises(j)
      PROVE  TypeOK'
  BY <1>19 DEF DispatchRaises
<1>20. ASSUME NEW j \in Job, Settle(j)
      PROVE  TypeOK'
  BY <1>20 DEF Settle
<1>21. ASSUME NEW j \in Job, Record(j)
      PROVE  TypeOK'
  BY <1>21 DEF Record
<1>22. ASSUME NEW j \in Job, RecordFails(j)
      PROVE  TypeOK'
  BY <1>22, BoundsAreNat DEF RecordFails
<1>23. ASSUME NEW j \in Job, Release(j)
      PROVE  TypeOK'
  BY <1>23 DEF Release
<1>24. ASSUME NEW d \in Drive, OperatorLoads(d)
      PROVE  TypeOK'
  BY <1>24, BoundsAreNat DEF OperatorLoads
<1>25. ASSUME NEW d \in Drive, OperatorUnloads(d)
      PROVE  TypeOK'
  BY <1>25 DEF OperatorUnloads
<1>26. CASE Restart
  BY <1>26, BoundsAreNat DEF Restart
<1>27. CASE UNCHANGED vars
  BY <1>27 DEF vars
<1>. QED
  BY <1>1, <1>2, <1>3, <1>4, <1>5, <1>6, <1>7, <1>8, <1>9, <1>10, <1>11, <1>12, <1>13, <1>14, <1>15, <1>16, <1>17, <1>18, <1>19, <1>20, <1>21, <1>22, <1>23, <1>24, <1>25, <1>26, <1>27
  DEF Next, RouteStep, WorkerStep, ThreadStep, OutsideStep

(* Spec keeps every variable in its type. *)
THEOREM TypeCorrect == Spec => []TypeOK
<1>1. Init => TypeOK
  BY RequestShape, BoundsAreNat
  DEF Init, TypeOK, Status, Phase, Finished, Stopped, Route
<1>. QED
  BY <1>1, TypeStep, PTL DEF Spec
-----------------------------------------------------------------------------
(* Where a thread is, against what its row shows and where the worker is:  *)
(* the facts that make the other invariants inductive.                     *)
ThreadMatchesRow ==
  /\ \A j \in Job : phase[j] = "none" => held[j] = {}
  /\ \A j \in Job : phase[j] = "claimed" =>
       wpc = "commit" /\ status[j] \in {"queued"} \cup Stopped
  /\ \A j, k \in Job : phase[j] = "claimed" /\ phase[k] = "claimed" => j = k
  /\ \A j \in Job : status[j] = "absent" => phase[j] = "none"
  /\ \A j \in Job : status[j] = "queued" => phase[j] \in {"none", "claimed"}
  /\ wpc = "recover" => \A j \in Job : phase[j] = "none"

LEMMA ThreadMatchesRowStep ==
  TypeOK /\ ThreadMatchesRow /\ [Next]_vars => ThreadMatchesRow'
<1>. SUFFICES ASSUME TypeOK, ThreadMatchesRow, [Next]_vars
              PROVE  ThreadMatchesRow'
  OBVIOUS
<1>. USE DEF TypeOK, ThreadMatchesRow, rowVars, scanVars, threadVars, faultVars,
             Status, Phase, Finished, Stopped, Route
<1>1. ASSUME NEW r \in Request, Submit(r)
      PROVE  ThreadMatchesRow'
  BY <1>1 DEF Submit, Enqueue
<1>2. ASSUME NEW j \in Job, Retry(j)
      PROVE  ThreadMatchesRow'
  BY <1>2 DEF Retry, Enqueue
<1>3. ASSUME NEW j \in Job, Resume(j)
      PROVE  ThreadMatchesRow'
  BY <1>3 DEF Resume, Enqueue
<1>4. ASSUME NEW op \in {"cancel", "pause"}, NEW j \in Job, RouteReads(op, j)
      PROVE  ThreadMatchesRow'
  BY <1>4 DEF RouteReads
<1>5. ASSUME NEW r \in inflight, CancelCommits(r)
      PROVE  ThreadMatchesRow'
  BY <1>5 DEF CancelCommits
<1>6. ASSUME NEW r \in inflight, PauseCommits(r)
      PROVE  ThreadMatchesRow'
  BY <1>6 DEF PauseCommits
<1>7. CASE Recover
  BY <1>7 DEF Recover
<1>8. CASE ListQueued
  BY <1>8 DEF ListQueued
<1>9. CASE Snapshot
  BY <1>9 DEF Snapshot
<1>10. CASE SnapshotFails
  BY <1>10 DEF SnapshotFails
<1>11. CASE EndScan
  BY <1>11 DEF EndScan
<1>12. ASSUME NEW j \in Job, SkipJob(j)
      PROVE  ThreadMatchesRow'
  BY <1>12 DEF SkipJob
<1>13. ASSUME NEW j \in Job, ClaimFor(j)
      PROVE  ThreadMatchesRow'
  BY <1>13 DEF ClaimFor
<1>14. ASSUME NEW j \in Job, StartJob(j)
      PROVE  ThreadMatchesRow'
  BY <1>14 DEF StartJob
<1>15. ASSUME NEW j \in Job, StartFails(j)
      PROVE  ThreadMatchesRow'
  BY <1>15 DEF StartFails
<1>16. ASSUME NEW j \in Job, NEW d \in Drive, LoadsTape(j, d)
      PROVE  ThreadMatchesRow'
  BY <1>16 DEF LoadsTape
<1>17. ASSUME NEW j \in Job, NEW d \in Drive, UnloadsTape(j, d)
      PROVE  ThreadMatchesRow'
  BY <1>17 DEF UnloadsTape
<1>18. ASSUME NEW j \in Job, DispatchReturns(j)
      PROVE  ThreadMatchesRow'
  BY <1>18 DEF DispatchReturns
<1>19. ASSUME NEW j \in Job, DispatchRaises(j)
      PROVE  ThreadMatchesRow'
  BY <1>19 DEF DispatchRaises
<1>20. ASSUME NEW j \in Job, Settle(j)
      PROVE  ThreadMatchesRow'
  BY <1>20 DEF Settle
<1>21. ASSUME NEW j \in Job, Record(j)
      PROVE  ThreadMatchesRow'
  BY <1>21 DEF Record
<1>22. ASSUME NEW j \in Job, RecordFails(j)
      PROVE  ThreadMatchesRow'
  BY <1>22 DEF RecordFails
<1>23. ASSUME NEW j \in Job, Release(j)
      PROVE  ThreadMatchesRow'
  BY <1>23 DEF Release
<1>24. ASSUME NEW d \in Drive, OperatorLoads(d)
      PROVE  ThreadMatchesRow'
  BY <1>24 DEF OperatorLoads
<1>25. ASSUME NEW d \in Drive, OperatorUnloads(d)
      PROVE  ThreadMatchesRow'
  BY <1>25 DEF OperatorUnloads
<1>26. CASE Restart
  BY <1>26 DEF Restart
<1>27. CASE UNCHANGED vars
  BY <1>27 DEF vars
<1>. QED
  BY <1>1, <1>2, <1>3, <1>4, <1>5, <1>6, <1>7, <1>8, <1>9, <1>10, <1>11, <1>12, <1>13, <1>14, <1>15, <1>16, <1>17, <1>18, <1>19, <1>20, <1>21, <1>22, <1>23, <1>24, <1>25, <1>26, <1>27
  DEF Next, RouteStep, WorkerStep, ThreadStep, OutsideStep

(* No drive has two holders and the registry covers every holder.          *)
Exclusion == ExclusiveDrives /\ HoldersRegistered

LEMMA ExclusionStep ==
  TypeOK /\ ThreadMatchesRow /\ Exclusion /\ [Next]_vars => Exclusion'
<1>. SUFFICES ASSUME TypeOK, ThreadMatchesRow, Exclusion, [Next]_vars
              PROVE  Exclusion'
  OBVIOUS
<1>. USE DEF TypeOK, Exclusion, ExclusiveDrives, HoldersRegistered, rowVars,
             scanVars, threadVars, faultVars
<1>1. ASSUME NEW r \in Request, Submit(r)
      PROVE  Exclusion'
  BY <1>1 DEF Submit, Enqueue
<1>2. ASSUME NEW j \in Job, Retry(j)
      PROVE  Exclusion'
  BY <1>2 DEF Retry, Enqueue
<1>3. ASSUME NEW j \in Job, Resume(j)
      PROVE  Exclusion'
  BY <1>3 DEF Resume, Enqueue
<1>4. ASSUME NEW op \in {"cancel", "pause"}, NEW j \in Job, RouteReads(op, j)
      PROVE  Exclusion'
  BY <1>4 DEF RouteReads
<1>5. ASSUME NEW r \in inflight, CancelCommits(r)
      PROVE  Exclusion'
  BY <1>5 DEF CancelCommits
<1>6. ASSUME NEW r \in inflight, PauseCommits(r)
      PROVE  Exclusion'
  BY <1>6 DEF PauseCommits
<1>7. CASE Recover
  BY <1>7 DEF Recover
<1>8. CASE ListQueued
  BY <1>8 DEF ListQueued
<1>9. CASE Snapshot
  BY <1>9 DEF Snapshot
<1>10. CASE SnapshotFails
  BY <1>10 DEF SnapshotFails
<1>11. CASE EndScan
  BY <1>11 DEF EndScan
<1>12. ASSUME NEW j \in Job, SkipJob(j)
      PROVE  Exclusion'
  BY <1>12 DEF SkipJob
<1>13. ASSUME NEW j \in Job, ClaimFor(j)
      PROVE  Exclusion'
  <2>1. FreeDrives(snapshot) \in SUBSET Drive
    BY DEF FreeDrives
  <2>2. \A D \in Grants(request[j], FreeDrives(snapshot)) :
           D \in SUBSET Drive /\ D \cap claimed = {}
    BY <2>1, GrantsFree DEF TypeOK, FreeDrives
  <2>. QED
    BY <1>13, <2>2 DEF ClaimFor
<1>14. ASSUME NEW j \in Job, StartJob(j)
      PROVE  Exclusion'
  BY <1>14 DEF StartJob
<1>15. ASSUME NEW j \in Job, StartFails(j)
      PROVE  Exclusion'
  BY <1>15 DEF StartFails
<1>16. ASSUME NEW j \in Job, NEW d \in Drive, LoadsTape(j, d)
      PROVE  Exclusion'
  BY <1>16 DEF LoadsTape
<1>17. ASSUME NEW j \in Job, NEW d \in Drive, UnloadsTape(j, d)
      PROVE  Exclusion'
  BY <1>17 DEF UnloadsTape
<1>18. ASSUME NEW j \in Job, DispatchReturns(j)
      PROVE  Exclusion'
  BY <1>18 DEF DispatchReturns
<1>19. ASSUME NEW j \in Job, DispatchRaises(j)
      PROVE  Exclusion'
  BY <1>19 DEF DispatchRaises
<1>20. ASSUME NEW j \in Job, Settle(j)
      PROVE  Exclusion'
  BY <1>20 DEF Settle
<1>21. ASSUME NEW j \in Job, Record(j)
      PROVE  Exclusion'
  BY <1>21 DEF Record
<1>22. ASSUME NEW j \in Job, RecordFails(j)
      PROVE  Exclusion'
  BY <1>22 DEF RecordFails
<1>23. ASSUME NEW j \in Job, Release(j)
      PROVE  Exclusion'
  BY <1>23 DEF Release
<1>24. ASSUME NEW d \in Drive, OperatorLoads(d)
      PROVE  Exclusion'
  BY <1>24 DEF OperatorLoads
<1>25. ASSUME NEW d \in Drive, OperatorUnloads(d)
      PROVE  Exclusion'
  BY <1>25 DEF OperatorUnloads
<1>26. CASE Restart
  BY <1>26 DEF Restart
<1>27. CASE UNCHANGED vars
  BY <1>27 DEF vars
<1>. QED
  BY <1>1, <1>2, <1>3, <1>4, <1>5, <1>6, <1>7, <1>8, <1>9, <1>10, <1>11, <1>12, <1>13, <1>14, <1>15, <1>16, <1>17, <1>18, <1>19, <1>20, <1>21, <1>22, <1>23, <1>24, <1>25, <1>26, <1>27
  DEF Next, RouteStep, WorkerStep, ThreadStep, OutsideStep

(* The same without failed commits: nothing but the holders is registered. *)
LEMMA NothingLeakedStep ==
  TypeOK /\ ThreadMatchesRow /\ Exclusion /\ NothingLeaked /\ [Next]_vars
    => NothingLeaked'
<1>. SUFFICES ASSUME TypeOK, ThreadMatchesRow, Exclusion, NothingLeaked,
                     [Next]_vars
              PROVE  NothingLeaked'
  OBVIOUS
<1>. USE DEF TypeOK, Exclusion, ExclusiveDrives, HoldersRegistered,
             NothingLeaked, rowVars, scanVars, threadVars, faultVars
<1>1. ASSUME NEW r \in Request, Submit(r)
      PROVE  NothingLeaked'
  BY <1>1 DEF Submit, Enqueue
<1>2. ASSUME NEW j \in Job, Retry(j)
      PROVE  NothingLeaked'
  BY <1>2 DEF Retry, Enqueue
<1>3. ASSUME NEW j \in Job, Resume(j)
      PROVE  NothingLeaked'
  BY <1>3 DEF Resume, Enqueue
<1>4. ASSUME NEW op \in {"cancel", "pause"}, NEW j \in Job, RouteReads(op, j)
      PROVE  NothingLeaked'
  BY <1>4 DEF RouteReads
<1>5. ASSUME NEW r \in inflight, CancelCommits(r)
      PROVE  NothingLeaked'
  BY <1>5 DEF CancelCommits
<1>6. ASSUME NEW r \in inflight, PauseCommits(r)
      PROVE  NothingLeaked'
  BY <1>6 DEF PauseCommits
<1>7. CASE Recover
  BY <1>7 DEF Recover
<1>8. CASE ListQueued
  BY <1>8 DEF ListQueued
<1>9. CASE Snapshot
  BY <1>9 DEF Snapshot
<1>10. CASE SnapshotFails
  BY <1>10 DEF SnapshotFails
<1>11. CASE EndScan
  BY <1>11 DEF EndScan
<1>12. ASSUME NEW j \in Job, SkipJob(j)
      PROVE  NothingLeaked'
  BY <1>12 DEF SkipJob
<1>13. ASSUME NEW j \in Job, ClaimFor(j)
      PROVE  NothingLeaked'
  <2>1. held[j] = {}
    BY <1>13 DEF ClaimFor, ThreadMatchesRow
  <2>. QED
    BY <1>13, <2>1 DEF ClaimFor
<1>14. ASSUME NEW j \in Job, StartJob(j)
      PROVE  NothingLeaked'
  BY <1>14 DEF StartJob
<1>15. ASSUME NEW j \in Job, StartFails(j)
      PROVE  NothingLeaked'
  BY <1>15, BoundsAreNat DEF StartFails
<1>16. ASSUME NEW j \in Job, NEW d \in Drive, LoadsTape(j, d)
      PROVE  NothingLeaked'
  BY <1>16 DEF LoadsTape
<1>17. ASSUME NEW j \in Job, NEW d \in Drive, UnloadsTape(j, d)
      PROVE  NothingLeaked'
  BY <1>17 DEF UnloadsTape
<1>18. ASSUME NEW j \in Job, DispatchReturns(j)
      PROVE  NothingLeaked'
  BY <1>18 DEF DispatchReturns
<1>19. ASSUME NEW j \in Job, DispatchRaises(j)
      PROVE  NothingLeaked'
  BY <1>19 DEF DispatchRaises
<1>20. ASSUME NEW j \in Job, Settle(j)
      PROVE  NothingLeaked'
  BY <1>20 DEF Settle
<1>21. ASSUME NEW j \in Job, Record(j)
      PROVE  NothingLeaked'
  BY <1>21 DEF Record
<1>22. ASSUME NEW j \in Job, RecordFails(j)
      PROVE  NothingLeaked'
  BY <1>22, BoundsAreNat DEF RecordFails
<1>23. ASSUME NEW j \in Job, Release(j)
      PROVE  NothingLeaked'
  BY <1>23 DEF Release
<1>24. ASSUME NEW d \in Drive, OperatorLoads(d)
      PROVE  NothingLeaked'
  BY <1>24 DEF OperatorLoads
<1>25. ASSUME NEW d \in Drive, OperatorUnloads(d)
      PROVE  NothingLeaked'
  BY <1>25 DEF OperatorUnloads
<1>26. CASE Restart
  BY <1>26 DEF Restart
<1>27. CASE UNCHANGED vars
  BY <1>27 DEF vars
<1>. QED
  BY <1>1, <1>2, <1>3, <1>4, <1>5, <1>6, <1>7, <1>8, <1>9, <1>10, <1>11, <1>12, <1>13, <1>14, <1>15, <1>16, <1>17, <1>18, <1>19, <1>20, <1>21, <1>22, <1>23, <1>24, <1>25, <1>26, <1>27
  DEF Next, RouteStep, WorkerStep, ThreadStep, OutsideStep

(* A row that waits has not been run, and none is run twice. *)
RunsOnce ==
  \A j \in Job :
    /\ dispatched[j] <= 1
    /\ status[j] \in {"absent", "queued"} \/ phase[j] = "claimed"
         => dispatched[j] = 0

LEMMA RunsOnceStep ==
  TypeOK /\ ThreadMatchesRow /\ RunsOnce /\ [Next]_vars => RunsOnce'
<1>. SUFFICES ASSUME TypeOK, ThreadMatchesRow, RunsOnce, [Next]_vars
              PROVE  RunsOnce'
  OBVIOUS
<1>. USE DEF TypeOK, RunsOnce, rowVars, scanVars, threadVars, faultVars,
             Status, Finished, Stopped, Phase, Route
<1>1. ASSUME NEW r \in Request, Submit(r)
      PROVE  RunsOnce'
  BY <1>1 DEF Submit, Enqueue
<1>2. ASSUME NEW j \in Job, Retry(j)
      PROVE  RunsOnce'
  BY <1>2 DEF Retry, Enqueue
<1>3. ASSUME NEW j \in Job, Resume(j)
      PROVE  RunsOnce'
  BY <1>3 DEF Resume, Enqueue
<1>4. ASSUME NEW op \in {"cancel", "pause"}, NEW j \in Job, RouteReads(op, j)
      PROVE  RunsOnce'
  BY <1>4 DEF RouteReads
<1>5. ASSUME NEW r \in inflight, CancelCommits(r)
      PROVE  RunsOnce'
  BY <1>5 DEF CancelCommits
<1>6. ASSUME NEW r \in inflight, PauseCommits(r)
      PROVE  RunsOnce'
  BY <1>6 DEF PauseCommits
<1>7. CASE Recover
  BY <1>7 DEF Recover
<1>8. CASE ListQueued
  BY <1>8 DEF ListQueued
<1>9. CASE Snapshot
  BY <1>9 DEF Snapshot
<1>10. CASE SnapshotFails
  BY <1>10 DEF SnapshotFails
<1>11. CASE EndScan
  BY <1>11 DEF EndScan
<1>12. ASSUME NEW j \in Job, SkipJob(j)
      PROVE  RunsOnce'
  BY <1>12 DEF SkipJob
<1>13. ASSUME NEW j \in Job, ClaimFor(j)
      PROVE  RunsOnce'
  BY <1>13 DEF ClaimFor
<1>14. ASSUME NEW j \in Job, StartJob(j)
      PROVE  RunsOnce'
  BY <1>14 DEF StartJob
<1>15. ASSUME NEW j \in Job, StartFails(j)
      PROVE  RunsOnce'
  BY <1>15 DEF StartFails
<1>16. ASSUME NEW j \in Job, NEW d \in Drive, LoadsTape(j, d)
      PROVE  RunsOnce'
  BY <1>16 DEF LoadsTape
<1>17. ASSUME NEW j \in Job, NEW d \in Drive, UnloadsTape(j, d)
      PROVE  RunsOnce'
  BY <1>17 DEF UnloadsTape
<1>18. ASSUME NEW j \in Job, DispatchReturns(j)
      PROVE  RunsOnce'
  BY <1>18 DEF DispatchReturns
<1>19. ASSUME NEW j \in Job, DispatchRaises(j)
      PROVE  RunsOnce'
  BY <1>19 DEF DispatchRaises
<1>20. ASSUME NEW j \in Job, Settle(j)
      PROVE  RunsOnce'
  BY <1>20 DEF Settle
<1>21. ASSUME NEW j \in Job, Record(j)
      PROVE  RunsOnce'
  BY <1>21 DEF Record
<1>22. ASSUME NEW j \in Job, RecordFails(j)
      PROVE  RunsOnce'
  BY <1>22 DEF RecordFails
<1>23. ASSUME NEW j \in Job, Release(j)
      PROVE  RunsOnce'
  BY <1>23 DEF Release
<1>24. ASSUME NEW d \in Drive, OperatorLoads(d)
      PROVE  RunsOnce'
  BY <1>24 DEF OperatorLoads
<1>25. ASSUME NEW d \in Drive, OperatorUnloads(d)
      PROVE  RunsOnce'
  BY <1>25 DEF OperatorUnloads
<1>26. CASE Restart
  BY <1>26 DEF Restart
<1>27. CASE UNCHANGED vars
  BY <1>27 DEF vars
<1>. QED
  BY <1>1, <1>2, <1>3, <1>4, <1>5, <1>6, <1>7, <1>8, <1>9, <1>10, <1>11, <1>12, <1>13, <1>14, <1>15, <1>16, <1>17, <1>18, <1>19, <1>20, <1>21, <1>22, <1>23, <1>24, <1>25, <1>26, <1>27
  DEF Next, RouteStep, WorkerStep, ThreadStep, OutsideStep

(* What a row shows while its thread works, and once it has worked.        *)
RowFollowsThread ==
  /\ LiveRowNotFinished
  /\ RunningIsLive
  /\ dbFailures = 0 =>
       \A j \in Job : phase[j] \in {"claimed", "release"} => status[j] # "running"

LEMMA RowFollowsThreadStep ==
  TypeOK /\ ThreadMatchesRow /\ RowFollowsThread /\ [Next]_vars
    => RowFollowsThread'
<1>. SUFFICES ASSUME TypeOK, ThreadMatchesRow, RowFollowsThread, [Next]_vars
              PROVE  RowFollowsThread'
  OBVIOUS
<1>. USE DEF TypeOK, ThreadMatchesRow, RowFollowsThread, LiveRowNotFinished,
             RunningIsLive, rowVars, scanVars, threadVars, faultVars, Status,
             Finished, Stopped, Phase, Route
<1>1. ASSUME NEW r \in Request, Submit(r)
      PROVE  RowFollowsThread'
  BY <1>1 DEF Submit, Enqueue
<1>2. ASSUME NEW j \in Job, Retry(j)
      PROVE  RowFollowsThread'
  BY <1>2 DEF Retry, Enqueue
<1>3. ASSUME NEW j \in Job, Resume(j)
      PROVE  RowFollowsThread'
  BY <1>3 DEF Resume, Enqueue
<1>4. ASSUME NEW op \in {"cancel", "pause"}, NEW j \in Job, RouteReads(op, j)
      PROVE  RowFollowsThread'
  BY <1>4 DEF RouteReads
<1>5. ASSUME NEW r \in inflight, CancelCommits(r)
      PROVE  RowFollowsThread'
  BY <1>5 DEF CancelCommits
<1>6. ASSUME NEW r \in inflight, PauseCommits(r)
      PROVE  RowFollowsThread'
  BY <1>6 DEF PauseCommits
<1>7. CASE Recover
  BY <1>7 DEF Recover
<1>8. CASE ListQueued
  BY <1>8 DEF ListQueued
<1>9. CASE Snapshot
  BY <1>9 DEF Snapshot
<1>10. CASE SnapshotFails
  BY <1>10 DEF SnapshotFails
<1>11. CASE EndScan
  BY <1>11 DEF EndScan
<1>12. ASSUME NEW j \in Job, SkipJob(j)
      PROVE  RowFollowsThread'
  BY <1>12 DEF SkipJob
<1>13. ASSUME NEW j \in Job, ClaimFor(j)
      PROVE  RowFollowsThread'
  BY <1>13 DEF ClaimFor
<1>14. ASSUME NEW j \in Job, StartJob(j)
      PROVE  RowFollowsThread'
  BY <1>14 DEF StartJob
<1>15. ASSUME NEW j \in Job, StartFails(j)
      PROVE  RowFollowsThread'
  BY <1>15, BoundsAreNat DEF StartFails
<1>16. ASSUME NEW j \in Job, NEW d \in Drive, LoadsTape(j, d)
      PROVE  RowFollowsThread'
  BY <1>16 DEF LoadsTape
<1>17. ASSUME NEW j \in Job, NEW d \in Drive, UnloadsTape(j, d)
      PROVE  RowFollowsThread'
  BY <1>17 DEF UnloadsTape
<1>18. ASSUME NEW j \in Job, DispatchReturns(j)
      PROVE  RowFollowsThread'
  BY <1>18 DEF DispatchReturns
<1>19. ASSUME NEW j \in Job, DispatchRaises(j)
      PROVE  RowFollowsThread'
  BY <1>19 DEF DispatchRaises
<1>20. ASSUME NEW j \in Job, Settle(j)
      PROVE  RowFollowsThread'
  BY <1>20 DEF Settle
<1>21. ASSUME NEW j \in Job, Record(j)
      PROVE  RowFollowsThread'
  BY <1>21 DEF Record
<1>22. ASSUME NEW j \in Job, RecordFails(j)
      PROVE  RowFollowsThread'
  BY <1>22, BoundsAreNat DEF RecordFails
<1>23. ASSUME NEW j \in Job, Release(j)
      PROVE  RowFollowsThread'
  BY <1>23 DEF Release
<1>24. ASSUME NEW d \in Drive, OperatorLoads(d)
      PROVE  RowFollowsThread'
  BY <1>24 DEF OperatorLoads
<1>25. ASSUME NEW d \in Drive, OperatorUnloads(d)
      PROVE  RowFollowsThread'
  BY <1>25 DEF OperatorUnloads
<1>26. CASE Restart
  BY <1>26 DEF Restart
<1>27. CASE UNCHANGED vars
  BY <1>27 DEF vars
<1>. QED
  BY <1>1, <1>2, <1>3, <1>4, <1>5, <1>6, <1>7, <1>8, <1>9, <1>10, <1>11, <1>12, <1>13, <1>14, <1>15, <1>16, <1>17, <1>18, <1>19, <1>20, <1>21, <1>22, <1>23, <1>24, <1>25, <1>26, <1>27
  DEF Next, RouteStep, WorkerStep, ThreadStep, OutsideStep

(* A step of the worker leaves the outcome of a finished job alone.        *)
LEMMA OutcomeStep ==
  TypeOK /\ ThreadMatchesRow /\ RowFollowsThread /\ [Next]_vars
    => KeepsOutcomes
<1>. SUFFICES ASSUME TypeOK, ThreadMatchesRow, RowFollowsThread, [Next]_vars,
                     NEW i \in Job, status[i] \in Finished,
                     \A r \in inflight : r.job # i
              PROVE  status'[i] = status[i]
  BY DEF KeepsOutcomes
<1>. USE DEF TypeOK, ThreadMatchesRow, RowFollowsThread, LiveRowNotFinished,
             rowVars, scanVars, threadVars, faultVars, Status, Finished,
             Stopped, Phase, Route
<1>1. ASSUME NEW r \in Request, Submit(r)
      PROVE  status'[i] = status[i]
  BY <1>1 DEF Submit, Enqueue
<1>2. ASSUME NEW j \in Job, Retry(j)
      PROVE  status'[i] = status[i]
  BY <1>2 DEF Retry, Enqueue
<1>3. ASSUME NEW j \in Job, Resume(j)
      PROVE  status'[i] = status[i]
  BY <1>3 DEF Resume, Enqueue
<1>4. ASSUME NEW op \in {"cancel", "pause"}, NEW j \in Job, RouteReads(op, j)
      PROVE  status'[i] = status[i]
  BY <1>4 DEF RouteReads
<1>5. ASSUME NEW r \in inflight, CancelCommits(r)
      PROVE  status'[i] = status[i]
  BY <1>5 DEF CancelCommits
<1>6. ASSUME NEW r \in inflight, PauseCommits(r)
      PROVE  status'[i] = status[i]
  BY <1>6 DEF PauseCommits
<1>7. CASE Recover
  BY <1>7 DEF Recover
<1>8. CASE ListQueued
  BY <1>8 DEF ListQueued
<1>9. CASE Snapshot
  BY <1>9 DEF Snapshot
<1>10. CASE SnapshotFails
  BY <1>10 DEF SnapshotFails
<1>11. CASE EndScan
  BY <1>11 DEF EndScan
<1>12. ASSUME NEW j \in Job, SkipJob(j)
      PROVE  status'[i] = status[i]
  BY <1>12 DEF SkipJob
<1>13. ASSUME NEW j \in Job, ClaimFor(j)
      PROVE  status'[i] = status[i]
  BY <1>13 DEF ClaimFor
<1>14. ASSUME NEW j \in Job, StartJob(j)
      PROVE  status'[i] = status[i]
  BY <1>14 DEF StartJob
<1>15. ASSUME NEW j \in Job, StartFails(j)
      PROVE  status'[i] = status[i]
  BY <1>15 DEF StartFails
<1>16. ASSUME NEW j \in Job, NEW d \in Drive, LoadsTape(j, d)
      PROVE  status'[i] = status[i]
  BY <1>16 DEF LoadsTape
<1>17. ASSUME NEW j \in Job, NEW d \in Drive, UnloadsTape(j, d)
      PROVE  status'[i] = status[i]
  BY <1>17 DEF UnloadsTape
<1>18. ASSUME NEW j \in Job, DispatchReturns(j)
      PROVE  status'[i] = status[i]
  BY <1>18 DEF DispatchReturns
<1>19. ASSUME NEW j \in Job, DispatchRaises(j)
      PROVE  status'[i] = status[i]
  BY <1>19 DEF DispatchRaises
<1>20. ASSUME NEW j \in Job, Settle(j)
      PROVE  status'[i] = status[i]
  BY <1>20 DEF Settle
<1>21. ASSUME NEW j \in Job, Record(j)
      PROVE  status'[i] = status[i]
  BY <1>21 DEF Record
<1>22. ASSUME NEW j \in Job, RecordFails(j)
      PROVE  status'[i] = status[i]
  BY <1>22 DEF RecordFails
<1>23. ASSUME NEW j \in Job, Release(j)
      PROVE  status'[i] = status[i]
  BY <1>23 DEF Release
<1>24. ASSUME NEW d \in Drive, OperatorLoads(d)
      PROVE  status'[i] = status[i]
  BY <1>24 DEF OperatorLoads
<1>25. ASSUME NEW d \in Drive, OperatorUnloads(d)
      PROVE  status'[i] = status[i]
  BY <1>25 DEF OperatorUnloads
<1>26. CASE Restart
  BY <1>26 DEF Restart
<1>27. CASE UNCHANGED vars
  BY <1>27 DEF vars
<1>. QED
  BY <1>1, <1>2, <1>3, <1>4, <1>5, <1>6, <1>7, <1>8, <1>9, <1>10, <1>11, <1>12, <1>13, <1>14, <1>15, <1>16, <1>17, <1>18, <1>19, <1>20, <1>21, <1>22, <1>23, <1>24, <1>25, <1>26, <1>27
  DEF Next, RouteStep, WorkerStep, ThreadStep, OutsideStep

(* The n smallest elements of a set of drives are at most n: two of them   *)
(* cannot have as many elements below them.                                *)
LEMMA SmallestSize ==
  ASSUME NEW S \in SUBSET Drive, NEW n \in Nat
  PROVE  Cardinality(Smallest(S, n)) <= n
<1>. DEFINE T == Smallest(S, n)
            Below(d) == {e \in S : e < d}
            rank == [d \in T |-> Cardinality(Below(d))]
<1>1. IsFiniteSet(S) /\ IsFiniteSet(T)
  BY DriveNumbers, FS_Subset DEF Smallest
<1>2. \A d \in S : IsFiniteSet(Below(d)) /\ Cardinality(Below(d)) \in Nat
  BY <1>1, FS_Subset, FS_CardinalityType
<1>3. rank \in [T -> 0 .. (n - 1)]
  BY <1>2 DEF Smallest
<1>4. IsFiniteSet(0 .. (n - 1)) /\ Cardinality(0 .. (n - 1)) = n
  BY FS_Interval
<1>5. ASSUME NEW x \in T, NEW y \in T, x < y
      PROVE  rank[x] # rank[y]
  <2>1. x \in S /\ y \in S /\ x \in Nat /\ y \in Nat
    BY DriveNumbers DEF Smallest
  <2>2. ASSUME NEW e \in S, e < x PROVE e < y
    BY <1>5, <2>1, <2>2, DriveNumbers
  <2>3. /\ Below(x) \subseteq Below(y)
        /\ x \in Below(y)
        /\ x \notin Below(x)
    <3>1. ~(x < x)
      BY <2>1
    <3>. QED
      BY <1>5, <2>1, <2>2, <3>1
  <2>4. Below(x) # Below(y) /\ IsFiniteSet(Below(y))
    BY <1>2, <2>1, <2>3
  <2>5. Cardinality(Below(x)) # Cardinality(Below(y))
    BY ONLY <2>3, <2>4, FS_Subset
  <2>. QED
    BY <2>5
<1>6. ASSUME NEW x \in T, NEW y \in T, x # y
      PROVE  rank[x] # rank[y]
  <2>1. x \in Nat /\ y \in Nat
    BY DriveNumbers DEF Smallest
  <2>2. x < y \/ y < x
    BY <1>6, <2>1
  <2>. HIDE DEF T, rank
  <2>. QED
    BY <1>5, <2>2
<1>7. ~(Cardinality(0 .. (n - 1)) < Cardinality(T))
  <2>. HIDE DEF T, rank
  <2>. QED
    BY <1>1, <1>3, <1>4, <1>6, FS_PigeonHole
<1>8. Cardinality(T) \in Nat
  BY <1>1, FS_CardinalityType
<1>. QED
  BY <1>4, <1>7, <1>8

(* What try_claim_for grants suits the request it was asked for.           *)
LEMMA GrantsSuit ==
  ASSUME NEW r \in Request, NEW F \in SUBSET Drive, NEW D \in Grants(r, F)
  PROVE  Suits(r, D)
<1>1. r.type \in JobType /\ MostDrives(r) \in Nat
  BY RequestShape DEF MostDrives
<1>2. Cardinality(Smallest(F, MostDrives(r))) <= MostDrives(r)
  BY <1>1, SmallestSize
<1>3. CASE r.type = "backup"
  BY <1>3 DEF Grants, Suits, Exact
<1>4. CASE r.type \in Exact
  BY <1>4 DEF Grants, Suits, Exact
<1>5. CASE r.type # "backup" /\ r.type \notin Exact
  BY <1>2, <1>5 DEF Grants, Suits
<1>. QED
  BY <1>3, <1>4, <1>5

LEMMA NeedMetStep ==
  TypeOK /\ ThreadMatchesRow /\ NeedMet /\ [Next]_vars => NeedMet'
<1>. SUFFICES ASSUME TypeOK, ThreadMatchesRow, NeedMet, [Next]_vars
              PROVE  NeedMet'
  OBVIOUS
<1>. USE DEF TypeOK, ThreadMatchesRow, NeedMet, rowVars, scanVars, threadVars,
             faultVars, Phase
<1>1. ASSUME NEW r \in Request, Submit(r)
      PROVE  NeedMet'
  BY <1>1 DEF Submit, Enqueue
<1>2. ASSUME NEW j \in Job, Retry(j)
      PROVE  NeedMet'
  BY <1>2 DEF Retry, Enqueue
<1>3. ASSUME NEW j \in Job, Resume(j)
      PROVE  NeedMet'
  BY <1>3 DEF Resume, Enqueue
<1>4. ASSUME NEW op \in {"cancel", "pause"}, NEW j \in Job, RouteReads(op, j)
      PROVE  NeedMet'
  BY <1>4 DEF RouteReads
<1>5. ASSUME NEW r \in inflight, CancelCommits(r)
      PROVE  NeedMet'
  BY <1>5 DEF CancelCommits
<1>6. ASSUME NEW r \in inflight, PauseCommits(r)
      PROVE  NeedMet'
  BY <1>6 DEF PauseCommits
<1>7. CASE Recover
  BY <1>7 DEF Recover
<1>8. CASE ListQueued
  BY <1>8 DEF ListQueued
<1>9. CASE Snapshot
  BY <1>9 DEF Snapshot
<1>10. CASE SnapshotFails
  BY <1>10 DEF SnapshotFails
<1>11. CASE EndScan
  BY <1>11 DEF EndScan
<1>12. ASSUME NEW j \in Job, SkipJob(j)
      PROVE  NeedMet'
  BY <1>12 DEF SkipJob
<1>13. ASSUME NEW j \in Job, ClaimFor(j)
      PROVE  NeedMet'
  <2>1. FreeDrives(snapshot) \in SUBSET Drive
    BY DEF FreeDrives
  <2>2. \A D \in Grants(request[j], FreeDrives(snapshot)) : Suits(request[j], D)
    BY <2>1, GrantsSuit
  <2>. QED
    BY <1>13, <2>2 DEF ClaimFor
<1>14. ASSUME NEW j \in Job, StartJob(j)
      PROVE  NeedMet'
  BY <1>14 DEF StartJob
<1>15. ASSUME NEW j \in Job, StartFails(j)
      PROVE  NeedMet'
  BY <1>15 DEF StartFails
<1>16. ASSUME NEW j \in Job, NEW d \in Drive, LoadsTape(j, d)
      PROVE  NeedMet'
  BY <1>16 DEF LoadsTape
<1>17. ASSUME NEW j \in Job, NEW d \in Drive, UnloadsTape(j, d)
      PROVE  NeedMet'
  BY <1>17 DEF UnloadsTape
<1>18. ASSUME NEW j \in Job, DispatchReturns(j)
      PROVE  NeedMet'
  BY <1>18 DEF DispatchReturns
<1>19. ASSUME NEW j \in Job, DispatchRaises(j)
      PROVE  NeedMet'
  BY <1>19 DEF DispatchRaises
<1>20. ASSUME NEW j \in Job, Settle(j)
      PROVE  NeedMet'
  BY <1>20 DEF Settle
<1>21. ASSUME NEW j \in Job, Record(j)
      PROVE  NeedMet'
  BY <1>21 DEF Record
<1>22. ASSUME NEW j \in Job, RecordFails(j)
      PROVE  NeedMet'
  BY <1>22 DEF RecordFails
<1>23. ASSUME NEW j \in Job, Release(j)
      PROVE  NeedMet'
  BY <1>23 DEF Release
<1>24. ASSUME NEW d \in Drive, OperatorLoads(d)
      PROVE  NeedMet'
  BY <1>24 DEF OperatorLoads
<1>25. ASSUME NEW d \in Drive, OperatorUnloads(d)
      PROVE  NeedMet'
  BY <1>25 DEF OperatorUnloads
<1>26. CASE Restart
  BY <1>26 DEF Restart
<1>27. CASE UNCHANGED vars
  BY <1>27 DEF vars
<1>. QED
  BY <1>1, <1>2, <1>3, <1>4, <1>5, <1>6, <1>7, <1>8, <1>9, <1>10, <1>11, <1>12, <1>13, <1>14, <1>15, <1>16, <1>17, <1>18, <1>19, <1>20, <1>21, <1>22, <1>23, <1>24, <1>25, <1>26, <1>27
  DEF Next, RouteStep, WorkerStep, ThreadStep, OutsideStep
-----------------------------------------------------------------------------
(* The inductive invariant. *)
IInv ==
  /\ TypeOK
  /\ ThreadMatchesRow
  /\ Exclusion
  /\ NothingLeaked
  /\ RunsOnce
  /\ RowFollowsThread
  /\ NeedMet

LEMMA IInvInit == Init => IInv
<1>. SUFFICES ASSUME Init PROVE IInv
  OBVIOUS
<1>1. TypeOK
  BY RequestShape, BoundsAreNat
  DEF Init, TypeOK, Status, Phase, Finished, Stopped, Route
<1>2. ThreadMatchesRow /\ Exclusion /\ NothingLeaked
  BY DEF Init, ThreadMatchesRow, Exclusion, ExclusiveDrives, HoldersRegistered,
         NothingLeaked
<1>3. RunsOnce /\ RowFollowsThread /\ NeedMet
  BY DEF Init, RunsOnce, RowFollowsThread, LiveRowNotFinished, RunningIsLive,
         NeedMet
<1>. QED
  BY <1>1, <1>2, <1>3 DEF IInv

LEMMA IInvStep == IInv /\ [Next]_vars => IInv'
  BY TypeStep, ThreadMatchesRowStep, ExclusionStep, NothingLeakedStep,
     RunsOnceStep, RowFollowsThreadStep, NeedMetStep DEF IInv

LEMMA Invariance == Spec => []IInv
  BY IInvInit, IInvStep, PTL DEF Spec

(* No drive ever serves two jobs, and without a failed commit the registry *)
(* never leaks a drive.                                                    *)
THEOREM RegistryMatchesJobs == Spec => []ClaimsMatchJobs
<1>1. IInv => ClaimsMatchJobs
  BY DEF IInv, Exclusion, ClaimsMatchJobs
<1>. QED
  BY <1>1, Invariance, PTL

(* A drive in use is registered.                                           *)
THEOREM UseIsRegistered == Spec => []HoldersRegistered
<1>1. IInv => HoldersRegistered
  BY DEF IInv, Exclusion
<1>. QED
  BY <1>1, Invariance, PTL

(* A job runs on drives it asked for, on as many as it may take.           *)
THEOREM JobsGetWhatTheyNeed == Spec => []NeedMet
<1>1. IInv => NeedMet
  BY DEF IInv
<1>. QED
  BY <1>1, Invariance, PTL

(* No row is run twice, through any restart, retry, resume or race, and    *)
(* what a row shows agrees with what its thread does.                      *)
THEOREM RowsTellTheTruth == Spec => []RowsMatchThreads
<1>1. IInv => RowsMatchThreads
  BY DEF IInv, RunsOnce, AtMostOnce, RowFollowsThread, RowsMatchThreads
<1>. QED
  BY <1>1, Invariance, PTL

(* The outcome of a job is final unless a route read its row before.       *)
THEOREM OutcomesAreFinal == Spec => OutcomeIsFinal
<1>1. IInv /\ [Next]_vars => [KeepsOutcomes]_vars
  BY OutcomeStep DEF IInv
<1>. QED
  BY <1>1, Invariance, PTL DEF Spec, OutcomeIsFinal
-----------------------------------------------------------------------------
(* The worker implements the reservation of drives: every step reserves,   *)
(* releases, restarts, or leaves what the jobs hold alone.                 *)
LEMMA ReservationStep == IInv /\ [Next]_vars => [Reservation!Next]_held
<1>. SUFFICES ASSUME IInv, [Next]_vars PROVE [Reservation!Next]_held
  OBVIOUS
<1>. USE DEF rowVars, scanVars, threadVars, faultVars
<1>1. ASSUME NEW r \in Request, Submit(r)
      PROVE  [Reservation!Next]_held
  BY <1>1 DEF Submit, Enqueue
<1>2. ASSUME NEW j \in Job, Retry(j)
      PROVE  [Reservation!Next]_held
  BY <1>2 DEF Retry, Enqueue
<1>3. ASSUME NEW j \in Job, Resume(j)
      PROVE  [Reservation!Next]_held
  BY <1>3 DEF Resume, Enqueue
<1>4. ASSUME NEW op \in {"cancel", "pause"}, NEW j \in Job, RouteReads(op, j)
      PROVE  [Reservation!Next]_held
  BY <1>4 DEF RouteReads
<1>5. ASSUME NEW r \in inflight, CancelCommits(r)
      PROVE  [Reservation!Next]_held
  BY <1>5 DEF CancelCommits
<1>6. ASSUME NEW r \in inflight, PauseCommits(r)
      PROVE  [Reservation!Next]_held
  BY <1>6 DEF PauseCommits
<1>7. CASE Recover
  BY <1>7 DEF Recover
<1>8. CASE ListQueued
  BY <1>8 DEF ListQueued
<1>9. CASE Snapshot
  BY <1>9 DEF Snapshot
<1>10. CASE SnapshotFails
  BY <1>10 DEF SnapshotFails
<1>11. CASE EndScan
  BY <1>11 DEF EndScan
<1>12. ASSUME NEW j \in Job, SkipJob(j)
      PROVE  [Reservation!Next]_held
  BY <1>12 DEF SkipJob
<1>13. ASSUME NEW j \in Job, ClaimFor(j)
      PROVE  [Reservation!Next]_held
  <2>1. FreeDrives(snapshot) \in SUBSET Drive
    BY DEF FreeDrives
  <2>2. \A D \in Grants(request[j], FreeDrives(snapshot)) :
           D \in SUBSET Drive /\ D \cap claimed = {}
    BY <2>1, GrantsFree DEF IInv, TypeOK, FreeDrives
  <2>3. held[j] = {}
    BY <1>13 DEF ClaimFor, IInv, TypeOK, ThreadMatchesRow
  <2>4. PICK D \in SUBSET Drive : D \cap claimed = {}
                                  /\ held' = [held EXCEPT ![j] = D]
    BY <1>13, <2>2 DEF ClaimFor
  <2>5. D \subseteq Reservation!Free
    BY <2>4 DEF IInv, Exclusion, HoldersRegistered, Reservation!Free
  <2>. QED
    BY <2>3, <2>4, <2>5 DEF Reservation!Next, Reservation!Reserve
<1>14. ASSUME NEW j \in Job, StartJob(j)
      PROVE  [Reservation!Next]_held
  BY <1>14 DEF StartJob
<1>15. ASSUME NEW j \in Job, StartFails(j)
      PROVE  [Reservation!Next]_held
  BY <1>15 DEF StartFails, Reservation!Next, Reservation!Release
<1>16. ASSUME NEW j \in Job, NEW d \in Drive, LoadsTape(j, d)
      PROVE  [Reservation!Next]_held
  BY <1>16 DEF LoadsTape
<1>17. ASSUME NEW j \in Job, NEW d \in Drive, UnloadsTape(j, d)
      PROVE  [Reservation!Next]_held
  BY <1>17 DEF UnloadsTape
<1>18. ASSUME NEW j \in Job, DispatchReturns(j)
      PROVE  [Reservation!Next]_held
  BY <1>18 DEF DispatchReturns
<1>19. ASSUME NEW j \in Job, DispatchRaises(j)
      PROVE  [Reservation!Next]_held
  BY <1>19 DEF DispatchRaises
<1>20. ASSUME NEW j \in Job, Settle(j)
      PROVE  [Reservation!Next]_held
  BY <1>20 DEF Settle
<1>21. ASSUME NEW j \in Job, Record(j)
      PROVE  [Reservation!Next]_held
  BY <1>21 DEF Record
<1>22. ASSUME NEW j \in Job, RecordFails(j)
      PROVE  [Reservation!Next]_held
  BY <1>22 DEF RecordFails
<1>23. ASSUME NEW j \in Job, Release(j)
      PROVE  [Reservation!Next]_held
  BY <1>23 DEF Release, Reservation!Next, Reservation!Release
<1>24. ASSUME NEW d \in Drive, OperatorLoads(d)
      PROVE  [Reservation!Next]_held
  BY <1>24 DEF OperatorLoads
<1>25. ASSUME NEW d \in Drive, OperatorUnloads(d)
      PROVE  [Reservation!Next]_held
  BY <1>25 DEF OperatorUnloads
<1>26. CASE Restart
  BY <1>26 DEF Restart, Reservation!Next, Reservation!Restart
<1>27. CASE UNCHANGED vars
  BY <1>27 DEF vars
<1>. QED
  BY <1>1, <1>2, <1>3, <1>4, <1>5, <1>6, <1>7, <1>8, <1>9, <1>10, <1>11, <1>12, <1>13, <1>14, <1>15, <1>16, <1>17, <1>18, <1>19, <1>20, <1>21, <1>22, <1>23, <1>24, <1>25, <1>26, <1>27
  DEF Next, RouteStep, WorkerStep, ThreadStep, OutsideStep

(* The registry keeps its promise to the jobs in every behaviour.          *)
THEOREM ImplementsReservation == Spec => KeepsReservation
<1>1. Init => Reservation!Init
  BY DEF Init, Reservation!Init
<1>. QED
  BY <1>1, Invariance, ReservationStep, PTL
  DEF Spec, KeepsReservation, Reservation!Spec
=============================================================================
