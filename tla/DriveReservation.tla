-------------------------- MODULE DriveReservation --------------------------
(***************************************************************************)
(* What the claim registry of app/jobs/drives.py promises the jobs: a job  *)
(* gets every drive it needs at once or none, no drive serves two jobs,    *)
(* and a job gives back all it holds in one step.  A restart of the        *)
(* process frees everything.                                               *)
(***************************************************************************)
CONSTANTS Job,        \* the jobs that may ask for drives
          Drive       \* the drive numbers of the library

VARIABLE held         \* held[j]: the drives job j holds

Init == held = [j \in Job |-> {}]

(* The drives nobody holds. *)
Free == Drive \ UNION {held[j] : j \in Job}

(* Job j, which holds nothing, gets the drives D, all of them free. *)
Reserve(j, D) ==
  /\ held[j] = {}
  /\ D \subseteq Free
  /\ held' = [held EXCEPT ![j] = D]

(* Job j gives back everything it holds. *)
Release(j) == held' = [held EXCEPT ![j] = {}]

(* The process restarts: nothing is held any more. *)
Restart == held' = [j \in Job |-> {}]

Next ==
  \/ \E j \in Job, D \in SUBSET Drive : Reserve(j, D)
  \/ \E j \in Job : Release(j)
  \/ Restart

Spec == Init /\ [][Next]_held
=============================================================================
