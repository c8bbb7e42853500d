------------------------------ MODULE DriveCycle ------------------------------
(***************************************************************************)
(* Batch format and tape import: app/services/batch_format.py and          *)
(* app/services/tape_import.py, with the moves they make through           *)
(* app/services/library.py.                                                *)
(*                                                                         *)
(* Both cycle a list of tapes through the drives the job was given: one    *)
(* thread per drive takes the next barcode from a queue, loads the tape,   *)
(* formats it or mounts and catalogues it, unloads it and reports.  They   *)
(* differ in what is checked first and in what is done between the moves.  *)
(***************************************************************************)
EXTENDS Naturals, Sequences, FiniteSets, Functions

CONSTANTS
  Job,          \* the batch jobs
  Request,      \* what they may ask for
  Tape,         \* the tapes
  Slot,         \* the numbers of the storage slots
  Drive,        \* the numbers of the drives, different from those of the slots
  Home,         \* Home[t]: the slot or drive tape t is in to begin with
  Unit,         \* the units a scan of a tape can find
  Content,      \* Content[t]: the units on tape t to begin with
  FirstStatus,  \* FirstStatus[t]: the state of the row of tape t to begin with
  MaxTroubles   \* bound: cancellations, hardware calls that fail, statements
                \* and commits that raise, and deaths of the process

NoJob == 0
NoTape == 0
NoSlot == 0
NoRequest == [kind |-> "none"]

(* Tape.status; "unknown" is a tape without a row. *)
Status == {"unknown", "scratch", "active", "full", "archived", "retired", "damaged"}

ASSUME JobIds == Job \subseteq Nat \ {NoJob} /\ IsFiniteSet(Job)
ASSUME TapeIds == Tape \subseteq Nat \ {NoTape} /\ IsFiniteSet(Tape)
ASSUME Places ==
  /\ Slot \subseteq Nat \ {NoSlot} /\ Drive \subseteq Nat \ {NoSlot}
  /\ Slot \cap Drive = {}
  /\ IsFiniteSet(Slot) /\ IsFiniteSet(Drive)
  /\ Home \in [Tape -> Slot \cup Drive] /\ IsInjective(Home)
ASSUME Contents == Content \in [Tape -> SUBSET Unit] /\ IsFiniteSet(Unit)
ASSUME FirstRows == FirstStatus \in [Tape -> Status]
(* The forms strip the barcodes and drop repetitions. *)
ASSUME RequestShape ==
  \A r \in Request :
    /\ r.kind \in {"format", "import"}
    /\ r.tapes \in Seq(Tape) /\ r.tapes # <<>> /\ IsInjective(r.tapes)
    /\ r.force \in BOOLEAN /\ r.verify \in BOOLEAN
ASSUME BoundIsNat == MaxTroubles \in Nat

VARIABLES
  (* The catalogue. *)
  status,     \* Tape.status
  used,       \* Tape.used_bytes, in units
  checked,    \* Tape.last_verified_at is set
  spans,      \* table content_tape_spans
  (* The library. *)
  place,      \* the slot or drive each tape is in
  files,      \* the units on each tape
  (* The jobs. *)
  state,      \* how far each has come
  request,    \* its parameters
  queue,      \* work: the barcodes no thread has taken
  cancelled,  \* what is_cancelled() answers
  verdict,    \* the lists succeeded, failed and skipped
  (* The thread of each drive. *)
  owner,      \* the job that has claimed the drive
  pc,         \* where its thread is
  tape,       \* barcode
  slot,       \* where _slot_of found it
  error,      \* error; "fatal" is an exception nobody catches
  left,       \* the units of the mounted tape still to be catalogued
  (* Bounds and history. *)
  cancels, faults, dbErrors, crashes,
  shared,     \* two jobs with a tape in common have run at the same time
  repurposed  \* the tapes mkltfs has been run on for a job with force

catalogue == <<status, used, checked, spans>>
library   == <<place, files>>
jobs      == <<state, request, queue, cancelled, verdict>>
threads   == <<owner, pc, tape, slot, error, left>>
bounds    == <<cancels, faults, dbErrors, crashes>>
history   == <<shared, repurposed>>
vars == <<catalogue, library, jobs, threads, bounds, history>>

(* What a step of a thread on its own leaves alone. *)
world == <<catalogue, library, jobs, owner, bounds, history>>

Troubles == cancels + faults + dbErrors + crashes
Goto(d, where) == pc' = [pc EXCEPT ![d] = where]
In(d) == {t \in Tape : place[t] = d}
SpansOn(t) == {s \in spans : s.tape = t}
Live(j) == state[j] \in {"check", "running"}
Batch(j) == IF request[j] = NoRequest THEN {} ELSE Range(request[j].tapes)
Drives(j) == {d \in Drive : owner[d] = j}
-----------------------------------------------------------------------------
(* A job begins: run_batch_format, run_tape_import.                        *)

(* The worker starts it in the drives that are empty and not claimed, the  *)
(* lowest numbers first, one drive for each tape at most.  Jobs are        *)
(* numbered as they start.                                                 *)
FreeDrives == {d \in Drive : owner[d] = NoJob /\ In(d) = {}}

Start(j, r) ==
  /\ state[j] = "new" /\ \A i \in Job : i < j => state[i] # "new"
  /\ \E D \in SUBSET FreeDrives :
       /\ D # {} /\ Cardinality(D) <= Len(r.tapes)
       /\ Cardinality(D) = Len(r.tapes) \/ D = FreeDrives
       /\ \A d \in D, e \in FreeDrives \ D : d < e
       /\ owner' = [d \in Drive |-> IF d \in D THEN j ELSE owner[d]]
  /\ state' = [state EXCEPT ![j] = "check"]
  /\ request' = [request EXCEPT ![j] = r]
  /\ shared' = (shared \/ \E i \in Job : Live(i) /\ Batch(i) \cap Range(r.tapes) # {})
  /\ UNCHANGED <<catalogue, library, queue, cancelled, verdict, pc, tape, slot,
                 error, left, bounds, repurposed>>

(* The tapes the whole batch is refused for; and a version that asks the   *)
(* same of both kinds of job.                                              *)
BlockedAlike(j) ==
  {t \in Batch(j) : status[t] \in {"damaged", "retired"}}

Blocked(j) ==
  {t \in Batch(j) :
     IF request[j].kind = "format"
     THEN ~request[j].force /\ status[t] \notin {"unknown", "scratch"}
     ELSE status[t] \in {"damaged", "retired"}}

Check(j) ==
  /\ state[j] = "check"
  /\ Blocked(j) = {}
  /\ state' = [state EXCEPT ![j] = "running"]
  /\ queue' = [queue EXCEPT ![j] = request[j].tapes]
  /\ pc' = [d \in Drive |-> IF owner[d] = j THEN "take" ELSE pc[d]]
  /\ UNCHANGED <<catalogue, library, request, cancelled, verdict, owner, tape,
                 slot, error, left, bounds, history>>

(* The handler has returned or raised: the worker releases the drives.     *)
Ends(j, how) ==
  /\ state' = [state EXCEPT ![j] = how]
  /\ owner' = [d \in Drive |-> IF owner[d] = j THEN NoJob ELSE owner[d]]

Refuse(j) ==
  /\ state[j] = "check"
  /\ Blocked(j) # {}
  /\ Ends(j, "raised")
  /\ UNCHANGED <<catalogue, library, request, queue, cancelled, verdict, pc,
                 tape, slot, error, left, bounds, history>>

(* All threads joined; and a version that waits for the queue as well. *)
Drained(j) == queue[j] = <<>> /\ \A d \in Drives(j) : pc[d] = "idle"
Joined(j) == \A d \in Drives(j) : pc[d] = "idle"

EndJob(j) ==
  /\ state[j] = "running" /\ Joined(j)
  /\ Ends(j, IF verdict[j].failed # {} /\ verdict[j].succeeded = {}
             THEN "raised" ELSE "returned")
  /\ UNCHANGED <<catalogue, library, request, queue, cancelled, verdict, pc,
                 tape, slot, error, left, bounds, history>>

Cancel(j) ==
  /\ Live(j) /\ ~cancelled[j]
  /\ Troubles < MaxTroubles
  /\ cancels' = cancels + 1
  /\ cancelled' = [cancelled EXCEPT ![j] = TRUE]
  /\ UNCHANGED <<catalogue, library, state, request, queue, verdict, threads,
                 faults, dbErrors, crashes, history>>
-----------------------------------------------------------------------------
(* worker(drive_number): the next tape.                                    *)

Kind(d) == request[owner[d]].kind

PutDown(d) ==
  /\ tape' = [tape EXCEPT ![d] = NoTape]
  /\ slot' = [slot EXCEPT ![d] = NoSlot]
  /\ error' = [error EXCEPT ![d] = "none"]
  /\ left' = [left EXCEPT ![d] = {}]

(* What get_nowait leaves in the queue; and a version that looks first and *)
(* takes later.                                                            *)
LookedAt(q) == IF Len(q) > 1 THEN q ELSE <<>>
Remaining(q) == Tail(q)

(* A tape is at hand, and the job is, or is not, cancelled. *)
Gets(d, stop) ==
  /\ pc[d] = "take"
  /\ queue[owner[d]] # <<>> /\ cancelled[owner[d]] = stop
  /\ queue' = [queue EXCEPT ![owner[d]] = Remaining(@)]
  /\ UNCHANGED <<catalogue, library, state, request, cancelled, owner, slot,
                 error, left, bounds, history>>

Take(d) ==
  /\ Gets(d, FALSE)
  /\ tape' = [tape EXCEPT ![d] = Head(queue[owner[d]])]
  /\ Goto(d, IF Kind(d) = "import" THEN "register" ELSE "lookup")
  /\ UNCHANGED verdict

(* The list skipped. *)
Skipped(j) == verdict[j].skipped \cup {Head(queue[j])}

Skip(d) ==
  /\ Gets(d, TRUE)
  /\ verdict' = [verdict EXCEPT ![owner[d]].skipped = Skipped(owner[d])]
  /\ UNCHANGED <<pc, tape>>

ThreadEnds(d) ==
  /\ pc[d] = "take"
  /\ queue[owner[d]] = <<>>
  /\ Goto(d, "idle")
  /\ UNCHANGED <<world, tape, slot, error, left>>

(* The verdict on a tape; the thread of a fatal error has gone without.    *)
Verdict(d) ==
  IF error[d] = "none"
  THEN [verdict EXCEPT ![owner[d]].succeeded = @ \cup {tape[d]}]
  ELSE [verdict EXCEPT ![owner[d]].failed = @ \cup {tape[d]}]

Record(d) ==
  /\ pc[d] = "record" /\ error[d] # "fatal"
  /\ verdict' = Verdict(d)
  /\ PutDown(d)
  /\ Goto(d, "take")
  /\ UNCHANGED <<catalogue, library, state, request, queue, cancelled, owner,
                 bounds, history>>

ThreadGone(d) ==
  /\ pc[d] = "record" /\ error[d] = "fatal"
  /\ PutDown(d)
  /\ Goto(d, "idle")
  /\ UNCHANGED world
-----------------------------------------------------------------------------
(* The moves.                                                              *)

(* error is set; and a version that forgets to. *)
FailsQuietly(d, where) == Goto(d, where) /\ UNCHANGED error

Fails(d, where) ==
  /\ error' = [error EXCEPT ![d] = IF @ = "fatal" THEN @ ELSE "failed"]
  /\ Goto(d, where)

(* _slot_of, before the arm lock is taken; and a version that may find the *)
(* tape in a drive.                                                        *)
FoundAnywhere(d) == place[tape[d]] \in Slot \cup Drive
Found(d) == place[tape[d]] \in Slot

LookUp(d) ==
  /\ pc[d] = "lookup" /\ Found(d)
  /\ slot' = [slot EXCEPT ![d] = place[tape[d]]]
  /\ Goto(d, "load")
  /\ UNCHANGED <<world, tape, error, left>>

NotInSlot(d) ==
  /\ pc[d] = "lookup" /\ ~Found(d)
  /\ Fails(d, "record")
  /\ UNCHANGED <<world, tape, slot, left>>

(* sync_snapshot: a tape seen in a slot gets a row.                        *)
Registered(where) ==
  [t \in Tape |-> IF status[t] = "unknown" /\ where[t] \in Slot THEN "scratch"
                  ELSE status[t]]

(* load_tape: whatever is in that slot by now. *)
Loadable(d) == In(d) = {} /\ \E t \in Tape : place[t] = slot[d]
Loads(d) == place' = [t \in Tape |-> IF place[t] = slot[d] THEN d ELSE place[t]]

AfterLoad(d) == IF Kind(d) = "format" THEN "format" ELSE "mount"

Load(d) ==
  /\ pc[d] = "load"
  /\ Loadable(d)
  /\ Loads(d)
  /\ status' = Registered(place')
  /\ Goto(d, AfterLoad(d))
  /\ slot' = [slot EXCEPT ![d] = NoSlot]
  /\ UNCHANGED <<used, checked, spans, files, jobs, owner, tape, error,
                 left, bounds, history>>

(* A load that raises. *)
AfterNoLoad(d) == "record"

LoadRefused(d) ==
  /\ pc[d] = "load"
  /\ ~Loadable(d)
  /\ Fails(d, AfterNoLoad(d))
  /\ slot' = [slot EXCEPT ![d] = NoSlot]
  /\ UNCHANGED <<world, tape, left>>

(* unload_tape: to the first free slot, in a finally clause. *)
FreeSlots == Slot \ {place[t] : t \in Tape}
FirstFree == {n \in FreeSlots : \A m \in FreeSlots : n <= m}
Unloadable(d) == In(d) # {} /\ FirstFree # {}
Unloads(d) ==
  \E n \in FirstFree :
    place' = [t \in Tape |-> IF place[t] = d THEN n ELSE place[t]]

(* It raises when there is nothing to unload, or nowhere to put it. *)
Unload(d) ==
  /\ pc[d] = "unload"
  /\ IF Unloadable(d)
     THEN /\ Unloads(d)
          /\ status' = Registered(place')
          /\ Goto(d, "record")
          /\ UNCHANGED error
     ELSE Fails(d, "record") /\ UNCHANGED <<place, status>>
  /\ UNCHANGED <<used, checked, spans, files, jobs, owner, tape, slot, left,
                 bounds, history>>
-----------------------------------------------------------------------------
(* Formatting.                                                             *)

(* mkltfs, forced, on whatever is in the drive. *)
Wiped(d) == [t \in Tape |-> IF t \in In(d) THEN {} ELSE files[t]]
Repurposes(d) ==
  repurposed' = IF request[owner[d]].force THEN repurposed \cup In(d) ELSE repurposed

(* The row of the barcode, if there is one, becomes that of a blank tape.  *)
Format(d) ==
  /\ pc[d] = "format"
  /\ files' = Wiped(d)
  /\ Repurposes(d)
  /\ IF status[tape[d]] = "unknown" THEN UNCHANGED <<status, used>>
     ELSE /\ status' = [status EXCEPT ![tape[d]] = "scratch"]
          /\ used' = [used EXCEPT ![tape[d]] = 0]
  /\ Goto(d, "unload")
  /\ UNCHANGED <<checked, spans, place, jobs, owner, tape, slot, error, left,
                 bounds, shared>>
-----------------------------------------------------------------------------
(* Importing.                                                              *)

(* _register_archived, in a commit of its own. *)
Archived(s) == IF s \in {"unknown", "scratch"} THEN "archived" ELSE s

Register(d) ==
  /\ pc[d] = "register"
  /\ status' = [status EXCEPT ![tape[d]] = Archived(@)]
  /\ Goto(d, "lookup")
  /\ UNCHANGED <<used, checked, spans, library, jobs, owner, tape, slot, error,
                 left, bounds, history>>

(* mount_ltfs, read-only, and scan_source. *)
Mount(d) ==
  /\ pc[d] = "mount"
  /\ left' = [left EXCEPT ![d] = UNION {files[t] : t \in In(d)}]
  /\ Goto(d, "import")
  /\ UNCHANGED <<world, tape, slot, error>>

Span(t, u, v) == [tape |-> t, unit |-> u, verified |-> v]
Known(t, S) == {s \in SpansOn(t) : s.unit \in S}

(* What _import_sequence and _import_file make of the units S of a tape: a *)
(* verified span stays, any other is made or made over.  The variant       *)
(* forgets to look for the span.                                           *)
SpansAdded(t, S, verify) == spans \cup {Span(t, u, verify) : u \in S}

SpansAfter(t, S, verify) ==
  LET done == {s.unit : s \in {s \in Known(t, S) : s.verified}}
  IN (spans \ {s \in Known(t, S) : ~s.verified})
       \cup {Span(t, u, verify) : u \in S \ done}

(* A commit, every few seconds, after the last unit, and when one fails.   *)
Import(d) ==
  /\ pc[d] = "import"
  /\ \E S \in SUBSET left[d] :
       /\ S # {}
       /\ spans' = SpansAfter(tape[d], S, request[owner[d]].verify)
       /\ left' = [left EXCEPT ![d] = @ \ S]
  /\ UNCHANGED <<status, used, checked, library, jobs, owner, pc, tape, slot,
                 error, bounds, history>>

(* The row at the end; a fast scan does not mark it. *)
Marks(d) == request[owner[d]].verify

Finish(d) ==
  /\ pc[d] = "import" /\ left[d] = {}
  /\ used' = [used EXCEPT ![tape[d]] = Cardinality(SpansOn(tape[d]))]
  /\ checked' = [checked EXCEPT ![tape[d]] = @ \/ Marks(d)]
  /\ Goto(d, "unmount")
  /\ UNCHANGED <<status, spans, library, jobs, owner, tape, slot, error, left,
                 bounds, history>>

Unmount(d) ==
  /\ pc[d] = "unmount"
  /\ Goto(d, "unload")
  /\ UNCHANGED <<world, tape, slot, error, left>>
-----------------------------------------------------------------------------
(* What goes wrong.                                                        *)

(* A HardwareError, or while importing any exception.  A call that fails   *)
(* may have done its work; a load that fails is not followed by an unload. *)
FailsTo == [lookup |-> "record", mount |-> "unload", import |-> "unmount",
            unmount |-> "unload"]

CallFails(d) ==
  /\ Troubles < MaxTroubles
  /\ faults' = faults + 1
  /\ \/ /\ pc[d] \in DOMAIN FailsTo
        /\ Fails(d, FailsTo[pc[d]])
        /\ UNCHANGED <<library, repurposed>>
     \/ /\ pc[d] = "load"
        /\ Fails(d, AfterNoLoad(d))
        /\ UNCHANGED place \/ (Loadable(d) /\ Loads(d))
        /\ UNCHANGED <<files, repurposed>>
     \/ /\ pc[d] = "format"
        /\ Fails(d, "unload")
        /\ UNCHANGED <<files, repurposed>> \/ (files' = Wiped(d) /\ Repurposes(d))
        /\ UNCHANGED place
     \/ /\ pc[d] = "unload"
        /\ Fails(d, "record")
        /\ UNCHANGED place \/ (Unloadable(d) /\ Unloads(d))
        /\ UNCHANGED <<files, repurposed>>
  /\ UNCHANGED <<catalogue, jobs, owner, tape, slot, left, cancels, dbErrors,
                 crashes, shared>>

(* An exception of the database is no HardwareError: the thread ends, its  *)
(* tape in no list, and the drive is left as it is.  A move may have been  *)
(* made, and its commit failed.                                            *)
Dies(d) ==
  /\ pc[d] \in {"register", "lookup", "load", "unload"}
  /\ Troubles < MaxTroubles
  /\ dbErrors' = dbErrors + 1
  /\ \/ UNCHANGED place
     \/ pc[d] = "load" /\ Loadable(d) /\ Loads(d)
     \/ pc[d] = "unload" /\ Unloadable(d) /\ Unloads(d)
  /\ PutDown(d)
  /\ Goto(d, "idle")
  /\ UNCHANGED <<catalogue, files, jobs, owner, cancels, faults, crashes, history>>

(* The same while formatting: the tape is still unloaded. *)
DiesFormatting(d) ==
  /\ pc[d] = "format"
  /\ Troubles < MaxTroubles
  /\ dbErrors' = dbErrors + 1
  /\ \/ UNCHANGED <<files, repurposed>>
     \/ files' = Wiped(d) /\ Repurposes(d)
  /\ error' = [error EXCEPT ![d] = "fatal"]
  /\ Goto(d, "unload")
  /\ UNCHANGED <<catalogue, place, jobs, owner, tape, slot, left, cancels,
                 faults, crashes, shared>>

(* The progress report after the verdict raises. *)
DiesReporting(d) ==
  /\ pc[d] = "record" /\ error[d] # "fatal"
  /\ Troubles < MaxTroubles
  /\ dbErrors' = dbErrors + 1
  /\ verdict' = Verdict(d)
  /\ PutDown(d)
  /\ Goto(d, "idle")
  /\ UNCHANGED <<catalogue, library, state, request, queue, cancelled, owner,
                 cancels, faults, crashes, history>>

(* The process dies: tapes stay where they are. *)
Crash ==
  /\ \E j \in Job : Live(j)
  /\ Troubles < MaxTroubles
  /\ crashes' = crashes + 1
  /\ state' = [j \in Job |-> IF Live(j) THEN "interrupted" ELSE state[j]]
  /\ queue' = [j \in Job |-> <<>>]
  /\ owner' = [d \in Drive |-> NoJob]
  /\ pc' = [d \in Drive |-> "idle"]
  /\ tape' = [d \in Drive |-> NoTape]
  /\ slot' = [d \in Drive |-> NoSlot]
  /\ error' = [d \in Drive |-> "none"]
  /\ left' = [d \in Drive |-> {}]
  /\ UNCHANGED <<catalogue, library, request, cancelled, verdict, cancels,
                 faults, dbErrors, history>>

(* The operator takes a tape out of a drive no job has claimed. *)
OperatorUnloads(d) ==
  /\ owner[d] = NoJob /\ Unloadable(d)
  /\ Unloads(d)
  /\ status' = Registered(place')
  /\ UNCHANGED <<used, checked, spans, files, jobs, threads, bounds, history>>
-----------------------------------------------------------------------------
Init ==
  /\ status = FirstStatus
  /\ used = [t \in Tape |-> 0]
  /\ checked = [t \in Tape |-> FALSE]
  /\ spans = {}
  /\ place = Home
  /\ files = Content
  /\ state = [j \in Job |-> "new"]
  /\ request = [j \in Job |-> NoRequest]
  /\ queue = [j \in Job |-> <<>>]
  /\ cancelled = [j \in Job |-> FALSE]
  /\ verdict = [j \in Job |-> [succeeded |-> {}, failed |-> {}, skipped |-> {}]]
  /\ owner = [d \in Drive |-> NoJob]
  /\ pc = [d \in Drive |-> "idle"]
  /\ tape = [d \in Drive |-> NoTape]
  /\ slot = [d \in Drive |-> NoSlot]
  /\ error = [d \in Drive |-> "none"]
  /\ left = [d \in Drive |-> {}]
  /\ cancels = 0 /\ faults = 0 /\ dbErrors = 0 /\ crashes = 0
  /\ shared = FALSE
  /\ repurposed = {}

JobStep(j) == Check(j) \/ Refuse(j) \/ EndJob(j)

ThreadStep(d) ==
  \/ Take(d) \/ Skip(d) \/ ThreadEnds(d) \/ Record(d) \/ ThreadGone(d)
  \/ LookUp(d) \/ NotInSlot(d) \/ Load(d) \/ LoadRefused(d)
  \/ Format(d)
  \/ Register(d) \/ Mount(d) \/ Import(d) \/ Finish(d) \/ Unmount(d)
  \/ Unload(d)

FaultStep(d) == CallFails(d) \/ Dies(d) \/ DiesFormatting(d) \/ DiesReporting(d)

Next ==
  \/ \E j \in Job : Cancel(j) \/ JobStep(j) \/ \E r \in Request : Start(j, r)
  \/ \E d \in Drive : ThreadStep(d) \/ FaultStep(d) \/ OperatorUnloads(d)
  \/ Crash

Spec == Init /\ [][Next]_vars

(* Jobs and threads run on; nothing has to fail, be cancelled or start.    *)
FairSpec ==
  /\ Spec
  /\ \A j \in Job : WF_vars(JobStep(j))
  /\ \A d \in Drive : WF_vars(ThreadStep(d))
-----------------------------------------------------------------------------
(* Properties.                                                             *)

TypeOK ==
  /\ status \in [Tape -> Status] /\ used \in [Tape -> Nat]
  /\ checked \in [Tape -> BOOLEAN]
  /\ spans \subseteq [tape: Tape, unit: Unit, verified: BOOLEAN]
  /\ place \in [Tape -> Slot \cup Drive] /\ files \in [Tape -> SUBSET Unit]
  /\ state \in [Job -> {"new", "check", "running", "returned", "raised", "interrupted"}]
  /\ request \in [Job -> Request \cup {NoRequest}]
  /\ queue \in [Job -> Seq(Tape)] /\ cancelled \in [Job -> BOOLEAN]
  /\ verdict \in [Job -> [{"succeeded", "failed", "skipped"} -> SUBSET Tape]]
  /\ owner \in [Drive -> Job \cup {NoJob}]
  /\ pc \in [Drive -> {"idle", "take", "register", "lookup", "load", "format",
                      "mount", "import", "unmount", "unload", "record"}]
  /\ tape \in [Drive -> Tape \cup {NoTape}] /\ slot \in [Drive -> Slot \cup {NoSlot}]
  /\ error \in [Drive -> {"none", "failed", "fatal"}]
  /\ left \in [Drive -> SUBSET Unit]
  /\ cancels \in Nat /\ faults \in Nat /\ dbErrors \in Nat /\ crashes \in Nat
  /\ shared \in BOOLEAN /\ repurposed \subseteq Tape

Listed(lists) == lists.succeeded \cup lists.failed \cup lists.skipped
Reported(j) == Listed(verdict[j])

(* A job that ends has one verdict for every tape it was given, whatever   *)
(* failed and however its threads shared the queue, provided no exception  *)
(* of the database has ended a thread.                                     *)
EveryTapeAccounted ==
  \A j \in Job :
    /\ verdict[j].succeeded \cap verdict[j].failed = {}
    /\ verdict[j].skipped \cap (verdict[j].succeeded \cup verdict[j].failed) = {}
    /\ state[j] = "returned" /\ dbErrors = 0 => Reported(j) = Batch(j)
    /\ state[j] = "raised" /\ dbErrors = 0 => Reported(j) \in {Batch(j), {}}

(* A tape left in a drive is never one its job is done with and content:   *)
(* the thread of the drive has it in hand, or it was reported as failed,   *)
(* or a thread or the process died, or it was in a drive from the          *)
(* beginning.  Holds as long as no two jobs work on the same tape.         *)
StrayTapesReported ==
  ~shared /\ dbErrors = 0 /\ crashes = 0 =>
    \A d \in Drive : \A t \in In(d) :
      tape[d] = t \/ Home[t] = d \/ \E j \in Job : t \in verdict[j].failed

(* mkltfs is run on a tape only by a job that was asked to format that     *)
(* tape, and without force only while its row says scratch.                *)
WipedByRequest ==
  [][~shared' => \A t \in Tape : files'[t] # files[t] =>
       \E d \in Drive :
         /\ owner[d] # NoJob /\ t \in Batch(owner[d])
         /\ Kind(d) = "format"
         /\ request[owner[d]].force \/ status[t] \in {"scratch", "unknown"}]_vars

(* What the catalogue lists on a tape is on it, unless a job with force    *)
(* has formatted the tape since: that leaves the spans where they are.     *)
CataloguedIsOnTape ==
  ~shared => \A s \in spans : s.unit \in files[s.tape] \/ s.tape \in repurposed

(* A tape reported as imported is catalogued completely, counts as used    *)
(* what its spans say, and is scratch no more, however often it was        *)
(* scanned, half scanned and scanned again before.                         *)
Imported(t) ==
  \E j \in Job : request[j] # NoRequest /\ request[j].kind = "import"
                 /\ t \in verdict[j].succeeded

ImportIsComplete ==
  ~shared => \A t \in Tape \ repurposed : Imported(t) =>
    /\ files[t] = {s.unit : s \in SpansOn(t)}
    /\ used[t] = Cardinality(SpansOn(t))
    /\ status[t] # "scratch"

(* A unit has one span on a tape, whichever modes it was imported in. *)
OneSpanPerUnit ==
  \A r, s \in spans : r.tape = s.tape /\ r.unit = s.unit => r = s

(* The catalogue is true of the tapes: what it lists is there, once, and   *)
(* an imported tape is listed completely (tape_import.py:241-300).         *)
CatalogueIsTrue == CataloguedIsOnTape /\ ImportIsComplete /\ OneSpanPerUnit

(* The promise of TapeBatch. *)
Promise == INSTANCE TapeBatch WITH
  Width <- Cardinality(Drive),
  waiting <- [j \in Job |-> Range(queue[j])],
  inHand <- [j \in Job |-> {tape[d] : d \in Drives(j)} \ {NoTape}],
  verdict <- verdict
KeepsBatch == Promise!Spec

(* Every job that has begun ends. *)
JobsEnd == \A j \in Job : state[j] = "check" ~> ~Live(j)
=============================================================================
