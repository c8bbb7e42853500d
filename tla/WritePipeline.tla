--------------------------- MODULE WritePipeline ---------------------------
(***************************************************************************)
(* The write pipeline: app/services/writer.py, with the moves it makes     *)
(* through app/services/library.py.                                        *)
(*                                                                         *)
(* A write job scans a source, plans once which unit goes on which tape,   *)
(* then loads, formats, copies and catalogues tape by tape, and brings the *)
(* rows of the tapes up to date at the end.  Jobs run side by side, each   *)
(* in a drive of its own (see JobWorker); they are paused and cancelled,   *)
(* fail, die with the process, and are run again.                          *)
(*                                                                         *)
(* Units have size 1, so a tape takes any unit while it has room and       *)
(* nothing is split: the layout of larger units is TapeAllocator's.        *)
(***************************************************************************)
EXTENDS Naturals, Sequences, FiniteSets, Functions

CONSTANTS
  Tape,       \* the ids of the tapes
  Slot,       \* the numbers of the storage slots
  Drive,      \* the numbers of the drives, different from those of the slots
  Capacity,   \* the units a tape can hold
  Unit,       \* the units a scan can find
  Folder,     \* Folder[u]: source_path, the key of the unit's catalogue row
  Scan,       \* the scans considered: sequences of units
  MaxRuns,    \* bound: jobs run
  MaxStops,   \* bound: pauses and cancellations
  MaxFaults,  \* bound: calls of the hardware, of the file system and of the
              \* database that fail
  MaxCrashes  \* bound: deaths of the process

NoTape == 0

ASSUME TapeIds == Tape \subseteq Nat \ {NoTape} /\ IsFiniteSet(Tape)
ASSUME Places ==
  /\ Slot \subseteq Nat /\ Drive \subseteq Nat /\ Slot \cap Drive = {}
  /\ IsFiniteSet(Slot) /\ Cardinality(Slot) >= Cardinality(Tape)
ASSUME UnitsFit == Capacity \in Nat \ {0} /\ Scan \subseteq Seq(Unit)
ASSUME BoundsAreNat ==
  MaxRuns \in Nat /\ MaxStops \in Nat /\ MaxFaults \in Nat /\ MaxCrashes \in Nat

VARIABLES
  (* The catalogue. *)
  status,     \* Tape.status
  used,       \* Tape.used_bytes
  spans,      \* table content_tape_spans
  (* The library. *)
  place,      \* the slot or drive each tape is in
  files,      \* the units whose data are on each tape
  (* The run in each drive. *)
  pc,         \* where it is
  source,     \* the units it scanned
  plan,       \* alloc.placements
  pos,        \* the placement it is at
  csv,        \* the tapes still to get their catalogue written on them
  want,       \* the tape ensure() is to bring into the drive
  slot,       \* where _slot_of found it
  loaded,     \* _Drive.loaded_barcode
  formatted,  \* _Drive._formatted
  touched,    \* tapes_written
  result,     \* how the run ended
  (* Bounds and history. *)
  runs, stops, faults, crashes,
  behind,     \* tapes a run wrote on and did not come to finalise
  shared      \* a run has planned to use a tape of one still at work

catalogue == <<status, used, spans>>
library   == <<place, files>>
ensuring  == <<csv, want, slot, loaded, formatted>>
running   == <<source, plan, pos, touched, result>>
bounds    == <<runs, stops, faults, crashes>>
history   == <<behind, shared>>
vars == <<catalogue, library, pc, ensuring, running, bounds, history>>

Goto(d, where) == pc' = [pc EXCEPT ![d] = where]
In(d) == {t \in Tape : place[t] = d}
Span(u, t) == [folder |-> Folder[u], tape |-> t, unit |-> u]
SpansOn(t) == {s \in spans : s.tape = t}
-----------------------------------------------------------------------------
(* Planning: _tape_views and the allocator, for units of size 1.           *)

(* What is left of a tape, and of some tapes. *)
Room(t) == IF used[t] < Capacity THEN Capacity - used[t] ELSE 0
RoomOn(S) == Cardinality(UNION {{t} \X (1 .. Room(t)) : t \in S})

(* The tapes a job may choose from: those it can see in a slot.            *)
Views == {t \in Tape : place[t] \in Slot /\ status[t] \in {"active", "scratch"}}

(* The order in which they are filled: the fullest active tape first.      *)
Before(s, t) ==
  \/ status[s] = "active" /\ status[t] = "scratch"
  \/ /\ status[s] = status[t]
     /\ \/ status[s] = "active" /\ used[s] > used[t]
        \/ (status[s] = "active" => used[s] = used[t]) /\ s < t

(* The tape of the k-th unit. *)
TapeFor(k) ==
  CHOOSE t \in Views :
    LET earlier == {s \in Views : Before(s, t)}
    IN RoomOn(earlier) < k /\ k <= RoomOn(earlier) + Room(t)

Layout(q) ==
  [k \in DOMAIN q |-> [unit |-> q[k], tape |-> TapeFor(k),
                       format |-> status[TapeFor(k)] = "scratch"]]

Tapes(p) == {p[k].tape : k \in DOMAIN p}

(* A job the worker has started, in a drive without a tape. *)
Start(d, q) ==
  /\ pc[d] = "idle" /\ In(d) = {}
  /\ runs < MaxRuns
  /\ runs' = runs + 1
  /\ source' = [source EXCEPT ![d] = q]
  /\ result' = [result EXCEPT ![d] = "none"]
  /\ Goto(d, "plan")
  /\ UNCHANGED <<catalogue, library, ensuring, plan, pos, touched, stops,
                 faults, crashes, history>>

(* The runs that count on the rows they have read. *)
Relying(d) == pc[d] \in {"check", "release", "lookup", "load", "format", "copy",
                         "catalogue", "finalise"} /\ csv[d] = {}

(* The runs that may still bring tapes of their plan into their drives.    *)
AtWork(d) == pc[d] \notin {"idle", "plan", "close"}

MakePlan(d) ==
  /\ pc[d] = "plan"
  /\ Len(source[d]) <= RoomOn(Views)
  /\ plan' = [plan EXCEPT ![d] = Layout(source[d])]
  /\ pos' = [pos EXCEPT ![d] = 1]
  /\ shared' = (shared \/ \E e \in Drive \ {d} :
                  AtWork(e) /\ Tapes(plan[e]) \cap Tapes(plan'[d]) # {})
  /\ Goto(d, "check")
  /\ UNCHANGED <<catalogue, library, ensuring, source, touched, result, bounds,
                 behind>>

(* AllocationError. *)
NoPlan(d) ==
  /\ pc[d] = "plan"
  /\ Len(source[d]) > RoomOn(Views)
  /\ result' = [result EXCEPT ![d] = "failed"]
  /\ Goto(d, "idle")
  /\ UNCHANGED <<catalogue, library, ensuring, source, plan, pos, touched,
                 bounds, history>>
-----------------------------------------------------------------------------
(* The loop over the placements.                                           *)

At(d) == plan[d][pos[d]]

(* ensure(t): the tape is there, another one is, or none. *)
Ensure(d, t, there) ==
  /\ want' = [want EXCEPT ![d] = t]
  /\ Goto(d, IF loaded[d] = t THEN there
             ELSE IF loaded[d] = NoTape THEN "lookup" ELSE "release")

NextPlacement(d) ==
  /\ pc[d] = "check"
  /\ pos[d] <= Len(plan[d])
  /\ Ensure(d, At(d).tape, "copy")
  /\ UNCHANGED <<catalogue, library, running, csv, slot, loaded, formatted,
                 bounds, history>>

(* is_cancelled() or is_paused(): break; and the version that raised.      *)
Done(d, how, where) ==
  /\ result' = [result EXCEPT ![d] = how]
  /\ Goto(d, where)
  /\ UNCHANGED <<catalogue, library, ensuring, source, plan, pos, touched>>

BreakByRaising(d) ==
  /\ pc[d] = "check" /\ pos[d] <= Len(plan[d])
  /\ stops < MaxStops
  /\ stops' = stops + 1
  /\ Done(d, "failed", "close")
  /\ UNCHANGED <<runs, faults, crashes, history>>

BreakAsComplete(d) ==
  /\ pc[d] = "check" /\ pos[d] <= Len(plan[d])
  /\ stops < MaxStops
  /\ stops' = stops + 1
  /\ Done(d, "completed", "finalise")
  /\ UNCHANGED <<runs, faults, crashes, history>>

Break(d) ==
  /\ pc[d] = "check" /\ pos[d] <= Len(plan[d])
  /\ stops < MaxStops
  /\ stops' = stops + 1
  /\ Done(d, "stopped", "finalise")
  /\ UNCHANGED <<runs, faults, crashes, history>>

EndLoop(d) ==
  /\ pc[d] = "check" /\ pos[d] > Len(plan[d])
  /\ Done(d, "completed", "finalise")
  /\ UNCHANGED <<bounds, history>>

(* The row of the unit's folder already has a span on that tape.           *)
Exists(d) == \E s \in SpansOn(At(d).tape) : s.folder = Folder[At(d).unit]

Advance(d) ==
  /\ touched' = [touched EXCEPT ![d] = @ \cup {At(d).tape}]
  /\ pos' = [pos EXCEPT ![d] = @ + 1]
  /\ Goto(d, "check")

SkipForEver(d) ==
  /\ pc[d] = "copy"
  /\ Exists(d)
  /\ touched' = [touched EXCEPT ![d] = @ \cup {At(d).tape}]
  /\ Goto(d, "check")
  /\ UNCHANGED <<catalogue, library, ensuring, source, plan, pos, result, bounds,
                 history>>

Skip(d) ==
  /\ pc[d] = "copy"
  /\ Exists(d)
  /\ Advance(d)
  /\ UNCHANGED <<catalogue, library, ensuring, source, plan, result, bounds,
                 history>>

(* copy_and_hash, onto whichever tape is in the drive. *)
Fits(t, u) == Cardinality(files[t] \cup {u}) <= Capacity

Copy(d) ==
  /\ pc[d] = "copy"
  /\ ~Exists(d)
  /\ \E t \in In(d) :
       /\ Fits(t, At(d).unit)
       /\ files' = [files EXCEPT ![t] = @ \cup {At(d).unit}]
  /\ Goto(d, "catalogue")
  /\ UNCHANGED <<catalogue, place, ensuring, running, bounds, history>>

(* The span is committed. *)
Catalogue(d) ==
  /\ pc[d] = "catalogue"
  /\ spans' = spans \cup {Span(At(d).unit, At(d).tape)}
  /\ Advance(d)
  /\ UNCHANGED <<status, used, library, ensuring, source, plan, result, bounds,
                 history>>

(* _finalise_tape for every tape in tapes_written, in one commit; and a    *)
(* version that counts only what this run has written.                     *)
Total(t) == Cardinality(SpansOn(t))
Finalised(d, S) ==
  /\ used' = [t \in Tape |-> IF t \in S THEN Total(t) ELSE used[t]]
  /\ status' = [t \in Tape |-> IF t \notin S THEN status[t]
                               ELSE IF Total(t) >= Capacity THEN "full" ELSE "active"]
  /\ csv' = [csv EXCEPT ![d] = S]
  /\ Goto(d, "csv")

FinaliseLast(d) ==
  /\ pc[d] = "finalise"
  /\ Finalised(d, touched[d] \cap {loaded[d]})
  /\ UNCHANGED <<spans, library, want, slot, loaded, formatted, running, bounds,
                 history>>

Finalise(d) ==
  /\ pc[d] = "finalise"
  /\ Finalised(d, touched[d])
  /\ UNCHANGED <<spans, library, want, slot, loaded, formatted, running, bounds,
                 history>>

(* Each tape written is brought back for its _catalog file. *)
NextCsv(d) ==
  /\ pc[d] = "csv"
  /\ \E t \in csv[d] : Ensure(d, t, "export")
  /\ UNCHANGED <<catalogue, library, running, csv, slot, loaded, formatted,
                 bounds, history>>

Export(d) ==
  /\ pc[d] = "export"
  /\ csv' = [csv EXCEPT ![d] = @ \ {want[d]}]
  /\ Goto(d, "csv")
  /\ UNCHANGED <<catalogue, library, want, slot, loaded, formatted, running,
                 bounds, history>>

EndCsv(d) ==
  /\ pc[d] = "csv" /\ csv[d] = {}
  /\ Goto(d, "close")
  /\ UNCHANGED <<catalogue, library, ensuring, running, bounds, history>>
-----------------------------------------------------------------------------
(* _Drive: one tape out, one tape in.                                      *)

FreeSlots == Slot \ {place[t] : t \in Tape}
FirstFree == CHOOSE n \in FreeSlots : \A m \in FreeSlots : n <= m

(* unload_tape: what is in the drive goes to the first free slot. *)
Unloads(d) == place' = [t \in Tape |-> IF t \in In(d) THEN FirstFree ELSE place[t]]

Forget(d) ==
  /\ plan' = [plan EXCEPT ![d] = <<>>]
  /\ pos' = [pos EXCEPT ![d] = 1]
  /\ csv' = [csv EXCEPT ![d] = {}]
  /\ want' = [want EXCEPT ![d] = NoTape]
  /\ slot' = [slot EXCEPT ![d] = 0]
  /\ formatted' = [formatted EXCEPT ![d] = {}]
  /\ touched' = [touched EXCEPT ![d] = {}]

(* release() in ensure(), before the next tape; and in the finally clause. *)
Swap(d) ==
  /\ pc[d] = "release"
  /\ Unloads(d)
  /\ loaded' = [loaded EXCEPT ![d] = NoTape]
  /\ Goto(d, "lookup")
  /\ UNCHANGED <<catalogue, files, csv, want, slot, formatted, running, bounds,
                 history>>

Close(d) ==
  /\ pc[d] = "close"
  /\ IF loaded[d] = NoTape THEN UNCHANGED place ELSE Unloads(d)
  /\ loaded' = [loaded EXCEPT ![d] = NoTape]
  /\ Forget(d)
  /\ Goto(d, "idle")
  /\ UNCHANGED <<catalogue, files, source, result, bounds, history>>

(* The unload fails, or only the library_status() after it: a warning, and *)
(* the run thinks no more of what is in its drive.                         *)
UnloadFails(d) ==
  /\ pc[d] \in {"release", "close"} /\ loaded[d] # NoTape
  /\ faults < MaxFaults
  /\ faults' = faults + 1
  /\ Unloads(d) \/ UNCHANGED place
  /\ loaded' = [loaded EXCEPT ![d] = NoTape]
  /\ IF pc[d] = "release"
     THEN /\ Goto(d, "lookup")
          /\ UNCHANGED <<csv, want, slot, formatted, plan, pos, touched>>
     ELSE Goto(d, "idle") /\ Forget(d)
  /\ UNCHANGED <<catalogue, files, source, result, runs, stops, crashes,
                 history>>

(* _slot_of, outside the arm lock; and a version that may find the tape in *)
(* a drive.                                                                *)
LookUpAnywhere(d) ==
  /\ pc[d] = "lookup"
  /\ slot' = [slot EXCEPT ![d] = place[want[d]]]
  /\ Goto(d, "load")
  /\ UNCHANGED <<catalogue, library, csv, want, loaded, formatted, running,
                 bounds, history>>

LookUp(d) ==
  /\ pc[d] = "lookup"
  /\ place[want[d]] \in Slot
  /\ slot' = [slot EXCEPT ![d] = place[want[d]]]
  /\ Goto(d, "load")
  /\ UNCHANGED <<catalogue, library, csv, want, loaded, formatted, running,
                 bounds, history>>

(* load_tape: whatever is in that slot by now. *)
Loadable(d) == In(d) = {} /\ \E t \in Tape : place[t] = slot[d]
Loads(d) == place' = [t \in Tape |-> IF place[t] = slot[d] THEN d ELSE place[t]]

MustFormat(d) == At(d).format /\ want[d] \notin formatted[d]

Load(d) ==
  /\ pc[d] = "load"
  /\ Loadable(d)
  /\ Loads(d)
  /\ loaded' = [loaded EXCEPT ![d] = want[d]]
  /\ Goto(d, IF csv[d] # {} THEN "export"
             ELSE IF MustFormat(d) THEN "format" ELSE "copy")
  /\ UNCHANGED <<catalogue, files, csv, want, slot, formatted, running, bounds,
                 history>>

(* mkltfs, forced, once per tape and run. *)
Wipes(d) == files' = [t \in Tape |-> IF t \in In(d) THEN {} ELSE files[t]]

Format(d) ==
  /\ pc[d] = "format"
  /\ Wipes(d)
  /\ formatted' = [formatted EXCEPT ![d] = @ \cup {want[d]}]
  /\ Goto(d, "copy")
  /\ UNCHANGED <<catalogue, place, csv, want, slot, loaded, running, bounds,
                 history>>

(* The tapes a run leaves with rows that do not know what is on them. *)
Unfinished(d) ==
  IF ~Relying(d) THEN {}
  ELSE touched[d] \cup (IF pc[d] = "catalogue" THEN {At(d).tape} ELSE {})

(* HardwareError, or a tape that is full, ends the run, unless it happens  *)
(* while the catalogue files are written: then that tape goes without one. *)
Raise(d) ==
  /\ IF csv[d] # {}
     THEN /\ csv' = [csv EXCEPT ![d] = @ \ {want[d]}]
          /\ Goto(d, "csv")
          /\ UNCHANGED <<result, behind>>
     ELSE /\ result' = [result EXCEPT ![d] = "failed"]
          /\ behind' = behind \cup Unfinished(d)
          /\ Goto(d, "close")
          /\ UNCHANGED csv
  /\ UNCHANGED <<catalogue, files, want, slot, formatted, source, plan, pos,
                 touched, runs, stops, crashes, shared>>

NotInSlot(d)   == pc[d] = "lookup" /\ place[want[d]] \notin Slot
NotLoadable(d) == pc[d] = "load" /\ ~Loadable(d)
TapeFull(d) ==
  pc[d] = "copy" /\ ~Exists(d) /\ ~\E t \in In(d) : Fits(t, At(d).unit)

Refused(d) ==
  /\ NotInSlot(d) \/ NotLoadable(d) \/ TapeFull(d)
  /\ Raise(d)
  /\ UNCHANGED <<place, loaded, faults>>

(* The move fails, or only the library_status() after it. *)
LoadFails(d) ==
  /\ pc[d] = "load" /\ Loadable(d)
  /\ faults < MaxFaults
  /\ faults' = faults + 1
  /\ Loads(d) \/ UNCHANGED place
  /\ Raise(d)
  /\ UNCHANGED loaded

(* mkltfs or the mount fails. *)
MountFails(d) ==
  /\ pc[d] \in {"format", "copy", "export"} /\ want[d] = loaded[d]
  /\ faults < MaxFaults
  /\ faults' = faults + 1
  /\ Raise(d)
  /\ UNCHANGED <<place, loaded>>

(* The catalogue file cannot be written: an OSError, which nothing catches *)
(* before the finally clause.                                              *)
ExportFails(d) ==
  /\ pc[d] = "export"
  /\ faults < MaxFaults
  /\ faults' = faults + 1
  /\ result' = [result EXCEPT ![d] = "failed"]
  /\ Goto(d, "close")
  /\ UNCHANGED <<catalogue, library, ensuring, source, plan, pos, touched, runs,
                 stops, crashes, history>>

(* A flush or a commit of the run's session raises, before a move or after *)
(* it.  The session may be of no use from then on: then the finally clause *)
(* fails too, and the tape stays in the drive.                             *)
SessionFails(d) ==
  /\ pc[d] \in {"plan", "load", "copy", "catalogue", "finalise", "csv", "export",
                "release", "close"}
  /\ faults < MaxFaults
  /\ faults' = faults + 1
  /\ \/ UNCHANGED place
     \/ pc[d] = "load" /\ Loadable(d) /\ Loads(d)
     \/ loaded[d] # NoTape /\ Unloads(d)
  /\ loaded' = [loaded EXCEPT ![d] = NoTape]
  /\ result' = [result EXCEPT ![d] = "failed"]
  /\ behind' = behind \cup Unfinished(d)
  /\ Goto(d, "idle") /\ Forget(d)
  /\ UNCHANGED <<catalogue, files, source, runs, stops, crashes, shared>>
-----------------------------------------------------------------------------
(* The process dies; runs are forgotten, the tapes stay where they are.    *)
Crash ==
  /\ crashes < MaxCrashes
  /\ \E d \in Drive : pc[d] # "idle"
  /\ crashes' = crashes + 1
  /\ behind' = behind \cup UNION {Unfinished(d) : d \in Drive}
  /\ pc' = [d \in Drive |-> "idle"]
  /\ plan' = [d \in Drive |-> <<>>]
  /\ pos' = [d \in Drive |-> 1]
  /\ csv' = [d \in Drive |-> {}]
  /\ want' = [d \in Drive |-> NoTape]
  /\ slot' = [d \in Drive |-> 0]
  /\ loaded' = [d \in Drive |-> NoTape]
  /\ formatted' = [d \in Drive |-> {}]
  /\ touched' = [d \in Drive |-> {}]
  /\ result' = [d \in Drive |-> IF pc[d] = "idle" THEN result[d] ELSE "failed"]
  /\ UNCHANGED <<catalogue, library, source, runs, stops, faults, shared>>

(* The operator puts back a tape that was left in an idle drive. *)
OperatorUnloads(d) ==
  /\ pc[d] = "idle" /\ In(d) # {}
  /\ Unloads(d)
  /\ UNCHANGED <<catalogue, files, pc, ensuring, running, bounds, history>>
-----------------------------------------------------------------------------
(* A library of scratch tapes, in the slots in any order-preserving way.   *)
Init ==
  /\ status = [t \in Tape |-> "scratch"]
  /\ used = [t \in Tape |-> 0]
  /\ spans = {}
  /\ place \in [Tape -> Slot] /\ IsInjective(place)
  /\ \A s, t \in Tape : s < t => place[s] < place[t]
  /\ files = [t \in Tape |-> {}]
  /\ pc = [d \in Drive |-> "idle"]
  /\ source = [d \in Drive |-> <<>>]
  /\ plan = [d \in Drive |-> <<>>]
  /\ pos = [d \in Drive |-> 1]
  /\ csv = [d \in Drive |-> {}]
  /\ want = [d \in Drive |-> NoTape]
  /\ slot = [d \in Drive |-> 0]
  /\ loaded = [d \in Drive |-> NoTape]
  /\ formatted = [d \in Drive |-> {}]
  /\ touched = [d \in Drive |-> {}]
  /\ result = [d \in Drive |-> "none"]
  /\ runs = 0 /\ stops = 0 /\ faults = 0 /\ crashes = 0
  /\ behind = {} /\ shared = FALSE

RunStep(d) ==
  \/ MakePlan(d) \/ NoPlan(d)
  \/ NextPlacement(d) \/ EndLoop(d) \/ Skip(d) \/ Copy(d) \/ Catalogue(d)
  \/ Finalise(d) \/ NextCsv(d) \/ Export(d) \/ EndCsv(d)
  \/ Swap(d) \/ LookUp(d) \/ Load(d) \/ Format(d) \/ Refused(d) \/ Close(d)

FaultStep(d) ==
  \/ UnloadFails(d) \/ LoadFails(d) \/ MountFails(d)
  \/ ExportFails(d) \/ SessionFails(d)

Next ==
  \/ \E d \in Drive :
       \/ \E q \in Scan : Start(d, q)
       \/ RunStep(d) \/ Break(d) \/ FaultStep(d) \/ OperatorUnloads(d)
  \/ Crash

Spec == Init /\ [][Next]_vars

(* Copies end and hardware calls have a timeout, so a run goes on. *)
FairSpec == Spec /\ \A d \in Drive : WF_vars(RunStep(d))
-----------------------------------------------------------------------------
Placement == [unit: Unit, tape: Tape, format: BOOLEAN]
SpanType == {Span(u, t) : u \in Unit, t \in Tape}

(* Every variable has its type. *)
TypeOK ==
  /\ status \in [Tape -> {"scratch", "active", "full"}]
  /\ used \in [Tape -> Nat]
  /\ spans \in SUBSET SpanType
  /\ place \in [Tape -> Slot \cup Drive]
  /\ files \in [Tape -> SUBSET Unit]
  /\ pc \in [Drive -> {"idle", "plan", "check", "release", "lookup", "load",
                       "format", "copy", "catalogue", "finalise", "csv",
                       "export", "close"}]
  /\ \A d \in Drive : /\ source[d] \in Scan \cup {<<>>}
                      /\ plan[d] \in Seq(Placement)
  /\ pos \in [Drive -> Nat \ {0}]
  /\ csv \in [Drive -> SUBSET Tape]
  /\ want \in [Drive -> Tape \cup {NoTape}]
  /\ slot \in [Drive -> Slot \cup {0}]
  /\ loaded \in [Drive -> Tape \cup {NoTape}]
  /\ formatted \in [Drive -> SUBSET Tape]
  /\ touched \in [Drive -> SUBSET Tape]
  /\ result \in [Drive -> {"none", "completed", "stopped", "failed"}]
  /\ runs \in 0 .. MaxRuns /\ stops \in 0 .. MaxStops
  /\ faults \in 0 .. MaxFaults /\ crashes \in 0 .. MaxCrashes
  /\ behind \in SUBSET Tape /\ shared \in BOOLEAN

(* What the catalogue says was written and verified is on the tape,        *)
(* through pauses, reruns and jobs side by side, for as long as no run     *)
(* planned to use a tape of one still at work, and for the tapes no run    *)
(* failed or died on (writer.py:88, :96, :323).                            *)
CataloguedIsOnTape ==
  ~shared => \A s \in spans : s.tape \notin behind => s.unit \in files[s.tape]

(* A job that ends as completed has catalogued every unit it found, in a   *)
(* first run, a resumed one or a rerun (writer.py:297, jobs.md).           *)
CompletedIsCatalogued ==
  \A d \in Drive : pc[d] = "idle" /\ result[d] = "completed" =>
    \A k \in DOMAIN source[d] : \E s \in spans : s.folder = Folder[source[d][k]]

(* Between runs the row of a tape says what its spans say: full, active or *)
(* scratch, and how much of it is used, so the next plan can rely on it    *)
(* (writer.py:324, :537).                                                  *)
RowsMatchSpans ==
  (\A d \in Drive : ~Relying(d)) =>
    \A t \in Tape \ behind :
      /\ used[t] = Total(t)
      /\ status[t] = "scratch" <=> SpansOn(t) = {}
      /\ status[t] = "full" <=> Total(t) >= Capacity

(* A run leaves its drive empty unless a call failed or the process died   *)
(* under it (writer.py:105, :349).                                         *)
DriveLeftEmpty ==
  faults = 0 /\ crashes = 0 => \A d \in Drive : pc[d] = "idle" => In(d) = {}

(* Between runs the next plan can rely on the rows and on the drive.       *)
CleanBetweenRuns == RowsMatchSpans /\ DriveLeftEmpty

(* Every run comes to its end (writer.py:286).                             *)
RunsEnd == \A d \in Drive : pc[d] # "idle" ~> pc[d] = "idle"

(* writer.py:5: an interrupted job can simply be started again; it skips   *)
(* what is written already, so once it has completed all of it is there.   *)
RerunCompletesTheJob ==
  \A d \in Drive : pc[d] = "idle" /\ result[d] = "completed" =>
    \A s \in spans : s.unit \in Range(source[d]) => s.unit \in files[s.tape]

(* intake.py:7: nothing is ever silently dropped.                          *)
NothingDropped ==
  \A d \in Drive : pc[d] = "idle" /\ result[d] = "completed" =>
    \A k \in DOMAIN source[d] : \E s \in spans : s.unit = source[d][k]
=============================================================================
