------------------------------- MODULE ReadBack -------------------------------
(***************************************************************************)
(* Reading tapes back: app/services/verification.py and                    *)
(* app/services/restore.py, with the moves they make through               *)
(* app/services/library.py.                                                *)
(*                                                                         *)
(* A restore brings the tapes of its plan into its drive one by one and    *)
(* copies what was selected to a destination; a verify job brings one      *)
(* tape, reads its data and marks in the catalogue what it found sound.    *)
(* Each runs in the drive the worker claimed for it, that is one thread    *)
(* for each drive that is in use.                                          *)
(***************************************************************************)
EXTENDS Naturals, Sequences, FiniteSets, Functions, SequencesExt, Sorting

CONSTANTS
  Tape,         \* the tapes
  Slot,         \* the numbers of the storage slots
  Drive,        \* the numbers of the drives, different from those of the slots
  Home,         \* Home[t]: where tape t is to begin with
  Row,          \* the rows of content_tape_spans, in the order of their ids
  Request,      \* the restore requests
  Selected,     \* Selected[r]: the contents request r is for
  Task,         \* what the operator may start
  Medium,       \* what reading the tapes may give: see health
  MaxStarts,    \* bound: jobs
  MaxTroubles   \* bound: cancellations, calls that fail, tapes taken out or
                \* put in, and deaths of the process

NoTape == 0
NoSlot == 0
Outside == 0
NoTask == [kind |-> "none"]

(* A row says that part "part" of a content is on a tape: a sequence of    *)
(* frames with their manifest, or a file.  It is hashed if it has a        *)
(* sha256, which a fast scan leaves out.  Contents are numbered in the     *)
(* order of their paths.                                                   *)
Span == DOMAIN Row
Content == {Row[s].content : s \in Span}
Parts(c) == {s \in Span : Row[s].content = c}
IsSequence(s) == Row[s].kind = "sequence"
Sequences == {c \in Content : \E s \in Parts(c) : IsSequence(s)}
Files == Content \ Sequences

(* What there is to read on a tape. *)
Piece(s, p) == [span |-> s, piece |-> p]
PiecesOf(s) == IF IsSequence(s) THEN {Piece(s, "manifest"), Piece(s, "frames")}
               ELSE {Piece(s, "data")}
Datum == UNION {PiecesOf(s) : s \in Span}
Health == {"good", "wrong", "unreadable"}

ASSUME TapeIds == Tape \subseteq Nat \ {NoTape} /\ IsFiniteSet(Tape)
ASSUME Places ==
  /\ Slot \subseteq Nat \ {NoSlot} /\ Drive \subseteq Nat \ {NoSlot}
  /\ Slot \cap Drive = {} /\ IsFiniteSet(Slot) /\ IsFiniteSet(Drive)
  /\ Home \in [Tape -> Slot \cup {Outside}]
  /\ \A t, u \in Tape : Home[t] = Home[u] /\ t # u => Home[t] = Outside
(* A content is catalogued once: each part of it has one row. *)
ASSUME Rows ==
  /\ Row \in Seq([content: Nat, kind: {"sequence", "file"}, tape: Tape, part: Nat \ {0},
                  hashed: BOOLEAN])
  /\ \A r, s \in Span : Row[r].content = Row[s].content =>
       /\ Row[r].kind = Row[s].kind
       /\ Row[r].part = Row[s].part => r = s
ASSUME Selections == Selected \in [Request -> SUBSET Content]
ASSUME Tasks == \A k \in Task :
  \/ k.kind = "verify" /\ k.tape \in Tape /\ k.full \in BOOLEAN
  \/ k.kind = "restore" /\ k.request \in Request
ASSUME Media == Medium \subseteq [Datum -> Health]
ASSUME BoundsAreNat == MaxStarts \in Nat /\ MaxTroubles \in Nat

VARIABLES
  (* The catalogue. *)
  status,    \* RestoreRequest.status; ready and pending are "prepared"
  blocked,   \* its warnings name a tape that is not in the library
  verified,  \* the spans with verified_at set
  checked,   \* the tapes with last_verified_at set
  errors,    \* table read_errors: the spans they are about
  (* The library, and the destinations of the requests. *)
  place,     \* the slot or drive each tape is in
  mounted,   \* the drives with a mounted volume
  health,    \* what reading a piece gives; it does not change
  folder,    \* the frames in the restored sequences
  joined,    \* the parts in each restored file, in order
  (* The thread of each drive. *)
  task,      \* the job that has claimed the drive
  pc,        \* where its thread is
  tape,      \* the tape it works on
  slot,      \* where it was found
  at,        \* the drive whose mount point is read
  todo,      \* the tapes of the plan that are still to come
  work,      \* the files to copy, or the checks to make, on this tape
  passed,    \* ok_span_ids
  failed,    \* bad_span_ids
  outcome,   \* problems, mismatches, read errors, warnings; or an exception
  cancelled, \* what is_cancelled() answers
  (* Bounds and history. *)
  starts, troubles, dbErrors, crashes,
  unmade,    \* requests whose destination could not be made
  reported,  \* the last job in the drive has told of a problem
  spoiled,   \* requests with a run that was cut short, met another or read
             \* a wrong tape, or with a frame of which only a piece was copied
  borrowed   \* a verify job has read in a drive it has not claimed, or has
             \* read a wrong tape

catalogue == <<status, blocked, verified, checked, errors>>
library   == <<place, mounted, health>>
output    == <<folder, joined>>
locals    == <<tape, slot, at, todo, work, passed, failed>>
threads   == <<task, pc, locals, outcome, cancelled>>
bounds    == <<starts, troubles, dbErrors, crashes, unmade>>
failures  == <<dbErrors, crashes, unmade>>
history   == <<reported, spoiled, borrowed>>
vars == <<catalogue, library, output, threads, bounds, history>>

Goto(d, where) == pc' = [pc EXCEPT ![d] = where]
In(d) == {t \in Tape : place[t] = d}
Kind(d) == task[d].kind
Live(d) == task[d] # NoTask
Runs(r) == {d \in Drive : Kind(d) = "restore" /\ task[d].request = r}
-----------------------------------------------------------------------------
(* Requests: prepare_restore.                                              *)

(* _collect_spans: first the sequences, then the files. *)
Collected(r) == {s \in Span : Row[s].content \in Selected[r]}
Sooner(s, u) ==
  \/ IsSequence(s) /\ ~IsSequence(u)
  \/ (IsSequence(s) <=> IsSequence(u)) /\ s < u

(* by_tape: the tapes in the order they come up.                           *)
TapesNeeded(r) == {Row[s].tape : s \in Collected(r)}
SpansFrom(r, t) == {s \in Collected(r) : Row[s].tape = t}
FirstSpan(r, t) == Sorted(SpansFrom(r, t), Sooner)[1]
Plan ==
  [r \in Request |->
     Sorted(TapesNeeded(r), LAMBDA t, u : Sooner(FirstSpan(r, t), FirstSpan(r, u)))]

(* The files of a tape, by path and part. *)
Before(s, u) ==
  \/ Row[s].content < Row[u].content
  \/ Row[s].content = Row[u].content /\ Row[s].part < Row[u].part
Wanted(s) == Piece(s, IF IsSequence(s) THEN "frames" ELSE "data")
FilesOn ==
  [r \in Request |-> [t \in Tape |->
     LET order == Sorted(SpansFrom(r, t), Before)
     IN [i \in DOMAIN order |-> Wanted(order[i])]]]

Prepare(r) ==
  /\ status[r] = "none"
  /\ status' = [status EXCEPT ![r] = "prepared"]
  /\ blocked' = [blocked EXCEPT ![r] = \E t \in TapesNeeded(r) : place[t] = Outside]
  /\ UNCHANGED <<verified, checked, errors, library, output, threads, bounds, history>>
-----------------------------------------------------------------------------
(* A job begins.                                                           *)

(* The worker has claimed an empty drive: the one a verify job names, or   *)
(* the first for a restore.                                                *)
FreeDrives == {d \in Drive : ~Live(d) /\ In(d) = {}}

Start(d, k) ==
  /\ starts < MaxStarts /\ d \in FreeDrives
  /\ k.kind = "restore" =>
       status[k.request] # "none" /\ \A e \in FreeDrives : d <= e
  /\ starts' = starts + 1
  /\ task' = [task EXCEPT ![d] = k]
  /\ Goto(d, "begin")
  /\ spoiled' = IF k.kind = "restore" /\ Runs(k.request) # {}
                THEN spoiled \cup {k.request} ELSE spoiled
  /\ UNCHANGED <<catalogue, library, output, locals, outcome, cancelled,
                 troubles, failures, reported, borrowed>>

(* An exception outlives a problem. *)
Fails(d, how) ==
  outcome' = [outcome EXCEPT ![d] = IF @ \in {"raised", "fatal"} THEN @ ELSE how]
Noted(d) == Fails(d, "problem")

(* A job that raises before it has begun to read goes to its end. *)
Raise(d) == Fails(d, "raised") /\ Goto(d, "finish")

(* The request is marked as in progress; then the destination is made.     *)
Begins(d) ==
  /\ pc[d] = "begin" /\ Kind(d) = "restore" /\ ~blocked[task[d].request]
  /\ status' = [status EXCEPT ![task[d].request] = "in_progress"]

BeginRestore(d) ==
  /\ Begins(d)
  /\ unmade' = unmade \ {task[d].request}
  /\ todo' = [todo EXCEPT ![d] = Plan[task[d].request]]
  /\ Goto(d, "next")
  /\ UNCHANGED <<blocked, verified, checked, errors, library, output, task, tape,
                 slot, at, work, passed, failed, outcome, cancelled, starts, troubles,
                 dbErrors, crashes, history>>

(* It cannot be made, and no handler is in place yet that would record it. *)
NoDestination(d) ==
  /\ Begins(d)
  /\ troubles < MaxTroubles /\ troubles' = troubles + 1
  /\ unmade' = unmade \cup {task[d].request}
  /\ Fails(d, "raised") /\ Goto(d, "leave")
  /\ UNCHANGED <<blocked, verified, checked, errors, library, output, task, locals,
                 cancelled, starts, dbErrors, crashes, history>>

(* The exception is raised before the request is touched. *)
RefuseRestore(d) ==
  /\ pc[d] = "begin" /\ Kind(d) = "restore" /\ blocked[task[d].request]
  /\ Fails(d, "raised") /\ Goto(d, "leave")
  /\ UNCHANGED <<catalogue, library, output, task, locals, cancelled, bounds, history>>

(* The next tape of the plan: in a slot, or taken to be in the drive.      *)
NextTape(d) ==
  /\ pc[d] = "next" /\ todo[d] # <<>> /\ ~cancelled[d]
  /\ LET t == Head(todo[d]) IN
       /\ tape' = [tape EXCEPT ![d] = t]
       /\ work' = [work EXCEPT ![d] = FilesOn[task[d].request][t]]
       /\ IF place[t] \in Slot
          THEN slot' = [slot EXCEPT ![d] = place[t]] /\ Goto(d, "load")
          ELSE UNCHANGED slot /\ Goto(d, "mount")
  /\ todo' = [todo EXCEPT ![d] = Tail(@)]
  /\ at' = [at EXCEPT ![d] = d]
  /\ UNCHANGED <<catalogue, library, output, task, passed, failed, outcome,
                 cancelled, bounds, history>>

LastTape(d) ==
  /\ pc[d] = "next" /\ (todo[d] = <<>> \/ cancelled[d])
  /\ Goto(d, "finish")
  /\ spoiled' = IF todo[d] = <<>> THEN spoiled ELSE spoiled \cup {task[d].request}
  /\ todo' = [todo EXCEPT ![d] = <<>>]
  /\ UNCHANGED <<catalogue, library, output, task, tape, slot, at, work, passed,
                 failed, outcome, cancelled, bounds, reported, borrowed>>

(* _load_and_mount: in a slot, in a drive, claimed or not, or nowhere.     *)
BeginVerify(d) ==
  /\ pc[d] = "begin" /\ Kind(d) = "verify"
  /\ LET t == task[d].tape IN
       /\ tape' = [tape EXCEPT ![d] = t]
       /\ \/ /\ place[t] \in Slot
             /\ slot' = [slot EXCEPT ![d] = place[t]]
             /\ at' = [at EXCEPT ![d] = d]
             /\ Goto(d, "load")
             /\ UNCHANGED <<outcome, borrowed>>
          \/ /\ place[t] \in Drive
             /\ at' = [at EXCEPT ![d] = place[t]]
             /\ borrowed' = (borrowed \/ place[t] # d)
             /\ Goto(d, "mount")
             /\ UNCHANGED <<slot, outcome>>
          \/ /\ place[t] = Outside
             /\ Raise(d)
             /\ UNCHANGED <<slot, at, borrowed>>
  /\ UNCHANGED <<catalogue, library, output, task, todo, work, passed, failed,
                 cancelled, bounds, reported, spoiled>>
-----------------------------------------------------------------------------
(* The moves.                                                              *)

(* load_tape: whatever is in that slot by now. *)
Loadable(d) == In(d) = {} /\ \E t \in Tape : place[t] = slot[d]
Loads(d) == place' = [t \in Tape |-> IF place[t] = slot[d] THEN d ELSE place[t]]

Load(d) ==
  /\ pc[d] = "load"
  /\ IF Loadable(d) THEN Loads(d) /\ Goto(d, "mount") /\ UNCHANGED outcome
     ELSE Raise(d) /\ UNCHANGED place
  /\ slot' = [slot EXCEPT ![d] = NoSlot]
  /\ UNCHANGED <<catalogue, mounted, health, output, task, tape, at, todo, work,
                 passed, failed, cancelled, bounds, history>>

(* Nothing compares the tape in the drive with the one asked for.          *)
WrongTape(d) == In(at[d]) # {tape[d]}

(* mount_ltfs.  What a second mount does is up to the backend: the         *)
(* simulator allows it, a real drive is busy.                              *)
Mount(d) ==
  /\ pc[d] = "mount"
  /\ \/ /\ In(at[d]) # {}
        /\ mounted' = mounted \cup {at[d]}
        /\ Goto(d, IF Kind(d) = "restore" THEN "copy" ELSE "build")
        /\ spoiled' = IF WrongTape(d) /\ Kind(d) = "restore"
                      THEN spoiled \cup {task[d].request} ELSE spoiled
        /\ borrowed' = (borrowed \/ (WrongTape(d) /\ Kind(d) = "verify"))
        /\ UNCHANGED outcome
     \/ /\ In(at[d]) = {} \/ at[d] \in mounted
        /\ Raise(d)
        /\ UNCHANGED <<mounted, spoiled, borrowed>>
  /\ UNCHANGED <<catalogue, place, health, output, task, locals, cancelled,
                 bounds, reported>>

(* A clean-up that failed is noted; and a version that passes over it. *)
CleanupIgnored(d) == UNCHANGED outcome
CleanupNoted(d) == Fails(d, "problem")

(* The clean-up: unmount_ltfs and unload_tape of the claimed drive, each   *)
(* with a problem of its own.                                              *)
Unmount(d) ==
  /\ pc[d] = "unmount"
  /\ mounted' = mounted \ {d}
  /\ UNCHANGED outcome \/ (d \notin mounted /\ CleanupNoted(d))
  /\ Goto(d, "unload")
  /\ UNCHANGED <<catalogue, place, health, output, task, locals, cancelled,
                 bounds, history>>

FreeSlots == Slot \ {place[t] : t \in Tape}

(* The first free slot; and a version that counts on from the last one in  *)
(* use.                                                                    *)
NextAfterLast ==
  IF FreeSlots = {} THEN {}
  ELSE {n + 1 : n \in {n \in Slot \ FreeSlots : \A m \in Slot \ FreeSlots : m <= n}}
FirstFree == {n \in FreeSlots : \A m \in FreeSlots : n <= m}
Unloadable(d) == In(d) # {} /\ FirstFree # {}
Unloads(d) ==
  \E n \in FirstFree :
    /\ place' = [t \in Tape |-> IF place[t] = d THEN n ELSE place[t]]
    /\ mounted' = mounted \ {d}

(* What comes after a tape. *)
AfterTape(d) ==
  IF Kind(d) = "restore" /\ outcome[d] # "raised" THEN "next" ELSE "finish"

Unload(d) ==
  /\ pc[d] = "unload" /\ outcome[d] # "fatal"
  /\ \/ Unloadable(d) /\ Unloads(d) /\ UNCHANGED outcome
     \/ /\ ~Unloadable(d) \/ d \in mounted
        /\ CleanupNoted(d)
        /\ UNCHANGED <<place, mounted>>
  /\ Goto(d, AfterTape(d))
  /\ UNCHANGED <<catalogue, health, output, task, locals, cancelled, bounds, history>>
-----------------------------------------------------------------------------
(* Copying: _restore_one for the next file of the tape.                    *)

(* What is read under the path of a piece: of a sequence, the frames of    *)
(* all parts that are on the mounted tape.                                 *)
Source(d) ==
  LET w == Head(work[d]) IN
  {s \in Span :
     /\ at[d] \in mounted /\ Row[s].tape \in In(at[d])
     /\ Row[s].content = Row[w.span].content
     /\ IsSequence(s) \/ Row[s].part = Row[w.span].part}
Reading(s) == health[Wanted(s)]

Whole(c) == Cardinality(Parts(c)) = 1
Chunk(s, q) == [span |-> s, is |-> q]

(* Mode "wb" for a whole file and for part 0, "ab" for the other parts;    *)
(* and a version that appends every part.                                  *)
WrittenAppending(r, s, q) ==
  IF Whole(Row[s].content) THEN <<Chunk(s, q)>>
  ELSE Append(joined[r][Row[s].content], Chunk(s, q))
Written(r, s, q) ==
  LET c == Row[s].content
  IN IF Whole(c) \/ Row[s].part = 1 THEN <<Chunk(s, q)>>
     ELSE Append(joined[r][c], Chunk(s, q))

(* A frame that exists is left as it is, whatever is in it. *)
New(d) ==
  {s \in Source(d) : ~ \E k \in folder[task[d].request] : IsSequence(s) /\ k.span = s}

WritesFile(d, s, q) ==
  /\ joined' = [joined EXCEPT ![task[d].request][Row[s].content] =
                  Written(task[d].request, s, q)]
  /\ UNCHANGED folder
WritesFrames(d, chunks) ==
  /\ folder' = [folder EXCEPT ![task[d].request] = @ \cup chunks]
  /\ UNCHANGED joined
Copied(S) == {Chunk(s, Reading(s)) : s \in S}
Clear(d) == {s \in New(d) : Reading(s) # "unreadable"}

(* One turn of the loop over the files. *)
Copies(d) ==
  /\ pc[d] = "copy" /\ work[d] # <<>> /\ ~cancelled[d]
  /\ work' = [work EXCEPT ![d] = Tail(@)]
  /\ UNCHANGED <<catalogue, library, task, pc, tape, slot, at, todo, passed,
                 failed, cancelled, starts, failures, reported, borrowed>>

CopyMissing(d) ==
  /\ Copies(d)
  /\ Source(d) = {}
  /\ Noted(d)
  /\ UNCHANGED <<output, troubles, spoiled>>

(* A sequence: the frames that are not there yet. *)
CopyFrames(d) ==
  /\ Copies(d)
  /\ IsSequence(Head(work[d]).span)
  /\ Source(d) # {} /\ New(d) = Clear(d)
  /\ WritesFrames(d, Copied(New(d)))
  /\ UNCHANGED <<outcome, troubles, spoiled>>

(* The hash of the copy is compared for whole files that have one; and a   *)
(* version that compares those of parts.                                   *)
MismatchOfPart(s) ==
  ~Whole(Row[s].content) /\ Row[s].hashed /\ Reading(s) = "wrong"
Mismatch(s) == Whole(Row[s].content) /\ Row[s].hashed /\ Reading(s) = "wrong"

(* A file. *)
CopyFile(d) ==
  /\ Copies(d)
  /\ ~IsSequence(Head(work[d]).span)
  /\ \E s \in Clear(d) :
       /\ WritesFile(d, s, Reading(s))
       /\ IF Mismatch(s) THEN Noted(d) ELSE UNCHANGED outcome
  /\ UNCHANGED <<troubles, spoiled>>

(* Reading or writing fails at once or half-way: what was copied stays. *)
Cuts(d) ==
  \/ UNCHANGED <<output, spoiled>>
  \/ /\ ~IsSequence(Head(work[d]).span)
     /\ \E s \in New(d) : WritesFile(d, s, "cut")
     /\ UNCHANGED spoiled
  \/ /\ IsSequence(Head(work[d]).span)
     /\ \E whole \in SUBSET Clear(d) :
          \/ WritesFrames(d, Copied(whole)) /\ UNCHANGED spoiled
          \/ \E s \in New(d) \ whole :
               /\ WritesFrames(d, Copied(whole) \cup {Chunk(s, "cut")})
               /\ spoiled' = spoiled \cup {task[d].request}

CopyFails(d) ==
  /\ Copies(d)
  /\ Cuts(d)
  /\ \/ New(d) # Clear(d) /\ UNCHANGED troubles
     \/ troubles < MaxTroubles /\ troubles' = troubles + 1
  /\ Noted(d)

CopyDone(d) ==
  /\ pc[d] = "copy" /\ (work[d] = <<>> \/ cancelled[d])
  /\ Goto(d, "unmount")
  /\ spoiled' = IF work[d] = <<>> THEN spoiled ELSE spoiled \cup {task[d].request}
  /\ work' = [work EXCEPT ![d] = <<>>]
  /\ UNCHANGED <<catalogue, library, output, task, tape, slot, at, todo, passed,
                 failed, outcome, cancelled, bounds, reported, borrowed>>
-----------------------------------------------------------------------------
(* Checking.                                                               *)

SpansOn(t) == {s \in Span : Row[s].tape = t}
Readable(d, w) ==
  /\ at[d] \in mounted /\ In(at[d]) = {Row[w.span].tape}
  /\ health[w] # "unreadable"

(* _build_checks: the frames are those the manifest on the tape lists; one *)
(* that is damaged may still list them.                                    *)
Checks(t, parsed) ==
  {w \in Datum : w.span \in SpansOn(t) /\ (w.piece = "frames" => w.span \in parsed)}

Parses(d, s) == IsSequence(s) /\ Readable(d, Piece(s, "manifest"))
MayParse(d) == {s \in SpansOn(tape[d]) : Parses(d, s)}
MustParse(d) == {s \in MayParse(d) : health[Piece(s, "manifest")] = "good"}

(* All checks, or a sample of at least one. *)
Samples(d, all) ==
  IF task[d].full \/ all = {} THEN {all} ELSE SUBSET all \ {{}}

Build(d) ==
  /\ pc[d] = "build"
  /\ \E parsed \in SUBSET MayParse(d) :
       /\ MustParse(d) \subseteq parsed
       /\ \E some \in Samples(d, Checks(tape[d], parsed)) :
            work' = [work EXCEPT ![d] = SetToSeq(some)]
  /\ Goto(d, "check")
  /\ UNCHANGED <<catalogue, library, output, task, tape, slot, at, todo, passed,
                 failed, outcome, cancelled, bounds, history>>

(* There is something to compare with: the hash in the row or, for frames, *)
(* those in the manifest; and a version that forgets the latter.  Frames   *)
(* that are right may differ from what a damaged manifest says of them.    *)
RowCompared(w) == Row[w.span].hashed
Compared(w) == w.piece = "frames" \/ Row[w.span].hashed
Differs(w) == Compared(w) /\ health[w] = "wrong"
MayDiffer(w) ==
  Differs(w) \/ (w.piece = "frames" /\ health[Piece(w.span, "manifest")] = "wrong")

(* One turn of the loop over the checks. *)
Reads(d) ==
  /\ pc[d] = "check" /\ work[d] # <<>> /\ ~cancelled[d]
  /\ work' = [work EXCEPT ![d] = Tail(@)]
  /\ UNCHANGED <<status, blocked, verified, checked, library, output, task, pc,
                 tape, slot, at, todo, cancelled, starts, failures, history>>

ReadsGood(d) ==
  /\ Reads(d)
  /\ Readable(d, Head(work[d])) /\ ~Differs(Head(work[d]))
  /\ passed' = [passed EXCEPT ![d] = @ \cup {Head(work[d]).span}]
  /\ UNCHANGED <<errors, failed, outcome, troubles>>

ReadsWrong(d) ==
  /\ Reads(d)
  /\ Readable(d, Head(work[d])) /\ MayDiffer(Head(work[d]))
  /\ failed' = [failed EXCEPT ![d] = @ \cup {Head(work[d]).span}]
  /\ Noted(d)
  /\ UNCHANGED <<errors, passed, troubles>>

(* The error is committed at once. *)
ReadFails(d) ==
  /\ Reads(d)
  /\ \/ ~Readable(d, Head(work[d])) /\ UNCHANGED troubles
     \/ troubles < MaxTroubles /\ troubles' = troubles + 1
  /\ errors' = errors \cup {Head(work[d]).span}
  /\ failed' = [failed EXCEPT ![d] = @ \cup {Head(work[d]).span}]
  /\ Noted(d)
  /\ UNCHANGED passed

(* The loop is over, or left because the job is cancelled: verified_spans; *)
(* and versions that forget that a span may pass and fail, or fail only.   *)
PassedOnce(d) == passed[d]
Attempted(d) == passed[d] \cup failed[d]
Sound(d) == passed[d] \ failed[d]

Marks(d) == outcome[d] = "clean"

Mark(d) ==
  /\ pc[d] = "check" /\ (work[d] = <<>> \/ cancelled[d])
  /\ verified' = verified \cup Sound(d)
  /\ checked' = IF Marks(d) THEN checked \cup {tape[d]} ELSE checked
  /\ work' = [work EXCEPT ![d] = <<>>]
  /\ Goto(d, "unmount")
  /\ UNCHANGED <<status, blocked, errors, library, output, task, tape, slot, at,
                 todo, passed, failed, outcome, cancelled, bounds, history>>
-----------------------------------------------------------------------------
(* The end of a job, and what goes wrong.                                  *)

Idles(d) ==
  /\ task' = [task EXCEPT ![d] = NoTask]
  /\ Goto(d, "idle")
  /\ tape' = [tape EXCEPT ![d] = NoTape]
  /\ slot' = [slot EXCEPT ![d] = NoSlot]
  /\ at' = [at EXCEPT ![d] = d]
  /\ todo' = [todo EXCEPT ![d] = <<>>]
  /\ work' = [work EXCEPT ![d] = <<>>]
  /\ passed' = [passed EXCEPT ![d] = {}]
  /\ failed' = [failed EXCEPT ![d] = {}]
  /\ outcome' = [outcome EXCEPT ![d] = "clean"]
  /\ cancelled' = [cancelled EXCEPT ![d] = FALSE]
  /\ reported' = [reported EXCEPT ![d] = outcome[d] # "clean"]

(* The status a restore leaves. *)
FinalStatus(d) == IF outcome[d] = "clean" THEN "completed" ELSE "failed"

Finish(d) ==
  /\ pc[d] = "finish"
  /\ status' = IF Kind(d) = "restore"
               THEN [status EXCEPT ![task[d].request] = FinalStatus(d)] ELSE status
  /\ Idles(d)
  /\ UNCHANGED <<blocked, verified, checked, errors, library, output, bounds,
                 spoiled, borrowed>>

Leave(d) ==
  /\ pc[d] = "leave"
  /\ Idles(d)
  /\ UNCHANGED <<catalogue, library, output, bounds, spoiled, borrowed>>

Trouble == troubles < MaxTroubles /\ troubles' = troubles + 1

Cancel(d) ==
  /\ Live(d) /\ ~cancelled[d]
  /\ Trouble
  /\ cancelled' = [cancelled EXCEPT ![d] = TRUE]
  /\ UNCHANGED <<catalogue, library, output, task, pc, locals, outcome, starts,
                 failures, history>>

(* A HardwareError.  A call that fails may have done its work. *)
CallFails(d) ==
  /\ Trouble
  /\ \/ /\ pc[d] \in {"next", "load", "mount"} \/ (pc[d] = "begin" /\ Kind(d) = "verify")
        /\ Raise(d)
        /\ \/ UNCHANGED <<place, mounted>>
           \/ pc[d] = "load" /\ Loadable(d) /\ Loads(d) /\ UNCHANGED mounted
     \/ /\ pc[d] = "unmount"
        /\ CleanupNoted(d) /\ Goto(d, "unload")
        /\ UNCHANGED <<place, mounted>>
     \/ /\ pc[d] = "unload"
        /\ CleanupNoted(d) /\ Goto(d, AfterTape(d))
        /\ UNCHANGED <<place, mounted>> \/ (Unloadable(d) /\ Unloads(d))
  /\ UNCHANGED <<catalogue, health, output, task, locals, cancelled, starts,
                 failures, history>>

(* Another exception while the volume is mounted: the clean-up still runs. *)
Raises(d) ==
  /\ pc[d] \in {"copy", "build", "check"}
  /\ Trouble
  /\ Fails(d, "raised") /\ Goto(d, "unmount")
  /\ UNCHANGED <<catalogue, library, output, task, locals, cancelled, starts,
                 failures, history>>

(* A flush of the job's session raises, before a move or after it.  The    *)
(* session is of no use from then on: the clean-up ends with unmounting    *)
(* and the handler of a restore cannot record that it failed.              *)
Dies(d) ==
  /\ Trouble
  /\ dbErrors' = dbErrors + 1
  /\ outcome' = [outcome EXCEPT ![d] = "fatal"]
  /\ \/ /\ pc[d] = "check"
        /\ Goto(d, "unmount")
        /\ UNCHANGED <<place, mounted>>
     \/ /\ pc[d] \in {"load", "unload", "finish"} \/ (pc[d] = "begin" /\ Kind(d) = "restore")
        /\ Goto(d, "leave")
        /\ \/ UNCHANGED <<place, mounted>>
           \/ pc[d] = "load" /\ Loadable(d) /\ Loads(d) /\ UNCHANGED mounted
           \/ pc[d] = "unload" /\ Unloadable(d) /\ Unloads(d)
  /\ UNCHANGED <<catalogue, health, output, task, locals, cancelled, starts,
                 crashes, unmade, history>>

CannotUnload(d) ==
  /\ pc[d] = "unload" /\ outcome[d] = "fatal"
  /\ Goto(d, "leave")
  /\ UNCHANGED <<catalogue, library, output, task, locals, outcome, cancelled,
                 bounds, history>>

(* The process dies, perhaps in the middle of a copy.  The volumes may     *)
(* stay mounted.                                                           *)
Crash ==
  /\ \E d \in Drive : Live(d)
  /\ Trouble
  /\ crashes' = crashes + 1
  /\ \/ UNCHANGED <<output, spoiled>>
     \/ \E d \in Drive : pc[d] = "copy" /\ work[d] # <<>> /\ Cuts(d)
  /\ mounted' \in {mounted, {}}
  /\ task' = [d \in Drive |-> NoTask]
  /\ pc' = [d \in Drive |-> "idle"]
  /\ tape' = [d \in Drive |-> NoTape] /\ slot' = [d \in Drive |-> NoSlot]
  /\ at' = [d \in Drive |-> d]
  /\ todo' = [d \in Drive |-> <<>>] /\ work' = [d \in Drive |-> <<>>]
  /\ passed' = [d \in Drive |-> {}] /\ failed' = [d \in Drive |-> {}]
  /\ outcome' = [d \in Drive |-> "clean"]
  /\ cancelled' = [d \in Drive |-> FALSE]
  /\ UNCHANGED <<catalogue, place, health, starts, dbErrors, unmade, reported, borrowed>>

(* The operator empties a drive no job has claimed, takes a tape out of    *)
(* the library or puts it back.                                            *)
OperatorUnloads(d) ==
  /\ ~Live(d) /\ Unloadable(d) /\ Unloads(d)
  /\ UNCHANGED <<catalogue, health, output, threads, bounds, history>>

OperatorTakesOut(t) ==
  /\ Trouble
  /\ place[t] \in Slot /\ place' = [place EXCEPT ![t] = Outside]
  /\ UNCHANGED <<catalogue, mounted, health, output, threads, starts, failures, history>>

OperatorPutsBack(t) ==
  /\ place[t] = Outside
  /\ \E n \in FreeSlots : place' = [place EXCEPT ![t] = n]
  /\ UNCHANGED <<catalogue, mounted, health, output, threads, bounds, history>>
-----------------------------------------------------------------------------
Init ==
  /\ status = [r \in Request |-> "none"] /\ blocked = [r \in Request |-> FALSE]
  /\ verified = {} /\ checked = {} /\ errors = {}
  /\ place = Home /\ mounted = {} /\ health \in Medium
  /\ folder = [r \in Request |-> {}]
  /\ joined = [r \in Request |-> [c \in Files |-> <<>>]]
  /\ task = [d \in Drive |-> NoTask] /\ pc = [d \in Drive |-> "idle"]
  /\ tape = [d \in Drive |-> NoTape] /\ slot = [d \in Drive |-> NoSlot]
  /\ at = [d \in Drive |-> d]
  /\ todo = [d \in Drive |-> <<>>] /\ work = [d \in Drive |-> <<>>]
  /\ passed = [d \in Drive |-> {}] /\ failed = [d \in Drive |-> {}]
  /\ outcome = [d \in Drive |-> "clean"]
  /\ cancelled = [d \in Drive |-> FALSE]
  /\ starts = 0 /\ troubles = 0 /\ dbErrors = 0 /\ crashes = 0 /\ unmade = {}
  /\ reported = [d \in Drive |-> FALSE] /\ spoiled = {} /\ borrowed = FALSE

ThreadStep(d) ==
  \/ BeginRestore(d) \/ NoDestination(d) \/ RefuseRestore(d) \/ NextTape(d) \/ LastTape(d)
  \/ BeginVerify(d) \/ Load(d) \/ Mount(d)
  \/ CopyMissing(d) \/ CopyFrames(d) \/ CopyFile(d) \/ CopyFails(d) \/ CopyDone(d)
  \/ Build(d) \/ ReadsGood(d) \/ ReadsWrong(d) \/ ReadFails(d) \/ Mark(d)
  \/ Unmount(d) \/ Unload(d) \/ CannotUnload(d) \/ Finish(d) \/ Leave(d)

Next ==
  \/ \E r \in Request : Prepare(r)
  \/ \E d \in Drive :
       \/ \E k \in Task : Start(d, k)
       \/ ThreadStep(d) \/ Cancel(d) \/ CallFails(d) \/ Raises(d) \/ Dies(d)
       \/ OperatorUnloads(d)
  \/ \E t \in Tape : OperatorTakesOut(t) \/ OperatorPutsBack(t)
  \/ Crash

Spec == Init /\ [][Next]_vars
-----------------------------------------------------------------------------
(* Properties.                                                             *)

TypeOK ==
  /\ status \in [Request -> {"none", "prepared", "in_progress", "completed", "failed"}]
  /\ blocked \in [Request -> BOOLEAN]
  /\ verified \subseteq Span /\ checked \subseteq Tape /\ errors \subseteq Span
  /\ place \in [Tape -> Slot \cup Drive \cup {Outside}]
  /\ mounted \subseteq Drive /\ health \in [Datum -> Health]
  /\ folder \in [Request -> SUBSET [span: Span, is: {"good", "wrong", "cut"}]]
  /\ joined \in [Request -> [Files -> Seq([span: Span, is: {"good", "wrong", "cut"}])]]
  /\ task \in [Drive -> Task \cup {NoTask}]
  /\ pc \in [Drive -> {"idle", "begin", "next", "load", "mount", "copy", "build",
                       "check", "unmount", "unload", "finish", "leave"}]
  /\ tape \in [Drive -> Tape \cup {NoTape}] /\ slot \in [Drive -> Slot \cup {NoSlot}]
  /\ at \in [Drive -> Drive]
  /\ todo \in [Drive -> Seq(Tape)] /\ work \in [Drive -> Seq(Datum)]
  /\ passed \in [Drive -> SUBSET Span] /\ failed \in [Drive -> SUBSET Span]
  /\ outcome \in [Drive -> {"clean", "problem", "raised", "fatal"}]
  /\ cancelled \in [Drive -> BOOLEAN]
  /\ starts \in Nat /\ troubles \in Nat /\ dbErrors \in Nat /\ crashes \in Nat
  /\ unmade \subseteq Request
  /\ reported \in [Drive -> BOOLEAN] /\ spoiled \subseteq Request
  /\ borrowed \in BOOLEAN

(* What was selected is at the destination, each file in the order of its  *)
(* parts and no file or frame cut; a whole file has the right hash, if the *)
(* catalogue has one for it.                                               *)
IsWhole(r) ==
  \A c \in Selected[r] :
    IF c \in Sequences
    THEN \A s \in Parts(c) : \E k \in folder[r] : k.span = s /\ k.is # "cut"
    ELSE /\ Len(joined[r][c]) = Cardinality(Parts(c))
         /\ \A i \in DOMAIN joined[r][c] :
              LET k == joined[r][c][i] IN
              /\ Row[k.span].part = i /\ k.is # "cut"
              /\ Whole(c) /\ Row[k.span].hashed => k.is = "good"

(* The catalogue has all parts of each file, and the plan comes to them in *)
(* their order.                                                            *)
InOrder(r) ==
  LET q == Plan[r] IN
  \A c \in Selected[r] \cap Files :
    /\ {Row[s].part : s \in Parts(c)} = 1 .. Cardinality(Parts(c))
    /\ \A s, u \in Parts(c) : \A i, k \in DOMAIN q :
         q[i] = Row[s].tape /\ q[k] = Row[u].tape /\ Row[s].part < Row[u].part => i <= k

(* A restore that is recorded as completed has brought back everything     *)
(* that was selected, complete and in order, and the whole files that have *)
(* a hash unchanged, however many runs it took and whatever failed in      *)
(* them, provided no run of the request was cancelled, ran beside another, *)
(* read a wrong tape or left a frame cut, and the plan has the parts of    *)
(* files in order (restore.py:326, :377).                                  *)
CompletedAsPlanned ==
  \A r \in Request \ spoiled :
    status[r] = "completed" /\ InOrder(r) => IsWhole(r)

(* user-manual/restore.md, section 5: a file that spans several tapes is   *)
(* reassembled by appending its parts in index order.                      *)
CompletedIsWhole == \A r \in Request : status[r] = "completed" => IsWhole(r)

(* A piece can be read, and is wrong only when the catalogue has nothing   *)
(* to compare it with.                                                     *)
Unhashed(w) == w.piece # "frames" /\ ~Row[w.span].hashed
Right(w) == health[w] # "unreadable" /\ (health[w] = "wrong" => Unhashed(w))

(* A file marked as verified, and at least the manifest or the frames of a *)
(* sequence, can be read and is right if its row has a hash, whichever     *)
(* drive it was read in and whatever became of the job; no mark comes from *)
(* a sample that failed.                                                   *)
VerifiedIsSound == \A s \in verified : \E w \in PiecesOf(s) : Right(w)

(* There is a good manifest to say which frames there are. *)
Listed(w) == w.piece = "frames" => health[Piece(w.span, "manifest")] = "good"

(* A full verify in a drive of its own that is not cancelled marks a tape, *)
(* or a span, only when all of its data can be read and those that have a  *)
(* hash are right, also when a manifest cannot be read and lists no        *)
(* frames.  Without a hash for the manifest nothing is said of the frames  *)
(* that a damaged one may leave out (verification.py:119, :201, :226).     *)
FullVerifyIsTrue ==
  [][\A d \in Drive :
       pc[d] = "check" /\ pc'[d] = "unmount" /\ task[d].full /\ ~cancelled[d] /\ at[d] = d =>
         \A s \in Span :
           s \in verified' \ verified \/ Row[s].tape \in checked' \ checked =>
             \A w \in PiecesOf(s) : Listed(w) => Right(w)]_vars

(* A read error is recorded against a tape only when something on it       *)
(* cannot be read, unless a call has failed, or the job read a wrong tape  *)
(* or in a drive that another job may empty.                               *)
ReadErrorsAreReal ==
  troubles = 0 /\ ~borrowed =>
    \A s \in errors : \E w \in PiecesOf(s) : health[w] = "unreadable"

(* The marks the catalogue carries about data are true: what is verified   *)
(* can be read and, where its row has a hash, is right, and a read error   *)
(* is against data that cannot be read (verification.py:183, :201).        *)
MarksAreTrue == VerifiedIsSound /\ ReadErrorsAreReal

(* A tape is left in a drive only when the last job there has told of a    *)
(* problem, or died.                                                       *)
StrayTapesReported ==
  crashes = 0 => \A d \in Drive : In(d) # {} /\ ~Live(d) => reported[d]

(* A request is in progress only as long as a job works on it, unless the  *)
(* process or a session died, or the last run that began could not make    *)
(* the destination.                                                        *)
InProgressHasJob ==
  crashes = 0 /\ dbErrors = 0 =>
    \A r \in Request \ unmade : status[r] = "in_progress" => Runs(r) # {}

(* A job that is over leaves nothing half done that nobody was told of:    *)
(* neither a tape in its drive nor, once its destination is made, a        *)
(* request that seems to be worked on (restore.py:288, :329).              *)
NothingLeftUntold == StrayTapesReported /\ InProgressHasJob
=============================================================================
