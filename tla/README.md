# A formal model of Vader's job and tape handling

Vader archives film and configuration data to LTO tapes in a small library
(one changer arm, two or more drives). It is one process: web routes, one
background worker thread, and a thread for each job it runs, over one SQLite
catalogue and one tape library. This directory holds TLA+ modules translated
from the Python under `app/`, configurations for TLC, and proofs for TLAPS.

Contents: [parts of the system](#parts-of-the-system) ·
[modules](#modules) · [runs](#runs) · [what the violations show](#what-the-violations-show) ·
[fairness](#fairness) · [proofs](#proofs) · [limits](#limits) · [plan](#plan)

## Parts of the system

| Part | State it keeps | Operations | What makes it correct |
|---|---|---|---|
| Job worker, `jobs/worker.py`, `queue.py`, `handlers.py` | table `jobs` (status, cancel and pause flags), threads in flight | recover at start, scan and start, run, record, release | each row runs once; a row tells what its thread does; an outcome is final; every job ends |
| Claim registry, `jobs/drives.py` | `_claimed` | claim all of what a job needs or nothing, release | no drive serves two jobs; nothing stays claimed |
| Job routes, `routers/jobs.py` | writes `jobs` from other threads | create, cancel, retry, pause, resume | they may race the scan and do no harm |
| Tape allocator, `services/spanning.py` | a pool of tape views in memory | pin, place whole, open scratch, span at frames, split at bytes | room is never promised twice; parts cover the unit; greedy jobs are isolated; it ends |
| Write pipeline, `services/writer.py` | tables `tapes`, `content_tape_spans`, the tape in the drive, the data on tape | plan, load, format, copy, catalogue, finalise, write catalogue files, clean up | the catalogue lists what is on tape; tape rows agree with their spans; drives are left empty |
| Library operations, `services/library.py` | slots and drives, the arm lock, cached slots, tape locations, tape events | load, unload (with a retry), unlock, format, clean, inventory, retire | the cache, the locations and the events agree with the library; the right tape is wiped; nobody waits for ever |
| Library routes, `routers/library.py` | none | the operator's load, unload, unlock, format, clean, retire | they do not spoil a running job |
| Intake scan, `services/intake.py` | none | classify a directory tree into units, report gaps | nothing is dropped, nothing listed twice; gaps are the frames that are missing |
| Batch format, `services/batch_format.py` | a queue of barcodes, a thread per drive | load, format, unload, next | each tape is handled once; drives are left empty |
| Tape import, `services/tape_import.py` | a queue of barcodes, a thread per drive that catalogues in a session of its own | load, mount, scan, hash, catalogue | each tape is handled once; nothing is catalogued twice |
| Verification, `services/verification.py` | `verified_at`, `last_verified_at`, read errors | load, list checks, sample, hash, record, mark, clean up | only what was checked and found right is marked; read errors are real |
| Restore, `services/restore.py`, `routers/restores.py` | table `restore_requests`, files at the destination | prepare, order tapes, copy, join parts, clean up | what is recorded as restored is there, whole and in order |
| Connections, `services/connection_manager.py`, `routers/connections.py` and health monitor | table `connections`, mount units | add, delete, recheck, sweep | rows and mounts agree; a sweep records what it found |
| Mount backends, `mounts/` | mount units, credentials, directories | provision, deprovision, check | as far as connections need them |
| Hardware backends, `hardware/` | the library | status, inventory, load, unload, `mkltfs`, clean, unlock | as far as library operations need them |
| Manifests, checksums | files | write, merge, hash | input and output |
| Catalogue queries, CSV, audit, pages, help, login | none a job depends on | read, render | presentation |

How they meet. The routes and the worker share only table `jobs`; every read
and every commit is a separate step, so a route can decide on a row the worker
is about to change. The worker gives a thread the drives the registry granted;
the thread calls a handler, which moves tapes through `library.py`. Write jobs
share the tape rows: each reads them once, plans, and writes them back at its
end. The operator moves tapes without asking the registry. All sessions meet in
two places more: the arm lock, held for a move but not for the commit after it,
and the database, where SQLite lets one session write at a time. The connection
forms and the health monitor share a table and the mounts, under no lock.

The hard behaviour, then, is interleaving (routes against scan, thread against
thread, operator against all), state read once and used later (the library
status of a scan, the slot of a tape, the tape rows of a plan), failures
half-way (a commit, a move that succeeded and was not seen to), and a process
that dies anywhere and is expected to pick up its work. `PROJECT.json` lists
these one by one with their lines.

## Modules

**`JobWorker`** models the worker, the registry and the job routes together:
they share rows and drives, and what can go wrong lies between them.
`status`, `request`, `cancelRequested`, `pauseRequested` are columns of `jobs`.
`wpc`, `todo`, `snapshot` are the worker's place in `_scan_and_start` and its
locals `queued_ids` and `state`; `claimed` is `drives._claimed`; `phase` and
`held` are a job thread's place in `_run_job` and its local `claimed`;
`outcome` is the status it is about to write. A scan is `ListQueued`,
`Snapshot`, then for each row `SkipJob`, or `ClaimFor` followed by `StartJob`:
two steps, because the row is read before the claim and written by the commit
after it, and a route may commit in between. `StartFails` and `RecordFails` are
commits that raise. `RouteReads` and `CancelCommits`/`PauseCommits` are the two
halves of a route. `Restart` loses everything but rows and tapes. The handler
is only what it does to its drives: `LoadsTape`, `UnloadsTape`, and it returns
or raises. `EndScan` and `StartFails` clear `snapshot`, a local that is dead by
then. A row's id stands for its creation time.

**`DriveReservation`** is what the registry promises, without threads, rows or
failures: all drives at once, exclusively, given back in one step. `JobWorker`
implements it with `held` as the mapping (`KeepsReservation`).

**`TapeAllocator`** is `TapeAllocator.allocate`, one action for each turn of
its loops. `shelf` keeps the catalogue rows the views were made from, so
properties can compare the end with the beginning. `first`, `next`, `load` are
the frames in the buffer and its size; the positions of a split file use
`first` as its offset. `FirstThatFits` returns a set with the tape or none, so
"no tape" is the empty set. `OpenScratch` is one turn of the loop in
`_tape_that_fits`. By the time a unit is split all scratch tapes are open, so
`_next_fresh_tape` raises there; that is `Fail`, in the same step that finds it.

**`Intake`** is `scan_source`: operators, as the scan keeps no state. A source
tree is a function from directories, as the sequences of names that lead to
them, to what `os.walk` lists; a name is its rank in sorted order. Which of the
patterns a name matches, with which groups, is part of the entry, as the
patterns are read from a file. Links and files that vanish between the listing
and `lstat` are entries too. `GapReport` is `gap_report` with
`_compress_ranges`. Labels (project, shot, content type) decide nothing and are
left out.

**`WritePlan`** composes the two as `run_write` does: `units`, the input of the
allocator, is what the allocator reads of the scan of a tree, and a scan that
finds nothing is an error. Its properties go from files to placements.

**`WritePipeline`** is `run_write` with `_Drive`, in several drives at once.
`place` says where each tape is and `files` which units have their data on it;
`spans`, `status`, `used` are the catalogue. One placement is `NextPlacement`
(cancel and pause are looked at there: `Break`), then `Swap`, `LookUp`, `Load`,
`Format` as `ensure` requires, then `Skip`, or `Copy` and `Catalogue`. `LookUp`
and `Load` are two steps because the slot is looked up outside the arm lock.
`Finalise` is the commit that brings the tape rows up to date; `NextCsv` and
`Export` bring each tape back for its `_catalog` file. `Raise` is a
`HardwareError`, or a tape that is full: it ends the run, except while catalogue
files are written. `LoadFails` may have moved the tape or not: `load_tape` also
raises when only the status call after the move fails, and `UnloadFails`
likewise. Of other exceptions, a catalogue file that cannot be written ends the
run at its clean-up (`ExportFails`); a flush or commit of the run's session that
raises makes the clean-up fail too, so the run ends there and the tape may stay
in its drive (`SessionFails`). `Crash` kills all runs.
Units have size 1, so nothing is split and the allocator's choice becomes
arithmetic on the room of the tapes before (`TapeFor`); splitting, greedy mode
and target tapes are `TapeAllocator`'s. "Full" in the code is less than 2 % of
headroom; with unit sizes that is no room. Read-back is on, no mismatch occurs.
Two history variables only serve properties: `behind` holds the tapes on which
a run failed or died before it finalised them, `shared` is set when two runs plan to use
one tape at the same time.

**`DriveCycle`** is batch format and tape import. Both give the drives of a job
one thread each (`worker(drive_number)`) over one queue of barcodes, so they
share a module and differ in what they check first (`Blocked`) and in what lies
between load and unload: `Format`, or `Register`, `Mount`, `Import`, `Finish`
and `Unmount`. `pc`, `tape`, `slot`, `error` are a thread's locals, `verdict` is
the three lists of the job's report. `status`, `used`, `checked` and `spans` are
the catalogue; `place` and `files` the library. `Import` is one commit of the
catalogue writer, with any of the units not yet catalogued, which covers every
order and every batch size. `LookUp` and `Load` are two steps here as well.
Errors come in two kinds, as in the code: what the handler catches becomes a
failed tape (`CallFails`), an exception of the database while formatting or
moving ends the thread (`Dies`, `DiesFormatting`, `DiesReporting`). A call that
fails may have done its work. `Crash` leaves the tapes where they are.
`Start` stands for the worker and the registry: the free drives with the lowest
numbers, one for each tape at most. A unit is a file or sequence with a path of
its own and counts 1 in `used`. Two history variables serve properties:
`shared`, two live jobs had a tape in common, and `repurposed`, the tapes
formatted by a job with force.

**`TapeBatch`** is what such a job promises, without drives, slots or threads:
tapes wait, are in hand, or are under one verdict, and a tape in hand can be
lost. `DriveCycle` implements it (`KeepsBatch`): waiting is the range of the
queue, in hand are the tapes of the job's threads.

**`ReadBack`** is `run_restore` and `run_verify`, which share a module because
they share the library: each brings tapes into the drive it was given, reads
there, and cleans up. `status` and `blocked` are columns of
`restore_requests`; `verified`, `checked` and `errors` are the catalogue's
`verified_at`, `last_verified_at` and `read_errors`. `folder` and `joined` are
the files at the destination: a sequence is a set of frames, a file the list of
parts written to it. `health` says what reading a piece of data gives: the right
bytes, wrong ones, or an error. `Row` is the catalogue; `Plan` and `FilesOn` are
what `prepare_restore` computes from it. A row may have no hash (`hashed`), as a
fast scan leaves it: then a whole file is not compared after its copy
(`Mismatch`), and in a check nothing but the frames, whose hashes are in the
manifest, is (`Compared`). The manifest and the frames of a span
are one piece each, and all frames of a span count as one. A turn of the loop
over the files copies a file or the part of one, or, for a sequence, whatever
frames are in its directory on the mounted tape and not at the destination yet
(`New`): a directory holds the frames of every part that is on that tape.
A restore is `BeginRestore`, `NoDestination` (the directory cannot be made, when
the request is in progress already and no handler is in place) or
`RefuseRestore`, then for each tape `NextTape`,
`Load`, `Mount`, one of the `Copy...` actions for each file, `Unmount` and
`Unload`; a verify job is `BeginVerify`, `Load`, `Mount`, `Build` (the list of
checks and the sample), one of the `Reads...` for each check, `Mark`, and the
same clean-up. `at` is the drive that is read, which for a verify job need not
be the one it was given. Exceptions come in three kinds, as in the code: a
`HardwareError` (`CallFails`), any other while a volume is mounted, after which
the clean-up still runs (`Raises`), and a flush of the session that fails, which
leaves the job without a session to record anything (`Dies`). `Crash` may cut a
copy short. The operator takes tapes out of slots and puts them back. Four
history variables serve properties: `unmade`, requests whose last run to begin
could not make the destination; `reported`, whether the last job in a drive
told of a problem; `spoiled`, requests with a run that was cancelled, met
another run, left a frame cut or read a wrong tape; `borrowed`, a verify job
read a wrong tape, or in a drive it had not claimed.

**`Sorting`** is what Python's `sorted` gives for distinct elements, defined by
how many elements come before each one. The community modules have the same
(`SetToSortSeq`), in a form the provers cannot expand; `Intake` and `ReadBack`
are proved about.

**`TapeLibrary`** is `library.py` itself, called from several sessions at the
same time; a session has a script of calls, each of which ends with the
caller's commit, as every caller does. `place` is where the cartridges are,
`location`, `status`, `cache` (`library_slots`) and `events` are the catalogue
as committed, `arm` is who holds `_arm_lock`, and `call` the local variables of
each session's call. A load or an unload is `TakeArm`, `Look` (the status and
the row of the tape), `Log` (the flush of the event), `Move` or `AttemptFails`
with its second try, `ReadStatus`, `Sync` (the rows of `library_slots`; the
arm is given back here), and `Commit`. The steps are apart because other
sessions get in between: only those that move or clean take the arm, and it is
given back before the commit. What makes sessions wait is `MayWrite`: SQLite
has one writer, from its first flush to its commit; and `SlotsTaken`:
PostgreSQL lets them write side by side until two of them replace
`library_slots`, when the second is `Block`ed and then finds rows it did not see
(`Conflict`). `FailEvent` is `finish_event_error`, which commits the event and
what the session wrote with it; `Abandon` any other exception, which leaves
nothing. A call that fails may have done its work. `events` also say which
cartridge a call really moved, which the code does not know. Three history
variables serve properties: `unlogged`, cartridges moved by calls that left no
event; `hasty`, those whose row was read before the move before was committed;
`disturbed`, sessions whose drive was changed after they looked at it.

**`Connections`** is the add, delete and recheck forms and the health sweep. A
form is a session: `CheckName`, `Provision` and `Insert`, or `FindRow`,
`Deprovision` and `Remove`. `mount` maps the name of a mount to the form that
made it: `Name` shows that two connections can have one name, as the suffix
`-restore` is part of the name of one and may be part of the host of the other
(host names are sequences of labels). The sweep lists the rows once, and checks
them in one session: `dirty` and `flushed` are the rows changed and flushed, and
`broken` says that a flush has failed, after which the session refuses
everything to its end. `Locked` is what it makes others wait for. A row has the
id of the form that made it, so ids are never used again. Two history variables
serve properties: `spoilt`, connections on which two forms worked at once or one
worked in part; `removed`, a row was deleted or a flush failed under the sweep.

`MCJobWorker`, `MCWritePlan`, `MCWritePipeline`, `MCDriveCycle`, `MCReadBack`,
`MCTapeLibrary` and `MCConnections` give constants their values. `MCWritePlan`
also lists the scans of its trees by hand, as batches, and assumes that the scan
gives no others. Definitions that stand before an operator and carry the name of
a change (`RecoverNothing`, `FirstWithRoom`, ...) are plausible mistakes: put in
the place of the operator, each makes the property listed with it in
`PROJECT.json` fail.

## Runs

| Run | Shows | Bounds |
|---|---|---|
| `worker` | type invariant; drives exclusive, registered, suited to the request, not leaked; a row runs once; rows follow threads; outcomes final; refinement of `DriveReservation` | two rows, two drives; a one-drive and a fan-out request; one route in flight, one restart, one failed commit |
| `worker_live` | every queued job ends | four kinds of request, one restart, one manual load |
| `spanning` | from a source tree to placements: every file is in one unit and once on tape, gaps are reported as they are, and all of the allocator's safety properties and termination | three tapes of 3, 3 and 2 units, each row one of five; trees of one or two folders with one of eight kinds of unit, and trees with all that the scan tells apart (two bases in a folder, one number twice, chunks out of order, links, hidden folders) at several places |
| `archive` | catalogue against tapes, rows against spans, drives, ends | three tapes of two units, two drives, a scan that needs two tapes and a short one, two runs, one pause, one failure (of a hardware call, of writing a catalogue file, or of the session), one crash |
| `batches` | every tape gets one verdict, the right tape is wiped or catalogued, a scan repeated in any mode leaves one span per unit, drives are not left loaded unreported, jobs end, refinement of `TapeBatch` | two jobs out of four requests (format with and without force, import with and without hashing), three tapes, three slots, two drives, two troubles of any kind |
| `readback` | what is recorded as completed is complete, what is completed or marked is right as far as there is a hash, read errors are real, requests do not stay in progress once their destination is made, drives are not left loaded unreported | two jobs (restores of one request, full verify jobs of one tape, sampled ones of the other), two tapes, two slots, two drives; a sequence and a file on both tapes and two whole files; half the sequence and one of the whole files have no hash; a wrong manifest, part and whole file (the first and last without a hash), frames that cannot be read, or wrong frames, a wrong file with a hash and a manifest that cannot be read; one trouble of any kind |
| `library` | log, cached slots and locations against the library; free slots stay free; the right tape is wiped; retired tapes stay so; every call ends | three sessions with one of seven scripts; four tapes (in use, scratch and in a drive, new, cleaning), four slots, two drives; both databases; two troubles |
| `connections` | rows against mounts, sweeps record what they found, news arrive | three add forms (two for one connection, or two whose mounts have one name), a delete and a recheck form, one host that does not answer, both databases, one trouble |
| `format_stuck` | a violation, in the worker | one row |
| `split_restore` | a violation, in a restore | one request for a split file and a sequence, two tapes, one drive, no trouble |
| `rerun_wipes`, `one_folder` | a violation each, in the pipeline | one drive, one or two runs |

Why the bounds are enough. Two rows and two drives give every pairwise race in
the worker: jobs interact only through the registry, a set, and a row is written
by its own thread, the scan and routes. One of each fault suffices for a
property about its aftermath; `RecordFails` in its second form needs one
failure, because a handler that raised is already recording a failure. In the
allocator three tapes allow an open tape, a tape opened while placing and one
left over; unit sizes run from nothing to more than all tapes, frames to more
than a tape, and land on, below and above the room left. In the pipeline two
runs are a first run and its rerun, or two jobs side by side; three tapes let
one run change tapes while the other holds one. In `batches` two jobs of
several tapes over two drives share tapes or not, run side by side, one after
the other, or each in one drive; the requests mix both kinds, so a tape is
imported, formatted, imported again. Two troubles are a first failure and one
that meets its aftermath. Three slots for three tapes mean that `Unload` always
finds a free slot: the branch for a full library is in the model but does not
occur in the run. In `readback` two jobs are a run and its rerun, two runs at
the same time, or a restore beside a verify job; one trouble is enough for each
failure and what a second job makes of its aftermath, and it comes on top of a
bad piece of data. Two tapes are a tape and its successor; the rows let a
sequence and a file continue from one to the other. Rows with and without a hash
are on the same tape, and wrong data are tried with both: without one they pass
and are completed and marked, with one they are found. Every damage leaves most
pieces as they should be, so nothing is gained from a library without any. The
full verify reads the tape that has rows of both kinds; a sample multiplies the
states by its choices, so it is drawn from the tape with less on it. In `library` three sessions
are two that race and one that comes in between; the scripts pair every
operation with those that touch the same tape, drive or rows, and a session
with two calls shows what the first left for the second. Two troubles are a
failure and one that meets its aftermath; a cleaning tape and a new one are
there because the code treats both differently. In `connections` three add forms are
one connection, a second form for it or one that clashes with it, and another on
the same machine; one delete and one recheck can each meet any of them at any
point, and the sweep goes round without end. `spanning`, `archive`, `batches`,
`readback` and the violations in the same modules do not check for deadlock: an
allocation, and a bounded number of runs or jobs, really come to an end.

Some properties are the conjunction of named parts, each stated in its module.
`ClaimsMatchJobs`: no two jobs hold one drive, and nothing stays claimed.
`RowsMatchThreads`: a row runs once, a running row has a thread, the row of a
live thread is not final. `PlanAddsUp`: what is reserved is placed, parts cover
their unit, every file is in one unit and once on tape. `CleanBetweenRuns`: tape
rows agree with spans, and drives are empty. `CatalogueIsTrue`: what is
catalogued is on tape, a finished import is complete, a unit has one span.
`MarksAreTrue`: what is marked as verified is sound, read errors are real.
`NothingLeftUntold`: no tape stays in a drive unreported, no request stays in
progress once its destination is made. `CatalogueFollowsTapes`: locations, and
the cached slots, are where the cartridges are.

The properties that carry a condition say so on purpose. `ClaimsMatchJobs` and
`RowsMatchThreads` have parts that hold while commits succeed: `try_claim_for`
runs inside the transaction that makes a row running (`worker.py:200-209`), so a
commit that raises there leaves the claim until the process restarts, and a
failure that could not be recorded leaves a row `running` without a thread,
until then too.
In `DriveCycle`, `dbErrors = 0` is there because a thread ended by the database
leaves its tape in no list, while its job may well complete ("database is
locked" is documented as an event to expect, `RUNBOOK.md:179`); `~shared`
because two jobs of one tape can each look up its slot before the other has
moved it, and load what is in that slot by then; `repurposed` because
formatting a tape with force leaves its old spans in the catalogue.
In `WritePipeline`, `CataloguedIsOnTape` holds until a run plans to use a tape
of another run that is still at work. That can happen: a scratch tape in a slot
is offered to every plan, and the second job formats what the first has written.
On real hardware nothing compares the barcode with what is in the drive before
`mkltfs`. It is not enough to look at runs that still write: with three drives
a run that brings a tape back only to write its catalogue file on it can take it
from under one that has just looked up its slot, and if another tape is put into
that slot the second run writes on that one. `CataloguedIsOnTape` and
`CleanBetweenRuns` leave out tapes a run failed or died on before it finalised
them, because of `rerun_wipes`, and `CleanBetweenRuns` drives in which something
failed.

In `ReadBack`, `CompletedAsPlanned` speaks of requests that are not `spoiled`
and whose plan meets the parts of files in order (`InOrder`): the cases left out
are real, and listed below. It does cover a request that failed half-way and was
run again, and any failure within a run. That read errors are real assumes that
no call failed, because a call that fails is a read error by definition, and
nothing was `borrowed`. What is said of wrong bytes depends on hashes, in all
three: `run_verify` compares only `if chk.expected` (`verification.py:201`) and
`_restore_one` only `if f.get("sha256")` (`restore.py:377`), and a fast scan
leaves both empty. So `CompletedAsPlanned` says that files are complete and in
order, and unchanged if they are whole and have a hash. A marked span can be read, and has the
right bytes if its row has a hash (`VerifiedIsSound`), whatever tape was in the
drive; for a sequence one such check suffices in a sample. `FullVerifyIsTrue` is
what a full verify adds to that, when it reads in a drive of its own: all the
data can be read and those with a hash are right, where frames have theirs in
the manifest, and one that is damaged says nothing reliable about them unless it
has a hash itself (`Listed`). From another drive the tape may leave, and come
back, between listing its checks and making them. `InProgressHasJob`, in
`NothingLeftUntold`, leaves out requests in `unmade`, and holds while no process
and no session dies; the differences below say what happens otherwise.

In `TapeLibrary`, `CatalogueFollowsTapes` leaves out cartridges moved by calls
that failed after they moved them (their event says error), moves that left no
event, and `hasty` rows; on SQLite with no failure there is no exception for the
cached slots. `WipedAsAsked` leaves out sessions that were `disturbed`: only the
registry keeps others away from a drive, and it covers jobs, not forms. In
`Connections`, `spoilt` and `removed` are what no lock prevents; the cases are
listed below.

## What the violations show

- **`format_stuck`** A format job needs exactly its drive (`drives.py:55`), the
  registry grants only empty drives (`drives.py:75`), and both the route and
  `format_tape` insist on a loaded one. The job waits for as long as the tape
  is there; if the tape is taken out it starts and fails. The manual
  (`user-manual/jobs.md:42`) describes formatting a loaded tape as the way to
  use it.
- **`rerun_wipes`** Spans are committed placement by placement, but a tape stays
  `scratch` until the end of the job (`writer.py:552`). After a crash or a
  hardware error the rerun is told to format it, wipes the data (`writer.py:98`)
  and then skips the units whose spans exist (`writer.py:387`). `writer.py:5-8`
  and `archiving.md` promise that a rerun picks up where it left off.
- **`one_folder`** Two sequences in one folder are two units (`intake.py:9-12`)
  with one row (`writer.py:185`): the second finds the first's span and is
  skipped, and the job completes without it.
- **`split_restore`** A plan visits tapes in the order in which any selected
  span first names them (`restore.py:136`), sequences before files. If a
  sequence is on the tape with part 1 of a split file, that tape comes first:
  part 1 is appended to nothing, then part 0 opens the file with `"wb"`
  (`restore.py:384`) and erases it. Parts are not hashed, so the request is
  `completed`, with the first part only. `user-manual/restore.md:168` says that
  parts are appended in index order.

Some differences, and some hazards nothing in the code prevents, have no run:

- The library status is read once per scan, on the ground that occupancy cannot
  change during the loop (`worker.py:192`). A thread started in this very loop
  may load its drive, fail, and release its claim while its tape is still in it;
  a later row of the same scan gets that drive.
- A resumed job plans again from rows that count what it wrote; units on a tape
  that has become full, or placed otherwise this time, are written and
  catalogued again (`archiving.md:234` says nothing is).
- While a run brings its tapes back for their catalogue files it may take a tape
  that another run plans to use; if that run has just looked up the tape's slot
  (`writer.py:88`), and something else is put in that slot before it gets the
  arm, it writes on the wrong tape. It takes three drives; this is the
  `~shared` of `CataloguedIsOnTape`.
- On PostgreSQL two moves that end at the same time both replace
  `library_slots`; the second violates `uq_slot_kind_number`
  (`library.py:112`), which is no `HardwareError`: its event is rolled back with
  the session, though the tape has moved.
- The arm is free before the caller commits, so the next call can read the row
  of a tape whose move is not committed (`library.py:164`). Where the tape goes
  back to the place that row still names, its location is not written, and the
  catalogue keeps the place in between.
- The event of a retirement is never finished, and stays `pending`.
- Rows of connections and mounts come apart when two forms work on one
  connection at the same time, when a form fails half-way
  (`connection_manager.py:123` has nothing to take the mount back), and when the
  restore destination of `h` and a machine called `h-restore` share a name
  (`mounts/base.py:74`): the second provision overwrites the first one's unit,
  and deleting either removes it.
- A connection deleted while the sweep is under way makes a flush fail, and the
  session then refuses all others: that sweep records nothing of any connection,
  where `connection_manager.py:177` wants one bad connection not to stop the
  rest. On SQLite the sweep also holds the write lock from its first flush to
  its end, while it asks one host after the other.
- Outside greedy mode every active tape is offered (`spanning.py:101`),
  dedicated tapes too, where `tapes.md:91` and `models.py:167` promise isolation.
- A load or an unload that raises may leave the tape in the drive, and neither
  is tried again by the batch (`batch_format.py:160`); the thread takes its next
  tape and cannot load it, and so on to the end of the queue.
  `user-manual/library.md:124` says that one bad tape does not stop the rest.
- A cancelled restore is recorded as `completed` (`restore.py:326`);
  `user-manual/restore.md:115` lists a status `cancelled`, which nothing sets.
- A verify job that is cancelled before it has read anything has found no fault,
  and sets `last_verified_at` (`verification.py:226`): the tape leaves the list
  of tapes to be verified. So does a tape with nothing catalogued on it.
- A verify job whose tape is in another drive reads it there, but unmounts and
  unloads its own drive (`verification.py:74`, `:237`). The tape may be taken
  away while it is read, which is recorded as read errors of a healthy tape.
- The slot of a tape is looked up before the arm is free, and neither job
  compares the tape in its drive with the one it asked for (`restore.py:293`,
  `verification.py:75`). If another tape is in that slot by then, a verify job
  records read errors against the tape it did not read; a restore finds no
  files, or, of a sequence that continues on both tapes, copies the frames of
  the wrong part and records the request as `completed`.
- `run_restore` commits `in_progress` (`restore.py:271`) before it makes the
  destination directory (`:278`), and the `try` whose handler records a failure
  begins after that (`:288`). If the directory cannot be made (`NoDestination`)
  the job fails and the request stays `in_progress`, which
  `user-manual/restore.md:112` explains as a job that is running, and its page
  has no button to run it again (`restore_detail.html:61`). After the process or
  the session of a restore died its request stays `in_progress` too.
- The rows of a fast scan have no `sha256` (`tape_import.py:202`). A verify job
  reads their data, compares them with nothing and lets them pass
  (`verification.py:201`); the spans get `verified_at` and the tape
  `last_verified_at`, whatever is on it, so it leaves the list of tapes to be
  verified. `user-manual/verification.md:7-9` says that a verify compares what
  is on tape with the hash recorded at write time, and
  `PLAN_tape_import_optimization.md:240` that `last_verified_at` is for passes
  that hash. A full import afterwards skips what is marked
  (`tape_import.py:199`), where the import form promises that it "will pick it
  back up and hash it". A restore of such files compares nothing either
  (`restore.py:377`) and is `completed` whatever bytes it read.
- A frame that was cut off half-way exists, so a rerun leaves it as it is
  (`restore.py:364`, as `restore.md` §4 says of existing frames) and records the
  request as `completed`.
- `user-manual/jobs.md:56-66` describes a worker that runs one job at a time,
  where the code runs as many as drives allow.
- A cancel committed between the scan's read of a queued row and its commit is
  overwritten with `running`; the flag stays, so the job starts and stops at its
  first checkpoint.
- After a batch a tape returns to the first free slot (`library.py:199`), not to
  its home slot (`user-manual/library.md:123`).
- Whether a tape is `scratch` is asked once, before a format batch begins
  (`user-manual/library.md`, step 3). A tape that another job imports in the
  meantime is still formatted, although imported tapes "never get mkltfs'd"
  (`tape_import.py:21`); this is the `~shared` of `WipedByRequest`.

## Fairness

`worker_live` assumes weak fairness for each step of the worker loop and of job
threads: they are threads that never wait for ever, and every hardware call has
a timeout, so a handler returns or raises. `Snapshot` gets strong fairness:
`library_status()` may fail any number of times, but an answer that is possible
again and again comes in the end. The operator is assumed to empty, sooner or
later, a drive that was left loaded; without that a job that needs it waits.
`format_stuck` assumes all of this but the last: its operator follows the manual
and leaves the tape to be formatted where it is. `spanning` assumes only that
`allocate` runs on, `archive` that each run in a drive does, `batches` that each
job and each of its threads does (weak fairness of `JobStep` and `ThreadStep`);
no fault, pause or start is ever required to happen. `library` assumes weak
fairness of each session's `Step`: the hardware and the database answer, and no
wait for SQLite's write lock lasts as long as its timeout; that a session gives
up waiting (`LockTimesOut`) is possible but never required, so `CallsEnd` says
that waiting is not for ever. `connections` assumes it of the monitor's steps:
its thread catches whatever a sweep raises and sleeps on. `readback` checks no
liveness property: the loops of `ReadBack` run over lists fixed before they
begin.

## Proofs

`JobWorkerProofs` proves for any finite set of row ids and drives, any
non-empty set of requests and any bounds every property of the run `worker`,
that is `TypeOK`, `ClaimsMatchJobs`, `RowsMatchThreads` and the refinement of
`DriveReservation`, and three facts that are only proved: an outcome is final
(`OutcomesAreFinal`), whatever a thread holds is registered (`UseIsRegistered`),
and is what its job asked for (`JobsGetWhatTheyNeed`). They follow from one
inductive invariant. Exclusive drives are not inductive alone: a claim is taken
from drives *not registered*, so one needs that whatever is held is registered,
and that only threads that exist hold anything (`Exclusion`). That a row runs
once needs to know that a row with a thread, or one being started, has not been
recorded yet, and that a row which has run is never queued again (`RunsOnce`);
rows follow threads by a case for each phase (`ThreadMatchesRow`,
`RowFollowsThread`). Requests with `Cardinality` need finite sets of drives,
which is the reason for `DriveNumbers`. The assumptions are those named in
`JobWorker`.

`WritePlanProofs` proves every property of the run `spanning` but `Terminates`:
first of the allocator, for any tapes, capacities, sources and batches, then of
the scan, and last of a plan made from a scan, for any source trees. Of the
allocator it proves `TypeOK`, `NoOverflow`, `GreedyIsolation` and
`NoNeedlessSplit`, and, only proved, that the tapes marked for formatting are the
scratch tapes (`FormatsScratchOnly`) and the layout half of `PlanAddsUp`
(`LayoutAddsUp`: `ReservedIsPlaced` and `PartsCover`). The first invariant adds
`SpanFits`, that the buffer fits in what is left of the tape being filled, and
`ListsSound`: open tapes are those that could be written to begin with or that
were taken from the scratch pile and marked for formatting, and every placement
and part names one of them with the mark it had.

The second, `LInv`, follows a unit through its parts. What a view says is used is
what the tape held, what the placements put there and, while a unit is being
split, what its parts have reserved (`Reserved`); the parts of the unit at hand
follow each other from 0 (`PartsChained`), so that those of a unit that is passed
cover it (`Filed`). A split is begun only when no tape has room for the whole unit
(`SplitForced`), and it is final because the room of a tape never grows; that
needs every tape the job may use to be still in the pool (`PoolKept`): a tape that
left it for want of room for one frame would make a later split needless. A later
placement is of a later unit, so it changes nothing that `NoNeedlessSplit` sums up
for the earlier ones (`UnitPassed`). Sums over placements rest on `FiniteLemmas`.

Of the scan it proves that it deals out the regular files of a tree, hidden
directories aside: each is in one unit, and no unit holds anything else (`Deals`,
`ScanDeals`). Each classifier deals out the files of its pattern (`SequencesDeal`,
`VideosDeal`, `LeftoversDeal`), and what is dealt from disjoint sets is dealt from
their union, so it carries over to a directory (`DealsConcat`) and from the
directories to the walk (`DealsFlatten`), which comes to each visible one once
(`WalkType`, because `Earlier` is a strict total order on lists of names). That
sorting loses nothing needs what a directory is: its entries have names of their
own. Gap reports are true by induction over the missing numbers: what has been
read so far are ranges that hold these numbers and no others, and the last ends
with the last number read (`Ranges`, `ExtendsRanges`). The trees are assumed to
have the shape `TreesShape`, which says no more than that trees and directories are
finite, the names in a directory differ, each matches one of the three patterns
(none is the third), and sizes and numbers are natural numbers.

The plan joins the two (`PInv`): the units are what the allocator sees of the
scan, which nothing changes (`FromTree`), every placement of a file is as long as
it is large, none is shorter than nothing, and the allocator is done only when it
has passed every unit (`Measured`). The placements of a unit are then pieces that
follow each other from 0 to its end (`CoverIsChain`); so each frame is in just one
(`FramePlacedOnce`), and the sizes of the pieces of a file add up to its size
(`FilePlaced`). That is `EveryFileOnce`, the part of `PlanAddsUp` that speaks of
files. TLC has checked `Measured` and `FromTree` on the instance of `spanning`.

`FiniteLemmas` holds what sums and recursion need in general: a rule of induction
stated for a set of numbers or of finite sets (the smallest member without the
property), that a fold over a finite set exists and is the only function with its
equation (`FoldExists`, `FoldsAgree`), and from that what a sum over a set does
when an element is added or removed, under a union, and under a renaming
(`SumAdd`, `SumUnion`, `SumRenamed`). The same rules give that a finite set with a
strict total order can be listed in that order (`ArrangedLists`), that what
holds of all of a list holds of what is left of it (`SuffixHolds`), what flattening
a list of lists comes to, step by step (`FlattenGrows`), and that pieces which
follow each other hold each place once and add up (`ChainHolds`, `ChainSum`).

`DriveCycleProofs` proves for any finite sets of jobs, tapes, slots and drives,
any requests and any number of troubles `TypeOK`, `EveryTapeAccounted` and the
refinement of `TapeBatch`. Thirty actions are first reduced to a few shapes of
a step (`Shape`): what it does to the queue, the hand and the lists; the other
lemmas argue about shapes. The invariant has three parts besides types.
`ThreadsSound`: a thread that is not idle belongs to a running job, and has a
tape in hand exactly between taking and reporting it. `TapesApart`: the tapes
of one job that wait, that are in different hands and that are reported are
different; without it a report could list a tape twice, or a thread could take
one that another has. `NoneLost`: while the database has raised nothing, what
waits, is in hand or is reported is the whole batch, and a thread that is idle
has left an empty queue. The last is what makes waiting for the threads alone
enough (`Joined`): a job always has a drive, so when all its threads are idle
its queue is empty. That a hand is free when a tape is taken up
(`HandFits`) needs finite sets of drives, from `Places`.

Its second half adds the tapes and the catalogue: `CatalogueIsTrue`,
`StrayTapesReported` and `WipedByRequest`, under their condition that no two jobs
have worked on one tape at the same time. Then no two threads ever have one tape
(`Hands`: in a job by `TapesApart`, across jobs because batches differ), and a
step of a thread leaves every other tape as it is (`Alone`); so the invariant has
to be shown only for the thread that moves (`AloneIsEnough`). It says where the
tape in hand is (`PlacedFor`: a slot that was looked up still holds it, and a
drive it was loaded into holds nothing else, since no place holds two tapes), what
has been read of it (`ReadFor`: what a scan still has to add is on the tape, and
what it need not add is listed), what the catalogue says of a tape that no format
with force has wiped (`TapeSound`: what is listed is there, and such a tape is not
blank), and that a format without force goes on as it was checked (`JobSound`).
The last two hold each other up: a blank tape has nothing listed, so wiping it
makes nothing untrue. TLC has checked this invariant on the instance of `batches`.

`ReadBackProofs` proves for any tapes, drives and catalogue, any damage and any
number of jobs and troubles every property of the run `readback`, whichever rows
have a hash. First it is shown that a step of one
thread leaves all others alone (`Same`) and does not move the tapes in their
drives (`Still`); so what a thread relies on, `DriveSound`, has
to be shown only for the thread that moves. `DriveSound` says that a tape in a
drive is on its way out or has been reported (`TapeAccounted`), that results are
about spans of the tape and come from data that can be read and are right as far
as there is a hash (`ResultsSound`, `Right`), that a job which has borrowed
nothing has its own tape in its own drive (`ReadsOwnTape`), and that whatever a
full verify has not read yet, nor found bad, is fine, except for frames without a
good manifest (`NothingSkipped`, `HasManifest`). That last exception is harmless
where the manifest has a hash, because the manifest is itself one of the checks;
where it has none, `FullVerifyIsTrue` does not speak of frames that a damaged one
may leave out (`Listed`). A request in progress has a run that has begun and will
record its end, unless it is in `unmade` (`RequestsSound`): a new run takes it out
again, one that cannot make the destination puts it there. That the checks are
all there needs data to be finite (`DataAreFinite`, `ListsAll`). `TypeOK` comes
last, on top of the weaker `Shaped`: it needs that the plan and the files of a
tape are lists of what they should list (`PlanType`, `FilesType`), which is that
sorted lists exist.

`CompletedAsPlanned` has an invariant of its own, `RestoresSound`. A request that is
not `spoiled` has one run at most (`RequestSound`). As long as that run has met no
problem it is where its plan says: the tape it works on is one of the plan, what
is still to come of the plan and of the files of the tape is the rest of those
lists (`Position`, `OnPlan`). What the run has come to so far (`CameTo`) is at the
destination: of a sequence, the frames, whole; of a file, its parts so far, in
order and none cut, since the run that writes part 0 begins the file anew whatever
an earlier run left there (`Rebuilt`, `EntriesSound`). The step that matters is the
one that appends: whoever has come to a part has come to every earlier part, which
is where `InOrder` is used (`EarlierParts`), so the part is the next one
(`NextPart`). When nothing is left to come, everything collected has been come to
(`PlanIsDone`). TLC has checked both invariants on the instance of `readback`.

`TapeLibraryProofs` proves for any sessions, scripts, cartridges, slots and
drives, any number of troubles and either database every property of the run
`library` but `CallsEnd`. The first invariant, `IInv`, is about one session at a
time, since the steps of the others leave its local variables alone (`Alone`)
and touch what it relies on only in ways it can stand (`Respects`):
`PlaceSound`, who moves cartridges holds the arm from before it looks until its
last flush; `CallSound`, the cartridge it is about to move is the one whose row
it found, and a slot chosen because it was free is still free; `FormatSound`,
what a format saw of its drive still holds unless it was disturbed. From these
follow the log, the free slots, the formats and the retired tapes. That the
catalogue follows the tapes needs a second one, `JInv`: the row of a good tape
is right while nobody carries it, and will be once the session that carries it
has committed, because no other session can be after the same tape
(`LocationSound`); what a session has written is what its place in the call says
(`WroteSound`); on SQLite one session at most has written anything
(`OneWriter`), so the cached slots are those of the last move once nobody is
writing (`CacheSound`). TLC has checked both invariants on the instance of
`library`. The smallest free slot exists by a lemma of its own: "every set of
naturals has a smallest element" comes from the well-foundedness of strict
inclusion among finite sets, as no induction rule can be used.

`WritePipelineProofs` proves for any tapes, slots, drives and scans and any
number of runs, stops, failures and crashes every property of the run `archive`
but `RunsEnd`. A step of one run leaves the local variables of the others alone
(`OthersStay`), so what they say by the place a run is at (`RunSound`), which
tapes are formatted before they are written (`FormatSound`) and what has been
gone through (`CatalogueSound`) has to be shown only for the run that moves. Rows
and spans differ only for tapes a run has touched and not finalised
(`Unfinished`), and a run does not forget such a tape unless it ends up in
`behind` (`UnfinishedStays`); that gives `RowsSound`, and with it the rows between
runs. What is on the tapes needs a second invariant, `JInv`, which holds while
no run has planned to use a tape of one still at work: plans share no tape
(`ApartSound`), so the slot a run has looked up still holds its tape, and the tape
a run takes for loaded is the one in its drive (`HoldsWhatItWants`); a tape that
is yet to be formatted was scratch in the plan, so by `RowsSound` the catalogue
has nothing on it (`FreshOnes`). `shared` counts runs up to their clean-up, not
only up to the commit that finalises their rows: with three drives, a run that
brings a tape back for its catalogue file can take it from under a run that has
just looked up its slot. With two drives, as in `archive`, that does not happen;
the proof found it, and it is among the differences above. The plan itself needs
that there is a tape for each unit while there is room (`TapeForExists`): room is
counted in pairs of a tape and a number, as no sum can be induced over, and the
last tape in the order exists by the same argument as the smallest slot of
`TapeLibraryProofs`. TLC has checked both invariants on the instance of
`archive`.

`ConnectionsProofs` proves for any forms, machines and troubles and either
database every property of the run `connections` but `NewsArrive`. Two facts
carry the proof. Names: two connections whose names read the same are one, unless
one has no name of its own (`NamesDiffer`). Alone: one form at a time works on a
connection that is not spoilt (`OneAtWork`), so between looking for a row or a
name and the commit nothing about it changes, although no lock is held: a form
that adds still finds its name free and its own mount in place (`AddSound`), a
form that deletes still finds its row, and no mount once it has removed it
(`DeleteSound`). `RowsDiffer` is the unique constraint; without it the name of a
deleted row could be that of another. That a sweep records what it found needs
`SweepSound`: as long as no listed row is deleted and no flush fails, what is
dirty is still in the table, the session is not broken, and whatever is no longer
to do has a result. TLC has checked the invariant on the instance of
`connections`.

Only model-checked: everything temporal under fairness (`EveryJobEnds`,
`Terminates`, `RunsEnd`, `JobsEnd`, `CallsEnd`, `NewsArrive`), since neither
liveness nor `ENABLED` is within reach of the provers here. Every safety property
that a passing run checks is also proved.

## Limits

Not modelled, with the reason, are: pages, exports, help, audit and login
(nothing depends on them); the tape pages (but for the edit form, see below,
nothing does); manifests and checksums (files: a copy is one
step, a manifest holds what was copied); migrations (they make the tables once);
the backup job, which exports the catalogue and dumps the database (it touches
no tape); progress and heartbeats (display); the parsing of `mtx` output, the
text of mount units and credentials, and how LTFS mounts a volume (input and
output). Read-back mismatches are
recorded and change no decision of the write job.

In `WritePipeline` a run starts in an empty drive, which the registry does not
guarantee (the first of the differences above), and so does a job in `ReadBack`.
There a destination is private to its request (two requests for one directory
are two runs of one), rows of the catalogue come in the order of their ids (the
queries ask for no order; that sequences come before files is certain), a
content is catalogued once (the second difference shows that it may not be; a
part of a file catalogued twice would be joined twice), and damage does not
appear while the model runs. The job modules use a load and an unload as one
step that works or fails; `TapeLibrary` shows what that step is made of, and
that its promise holds: the tape in a slot is moved and no other, and free slots
stay free. A script in `TapeLibrary` ends each call with a commit, as all callers
do. Its properties are about the calls of `library.py`. Others write the same
columns: the edit form overwrites the status and the location of a tape with
what the page showed (`routers/tapes.py:135-136`), and finalising a write job
(`writer.py:552`) and a format batch, forced or not (`batch_format.py:139`), set
the status without looking at it, so `RetiredStays`, `WipedAsAsked` and
`CatalogueFollowsTapes` are not claimed of the whole program. `Look` reads the
row of a tape afresh; a session keeps the objects it has loaded after a commit
(`expire_on_commit=False`, `db.py:41`), so one that makes several calls may
compare with older values, and leave more locations unwritten than `hasty`
marks. In `Connections` the checks of the text fields are left out, and a delete
or recheck form picks its row when it is sent.

## Plan

Done: the modules above with their proofs. What would add most:

1. `WritePipeline` with greedy dedication and units of several parts, which would
   take the plan from `WritePlan` instead of `TapeFor`.
2. The backup job, which exports the catalogue and dumps the database.
