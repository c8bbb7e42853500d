---------------------------- MODULE ReadBackProofs ----------------------------
(***************************************************************************)
(* What ReadBack guarantees for any tapes, slots, drives and catalogue,    *)
(* any requests and jobs, any damage and any number of troubles.           *)
(***************************************************************************)
EXTENDS ReadBack, FiniteLemmas

(* The parts of the types that the other invariants need. *)
Shaped ==
  /\ status \in [Request -> {"none", "prepared", "in_progress", "completed", "failed"}]
  /\ place \in [Tape -> Slot \cup Drive \cup {Outside}]
  /\ mounted \subseteq Drive
  /\ task \in [Drive -> Task \cup {NoTask}]
  /\ DOMAIN pc = Drive /\ DOMAIN tape = Drive /\ DOMAIN slot = Drive
  /\ DOMAIN todo = Drive /\ DOMAIN work = Drive /\ DOMAIN outcome = Drive
  /\ DOMAIN cancelled = Drive /\ DOMAIN reported = Drive
  /\ at \in [Drive -> Drive]
  /\ passed \in [Drive -> SUBSET Span] /\ failed \in [Drive -> SUBSET Span]
  /\ troubles \in Nat /\ dbErrors \in Nat /\ crashes \in Nat
  /\ borrowed \in BOOLEAN

(* A reading that passes, and a manifest that lists the frames. *)
HasRight(s) == \E w \in PiecesOf(s) : Right(w)
Fine(d, w) == Readable(d, w) /\ Right(w)
HasManifest(d, s) ==
  LET m == Piece(s, "manifest") IN Readable(d, m) /\ health[m] = "good"

(* What a thread relies on: its job, and where it is in it. *)
ThreadSound(d) ==
  /\ Live(d) <=> pc[d] # "idle"
  /\ pc[d] \in {"build", "check"} => Kind(d) = "verify"
  /\ pc[d] = "next" => Kind(d) = "restore"
  /\ pc[d] = "load" => slot[d] \in Slot
  /\ outcome[d] = "fatal" => dbErrors > 0

(* A tape in a drive is on its way out, or a problem has been noted. *)
TapeAccounted(d) ==
  crashes = 0 /\ In(d) # {} =>
    IF Live(d)
    THEN \/ outcome[d] # "clean"
         \/ pc[d] \in {"mount", "copy", "build", "check", "unmount", "unload"}
    ELSE reported[d]

(* Results come from checks of spans on the tape. *)
ResultsSound(d) ==
  /\ \A s \in passed[d] : HasRight(s)
  /\ pc[d] = "check" =>
       /\ work[d] \in Seq(Datum)
       /\ \A w \in Range(work[d]) : w.span \in SpansOn(tape[d])
       /\ passed[d] \subseteq SpansOn(tape[d])
  /\ failed[d] # {} => outcome[d] # "clean"
  /\ Kind(d) # "verify" \/ pc[d] \in {"begin", "load", "mount", "build"} =>
       passed[d] = {} /\ failed[d] = {}

(* A verify job that has borrowed nothing reads the tape it asked for. *)
ReadsOwnTape(d) ==
  /\ ~borrowed /\ pc[d] \in {"load", "mount"} => at[d] = d
  /\ ~borrowed /\ pc[d] \in {"build", "check"} => at[d] = d /\ In(d) = {tape[d]}
  /\ pc[d] \in {"build", "check"} /\ at[d] = d => d \in mounted

(* A full verify has still to read, or has found bad, whatever is not fine *)
(* on the tape; frames only if there is a manifest that lists them.        *)
NothingSkipped(d) ==
  pc[d] = "check" /\ task[d].full /\ at[d] = d =>
    \A w \in Datum : w.span \in SpansOn(tape[d]) =>
      \/ w \in Range(work[d]) \/ w.span \in failed[d] \/ Fine(d, w)
      \/ w.piece = "frames" /\ ~HasManifest(d, w.span)

DriveSound(d) ==
  /\ ThreadSound(d) /\ TapeAccounted(d) /\ ResultsSound(d)
  /\ ReadsOwnTape(d) /\ NothingSkipped(d)

(* A request in progress has a job that has begun and will record its end, *)
(* unless its destination could not be made.                               *)
RequestsSound ==
  crashes = 0 /\ dbErrors = 0 =>
    \A r \in Request \ unmade : status[r] = "in_progress" =>
      \E d \in Drive : /\ Kind(d) = "restore" /\ task[d].request = r
                       /\ pc[d] \notin {"idle", "begin", "leave"}

IInv ==
  /\ Shaped /\ \A d \in Drive : DriveSound(d)
  /\ RequestsSound /\ VerifiedIsSound /\ ReadErrorsAreReal
-----------------------------------------------------------------------------
(* Data and lists.                                                         *)

(* A piece belongs to the span it names. *)
LEMMA DataHaveSpans ==
  ASSUME NEW w \in Datum
  PROVE  w.span \in Span /\ w \in PiecesOf(w.span)
BY DEF Datum, PiecesOf, Piece

(* A span has finitely many pieces, and there are finitely many spans. *)
LEMMA DataAreFinite == IsFiniteSet(Datum)
<1>. DEFINE Names == {"manifest", "frames", "data"}
            All == [span: Span, piece: Names]
            f == [k \in Span \X Names |-> [span |-> k[1], piece |-> k[2]]]
<1>1. IsFiniteSet(Span)
  <2>1. Len(Row) \in Nat /\ Span = 1 .. Len(Row)
    BY Rows, LenProperties DEF Span
  <2>. QED
    BY <2>1, FS_Interval
<1>2. IsFiniteSet(Names)
  <2>1. IsFiniteSet({"manifest"} \cup {"frames"})
    BY FS_Singleton, FS_Union
  <2>2. IsFiniteSet(({"manifest"} \cup {"frames"}) \cup {"data"})
    BY <2>1, FS_Singleton, FS_Union
  <2>3. Names = ({"manifest"} \cup {"frames"}) \cup {"data"}
    OBVIOUS
  <2>. QED
    BY <2>2, <2>3, Zenon
<1>3. IsFiniteSet(Span \X Names)
  <2>. HIDE DEF Names
  <2>. QED
    BY <1>1, <1>2, FS_Product
<1>4. f \in Surjection(Span \X Names, All)
  <2>1. f \in [Span \X Names -> All]
    OBVIOUS
  <2>2. ASSUME NEW w \in All PROVE \E k \in Span \X Names : f[k] = w
    <3>1. <<w.span, w.piece>> \in Span \X Names /\ f[<<w.span, w.piece>>] = w
      OBVIOUS
    <3>. QED
      BY <3>1
  <2>. HIDE DEF Names, All, f
  <2>. QED
    BY <2>1, <2>2 DEF Surjection
<1>5. IsFiniteSet(All)
  <2>. HIDE DEF Names, All, f
  <2>. QED
    BY <1>3, <1>4, FS_Surjection
<1>6. Datum \subseteq All
  BY DEF Datum, PiecesOf, Piece
<1>. QED
  BY <1>5, <1>6, FS_Subset
-----------------------------------------------------------------------------
(* One thread at a time.                                                   *)

DriveStep(d) ==
  \/ \E k \in Task : Start(d, k)
  \/ ThreadStep(d) \/ Cancel(d) \/ CallFails(d) \/ Raises(d) \/ Dies(d)

(* What a step leaves of another thread, and of the library it relies on. *)
Same(d) ==
  /\ task'[d] = task[d] /\ pc'[d] = pc[d] /\ tape'[d] = tape[d] /\ slot'[d] = slot[d]
  /\ at'[d] = at[d] /\ work'[d] = work[d] /\ passed'[d] = passed[d]
  /\ failed'[d] = failed[d] /\ outcome'[d] = outcome[d] /\ reported'[d] = reported[d]
Still(d) ==
  /\ In(d)' \subseteq In(d)
  /\ Live(d) => In(d)' = In(d) /\ (d \in mounted => d \in mounted')

(* What is over stays so. *)
Onward ==
  /\ health' = health
  /\ troubles' \in Nat /\ dbErrors' \in Nat /\ crashes' \in Nat
  /\ troubles' >= troubles /\ dbErrors' >= dbErrors /\ crashes' >= crashes
  /\ borrowed => borrowed'

(* A tape goes to the drive or to a slot, and comes from there. *)
LEMMA MovesLeaveOthers ==
  ASSUME Shaped, NEW d \in Drive, NEW e \in Drive \ {d},
         \/ UNCHANGED place
         \/ slot[d] \in Slot /\ Loads(d)
         \/ Unloads(d)
  PROVE  In(e)' = In(e)
<1>1. d \notin Slot /\ e \notin Slot
  BY Places
<1>2. FirstFree \subseteq Slot
  BY DEF FirstFree, FreeSlots
<1>. QED
  BY <1>1, <1>2 DEF Shaped, In, Loads, Unloads

(* A step of one thread touches no other, nor the tape it works on. *)
LEMMA OthersStay ==
  ASSUME Shaped, NEW d \in Drive, ThreadSound(d), DriveStep(d), NEW e \in Drive \ {d}
  PROVE  Same(e) /\ Still(e)
<1>. USE MovesLeaveOthers DEF Shaped, ThreadSound, Goto, Same, Still, catalogue, library,
             output, locals, threads, bounds, failures, history
<1>1. ASSUME NEW k \in Task, Start(d, k) PROVE Same(e) /\ Still(e)
  BY <1>1 DEF Start, In, Live
<1>2. ASSUME BeginRestore(d) PROVE Same(e) /\ Still(e)
  BY <1>2 DEF BeginRestore, Begins
<1>2a. ASSUME NoDestination(d) PROVE Same(e) /\ Still(e)
  BY <1>2a DEF NoDestination, Begins, Fails
<1>3. ASSUME RefuseRestore(d) PROVE Same(e) /\ Still(e)
  BY <1>3 DEF RefuseRestore, Fails
<1>4. ASSUME NextTape(d) PROVE Same(e) /\ Still(e)
  BY <1>4 DEF NextTape
<1>5. ASSUME LastTape(d) PROVE Same(e) /\ Still(e)
  BY <1>5 DEF LastTape
<1>6. ASSUME BeginVerify(d) PROVE Same(e) /\ Still(e)
  BY <1>6 DEF BeginVerify, Raise, Fails
<1>7. ASSUME Load(d) PROVE Same(e) /\ Still(e)
  BY <1>7 DEF Load, Raise, Fails, Loadable, Loads
<1>8. ASSUME Mount(d) PROVE Same(e) /\ Still(e)
  BY <1>8 DEF Mount, Raise, Fails, WrongTape
<1>9. ASSUME CopyMissing(d) PROVE Same(e) /\ Still(e)
  BY <1>9 DEF CopyMissing, Copies, Noted, Fails
<1>10. ASSUME CopyFrames(d) PROVE Same(e) /\ Still(e)
  BY <1>10 DEF CopyFrames, Copies, WritesFrames
<1>11. ASSUME CopyFile(d) PROVE Same(e) /\ Still(e)
  BY <1>11 DEF CopyFile, Copies, Noted, Fails
<1>12. ASSUME CopyFails(d) PROVE Same(e) /\ Still(e)
  BY <1>12 DEF CopyFails, Copies, Noted, Fails, Cuts
<1>13. ASSUME CopyDone(d) PROVE Same(e) /\ Still(e)
  BY <1>13 DEF CopyDone
<1>14. ASSUME Build(d) PROVE Same(e) /\ Still(e)
  BY <1>14 DEF Build
<1>15. ASSUME ReadsGood(d) PROVE Same(e) /\ Still(e)
  BY <1>15 DEF ReadsGood, Reads
<1>16. ASSUME ReadsWrong(d) PROVE Same(e) /\ Still(e)
  BY <1>16 DEF ReadsWrong, Reads, Noted, Fails
<1>17. ASSUME ReadFails(d) PROVE Same(e) /\ Still(e)
  BY <1>17 DEF ReadFails, Reads, Noted, Fails
<1>18. ASSUME Mark(d) PROVE Same(e) /\ Still(e)
  BY <1>18 DEF Mark
<1>19. ASSUME Unmount(d) PROVE Same(e) /\ Still(e)
  BY <1>19 DEF Unmount, CleanupNoted, Fails
<1>20. ASSUME Unload(d) PROVE Same(e) /\ Still(e)
  BY <1>20 DEF Unload, CleanupNoted, Fails, AfterTape, Unloads
<1>21. ASSUME CannotUnload(d) PROVE Same(e) /\ Still(e)
  BY <1>21 DEF CannotUnload
<1>22. ASSUME Finish(d) PROVE Same(e) /\ Still(e)
  BY <1>22 DEF Finish, Idles
<1>23. ASSUME Leave(d) PROVE Same(e) /\ Still(e)
  BY <1>23 DEF Leave, Idles
<1>24. ASSUME Cancel(d) PROVE Same(e) /\ Still(e)
  BY <1>24 DEF Cancel, Trouble
<1>25. ASSUME CallFails(d) PROVE Same(e) /\ Still(e)
  BY <1>25 DEF CallFails, Trouble, Raise, Fails, CleanupNoted, Loads, Loadable,
     Unloads, AfterTape
<1>26. ASSUME Raises(d) PROVE Same(e) /\ Still(e)
  BY <1>26 DEF Raises, Trouble, Fails
<1>27. ASSUME Dies(d) PROVE Same(e) /\ Still(e)
  BY <1>27 DEF Dies, Trouble, Loads, Loadable, Unloads
<1>. QED
  BY <1>1, <1>2, <1>2a, <1>3, <1>4, <1>5, <1>6, <1>7, <1>8, <1>9, <1>10, <1>11, <1>12, <1>13,
     <1>14, <1>15, <1>16, <1>17, <1>18, <1>19, <1>20, <1>21, <1>22, <1>23, <1>24,
     <1>25, <1>26, <1>27 DEF DriveStep, ThreadStep

(* Readings of a mounted tape do not change while the tape stays. *)
LEMMA ReadingsStay ==
  ASSUME NEW d \in Drive, at'[d] = d, at[d] = d, d \in mounted, d \in mounted',
         In(d)' = In(d), health' = health, NEW w
  PROVE  /\ Fine(d, w)' <=> Fine(d, w)
         /\ HasManifest(d, w.span)' <=> HasManifest(d, w.span)
BY DEF Fine, HasManifest, Readable, Right, In

(* A thread that made no step is as sound as before. *)
LEMMA OthersStaySound ==
  ASSUME NEW e \in Drive, DriveSound(e), Same(e), Still(e), Onward,
         dbErrors \in Nat, crashes \in Nat
  PROVE  DriveSound(e)'
<1>1. ThreadSound(e)'
  BY DEF DriveSound, ThreadSound, Same, Onward, Live, Kind
<1>2. TapeAccounted(e)'
  <2>1. crashes' = 0 /\ In(e)' # {} => crashes = 0 /\ In(e) # {}
    BY DEF Onward, Still
  <2>. QED
    BY <2>1 DEF DriveSound, TapeAccounted, Same, Live
<1>3. ResultsSound(e)'
  BY DEF DriveSound, ResultsSound, Same, Onward, Kind, HasRight, Right, SpansOn
<1>4. ReadsOwnTape(e)'
  <2>1. pc[e] \in {"load", "mount", "build", "check"} => Live(e)
    BY DEF DriveSound, ThreadSound
  <2>. QED
    BY <2>1 DEF DriveSound, ReadsOwnTape, Same, Still, Onward
<1>5. NothingSkipped(e)'
  <2>. SUFFICES ASSUME (pc[e] = "check")', (task[e].full)', (at[e] = e)',
                       NEW w \in Datum, (w.span \in SpansOn(tape[e]))'
                PROVE  (\/ w \in Range(work[e]) \/ w.span \in failed[e] \/ Fine(e, w)
                        \/ w.piece = "frames" /\ ~HasManifest(e, w.span))'
    BY DEF NothingSkipped
  <2>1. /\ pc[e] = "check" /\ task[e].full /\ at[e] = e /\ w.span \in SpansOn(tape[e])
    BY DEF Same, SpansOn
  <2>2. e \in mounted /\ e \in mounted' /\ In(e)' = In(e)
    BY <2>1 DEF DriveSound, ReadsOwnTape, ThreadSound, Still
  <2>3. /\ Fine(e, w)' <=> Fine(e, w)
        /\ HasManifest(e, w.span)' <=> HasManifest(e, w.span)
    BY <2>1, <2>2, ReadingsStay DEF Onward
  <2>4. \/ w \in Range(work[e]) \/ w.span \in failed[e] \/ Fine(e, w)
        \/ w.piece = "frames" /\ ~HasManifest(e, w.span)
    BY <2>1 DEF DriveSound, NothingSkipped
  <2>. QED
    BY <2>3, <2>4 DEF Same
<1>. QED
  BY <1>1, <1>2, <1>3, <1>4, <1>5 DEF DriveSound
-----------------------------------------------------------------------------
(* What a step does to the thread that makes it.                           *)

(* The next check is one of the tape's. *)
LEMMA NextCheck ==
  ASSUME Shaped, NEW d \in Drive, ResultsSound(d), Reads(d)
  PROVE  /\ Head(work[d]) \in Datum /\ Head(work[d]).span \in Span
         /\ Head(work[d]) \in PiecesOf(Head(work[d]).span)
         /\ Head(work[d]).span \in SpansOn(tape[d])
         /\ work'[d] \in Seq(Datum)
         /\ Range(work[d]) = {Head(work[d])} \cup Range(work'[d])
<1>1. work[d] \in Seq(Datum) /\ work[d] # <<>> /\ work'[d] = Tail(work[d])
  BY DEF Reads, ResultsSound, Shaped
<1>2. /\ Head(work[d]) \in Datum /\ Head(work[d]) \in Range(work[d])
      /\ Tail(work[d]) \in Seq(Datum)
      /\ Range(work[d]) = {Head(work[d])} \cup Range(Tail(work[d]))
  BY <1>1, TakingHead
<1>3. Head(work[d]).span \in SpansOn(tape[d])
  BY <1>2 DEF Reads, ResultsSound
<1>. QED
  BY <1>1, <1>2, <1>3, DataHaveSpans

(* A move takes tapes to a drive or to a slot. *)
LEMMA MovesKeepPlaces ==
  ASSUME Shaped, NEW d \in Drive, Loads(d) \/ Unloads(d)
  PROVE  place' \in [Tape -> Slot \cup Drive \cup {Outside}]
BY DEF Shaped, Loads, Unloads, FirstFree, FreeSlots

(* Steps go forward, and keep the shape of the state. *)
LEMMA StepsKeepShape ==
  ASSUME Shaped, NEW d \in Drive, DriveSound(d), DriveStep(d)
  PROVE  Shaped' /\ Onward
<1>. USE DEF Shaped, Onward, Goto, catalogue, library, output, locals, threads, bounds,
             failures, history
<1>1. ASSUME NEW k \in Task, Start(d, k) PROVE Shaped' /\ Onward
  BY <1>1 DEF Start
<1>2. ASSUME BeginRestore(d) PROVE Shaped' /\ Onward
  <2>1. status' \in [Request -> {"none", "prepared", "in_progress", "completed", "failed"}]
    BY <1>2 DEF BeginRestore, Begins
  <2>. QED
    BY <1>2, <2>1 DEF BeginRestore
<1>2a. ASSUME NoDestination(d) PROVE Shaped' /\ Onward
  <2>1. status' \in [Request -> {"none", "prepared", "in_progress", "completed", "failed"}]
    BY <1>2a DEF NoDestination, Begins
  <2>. QED
    BY <1>2a, <2>1 DEF NoDestination, Fails
<1>3. ASSUME RefuseRestore(d) PROVE Shaped' /\ Onward
  BY <1>3 DEF RefuseRestore, Fails
<1>4. ASSUME NextTape(d) PROVE Shaped' /\ Onward
  <2>1. at' \in [Drive -> Drive]
    BY <1>4 DEF NextTape
  <2>2. DOMAIN slot' = Drive /\ DOMAIN pc' = Drive
    BY <1>4 DEF NextTape
  <2>3. DOMAIN tape' = Drive /\ DOMAIN work' = Drive /\ DOMAIN todo' = Drive
    BY <1>4 DEF NextTape
  <2>4. UNCHANGED <<catalogue, library, output, task, passed, failed, outcome,
                    cancelled, bounds, history>>
    BY <1>4 DEF NextTape
  <2>. QED
    BY <2>1, <2>2, <2>3, <2>4
<1>5. ASSUME LastTape(d) PROVE Shaped' /\ Onward
  BY <1>5 DEF LastTape
<1>6. ASSUME BeginVerify(d) PROVE Shaped' /\ Onward
  <2>1. at' \in [Drive -> Drive]
    BY <1>6 DEF BeginVerify
  <2>2. borrowed' \in BOOLEAN /\ (borrowed => borrowed')
    BY <1>6 DEF BeginVerify
  <2>3. DOMAIN slot' = Drive /\ DOMAIN pc' = Drive /\ DOMAIN outcome' = Drive
    BY <1>6 DEF BeginVerify, Raise, Fails
  <2>. QED
    BY <1>6, <2>1, <2>2, <2>3 DEF BeginVerify, Raise, Fails
<1>7. ASSUME Load(d) PROVE Shaped' /\ Onward
  BY <1>7, MovesKeepPlaces DEF Load, Raise, Fails
<1>8. ASSUME Mount(d) PROVE Shaped' /\ Onward
  <2>1. mounted' \subseteq Drive
    BY <1>8 DEF Mount
  <2>2. borrowed' \in BOOLEAN /\ (borrowed => borrowed')
    BY <1>8 DEF Mount, WrongTape
  <2>3. DOMAIN pc' = Drive /\ DOMAIN outcome' = Drive
    BY <1>8 DEF Mount, Raise, Fails
  <2>. QED
    BY <1>8, <2>1, <2>2, <2>3 DEF Mount, Raise, Fails
<1>9. ASSUME CopyMissing(d) PROVE Shaped' /\ Onward
  BY <1>9 DEF CopyMissing, Copies, Noted, Fails
<1>10. ASSUME CopyFrames(d) PROVE Shaped' /\ Onward
  BY <1>10 DEF CopyFrames, Copies, WritesFrames
<1>11. ASSUME CopyFile(d) PROVE Shaped' /\ Onward
  BY <1>11 DEF CopyFile, Copies, Noted, Fails
<1>12. ASSUME CopyFails(d) PROVE Shaped' /\ Onward
  BY <1>12 DEF CopyFails, Copies, Noted, Fails, Cuts
<1>13. ASSUME CopyDone(d) PROVE Shaped' /\ Onward
  BY <1>13 DEF CopyDone
<1>14. ASSUME Build(d) PROVE Shaped' /\ Onward
  BY <1>14 DEF Build
<1>15. ASSUME ReadsGood(d) PROVE Shaped' /\ Onward
  <2>1. Head(work[d]).span \in Span
    BY <1>15, NextCheck DEF DriveSound, ReadsGood
  <2>. QED
    BY <1>15, <2>1 DEF ReadsGood, Reads
<1>16. ASSUME ReadsWrong(d) PROVE Shaped' /\ Onward
  <2>1. Head(work[d]).span \in Span
    BY <1>16, NextCheck DEF DriveSound, ReadsWrong
  <2>. QED
    BY <1>16, <2>1 DEF ReadsWrong, Reads, Noted, Fails
<1>17. ASSUME ReadFails(d) PROVE Shaped' /\ Onward
  <2>1. Head(work[d]).span \in Span
    BY <1>17, NextCheck DEF DriveSound, ReadFails
  <2>. QED
    BY <1>17, <2>1 DEF ReadFails, Reads, Noted, Fails
<1>18. ASSUME Mark(d) PROVE Shaped' /\ Onward
  BY <1>18 DEF Mark
<1>19. ASSUME Unmount(d) PROVE Shaped' /\ Onward
  BY <1>19 DEF Unmount, CleanupNoted, Fails
<1>20. ASSUME Unload(d) PROVE Shaped' /\ Onward
  BY <1>20, MovesKeepPlaces DEF Unload, CleanupNoted, Fails, Unloads
<1>21. ASSUME CannotUnload(d) PROVE Shaped' /\ Onward
  BY <1>21 DEF CannotUnload
<1>22. ASSUME Finish(d) PROVE Shaped' /\ Onward
  <2>1. status' \in [Request -> {"none", "prepared", "in_progress", "completed", "failed"}]
    BY <1>22 DEF Finish, FinalStatus
  <2>. QED
    BY <1>22, <2>1 DEF Finish, Idles
<1>23. ASSUME Leave(d) PROVE Shaped' /\ Onward
  BY <1>23 DEF Leave, Idles
<1>24. ASSUME Cancel(d) PROVE Shaped' /\ Onward
  BY <1>24 DEF Cancel, Trouble
<1>25. ASSUME CallFails(d) PROVE Shaped' /\ Onward
  BY <1>25, MovesKeepPlaces DEF CallFails, Trouble, Raise, Fails, CleanupNoted,
     Unloads
<1>26. ASSUME Raises(d) PROVE Shaped' /\ Onward
  BY <1>26 DEF Raises, Trouble, Fails
<1>27. ASSUME Dies(d) PROVE Shaped' /\ Onward
  BY <1>27, MovesKeepPlaces DEF Dies, Trouble, Unloads
<1>. QED
  BY <1>1, <1>2, <1>2a, <1>3, <1>4, <1>5, <1>6, <1>7, <1>8, <1>9, <1>10, <1>11, <1>12,
     <1>13, <1>14, <1>15, <1>16, <1>17, <1>18, <1>19, <1>20, <1>21, <1>22, <1>23,
     <1>24, <1>25, <1>26, <1>27 DEF DriveStep, ThreadStep

(* After a check that was fine, or was noted, nothing has been skipped. *)
LEMMA ReadingOn ==
  ASSUME Shaped, NEW d \in Drive, DriveSound(d), Reads(d), failed[d] \subseteq failed'[d],
         Fine(d, Head(work[d])) \/ Head(work[d]).span \in failed'[d]
  PROVE  NothingSkipped(d)'
<1>1. UNCHANGED <<library, task, pc, tape, at>>
  BY DEF Reads
<1>2. Range(work[d]) = {Head(work[d])} \cup Range(work'[d])
  BY NextCheck DEF DriveSound
<1>3. ASSUME NEW w
      PROVE  /\ Fine(d, w)' <=> Fine(d, w)
             /\ HasManifest(d, w.span)' <=> HasManifest(d, w.span)
  BY <1>1 DEF Fine, HasManifest, Readable, Right, In, library
<1>. SUFFICES ASSUME pc[d] = "check", task[d].full, at[d] = d, NEW w \in Datum,
                     w.span \in SpansOn(tape[d])
              PROVE  \/ w \in Range(work'[d]) \/ w.span \in failed'[d] \/ Fine(d, w)
                     \/ w.piece = "frames" /\ ~HasManifest(d, w.span)
  BY <1>1, <1>3 DEF NothingSkipped, SpansOn
<1>4. \/ w \in Range(work[d]) \/ w.span \in failed[d] \/ Fine(d, w)
      \/ w.piece = "frames" /\ ~HasManifest(d, w.span)
  BY DEF DriveSound, NothingSkipped
<1>. QED
  BY <1>2, <1>4

(* The thread itself is as sound after its step. *)
LEMMA ThreadsStaySound ==
  ASSUME Shaped, NEW d \in Drive, DriveSound(d), DriveStep(d), Shaped', Onward
  PROVE  DriveSound(d)'
<1>. USE DEF Shaped, Onward, DriveSound, ThreadSound, TapeAccounted, ResultsSound,
             ReadsOwnTape, NothingSkipped, HasRight, Right, Kind, Live, In, Goto,
             catalogue, library, output, locals, threads, bounds, failures, history
<1>1. ASSUME NEW k \in Task, Start(d, k) PROVE DriveSound(d)'
  BY <1>1, Tasks, Places DEF Start, FreeDrives, Runs, NoTask
<1>2. ASSUME BeginRestore(d) PROVE DriveSound(d)'
  BY <1>2 DEF BeginRestore, Begins
<1>2a. ASSUME NoDestination(d) PROVE DriveSound(d)'
  BY <1>2a DEF NoDestination, Begins, Fails
<1>3. ASSUME RefuseRestore(d) PROVE DriveSound(d)'
  BY <1>3 DEF RefuseRestore, Fails
<1>4. ASSUME NextTape(d) PROVE DriveSound(d)'
  <2>1. /\ pc[d] = "next" /\ pc'[d] \in {"load", "mount"} /\ at'[d] = d
        /\ pc'[d] = "load" => slot'[d] \in Slot
    <3>1. pc[d] = "next" /\ at'[d] = d
      BY <1>4 DEF NextTape
    <3>2. \/ slot'[d] \in Slot /\ pc'[d] = "load"
          \/ pc'[d] = "mount"
      <4>. DEFINE t == Head(todo[d])
      <4>1. IF place[t] \in Slot
            THEN slot' = [slot EXCEPT ![d] = place[t]] /\ Goto(d, "load")
            ELSE UNCHANGED slot /\ Goto(d, "mount")
        BY <1>4 DEF NextTape
      <4>. QED
        BY <4>1
    <3>. QED
      BY <3>1, <3>2
  <2>2. UNCHANGED <<catalogue, library, output, task, passed, failed, outcome,
                    cancelled, bounds, history>>
    BY <1>4 DEF NextTape
  <2>. QED
    BY <2>1, <2>2
<1>5. ASSUME LastTape(d) PROVE DriveSound(d)'
  BY <1>5 DEF LastTape
<1>6. ASSUME BeginVerify(d) PROVE DriveSound(d)'
  BY <1>6, Tasks, Places DEF BeginVerify, Raise, Fails, NoTask
<1>7. ASSUME Load(d) PROVE DriveSound(d)'
  BY <1>7, Tasks, Places DEF Load, Raise, Fails, Loadable, Loads, NoTask
<1>8. ASSUME Mount(d) PROVE DriveSound(d)'
  <2>1. ThreadSound(d)' /\ TapeAccounted(d)' /\ ResultsSound(d)' /\ NothingSkipped(d)'
    BY <1>8, Tasks DEF Mount, Raise, Fails, NoTask
  <2>2. ReadsOwnTape(d)'
    <3>1. CASE pc'[d] \notin {"load", "mount", "build", "check"}
      BY <3>1
    <3>2. CASE pc'[d] = "build"
      <4>1. at[d] \in mounted' /\ at'[d] = at[d] /\ tape'[d] = tape[d] /\ In(d)' = In(d)
            /\ Kind(d) # "restore"
        BY <1>8, <3>2 DEF Mount, Raise
      <4>2. ~borrowed' => ~WrongTape(d) /\ ~borrowed
        BY <1>8, <3>2, <4>1, Tasks DEF Mount, Raise, NoTask
      <4>. QED
        BY <1>8, <3>2, <4>1, <4>2 DEF Mount, WrongTape
    <3>. QED
      BY <1>8, <3>1, <3>2 DEF Mount, Raise
  <2>. QED
    BY <2>1, <2>2
<1>9. ASSUME CopyMissing(d) PROVE DriveSound(d)'
  BY <1>9 DEF CopyMissing, Copies, Noted, Fails
<1>10. ASSUME CopyFrames(d) PROVE DriveSound(d)'
  BY <1>10 DEF CopyFrames, Copies, WritesFrames
<1>11. ASSUME CopyFile(d) PROVE DriveSound(d)'
  BY <1>11 DEF CopyFile, Copies, Noted, Fails
<1>12. ASSUME CopyFails(d) PROVE DriveSound(d)'
  BY <1>12 DEF CopyFails, Copies, Noted, Fails, Cuts
<1>13. ASSUME CopyDone(d) PROVE DriveSound(d)'
  BY <1>13 DEF CopyDone
<1>14. ASSUME Build(d) PROVE DriveSound(d)'
  <2>1. PICK parsed \in SUBSET MayParse(d) :
          /\ MustParse(d) \subseteq parsed
          /\ \E some \in Samples(d, Checks(tape[d], parsed)) :
               work' = [work EXCEPT ![d] = SetToSeq(some)]
    BY <1>14 DEF Build
  <2>. DEFINE all == Checks(tape[d], parsed)
  <2>2. PICK some \in Samples(d, all) : work' = [work EXCEPT ![d] = SetToSeq(some)]
    BY <2>1
  <2>3. some \subseteq all /\ all \subseteq Datum /\ (task[d].full => some = all)
    BY DEF Samples, Checks
  <2>4. work'[d] \in Seq(some) /\ Range(work'[d]) = some
    <3>1. IsFiniteSet(some)
      BY <2>3, DataAreFinite, FS_Subset
    <3>. QED
      BY <2>2, <3>1, ListsAll
  <2>5. work'[d] \in Seq(Datum)
    BY <2>3, <2>4, SeqMonotonic
  <2>6. /\ pc[d] = "build" /\ pc'[d] = "check"
        /\ UNCHANGED <<catalogue, library, output, task, tape, slot, at, todo, passed,
                       failed, outcome, cancelled, bounds, history>>
    BY <1>14 DEF Build
  <2>7. ResultsSound(d)'
    <3>1. \A w \in Range(work'[d]) : w.span \in SpansOn(tape[d])
      BY <2>3, <2>4 DEF Checks
    <3>. QED
      BY <2>5, <2>6, <3>1 DEF SpansOn
  <2>8. NothingSkipped(d)'
    <3>. SUFFICES ASSUME task[d].full, at[d] = d, NEW w \in Datum,
                         w.span \in SpansOn(tape[d]), w \notin all
                  PROVE  w.piece = "frames" /\ ~HasManifest(d, w.span)
      BY <2>3, <2>4, <2>6 DEF SpansOn, Fine, HasManifest, Readable
    <3>1. w.piece = "frames" /\ w.span \notin MustParse(d)
      BY <2>1 DEF Checks
    <3>2. IsSequence(w.span)
      BY <3>1 DEF Datum, PiecesOf, Piece
    <3>. QED
      BY <3>1, <3>2 DEF MustParse, MayParse, Parses, HasManifest
  <2>9. ThreadSound(d)' /\ TapeAccounted(d)' /\ ReadsOwnTape(d)'
    BY <2>6
  <2>. QED
    BY <2>7, <2>8, <2>9
<1>15. ASSUME ReadsGood(d) PROVE DriveSound(d)'
  <2>1. /\ UNCHANGED <<library, task, pc, tape, slot, at, history, dbErrors, crashes>>
        /\ pc[d] = "check"
    BY <1>15 DEF ReadsGood, Reads
  <2>2. ThreadSound(d)' /\ TapeAccounted(d)' /\ ReadsOwnTape(d)'
    BY <1>15, <2>1 DEF ReadsGood
  <2>3. ResultsSound(d)'
    <3>1. Right(Head(work[d]))
      BY <1>15 DEF ReadsGood, Readable, Differs, Compared, Unhashed
    <3>. QED
      BY <1>15, <2>1, <3>1, NextCheck DEF ReadsGood, SpansOn
  <2>4. NothingSkipped(d)'
    BY <1>15, ReadingOn DEF ReadsGood, Readable, Differs, Compared, Fine, Unhashed
  <2>. QED
    BY <2>2, <2>3, <2>4
<1>16. ASSUME ReadsWrong(d) PROVE DriveSound(d)'
  <2>1. /\ UNCHANGED <<library, task, pc, tape, slot, at, history, dbErrors, crashes>>
        /\ pc[d] = "check"
    BY <1>16 DEF ReadsWrong, Reads
  <2>2. ThreadSound(d)' /\ TapeAccounted(d)' /\ ReadsOwnTape(d)'
    BY <1>16, <2>1 DEF ReadsWrong, Noted, Fails
  <2>3. ResultsSound(d)'
    BY <1>16, <2>1, NextCheck DEF ReadsWrong, Noted, Fails, SpansOn
  <2>4. NothingSkipped(d)'
    BY <1>16, ReadingOn DEF ReadsWrong, Reads
  <2>. QED
    BY <2>2, <2>3, <2>4
<1>17. ASSUME ReadFails(d) PROVE DriveSound(d)'
  <2>1. /\ UNCHANGED <<library, task, pc, tape, slot, at, history, dbErrors, crashes>>
        /\ pc[d] = "check"
    BY <1>17 DEF ReadFails, Reads
  <2>2. ThreadSound(d)' /\ TapeAccounted(d)' /\ ReadsOwnTape(d)'
    BY <1>17, <2>1 DEF ReadFails, Noted, Fails
  <2>3. ResultsSound(d)'
    BY <1>17, <2>1, NextCheck DEF ReadFails, Noted, Fails, SpansOn
  <2>4. NothingSkipped(d)'
    BY <1>17, ReadingOn DEF ReadFails, Reads
  <2>. QED
    BY <2>2, <2>3, <2>4
<1>18. ASSUME Mark(d) PROVE DriveSound(d)'
  BY <1>18 DEF Mark
<1>19. ASSUME Unmount(d) PROVE DriveSound(d)'
  BY <1>19 DEF Unmount, CleanupNoted, Fails
<1>20. ASSUME Unload(d) PROVE DriveSound(d)'
  <2>1. ThreadSound(d)' /\ ResultsSound(d)' /\ ReadsOwnTape(d)' /\ NothingSkipped(d)'
    BY <1>20 DEF Unload, Unloads, CleanupNoted, Fails, AfterTape
  <2>2. TapeAccounted(d)'
    <3>1. CASE Unloads(d)
      <4>1. In(d)' = {}
        BY <3>1, Places DEF Unloads, FirstFree, FreeSlots
      <4>. QED
        BY <4>1
    <3>2. CASE outcome'[d] # "clean"
      BY <1>20, <3>2 DEF Unload
    <3>. QED
      BY <1>20, <3>1, <3>2 DEF Unload, CleanupNoted, Fails
  <2>. QED
    BY <2>1, <2>2
<1>21. ASSUME CannotUnload(d) PROVE DriveSound(d)'
  BY <1>21 DEF CannotUnload
<1>22. ASSUME Finish(d) PROVE DriveSound(d)'
  <2>1. ThreadSound(d)' /\ ResultsSound(d)' /\ ReadsOwnTape(d)' /\ NothingSkipped(d)'
    BY <1>22 DEF Finish, Idles, NoTask
  <2>2. TapeAccounted(d)'
    <3>1. /\ ~Live(d)' /\ reported'[d] = (outcome[d] # "clean") /\ In(d)' = In(d)
          /\ crashes' = crashes /\ pc[d] = "finish" /\ Live(d)
      BY <1>22 DEF Finish, Idles
    <3>. QED
      BY <3>1
  <2>. QED
    BY <2>1, <2>2
<1>23. ASSUME Leave(d) PROVE DriveSound(d)'
  <2>1. ThreadSound(d)' /\ ResultsSound(d)' /\ ReadsOwnTape(d)' /\ NothingSkipped(d)'
    BY <1>23 DEF Leave, Idles, NoTask
  <2>2. TapeAccounted(d)'
    <3>1. /\ ~Live(d)' /\ reported'[d] = (outcome[d] # "clean") /\ In(d)' = In(d)
          /\ crashes' = crashes /\ pc[d] = "leave" /\ Live(d)
      BY <1>23 DEF Leave, Idles
    <3>. QED
      BY <3>1
  <2>. QED
    BY <2>1, <2>2
<1>24. ASSUME Cancel(d) PROVE DriveSound(d)'
  <2>1. UNCHANGED <<catalogue, library, output, task, pc, locals, outcome, starts,
                    failures, history>>
    BY <1>24 DEF Cancel
  <2>. QED
    BY <2>1 DEF SpansOn, Fine, HasManifest, Readable
<1>25. ASSUME CallFails(d) PROVE DriveSound(d)'
  BY <1>25, Tasks, Places DEF CallFails, Trouble, Raise, Fails, CleanupNoted, Loads,
     Loadable, Unloads, AfterTape, NoTask
<1>26. ASSUME Raises(d) PROVE DriveSound(d)'
  BY <1>26 DEF Raises, Trouble, Fails
<1>27. ASSUME Dies(d) PROVE DriveSound(d)'
  BY <1>27, Tasks, Places DEF Dies, Trouble, Loads, Loadable, Unloads, NoTask
<1>. HIDE DEF DriveSound, ThreadSound, TapeAccounted, ResultsSound, ReadsOwnTape,
              NothingSkipped, HasRight, Right, In
<1>. QED
  BY <1>1, <1>2, <1>2a, <1>3, <1>4, <1>5, <1>6, <1>7, <1>8, <1>9, <1>10, <1>11, <1>12,
     <1>13, <1>14, <1>15, <1>16, <1>17, <1>18, <1>19, <1>20, <1>21, <1>22, <1>23,
     <1>24, <1>25, <1>26, <1>27 DEF DriveStep, ThreadStep
-----------------------------------------------------------------------------
(* The steps of nobody's thread, and the end of them all.                  *)

OperatorStep ==
  \/ \E r \in Request : Prepare(r)
  \/ \E d \in Drive : OperatorUnloads(d)
  \/ \E t \in Tape : OperatorTakesOut(t) \/ OperatorPutsBack(t)
  \/ UNCHANGED vars

(* The operator touches no drive that a job has claimed. *)
LEMMA OperatorLeavesThreads ==
  ASSUME Shaped, OperatorStep
  PROVE  Shaped' /\ Onward /\ \A e \in Drive : Same(e) /\ Still(e)
<1>1. UNCHANGED <<threads, health, starts, dbErrors, crashes, history>>
  BY DEF OperatorStep, Prepare, OperatorUnloads, OperatorTakesOut, OperatorPutsBack,
     vars, library, bounds, failures
<1>2. troubles' \in Nat /\ troubles' >= troubles
  BY DEF OperatorStep, Prepare, OperatorUnloads, OperatorTakesOut, OperatorPutsBack,
     vars, Trouble, bounds, Shaped
<1>3. status' \in [Request -> {"none", "prepared", "in_progress", "completed", "failed"}]
  BY DEF OperatorStep, Prepare, OperatorUnloads, OperatorTakesOut, OperatorPutsBack,
     vars, catalogue, Shaped
<1>. DEFINE Kept == /\ place' \in [Tape -> Slot \cup Drive \cup {Outside}]
                    /\ mounted' \subseteq Drive
                    /\ \A e \in Drive : Still(e)
<1>4. Kept
  <2>1. CASE UNCHANGED <<place, mounted>>
    BY <2>1 DEF Shaped, Still, In
  <2>2. ASSUME NEW d \in Drive, OperatorUnloads(d) PROVE Kept
    <3>1. \A e \in Drive \ {d} : In(e)' = In(e)
      BY <2>2, MovesLeaveOthers DEF OperatorUnloads
    <3>2. In(d)' \subseteq In(d)
      BY <2>2, Places DEF OperatorUnloads, Unloads, FirstFree, FreeSlots, In
    <3>3. place' \in [Tape -> Slot \cup Drive \cup {Outside}]
      BY <2>2, MovesKeepPlaces DEF OperatorUnloads
    <3>. QED
      BY <2>2, <3>1, <3>2, <3>3 DEF OperatorUnloads, Unloads, Still, Shaped
  <2>3. ASSUME NEW t \in Tape, OperatorTakesOut(t) \/ OperatorPutsBack(t) PROVE Kept
    <3>1. \E p \in Slot \cup {Outside} : place' = [place EXCEPT ![t] = p]
      BY <2>3 DEF OperatorTakesOut, OperatorPutsBack, FreeSlots
    <3>2. place[t] \notin Drive /\ mounted' = mounted
      BY <2>3, Places DEF OperatorTakesOut, OperatorPutsBack, Outside, NoSlot
    <3>. QED
      BY <3>1, <3>2, Places DEF Shaped, Still, In, Outside, NoSlot
  <2>. QED
    BY <2>1, <2>2, <2>3 DEF OperatorStep, Prepare, vars, library
<1>. QED
  BY <1>1, <1>2, <1>3, <1>4 DEF Shaped, Onward, Same, threads, locals, history

(* After a crash nothing is in hand. *)
LEMMA CrashStaysSound ==
  ASSUME Shaped, Crash
  PROVE  Shaped' /\ Onward /\ (crashes' # 0) /\ \A e \in Drive : DriveSound(e)'
<1>1. Shaped' /\ Onward /\ crashes' # 0
  BY DEF Shaped, Onward, Crash, Trouble, catalogue
<1>2. ASSUME NEW e \in Drive PROVE DriveSound(e)'
  <2>1. /\ task'[e] = NoTask /\ pc'[e] = "idle" /\ passed'[e] = {} /\ failed'[e] = {}
        /\ outcome'[e] = "clean"
    BY DEF Crash
  <2>. QED
    BY <1>1, <2>1 DEF DriveSound, ThreadSound, TapeAccounted, ResultsSound,
       ReadsOwnTape, NothingSkipped, Live
<1>. QED
  BY <1>1, <1>2

(* Whoever makes the step, all drives stay sound. *)
LEMMA DrivesStaySound ==
  ASSUME Shaped, \A d \in Drive : DriveSound(d), [Next]_vars
  PROVE  Shaped' /\ Onward /\ \A d \in Drive : DriveSound(d)'
<1>1. dbErrors \in Nat /\ crashes \in Nat
  BY DEF Shaped
<1>2. ASSUME NEW d \in Drive, DriveStep(d)
      PROVE  Shaped' /\ Onward /\ \A e \in Drive : DriveSound(e)'
  <2>1. Shaped' /\ Onward
    BY <1>2, StepsKeepShape
  <2>2. DriveSound(d)'
    BY <1>2, <2>1, ThreadsStaySound
  <2>3. ASSUME NEW e \in Drive \ {d} PROVE DriveSound(e)'
    <3>1. Same(e) /\ Still(e)
      BY <1>2, OthersStay DEF DriveSound
    <3>. QED
      BY <1>1, <2>1, <3>1, OthersStaySound
  <2>. QED
    BY <2>1, <2>2, <2>3
<1>3. CASE OperatorStep
  <2>1. Shaped' /\ Onward /\ \A e \in Drive : Same(e) /\ Still(e)
    BY <1>3, OperatorLeavesThreads
  <2>. QED
    BY <1>1, <2>1, OthersStaySound
<1>4. CASE Crash
  BY <1>4, CrashStaysSound
<1>. QED
  BY <1>2, <1>3, <1>4 DEF Next, DriveStep, OperatorStep
-----------------------------------------------------------------------------
(* The catalogue.                                                          *)

Working(d, r) ==
  /\ Kind(d) = "restore" /\ task[d].request = r
  /\ pc[d] \notin {"idle", "begin", "leave"}

(* A thread begins its request, goes on with it, or records its end.       *)
LEMMA ThreadsKeepRequests ==
  ASSUME Shaped, NEW d \in Drive, DriveSound(d), DriveStep(d), dbErrors' = 0,
         NEW r \in Request, status'[r] = "in_progress", r \notin unmade'
  PROVE  /\ status[r] # "in_progress" \/ r \in unmade => Working(d, r)'
         /\ Working(d, r) => Working(d, r)'
<1>. DEFINE Kept == \/ Working(d, r)'
                    \/ status'[r] = status[r] /\ r \notin unmade /\ ~Working(d, r)
<1>. USE DEF Shaped, DriveSound, ThreadSound, Working, Kind, Live, Goto,
             catalogue, library, output, locals, threads, bounds, failures, history
<1>1. ASSUME NEW k \in Task, Start(d, k) PROVE Kept
  BY <1>1 DEF Start, FreeDrives, Runs
<1>2. ASSUME BeginRestore(d) PROVE Kept
  BY <1>2 DEF BeginRestore, Begins
<1>2a. ASSUME NoDestination(d) PROVE Kept
  BY <1>2a DEF NoDestination, Begins, Fails
<1>3. ASSUME RefuseRestore(d) PROVE Kept
  BY <1>3 DEF RefuseRestore, Fails
<1>4. ASSUME NextTape(d) PROVE Kept
  BY <1>4 DEF NextTape
<1>5. ASSUME LastTape(d) PROVE Kept
  BY <1>5 DEF LastTape
<1>6. ASSUME BeginVerify(d) PROVE Kept
  BY <1>6 DEF BeginVerify, Raise, Fails
<1>7. ASSUME Load(d) PROVE Kept
  BY <1>7 DEF Load, Raise, Fails
<1>8. ASSUME Mount(d) PROVE Kept
  BY <1>8 DEF Mount, Raise, Fails
<1>9. ASSUME CopyMissing(d) PROVE Kept
  BY <1>9 DEF CopyMissing, Copies, Noted, Fails
<1>10. ASSUME CopyFrames(d) PROVE Kept
  BY <1>10 DEF CopyFrames, Copies, WritesFrames
<1>11. ASSUME CopyFile(d) PROVE Kept
  BY <1>11 DEF CopyFile, Copies, Noted, Fails
<1>12. ASSUME CopyFails(d) PROVE Kept
  BY <1>12 DEF CopyFails, Copies, Noted, Fails, Cuts
<1>13. ASSUME CopyDone(d) PROVE Kept
  BY <1>13 DEF CopyDone
<1>14. ASSUME Build(d) PROVE Kept
  BY <1>14 DEF Build
<1>15. ASSUME ReadsGood(d) PROVE Kept
  BY <1>15 DEF ReadsGood, Reads
<1>16. ASSUME ReadsWrong(d) PROVE Kept
  BY <1>16 DEF ReadsWrong, Reads, Noted, Fails
<1>17. ASSUME ReadFails(d) PROVE Kept
  BY <1>17 DEF ReadFails, Reads, Noted, Fails
<1>18. ASSUME Mark(d) PROVE Kept
  BY <1>18 DEF Mark
<1>19. ASSUME Unmount(d) PROVE Kept
  BY <1>19 DEF Unmount, CleanupNoted, Fails
<1>20. ASSUME Unload(d) PROVE Kept
  BY <1>20 DEF Unload, CleanupNoted, Fails, AfterTape, Unloads
<1>21. ASSUME CannotUnload(d) PROVE Kept
  BY <1>21 DEF CannotUnload
<1>22. ASSUME Finish(d) PROVE Kept
  BY <1>22 DEF Finish, Idles, FinalStatus
<1>23. ASSUME Leave(d) PROVE Kept
  BY <1>23 DEF Leave, Idles
<1>24. ASSUME Cancel(d) PROVE Kept
  BY <1>24 DEF Cancel, Trouble
<1>25. ASSUME CallFails(d) PROVE Kept
  BY <1>25 DEF CallFails, Trouble, Raise, Fails, CleanupNoted, AfterTape
<1>26. ASSUME Raises(d) PROVE Kept
  BY <1>26 DEF Raises, Trouble, Fails
<1>27. ASSUME Dies(d) PROVE Kept
  BY <1>27 DEF Dies, Trouble
<1>. QED
  BY <1>1, <1>2, <1>2a, <1>3, <1>4, <1>5, <1>6, <1>7, <1>8, <1>9, <1>10, <1>11, <1>12,
     <1>13, <1>14, <1>15, <1>16, <1>17, <1>18, <1>19, <1>20, <1>21, <1>22, <1>23,
     <1>24, <1>25, <1>26, <1>27 DEF DriveStep, ThreadStep
-----------------------------------------------------------------------------
(* A request that stays in progress keeps its job, whoever makes a step. *)
LEMMA RequestsStaySound ==
  ASSUME IInv, [Next]_vars, Onward
  PROVE  RequestsSound'
<1>. SUFFICES ASSUME crashes' = 0, dbErrors' = 0, NEW r \in Request,
                     status'[r] = "in_progress", r \notin unmade'
              PROVE  \E d \in Drive : Working(d, r)'
  BY DEF RequestsSound, Working, Kind
<1>. USE DEF IInv
<1>1. crashes = 0 /\ dbErrors = 0
  BY DEF Onward, Shaped
<1>2. status[r] = "in_progress" /\ r \notin unmade => \E d \in Drive : Working(d, r)
  BY <1>1 DEF RequestsSound, Working
<1>3. ASSUME NEW d \in Drive, DriveStep(d) PROVE \E e \in Drive : Working(e, r)'
  <2>1. /\ status[r] # "in_progress" \/ r \in unmade => Working(d, r)'
        /\ Working(d, r) => Working(d, r)'
    BY <1>3, ThreadsKeepRequests
  <2>2. ASSUME NEW e \in Drive \ {d}, Working(e, r) PROVE Working(e, r)'
    BY <1>3, <2>2, OthersStay DEF DriveSound, Same, Working, Kind
  <2>. QED
    BY <1>2, <2>1, <2>2
<1>4. CASE OperatorStep
  <2>1. \A e \in Drive : Same(e)
    BY <1>4, OperatorLeavesThreads
  <2>2. status[r] = "in_progress" /\ r \notin unmade
    BY <1>4 DEF OperatorStep, Prepare, OperatorUnloads, OperatorTakesOut,
       OperatorPutsBack, vars, catalogue, bounds, failures, Shaped
  <2>. QED
    BY <1>2, <2>1, <2>2 DEF Same, Working, Kind
<1>5. CASE Crash
  BY <1>5, CrashStaysSound
<1>. QED
  BY <1>3, <1>4, <1>5 DEF Next, DriveStep, OperatorStep

(* Only the end of the checks marks anything, and only a check that fails  *)
(* records a read error.                                                   *)
LEMMA CatalogueSteps ==
  ASSUME NEW d \in Drive, DriveStep(d)
  PROVE  /\ Mark(d) \/ UNCHANGED <<verified, checked>>
         /\ ReadFails(d) \/ UNCHANGED errors
BY DEF DriveStep, ThreadStep, Start, BeginRestore, Begins, NoDestination, RefuseRestore, NextTape,
   LastTape, BeginVerify, Load, Mount, CopyMissing, CopyFrames, CopyFile,
   CopyFails, CopyDone, Build, ReadsGood, ReadsWrong, ReadFails, Mark, Unmount,
   Unload, CannotUnload, Finish, Leave, Cancel, CallFails, Raises, Dies, Copies,
   Reads, catalogue

(* A check that fails without a failed call, in a drive that is not        *)
(* borrowed, has met data that cannot be read.                             *)
LEMMA ErrorsAreFound ==
  ASSUME Shaped, NEW d \in Drive, DriveSound(d), DriveStep(d), troubles' = 0, ~borrowed',
         NEW s \in errors' \ errors
  PROVE  \E w \in PiecesOf(s) : health[w] = "unreadable"
<1>1. ReadFails(d)
  BY CatalogueSteps
<1>. DEFINE w == Head(work[d])
<1>2. s = w.span /\ w \in PiecesOf(w.span) /\ Row[w.span].tape = tape[d]
  BY <1>1, NextCheck DEF DriveSound, ReadFails, SpansOn
<1>3. ~Readable(d, w) /\ pc[d] = "check" /\ borrowed' = borrowed
  BY <1>1 DEF ReadFails, Reads, Shaped, history
<1>. QED
  BY <1>2, <1>3 DEF DriveSound, ReadsOwnTape, Readable

(* What is marked was right, what is recorded as an error was not. *)
LEMMA CatalogueStaysSound ==
  ASSUME IInv, [Next]_vars, Shaped', Onward
  PROVE  VerifiedIsSound' /\ ReadErrorsAreReal'
<1>. USE DEF IInv
<1>1. ASSUME NEW d \in Drive, DriveStep(d) PROVE VerifiedIsSound'
  BY <1>1, CatalogueSteps DEF Mark, Sound, VerifiedIsSound, DriveSound,
     ResultsSound, HasRight, Right, Onward
<1>2. ASSUME NEW d \in Drive, DriveStep(d) PROVE ReadErrorsAreReal'
  <2>1. troubles' = 0 /\ ~borrowed' => troubles = 0 /\ ~borrowed
    BY DEF Onward, Shaped
  <2>. QED
    BY <1>2, <2>1, ErrorsAreFound DEF ReadErrorsAreReal, Onward
<1>3. CASE OperatorStep \/ Crash
  <2>1. UNCHANGED <<verified, errors>>
    BY <1>3 DEF OperatorStep, Prepare, OperatorUnloads, OperatorTakesOut,
       OperatorPutsBack, Crash, vars, catalogue
  <2>2. troubles' = 0 /\ ~borrowed' => troubles = 0 /\ ~borrowed
    BY DEF Onward, Shaped
  <2>. QED
    BY <2>1, <2>2 DEF VerifiedIsSound, ReadErrorsAreReal, Right, Onward
<1>. QED
  BY <1>1, <1>2, <1>3 DEF Next, DriveStep, OperatorStep
-----------------------------------------------------------------------------
(* The invariant holds to begin with, after every step, and so for ever. *)
LEMMA InitSound == Init => IInv
<1>. SUFFICES ASSUME Init PROVE IInv
  OBVIOUS
<1>1. Shaped
  BY Places DEF Init, Shaped
<1>2. ASSUME NEW d \in Drive PROVE In(d) = {}
  BY Places DEF Init, In, Outside, NoSlot
<1>3. ASSUME NEW d \in Drive PROVE DriveSound(d)
  BY <1>2 DEF Init, DriveSound, ThreadSound, TapeAccounted, ResultsSound,
     ReadsOwnTape, NothingSkipped, Live
<1>4. RequestsSound /\ VerifiedIsSound /\ ReadErrorsAreReal
  BY DEF Init, RequestsSound, VerifiedIsSound, ReadErrorsAreReal
<1>. QED
  BY <1>1, <1>3, <1>4 DEF IInv

LEMMA NextSound == IInv /\ [Next]_vars => IInv'
<1>. SUFFICES ASSUME IInv, [Next]_vars PROVE IInv'
  OBVIOUS
<1>1. Shaped' /\ Onward /\ \A d \in Drive : DriveSound(d)'
  BY DrivesStaySound DEF IInv
<1>. QED
  BY <1>1, RequestsStaySound, CatalogueStaysSound DEF IInv

LEMMA AlwaysSound == Spec => []IInv
BY InitSound, NextSound, PTL DEF Spec
-----------------------------------------------------------------------------
(* What a restore works through: tapes, and the files on each.             *)

LEMMA SpanType ==
  /\ IsFiniteSet(Span) /\ Span \subseteq Nat
  /\ \A s \in Span : /\ Row[s].content \in Nat /\ Row[s].tape \in Tape
                     /\ Row[s].part \in Nat \ {0}
                     /\ Row[s].kind \in {"sequence", "file"}
<1>1. Len(Row) \in Nat /\ Span = 1 .. Len(Row)
  BY Rows, LenProperties DEF Span
<1>2. IsFiniteSet(1 .. Len(Row))
  BY <1>1, FS_Interval
<1>3. ASSUME NEW s \in Span
      PROVE  Row[s] \in [content: Nat, kind: {"sequence", "file"}, tape: Tape, part: Nat \ {0},
                       hashed: BOOLEAN]
  BY <1>1, Rows, ElementOfSeq
<1>. QED
  BY <1>1, <1>2, <1>3

LEMMA SpansFromType ==
  ASSUME NEW r, NEW t
  PROVE  SpansFrom(r, t) \subseteq Span /\ IsFiniteSet(SpansFrom(r, t))
<1>1. SpansFrom(r, t) \subseteq Span
  BY DEF SpansFrom, Collected
<1>. QED
  BY <1>1, SpanType, FS_Subset

LEMMA SoonerLaws ==
  /\ \A s \in Span : ~Sooner(s, s)
  /\ \A s, u \in Span : s # u => Sooner(s, u) \/ Sooner(u, s)
  /\ \A s, u, v \in Span : Sooner(s, u) /\ Sooner(u, v) => Sooner(s, v)
<1>1. Span \subseteq Nat
  BY SpanType
<1>2. \A s \in Span : ~Sooner(s, s)
  BY <1>1 DEF Sooner
<1>3. \A s, u \in Span : s # u => Sooner(s, u) \/ Sooner(u, s)
  BY <1>1 DEF Sooner
<1>4. \A s, u, v \in Span : Sooner(s, u) /\ Sooner(u, v) => Sooner(s, v)
  <2>. SUFFICES ASSUME NEW s \in Span, NEW u \in Span, NEW v \in Span, Sooner(s, u), Sooner(u, v)
                PROVE  Sooner(s, v)
    OBVIOUS
  <2>1. s \in Nat /\ u \in Nat /\ v \in Nat
    BY <1>1
  <2>. QED
    BY <2>1 DEF Sooner
<1>. QED
  BY <1>2, <1>3, <1>4

LEMMA SoonerOrders ==
  ASSUME NEW S, S \subseteq Span
  PROVE  Orders({p \in S \X S : Sooner(p[1], p[2])}, S)
<1>1. \A s, u \in S : <<s, u>> \in {p \in S \X S : Sooner(p[1], p[2])} <=> Sooner(s, u)
  OBVIOUS
<1>. QED
  BY <1>1, SoonerLaws DEF Orders

(* A tape that is needed has a first span. *)
LEMMA FirstSpanIsThere ==
  ASSUME NEW r \in Request, NEW t \in TapesNeeded(r)
  PROVE  FirstSpan(r, t) \in Span /\ Row[FirstSpan(r, t)].tape = t
<1>1. PICK S, q : S = SpansFrom(r, t) /\ q = Sorted(S, Sooner)
  OBVIOUS
<1>2. S \subseteq Span /\ IsFiniteSet(S)
  BY <1>1, SpansFromType
<1>3. Lists(q, S, {p \in S \X S : Sooner(p[1], p[2])})
  BY <1>1, <1>2, SoonerOrders, ArrangedLists DEF Sorted
<1>4. PICK s \in S : TRUE
  BY <1>1 DEF TapesNeeded, SpansFrom
<1>5. q \in Seq(S) /\ Range(q) = S
  BY <1>3 DEF Lists
<1>6. Len(q) \in Nat /\ DOMAIN q = 1 .. Len(q)
  BY <1>5, LenProperties
<1>7. 1 \in DOMAIN q
  <2>1. \E i \in DOMAIN q : q[i] = s
    BY <1>5 DEF Range
  <2>. QED
    BY <1>6, <2>1
<1>8. q[1] \in S
  BY <1>5, <1>7 DEF Range
<1>. QED
  BY <1>1, <1>2, <1>8 DEF FirstSpan, SpansFrom

(* The plan of a request lists the tapes it needs, each of them once.      *)
LEMMA PlanType ==
  ASSUME NEW r \in Request
  PROVE  /\ Plan[r] \in Seq(Tape) /\ Range(Plan[r]) = TapesNeeded(r)
         /\ \A i, k \in DOMAIN Plan[r] : Plan[r][i] = Plan[r][k] => i = k
<1>1. PICK S, R : /\ S = TapesNeeded(r)
                  /\ R = {p \in S \X S : Sooner(FirstSpan(r, p[1]), FirstSpan(r, p[2]))}
  OBVIOUS
<1>2. S \subseteq Tape /\ IsFiniteSet(S)
  <2>1. S \subseteq Tape
    BY <1>1, SpanType DEF TapesNeeded, Collected
  <2>. QED
    BY <2>1, TapeIds, FS_Subset
<1>3. PICK f : f = [t \in S |-> FirstSpan(r, t)]
  OBVIOUS
<1>4. /\ \A t \in S : f[t] \in Span /\ FirstSpan(r, t) = f[t]
      /\ \A t, u \in S : f[t] = f[u] => t = u
  BY <1>1, <1>3, FirstSpanIsThere
<1>5. \A t, u \in S : <<t, u>> \in R <=> Sooner(f[t], f[u])
  BY <1>1, <1>4
<1>6. Orders(R, S)
  <2>1. /\ \A t \in S : ~Sooner(f[t], f[t])
        /\ \A t, u \in S : t # u => Sooner(f[t], f[u]) \/ Sooner(f[u], f[t])
    BY <1>4, SoonerLaws
  <2>2. \A t, u, v \in S : Sooner(f[t], f[u]) /\ Sooner(f[u], f[v]) => Sooner(f[t], f[v])
    BY <1>4, SoonerLaws
  <2>. QED
    BY <1>5, <2>1, <2>2 DEF Orders
<1>7. Plan[r] = Arranged(S, R)
  BY <1>1 DEF Plan, Sorted
<1>8. Lists(Plan[r], S, R)
  BY <1>2, <1>6, <1>7, ArrangedLists
<1>9. Plan[r] \in Seq(S)
  BY <1>8 DEF Lists
<1>10. Plan[r] \in Seq(Tape)
  BY <1>2, <1>9, SeqMonotonic
<1>. QED
  BY <1>1, <1>8, <1>10 DEF Lists

LEMMA WantedIsData ==
  ASSUME NEW s \in Span
  PROVE  Wanted(s) \in Datum /\ Wanted(s).span = s
BY DEF Wanted, Datum, PiecesOf, Piece

(* The files of a tape are the selected ones on it, the parts of each in   *)
(* their order.                                                            *)
ListsFiles(q, r, t) ==
  /\ q \in Seq(Datum)
  /\ \A i \in DOMAIN q : q[i].span \in SpansFrom(r, t) /\ q[i] = Wanted(q[i].span)
  /\ \A s \in SpansFrom(r, t) : \E i \in DOMAIN q : q[i] = Wanted(s)
  /\ \A i, k \in DOMAIN q : i < k => Before(q[i].span, q[k].span)
  /\ \A i, k \in DOMAIN q : q[i] = q[k] => i = k

LEMMA FilesType ==
  ASSUME NEW r \in Request, NEW t \in Tape
  PROVE  ListsFiles(FilesOn[r][t], r, t)
<1>0. PICK q : q = FilesOn[r][t]
  OBVIOUS
<1>1. PICK S, R : S = SpansFrom(r, t) /\ R = {p \in S \X S : Before(p[1], p[2])}
  OBVIOUS
<1>2. S \subseteq Span /\ IsFiniteSet(S) /\ \A s \in S : Row[s].tape = t
  BY <1>1, SpansFromType DEF SpansFrom
<1>3. Orders(R, S)
  <2>1. \A s, u \in S : <<s, u>> \in R <=> Before(s, u)
    BY <1>1
  <2>2. \A s \in S : ~Before(s, s)
    BY <1>2, SpanType DEF Before
  <2>3. ASSUME NEW s \in S, NEW u \in S, s # u
        PROVE  Before(s, u) \/ Before(u, s)
    <3>1. s \in Span /\ u \in Span
      BY <1>2
    <3>2. Row[s].content # Row[u].content \/ Row[s].part # Row[u].part
      BY <2>3, <3>1, Rows
    <3>. QED
      BY <3>1, <3>2, SpanType DEF Before
  <2>4. \A s, u, v \in S : Before(s, u) /\ Before(u, v) => Before(s, v)
    BY <1>2, SpanType DEF Before
  <2>. QED
    BY <2>1, <2>2, <2>3, <2>4 DEF Orders
<1>4. PICK o : o = Arranged(S, R)
  OBVIOUS
<1>5. Lists(o, S, R)
  BY <1>2, <1>3, <1>4, ArrangedLists
<1>6. q = [i \in DOMAIN o |-> Wanted(o[i])]
  BY <1>0, <1>1, <1>4 DEF FilesOn, Sorted
<1>7. /\ Len(o) \in Nat /\ DOMAIN o = 1 .. Len(o)
      /\ \A i \in DOMAIN o : o[i] \in S
      /\ \A s \in S : \E i \in DOMAIN o : o[i] = s
      /\ \A i, k \in DOMAIN o : i < k => Before(o[i], o[k])
      /\ \A i, k \in DOMAIN o : o[i] = o[k] => i = k
  <2>1. o \in Seq(S) /\ Range(o) = S
    BY <1>5 DEF Lists
  <2>2. \A i, k \in DOMAIN o : i < k => Before(o[i], o[k])
    BY <1>1, <1>5 DEF Lists
  <2>3. \A i, k \in DOMAIN o : o[i] = o[k] => i = k
    BY <1>5 DEF Lists
  <2>. QED
    BY <2>1, <2>2, <2>3, LenProperties DEF Range
<1>8. DOMAIN q = DOMAIN o /\ \A i \in DOMAIN o : /\ q[i] = Wanted(o[i]) /\ q[i] \in Datum
                                                 /\ q[i].span = o[i]
  BY <1>2, <1>6, <1>7, WantedIsData
<1>9. q \in Seq(Datum)
  <2>1. q \in [1 .. Len(o) -> Datum]
    BY <1>6, <1>7, <1>8
  <2>. QED
    BY <1>7, <2>1
<1>10. ListsFiles(q, r, t)
  BY <1>1, <1>7, <1>8, <1>9 DEF ListsFiles
<1>. QED
  BY <1>0, <1>10
-----------------------------------------------------------------------------
(* Every variable keeps its type. *)

(* What is read of a piece, and what becomes of it. *)
Quality == {"good", "wrong", "cut"}
Pieces == [span: Span, is: Quality]

(* A thread that reads a tape has one, and only a restore copies. *)
HasTape(d) ==
  /\ pc[d] \in {"load", "mount", "copy", "build", "check"} => tape[d] \in Tape
  /\ pc[d] = "copy" => Kind(d) = "restore"

Typed == TypeOK /\ \A d \in Drive : HasTape(d)

LEMMA InitTyped == Init => Typed
<1>. SUFFICES ASSUME Init PROVE Typed
  OBVIOUS
<1>1. Shaped
  BY InitSound DEF IInv
<1>2. health \in [Datum -> Health]
  BY Media DEF Init
<1>3. /\ todo \in [Drive -> Seq(Tape)] /\ work \in [Drive -> Seq(Datum)]
      /\ joined \in [Request -> [Files -> Seq(Pieces)]]
  <2>1. <<>> \in Seq(Tape) /\ <<>> \in Seq(Datum) /\ <<>> \in Seq(Pieces)
    OBVIOUS
  <2>. HIDE DEF Pieces
  <2>. QED
    BY <2>1 DEF Init
<1>4. folder \in [Request -> SUBSET Pieces]
  BY DEF Init
<1>5. /\ blocked \in [Request -> BOOLEAN]
      /\ verified \subseteq Span /\ checked \subseteq Tape /\ errors \subseteq Span
      /\ starts \in Nat /\ spoiled \subseteq Request /\ unmade \subseteq Request
      /\ cancelled \in [Drive -> BOOLEAN] /\ reported \in [Drive -> BOOLEAN]
  BY DEF Init
<1>6. /\ pc = [d \in Drive |-> "idle"] /\ tape \in [Drive -> Tape \cup {NoTape}]
      /\ slot \in [Drive -> Slot \cup {NoSlot}]
      /\ outcome \in [Drive -> {"clean", "problem", "raised", "fatal"}]
  BY DEF Init
<1>. QED
  BY <1>1, <1>2, <1>3, <1>4, <1>5, <1>6 DEF Typed, TypeOK, HasTape, Shaped, Pieces, Quality

(* The variables of the threads. *)
ThreadsTyped ==
  /\ pc \in [Drive -> {"idle", "begin", "next", "load", "mount", "copy", "build",
                       "check", "unmount", "unload", "finish", "leave"}]
  /\ tape \in [Drive -> Tape \cup {NoTape}] /\ slot \in [Drive -> Slot \cup {NoSlot}]
  /\ todo \in [Drive -> Seq(Tape)] /\ work \in [Drive -> Seq(Datum)]
  /\ outcome \in [Drive -> {"clean", "problem", "raised", "fatal"}]
  /\ cancelled \in [Drive -> BOOLEAN] /\ reported \in [Drive -> BOOLEAN]
  /\ starts \in Nat /\ spoiled \subseteq Request /\ unmade \subseteq Request

(* What a thread does to a list of its own. *)
LEMMA NextTyped ==
  ASSUME NEW S, NEW f \in [Drive -> Seq(S)], NEW d \in Drive, NEW q \in Seq(S)
  PROVE  /\ [f EXCEPT ![d] = q] \in [Drive -> Seq(S)]
         /\ [f EXCEPT ![d] = <<>>] \in [Drive -> Seq(S)]
         /\ f[d] # <<>> => /\ Head(f[d]) \in S
                           /\ [f EXCEPT ![d] = Tail(@)] \in [Drive -> Seq(S)]
<1>1. <<>> \in Seq(S) /\ f[d] \in Seq(S)
  OBVIOUS
<1>2. f[d] # <<>> => Head(f[d]) \in S /\ Tail(f[d]) \in Seq(S)
  BY <1>1, HeadTailProperties
<1>. QED
  BY <1>1, <1>2

LEMMA RunType ==
  ASSUME Shaped, NEW d \in Drive, Kind(d) = "restore"
  PROVE  task[d].request \in Request
BY Tasks DEF Shaped, Kind, NoTask

LEMMA ThreadsStayTyped ==
  ASSUME Shaped, Typed, NEW d \in Drive, DriveSound(d), DriveStep(d)
  PROVE  ThreadsTyped' /\ HasTape(d)'
<1>. USE DEF Goto, catalogue, library, output, locals, threads, bounds, failures, history,
             ThreadsTyped, HasTape, Kind
<1>. DEFINE Kept == ThreadsTyped' /\ HasTape(d)'
<1>t. ThreadsTyped /\ HasTape(d)
  BY DEF Typed, TypeOK
<1>k. pc[d] \in {"next", "copy"} => task[d].request \in Request
  BY <1>t, RunType DEF DriveSound, ThreadSound
<1>v. Kind(d) = "verify" => task[d].tape \in Tape
  BY Tasks DEF Shaped, NoTask
<1>h. todo[d] # <<>> => /\ Head(todo[d]) \in Tape
                       /\ [todo EXCEPT ![d] = Tail(@)] \in [Drive -> Seq(Tape)]
  BY <1>t, NextTyped
<1>w. /\ work[d] # <<>> => [work EXCEPT ![d] = Tail(@)] \in [Drive -> Seq(Datum)]
      /\ [work EXCEPT ![d] = <<>>] \in [Drive -> Seq(Datum)]
      /\ [todo EXCEPT ![d] = <<>>] \in [Drive -> Seq(Tape)]
  BY <1>t, NextTyped
<1>1. ASSUME NEW k \in Task, Start(d, k) PROVE Kept
  <2>1. /\ starts' = starts + 1 /\ pc' = [pc EXCEPT ![d] = "begin"]
        /\ UNCHANGED <<locals, outcome, cancelled, unmade, reported>>
    BY <1>1 DEF Start
  <2>2. spoiled' \subseteq Request
    BY <1>1, <1>t, Tasks DEF Start
  <2>. QED
    BY <1>t, <2>1, <2>2
<1>2. ASSUME BeginRestore(d) PROVE Kept
  <2>1. /\ todo' = [todo EXCEPT ![d] = Plan[task[d].request]]
        /\ pc' = [pc EXCEPT ![d] = "next"]
        /\ unmade' \subseteq unmade
        /\ UNCHANGED <<task, tape, slot, work, outcome, cancelled, starts, history>>
    BY <1>2 DEF BeginRestore
  <2>2. Plan[task[d].request] \in Seq(Tape)
    BY <1>2, RunType, PlanType DEF BeginRestore, Begins
  <2>3. todo' \in [Drive -> Seq(Tape)]
    BY <1>t, <2>1, <2>2, NextTyped
  <2>. QED
    BY <1>t, <2>1, <2>3
<1>2a. ASSUME NoDestination(d) PROVE Kept
  <2>1. unmade' \subseteq Request
    BY <1>2a, <1>t, RunType DEF NoDestination, Begins
  <2>. QED
    BY <1>2a, <1>t, <2>1 DEF NoDestination, Fails
<1>3. ASSUME RefuseRestore(d) PROVE Kept
  BY <1>3, <1>t, <1>k, <1>v, <1>h, <1>w DEF RefuseRestore, Fails
<1>4. ASSUME NextTape(d) PROVE Kept
  <2>1. PICK t : t = Head(todo[d])
    OBVIOUS
  <2>2. /\ pc[d] = "next" /\ t \in Tape
        /\ tape' = [tape EXCEPT ![d] = t]
        /\ work' = [work EXCEPT ![d] = FilesOn[task[d].request][t]]
        /\ todo' = [todo EXCEPT ![d] = Tail(@)] /\ todo[d] # <<>>
        /\ UNCHANGED <<task, outcome, cancelled, bounds, history>>
    BY <1>4, <1>h, <2>1 DEF NextTape
  <2>3. \/ slot' = [slot EXCEPT ![d] = place[t]] /\ place[t] \in Slot
           /\ pc' = [pc EXCEPT ![d] = "load"]
        \/ slot' = slot /\ pc' = [pc EXCEPT ![d] = "mount"]
    BY <1>4, <2>1 DEF NextTape
  <2>4. work' \in [Drive -> Seq(Datum)] /\ todo' \in [Drive -> Seq(Tape)]
    <3>1. FilesOn[task[d].request][t] \in Seq(Datum)
      BY <1>k, <2>2, FilesType DEF ListsFiles
    <3>2. work' \in [Drive -> Seq(Datum)]
      BY <1>t, <2>2, <3>1, NextTyped
    <3>. QED
      BY <1>h, <2>2, <3>2
  <2>. QED
    BY <1>t, <2>2, <2>3, <2>4
<1>5. ASSUME LastTape(d) PROVE Kept
  BY <1>5, <1>t, <1>k, <1>v, <1>h, <1>w DEF LastTape
<1>6. ASSUME BeginVerify(d) PROVE Kept
  BY <1>6, <1>t, <1>k, <1>v, <1>h, <1>w DEF BeginVerify, Raise, Fails
<1>7. ASSUME Load(d) PROVE Kept
  BY <1>7, <1>t, <1>k, <1>v, <1>h, <1>w DEF Load, Raise, Fails
<1>8. ASSUME Mount(d) PROVE Kept
  <2>1. /\ pc[d] = "mount" /\ UNCHANGED <<task, locals, cancelled, bounds, reported>>
        /\ \/ /\ pc' = [pc EXCEPT ![d] = IF Kind(d) = "restore" THEN "copy" ELSE "build"]
              /\ UNCHANGED outcome
           \/ Raise(d) /\ UNCHANGED spoiled
    BY <1>8 DEF Mount
  <2>2. spoiled' \subseteq Request
    <3>1. Kind(d) = "restore" => task[d].request \in Request
      BY RunType
    <3>2. \/ spoiled' = spoiled
          \/ Kind(d) = "restore" /\ spoiled' = spoiled \cup {task[d].request}
      BY <1>8 DEF Mount
    <3>. QED
      BY <1>t, <3>1, <3>2
  <2>. QED
    BY <1>t, <2>1, <2>2 DEF Raise, Fails
<1>9. ASSUME CopyMissing(d) PROVE Kept
  BY <1>9, <1>t, <1>k, <1>v, <1>h, <1>w DEF CopyMissing, Copies, Noted, Fails
<1>10. ASSUME CopyFrames(d) PROVE Kept
  BY <1>10, <1>t, <1>k, <1>v, <1>h, <1>w DEF CopyFrames, Copies
<1>11. ASSUME CopyFile(d) PROVE Kept
  BY <1>11, <1>t, <1>k, <1>v, <1>h, <1>w DEF CopyFile, Copies, Noted, Fails
<1>12. ASSUME CopyFails(d) PROVE Kept
  BY <1>12, <1>t, <1>k, <1>v, <1>h, <1>w DEF CopyFails, Cuts, Copies, Noted, Fails
<1>13. ASSUME CopyDone(d) PROVE Kept
  BY <1>13, <1>t, <1>k, <1>v, <1>h, <1>w DEF CopyDone
<1>14. ASSUME Build(d) PROVE Kept
  <2>1. PICK some \in SUBSET Datum : work' = [work EXCEPT ![d] = SetToSeq(some)]
    BY <1>14 DEF Build, Samples, Checks
  <2>2. SetToSeq(some) \in Seq(Datum)
    BY DataAreFinite, FS_Subset, ListsAll, SeqMonotonic
  <2>3. work' \in [Drive -> Seq(Datum)]
    BY <1>t, <2>1, <2>2, NextTyped
  <2>4. /\ pc[d] = "build" /\ pc' = [pc EXCEPT ![d] = "check"]
        /\ UNCHANGED <<task, tape, slot, todo, outcome, cancelled, bounds, history>>
    BY <1>14 DEF Build
  <2>. QED
    BY <1>t, <2>3, <2>4
<1>15. ASSUME ReadsGood(d) PROVE Kept
  BY <1>15, <1>t, <1>k, <1>v, <1>h, <1>w DEF ReadsGood, Reads
<1>16. ASSUME ReadsWrong(d) PROVE Kept
  BY <1>16, <1>t, <1>k, <1>v, <1>h, <1>w DEF ReadsWrong, Reads, Noted, Fails
<1>17. ASSUME ReadFails(d) PROVE Kept
  BY <1>17, <1>t, <1>k, <1>v, <1>h, <1>w DEF ReadFails, Reads, Noted, Fails
<1>18. ASSUME Mark(d) PROVE Kept
  BY <1>18, <1>t, <1>k, <1>v, <1>h, <1>w DEF Mark
<1>19. ASSUME Unmount(d) PROVE Kept
  BY <1>19, <1>t, <1>k, <1>v, <1>h, <1>w DEF Unmount, CleanupNoted, Fails
<1>20. ASSUME Unload(d) PROVE Kept
  BY <1>20, <1>t, <1>k, <1>v, <1>h, <1>w DEF Unload, CleanupNoted, Fails, AfterTape
<1>21. ASSUME CannotUnload(d) PROVE Kept
  BY <1>21, <1>t, <1>k, <1>v, <1>h, <1>w DEF CannotUnload
<1>22. ASSUME Finish(d) PROVE Kept
  BY <1>22, <1>t, <1>k, <1>v, <1>h, <1>w DEF Finish, Idles
<1>23. ASSUME Leave(d) PROVE Kept
  BY <1>23, <1>t, <1>k, <1>v, <1>h, <1>w DEF Leave, Idles
<1>24. ASSUME Cancel(d) PROVE Kept
  BY <1>24, <1>t, <1>k, <1>v, <1>h, <1>w DEF Cancel
<1>25. ASSUME CallFails(d) PROVE Kept
  BY <1>25, <1>t, <1>k, <1>v, <1>h, <1>w DEF CallFails, Raise, Fails, CleanupNoted, AfterTape
<1>26. ASSUME Raises(d) PROVE Kept
  BY <1>26, <1>t, <1>k, <1>v, <1>h, <1>w DEF Raises, Fails
<1>27. ASSUME Dies(d) PROVE Kept
  BY <1>27, <1>t, <1>k, <1>v, <1>h, <1>w DEF Dies
<1>. QED
  BY <1>1, <1>2, <1>2a, <1>3, <1>4, <1>5, <1>6, <1>7, <1>8, <1>9, <1>10, <1>11, <1>12,
     <1>13, <1>14, <1>15, <1>16, <1>17, <1>18, <1>19, <1>20, <1>21, <1>22, <1>23,
     <1>24, <1>25, <1>26, <1>27 DEF DriveStep, ThreadStep

(* The catalogue and what is at the destinations. *)
OutputTyped ==
  /\ folder \in [Request -> SUBSET Pieces]
  /\ joined \in [Request -> [Files -> Seq(Pieces)]]
CatalogueTyped ==
  blocked \in [Request -> BOOLEAN] /\ verified \subseteq Span /\ checked \subseteq Tape
  /\ errors \subseteq Span

LEMMA ReadingType ==
  ASSUME TypeOK, NEW s \in Span
  PROVE  Reading(s) \in Health
BY WantedIsData DEF TypeOK, Reading

(* A file stays a file, whichever part of it is read. *)
LEMMA SameKind ==
  ASSUME NEW d \in Drive, NEW s \in Source(d), Head(work[d]).span \in Span
  PROVE  /\ s \in Span
         /\ IsSequence(s) <=> IsSequence(Head(work[d]).span)
         /\ ~IsSequence(s) => Row[s].content \in Files /\ s = Head(work[d]).span
<1>1. PICK u : u = Head(work[d]).span
  OBVIOUS
<1>2. /\ s \in Span /\ u \in Span /\ Row[s].content = Row[u].content
      /\ IsSequence(s) \/ Row[s].part = Row[u].part
  BY <1>1 DEF Source
<1>3. Row[s].kind = Row[u].kind
  BY <1>2, Rows
<1>4. ~IsSequence(s) => s = u
  BY <1>2, Rows
<1>5. ~IsSequence(s) => Row[s].content \in Files
  <2>1. ASSUME ~IsSequence(s), NEW v \in Parts(Row[s].content), IsSequence(v)
        PROVE  FALSE
    <3>1. v \in Span /\ Row[v].content = Row[s].content
      BY DEF Parts
    <3>2. Row[v].kind = Row[s].kind
      BY <1>2, <3>1, Rows
    <3>. QED
      BY <2>1, <3>2 DEF IsSequence
  <2>. QED
    BY <1>2, <2>1 DEF Files, Sequences, Content
<1>. QED
  BY <1>1, <1>2, <1>3, <1>4, <1>5 DEF IsSequence

(* The data a step of a copy reads. *)
LEMMA NextFile ==
  ASSUME TypeOK, NEW d \in Drive, work[d] # <<>>
  PROVE  Head(work[d]) \in Datum /\ Head(work[d]).span \in Span
<1>1. work[d] \in Seq(Datum)
  BY DEF TypeOK
<1>2. Head(work[d]) \in Datum
  BY <1>1, HeadTailProperties
<1>. QED
  BY <1>2, DataHaveSpans

LEMMA WritesTyped ==
  ASSUME TypeOK, NEW d \in Drive, task[d].request \in Request
  PROVE  /\ \A s \in Span : \A q \in Quality :
              ~IsSequence(s) /\ Row[s].content \in Files /\ WritesFile(d, s, q) => OutputTyped'
         /\ \A chunks \in SUBSET Pieces : WritesFrames(d, chunks) => OutputTyped'
<1>1. PICK r, F, G : r = task[d].request /\ F = folder /\ G = joined
  OBVIOUS
<1>2. r \in Request /\ F \in [Request -> SUBSET Pieces] /\ G \in [Request -> [Files -> Seq(Pieces)]]
  BY <1>1 DEF TypeOK, Pieces, Quality
<1>3. ASSUME NEW s \in Span, NEW q \in Quality, Row[s].content \in Files, WritesFile(d, s, q)
      PROVE  OutputTyped'
  <2>1. PICK c, w : c = Row[s].content /\ w = Written(r, s, q)
    OBVIOUS
  <2>2. Chunk(s, q) \in Pieces
    BY DEF Chunk, Pieces
  <2>3. <<Chunk(s, q)>> \in Seq(Pieces)
    BY <2>2
  <2>4. Append(G[r][c], Chunk(s, q)) \in Seq(Pieces)
    BY <1>2, <1>3, <2>1, <2>2, AppendProperties
  <2>5. w \in Seq(Pieces)
    BY <1>1, <2>1, <2>3, <2>4 DEF Written
  <2>6. joined' = [G EXCEPT ![r][c] = w] /\ folder' = F
    BY <1>1, <1>3, <2>1 DEF WritesFile
  <2>7. [G EXCEPT ![r][c] = w] \in [Request -> [Files -> Seq(Pieces)]]
    BY <1>2, <1>3, <2>1, <2>5
  <2>. QED
    BY <1>2, <2>6, <2>7 DEF OutputTyped
<1>4. ASSUME NEW chunks \in SUBSET Pieces, WritesFrames(d, chunks)
      PROVE  OutputTyped'
  BY <1>1, <1>2, <1>4 DEF WritesFrames, OutputTyped
<1>. QED
  BY <1>3, <1>4

(* A copy that goes on, and one that is cut. *)
LEMMA CopiesTyped ==
  ASSUME TypeOK, NEW d \in Drive, task[d].request \in Request, work[d] # <<>>,
         CopyFrames(d) \/ CopyFile(d) \/ Cuts(d)
  PROVE  OutputTyped'
<1>1. Head(work[d]).span \in Span
  BY NextFile
<1>2. \A s \in Source(d) : s \in Span /\ Reading(s) \in Health
  BY <1>1, SameKind, ReadingType
<1>3. New(d) \subseteq Source(d) /\ Clear(d) \subseteq New(d)
      /\ \A s \in Clear(d) : Reading(s) # "unreadable"
  BY DEF New, Clear
<1>4. \A S \in SUBSET Clear(d) : Copied(S) \in SUBSET Pieces
  BY <1>2, <1>3 DEF Copied, Chunk, Pieces, Quality, Health
<1>5. ASSUME NEW s \in New(d), ~IsSequence(Head(work[d]).span), NEW q \in Quality,
             WritesFile(d, s, q)
      PROVE  OutputTyped'
  <2>1. s \in Span /\ ~IsSequence(s) /\ Row[s].content \in Files
    BY <1>1, <1>3, <1>5, SameKind
  <2>. QED
    BY <1>5, <2>1, WritesTyped
<1>6. CASE CopyFrames(d)
  BY <1>3, <1>4, <1>6, WritesTyped DEF CopyFrames
<1>7. CASE CopyFile(d)
  <2>1. PICK s \in Clear(d) : WritesFile(d, s, Reading(s)) /\ ~IsSequence(Head(work[d]).span)
    BY <1>7 DEF CopyFile
  <2>2. s \in New(d) /\ Reading(s) \in Quality
    BY <1>2, <1>3 DEF Health, Quality
  <2>. QED
    BY <1>5, <2>1, <2>2
<1>8. CASE Cuts(d)
  <2>1. CASE UNCHANGED output
    BY <2>1 DEF TypeOK, output, OutputTyped, Pieces, Quality
  <2>2. CASE ~IsSequence(Head(work[d]).span) /\ \E s \in New(d) : WritesFile(d, s, "cut")
    BY <1>5, <2>2 DEF Quality
  <2>3. ASSUME NEW whole \in SUBSET Clear(d), WritesFrames(d, Copied(whole))
        PROVE  OutputTyped'
    BY <1>4, <2>3, WritesTyped
  <2>4. ASSUME NEW whole \in SUBSET Clear(d), NEW s \in New(d),
               WritesFrames(d, Copied(whole) \cup {Chunk(s, "cut")})
        PROVE  OutputTyped'
    <3>1. Chunk(s, "cut") \in Pieces
      BY <1>2, <1>3 DEF Chunk, Pieces, Quality
    <3>2. Copied(whole) \cup {Chunk(s, "cut")} \in SUBSET Pieces
      BY <1>4, <3>1
    <3>. QED
      BY <2>4, <3>2, WritesTyped
  <2>. QED
    BY <1>8, <2>1, <2>2, <2>3, <2>4 DEF Cuts
<1>. QED
  BY <1>6, <1>7, <1>8

LEMMA OutputStaysTyped ==
  ASSUME Shaped, Typed, NEW d \in Drive, DriveStep(d)
  PROVE  OutputTyped'
<1>1. CASE UNCHANGED output
  BY <1>1 DEF Typed, TypeOK, output, OutputTyped, Pieces, Quality
<1>2. CASE CopyFrames(d) \/ CopyFile(d) \/ CopyFails(d)
  <2>1. pc[d] = "copy" /\ work[d] # <<>>
    BY <1>2 DEF CopyFrames, CopyFile, CopyFails, Copies
  <2>2. task[d].request \in Request
    BY <2>1, RunType DEF Typed, HasTape
  <2>. QED
    BY <1>2, <2>1, <2>2, CopiesTyped DEF CopyFails, Typed
<1>. QED
  BY <1>1, <1>2 DEF DriveStep, ThreadStep, Start, BeginRestore, Begins, NoDestination, RefuseRestore, NextTape,
     LastTape, BeginVerify, Load, Mount, CopyMissing, CopyDone, Build, ReadsGood,
     ReadsWrong, ReadFails, Mark, Unmount, Unload, CannotUnload, Finish, Leave, Cancel,
     CallFails, Raises, Dies, Reads

LEMMA CatalogueStaysTyped ==
  ASSUME Shaped, Typed, NEW d \in Drive, DriveSound(d), DriveStep(d)
  PROVE  CatalogueTyped'
<1>1. CatalogueTyped
  BY DEF Typed, TypeOK, CatalogueTyped
<1>2. UNCHANGED blocked
  BY DEF DriveStep, ThreadStep, Start, BeginRestore, Begins, NoDestination, RefuseRestore, NextTape,
     LastTape, BeginVerify, Load, Mount, CopyMissing, CopyFrames, CopyFile, CopyFails,
     CopyDone, Build, ReadsGood, ReadsWrong, ReadFails, Mark, Unmount, Unload,
     CannotUnload, Finish, Leave, Cancel, CallFails, Raises, Dies, Copies, Reads, catalogue
<1>3. verified' \subseteq Span /\ checked' \subseteq Tape
  <2>1. CASE Mark(d)
    <3>1. tape[d] \in Tape /\ passed[d] \subseteq Span
      BY <2>1 DEF Mark, Typed, HasTape, Shaped
    <3>. QED
      BY <1>1, <2>1, <3>1 DEF Mark, Sound, CatalogueTyped
  <2>. QED
    BY <1>1, <2>1, CatalogueSteps DEF CatalogueTyped
<1>4. errors' \subseteq Span
  <2>1. CASE ReadFails(d)
    BY <1>1, <2>1, NextCheck DEF ReadFails, DriveSound, CatalogueTyped
  <2>. QED
    BY <1>1, <2>1, CatalogueSteps DEF CatalogueTyped
<1>. QED
  BY <1>1, <1>2, <1>3, <1>4 DEF CatalogueTyped

(* Whoever makes the step. *)
LEMMA StepTyped == IInv /\ Typed /\ [Next]_vars => Typed'
<1>. SUFFICES ASSUME IInv, Typed, [Next]_vars PROVE Typed'
  OBVIOUS
<1>1. Shaped' /\ Onward
  BY DrivesStaySound DEF IInv
<1>2. health' \in [Datum -> Health]
  BY <1>1 DEF Onward, Typed, TypeOK
<1>3. TypeOK' <=> ThreadsTyped' /\ OutputTyped' /\ CatalogueTyped'
  BY <1>1, <1>2 DEF TypeOK, Shaped, ThreadsTyped, OutputTyped, CatalogueTyped, Pieces, Quality
<1>4. ThreadsTyped /\ OutputTyped /\ CatalogueTyped /\ \A d \in Drive : HasTape(d)
  BY DEF Typed, TypeOK, ThreadsTyped, OutputTyped, CatalogueTyped, Pieces, Quality
<1>5. ASSUME NEW d \in Drive, DriveStep(d) PROVE Typed'
  <2>1. ThreadsTyped' /\ HasTape(d)'
    BY <1>5, ThreadsStayTyped DEF IInv
  <2>2. OutputTyped' /\ CatalogueTyped'
    BY <1>5, OutputStaysTyped, CatalogueStaysTyped DEF IInv
  <2>3. ASSUME NEW e \in Drive \ {d} PROVE HasTape(e)'
    BY <1>4, <1>5, OthersStay DEF IInv, DriveSound, Same, HasTape, Kind
  <2>. QED
    BY <1>3, <2>1, <2>2, <2>3 DEF Typed
<1>6. CASE OperatorStep
  <2>1. UNCHANGED <<threads, output, history, starts, unmade, verified, checked, errors>>
    BY <1>6 DEF OperatorStep, Prepare, OperatorUnloads, OperatorTakesOut,
       OperatorPutsBack, vars, catalogue, bounds, failures
  <2>2. blocked' \in [Request -> BOOLEAN]
    <3>1. ASSUME NEW r \in Request, Prepare(r) PROVE blocked' \in [Request -> BOOLEAN]
      BY <1>4, <3>1 DEF Prepare, CatalogueTyped
    <3>2. CASE UNCHANGED blocked
      BY <1>4, <3>2 DEF CatalogueTyped
    <3>. QED
      BY <1>6, <3>1, <3>2 DEF OperatorStep, OperatorUnloads, OperatorTakesOut,
         OperatorPutsBack, vars, catalogue
  <2>3. ThreadsTyped' /\ OutputTyped' /\ CatalogueTyped' /\ \A d \in Drive : HasTape(d)'
    BY <1>4, <2>1, <2>2 DEF ThreadsTyped, OutputTyped, CatalogueTyped, HasTape, Kind,
       threads, locals, output, history
  <2>. QED
    BY <1>3, <2>3 DEF Typed
<1>7. CASE Crash
  <2>1. OutputTyped' /\ spoiled' \subseteq Request
    <3>1. CASE UNCHANGED <<output, spoiled>>
      BY <1>4, <3>1 DEF output, OutputTyped, ThreadsTyped
    <3>2. ASSUME NEW d \in Drive, pc[d] = "copy", work[d] # <<>>, Cuts(d)
          PROVE  OutputTyped' /\ spoiled' \subseteq Request
      <4>1. task[d].request \in Request
        BY <1>4, <3>2, RunType DEF HasTape, IInv
      <4>2. spoiled' \subseteq spoiled \cup {task[d].request}
        BY <3>2 DEF Cuts
      <4>. QED
        BY <1>4, <3>2, <4>1, <4>2, CopiesTyped DEF Typed, ThreadsTyped
    <3>. QED
      BY <1>7, <3>1, <3>2 DEF Crash
  <2>2. CatalogueTyped' /\ \A d \in Drive : HasTape(d)'
    BY <1>4, <1>7 DEF Crash, CatalogueTyped, catalogue, HasTape
  <2>3. /\ pc' = [d \in Drive |-> "idle"]
        /\ tape' = [d \in Drive |-> NoTape] /\ slot' = [d \in Drive |-> NoSlot]
        /\ todo' = [d \in Drive |-> <<>>] /\ work' = [d \in Drive |-> <<>>]
        /\ outcome' = [d \in Drive |-> "clean"]
        /\ cancelled' = [d \in Drive |-> FALSE]
        /\ UNCHANGED <<starts, unmade, reported>>
    BY <1>7 DEF Crash
  <2>4. ThreadsTyped'
    <3>1. <<>> \in Seq(Tape) /\ <<>> \in Seq(Datum)
      OBVIOUS
    <3>. QED
      BY <1>4, <2>1, <2>3, <3>1 DEF ThreadsTyped
  <2>. QED
    BY <1>3, <2>1, <2>2, <2>4 DEF Typed
<1>. QED
  BY <1>5, <1>6, <1>7 DEF Next, DriveStep, OperatorStep
-----------------------------------------------------------------------------
(* What a run has brought back. *)

RunsFor(d, r) == Kind(d) = "restore" /\ task[d].request = r
UnderWay == {"next", "load", "mount", "copy", "unmount", "unload", "finish"}
Comes == {"load", "mount", "copy"}

(* The spans of a request that a run with the tapes q and the files w      *)
(* still before it has come to.                                            *)
CameTo(r, q, w) ==
  {s \in Collected(r) : Row[s].tape \notin Range(q) /\ Wanted(s) \notin Range(w)}

(* Where the plan says it is: the tapes to come are the last of the plan,  *)
(* and the files to copy the last of those on tape t, the one before them. *)
Position(r, q, w, t) ==
  LET n == Len(Plan[r]) - Len(q)
  IN /\ Suffix(q, Plan[r])
     /\ w = <<>> \/ (n > 0 /\ t = Plan[r][n] /\ Suffix(w, FilesOn[r][t]))

(* The copy q of a file of which the parts S have been come to: they are   *)
(* all there, in order, and it has no other.                               *)
EntriesSound(q, c) ==
  \A i \in DOMAIN q :
    /\ Row[q[i].span].part = i
    /\ q[i].is # "cut"
    /\ Whole(c) /\ Row[q[i].span].hashed => q[i].is = "good"
Rebuilt(q, S, c) ==
  S # {} =>
    /\ \E s \in S : Len(q) = Row[s].part /\ \A u \in S : Row[u].part <= Row[s].part
    /\ EntriesSound(q, c)

(* A run for r at place a of the thread with the tapes q to come, the      *)
(* files w to copy and tape t is where the plan says it is, and what it    *)
(* has come to is among the restored frames and files.                     *)
OnPlan(r, a, q, w, t, frames, files) ==
  /\ Position(r, q, w, t)
  /\ IF a \in Comes
     THEN Len(q) < Len(Plan[r]) /\ t = Plan[r][Len(Plan[r]) - Len(q)]
     ELSE w = <<>>
  /\ a = "finish" => q = <<>>
  /\ \A s \in CameTo(r, q, w) : IsSequence(s) => \E k \in frames : k.span = s
  /\ InOrder(r) => \A c \in Selected[r] \cap Files :
                     Rebuilt(files[c], CameTo(r, q, w) \cap Parts(c), c)

(* A run that has met no problem is on the plan. *)
RunSound(d) ==
  LET r == task[d].request IN
  /\ pc[d] \in UnderWay => status[r] = "in_progress"
  /\ pc[d] \in Comes => at[d] = d
  /\ pc[d] = "copy" => d \in mounted /\ In(d) = {tape[d]}
  /\ pc[d] \in UnderWay /\ outcome[d] = "clean" =>
       OnPlan(r, pc[d], todo[d], work[d], tape[d], folder[r], joined[r])

(* A request of which no run was spoilt has one run at most, and no frame  *)
(* that was cut.                                                           *)
RequestSound(r) ==
  /\ \A d, e \in Drive : RunsFor(d, r) /\ RunsFor(e, r) => d = e
  /\ \A k \in folder[r] : k.is # "cut"
  /\ status[r] = "completed" /\ InOrder(r) => IsWhole(r)
  /\ \A d \in Drive : RunsFor(d, r) => RunSound(d)

RestoresSound ==
  /\ \A d \in Drive : pc[d] \in {"idle", "begin"} => work[d] = <<>>
  /\ \A r \in Request \ spoiled : RequestSound(r)

LEMMA WantedTellsSpan ==
  ASSUME NEW s \in Span, NEW u \in Span, Wanted(s) = Wanted(u)
  PROVE  s = u
BY WantedIsData

LEMMA BeforeLaws ==
  /\ \A s \in Span : ~Before(s, s)
  /\ \A s, u \in Span : Row[s].content = Row[u].content /\ Row[u].part < Row[s].part
                       => ~Before(s, u)
<1>1. \A s \in Span : Row[s].content \in Nat /\ Row[s].part \in Nat
  BY SpanType
<1>. QED
  BY <1>1 DEF Before

(* The position of a tape in the plan tells whether a run has come to it,  *)
(* and so does that of a file among those of its tape.                     *)
LEMMA Placement ==
  ASSUME NEW r \in Request, NEW q \in Seq(Tape), NEW w \in Seq(Datum), NEW t, Position(r, q, w, t)
  PROVE  /\ \A k \in DOMAIN Plan[r] :
              Plan[r][k] \in Range(q) <=> k > Len(Plan[r]) - Len(q)
         /\ w # <<>> => \A k \in DOMAIN FilesOn[r][t] :
              FilesOn[r][t][k] \in Range(w) <=> k > Len(FilesOn[r][t]) - Len(w)
         /\ w # <<>> => t \in Tape
<1>1. PICK p, f : p = Plan[r] /\ f = FilesOn[r][t]
  OBVIOUS
<1>2. /\ p \in Seq(Tape) /\ Len(p) \in Nat /\ DOMAIN p = 1 .. Len(p)
      /\ \A i, k \in DOMAIN p : p[i] = p[k] => i = k
  BY <1>1, PlanType, LenProperties
<1>3. Suffix(q, p)
  BY <1>1 DEF Position
<1>4. \A k \in DOMAIN p : p[k] \in Range(q) <=> k > Len(p) - Len(q)
  BY <1>2, <1>3, SuffixHolds
<1>5. ASSUME w # <<>>
      PROVE  /\ t \in Tape
             /\ \A k \in DOMAIN f : f[k] \in Range(w) <=> k > Len(f) - Len(w)
  <2>1. Len(p) - Len(q) > 0 /\ t = p[Len(p) - Len(q)] /\ Suffix(w, f)
    BY <1>1, <1>5 DEF Position
  <2>2. t \in Tape
    <3>1. Len(q) \in Nat
      BY LenProperties
    <3>2. Len(p) - Len(q) \in 1 .. Len(p)
      BY <1>2, <2>1, <3>1
    <3>. QED
      BY <1>2, <2>1, <3>2, ElementOfSeq
  <2>3. f \in Seq(Datum) /\ \A i, k \in DOMAIN f : f[i] = f[k] => i = k
    BY <1>1, <2>2, FilesType DEF ListsFiles
  <2>. QED
    BY <2>1, <2>2, <2>3, SuffixHolds
<1>. QED
  BY <1>1, <1>4, <1>5

(* Whoever has come to a part of a file has come to those before it. *)
LEMMA EarlierParts ==
  ASSUME NEW r \in Request, NEW q \in Seq(Tape), NEW w \in Seq(Datum), NEW t, Position(r, q, w, t),
         InOrder(r), NEW c \in Selected[r] \cap Files,
         NEW s \in CameTo(r, q, w) \cap Parts(c), NEW u \in Parts(c), Row[u].part < Row[s].part
  PROVE  u \in CameTo(r, q, w)
<1>1. PICK p, n : p = Plan[r] /\ n = Len(p) - Len(q)
  OBVIOUS
<1>2. /\ p \in Seq(Tape) /\ Len(p) \in Nat /\ DOMAIN p = 1 .. Len(p) /\ Range(p) = TapesNeeded(r)
      /\ Len(q) \in Nat /\ n \in Int
  BY <1>1, PlanType, LenProperties
<1>3. /\ s \in Collected(r) /\ u \in Collected(r) /\ s \in Span /\ u \in Span
      /\ Row[s].content = c /\ Row[u].content = c
      /\ Row[s].tape \notin Range(q) /\ Wanted(s) \notin Range(w)
  BY DEF CameTo, Collected, Parts
<1>4. PICK i \in DOMAIN p, k \in DOMAIN p : p[i] = Row[s].tape /\ p[k] = Row[u].tape
  <2>1. Row[s].tape \in Range(p) /\ Row[u].tape \in Range(p)
    BY <1>2, <1>3 DEF TapesNeeded
  <2>. QED
    BY <2>1 DEF Range
<1>5. k <= i /\ ~(i > n)
  <2>1. k <= i
    BY <1>1, <1>3, <1>4 DEF InOrder
  <2>. QED
    BY <1>1, <1>3, <1>4, <2>1, Placement
<1>6. Row[u].tape \notin Range(q)
  <2>1. ~(k > n)
    BY <1>2, <1>4, <1>5
  <2>. QED
    BY <1>1, <1>4, <2>1, Placement
<1>7. Wanted(u) \notin Range(w)
  <2> SUFFICES ASSUME Wanted(u) \in Range(w) PROVE FALSE
    OBVIOUS
  <2>1. PICK f : f = FilesOn[r][t]
    OBVIOUS
  <2>2. w # <<>> /\ n > 0 /\ t = p[n] /\ Suffix(w, f) /\ t \in Tape
    <3>1. w # <<>>
      BY DEF Range
    <3>. QED
      BY <1>1, <2>1, <3>1, Placement DEF Position
  <2>3. /\ f \in Seq(Datum) /\ Len(f) \in Nat /\ DOMAIN f = 1 .. Len(f)
        /\ \A j \in DOMAIN f : f[j].span \in SpansFrom(r, t)
        /\ \A x \in SpansFrom(r, t) : \E j \in DOMAIN f : f[j] = Wanted(x)
        /\ \A j, l \in DOMAIN f : j < l => Before(f[j].span, f[l].span)
    <3>1. /\ f \in Seq(Datum)
          /\ \A j \in DOMAIN f : f[j].span \in SpansFrom(r, t)
          /\ \A x \in SpansFrom(r, t) : \E j \in DOMAIN f : f[j] = Wanted(x)
          /\ \A j, l \in DOMAIN f : j < l => Before(f[j].span, f[l].span)
      <4>1. f = FilesOn[r][t] /\ t \in Tape
        BY <2>1, <2>2
      <4>. QED
        BY <4>1, FilesType DEF ListsFiles
    <3>. QED
      BY <3>1, LenProperties
  <2>4. Range(w) \subseteq Range(f) /\ Len(w) \in Nat
    <3>1. /\ Len(w) \in Nat /\ DOMAIN w = 1 .. Len(w) /\ Len(w) <= Len(f)
          /\ \A j \in 1 .. Len(w) : w[j] = f[Len(f) - Len(w) + j]
      BY <2>2, LenProperties DEF Suffix
    <3>2. \A j \in 1 .. Len(w) : Len(f) - Len(w) + j \in DOMAIN f
      BY <2>3, <3>1
    <3>. QED
      BY <3>1, <3>2 DEF Range
  <2>5. PICK l \in DOMAIN f : f[l] = Wanted(u)
    BY <2>4 DEF Range
  <2>6. f[l].span = u /\ Row[u].tape = t
    <3>1. f[l].span = u
      BY <1>3, <2>5, WantedIsData
    <3>. QED
      BY <2>3, <3>1 DEF SpansFrom
  <2>7. n \in DOMAIN p /\ k = n
    <3>1. n \in DOMAIN p
      BY <1>1, <1>2, <2>2
    <3>. QED
      BY <1>1, <1>4, <2>2, <2>6, <3>1, PlanType
  <2>8. i = n /\ Row[s].tape = t
    BY <1>2, <1>4, <1>5, <2>2, <2>7
  <2>9. PICK j \in DOMAIN f : f[j] = Wanted(s)
    BY <1>3, <2>3, <2>8 DEF SpansFrom
  <2>10. f[j].span = s
    BY <1>3, <2>9, WantedIsData
  <2>11. ~(j > Len(f) - Len(w)) /\ l > Len(f) - Len(w)
    BY <1>3, <2>1, <2>2, <2>5, <2>9, Placement
  <2>12. Before(s, u)
    BY <2>3, <2>4, <2>6, <2>10, <2>11
  <2>. QED
    BY <1>3, <2>12, BeforeLaws
<1>. QED
  BY <1>3, <1>6, <1>7 DEF CameTo
-----------------------------------------------------------------------------
(* A run follows its plan. *)

(* It begins with all tapes before it. *)
LEMMA PlanBegins ==
  ASSUME NEW r \in Request, NEW t, NEW frames, NEW files
  PROVE  OnPlan(r, "next", Plan[r], <<>>, t, frames, files)
<1>1. PICK p : p = Plan[r]
  OBVIOUS
<1>2. p \in Seq(Tape) /\ Range(p) = TapesNeeded(r)
  BY <1>1, PlanType
<1>3. Len(p) \in Nat
  BY <1>2, LenProperties
<1>4. Position(r, p, <<>>, t)
  BY <1>1, <1>3 DEF Position, Suffix
<1>5. CameTo(r, p, <<>>) = {}
  BY <1>2 DEF CameTo, TapesNeeded
<1>6. \A c : Rebuilt(files[c], CameTo(r, p, <<>>) \cap Parts(c), c)
  BY <1>5 DEF Rebuilt
<1>. QED
  BY <1>1, <1>4, <1>5, <1>6 DEF OnPlan, Comes

(* The next tape has been come to only when its files are copied. *)
LEMMA PlanGoesOn ==
  ASSUME NEW r \in Request, NEW q \in Seq(Tape), q # <<>>, NEW w, NEW t, NEW frames, NEW files,
         OnPlan(r, "next", q, w, t, frames, files), NEW a \in {"load", "mount"}
  PROVE  OnPlan(r, a, Tail(q), FilesOn[r][Head(q)], Head(q), frames, files)
<1>1. PICK p, h, f, rest : p = Plan[r] /\ h = Head(q) /\ f = FilesOn[r][h] /\ rest = Tail(q)
  OBVIOUS
<1>2. /\ p \in Seq(Tape) /\ Len(p) \in Nat /\ h \in Tape /\ rest \in Seq(Tape)
      /\ Range(q) = {h} \cup Range(rest) /\ Len(rest) \in Nat /\ Suffix(q, p)
  BY <1>1, PlanType, LenProperties, TakingHead DEF OnPlan, Position
<1>3. /\ Suffix(rest, p) /\ Len(p) - Len(rest) \in DOMAIN p /\ h = p[Len(p) - Len(rest)]
  <2>1. /\ Suffix(Tail(q), p) /\ Len(p) - Len(Tail(q)) = Len(p) - Len(q) + 1
        /\ Len(p) - Len(q) + 1 \in DOMAIN p /\ Head(q) = p[Len(p) - Len(q) + 1]
    BY <1>2, TakingSuffix
  <2>. QED
    BY <1>1, <2>1
<1>4. ListsFiles(f, r, h)
  BY <1>1, <1>2, FilesType
<1>5. Len(f) \in Nat
  BY <1>4, LenProperties DEF ListsFiles
<1>6. Len(p) - Len(rest) > 0
  <2>1. DOMAIN p = 1 .. Len(p)
    BY <1>2, LenProperties
  <2>. QED
    BY <1>3, <2>1
<1>7. Position(r, rest, f, h)
  <2>1. Suffix(f, f)
    BY <1>5 DEF Suffix
  <2>. QED
    BY <1>1, <1>3, <1>6, <2>1 DEF Position
<1>8. w = <<>>
  BY DEF OnPlan, Comes
<1>9. CameTo(r, rest, f) = CameTo(r, q, w)
  <2>1. \A s \in Collected(r) : Wanted(s) \in Range(f) <=> Row[s].tape = h
    <3>. TAKE s \in Collected(r)
    <3>1. s \in Span
      BY DEF Collected
    <3>2. ASSUME Row[s].tape = h PROVE Wanted(s) \in Range(f)
      BY <1>4, <3>2 DEF ListsFiles, SpansFrom, Range
    <3>3. ASSUME NEW i \in DOMAIN f, f[i] = Wanted(s) PROVE Row[s].tape = h
      <4>1. f[i].span = s
        BY <3>1, <3>3, WantedIsData
      <4>. QED
        BY <1>4, <4>1 DEF ListsFiles, SpansFrom
    <3>. QED
      BY <3>2, <3>3 DEF Range
  <2>2. Range(w) = {}
    BY <1>8 DEF Range
  <2>. QED
    BY <1>2, <2>1, <2>2 DEF CameTo
<1>10. Len(rest) < Len(p)
  BY <1>2, <1>6
<1>11. /\ \A s \in CameTo(r, q, w) : IsSequence(s) => \E k \in frames : k.span = s
       /\ InOrder(r) => \A c \in Selected[r] \cap Files :
                     Rebuilt(files[c], CameTo(r, q, w) \cap Parts(c), c)
  BY DEF OnPlan
<1>12. OnPlan(r, a, rest, f, h, frames, files)
  BY <1>1, <1>3, <1>7, <1>9, <1>10, <1>11 DEF OnPlan, Comes
<1>. QED
  BY <1>1, <1>12

(* A file that is copied is the next one come to. *)
LEMMA FileComesNext ==
  ASSUME NEW r \in Request, NEW q \in Seq(Tape), NEW w \in Seq(Datum), w # <<>>, NEW t,
         Position(r, q, w, t), NEW u, u = Head(w).span
  PROVE  /\ u \in Collected(r) /\ Row[u].tape = t /\ u \notin CameTo(r, q, w)
         /\ CameTo(r, q, Tail(w)) = CameTo(r, q, w) \cup {u}
         /\ Position(r, q, Tail(w), t) /\ Tail(w) \in Seq(Datum)
<1>1. PICK p, n, f, rest : /\ p = Plan[r] /\ n = Len(p) - Len(q) /\ f = FilesOn[r][t]
                           /\ rest = Tail(w)
  OBVIOUS
<1>2. t \in Tape /\ n > 0 /\ t = p[n] /\ Suffix(w, f) /\ Suffix(q, p)
  BY <1>1, Placement DEF Position
<1>3. /\ f \in Seq(Datum) /\ \A i, k \in DOMAIN f : f[i] = f[k] => i = k
      /\ \A i \in DOMAIN f : f[i].span \in SpansFrom(r, t) /\ f[i] = Wanted(f[i].span)
  <2>1. ListsFiles(f, r, t)
    BY <1>1, <1>2, FilesType
  <2>. QED
    BY <2>1 DEF ListsFiles
<1>4. /\ Suffix(rest, f) /\ rest \in Seq(Datum) /\ Range(w) = {Head(w)} \cup Range(rest)
      /\ Len(f) - Len(rest) \in DOMAIN f /\ Head(w) = f[Len(f) - Len(rest)]
  <2>1. /\ Suffix(Tail(w), f) /\ Len(f) - Len(Tail(w)) = Len(f) - Len(w) + 1
        /\ Len(f) - Len(w) + 1 \in DOMAIN f /\ Head(w) = f[Len(f) - Len(w) + 1]
    BY <1>2, <1>3, TakingSuffix
  <2>2. Tail(w) \in Seq(Datum) /\ Range(w) = {Head(w)} \cup Range(Tail(w))
    BY TakingHead
  <2>. QED
    BY <1>1, <2>1, <2>2
<1>5. Head(w) = Wanted(u) /\ u \in SpansFrom(r, t)
  BY <1>3, <1>4
<1>6. u \in Collected(r) /\ u \in Span /\ Row[u].tape = t
  BY <1>5, SpansFromType DEF SpansFrom
<1>7. Wanted(u) \notin Range(rest)
  <2>1. Len(rest) \in Nat /\ Len(f) \in Nat
    BY <1>3, <1>4, LenProperties
  <2>2. ~(Len(f) - Len(rest) > Len(f) - Len(rest))
    BY <2>1
  <2>. QED
    BY <1>3, <1>4, <1>5, <2>2, SuffixHolds
<1>8. t \notin Range(q)
  <2>1. p \in Seq(Tape) /\ Len(p) \in Nat /\ DOMAIN p = 1 .. Len(p) /\ Len(q) \in Nat
    BY <1>1, PlanType, LenProperties
  <2>2. n \in DOMAIN p /\ ~(n > n)
    BY <1>1, <1>2, <2>1
  <2>. QED
    BY <1>1, <1>2, <2>2, Placement
<1>9. CameTo(r, q, rest) = CameTo(r, q, w) \cup {u}
  <2>1. \A s \in Collected(r) : Wanted(s) = Wanted(u) => s = u
    BY <1>6, WantedTellsSpan DEF Collected
  <2>. QED
    BY <1>4, <1>5, <1>6, <1>7, <1>8, <2>1 DEF CameTo
<1>10. Position(r, q, rest, t)
  BY <1>1, <1>2, <1>4 DEF Position
<1>11. u \notin CameTo(r, q, w)
  BY <1>4, <1>5 DEF CameTo
<1>. QED
  BY <1>1, <1>4, <1>6, <1>9, <1>10, <1>11

(* A sequence has been copied. *)
LEMMA PlanAfterFrames ==
  ASSUME NEW r \in Request, NEW q \in Seq(Tape), NEW w \in Seq(Datum), w # <<>>, NEW t,
         NEW frames, NEW files, OnPlan(r, "copy", q, w, t, frames, files),
         NEW u \in Span, u = Head(w).span, IsSequence(u),
         NEW more, frames \subseteq more, \E k \in more : k.span = u
  PROVE  OnPlan(r, "copy", q, Tail(w), t, more, files)
<1>1. PICK rest, S, T : rest = Tail(w) /\ S = CameTo(r, q, w) /\ T = CameTo(r, q, rest)
  OBVIOUS
<1>2. T = S \cup {u} /\ Position(r, q, rest, t)
  BY <1>1, FileComesNext DEF OnPlan
<1>3. \A s \in T : IsSequence(s) => \E k \in more : k.span = s
  BY <1>1, <1>2 DEF OnPlan
<1>4. \A c \in Files : T \cap Parts(c) = S \cap Parts(c)
  <2>1. \A c \in Files : u \notin Parts(c)
    BY DEF Files, Sequences
  <2>. QED
    BY <1>2, <2>1
<1>5. InOrder(r) => \A c \in Selected[r] \cap Files : Rebuilt(files[c], T \cap Parts(c), c)
  BY <1>1, <1>4 DEF OnPlan
<1>6. Len(q) < Len(Plan[r]) /\ t = Plan[r][Len(Plan[r]) - Len(q)]
  BY DEF OnPlan, Comes
<1>. QED
  BY <1>1, <1>2, <1>3, <1>5, <1>6 DEF OnPlan, Comes

(* Rows of a content are told apart by their parts. *)
LEMMA PartsType ==
  ASSUME NEW c
  PROVE  /\ Parts(c) \subseteq Span /\ Cardinality(Parts(c)) \in Nat
         /\ \A s \in Parts(c) : Row[s].content = c /\ Row[s].part \in Nat \ {0}
         /\ \A s, u \in Parts(c) : Row[s].part = Row[u].part => s = u
<1>1. Parts(c) \subseteq Span
  BY DEF Parts
<1>2. Cardinality(Parts(c)) \in Nat
  BY <1>1, SpanType, FS_Subset, FS_CardinalityType
<1>3. \A s \in Parts(c) : Row[s].content = c /\ Row[s].part \in Nat \ {0}
  BY SpanType DEF Parts
<1>. QED
  BY <1>1, <1>2, <1>3, Rows

(* S has, with a part of file c, those before it. *)
FromFirst(S, c) ==
  S \subseteq Parts(c) /\ \A s \in S, v \in Parts(c) : Row[v].part < Row[s].part => v \in S

(* A file with the next part k: the first one begins it anew. *)
Extended(q, c, k) ==
  IF Whole(c) \/ Row[k.span].part = 1 THEN <<k>> ELSE Append(q, k)

(* The next part of a file is appended to those before it. *)
LEMMA NextPart ==
  ASSUME NEW c, NEW S, NEW T, NEW u \in Parts(c), u \notin S, T = S \cup {u},
         {Row[s].part : s \in Parts(c)} = 1 .. Cardinality(Parts(c)),
         FromFirst(S, c), FromFirst(T, c),
         NEW q \in Seq(Pieces), Rebuilt(q, S, c),
         NEW k \in Pieces, k.span = u, k.is # "cut",
         Whole(c) /\ Row[u].hashed => k.is = "good"
  PROVE  Rebuilt(Extended(q, c, k), T, c)
<1>0. PICK copy : copy = Extended(q, c, k)
  OBVIOUS
<1>1. PICK n : n = Row[u].part
  OBVIOUS
<1>2. /\ n \in Nat \ {0} /\ Cardinality(Parts(c)) \in Nat /\ n <= Cardinality(Parts(c))
      /\ \A s \in Parts(c) : Row[s].part \in Nat \ {0}
      /\ \A s, v \in Parts(c) : Row[s].part = Row[v].part => s = v
  <2>1. n \in 1 .. Cardinality(Parts(c))
    BY <1>1
  <2>. QED
    BY <1>1, <2>1, PartsType
<1>3. \A s \in S : Row[s].part < n
  <2>. SUFFICES ASSUME NEW s \in S, ~(Row[s].part < n) PROVE FALSE
    OBVIOUS
  <2>1. s \in Parts(c) /\ s # u
    BY DEF FromFirst
  <2>2. n < Row[s].part
    BY <1>1, <1>2, <2>1
  <2>. QED
    BY <1>1, <2>2 DEF FromFirst
<1>4. \A s \in T : Row[s].part <= n
  BY <1>1, <1>2, <1>3 DEF FromFirst
<1>5. CASE Whole(c) \/ n = 1
  <2>1. n = 1
    BY <1>2, <1>5 DEF Whole
  <2>2. copy = <<k>> /\ Len(copy) = 1 /\ DOMAIN copy = {1} /\ copy[1] = k
    BY <1>0, <1>1, <1>5 DEF Extended
  <2>3. EntriesSound(copy, c)
    BY <1>1, <2>1, <2>2 DEF EntriesSound
  <2>4. u \in T /\ Len(copy) = Row[u].part /\ \A s \in T : Row[s].part <= Row[u].part
    BY <1>1, <1>4, <2>1, <2>2
  <2>. QED
    BY <1>0, <2>3, <2>4 DEF Rebuilt
<1>6. CASE ~Whole(c) /\ n # 1
  <2>1. n - 1 \in 1 .. Cardinality(Parts(c)) /\ n - 1 < n
    BY <1>2, <1>6
  <2>2. PICK v \in Parts(c) : Row[v].part = n - 1
    BY <2>1
  <2>3. v \in S
    <3>1. v \in T
      BY <1>1, <2>1, <2>2 DEF FromFirst
    <3>. QED
      BY <1>1, <2>1, <2>2, <3>1
  <2>4. PICK s \in S : Len(q) = Row[s].part /\ \A z \in S : Row[z].part <= Row[s].part
    BY <2>3 DEF Rebuilt
  <2>5. EntriesSound(q, c)
    BY <2>3 DEF Rebuilt
  <2>6. Len(q) = n - 1
    <3>1. Row[s].part \in Nat /\ Row[s].part < n /\ n - 1 <= Row[s].part
      BY <1>2, <1>3, <2>2, <2>3, <2>4 DEF FromFirst
    <3>. QED
      BY <1>2, <2>4, <3>1
  <2>7. /\ copy = Append(q, k) /\ Len(copy) = n /\ DOMAIN copy = 1 .. n /\ DOMAIN q = 1 .. n - 1
        /\ copy[n] = k /\ \A i \in 1 .. n - 1 : copy[i] = q[i]
    <3>1. copy = Append(q, k)
      BY <1>0, <1>1, <1>6 DEF Extended
    <3>2. /\ Append(q, k) \in Seq(Pieces) /\ Len(Append(q, k)) = Len(q) + 1
          /\ \A i \in 1 .. Len(q) : Append(q, k)[i] = q[i]
          /\ Append(q, k)[Len(q) + 1] = k
      BY AppendProperties
    <3>3. DOMAIN copy = 1 .. Len(copy) /\ DOMAIN q = 1 .. Len(q)
      BY <3>1, <3>2, LenProperties
    <3>4. Len(copy) = n
      BY <1>2, <2>6, <3>1, <3>2
    <3>. QED
      BY <1>2, <2>6, <3>1, <3>2, <3>3, <3>4
  <2>8. EntriesSound(copy, c)
    <3>. SUFFICES ASSUME NEW i \in DOMAIN copy
                  PROVE  /\ Row[copy[i].span].part = i /\ copy[i].is # "cut"
                         /\ Whole(c) /\ Row[copy[i].span].hashed => copy[i].is = "good"
      BY DEF EntriesSound
    <3>1. CASE i = n
      BY <1>1, <2>7, <3>1
    <3>2. CASE i # n
      <4>1. i \in 1 .. n - 1 /\ i \in DOMAIN q /\ copy[i] = q[i]
        BY <1>2, <2>7, <3>2
      <4>. QED
        BY <2>5, <4>1 DEF EntriesSound
    <3>. QED
      BY <3>1, <3>2
  <2>. QED
    BY <1>0, <1>1, <1>4, <2>7, <2>8 DEF Rebuilt
<1>. QED
  BY <1>0, <1>1, <1>5, <1>6

(* A file, or a part of one, has been copied. *)
Follows(files, after, c, k) ==
  after[c] = Extended(files[c], c, k) /\ \A b \in Files \ {c} : after[b] = files[b]

LEMMA PlanAfterFile ==
  ASSUME NEW r \in Request, NEW q \in Seq(Tape), NEW w \in Seq(Datum), w # <<>>, NEW t,
         NEW frames, NEW files \in [Files -> Seq(Pieces)],
         OnPlan(r, "copy", q, w, t, frames, files),
         NEW u \in Span, u = Head(w).span, ~IsSequence(u), NEW c \in Files, c = Row[u].content,
         NEW k \in Pieces, k.span = u, k.is # "cut",
         Whole(c) /\ Row[u].hashed => k.is = "good",
         NEW after, Follows(files, after, c, k)
  PROVE  OnPlan(r, "copy", q, Tail(w), t, frames, after)
<1>1. PICK rest, S, T : rest = Tail(w) /\ S = CameTo(r, q, w) /\ T = CameTo(r, q, rest)
  OBVIOUS
<1>2. /\ T = S \cup {u} /\ u \notin S /\ Position(r, q, rest, t) /\ Position(r, q, w, t)
      /\ rest \in Seq(Datum)
  BY <1>1, FileComesNext DEF OnPlan
<1>3. \A s \in T : IsSequence(s) => \E j \in frames : j.span = s
  BY <1>1, <1>2 DEF OnPlan
<1>4. after[c] = Extended(files[c], c, k) /\ \A b \in Files \ {c} : after[b] = files[b]
  BY DEF Follows
<1>5. ASSUME InOrder(r), NEW b \in Selected[r] \cap Files
      PROVE  Rebuilt(after[b], T \cap Parts(b), b)
  <2>1. Rebuilt(files[b], S \cap Parts(b), b)
    BY <1>1, <1>5 DEF OnPlan
  <2>2. CASE b # c
    <3>1. T \cap Parts(b) = S \cap Parts(b)
      BY <1>2, <2>2 DEF Parts
    <3>. QED
      BY <1>4, <2>1, <2>2, <3>1
  <2>3. CASE b = c
    <3>1. PICK A, B : A = S \cap Parts(c) /\ B = T \cap Parts(c)
      OBVIOUS
    <3>2. u \in Parts(c) /\ u \notin A /\ B = A \cup {u}
      BY <1>2, <3>1 DEF Parts
    <3>3. {Row[s].part : s \in Parts(c)} = 1 .. Cardinality(Parts(c))
      BY <1>5, <2>3 DEF InOrder
    <3>4. ASSUME NEW s \in A, NEW v \in Parts(c), Row[v].part < Row[s].part PROVE v \in A
      BY <1>1, <1>2, <1>5, <2>3, <3>1, <3>4, EarlierParts
    <3>5. ASSUME NEW s \in B, NEW v \in Parts(c), Row[v].part < Row[s].part PROVE v \in B
      BY <1>1, <1>2, <1>5, <2>3, <3>1, <3>5, EarlierParts
    <3>6. FromFirst(A, c) /\ FromFirst(B, c)
      BY <3>1, <3>4, <3>5 DEF FromFirst
    <3>7. Rebuilt(files[c], A, c) /\ files[c] \in Seq(Pieces)
      BY <2>1, <2>3, <3>1
    <3>8. Rebuilt(Extended(files[c], c, k), B, c)
      BY <3>2, <3>3, <3>6, <3>7, NextPart
    <3>9. after[b] = Extended(files[c], c, k) /\ T \cap Parts(b) = B
      BY <1>4, <2>3, <3>1
    <3>. QED
      BY <2>3, <3>8, <3>9
  <2>. QED
    BY <2>2, <2>3
<1>6. Len(q) < Len(Plan[r]) /\ t = Plan[r][Len(Plan[r]) - Len(q)]
  BY DEF OnPlan, Comes
<1>7. OnPlan(r, "copy", q, rest, t, frames, after)
  BY <1>1, <1>2, <1>3, <1>5, <1>6 DEF OnPlan, Comes
<1>. QED
  BY <1>1, <1>7

(* At the end of the plan all is there. *)
LEMMA PlanIsDone ==
  ASSUME NEW r \in Request, NEW t, OnPlan(r, "finish", <<>>, <<>>, t, folder[r], joined[r]),
         \A k \in folder[r] : k.is # "cut", InOrder(r)
  PROVE  IsWhole(r)
<1>1. CameTo(r, <<>>, <<>>) = Collected(r)
  BY DEF CameTo, Range
<1>2. \A s \in Collected(r) : IsSequence(s) => \E k \in folder[r] : k.span = s
  BY <1>1 DEF OnPlan
<1>3. \A c \in Selected[r] \cap Files : Rebuilt(joined[r][c], Collected(r) \cap Parts(c), c)
  BY <1>1 DEF OnPlan
<1>4. ASSUME NEW c \in Selected[r], c \in Sequences, NEW s \in Parts(c)
      PROVE  \E k \in folder[r] : k.span = s /\ k.is # "cut"
  <2>1. PICK u \in Parts(c) : IsSequence(u)
    BY <1>4 DEF Sequences
  <2>2. s \in Collected(r) /\ IsSequence(s)
    BY <2>1, <1>4, Rows DEF Parts, IsSequence, Collected
  <2>. QED
    BY <1>2, <2>2
<1>5. ASSUME NEW c \in Selected[r], c \notin Sequences
      PROVE  /\ Len(joined[r][c]) = Cardinality(Parts(c))
             /\ EntriesSound(joined[r][c], c)
  <2>1. PICK P, q, n : P = Parts(c) /\ q = joined[r][c] /\ n = Cardinality(P)
    OBVIOUS
  <2>2. c \in Files /\ c \in Content
    BY <1>5, Selections DEF Files
  <2>3. Collected(r) \cap P = P
    BY <2>1 DEF Collected, Parts
  <2>4. Rebuilt(q, P, c) /\ {Row[s].part : s \in P} = 1 .. n
    BY <1>3, <1>5, <2>1, <2>2, <2>3 DEF InOrder
  <2>5. P # {}
    BY <2>1, <2>2 DEF Content, Parts
  <2>6. PICK s \in P : Len(q) = Row[s].part /\ \A u \in P : Row[u].part <= Row[s].part
    BY <2>4, <2>5 DEF Rebuilt
  <2>7. n \in Nat /\ Row[s].part \in 1 .. n
    BY <2>1, <2>4, PartsType
  <2>8. n \in 1 .. n
    BY <2>7
  <2>9. PICK u \in P : Row[u].part = n
    BY <2>4, <2>8
  <2>10. Len(q) = n
    BY <2>6, <2>7, <2>9
  <2>. QED
    BY <2>1, <2>4, <2>5, <2>10 DEF Rebuilt
<1>. QED
  BY <1>4, <1>5 DEF IsWhole, EntriesSound
-----------------------------------------------------------------------------
(* Runs stay sound. *)

LEMMA NotClean ==
  ASSUME Shaped, NEW d \in Drive, NEW how \in {"problem", "raised"}, Fails(d, how)
  PROVE  outcome'[d] # "clean"
BY DEF Shaped, Fails

LEMMA SpoiledStays ==
  ASSUME NEW d \in Drive, DriveStep(d)
  PROVE  spoiled \subseteq spoiled'
BY DEF DriveStep, ThreadStep, Start, BeginRestore, Begins, NoDestination, RefuseRestore, NextTape, LastTape,
   BeginVerify, Load, Mount, CopyMissing, CopyFrames, CopyFile, CopyFails, Cuts, CopyDone,
   Build, ReadsGood, ReadsWrong, ReadFails, Mark, Unmount, Unload, CannotUnload, Finish,
   Leave, Cancel, CallFails, Raises, Dies, Copies, Reads, bounds, history

(* A run that moves on where its plan allows. *)
LEMMA RunGoesOn ==
  ASSUME NEW d \in Drive, NEW r, RunsFor(d, r), RunSound(d), task'[d] = task[d],
         status[r] = "in_progress" => status'[r] = "in_progress",
         folder'[r] = folder[r], joined'[r] = joined[r], todo'[d] = todo[d],
         work'[d] = work[d], tape'[d] = tape[d], at'[d] = at[d],
         \/ pc'[d] \notin UnderWay
         \/ /\ pc[d] \in UnderWay
            /\ outcome'[d] = "clean" => outcome[d] = "clean"
            /\ \/ pc'[d] = pc[d] /\ In(d)' = In(d) /\ (d \in mounted => d \in mounted')
               \/ pc[d] \in Comes /\ pc'[d] = "mount"
               \/ pc[d] \in Comes /\ pc'[d] = "copy" /\ d \in mounted' /\ In(d)' = {tape[d]}
               \/ /\ pc'[d] \notin Comes
                  /\ outcome'[d] = "clean" => /\ pc[d] \notin Comes \/ work[d] = <<>>
                                              /\ pc'[d] = "finish" => todo[d] = <<>>
  PROVE  RunSound(d)'
<1>1. task[d].request = r /\ task'[d].request = r
  BY DEF RunsFor
<1>2. CASE pc'[d] \notin UnderWay
  BY <1>2 DEF RunSound, UnderWay, Comes
<1>3. CASE pc'[d] \in UnderWay
  <2>1. /\ pc[d] \in UnderWay /\ status'[r] = "in_progress"
        /\ outcome'[d] = "clean" => outcome[d] = "clean"
    BY <1>1, <1>3 DEF RunSound
  <2>2. pc'[d] \in Comes => at'[d] = d
    BY <1>3 DEF RunSound, Comes
  <2>3. pc'[d] = "copy" => d \in mounted' /\ In(d)' = {tape'[d]}
    BY <1>3 DEF RunSound, Comes
  <2>4. ASSUME outcome'[d] = "clean"
        PROVE  OnPlan(r, pc'[d], todo'[d], work'[d], tape'[d], folder'[r], joined'[r])
    <3>1. OnPlan(r, pc[d], todo[d], work[d], tape[d], folder[r], joined[r])
      BY <1>1, <2>1, <2>4 DEF RunSound
    <3>. QED
      BY <1>3, <2>4, <3>1 DEF OnPlan, Comes
  <2>. QED
    BY <1>1, <2>1, <2>2, <2>3, <2>4 DEF RunSound
<1>. QED
  BY <1>2, <1>3

(* A step of a thread that does not run a request leaves it alone, unless  *)
(* it begins a run: the only one, or the request is spoilt.                *)
LEMMA OthersRequests ==
  ASSUME Shaped, Typed, NEW d \in Drive, DriveSound(d), DriveStep(d),
         NEW r \in Request, ~RunsFor(d, r)
  PROVE  /\ status'[r] = status[r] /\ folder'[r] = folder[r] /\ joined'[r] = joined[r]
         /\ RunsFor(d, r)' => /\ pc'[d] = "begin"
                              /\ r \in spoiled' \/ \A e \in Drive : ~RunsFor(e, r)
<1>1. status'[r] = status[r]
  BY DEF DriveStep, ThreadStep, Start, BeginRestore, Begins, NoDestination, RefuseRestore, NextTape, LastTape,
     BeginVerify, Load, Mount, CopyMissing, CopyFrames, CopyFile, CopyFails, CopyDone,
     Build, ReadsGood, ReadsWrong, ReadFails, Mark, Unmount, Unload, CannotUnload, Finish,
     Leave, Cancel, CallFails, Raises, Dies, Copies, Reads, catalogue, Shaped, RunsFor
<1>2. folder'[r] = folder[r] /\ joined'[r] = joined[r]
  <2>1. CASE UNCHANGED output
    BY <2>1 DEF output
  <2>2. CASE CopyFrames(d) \/ CopyFile(d) \/ CopyFails(d)
    <3>1. Kind(d) = "restore"
      BY <2>2 DEF CopyFrames, CopyFile, CopyFails, Copies, Typed, HasTape
    <3>2. task[d].request # r /\ DOMAIN folder = Request /\ DOMAIN joined = Request
      BY <3>1 DEF RunsFor, Typed, TypeOK
    <3>3. ASSUME NEW s, NEW q, WritesFile(d, s, q)
          PROVE  folder'[r] = folder[r] /\ joined'[r] = joined[r]
      BY <3>2, <3>3 DEF WritesFile
    <3>4. ASSUME NEW chunks, WritesFrames(d, chunks)
          PROVE  folder'[r] = folder[r] /\ joined'[r] = joined[r]
      BY <3>2, <3>4 DEF WritesFrames
    <3>5. \/ \E s, q : WritesFile(d, s, q)
          \/ \E chunks : WritesFrames(d, chunks)
          \/ UNCHANGED output
      BY <2>2 DEF CopyFrames, CopyFile, CopyFails, Cuts
    <3>. QED
      BY <2>1, <3>3, <3>4, <3>5
  <2>. QED
    BY <2>1, <2>2 DEF DriveStep, ThreadStep, Start, BeginRestore, Begins, NoDestination, RefuseRestore, NextTape,
       LastTape, BeginVerify, Load, Mount, CopyMissing, CopyDone, Build, ReadsGood,
       ReadsWrong, ReadFails, Mark, Unmount, Unload, CannotUnload, Finish, Leave, Cancel,
       CallFails, Raises, Dies, Reads
<1>3. ASSUME RunsFor(d, r)'
      PROVE  /\ pc'[d] = "begin"
             /\ r \in spoiled' \/ \A e \in Drive : ~RunsFor(e, r)
  <2>1. task'[d] # task[d] /\ task'[d] # NoTask
    BY <1>3 DEF RunsFor, Kind, NoTask
  <2>2. PICK k \in Task : Start(d, k)
    BY <2>1 DEF DriveStep, ThreadStep, BeginRestore, Begins, NoDestination, RefuseRestore, NextTape, LastTape,
       BeginVerify, Load, Mount, CopyMissing, CopyFrames, CopyFile, CopyFails, CopyDone,
       Build, ReadsGood, ReadsWrong, ReadFails, Mark, Unmount, Unload, CannotUnload,
       Finish, Leave, Idles, Cancel, CallFails, Raises, Dies, Copies, Reads, threads, Shaped
  <2>3. task'[d] = k /\ pc'[d] = "begin"
    BY <2>2 DEF Start, Goto, Shaped
  <2>4. k.kind = "restore" /\ k.request = r
    BY <1>3, <2>3 DEF RunsFor, Kind
  <2>5. r \in spoiled' \/ Runs(r) = {}
    BY <2>2, <2>4 DEF Start
  <2>. QED
    BY <2>3, <2>5 DEF Runs, RunsFor
<1>. QED
  BY <1>1, <1>2, <1>3

(* A run's own moves.                                                      *)
LEMMA MovesOnPlan ==
  ASSUME Shaped, Typed, NEW d \in Drive, DriveSound(d), NEW r \in Request, RunsFor(d, r),
         RunSound(d), pc[d] = "begin" => work[d] = <<>>, r \notin spoiled',
         \/ BeginRestore(d) \/ NoDestination(d) \/ RefuseRestore(d) \/ NextTape(d) \/ LastTape(d) \/ Load(d)
         \/ Mount(d) \/ CopyDone(d) \/ Unmount(d) \/ Unload(d) \/ CannotUnload(d)
         \/ Cancel(d) \/ CallFails(d) \/ Raises(d) \/ Dies(d)
  PROVE  RunSound(d)'
<1>. USE DEF Shaped, Goto, catalogue, library, output, locals, threads, bounds, failures, history
<1>0. task[d].request = r /\ Kind(d) = "restore"
  BY DEF RunsFor
<1>1. ASSUME BeginRestore(d) PROVE RunSound(d)'
  <2>1. /\ task'[d] = task[d] /\ pc'[d] = "next" /\ status'[r] = "in_progress"
        /\ todo'[d] = Plan[r] /\ work'[d] = <<>> /\ tape'[d] = tape[d]
    BY <1>0, <1>1 DEF BeginRestore, Begins
  <2>2. OnPlan(r, "next", Plan[r], <<>>, tape'[d], folder'[r], joined'[r])
    BY PlanBegins
  <2>. QED
    BY <1>0, <2>1, <2>2 DEF RunSound, Comes
<1>1a. ASSUME NoDestination(d) PROVE RunSound(d)'
  <2>1. /\ task'[d] = task[d] /\ pc'[d] \notin UnderWay /\ status'[r] = "in_progress"
        /\ UNCHANGED <<output, todo, work, tape, at>>
    BY <1>0, <1>1a DEF NoDestination, Begins, UnderWay
  <2>. QED
    BY <2>1, RunGoesOn DEF output
<1>2. ASSUME RefuseRestore(d) PROVE RunSound(d)'
  BY <1>2, RunGoesOn DEF RefuseRestore, UnderWay
<1>3. ASSUME NextTape(d) PROVE RunSound(d)'
  <2>1. /\ task'[d] = task[d] /\ pc[d] = "next" /\ pc'[d] \in {"load", "mount"}
        /\ status' = status /\ folder' = folder /\ joined' = joined /\ outcome' = outcome
        /\ todo[d] # <<>> /\ todo'[d] = Tail(todo[d]) /\ tape'[d] = Head(todo[d])
        /\ work'[d] = FilesOn[r][Head(todo[d])] /\ at'[d] = d
    BY <1>0, <1>3 DEF NextTape
  <2>2. ASSUME outcome'[d] = "clean"
        PROVE  OnPlan(r, pc'[d], todo'[d], work'[d], tape'[d], folder'[r], joined'[r])
    <3>1. OnPlan(r, "next", todo[d], work[d], tape[d], folder[r], joined[r])
      BY <1>0, <2>1, <2>2 DEF RunSound, UnderWay
    <3>2. todo[d] \in Seq(Tape)
      BY DEF Typed, TypeOK
    <3>. QED
      BY <2>1, <3>1, <3>2, PlanGoesOn
  <2>3. status'[r] = "in_progress"
    BY <1>0, <2>1 DEF RunSound, UnderWay
  <2>. QED
    BY <1>0, <2>1, <2>2, <2>3 DEF RunSound, Comes
<1>4. ASSUME LastTape(d) PROVE RunSound(d)'
  <2>1. todo[d] = <<>>
    BY <1>0, <1>4 DEF LastTape
  <2>2. todo'[d] = todo[d] /\ pc[d] = "next" /\ pc'[d] = "finish"
    BY <1>4, <2>1 DEF LastTape
  <2>. QED
    BY <1>4, <2>1, <2>2, RunGoesOn DEF LastTape, UnderWay, Comes
<1>5. ASSUME Load(d) PROVE RunSound(d)'
  <2>1. /\ pc[d] = "load"
        /\ \/ pc'[d] = "mount" /\ outcome' = outcome
           \/ pc'[d] = "finish" /\ outcome'[d] # "clean"
    BY <1>5, NotClean DEF Load, Raise
  <2>. QED
    BY <1>5, <2>1, RunGoesOn DEF Load, UnderWay, Comes
<1>6. ASSUME Mount(d) PROVE RunSound(d)'
  <2>1. pc[d] = "mount" /\ at[d] = d
    BY <1>6 DEF Mount, RunSound, Comes
  <2>2. CASE pc'[d] = "copy" /\ outcome' = outcome
    <3>1. ~WrongTape(d) /\ d \in mounted'
      BY <1>0, <1>6, <2>1, <2>2 DEF Mount, Raise
    <3>2. In(d)' = {tape[d]}
      BY <1>6, <2>1, <3>1 DEF Mount, WrongTape, In
    <3>. QED
      BY <1>6, <2>1, <2>2, <3>1, <3>2, RunGoesOn DEF Mount, UnderWay, Comes
  <2>3. CASE pc'[d] = "finish" /\ outcome'[d] # "clean"
    BY <1>6, <2>1, <2>3, RunGoesOn DEF Mount, UnderWay, Comes
  <2>. QED
    BY <1>0, <1>6, <2>2, <2>3, NotClean DEF Mount, Raise
<1>7. ASSUME CopyDone(d) PROVE RunSound(d)'
  <2>1. work[d] = <<>>
    BY <1>0, <1>7 DEF CopyDone
  <2>2. work'[d] = work[d] /\ pc[d] = "copy" /\ pc'[d] = "unmount"
    BY <1>7, <2>1 DEF CopyDone
  <2>. QED
    BY <1>7, <2>1, <2>2, RunGoesOn DEF CopyDone, UnderWay, Comes
<1>8. ASSUME Unmount(d) PROVE RunSound(d)'
  <2>1. /\ pc[d] = "unmount" /\ pc'[d] = "unload"
        /\ outcome' = outcome \/ outcome'[d] # "clean"
    BY <1>8, NotClean DEF Unmount, CleanupNoted
  <2>. QED
    BY <1>8, <2>1, RunGoesOn DEF Unmount, UnderWay, Comes
<1>9. ASSUME Unload(d) PROVE RunSound(d)'
  <2>1. /\ pc[d] = "unload" /\ pc'[d] = AfterTape(d)
        /\ outcome' = outcome \/ outcome'[d] # "clean"
    BY <1>9, NotClean DEF Unload, CleanupNoted
  <2>2. /\ outcome'[d] = "clean" => outcome[d] = "clean" /\ pc'[d] = "next"
        /\ pc'[d] \in {"next", "finish"}
    <3>1. CASE outcome' = outcome
      BY <1>0, <2>1, <3>1 DEF AfterTape
    <3>2. CASE outcome'[d] # "clean"
      BY <1>0, <2>1, <3>2 DEF AfterTape
    <3>. QED
      BY <2>1, <3>1, <3>2
  <2>. QED
    BY <1>9, <2>1, <2>2, RunGoesOn DEF Unload, UnderWay, Comes
<1>10. ASSUME CannotUnload(d) PROVE RunSound(d)'
  BY <1>10, RunGoesOn DEF CannotUnload, UnderWay
<1>11. ASSUME Cancel(d) PROVE RunSound(d)'
  <2>1. In(d)' = In(d) /\ mounted' = mounted /\ pc' = pc /\ outcome' = outcome
    BY <1>11 DEF Cancel, In
  <2>. QED
    BY <1>11, <2>1, RunGoesOn DEF Cancel, UnderWay
<1>12. ASSUME CallFails(d) PROVE RunSound(d)'
  <2>1. pc[d] \in {"next", "load", "mount", "unmount", "unload"}
    BY <1>0, <1>12 DEF CallFails
  <2>2. outcome'[d] # "clean" /\ pc'[d] \in {"finish", "unload", "next"}
    BY <1>12, NotClean DEF CallFails, Raise, CleanupNoted, AfterTape
  <2>. QED
    BY <1>12, <2>1, <2>2, RunGoesOn DEF CallFails, UnderWay, Comes
<1>13. ASSUME Raises(d) PROVE RunSound(d)'
  <2>1. pc[d] = "copy" /\ pc'[d] = "unmount" /\ outcome'[d] # "clean"
    BY <1>0, <1>13, NotClean DEF Raises, DriveSound, ThreadSound
  <2>. QED
    BY <1>13, <2>1, RunGoesOn DEF Raises, UnderWay, Comes
<1>14. ASSUME Dies(d) PROVE RunSound(d)'
  <2>1. pc'[d] = "leave"
    BY <1>0, <1>14 DEF Dies, DriveSound, ThreadSound
  <2>. QED
    BY <1>14, <2>1, RunGoesOn DEF Dies, UnderWay
<1>. QED
  BY <1>1, <1>1a, <1>2, <1>3, <1>4, <1>5, <1>6, <1>7, <1>8, <1>9, <1>10, <1>11, <1>12, <1>13,
     <1>14

(* A run copies the next file. *)
LEMMA CopiesOnPlan ==
  ASSUME Shaped, Typed, NEW d \in Drive, NEW r \in Request, RunsFor(d, r), RunSound(d),
         CopyMissing(d) \/ CopyFrames(d) \/ CopyFile(d) \/ CopyFails(d)
  PROVE  RunSound(d)'
<1>0. /\ task[d].request = r /\ task' = task /\ pc[d] = "copy" /\ pc' = pc /\ status' = status
      /\ at' = at /\ todo' = todo /\ tape' = tape /\ mounted' = mounted /\ place' = place
      /\ work[d] # <<>> /\ work'[d] = Tail(work[d])
  BY DEF RunsFor, CopyMissing, CopyFrames, CopyFile, CopyFails, Copies, Shaped, catalogue, library
<1>1. /\ status[r] = "in_progress" /\ at[d] = d /\ d \in mounted /\ In(d) = {tape[d]}
      /\ outcome[d] = "clean" =>
           OnPlan(r, "copy", todo[d], work[d], tape[d], folder[r], joined[r])
  BY <1>0 DEF RunSound, UnderWay, Comes
<1>2. In(d)' = In(d)
  BY <1>0 DEF In
<1>3. SUFFICES ASSUME outcome'[d] = "clean"
               PROVE  OnPlan(r, "copy", todo[d], Tail(work[d]), tape[d], folder'[r], joined'[r])
  BY <1>0, <1>1, <1>2 DEF RunSound, UnderWay, Comes
<1>4. PICK u, q, w : u = Head(work[d]).span /\ q = todo[d] /\ w = work[d]
  OBVIOUS
<1>5. q \in Seq(Tape) /\ w \in Seq(Datum) /\ w # <<>> /\ u \in Span
  BY <1>0, <1>4, NextFile DEF Typed, TypeOK
<1>6. /\ folder \in [Request -> SUBSET Pieces] /\ joined \in [Request -> [Files -> Seq(Pieces)]]
  BY DEF Typed, TypeOK, Pieces, Quality
<1>7. CASE CopyFrames(d)
  <2>1. OnPlan(r, "copy", q, w, tape[d], folder[r], joined[r])
    BY <1>1, <1>3, <1>4, <1>7 DEF CopyFrames
  <2>2. u \in Collected(r) /\ Row[u].tape = tape[d]
    BY <1>4, <1>5, <2>1, FileComesNext DEF OnPlan
  <2>3. u \in Source(d)
    BY <1>1, <1>4, <1>5, <2>2 DEF Source
  <2>4. /\ folder'[r] = folder[r] \cup Copied(New(d)) /\ joined'[r] = joined[r]
        /\ IsSequence(u)
    BY <1>0, <1>4, <1>6, <1>7 DEF CopyFrames, WritesFrames
  <2>5. \E k \in folder'[r] : k.span = u
    <3>1. CASE u \in New(d)
      <4>1. Chunk(u, Reading(u)) \in folder'[r] /\ Chunk(u, Reading(u)).span = u
        BY <2>4, <3>1 DEF Copied, Chunk
      <4>. QED
        BY <4>1
    <3>2. CASE u \notin New(d)
      BY <1>0, <2>3, <2>4, <3>2 DEF New
    <3>. QED
      BY <3>1, <3>2
  <2>. QED
    BY <1>4, <1>5, <2>1, <2>4, <2>5, PlanAfterFrames
<1>8. CASE CopyFile(d)
  <2>1. PICK s \in Clear(d) :
          /\ WritesFile(d, s, Reading(s))
          /\ IF Mismatch(s) THEN Noted(d) ELSE UNCHANGED outcome
    BY <1>8 DEF CopyFile
  <2>2. ~IsSequence(u)
    BY <1>4, <1>8 DEF CopyFile
  <2>3. s = u /\ Row[u].content \in Files
    BY <1>4, <1>5, <2>2, SameKind DEF Clear, New
  <2>4. Reading(u) \in Health /\ Reading(u) # "unreadable"
    BY <1>5, <2>1, <2>3, ReadingType DEF Clear, Typed
  <2>5. PICK c, k : c = Row[u].content /\ k = Chunk(u, Reading(u))
    OBVIOUS
  <2>6. k \in Pieces /\ k.span = u /\ k.is = Reading(u) /\ k.is # "cut"
    BY <1>5, <2>4, <2>5 DEF Chunk, Pieces, Quality, Health
  <2>7. ~Mismatch(u) /\ outcome' = outcome
    BY <1>3, <2>1, <2>3, NotClean DEF Noted
  <2>8. Whole(c) /\ Row[u].hashed => k.is = "good"
    BY <2>4, <2>5, <2>6, <2>7 DEF Health, Mismatch
  <2>9. PICK t, frames, files, after :
          /\ t = tape[d] /\ frames = folder[r] /\ files = joined[r] /\ after = joined'[r]
    OBVIOUS
  <2>10. files \in [Files -> Seq(Pieces)] /\ c \in Files
    BY <1>6, <2>3, <2>5, <2>9
  <2>11. folder'[r] = frames /\ Follows(files, after, c, k)
    <3>1. Written(r, u, Reading(u)) = Extended(files[c], c, k)
      BY <2>5, <2>6, <2>9 DEF Written, Extended
    <3>2. folder'[r] = frames /\ joined'[r] = [joined[r] EXCEPT ![c] = Written(r, u, Reading(u))]
      BY <1>0, <1>6, <2>1, <2>3, <2>5, <2>9 DEF WritesFile
    <3>. QED
      BY <2>9, <2>10, <3>1, <3>2 DEF Follows
  <2>12. OnPlan(r, "copy", q, w, t, frames, files)
    BY <1>1, <1>3, <1>4, <2>7, <2>9
  <2>13. OnPlan(r, "copy", q, Tail(w), t, frames, after)
    BY <1>4, <1>5, <2>2, <2>5, <2>6, <2>8, <2>10, <2>11, <2>12, PlanAfterFile
  <2>. QED
    BY <1>4, <2>9, <2>11, <2>13
<1>9. CASE CopyMissing(d) \/ CopyFails(d)
  BY <1>3, <1>9, NotClean DEF CopyMissing, CopyFails, Noted
<1>. QED
  BY <1>7, <1>8, <1>9

(* No frame is cut in a run that does not spoil its request. *)
LEMMA FramesUncut ==
  ASSUME Typed, NEW d \in Drive, NEW r \in Request, task[d].request = r, work[d] # <<>>,
         CopyFrames(d) \/ CopyFile(d) \/ Cuts(d), r \notin spoiled',
         \A k \in folder[r] : k.is # "cut"
  PROVE  \A k \in folder'[r] : k.is # "cut"
<1>1. Head(work[d]).span \in Span
  BY NextFile DEF Typed
<1>2. \A s \in Clear(d) : Reading(s) # "cut"
  <2>1. \A s \in Clear(d) : Reading(s) \in Health
    BY <1>1, SameKind, ReadingType DEF Typed, Clear, New
  <2>. QED
    BY <2>1 DEF Health
<1>3. \A S \in SUBSET Clear(d) : \A k \in Copied(S) : k.is # "cut"
  BY <1>2 DEF Copied, Chunk
<1>4. \/ folder'[r] = folder[r]
      \/ \E S \in SUBSET Clear(d) : folder'[r] = folder[r] \cup Copied(S)
  <2>1. DOMAIN folder = Request
    BY DEF Typed, TypeOK
  <2>2. ASSUME NEW S \in SUBSET Clear(d), WritesFrames(d, Copied(S))
        PROVE  folder'[r] = folder[r] \cup Copied(S)
    BY <2>1, <2>2 DEF WritesFrames
  <2>3. CASE CopyFrames(d)
    BY <2>2, <2>3 DEF CopyFrames
  <2>4. CASE CopyFile(d)
    BY <2>4 DEF CopyFile, WritesFile
  <2>5. CASE Cuts(d)
    <3>1. \/ UNCHANGED folder
          \/ \E S \in SUBSET Clear(d) : WritesFrames(d, Copied(S))
      BY <2>5 DEF Cuts, output, WritesFile
    <3>. QED
      BY <2>2, <3>1
  <2>. QED
    BY <2>3, <2>4, <2>5
<1>. QED
  BY <1>3, <1>4

(* A thread that has no job, or has not begun, has nothing to copy. *)
LEMMA IdleWork ==
  ASSUME Shaped, NEW d \in Drive, DriveSound(d), DriveStep(d),
         pc[d] \in {"idle", "begin"} => work[d] = <<>>, pc'[d] \in {"idle", "begin"}
  PROVE  work'[d] = <<>>
<1>1. CASE pc[d] \in {"idle", "begin"}
  <2>1. work'[d] = work[d] \/ work'[d] = <<>>
    BY <1>1 DEF DriveStep, ThreadStep, Start, BeginRestore, Begins, NoDestination, RefuseRestore, NextTape, LastTape,
       BeginVerify, Load, Mount, CopyMissing, CopyFrames, CopyFile, CopyFails, CopyDone,
       Build, ReadsGood, ReadsWrong, ReadFails, Mark, Unmount, Unload, CannotUnload, Finish,
       Leave, Idles, Cancel, CallFails, Raises, Dies, Copies, Reads, locals, threads, Shaped
  <2>. QED
    BY <1>1, <2>1
<1>2. CASE pc[d] \notin {"idle", "begin"}
  <2>1. Live(d)
    BY <1>2 DEF DriveSound, ThreadSound
  <2>2. Finish(d) \/ Leave(d)
    BY <1>2, <2>1 DEF DriveStep, ThreadStep, Start, FreeDrives, BeginRestore, Begins, NoDestination, RefuseRestore,
       NextTape, LastTape, BeginVerify, Load, Mount, CopyMissing, CopyFrames, CopyFile,
       CopyFails, CopyDone, Build, ReadsGood, ReadsWrong, ReadFails, Mark, Unmount, Unload,
       CannotUnload, Cancel, CallFails, Raises, Dies, Copies, Reads, Raise, AfterTape, Goto,
       locals, threads, Shaped
  <2>. QED
    BY <2>2 DEF Finish, Leave, Idles, Shaped
<1>. QED
  BY <1>1, <1>2

(* The request of a run that makes a step. *)
LEMMA OwnRequest ==
  ASSUME Shaped, Typed, NEW d \in Drive, DriveSound(d), DriveStep(d), NEW r \in Request,
         RunsFor(d, r), r \notin spoiled', pc[d] = "begin" => work[d] = <<>>, RunSound(d),
         \A k \in folder[r] : k.is # "cut",
         status[r] = "completed" /\ InOrder(r) => IsWhole(r)
  PROVE  /\ RunsFor(d, r)' => RunSound(d)'
         /\ \A k \in folder'[r] : k.is # "cut"
         /\ status'[r] = "completed" /\ InOrder(r) => IsWhole(r)'
<1>0. task[d].request = r /\ Kind(d) = "restore" /\ Live(d) /\ task[d] # NoTask
  BY DEF RunsFor, Kind, Live, NoTask
<1>1. CASE \/ BeginRestore(d) \/ NoDestination(d) \/ RefuseRestore(d) \/ NextTape(d) \/ LastTape(d) \/ Load(d)
           \/ Mount(d) \/ CopyDone(d) \/ Unmount(d) \/ Unload(d) \/ CannotUnload(d)
           \/ Cancel(d) \/ CallFails(d) \/ Raises(d) \/ Dies(d)
  <2>1. RunSound(d)'
    BY <1>1, MovesOnPlan
  <2>2. UNCHANGED output /\ status'[r] \in {status[r], "in_progress"}
    BY <1>0, <1>1 DEF BeginRestore, Begins, NoDestination, RefuseRestore, NextTape, LastTape, Load, Mount, CopyDone,
       Unmount, Unload, CannotUnload, Cancel, CallFails, Raises, Dies, catalogue, Shaped
  <2>. QED
    BY <2>1, <2>2 DEF output, IsWhole
<1>2. CASE CopyMissing(d) \/ CopyFrames(d) \/ CopyFile(d) \/ CopyFails(d)
  <2>1. RunSound(d)'
    BY <1>2, CopiesOnPlan
  <2>2. status' = status /\ pc[d] = "copy" /\ work[d] # <<>>
    BY <1>2 DEF CopyMissing, CopyFrames, CopyFile, CopyFails, Copies, catalogue
  <2>3. status'[r] # "completed"
    BY <1>0, <2>2 DEF RunSound, UnderWay
  <2>4. \A k \in folder'[r] : k.is # "cut"
    <3>1. CASE CopyMissing(d)
      BY <3>1 DEF CopyMissing, output
    <3>2. CASE CopyFrames(d) \/ CopyFile(d) \/ CopyFails(d)
      BY <1>0, <2>2, <3>2, FramesUncut DEF CopyFails
    <3>. QED
      BY <1>2, <3>1, <3>2
  <2>. QED
    BY <2>1, <2>3, <2>4
<1>3. CASE Finish(d)
  <2>1. UNCHANGED output /\ task'[d] = NoTask /\ status'[r] = FinalStatus(d) /\ pc[d] = "finish"
    BY <1>0, <1>3 DEF Finish, Idles, Shaped
  <2>2. ASSUME status'[r] = "completed", InOrder(r) PROVE IsWhole(r)
    <3>1. outcome[d] = "clean"
      BY <2>1, <2>2 DEF FinalStatus
    <3>2. OnPlan(r, "finish", todo[d], work[d], tape[d], folder[r], joined[r])
      BY <1>0, <2>1, <3>1 DEF RunSound, UnderWay
    <3>3. todo[d] = <<>> /\ work[d] = <<>>
      BY <3>2 DEF OnPlan, Comes
    <3>. QED
      BY <2>2, <3>2, <3>3, PlanIsDone
  <2>3. ~RunsFor(d, r)'
    BY <2>1 DEF RunsFor, Kind, NoTask
  <2>. QED
    BY <2>1, <2>2, <2>3 DEF output, IsWhole
<1>4. CASE Leave(d)
  <2>1. UNCHANGED <<output, status>> /\ task'[d] = NoTask
    BY <1>4 DEF Leave, Idles, Shaped, catalogue
  <2>2. ~RunsFor(d, r)'
    BY <2>1 DEF RunsFor, Kind, NoTask
  <2>. QED
    BY <2>1, <2>2 DEF output, IsWhole
<1>5. ~(\/ \E k \in Task : Start(d, k)
        \/ BeginVerify(d) \/ Build(d) \/ ReadsGood(d) \/ ReadsWrong(d) \/ ReadFails(d) \/ Mark(d))
  BY <1>0 DEF Start, FreeDrives, BeginVerify, Build, ReadsGood, ReadsWrong, ReadFails, Reads,
     Mark, DriveSound, ThreadSound
<1>. QED
  BY <1>1, <1>2, <1>3, <1>4, <1>5 DEF DriveStep, ThreadStep

LEMMA TodoStays ==
  ASSUME Shaped, NEW d \in Drive, DriveStep(d), NEW e \in Drive \ {d}
  PROVE  todo'[e] = todo[e]
BY DEF DriveStep, ThreadStep, Start, BeginRestore, Begins, NoDestination, RefuseRestore, NextTape, LastTape,
   BeginVerify, Load, Mount, CopyMissing, CopyFrames, CopyFile, CopyFails, CopyDone, Build,
   ReadsGood, ReadsWrong, ReadFails, Mark, Unmount, Unload, CannotUnload, Finish, Leave, Idles,
   Cancel, CallFails, Raises, Dies, Copies, Reads, locals, threads, Shaped

(* A run that makes no step, of a request nobody touches. *)
LEMMA OtherRunStays ==
  ASSUME NEW e \in Drive, NEW r, RunsFor(e, r), RunSound(e), Same(e), Still(e),
         todo'[e] = todo[e], status[r] = "in_progress" => status'[r] = "in_progress",
         folder'[r] = folder[r], joined'[r] = joined[r]
  PROVE  RunSound(e)'
<1>1. Live(e)
  BY DEF RunsFor, Kind, Live, NoTask
<1>. QED
  BY <1>1, RunGoesOn DEF Same, Still

(* A step of a thread, its own request and the others. *)
LEMMA StepKeepsRequests ==
  ASSUME Shaped, Typed, \A e \in Drive : DriveSound(e), RestoresSound,
         NEW d \in Drive, DriveStep(d), NEW r \in Request \ spoiled'
  PROVE  RequestSound(r)'
<1>1. RequestSound(r)
  BY SpoiledStays DEF RestoresSound
<1>2. ASSUME NEW e \in Drive \ {d}
      PROVE  /\ Same(e) /\ Still(e) /\ todo'[e] = todo[e]
             /\ RunsFor(e, r)' <=> RunsFor(e, r)
  <2>1. Same(e) /\ Still(e)
    BY OthersStay DEF DriveSound
  <2>2. todo'[e] = todo[e]
    BY TodoStays
  <2>. QED
    BY <2>1, <2>2 DEF Same, RunsFor, Kind
<1>3. CASE RunsFor(d, r)
  <2>1. pc[d] = "begin" => work[d] = <<>>
    BY DEF RestoresSound
  <2>2. /\ RunsFor(d, r)' => RunSound(d)'
        /\ \A k \in folder'[r] : k.is # "cut"
        /\ status'[r] = "completed" /\ InOrder(r) => IsWhole(r)'
    BY <1>1, <1>3, <2>1, OwnRequest DEF RequestSound
  <2>3. \A e \in Drive \ {d} : ~RunsFor(e, r)'
    BY <1>1, <1>2, <1>3 DEF RequestSound
  <2>. QED
    BY <2>2, <2>3 DEF RequestSound, InOrder
<1>4. CASE ~RunsFor(d, r)
  <2>1. /\ status'[r] = status[r] /\ folder'[r] = folder[r] /\ joined'[r] = joined[r]
        /\ RunsFor(d, r)' => pc'[d] = "begin" /\ \A e \in Drive : ~RunsFor(e, r)
    BY <1>4, OthersRequests
  <2>2. ASSUME NEW e \in Drive \ {d}, RunsFor(e, r)' PROVE RunSound(e)' /\ ~RunsFor(d, r)'
    BY <1>1, <1>2, <2>1, <2>2, OtherRunStays DEF RequestSound
  <2>3. RunsFor(d, r)' => RunSound(d)'
    BY <2>1 DEF RunSound, UnderWay, Comes
  <2>4. \A a, b \in Drive : RunsFor(a, r)' /\ RunsFor(b, r)' => a = b
    <3>. SUFFICES ASSUME NEW a \in Drive, NEW b \in Drive, RunsFor(a, r)', RunsFor(b, r)'
                  PROVE  a = b
      OBVIOUS
    <3>1. CASE a = d \/ b = d
      BY <2>2, <3>1
    <3>2. CASE a # d /\ b # d
      BY <1>1, <1>2, <3>2 DEF RequestSound
    <3>. QED
      BY <3>1, <3>2
  <2>5. status'[r] = "completed" /\ InOrder(r) => IsWhole(r)'
    BY <1>1, <2>1 DEF RequestSound, IsWhole
  <2>6. \A k \in folder'[r] : k.is # "cut"
    BY <1>1, <2>1 DEF RequestSound
  <2>. QED
    BY <2>2, <2>3, <2>4, <2>5, <2>6 DEF RequestSound, InOrder
<1>. QED
  BY <1>3, <1>4

(* After a crash nobody runs, and what was copied is still there. *)
LEMMA CrashKeepsRequests ==
  ASSUME Shaped, Typed, RestoresSound, Crash, NEW r \in Request \ spoiled'
  PROVE  RequestSound(r)'
<1>1. \A e \in Drive : ~RunsFor(e, r)'
  BY DEF Crash, RunsFor, Kind, NoTask
<1>2. status' = status
  BY DEF Crash, catalogue
<1>3. CASE UNCHANGED <<output, spoiled>>
  <2>1. RequestSound(r)
    BY <1>3 DEF RestoresSound
  <2>. QED
    BY <1>1, <1>2, <1>3, <2>1 DEF RequestSound, IsWhole, InOrder, output
<1>4. ASSUME NEW d \in Drive, pc[d] = "copy", work[d] # <<>>, Cuts(d)
      PROVE  RequestSound(r)'
  <2>1. RequestSound(r)
    <3>1. spoiled \subseteq spoiled'
      BY <1>4 DEF Cuts
    <3>. QED
      BY <3>1 DEF RestoresSound
  <2>2. CASE RunsFor(d, r)
    <3>1. status[r] = "in_progress" /\ task[d].request = r
      BY <1>4, <2>1, <2>2 DEF RequestSound, RunSound, RunsFor, UnderWay
    <3>2. \A k \in folder'[r] : k.is # "cut"
      BY <1>4, <2>1, <3>1, FramesUncut DEF RequestSound
    <3>. QED
      BY <1>1, <1>2, <3>1, <3>2 DEF RequestSound
  <2>3. CASE ~RunsFor(d, r)
    <3>1. task[d].request # r /\ DOMAIN folder = Request /\ DOMAIN joined = Request
      BY <1>4, <2>3 DEF RunsFor, Typed, TypeOK, HasTape
    <3>2. ASSUME NEW s, NEW q, WritesFile(d, s, q)
          PROVE  folder'[r] = folder[r] /\ joined'[r] = joined[r]
      BY <3>1, <3>2 DEF WritesFile
    <3>3. ASSUME NEW chunks, WritesFrames(d, chunks)
          PROVE  folder'[r] = folder[r] /\ joined'[r] = joined[r]
      BY <3>1, <3>3 DEF WritesFrames
    <3>4. folder'[r] = folder[r] /\ joined'[r] = joined[r]
      BY <1>4, <3>2, <3>3 DEF Cuts, output
    <3>. QED
      BY <1>1, <1>2, <2>1, <3>4 DEF RequestSound, IsWhole, InOrder
  <2>. QED
    BY <2>2, <2>3
<1>. QED
  BY <1>3, <1>4 DEF Crash

LEMMA InitRestores == Init => RestoresSound
<1>. SUFFICES ASSUME Init PROVE RestoresSound
  OBVIOUS
<1>1. \A d \in Drive : work[d] = <<>> /\ ~ \E r \in Request : RunsFor(d, r)
  BY DEF Init, RunsFor, Kind, NoTask
<1>2. \A r \in Request : status[r] = "none" /\ folder[r] = {}
  BY DEF Init
<1>. QED
  BY <1>1, <1>2 DEF RestoresSound, RequestSound

LEMMA RestoresStaySound ==
  IInv /\ Typed /\ RestoresSound /\ [Next]_vars => RestoresSound'
<1>. SUFFICES ASSUME IInv, Typed, RestoresSound, [Next]_vars PROVE RestoresSound'
  OBVIOUS
<1>1. ASSUME NEW d \in Drive, DriveStep(d) PROVE RestoresSound'
  <2>1. \A r \in Request \ spoiled' : RequestSound(r)'
    BY <1>1, StepKeepsRequests DEF IInv
  <2>2. ASSUME NEW e \in Drive, pc'[e] \in {"idle", "begin"} PROVE work'[e] = <<>>
    <3>1. CASE e = d
      BY <1>1, <2>2, <3>1, IdleWork DEF IInv, RestoresSound
    <3>2. CASE e # d
      BY <1>1, <2>2, <3>2, OthersStay DEF IInv, DriveSound, Same, RestoresSound
    <3>. QED
      BY <3>1, <3>2
  <2>. QED
    BY <2>1, <2>2 DEF RestoresSound
<1>2. CASE OperatorStep
  <2>1. UNCHANGED <<threads, output, history>> /\ \A e \in Drive : Same(e) /\ Still(e)
    BY <1>2, OperatorLeavesThreads DEF IInv, OperatorStep, Prepare, OperatorUnloads,
       OperatorTakesOut, OperatorPutsBack, vars
  <2>2. \A r \in Request : status'[r] # status[r] => status[r] = "none" /\ status'[r] = "prepared"
    BY <1>2 DEF IInv, Shaped, OperatorStep, Prepare, OperatorUnloads, OperatorTakesOut,
       OperatorPutsBack, vars, catalogue
  <2>3. ASSUME NEW r \in Request \ spoiled' PROVE RequestSound(r)'
    <3>1. RequestSound(r)
      BY <2>1 DEF RestoresSound, history
    <3>2. /\ folder' = folder /\ joined' = joined /\ todo' = todo /\ task' = task
      BY <2>1 DEF output, threads, locals
    <3>3. \A e \in Drive : RunsFor(e, r)' <=> RunsFor(e, r)
      BY <3>2 DEF RunsFor, Kind
    <3>4. ASSUME NEW e \in Drive, RunsFor(e, r) PROVE RunSound(e)'
      BY <2>1, <2>2, <3>1, <3>2, <3>4, OtherRunStays DEF RequestSound
    <3>5. status'[r] = "completed" => status[r] = "completed"
      BY <2>2
    <3>. QED
      BY <3>1, <3>2, <3>3, <3>4, <3>5 DEF RequestSound, IsWhole, InOrder
  <2>. QED
    BY <2>1, <2>3 DEF RestoresSound, threads, locals
<1>3. CASE Crash
  <2>1. \A e \in Drive : work'[e] = <<>>
    BY <1>3 DEF Crash
  <2>2. \A r \in Request \ spoiled' : RequestSound(r)'
    BY <1>3, CrashKeepsRequests DEF IInv
  <2>. QED
    BY <2>1, <2>2 DEF RestoresSound
<1>. QED
  BY <1>1, <1>2, <1>3 DEF Next, DriveStep, OperatorStep
-----------------------------------------------------------------------------
(* Theorems.                                                               *)

(* run_restore, _unload: a tape is left in a drive only when the last job  *)
(* there has told of a problem or died.  A request is in progress only as  *)
(* long as a job works on it, unless the process or a session died or the  *)
(* last run that began could not make the destination, which happens       *)
(* before anything is there to record it (restore.py:278, :288).           *)
THEOREM NothingIsLeftUntold == Spec => []NothingLeftUntold
<1>1. IInv => StrayTapesReported
  BY DEF IInv, DriveSound, TapeAccounted, StrayTapesReported
<1>2. IInv => InProgressHasJob
  BY DEF IInv, RequestsSound, InProgressHasJob, Runs
<1>. QED
  BY <1>1, <1>2, AlwaysSound, PTL DEF NothingLeftUntold

(* run_verify: of what is marked as verified a piece can be read, and is   *)
(* right if the catalogue or a manifest has a hash for it; where the row   *)
(* has none, nothing is compared and nothing more is promised.  Read       *)
(* errors are recorded against data that cannot be read, as long as no     *)
(* call fails and every job reads its own tape.                            *)
THEOREM MarksAreSound == Spec => []MarksAreTrue
<1>1. IInv => MarksAreTrue
  BY DEF IInv, MarksAreTrue
<1>. QED
  BY <1>1, AlwaysSound, PTL

(* run_verify: a full verify that reads in its own drive and is not        *)
(* cancelled marks a tape or a span only when all its data can be read and *)
(* all that has a hash is right, except frames that a damaged manifest may *)
(* leave out.                                                              *)
THEOREM FullVerifyTellsTheTruth == Spec => FullVerifyIsTrue
<1>. DEFINE Truthful(d) ==
       pc[d] = "check" /\ pc'[d] = "unmount" /\ task[d].full /\ ~cancelled[d] /\ at[d] = d =>
         \A s \in Span :
           s \in verified' \ verified \/ Row[s].tape \in checked' \ checked =>
             \A w \in PiecesOf(s) : Listed(w) => Right(w)
<1>1. ASSUME IInv, [Next]_vars, NEW d \in Drive PROVE Truthful(d)
  <2>. SUFFICES ASSUME pc[d] = "check", pc'[d] = "unmount", task[d].full, ~cancelled[d],
                       at[d] = d, NEW s \in Span,
                       s \in verified' \ verified \/ Row[s].tape \in checked' \ checked
                PROVE  \A w \in PiecesOf(s) : Listed(w) => Right(w)
    OBVIOUS
  <2>. USE <1>1 DEF IInv
  <2>1. Mark(d)
    <3>1. PICK e \in Drive : DriveStep(e)
      BY DEF Next, DriveStep, Prepare, OperatorUnloads, OperatorTakesOut,
         OperatorPutsBack, Crash, vars, catalogue
    <3>2. e = d
      BY <3>1, OthersStay DEF DriveSound, Same
    <3>. QED
      BY <3>1, <3>2, CatalogueSteps
  <2>2. Range(work[d]) = {}
    BY <2>1 DEF Mark, Range
  <2>3. s \in SpansOn(tape[d]) /\ s \notin failed[d]
    BY <2>1 DEF Mark, Marks, Sound, DriveSound, ResultsSound, SpansOn
  <2>4. ASSUME NEW w \in Datum, w.span = s
        PROVE  Fine(d, w) \/ (w.piece = "frames" /\ ~HasManifest(d, s))
    BY <2>2, <2>3, <2>4 DEF DriveSound, NothingSkipped
  <2>5. ASSUME NEW w \in PiecesOf(s), Listed(w) PROVE Right(w)
    <3>1. w \in Datum /\ w.span = s
      BY DEF Datum, PiecesOf, Piece, SpansOn
    <3>2. ASSUME w.piece = "frames" PROVE HasManifest(d, s)
      <4>1. PICK m : m = Piece(s, "manifest")
        OBVIOUS
      <4>2. m \in Datum /\ m.span = s /\ m.piece # "frames"
        BY <3>1, <3>2, <4>1 DEF Datum, PiecesOf, Piece
      <4>3. Readable(d, m)
        BY <2>4, <4>2 DEF Fine
      <4>. QED
        BY <2>5, <3>1, <3>2, <4>1, <4>3 DEF Listed, HasManifest
    <3>. QED
      BY <2>4, <3>1, <3>2 DEF Fine
  <2>. QED
    BY <2>5
<1>2. IInv /\ [Next]_vars => [\A d \in Drive : Truthful(d)]_vars
  BY <1>1
<1>. QED
  BY <1>2, AlwaysSound, PTL DEF FullVerifyIsTrue, Spec

(* What is read, copied and remembered, has its type, for any catalogue    *)
(* and any requests.                                                       *)
THEOREM TypeCorrect == Spec => []TypeOK
<1>1. IInv /\ Typed /\ [Next]_vars => Typed'
  BY StepTyped
<1>2. Typed => TypeOK
  BY DEF Typed
<1>. QED
  BY InitSound, InitTyped, NextSound, <1>1, <1>2, PTL DEF Spec

(* run_restore: a request that is recorded as completed has brought back   *)
(* all that was selected, complete, uncut and in order, and the whole      *)
(* files that have a hash unchanged, however many runs it took and         *)
(* whatever failed in them, when the plan has the parts of files in their  *)
(* order and no run of it was cancelled, ran beside another, read a wrong  *)
(* tape or left a frame cut.                                               *)
THEOREM CompletedIsComplete == Spec => []CompletedAsPlanned
<1>1. RestoresSound => CompletedAsPlanned
  BY DEF RestoresSound, RequestSound, CompletedAsPlanned
<1>. QED
  BY InitSound, InitTyped, InitRestores, NextSound, StepTyped, RestoresStaySound, <1>1, PTL
     DEF Spec
=============================================================================
