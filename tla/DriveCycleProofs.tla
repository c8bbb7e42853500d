-------------------------- MODULE DriveCycleProofs --------------------------
(***************************************************************************)
(* What DriveCycle guarantees for every number of jobs, tapes, slots and   *)
(* drives, every request and every number of troubles.                     *)
(***************************************************************************)
EXTENDS DriveCycle, SequenceTheorems, FiniteSetTheorems, TLAPS

(* A thread has a tape in hand. *)
Busy == {"register", "lookup", "load", "format", "mount", "import", "unmount",
         "unload", "record"}
Errors == {"none", "failed", "fatal"}

(* What the threads of a job rely on. *)
ThreadsSound ==
  /\ \A j \in Job : state[j] # "new" => request[j] \in Request
  /\ \A d \in Drive : owner[d] # NoJob => Live(owner[d])
  /\ \A d \in Drive : pc[d] # "idle" => owner[d] # NoJob /\ state[owner[d]] = "running"
  /\ \A d \in Drive : tape[d] = NoTape <=> pc[d] \notin Busy
-----------------------------------------------------------------------------
(* Sequences without repetitions, and sets that are finite.                *)

(* Taking the head of a queue of distinct tapes leaves the others. *)
LEMMA TakingHead ==
  ASSUME NEW q \in Seq(Tape), q # <<>>
  PROVE  /\ Head(q) \in Tape /\ Head(q) \in Range(q)
         /\ Tail(q) \in Seq(Tape)
         /\ IsInjective(q) => /\ IsInjective(Tail(q))
                              /\ Range(Tail(q)) = Range(q) \ {Head(q)}
<1>1. /\ Head(q) \in Tape /\ Tail(q) \in Seq(Tape) /\ Len(Tail(q)) = Len(q) - 1
      /\ \A i \in 1 .. Len(Tail(q)) : Tail(q)[i] = q[i + 1]
  BY HeadTailProperties
<1>2. Len(q) \in Nat \ {0} /\ DOMAIN q = 1 .. Len(q) /\ Head(q) = q[1]
      /\ DOMAIN Tail(q) = 1 .. (Len(q) - 1)
  BY <1>1
<1>3. Head(q) \in Range(q)
  BY <1>2 DEF Range
<1>4. ASSUME IsInjective(q) PROVE IsInjective(Tail(q))
  BY <1>1, <1>2, <1>4 DEF IsInjective
<1>5. ASSUME IsInjective(q) PROVE Range(Tail(q)) = Range(q) \ {Head(q)}
  <2>1. ASSUME NEW x \in Range(Tail(q)) PROVE x \in Range(q) \ {Head(q)}
    <3>1. PICK i \in 1 .. (Len(q) - 1) : x = Tail(q)[i]
      BY <1>2 DEF Range
    <3>2. x = q[i + 1] /\ i + 1 \in 1 .. Len(q) /\ i + 1 # 1
      BY <1>1, <1>2, <3>1
    <3>. QED
      BY <1>2, <1>5, <3>2 DEF Range, IsInjective
  <2>2. ASSUME NEW x \in Range(q) \ {Head(q)} PROVE x \in Range(Tail(q))
    <3>1. PICK i \in 1 .. Len(q) : x = q[i]
      BY <1>2 DEF Range
    <3>2. i # 1
      BY <1>2, <3>1
    <3>3. i - 1 \in 1 .. (Len(q) - 1) /\ x = Tail(q)[i - 1]
      BY <1>1, <1>2, <3>1, <3>2
    <3>. QED
      BY <1>2, <3>3 DEF Range
  <2>. QED
    BY <2>1, <2>2
<1>. QED
  BY <1>1, <1>3, <1>4, <1>5

(* A tape has finitely many spans, so they can be counted. *)
LEMMA SpansAreCounted ==
  ASSUME TypeOK, NEW t \in Tape
  PROVE  Cardinality(SpansOn(t)) \in Nat
<1>. DEFINE Keys == Tape \X (Unit \X BOOLEAN)
            AllSpans == [tape: Tape, unit: Unit, verified: BOOLEAN]
            f == [k \in Keys |-> [tape |-> k[1], unit |-> k[2][1], verified |-> k[2][2]]]
<1>1. IsFiniteSet(BOOLEAN)
  <2>1. IsFiniteSet({TRUE}) /\ IsFiniteSet({FALSE})
    BY FS_Singleton, Zenon
  <2>2. IsFiniteSet({TRUE} \cup {FALSE})
    BY <2>1, FS_Union
  <2>3. BOOLEAN = {TRUE} \cup {FALSE}
    OBVIOUS
  <2>. QED
    BY <2>2, <2>3, Zenon
<1>2. IsFiniteSet(Keys)
  <2>1. IsFiniteSet(Unit \X BOOLEAN)
    BY <1>1, FS_Product, Contents
  <2>. QED
    BY <2>1, FS_Product, TapeIds
<1>3. f \in Surjection(Keys, AllSpans)
  <2>1. f \in [Keys -> AllSpans]
    OBVIOUS
  <2>2. ASSUME NEW s \in AllSpans PROVE \E k \in Keys : f[k] = s
    <3>1. <<s.tape, <<s.unit, s.verified>>>> \in Keys
      OBVIOUS
    <3>2. f[<<s.tape, <<s.unit, s.verified>>>>] = s
      BY <3>1
    <3>. QED
      BY <3>1, <3>2
  <2>. HIDE DEF Keys, AllSpans, f
  <2>. QED
    BY <2>1, <2>2 DEF Surjection
<1>4. IsFiniteSet(AllSpans)
  <2>. HIDE DEF Keys, AllSpans, f
  <2>. QED
    BY <1>2, <1>3, FS_Surjection
<1>5. SpansOn(t) \subseteq AllSpans
  BY DEF TypeOK, SpansOn
<1>. QED
  BY <1>4, <1>5, FS_Subset, FS_CardinalityType
-----------------------------------------------------------------------------
(* What the moves, the hardware and the reports leave behind has its type. *)
LEMMA MovesKeepPlaces ==
  ASSUME TypeOK, NEW d \in Drive, Loads(d) \/ Unloads(d)
  PROVE  place' \in [Tape -> Slot \cup Drive]
  BY DEF TypeOK, Loads, Unloads, FirstFree, FreeSlots

LEMMA RowsKeepStatus ==
  ASSUME TypeOK, NEW where
  PROVE  Registered(where) \in [Tape -> Status]
<1>1. "scratch" \in Status
  BY DEF Status
<1>. QED
  BY <1>1 DEF TypeOK, Registered

LEMMA WipingKeepsFiles ==
  ASSUME TypeOK, NEW d \in Drive
  PROVE  Wiped(d) \in [Tape -> SUBSET Unit] /\ In(d) \subseteq Tape
  BY DEF TypeOK, Wiped, In

Lists == [{"succeeded", "failed", "skipped"} -> SUBSET Tape]

LEMMA ListsGrow ==
  ASSUME TypeOK, NEW j \in Job, NEW t \in Tape,
         NEW v \in {"succeeded", "failed", "skipped"}
  PROVE  [verdict EXCEPT ![j][v] = @ \cup {t}] \in [Job -> Lists]
<1>1. verdict \in [Job -> Lists]
  BY DEF TypeOK, Lists
<1>2. verdict[j][v] \cup {t} \in SUBSET Tape
  BY <1>1 DEF Lists
<1>3. [verdict[j] EXCEPT ![v] = verdict[j][v] \cup {t}] \in Lists
  BY <1>1, <1>2 DEF Lists
<1>4. [verdict EXCEPT ![j] = [verdict[j] EXCEPT ![v] = verdict[j][v] \cup {t}]]
        \in [Job -> Lists]
  BY <1>1, <1>3
<1>. QED
  BY <1>4

LEMMA VerdictKeepsLists ==
  ASSUME TypeOK, ThreadsSound, NEW d \in Drive, pc[d] \in Busy
  PROVE  Verdict(d) \in [Job -> Lists]
<1>1. tape[d] \in Tape /\ owner[d] \in Job
  BY DEF TypeOK, ThreadsSound, Busy
<1>. QED
  BY <1>1, ListsGrow DEF Verdict
-----------------------------------------------------------------------------
(* Every variable keeps its type. *)
LEMMA TypeStep == TypeOK /\ ThreadsSound /\ [Next]_vars => TypeOK'
<1>. SUFFICES ASSUME TypeOK, ThreadsSound, [Next]_vars PROVE TypeOK'
  OBVIOUS
<1>. USE DEF TypeOK, ThreadsSound, Goto, world, catalogue, library, jobs, threads,
             bounds, history
<1>1. ASSUME NEW j \in Job, NEW r \in Request, Start(j, r)
      PROVE  TypeOK'
  BY <1>1 DEF Start
<1>2. ASSUME NEW j \in Job, Check(j)
      PROVE  TypeOK'
  BY <1>2, RequestShape DEF Check
<1>3. ASSUME NEW j \in Job, Refuse(j)
      PROVE  TypeOK'
  BY <1>3 DEF Refuse, Ends
<1>4. ASSUME NEW j \in Job, EndJob(j)
      PROVE  TypeOK'
  BY <1>4 DEF EndJob, Ends
<1>5. ASSUME NEW j \in Job, Cancel(j)
      PROVE  TypeOK'
  BY <1>5 DEF Cancel
<1>6. ASSUME NEW d \in Drive, Take(d)
      PROVE  TypeOK'
  BY <1>6, TakingHead DEF Take, Gets, Remaining
<1>7. ASSUME NEW d \in Drive, Skip(d)
      PROVE  TypeOK'
  <2>1. /\ owner[d] \in Job /\ queue[owner[d]] # <<>>
        /\ Head(queue[owner[d]]) \in Tape /\ Tail(queue[owner[d]]) \in Seq(Tape)
    BY <1>7, TakingHead DEF Skip, Gets
  <2>2. verdict' \in [Job -> Lists]
    BY <1>7, <2>1, ListsGrow DEF Skip, Skipped
  <2>. QED
    BY <1>7, <2>1, <2>2 DEF Skip, Gets, Remaining, Lists
<1>8. ASSUME NEW d \in Drive, ThreadEnds(d)
      PROVE  TypeOK'
  BY <1>8 DEF ThreadEnds
<1>9. ASSUME NEW d \in Drive, Record(d)
      PROVE  TypeOK'
  <2>1. verdict' \in [Job -> Lists]
    BY <1>9, VerdictKeepsLists DEF Record, Busy
  <2>. QED
    BY <1>9, <2>1 DEF Record, PutDown, Lists
<1>10. ASSUME NEW d \in Drive, ThreadGone(d)
      PROVE  TypeOK'
  BY <1>10 DEF ThreadGone, PutDown
<1>11. ASSUME NEW d \in Drive, LookUp(d)
      PROVE  TypeOK'
  BY <1>11 DEF LookUp, Found
<1>12. ASSUME NEW d \in Drive, NotInSlot(d)
      PROVE  TypeOK'
  BY <1>12 DEF NotInSlot, Fails
<1>13. ASSUME NEW d \in Drive, Load(d)
      PROVE  TypeOK'
  <2>1. place' \in [Tape -> Slot \cup Drive] /\ status' \in [Tape -> Status]
    BY <1>13, MovesKeepPlaces, RowsKeepStatus DEF Load
  <2>. QED
    BY <1>13, <2>1 DEF Load, AfterLoad
<1>14. ASSUME NEW d \in Drive, LoadRefused(d)
      PROVE  TypeOK'
  BY <1>14 DEF LoadRefused, Fails, AfterNoLoad
<1>15. ASSUME NEW d \in Drive, Format(d)
      PROVE  TypeOK'
  <2>1. "scratch" \in Status
    BY DEF Status
  <2>2. files' \in [Tape -> SUBSET Unit] /\ repurposed' \subseteq Tape
    BY <1>15, WipingKeepsFiles DEF Format, Repurposes
  <2>3. status' \in [Tape -> Status] /\ used' \in [Tape -> Nat]
    <3>1. CASE status[tape[d]] = "unknown"
      BY <1>15, <3>1 DEF Format
    <3>2. CASE status[tape[d]] # "unknown"
      <4>1. /\ status' = [status EXCEPT ![tape[d]] = "scratch"]
            /\ used' = [used EXCEPT ![tape[d]] = 0]
        BY <1>15, <3>2 DEF Format
      <4>. QED
        BY <2>1, <4>1
    <3>. QED
      BY <3>1, <3>2
  <2>. QED
    BY <1>15, <2>2, <2>3 DEF Format
<1>16. ASSUME NEW d \in Drive, Register(d)
      PROVE  TypeOK'
  <2>1. "archived" \in Status
    BY DEF Status
  <2>. QED
    BY <1>16, <2>1 DEF Register, Archived
<1>17. ASSUME NEW d \in Drive, Mount(d)
      PROVE  TypeOK'
  BY <1>17 DEF Mount, In
<1>18. ASSUME NEW d \in Drive, Import(d)
      PROVE  TypeOK'
  <2>1. tape[d] \in Tape /\ owner[d] \in Job /\ request[owner[d]] \in Request
    BY <1>18 DEF Import, Busy
  <2>2. request[owner[d]].verify \in BOOLEAN
    BY <2>1, RequestShape
  <2>3. \A S \in SUBSET left[d] :
           SpansAfter(tape[d], S, request[owner[d]].verify)
             \subseteq [tape: Tape, unit: Unit, verified: BOOLEAN]
    BY <2>1, <2>2 DEF SpansAfter, Span, Known, SpansOn
  <2>4. PICK S \in SUBSET left[d] :
          /\ spans' = SpansAfter(tape[d], S, request[owner[d]].verify)
          /\ left' = [left EXCEPT ![d] = @ \ S]
    BY <1>18 DEF Import
  <2>5. spans' \subseteq [tape: Tape, unit: Unit, verified: BOOLEAN]
    BY <2>3, <2>4
  <2>6. left' \in [Drive -> SUBSET Unit]
    BY <2>4
  <2>. QED
    BY <1>18, <2>5, <2>6 DEF Import
<1>19. ASSUME NEW d \in Drive, Finish(d)
      PROVE  TypeOK'
  <2>1. tape[d] \in Tape /\ Cardinality(SpansOn(tape[d])) \in Nat
    BY <1>19, SpansAreCounted DEF Finish, Busy
  <2>2. Marks(d) \in BOOLEAN
    BY <1>19, RequestShape DEF Finish, Marks
  <2>. QED
    BY <1>19, <2>1, <2>2 DEF Finish
<1>20. ASSUME NEW d \in Drive, Unmount(d)
      PROVE  TypeOK'
  BY <1>20 DEF Unmount
<1>21. ASSUME NEW d \in Drive, Unload(d)
      PROVE  TypeOK'
  <2>1. place' \in [Tape -> Slot \cup Drive] /\ status' \in [Tape -> Status]
    BY <1>21, MovesKeepPlaces, RowsKeepStatus DEF Unload
  <2>2. error' = error \/ \E e \in Errors : error' = [error EXCEPT ![d] = e]
    BY <1>21 DEF Unload, Fails, Errors
  <2>3. Goto(d, "record")
        /\ UNCHANGED <<used, checked, spans, files, jobs, owner, tape, slot, left,
                       bounds, history>>
    BY <1>21 DEF Unload, Fails
  <2>4. error' \in [Drive -> Errors]
    BY <2>2 DEF Errors
  <2>. QED
    BY <2>1, <2>3, <2>4 DEF Errors
<1>22. ASSUME NEW d \in Drive, CallFails(d)
      PROVE  TypeOK'
  <2>1. place' \in [Tape -> Slot \cup Drive]
    BY <1>22, MovesKeepPlaces DEF CallFails
  <2>2. files' \in [Tape -> SUBSET Unit] /\ repurposed' \subseteq Tape
    BY <1>22, WipingKeepsFiles DEF CallFails, Repurposes
  <2>3. error' \in [Drive -> Errors] /\ \E where \in Busy : Goto(d, where)
    BY <1>22 DEF CallFails, FailsTo, Fails, AfterNoLoad, Errors, Busy
  <2>. QED
    BY <1>22, <2>1, <2>2, <2>3 DEF CallFails, Errors, Busy
<1>23. ASSUME NEW d \in Drive, Dies(d)
      PROVE  TypeOK'
  <2>1. place' \in [Tape -> Slot \cup Drive]
    BY <1>23, MovesKeepPlaces DEF Dies
  <2>. QED
    BY <1>23, <2>1 DEF Dies, PutDown
<1>24. ASSUME NEW d \in Drive, DiesFormatting(d)
      PROVE  TypeOK'
  BY <1>24, WipingKeepsFiles DEF DiesFormatting, Repurposes
<1>25. ASSUME NEW d \in Drive, DiesReporting(d)
      PROVE  TypeOK'
  <2>1. verdict' \in [Job -> Lists]
    BY <1>25, VerdictKeepsLists DEF DiesReporting, Busy
  <2>. QED
    BY <1>25, <2>1 DEF DiesReporting, PutDown, Lists
<1>26. ASSUME NEW d \in Drive, OperatorUnloads(d)
      PROVE  TypeOK'
  <2>1. place' \in [Tape -> Slot \cup Drive] /\ status' \in [Tape -> Status]
    BY <1>26, MovesKeepPlaces, RowsKeepStatus DEF OperatorUnloads
  <2>. QED
    BY <1>26, <2>1 DEF OperatorUnloads
<1>27. CASE Crash
  BY <1>27 DEF Crash
<1>28. CASE UNCHANGED vars
  BY <1>28 DEF vars
<1>. QED
  BY <1>1, <1>2, <1>3, <1>4, <1>5, <1>6, <1>7, <1>8, <1>9, <1>10, <1>11,
     <1>12, <1>13, <1>14, <1>15, <1>16, <1>17, <1>18, <1>19, <1>20,
     <1>21, <1>22, <1>23, <1>24, <1>25, <1>26, <1>27, <1>28
  DEF Next, JobStep, ThreadStep, FaultStep
-----------------------------------------------------------------------------
(* What a step can do to the jobs and to what their threads hold.          *)

(* A job is accepted or refused, or ends. *)
Stops(j) ==
  /\ state[j] \in {"check", "running"} /\ \A d \in Drives(j) : pc[d] = "idle"
  /\ \E how \in {"raised", "returned"} : Ends(j, how)
  /\ (state[j] = "check" => state'[j] = "raised")
  /\ UNCHANGED <<request, queue, verdict, pc, tape, error, dbErrors>>

(* A thread goes on with the tape it has in hand; it meets a fatal error   *)
(* only when the database raises.                                          *)
GoesOn(d) ==
  /\ pc[d] \in Busy /\ \E where \in Busy : Goto(d, where)
  /\ \E e \in Errors :
       /\ error' = [error EXCEPT ![d] = e]
       /\ e = "fatal" => error[d] = "fatal" \/ dbErrors' > 0
  /\ dbErrors' \in {dbErrors, dbErrors + 1}
  /\ UNCHANGED <<state, request, queue, verdict, owner, tape>>

(* A thread ends with a tape in hand, in no list. *)
Drops(d) ==
  /\ pc[d] \in Busy /\ Goto(d, "idle")
  /\ tape' = [tape EXCEPT ![d] = NoTape] /\ error' = [error EXCEPT ![d] = "none"]
  /\ \/ error[d] = "fatal" /\ dbErrors' = dbErrors
     \/ dbErrors' = dbErrors + 1
  /\ UNCHANGED <<state, request, queue, verdict, owner>>

(* A thread puts a tape into a list, and takes the next, or has ended. *)
Reports(d) ==
  /\ pc[d] = "record" /\ error[d] # "fatal"
  /\ verdict' = Verdict(d)
  /\ tape' = [tape EXCEPT ![d] = NoTape] /\ error' = [error EXCEPT ![d] = "none"]
  /\ \/ Goto(d, "take") /\ dbErrors' = dbErrors
     \/ Goto(d, "idle") /\ dbErrors' = dbErrors + 1
  /\ UNCHANGED <<state, request, queue, owner>>

(* Nothing happens to them. *)
Elsewhere == UNCHANGED <<state, request, queue, verdict, owner, pc, tape, error, dbErrors>>

Shape ==
  \/ \E j \in Job : Check(j) \/ Stops(j) \/ \E r \in Request : Start(j, r)
  \/ \E d \in Drive : \/ Take(d) \/ Skip(d) \/ ThreadEnds(d)
                      \/ GoesOn(d) \/ Drops(d) \/ Reports(d)
  \/ Crash
  \/ Elsewhere

LEMMA Shapes == TypeOK /\ ThreadsSound /\ [Next]_vars => Shape
<1>. SUFFICES ASSUME TypeOK, ThreadsSound, [Next]_vars PROVE Shape
  OBVIOUS
<1>. USE DEF TypeOK, ThreadsSound, Shape, Goto, world, catalogue, library, jobs,
             threads, bounds, history
<1>1. ASSUME NEW j \in Job, NEW r \in Request, Start(j, r)
      PROVE  Shape
  BY <1>1
<1>2. ASSUME NEW j \in Job, Check(j)
      PROVE  Shape
  BY <1>2
<1>3. ASSUME NEW j \in Job, Refuse(j)
      PROVE  Shape
  <2>1. Stops(j)
    BY <1>3 DEF Refuse, Stops, Ends, Drives
  <2>. QED
    BY <2>1
<1>4. ASSUME NEW j \in Job, EndJob(j)
      PROVE  Shape
  <2>1. Stops(j)
    BY <1>4 DEF EndJob, Stops, Ends, Joined
  <2>. QED
    BY <2>1
<1>5. ASSUME NEW j \in Job, Cancel(j)
      PROVE  Shape
  BY <1>5 DEF Cancel, Elsewhere
<1>6. ASSUME NEW d \in Drive, Take(d)
      PROVE  Shape
  BY <1>6
<1>7. ASSUME NEW d \in Drive, Skip(d)
      PROVE  Shape
  BY <1>7
<1>8. ASSUME NEW d \in Drive, ThreadEnds(d)
      PROVE  Shape
  BY <1>8
<1>9. ASSUME NEW d \in Drive, Record(d)
      PROVE  Shape
  <2>1. Reports(d)
    BY <1>9 DEF Record, Reports, PutDown
  <2>. QED
    BY <2>1
<1>10. ASSUME NEW d \in Drive, ThreadGone(d)
      PROVE  Shape
  <2>1. Drops(d)
    BY <1>10 DEF ThreadGone, Drops, PutDown, Busy
  <2>. QED
    BY <2>1
<1>11. ASSUME NEW d \in Drive, LookUp(d)
      PROVE  Shape
  <2>1. GoesOn(d)
    BY <1>11 DEF LookUp, GoesOn, Busy, Errors
  <2>. QED
    BY <2>1
<1>12. ASSUME NEW d \in Drive, NotInSlot(d)
      PROVE  Shape
  <2>1. GoesOn(d)
    BY <1>12 DEF NotInSlot, GoesOn, Busy, Errors, Fails
  <2>. QED
    BY <2>1
<1>13. ASSUME NEW d \in Drive, Load(d)
      PROVE  Shape
  <2>1. pc[d] = "load" /\ Goto(d, AfterLoad(d)) /\ AfterLoad(d) \in Busy
        /\ UNCHANGED <<error, dbErrors, state, request, queue, verdict, owner, tape>>
    BY <1>13 DEF Load, Busy, AfterLoad
  <2>2. error' = [error EXCEPT ![d] = error[d]] /\ error[d] \in Errors
    BY <2>1 DEF Errors
  <2>3. GoesOn(d)
    BY <2>1, <2>2, Zenon DEF GoesOn, Busy
  <2>. QED
    BY <2>3
<1>14. ASSUME NEW d \in Drive, LoadRefused(d)
      PROVE  Shape
  <2>1. GoesOn(d)
    BY <1>14 DEF LoadRefused, GoesOn, Busy, Errors, Fails, AfterNoLoad
  <2>. QED
    BY <2>1
<1>15. ASSUME NEW d \in Drive, Format(d)
      PROVE  Shape
  <2>1. GoesOn(d)
    BY <1>15 DEF Format, GoesOn, Busy, Errors
  <2>. QED
    BY <2>1
<1>16. ASSUME NEW d \in Drive, Register(d)
      PROVE  Shape
  <2>1. GoesOn(d)
    BY <1>16 DEF Register, GoesOn, Busy, Errors
  <2>. QED
    BY <2>1
<1>17. ASSUME NEW d \in Drive, Mount(d)
      PROVE  Shape
  <2>1. GoesOn(d)
    BY <1>17 DEF Mount, GoesOn, Busy, Errors
  <2>. QED
    BY <2>1
<1>18. ASSUME NEW d \in Drive, Import(d)
      PROVE  Shape
  <2>1. GoesOn(d)
    BY <1>18 DEF Import, GoesOn, Busy, Errors
  <2>. QED
    BY <2>1
<1>19. ASSUME NEW d \in Drive, Finish(d)
      PROVE  Shape
  <2>1. GoesOn(d)
    BY <1>19 DEF Finish, GoesOn, Busy, Errors
  <2>. QED
    BY <2>1
<1>20. ASSUME NEW d \in Drive, Unmount(d)
      PROVE  Shape
  <2>1. GoesOn(d)
    BY <1>20 DEF Unmount, GoesOn, Busy, Errors
  <2>. QED
    BY <2>1
<1>21. ASSUME NEW d \in Drive, Unload(d)
      PROVE  Shape
  <2>1. GoesOn(d)
    BY <1>21 DEF Unload, GoesOn, Busy, Errors, Fails
  <2>. QED
    BY <2>1
<1>22. ASSUME NEW d \in Drive, CallFails(d)
      PROVE  Shape
  <2>1. GoesOn(d)
    BY <1>22 DEF CallFails, GoesOn, Busy, Errors, Fails, FailsTo, AfterNoLoad
  <2>. QED
    BY <2>1
<1>23. ASSUME NEW d \in Drive, Dies(d)
      PROVE  Shape
  <2>1. Drops(d)
    BY <1>23 DEF Dies, Drops, PutDown, Busy
  <2>. QED
    BY <2>1
<1>24. ASSUME NEW d \in Drive, DiesFormatting(d)
      PROVE  Shape
  <2>1. GoesOn(d)
    BY <1>24 DEF DiesFormatting, GoesOn, Busy, Errors
  <2>. QED
    BY <2>1
<1>25. ASSUME NEW d \in Drive, DiesReporting(d)
      PROVE  Shape
  <2>1. Reports(d)
    BY <1>25 DEF DiesReporting, Reports, PutDown
  <2>. QED
    BY <2>1
<1>26. ASSUME NEW d \in Drive, OperatorUnloads(d)
      PROVE  Shape
  BY <1>26 DEF OperatorUnloads, Elsewhere
<1>27. CASE Crash
  BY <1>27
<1>28. CASE UNCHANGED vars
  BY <1>28 DEF vars, Elsewhere
<1>. QED
  BY <1>1, <1>2, <1>3, <1>4, <1>5, <1>6, <1>7, <1>8, <1>9, <1>10, <1>11,
     <1>12, <1>13, <1>14, <1>15, <1>16, <1>17, <1>18, <1>19, <1>20,
     <1>21, <1>22, <1>23, <1>24, <1>25, <1>26, <1>27, <1>28
  DEF Next, JobStep, ThreadStep, FaultStep
-----------------------------------------------------------------------------
(* The invariants that make the promise inductive.                         *)

(* A tape is in one place only: waiting, in the hand of one thread, or in  *)
(* one list of its job.  Of a job that has not begun nothing is anywhere.  *)
Waiting(j) == Range(queue[j])

TapesApart ==
  /\ \A j \in Job : IsInjective(queue[j])
  /\ \A j \in Job : Waiting(j) \cap Reported(j) = {}
  /\ \A d \in Drive : pc[d] \in Busy =>
       tape[d] \notin Waiting(owner[d]) /\ tape[d] \notin Reported(owner[d])
  /\ \A c, d \in Drive : c # d /\ pc[c] \in Busy /\ pc[d] \in Busy
                        /\ owner[c] = owner[d] => tape[c] # tape[d]
  /\ \A j \in Job : state[j] \in {"new", "check"} =>
       queue[j] = <<>> /\ Reported(j) = {}

LEMMA ThreadsStep == TypeOK /\ ThreadsSound /\ Shape => ThreadsSound'
<1>. SUFFICES ASSUME TypeOK, ThreadsSound, Shape PROVE ThreadsSound'
  OBVIOUS
<1>. USE DEF TypeOK, ThreadsSound, Live, Goto, world, catalogue, library, jobs,
             threads, bounds, history
<1>1. ASSUME NEW j \in Job, NEW r \in Request, Start(j, r)
      PROVE  ThreadsSound'
  BY <1>1 DEF Start, FreeDrives
<1>2. ASSUME NEW j \in Job, Check(j)
      PROVE  ThreadsSound'
  <2>1. \A d \in Drive : owner[d] = j => pc[d] = "idle"
    BY <1>2 DEF Check
  <2>2. \A d \in Drive : pc'[d] = IF owner[d] = j THEN "take" ELSE pc[d]
    BY <1>2 DEF Check
  <2>3. \A i \in Job : state'[i] = IF i = j THEN "running" ELSE state[i]
    BY <1>2 DEF Check
  <2>4. j # NoJob
    BY JobIds
  <2>5. UNCHANGED <<owner, tape, request>> /\ state[j] = "check"
    BY <1>2 DEF Check
  <2>. QED
    BY <2>1, <2>2, <2>3, <2>4, <2>5 DEF Busy
<1>3. ASSUME NEW j \in Job, Stops(j)
      PROVE  ThreadsSound'
  BY <1>3 DEF Stops, Ends, Drives
<1>4. ASSUME NEW d \in Drive, Take(d)
      PROVE  ThreadsSound'
  <2>1. Head(queue[owner[d]]) \in Tape
    BY <1>4, TakingHead DEF Take, Gets
  <2>. QED
    BY <1>4, <2>1, TapeIds DEF Take, Gets, Busy
<1>5. ASSUME NEW d \in Drive, Skip(d)
      PROVE  ThreadsSound'
  BY <1>5 DEF Skip, Gets
<1>6. ASSUME NEW d \in Drive, ThreadEnds(d)
      PROVE  ThreadsSound'
  BY <1>6 DEF ThreadEnds, Busy
<1>7. ASSUME NEW d \in Drive, GoesOn(d)
      PROVE  ThreadsSound'
  BY <1>7 DEF GoesOn, Busy
<1>8. ASSUME NEW d \in Drive, Drops(d)
      PROVE  ThreadsSound'
  BY <1>8 DEF Drops, Busy
<1>9. ASSUME NEW d \in Drive, Reports(d)
      PROVE  ThreadsSound'
  BY <1>9 DEF Reports, Busy
<1>10. CASE Crash
  BY <1>10 DEF Crash, Busy
<1>11. CASE Elsewhere
  BY <1>11 DEF Elsewhere
<1>. QED
  BY <1>1, <1>2, <1>3, <1>4, <1>5, <1>6, <1>7, <1>8, <1>9, <1>10, <1>11 DEF Shape

(* A verdict on a tape is a verdict on no other. *)
Notes(j, t) ==
  \E v \in {"succeeded", "failed", "skipped"} :
    verdict' = [verdict EXCEPT ![j][v] = verdict[j][v] \cup {t}]

LEMMA ReportedGrows ==
  ASSUME TypeOK, NEW j \in Job, NEW t \in Tape, Notes(j, t)
  PROVE  \A i \in Job : Listed(verdict'[i]) =
           IF i = j THEN Listed(verdict[i]) \cup {t} ELSE Listed(verdict[i])
<1>. PICK v \in {"succeeded", "failed", "skipped"} :
       verdict' = [verdict EXCEPT ![j][v] = verdict[j][v] \cup {t}]
  BY DEF Notes
<1>1. verdict \in [Job -> Lists] /\ verdict' \in [Job -> Lists]
  BY ListsGrow DEF TypeOK, Lists
<1>2. \A i \in Job : \A w \in {"succeeded", "failed", "skipped"} :
         verdict'[i][w] = IF i = j /\ w = v THEN verdict[i][w] \cup {t} ELSE verdict[i][w]
  BY <1>1 DEF Lists
<1>3. CASE v = "succeeded"
  BY <1>2, <1>3 DEF Listed
<1>4. CASE v = "failed"
  BY <1>2, <1>4 DEF Listed
<1>5. CASE v = "skipped"
  BY <1>2, <1>5 DEF Listed
<1>. QED
  BY <1>3, <1>4, <1>5

LEMMA TapesApartStep == TypeOK /\ ThreadsSound /\ TapesApart /\ Shape => TapesApart'
<1>. SUFFICES ASSUME TypeOK, ThreadsSound, TapesApart, Shape PROVE TapesApart'
  OBVIOUS
<1>. DEFINE Free(e) == /\ tape[e] \notin Range(queue[owner[e]])
                       /\ tape[e] \notin Listed(verdict[owner[e]])
<1>a. /\ queue \in [Job -> Seq(Tape)] /\ verdict \in [Job -> Lists]
      /\ tape \in [Drive -> Tape \cup {NoTape}] /\ pc = [e \in Drive |-> pc[e]]
      /\ state = [j \in Job |-> state[j]] /\ owner = [e \in Drive |-> owner[e]]
      /\ \A e \in Drive : owner[e] \in Job \cup {NoJob}
  BY DEF TypeOK, Lists
<1>b. \A e \in Drive : pc[e] # "idle" => owner[e] \in Job /\ state[owner[e]] = "running"
  BY <1>a DEF ThreadsSound
<1>c. \A e \in Drive : pc[e] \in Busy => owner[e] \in Job /\ tape[e] \in Tape
  BY <1>a, <1>b DEF ThreadsSound, Busy
<1>d. \A j \in Job : IsInjective(queue[j]) /\ Range(queue[j]) \cap Listed(verdict[j]) = {}
  BY DEF TapesApart, Waiting, Reported
<1>e. \A e \in Drive : pc[e] \in Busy => Free(e)
  BY DEF TapesApart, Waiting, Reported
<1>f. \A c, e \in Drive : c # e /\ pc[c] \in Busy /\ pc[e] \in Busy
                          /\ owner[c] = owner[e] => tape[c] # tape[e]
  BY DEF TapesApart
<1>g. \A j \in Job : state[j] \in {"new", "check"} =>
         queue[j] = <<>> /\ Listed(verdict[j]) = {}
  BY DEF TapesApart, Reported
(* Nothing moves to another place, and no job goes back to its beginning. *)
<1>h. ASSUME \A j \in Job : queue'[j] = queue[j] /\ verdict'[j] = verdict[j],
             \A e \in Drive : pc'[e] \in Busy =>
               pc[e] \in Busy /\ tape'[e] = tape[e] /\ owner'[e] = owner[e],
             \A j \in Job : state'[j] \in {"new", "check"} => state[j] \in {"new", "check"}
      PROVE  TapesApart'
  <2>1. ASSUME NEW e \in Drive, pc'[e] \in Busy PROVE Free(e)'
    <3>1. pc[e] \in Busy /\ tape'[e] = tape[e] /\ owner'[e] = owner[e] /\ owner[e] \in Job
      BY <1>c, <1>h, <2>1
    <3>. QED
      BY <1>e, <1>h, <3>1
  <2>. QED
    BY <1>d, <1>f, <1>g, <1>h, <2>1 DEF TapesApart, Waiting, Reported
<1>1. ASSUME NEW j \in Job, NEW r \in Request, Start(j, r)
      PROVE  TapesApart'
  <2>1. UNCHANGED <<queue, verdict, pc, tape>>
    BY <1>1 DEF Start
  <2>2. \A e \in Drive : pc[e] \in Busy => owner'[e] = owner[e]
    <3>1. \A e \in Drive : owner'[e] = owner[e] \/ owner[e] = NoJob
      BY <1>1 DEF Start, FreeDrives
    <3>. QED
      BY <1>c, <3>1, JobIds
  <2>3. \A i \in Job : state'[i] \in {"new", "check"} => state[i] \in {"new", "check"}
    BY <1>1, <1>a DEF Start
  <2>. QED
    BY <1>h, <2>1, <2>2, <2>3
<1>2. ASSUME NEW j \in Job, Check(j)
      PROVE  TapesApart'
  <2>1. UNCHANGED <<verdict, owner, tape>> /\ Listed(verdict[j]) = {}
    BY <1>2, <1>g DEF Check
  <2>2. \A e \in Drive : pc'[e] \in Busy => pc[e] \in Busy /\ owner[e] # j
    BY <1>2, <1>a DEF Check, Busy
  <2>3. IsInjective(request[j].tapes)
    BY <1>2, RequestShape DEF Check, ThreadsSound
  <2>4. queue'[j] = request[j].tapes /\ \A i \in Job : i # j => queue'[i] = queue[i]
    BY <1>2, <1>a DEF Check
  <2>5. state'[j] = "running" /\ \A i \in Job : i # j => state'[i] = state[i]
    BY <1>2, <1>a DEF Check
  <2>6. ASSUME NEW e \in Drive, pc'[e] \in Busy PROVE Free(e)'
    <3>1. pc[e] \in Busy /\ owner[e] \in Job /\ owner[e] # j
      BY <1>c, <2>2, <2>6
    <3>. QED
      BY <1>e, <2>1, <2>4, <3>1
  <2>7. \A i \in Job : IsInjective(queue'[i]) /\ Range(queue'[i]) \cap Listed(verdict'[i]) = {}
    BY <1>d, <2>1, <2>3, <2>4
  <2>8. \A i \in Job : state'[i] \in {"new", "check"} =>
           queue'[i] = <<>> /\ Listed(verdict'[i]) = {}
    BY <1>g, <2>1, <2>4, <2>5
  <2>9. \A c, e \in Drive : c # e /\ pc'[c] \in Busy /\ pc'[e] \in Busy
                            /\ owner'[c] = owner'[e] => tape'[c] # tape'[e]
    BY <1>f, <2>1, <2>2
  <2>. QED
    BY <2>6, <2>7, <2>8, <2>9 DEF TapesApart, Waiting, Reported
<1>3. ASSUME NEW j \in Job, Stops(j)
      PROVE  TapesApart'
  <2>1. UNCHANGED <<queue, verdict, pc, tape>>
    BY <1>3 DEF Stops
  <2>2. \A e \in Drive : pc[e] \in Busy => owner'[e] = owner[e]
    BY <1>3, <1>a DEF Stops, Ends, Drives, Busy
  <2>3. \A i \in Job : state'[i] \in {"new", "check"} => state[i] \in {"new", "check"}
    BY <1>3, <1>a DEF Stops, Ends
  <2>. QED
    BY <1>h, <2>1, <2>2, <2>3
<1>4. ASSUME NEW d \in Drive, Take(d)
      PROVE  TapesApart'
  <2>. DEFINE q == queue[owner[d]]
  <2>1. owner[d] \in Job /\ q \in Seq(Tape) /\ q # <<>> /\ pc[d] \notin Busy
        /\ state[owner[d]] = "running"
    BY <1>4, <1>a, <1>b DEF Take, Gets, Busy
  <2>2. /\ Head(q) \in Range(q) /\ IsInjective(Tail(q))
        /\ Range(Tail(q)) = Range(q) \ {Head(q)}
    BY <1>d, <2>1, TakingHead
  <2>3. queue'[owner[d]] = Tail(q) /\ \A i \in Job : i # owner[d] => queue'[i] = queue[i]
    BY <1>4, <1>a, <2>1 DEF Take, Gets, Remaining
  <2>4. tape'[d] = Head(q) /\ \A e \in Drive : e # d => tape'[e] = tape[e] /\ pc'[e] = pc[e]
    BY <1>4, <1>a DEF Take, Goto
  <2>5. UNCHANGED <<verdict, owner, state>>
    BY <1>4 DEF Take, Gets
  <2>. HIDE DEF q
  <2>6. \A i \in Job : /\ IsInjective(queue'[i]) /\ Range(queue'[i]) \subseteq Range(queue[i])
                       /\ Range(queue'[i]) \cap Listed(verdict'[i]) = {}
    BY <1>d, <2>2, <2>3, <2>5 DEF q
  <2>7. Head(q) \notin Listed(verdict[owner[d]]) /\ Head(q) \notin Range(queue'[owner[d]])
    BY <1>d, <2>1, <2>2, <2>3 DEF q
  <2>8. \A e \in Drive : e # d /\ pc'[e] \in Busy =>
           /\ pc[e] \in Busy /\ owner[e] \in Job /\ Free(e)
           /\ owner[e] = owner[d] => tape[e] # Head(q)
    BY <1>c, <1>e, <2>2, <2>4 DEF q
  <2>9. ASSUME NEW e \in Drive, pc'[e] \in Busy PROVE Free(e)'
    <3>1. CASE e = d
      BY <2>4, <2>5, <2>7, <3>1
    <3>2. CASE e # d
      BY <2>4, <2>5, <2>6, <2>8, <2>9, <3>2
    <3>. QED
      BY <3>1, <3>2
  <2>10. \A c, e \in Drive : c # e /\ pc'[c] \in Busy /\ pc'[e] \in Busy
                             /\ owner'[c] = owner'[e] => tape'[c] # tape'[e]
    BY <1>f, <2>4, <2>5, <2>8
  <2>11. \A i \in Job : state'[i] \in {"new", "check"} =>
            queue'[i] = <<>> /\ Listed(verdict'[i]) = {}
    BY <1>g, <2>1, <2>3, <2>5
  <2>. QED
    BY <2>6, <2>9, <2>10, <2>11 DEF TapesApart, Waiting, Reported
<1>5. ASSUME NEW d \in Drive, Skip(d)
      PROVE  TapesApart'
  <2>. DEFINE q == queue[owner[d]]
  <2>1. owner[d] \in Job /\ q \in Seq(Tape) /\ q # <<>> /\ state[owner[d]] = "running"
    BY <1>5, <1>a, <1>b DEF Skip, Gets
  <2>2. /\ Head(q) \in Range(q) /\ Head(q) \in Tape /\ IsInjective(Tail(q))
        /\ Range(Tail(q)) = Range(q) \ {Head(q)}
    BY <1>d, <2>1, TakingHead
  <2>3. queue'[owner[d]] = Tail(q) /\ \A i \in Job : i # owner[d] => queue'[i] = queue[i]
    BY <1>5, <1>a, <2>1 DEF Skip, Gets, Remaining
  <2>4. /\ Listed(verdict'[owner[d]]) = Listed(verdict[owner[d]]) \cup {Head(q)}
        /\ \A i \in Job : i # owner[d] => Listed(verdict'[i]) = Listed(verdict[i])
    <3>1. Notes(owner[d], Head(q))
      BY <1>5 DEF Skip, Skipped, Notes
    <3>. HIDE DEF q
    <3>. QED
      <4>1. \A j \in Job : Listed(verdict'[j]) =
               IF j = owner[d] THEN Listed(verdict[j]) \cup {Head(q)} ELSE Listed(verdict[j])
        BY <2>1, <2>2, <3>1, ReportedGrows
      <4>. QED
        BY <2>1, <4>1
  <2>5. UNCHANGED <<owner, state, pc, tape>>
    BY <1>5 DEF Skip, Gets
  <2>. HIDE DEF q
  <2>6. \A i \in Job : IsInjective(queue'[i]) /\ Range(queue'[i]) \cap Listed(verdict'[i]) = {}
    BY <1>d, <2>2, <2>3, <2>4 DEF q
  <2>7. ASSUME NEW e \in Drive, pc'[e] \in Busy PROVE Free(e)'
    <3>1. /\ owner[e] \in Job /\ Free(e) /\ tape'[e] = tape[e] /\ owner'[e] = owner[e]
      BY <1>c, <1>e, <2>5, <2>7
    <3>2. CASE owner[e] = owner[d]
      BY <2>2, <2>3, <2>4, <3>1, <3>2 DEF q
    <3>3. CASE owner[e] # owner[d]
      BY <2>3, <2>4, <3>1, <3>3
    <3>. QED
      BY <3>2, <3>3
  <2>8. \A i \in Job : state'[i] \in {"new", "check"} =>
           queue'[i] = <<>> /\ Listed(verdict'[i]) = {}
    BY <1>g, <2>1, <2>3, <2>4, <2>5
  <2>. QED
    BY <1>f, <2>5, <2>6, <2>7, <2>8 DEF TapesApart, Waiting, Reported
<1>6. ASSUME NEW d \in Drive, ThreadEnds(d)
      PROVE  TapesApart'
  <2>1. UNCHANGED <<queue, verdict, owner, tape, state>>
    BY <1>6 DEF ThreadEnds, world, jobs
  <2>2. \A e \in Drive : pc'[e] \in Busy => pc[e] \in Busy
    BY <1>6, <1>a DEF ThreadEnds, Goto, Busy
  <2>. QED
    BY <1>h, <2>1, <2>2
<1>7. ASSUME NEW d \in Drive, GoesOn(d)
      PROVE  TapesApart'
  <2>1. UNCHANGED <<queue, verdict, owner, tape, state>>
    BY <1>7 DEF GoesOn
  <2>2. \A e \in Drive : pc'[e] \in Busy => pc[e] \in Busy
    BY <1>7, <1>a DEF GoesOn, Goto
  <2>. QED
    BY <1>h, <2>1, <2>2
<1>8. ASSUME NEW d \in Drive, Drops(d)
      PROVE  TapesApart'
  <2>1. UNCHANGED <<queue, verdict, owner, state>>
    BY <1>8 DEF Drops
  <2>2. \A e \in Drive : pc'[e] \in Busy => pc[e] \in Busy /\ tape'[e] = tape[e]
    BY <1>8, <1>a DEF Drops, Goto, Busy
  <2>. QED
    BY <1>h, <2>1, <2>2
<1>9. ASSUME NEW d \in Drive, Reports(d)
      PROVE  TapesApart'
  <2>1. owner[d] \in Job /\ tape[d] \in Tape /\ pc[d] \in Busy
        /\ state[owner[d]] = "running"
    BY <1>9, <1>b, <1>c DEF Reports, Busy
  <2>2. /\ Listed(verdict'[owner[d]]) = Listed(verdict[owner[d]]) \cup {tape[d]}
        /\ \A i \in Job : i # owner[d] => Listed(verdict'[i]) = Listed(verdict[i])
    <3>1. Notes(owner[d], tape[d])
      BY <1>9 DEF Reports, Verdict, Notes
    <3>2. \A i \in Job : Listed(verdict'[i]) =
             IF i = owner[d] THEN Listed(verdict[i]) \cup {tape[d]} ELSE Listed(verdict[i])
      BY <2>1, <3>1, ReportedGrows
    <3>. QED
      BY <2>1, <3>2
  <2>3. UNCHANGED <<state, queue, owner>>
    BY <1>9 DEF Reports
  <2>4. \A e \in Drive : pc'[e] \in Busy => e # d /\ pc[e] \in Busy /\ tape'[e] = tape[e]
    BY <1>9, <1>a DEF Reports, Goto, Busy
  <2>5. \A i \in Job : Range(queue'[i]) \cap Listed(verdict'[i]) = {}
    BY <1>d, <1>e, <2>1, <2>2, <2>3
  <2>6. ASSUME NEW e \in Drive, pc'[e] \in Busy PROVE Free(e)'
    <3>1. /\ owner[e] \in Job /\ Free(e) /\ tape'[e] = tape[e]
          /\ owner[e] = owner[d] => tape[e] # tape[d]
      BY <1>c, <1>e, <1>f, <2>1, <2>4, <2>6
    <3>2. CASE owner[e] = owner[d]
      BY <2>2, <2>3, <3>1, <3>2
    <3>3. CASE owner[e] # owner[d]
      BY <2>2, <2>3, <3>1, <3>3
    <3>. QED
      BY <3>2, <3>3
  <2>7. \A i \in Job : state'[i] \in {"new", "check"} =>
           queue'[i] = <<>> /\ Listed(verdict'[i]) = {}
    BY <1>g, <2>1, <2>2, <2>3
  <2>. QED
    BY <1>d, <1>f, <2>3, <2>4, <2>5, <2>6, <2>7 DEF TapesApart, Waiting, Reported
<1>10. CASE Crash
  <2>1. \A j \in Job : queue'[j] = <<>>
    BY <1>10 DEF Crash
  <2>2. IsInjective(<<>>) /\ Range(<<>>) = {}
    BY DEF IsInjective, Range
  <2>3. \A e \in Drive : pc'[e] \notin Busy
    BY <1>10 DEF Crash, Busy
  <2>4. verdict' = verdict
        /\ \A j \in Job : state'[j] \in {"new", "check"} => state[j] \in {"new", "check"}
    BY <1>10, <1>a DEF Crash, Live
  <2>. QED
    BY <1>g, <2>1, <2>2, <2>3, <2>4 DEF TapesApart, Waiting, Reported
<1>11. CASE Elsewhere
  BY <1>h, <1>11 DEF Elsewhere
<1>. QED
  BY <1>1, <1>2, <1>3, <1>4, <1>5, <1>6, <1>7, <1>8, <1>9, <1>10, <1>11 DEF Shape
-----------------------------------------------------------------------------
(* The tapes in the hands of a job's threads. *)
Hand(j) == {tape[d] : d \in Drives(j)} \ {NoTape}

(* What each shape of a step does to them. *)
LEMMA HandSame ==
  ASSUME NEW j \in Job,
         \A d \in Drive : tape[d] # NoTape \/ tape'[d] # NoTape =>
           tape'[d] = tape[d] /\ owner'[d] = owner[d]
  PROVE  Hand(j)' = Hand(j)
  BY DEF Hand, Drives

LEMMA HandTakes ==
  ASSUME NEW d \in Drive, NEW t \in Tape, owner[d] \in Job, tape[d] = NoTape,
         UNCHANGED owner, tape'[d] = t, \A e \in Drive : e # d => tape'[e] = tape[e]
  PROVE  \A j \in Job : Hand(j)' = IF j = owner[d] THEN Hand(j) \cup {t} ELSE Hand(j)
  BY TapeIds DEF Hand, Drives

LEMMA HandGives ==
  ASSUME NEW d \in Drive, owner[d] \in Job, tape[d] # NoTape,
         UNCHANGED owner, tape'[d] = NoTape,
         \A e \in Drive : e # d => tape'[e] = tape[e],
         \A e \in Drive : e # d /\ owner[e] = owner[d] => tape[e] # tape[d]
  PROVE  \A j \in Job :
           Hand(j)' = IF j = owner[d] THEN Hand(j) \ {tape[d]} ELSE Hand(j)
  BY DEF Hand, Drives

(* While a thread of the job has none, fewer are in hand than there are    *)
(* drives.                                                                 *)
LEMMA HandFits ==
  ASSUME NEW d \in Drive, tape[d] = NoTape, NEW j \in Job
  PROVE  Cardinality(Hand(j)) < Cardinality(Drive)
<1>. DEFINE S == {e \in Drives(j) : tape[e] # NoTape}
            f == [e \in S |-> tape[e]]
<1>1. f \in Surjection(S, Hand(j))
  <2>1. f \in [S -> Hand(j)]
    BY DEF Hand
  <2>2. ASSUME NEW t \in Hand(j) PROVE \E e \in S : f[e] = t
    BY <2>2 DEF Hand
  <2>. HIDE DEF S, f
  <2>. QED
    BY <2>1, <2>2 DEF Surjection
<1>2. S \in SUBSET (Drive \ {d})
  BY DEF Drives
<1>3. /\ IsFiniteSet(Drive \ {d}) /\ Cardinality(Drive \ {d}) = Cardinality(Drive) - 1
      /\ Cardinality(Drive) \in Nat
  BY Places, FS_RemoveElement, FS_CardinalityType
<1>. HIDE DEF S, f
<1>4. IsFiniteSet(S) /\ Cardinality(S) <= Cardinality(Drive) - 1
  BY <1>2, <1>3, FS_Subset
<1>5. IsFiniteSet(Hand(j)) /\ Cardinality(Hand(j)) <= Cardinality(S)
  BY <1>1, <1>4, FS_Surjection
<1>6. Cardinality(Hand(j)) \in Nat /\ Cardinality(S) \in Nat
  BY <1>4, <1>5, FS_CardinalityType
<1>. QED
  BY <1>3, <1>4, <1>5, <1>6
-----------------------------------------------------------------------------
(* A batch is kept whole.                                                  *)

Apart(lists) ==
  /\ lists.succeeded \cap lists.failed = {}
  /\ lists.skipped \cap (lists.succeeded \cup lists.failed) = {}

(* A thread ends early only when the database raises; until then no tape   *)
(* is lost, and a thread that has ended has left an empty queue.           *)
NoneLost ==
  /\ \A j \in Job : Apart(verdict[j])
  /\ \A d \in Drive : error[d] = "fatal" => dbErrors > 0
  /\ \A j \in Job : Live(j) => Drives(j) # {}
  /\ dbErrors = 0 =>
       /\ \A j \in Job : state[j] = "running" =>
            Batch(j) = Waiting(j) \cup Hand(j) \cup Reported(j)
       /\ \A d \in Drive : owner[d] # NoJob /\ state[owner[d]] = "running"
            /\ pc[d] = "idle" => queue[owner[d]] = <<>>
       /\ \A j \in Job : state[j] = "returned" => Reported(j) = Batch(j)
       /\ \A j \in Job : state[j] = "raised" => Reported(j) \in {Batch(j), {}}

LEMMA ListsStayApart ==
  ASSUME TypeOK, NEW j \in Job, NEW t \in Tape,
         Notes(j, t), t \notin Listed(verdict[j]), \A i \in Job : Apart(verdict[i])
  PROVE  \A i \in Job : Apart(verdict'[i])
<1>. PICK v \in {"succeeded", "failed", "skipped"} :
       verdict' = [verdict EXCEPT ![j][v] = verdict[j][v] \cup {t}]
  BY DEF Notes
<1>1. verdict \in [Job -> Lists]
  BY DEF TypeOK, Lists
<1>2. \A i \in Job : i # j => verdict'[i] = verdict[i]
  BY <1>1
<1>3. \A w \in {"succeeded", "failed", "skipped"} :
         verdict'[j][w] = IF w = v THEN verdict[j][w] \cup {t} ELSE verdict[j][w]
  BY <1>1 DEF Lists
<1>4. CASE v = "succeeded"
  BY <1>2, <1>3, <1>4 DEF Listed, Apart
<1>5. CASE v = "failed"
  BY <1>2, <1>3, <1>5 DEF Listed, Apart
<1>6. CASE v = "skipped"
  BY <1>2, <1>3, <1>6 DEF Listed, Apart
<1>. QED
  BY <1>4, <1>5, <1>6

LEMMA NoneLostStep ==
  TypeOK /\ ThreadsSound /\ TapesApart /\ NoneLost /\ Shape => NoneLost'
<1>. SUFFICES ASSUME TypeOK, ThreadsSound, TapesApart, NoneLost, Shape
              PROVE  NoneLost'
  OBVIOUS
<1>a. /\ queue \in [Job -> Seq(Tape)] /\ dbErrors \in Nat
      /\ tape = [e \in Drive |-> tape[e]] /\ pc = [e \in Drive |-> pc[e]]
      /\ state = [j \in Job |-> state[j]] /\ owner = [e \in Drive |-> owner[e]]
      /\ request = [j \in Job |-> request[j]] /\ error = [e \in Drive |-> error[e]]
      /\ \A e \in Drive : owner[e] \in Job \cup {NoJob}
  BY DEF TypeOK
<1>b. \A e \in Drive : pc[e] # "idle" => owner[e] \in Job /\ state[owner[e]] = "running"
  BY <1>a DEF ThreadsSound
<1>c. \A e \in Drive : pc[e] \in Busy => owner[e] \in Job /\ tape[e] \in Tape
  BY <1>b DEF TypeOK, ThreadsSound, Busy
<1>d. \A e \in Drive : tape[e] = NoTape <=> pc[e] \notin Busy
  BY DEF ThreadsSound
<1>e. \A j \in Job : Apart(verdict[j])
  BY DEF NoneLost
<1>f. \A e \in Drive : error[e] = "fatal" => dbErrors > 0
  BY DEF NoneLost
<1>g. \A j \in Job : Live(j) => \E e \in Drive : owner[e] = j
  BY DEF NoneLost, Drives
<1>h. dbErrors = 0 => \A j \in Job : state[j] = "running" =>
        Batch(j) = Range(queue[j]) \cup Hand(j) \cup Listed(verdict[j])
  BY DEF NoneLost, Waiting, Reported
<1>i. dbErrors = 0 => \A e \in Drive : owner[e] # NoJob /\ state[owner[e]] = "running"
        /\ pc[e] = "idle" => queue[owner[e]] = <<>>
  BY DEF NoneLost
<1>j. dbErrors = 0 => \A j \in Job :
        /\ state[j] = "returned" => Listed(verdict[j]) = Batch(j)
        /\ state[j] = "raised" => Listed(verdict[j]) \in {Batch(j), {}}
  BY DEF NoneLost, Reported
(* A step of a job's thread: the job goes on, and a thread that gives up   *)
(* has found the queue empty.                                              *)
<1>k. ASSUME UNCHANGED <<state, request, owner>>, dbErrors' \in {dbErrors, dbErrors + 1},
             \A j \in Job : Apart(verdict'[j]),
             \A e \in Drive : error'[e] = "fatal" => dbErrors' > 0,
             dbErrors' = 0 => \A j \in Job : state[j] = "running" =>
               Range(queue'[j]) \cup Hand(j)' \cup Listed(verdict'[j])
                 = Range(queue[j]) \cup Hand(j) \cup Listed(verdict[j]),
             dbErrors' = 0 => \A e \in Drive : owner[e] \in Job
               /\ state[owner[e]] = "running" /\ pc'[e] = "idle" => queue'[owner[e]] = <<>>,
             \A j \in Job : state[j] # "running" => verdict'[j] = verdict[j]
      PROVE  NoneLost'
  <2>1. dbErrors' = 0 => dbErrors = 0
    BY <1>a, <1>k
  <2>2. \A j \in Job : Batch(j)' = Batch(j) /\ (Live(j)' => Drives(j)' # {})
    BY <1>g, <1>k DEF Batch, Live, Drives
  <2>3. dbErrors' = 0 => \A j \in Job : state'[j] = "running" =>
          Batch(j)' = Range(queue'[j]) \cup Hand(j)' \cup Listed(verdict'[j])
    BY <1>h, <1>k, <2>1, <2>2
  <2>4. dbErrors' = 0 => \A e \in Drive : owner'[e] # NoJob
          /\ state'[owner'[e]] = "running" /\ pc'[e] = "idle" => queue'[owner'[e]] = <<>>
    BY <1>a, <1>k
  <2>5. dbErrors' = 0 => \A j \in Job :
          /\ state'[j] = "returned" => Listed(verdict'[j]) = Batch(j)'
          /\ state'[j] = "raised" => Listed(verdict'[j]) \in {Batch(j)', {}}
    BY <1>j, <1>k, <2>1, <2>2
  <2>. QED
    BY <1>k, <2>2, <2>3, <2>4, <2>5 DEF NoneLost, Waiting, Reported
<1>1. ASSUME NEW j \in Job, NEW r \in Request, Start(j, r)
      PROVE  NoneLost'
  <2>1. UNCHANGED <<queue, verdict, pc, tape, error, dbErrors>>
    BY <1>1 DEF Start, bounds
  <2>2. /\ state'[j] = "check" /\ request'[j] = r
        /\ \A i \in Job : i # j => state'[i] = state[i] /\ request'[i] = request[i]
    BY <1>1, <1>a DEF Start
  <2>3. /\ \E e \in Drive : owner'[e] = j
        /\ \A e \in Drive : owner'[e] = owner[e] \/ (owner'[e] = j /\ owner[e] = NoJob)
    BY <1>1 DEF Start, FreeDrives
  <2>4. j # NoJob
    BY JobIds
  <2>5. ASSUME NEW i \in Job, Live(i)' PROVE Drives(i)' # {}
    <3>1. CASE i = j
      BY <2>3, <3>1 DEF Drives
    <3>2. CASE i # j
      <4>1. PICK e \in Drive : owner[e] = i
        BY <1>g, <2>2, <2>5, <3>2 DEF Live
      <4>2. owner'[e] = i
        BY <2>3, <4>1, JobIds
      <4>. QED
        BY <4>2 DEF Drives
    <3>. QED
      BY <3>1, <3>2
  <2>6. \A i \in Job : i # j => Batch(i)' = Batch(i) /\ Hand(i)' = Hand(i)
    <3>1. \A e \in Drive : tape[e] # NoTape \/ tape'[e] # NoTape =>
             tape'[e] = tape[e] /\ owner'[e] = owner[e]
      BY <1>c, <1>d, <2>1, <2>3, <2>4, JobIds
    <3>. QED
      BY <2>2, <3>1, HandSame DEF Batch
  <2>7. dbErrors = 0 => \A i \in Job : state'[i] = "running" =>
          Batch(i)' = Range(queue'[i]) \cup Hand(i)' \cup Listed(verdict'[i])
    BY <1>h, <2>1, <2>2, <2>6
  <2>8. dbErrors = 0 => \A e \in Drive : owner'[e] # NoJob
          /\ state'[owner'[e]] = "running" /\ pc'[e] = "idle" => queue'[owner'[e]] = <<>>
    BY <1>a, <1>i, <2>1, <2>2, <2>3
  <2>9. dbErrors = 0 => \A i \in Job :
          /\ state'[i] = "returned" => Listed(verdict'[i]) = Batch(i)'
          /\ state'[i] = "raised" => Listed(verdict'[i]) \in {Batch(i)', {}}
    BY <1>j, <2>1, <2>2, <2>6
  <2>. QED
    BY <1>e, <1>f, <2>1, <2>5, <2>7, <2>8, <2>9 DEF NoneLost, Waiting, Reported
<1>2. ASSUME NEW j \in Job, Check(j)
      PROVE  NoneLost'
  <2>1. UNCHANGED <<request, verdict, owner, tape, error, dbErrors>>
        /\ state[j] = "check" /\ Listed(verdict[j]) = {}
    BY <1>2 DEF Check, TapesApart, Reported, bounds
  <2>2. /\ state'[j] = "running" /\ queue'[j] = request[j].tapes
        /\ \A i \in Job : i # j => state'[i] = state[i] /\ queue'[i] = queue[i]
    BY <1>2, <1>a DEF Check
  <2>3. \A e \in Drive : pc'[e] = IF owner[e] = j THEN "take" ELSE pc[e]
    BY <1>2 DEF Check
  <2>4. Hand(j) = {}
    <3>1. \A e \in Drive : owner[e] = j => tape[e] = NoTape
      BY <1>b, <1>d, <2>1 DEF Busy
    <3>. QED
      BY <3>1 DEF Hand, Drives
  <2>5. \A i \in Job : Batch(i)' = Batch(i) /\ Hand(i)' = Hand(i)
    BY <2>1 DEF Batch, Hand, Drives
  <2>6. Batch(j) = Range(queue'[j])
    BY <2>1, <2>2, RequestShape DEF Batch, ThreadsSound, NoRequest
  <2>7. \A i \in Job : Live(i)' => Drives(i)' # {}
    BY <1>g, <2>1, <2>2 DEF Live, Drives
  <2>8. dbErrors = 0 => \A i \in Job : state'[i] = "running" =>
          Batch(i)' = Range(queue'[i]) \cup Hand(i)' \cup Listed(verdict'[i])
    BY <1>h, <2>1, <2>2, <2>4, <2>5, <2>6
  <2>9. dbErrors = 0 => \A e \in Drive : owner'[e] # NoJob
          /\ state'[owner'[e]] = "running" /\ pc'[e] = "idle" => queue'[owner'[e]] = <<>>
    BY <1>a, <1>i, <2>1, <2>2, <2>3
  <2>10. dbErrors = 0 => \A i \in Job :
          /\ state'[i] = "returned" => Listed(verdict'[i]) = Batch(i)'
          /\ state'[i] = "raised" => Listed(verdict'[i]) \in {Batch(i)', {}}
    BY <1>j, <2>1, <2>2, <2>5
  <2>. QED
    BY <1>e, <1>f, <2>1, <2>7, <2>8, <2>9, <2>10 DEF NoneLost, Waiting, Reported
<1>3. ASSUME NEW j \in Job, Stops(j)
      PROVE  NoneLost'
  <2>1. UNCHANGED <<request, queue, verdict, pc, tape, error, dbErrors>>
    BY <1>3 DEF Stops
  <2>2. /\ state'[j] \in {"raised", "returned"} /\ state[j] \in {"check", "running"}
        /\ state[j] = "check" => state'[j] = "raised"
        /\ \A i \in Job : i # j => state'[i] = state[i]
    BY <1>3, <1>a DEF Stops, Ends
  <2>3. /\ \A e \in Drive : owner'[e] = IF owner[e] = j THEN NoJob ELSE owner[e]
        /\ \A e \in Drive : owner[e] = j => pc[e] = "idle" /\ tape[e] = NoTape
    BY <1>3, <1>d DEF Stops, Ends, Drives, Busy
  <2>4. \A i \in Job : Hand(i)' = Hand(i)
    BY <2>1, <2>3, HandSame
  <2>5. Hand(j) = {}
    BY <2>3 DEF Hand, Drives
  <2>6. \A i \in Job : Batch(i)' = Batch(i)
    BY <2>1 DEF Batch
  <2>7. \A i \in Job : Live(i)' => Drives(i)' # {}
    BY <1>g, <2>2, <2>3 DEF Live, Drives
  <2>8. dbErrors = 0 => /\ state'[j] = "returned" => Listed(verdict[j]) = Batch(j)
                        /\ state'[j] = "raised" => Listed(verdict[j]) \in {Batch(j), {}}
    <3>1. CASE state[j] = "check"
      BY <2>2, <3>1 DEF TapesApart, Reported
    <3>2. CASE state[j] = "running"
      <4>1. PICK e \in Drive : owner[e] = j
        BY <1>g, <3>2 DEF Live
      <4>2. dbErrors = 0 => queue[j] = <<>>
        BY <1>i, <2>3, <3>2, <4>1, JobIds
      <4>3. Range(<<>>) = {}
        BY DEF Range
      <4>. QED
        BY <1>h, <2>5, <3>2, <4>2, <4>3
    <3>. QED
      BY <2>2, <3>1, <3>2
  <2>9. dbErrors = 0 => \A i \in Job : state'[i] = "running" =>
          Batch(i)' = Range(queue'[i]) \cup Hand(i)' \cup Listed(verdict'[i])
    BY <1>h, <2>1, <2>2, <2>4, <2>6
  <2>10. dbErrors = 0 => \A e \in Drive : owner'[e] # NoJob
          /\ state'[owner'[e]] = "running" /\ pc'[e] = "idle" => queue'[owner'[e]] = <<>>
    BY <1>a, <1>i, <2>1, <2>2, <2>3
  <2>11. dbErrors = 0 => \A i \in Job :
          /\ state'[i] = "returned" => Listed(verdict'[i]) = Batch(i)'
          /\ state'[i] = "raised" => Listed(verdict'[i]) \in {Batch(i)', {}}
    BY <1>j, <2>1, <2>2, <2>6, <2>8
  <2>. QED
    BY <1>e, <1>f, <2>1, <2>7, <2>9, <2>10, <2>11 DEF NoneLost, Waiting, Reported
<1>4. ASSUME NEW d \in Drive, Take(d)
      PROVE  NoneLost'
  <2>. DEFINE q == queue[owner[d]]
  <2>1. /\ owner[d] \in Job /\ q \in Seq(Tape) /\ q # <<>> /\ tape[d] = NoTape
        /\ UNCHANGED <<state, request, owner, verdict, error, dbErrors>>
    BY <1>4, <1>a, <1>b, <1>d DEF Take, Gets, Busy, bounds
  <2>2. Head(q) \in Tape /\ Head(q) \in Range(q) /\ Range(Tail(q)) = Range(q) \ {Head(q)}
    BY <2>1, TakingHead DEF TapesApart
  <2>3. queue'[owner[d]] = Tail(q) /\ \A j \in Job : j # owner[d] => queue'[j] = queue[j]
    BY <1>4, <1>a, <2>1 DEF Take, Gets, Remaining
  <2>4. /\ tape'[d] = Head(q) /\ pc'[d] # "idle"
        /\ \A e \in Drive : e # d => tape'[e] = tape[e] /\ pc'[e] = pc[e]
    BY <1>4, <1>a DEF Take, Goto
  <2>5. \A j \in Job : Hand(j)' = IF j = owner[d] THEN Hand(j) \cup {Head(q)} ELSE Hand(j)
    <3>. HIDE DEF q
    <3>. QED
      BY <2>1, <2>2, <2>4, HandTakes
  <2>6. ASSUME NEW j \in Job
        PROVE  Range(queue'[j]) \cup Hand(j)' = Range(queue[j]) \cup Hand(j)
    <3>1. CASE j = owner[d]
      BY <2>2, <2>3, <2>5, <3>1
    <3>2. CASE j # owner[d]
      BY <2>3, <2>5, <3>2
    <3>. QED
      BY <3>1, <3>2
  <2>7. dbErrors = 0 => \A e \in Drive : owner[e] \in Job /\ state[owner[e]] = "running"
          /\ pc'[e] = "idle" => queue'[owner[e]] = <<>>
    <3>1. ASSUME dbErrors = 0, NEW e \in Drive, owner[e] \in Job,
                 state[owner[e]] = "running", pc'[e] = "idle"
          PROVE  queue'[owner[e]] = <<>>
      <4>1. queue[owner[e]] = <<>>
        BY <1>i, <2>4, <3>1, JobIds
      <4>. QED
        BY <2>1, <2>3, <3>1, <4>1
    <3>. QED
      BY <3>1
  <2>. HIDE DEF q
  <2>. QED
    BY <1>e, <1>f, <1>k, <2>1, <2>6, <2>7
<1>5. ASSUME NEW d \in Drive, Skip(d)
      PROVE  NoneLost'
  <2>. DEFINE q == queue[owner[d]]
  <2>1. /\ owner[d] \in Job /\ q \in Seq(Tape) /\ q # <<>> /\ state[owner[d]] = "running"
        /\ UNCHANGED <<state, request, owner, pc, tape, error, dbErrors>>
    BY <1>5, <1>a, <1>b DEF Skip, Gets, bounds
  <2>2. Head(q) \in Tape /\ Head(q) \in Range(q) /\ Range(Tail(q)) = Range(q) \ {Head(q)}
    BY <2>1, TakingHead DEF TapesApart
  <2>3. queue'[owner[d]] = Tail(q) /\ \A j \in Job : j # owner[d] => queue'[j] = queue[j]
    BY <1>5, <1>a, <2>1 DEF Skip, Gets, Remaining
  <2>4. Notes(owner[d], Head(q))
    BY <1>5 DEF Skip, Skipped, Notes
  <2>5. Head(q) \notin Listed(verdict[owner[d]])
    BY <2>1, <2>2 DEF TapesApart, Waiting, Reported
  <2>6. /\ Listed(verdict'[owner[d]]) = Listed(verdict[owner[d]]) \cup {Head(q)}
        /\ \A j \in Job : j # owner[d] => Listed(verdict'[j]) = Listed(verdict[j])
    <3>. HIDE DEF q
    <3>. QED
      <4>1. \A j \in Job : Listed(verdict'[j]) =
               IF j = owner[d] THEN Listed(verdict[j]) \cup {Head(q)} ELSE Listed(verdict[j])
        BY <2>1, <2>2, <2>4, ReportedGrows
      <4>. QED
        BY <2>1, <4>1
  <2>7. \A j \in Job : Apart(verdict'[j])
    <3>. HIDE DEF q
    <3>. QED
      BY <1>e, <2>1, <2>2, <2>4, <2>5, ListsStayApart
  <2>8. \A j \in Job : Hand(j)' = Hand(j)
    BY <2>1, HandSame
  <2>9. \A j \in Job : state[j] # "running" => verdict'[j] = verdict[j]
    BY <2>1, <2>4 DEF TypeOK, Notes
  <2>10. dbErrors = 0 => \A e \in Drive : owner[e] \in Job /\ state[owner[e]] = "running"
           /\ pc'[e] = "idle" => queue'[owner[e]] = <<>>
    <3>1. ASSUME dbErrors = 0, NEW e \in Drive, owner[e] \in Job,
                 state[owner[e]] = "running", pc'[e] = "idle"
          PROVE  queue'[owner[e]] = <<>>
      <4>1. queue[owner[e]] = <<>>
        BY <1>i, <2>1, <3>1, JobIds
      <4>. QED
        BY <2>1, <2>3, <3>1, <4>1
    <3>. QED
      BY <3>1
  <2>11. \A j \in Job : Range(queue'[j]) \cup Hand(j)' \cup Listed(verdict'[j])
           = Range(queue[j]) \cup Hand(j) \cup Listed(verdict[j])
    BY <2>2, <2>3, <2>6, <2>8
  <2>. HIDE DEF q
  <2>. QED
    BY <1>f, <1>k, <2>1, <2>7, <2>9, <2>10, <2>11
<1>6. ASSUME NEW d \in Drive, ThreadEnds(d)
      PROVE  NoneLost'
  <2>1. UNCHANGED <<state, request, queue, verdict, owner, tape, error, dbErrors>>
        /\ queue[owner[d]] = <<>>
    BY <1>6 DEF ThreadEnds, world, jobs, bounds
  <2>2. \A e \in Drive : e # d => pc'[e] = pc[e]
    BY <1>6, <1>a DEF ThreadEnds, Goto
  <2>3. \A j \in Job : Hand(j)' = Hand(j)
    BY <2>1, HandSame
  <2>4. dbErrors = 0 => \A e \in Drive : owner[e] \in Job /\ state[owner[e]] = "running"
           /\ pc'[e] = "idle" => queue'[owner[e]] = <<>>
    BY <1>i, <2>1, <2>2, JobIds
  <2>. QED
    BY <1>e, <1>f, <1>k, <2>1, <2>3, <2>4
<1>7. ASSUME NEW d \in Drive, GoesOn(d)
      PROVE  NoneLost'
  <2>1. UNCHANGED <<state, request, queue, verdict, owner, tape>>
        /\ dbErrors' \in {dbErrors, dbErrors + 1}
    BY <1>7 DEF GoesOn
  <2>2. \A e \in Drive : pc'[e] = "idle" => pc[e] = "idle"
    BY <1>7, <1>a DEF GoesOn, Goto, Busy
  <2>3. \A e \in Drive : error'[e] = "fatal" => dbErrors' > 0
    <3>1. \A e \in Drive : e # d => error'[e] = error[e]
      BY <1>7, <1>a DEF GoesOn
    <3>2. error'[d] = "fatal" => error[d] = "fatal" \/ dbErrors' > 0
      BY <1>7, <1>a DEF GoesOn
    <3>. QED
      BY <1>a, <1>f, <2>1, <3>1, <3>2
  <2>4. \A j \in Job : Hand(j)' = Hand(j)
    BY <2>1, HandSame
  <2>5. dbErrors' = 0 => \A e \in Drive : owner[e] \in Job /\ state[owner[e]] = "running"
           /\ pc'[e] = "idle" => queue'[owner[e]] = <<>>
    <3>1. ASSUME dbErrors' = 0, NEW e \in Drive, owner[e] \in Job,
                 state[owner[e]] = "running", pc'[e] = "idle"
          PROVE  queue'[owner[e]] = <<>>
      <4>1. dbErrors = 0
        BY <1>a, <2>1, <3>1
      <4>2. pc[e] = "idle"
        BY <2>2, <3>1
      <4>. QED
        BY <1>i, <2>1, <3>1, <4>1, <4>2, JobIds
    <3>. QED
      BY <3>1
  <2>. QED
    BY <1>e, <1>k, <2>1, <2>3, <2>4, <2>5
<1>8. ASSUME NEW d \in Drive, Drops(d)
      PROVE  NoneLost'
  <2>1. UNCHANGED <<state, request, queue, verdict, owner>>
        /\ dbErrors' \in {dbErrors, dbErrors + 1} /\ dbErrors' > 0
    BY <1>8, <1>a, <1>f DEF Drops
  <2>. QED
    BY <1>e, <1>k, <2>1
<1>9. ASSUME NEW d \in Drive, Reports(d)
      PROVE  NoneLost'
  <2>1. owner[d] \in Job /\ tape[d] \in Tape /\ pc[d] \in Busy
        /\ state[owner[d]] = "running"
    BY <1>9, <1>b, <1>c DEF Reports, Busy
  <2>2. UNCHANGED <<state, request, queue, owner>>
        /\ dbErrors' \in {dbErrors, dbErrors + 1}
    BY <1>9 DEF Reports
  <2>3. Notes(owner[d], tape[d])
    BY <1>9 DEF Reports, Verdict, Notes
  <2>4. tape[d] \notin Listed(verdict[owner[d]])
    BY <2>1 DEF TapesApart, Reported
  <2>5. /\ Listed(verdict'[owner[d]]) = Listed(verdict[owner[d]]) \cup {tape[d]}
        /\ \A j \in Job : j # owner[d] => Listed(verdict'[j]) = Listed(verdict[j])
    <3>1. \A j \in Job : Listed(verdict'[j]) =
             IF j = owner[d] THEN Listed(verdict[j]) \cup {tape[d]} ELSE Listed(verdict[j])
      BY <2>1, <2>3, ReportedGrows
    <3>. QED
      BY <2>1, <3>1
  <2>6. \A j \in Job : Apart(verdict'[j])
    BY <1>e, <2>1, <2>3, <2>4, ListsStayApart
  <2>7. \A e \in Drive : e # d => tape'[e] = tape[e] /\ pc'[e] = pc[e] /\ error'[e] = error[e]
    BY <1>9, <1>a DEF Reports, Goto
  <2>8. tape'[d] = NoTape /\ error'[d] = "none" /\ (dbErrors' = 0 => pc'[d] = "take")
    BY <1>9, <1>a DEF Reports, Goto
  <2>9. \A j \in Job :
           Hand(j)' = IF j = owner[d] THEN Hand(j) \ {tape[d]} ELSE Hand(j)
    <3>1. tape[d] # NoTape
      BY <1>d, <2>1
    <3>2. \A e \in Drive : e # d /\ owner[e] = owner[d] => tape[e] # tape[d]
      BY <1>d, <2>1, <3>1 DEF TapesApart
    <3>. QED
      BY <2>1, <2>2, <2>7, <2>8, <3>1, <3>2, HandGives
  <2>10. tape[d] \in Hand(owner[d])
    BY <1>d, <2>1 DEF Hand, Drives
  <2>11. ASSUME NEW j \in Job
         PROVE  Range(queue'[j]) \cup Hand(j)' \cup Listed(verdict'[j])
                  = Range(queue[j]) \cup Hand(j) \cup Listed(verdict[j])
    <3>1. CASE j = owner[d]
      BY <2>2, <2>5, <2>9, <2>10, <3>1
    <3>2. CASE j # owner[d]
      BY <2>2, <2>5, <2>9, <3>2
    <3>. QED
      BY <3>1, <3>2
  <2>12. \A j \in Job : state[j] # "running" => verdict'[j] = verdict[j]
    BY <2>1, <2>3 DEF TypeOK, Notes
  <2>13. \A e \in Drive : error'[e] = "fatal" => dbErrors' > 0
    BY <1>a, <1>f, <2>2, <2>7, <2>8
  <2>14. dbErrors' = 0 => \A e \in Drive : owner[e] \in Job /\ state[owner[e]] = "running"
           /\ pc'[e] = "idle" => queue'[owner[e]] = <<>>
    <3>1. ASSUME dbErrors' = 0, NEW e \in Drive, owner[e] \in Job,
                 state[owner[e]] = "running", pc'[e] = "idle"
          PROVE  queue'[owner[e]] = <<>>
      <4>1. dbErrors = 0
        BY <1>a, <2>2, <3>1
      <4>2. pc[e] = "idle"
        BY <2>7, <2>8, <3>1
      <4>. QED
        BY <1>i, <2>2, <3>1, <4>1, <4>2, JobIds
    <3>. QED
      BY <3>1
  <2>. QED
    BY <1>k, <2>2, <2>6, <2>11, <2>12, <2>13, <2>14
<1>10. CASE Crash
  <2>1. /\ UNCHANGED <<request, verdict, dbErrors>>
        /\ \A e \in Drive : owner'[e] = NoJob /\ error'[e] = "none"
        /\ \A j \in Job : state'[j] = IF Live(j) THEN "interrupted" ELSE state[j]
    BY <1>10 DEF Crash
  <2>2. \A j \in Job : ~Live(j)' /\ Batch(j)' = Batch(j)
    BY <2>1 DEF Live, Batch
  <2>3. \A j \in Job : state'[j] # "running"
    BY <2>2 DEF Live
  <2>. QED
    BY <1>e, <1>f, <1>j, <2>1, <2>2, <2>3 DEF NoneLost, Reported
<1>11. CASE Elsewhere
  <2>1. UNCHANGED <<state, request, queue, verdict, owner, pc, tape, error, dbErrors>>
    BY <1>11 DEF Elsewhere
  <2>2. \A j \in Job : Hand(j)' = Hand(j)
    BY <2>1, HandSame
  <2>3. dbErrors = 0 => \A e \in Drive : owner[e] \in Job /\ state[owner[e]] = "running"
           /\ pc'[e] = "idle" => queue'[owner[e]] = <<>>
    BY <1>i, <2>1, JobIds
  <2>. QED
    BY <1>e, <1>f, <1>k, <2>1, <2>2, <2>3
<1>. QED
  BY <1>1, <1>2, <1>3, <1>4, <1>5, <1>6, <1>7, <1>8, <1>9, <1>10, <1>11 DEF Shape
-----------------------------------------------------------------------------
(* The invariant, and what follows from it.                                *)
IInv == TypeOK /\ ThreadsSound /\ TapesApart /\ NoneLost

LEMMA Beginning == Init => IInv
<1>. SUFFICES ASSUME Init PROVE IInv
  OBVIOUS
<1>1. TypeOK
  <2>1. [succeeded |-> {}, failed |-> {}, skipped |-> {}]
          \in [{"succeeded", "failed", "skipped"} -> SUBSET Tape]
    OBVIOUS
  <2>2. verdict \in [Job -> [{"succeeded", "failed", "skipped"} -> SUBSET Tape]]
    BY <2>1 DEF Init
  <2>3. \A j \in Job : <<>> \in Seq(Tape)
    OBVIOUS
  <2>. QED
    BY <2>2, <2>3, Places, Contents, FirstRows DEF Init, TypeOK
<1>2. ThreadsSound
  BY DEF Init, ThreadsSound, Busy
<1>3. TapesApart
  <2>1. IsInjective(<<>>) /\ Range(<<>>) = {}
    BY DEF IsInjective, Range
  <2>. QED
    BY <2>1 DEF Init, TapesApart, Waiting, Reported, Listed, Busy
<1>4. NoneLost
  BY DEF Init, NoneLost, Apart, Live
<1>. QED
  BY <1>1, <1>2, <1>3, <1>4 DEF IInv

LEMMA Invariance == Spec => []IInv
<1>1. IInv /\ [Next]_vars => IInv'
  BY Shapes, TypeStep, ThreadsStep, TapesApartStep, NoneLostStep DEF IInv
<1>. QED
  BY <1>1, Beginning, PTL DEF Spec

(* The catalogue, the library, the jobs and the threads keep their types,  *)
(* whatever fails.                                                         *)
THEOREM TypeCorrect == Spec => []TypeOK
<1>1. IInv => TypeOK
  BY DEF IInv
<1>. QED
  BY <1>1, Invariance, PTL

(* When run_batch_format or run_tape_import has returned or raised, every  *)
(* tape of the batch is in exactly one of the lists it reports, unless the *)
(* database raised: however many threads shared the queue, whatever they   *)
(* met in the library, and wherever it was cancelled.                      *)
THEOREM TapesAreAccounted == Spec => []EveryTapeAccounted
<1>1. IInv => EveryTapeAccounted
  BY DEF IInv, NoneLost, Apart, EveryTapeAccounted
<1>. QED
  BY <1>1, Invariance, PTL
-----------------------------------------------------------------------------
(* The promise of TapeBatch: each shape of a step is a step of a batch, or *)
(* none at all.                                                            *)
HandOf == [j \in Job |-> Hand(j)]
WaitingOf == [j \in Job |-> Range(queue[j])]

LEMMA PromiseBegins == Init => Promise!Init
<1>. SUFFICES ASSUME Init PROVE Promise!Init
  OBVIOUS
<1>1. Range(<<>>) = {}
  BY DEF Range
<1>2. [j \in Job |-> Range(queue[j])] = [j \in Job |-> {}]
  BY <1>1 DEF Init
<1>3. [j \in Job |-> {tape[d] : d \in Drives(j)} \ {NoTape}] = [j \in Job |-> {}]
  BY DEF Init, Drives
<1>4. verdict = [j \in Job |-> [v \in Promise!Verdict |-> {}]]
  BY DEF Init, Promise!Verdict
<1>. QED
  BY <1>2, <1>3, <1>4 DEF Promise!Init

(* What a step leaves of the tapes no thread has taken, and of those in    *)
(* hand, when it changes those of one job alone.                           *)
LEMMA WaitingMoves ==
  ASSUME NEW j \in Job, NEW S, Range(queue'[j]) = S,
         \A i \in Job : i # j => queue'[i] = queue[i]
  PROVE  WaitingOf' = [WaitingOf EXCEPT ![j] = S]
<1>1. WaitingOf = [i \in Job |-> Range(queue[i])]
      /\ WaitingOf' = [i \in Job |-> Range(queue'[i])]
  BY DEF WaitingOf
<1>2. \A i \in Job : Range(queue'[i]) = IF i = j THEN S ELSE Range(queue[i])
  OBVIOUS
<1>. QED
  BY <1>1, <1>2

LEMMA HandMoves ==
  ASSUME NEW j \in Job, NEW S,
         \A i \in Job : Hand(i)' = IF i = j THEN S ELSE Hand(i)
  PROVE  HandOf' = [HandOf EXCEPT ![j] = S]
BY DEF HandOf

LEMMA HandStays ==
  ASSUME \A i \in Job : Hand(i)' = Hand(i)
  PROVE  HandOf' = HandOf
BY DEF HandOf

(* The actions of the batch, read in the state of the drive cycle.         *)
BatchBegins(j, S) ==
  /\ WaitingOf[j] = {} /\ HandOf[j] = {} /\ Listed(verdict[j]) = {}
  /\ WaitingOf' = [WaitingOf EXCEPT ![j] = S]
  /\ HandOf' = HandOf /\ verdict' = verdict

BatchTakesUp(j, t) ==
  /\ t \in WaitingOf[j]
  /\ Cardinality(HandOf[j]) < Cardinality(Drive)
  /\ WaitingOf' = [WaitingOf EXCEPT ![j] = WaitingOf[j] \ {t}]
  /\ HandOf' = [HandOf EXCEPT ![j] = HandOf[j] \cup {t}]
  /\ verdict' = verdict

BatchPassesOver(j, t) ==
  /\ t \in WaitingOf[j]
  /\ WaitingOf' = [WaitingOf EXCEPT ![j] = WaitingOf[j] \ {t}]
  /\ verdict' = [verdict EXCEPT ![j]["skipped"] = verdict[j]["skipped"] \cup {t}]
  /\ HandOf' = HandOf

BatchReports(j, t, v) ==
  /\ t \in HandOf[j]
  /\ HandOf' = [HandOf EXCEPT ![j] = HandOf[j] \ {t}]
  /\ verdict' = [verdict EXCEPT ![j][v] = verdict[j][v] \cup {t}]
  /\ WaitingOf' = WaitingOf

BatchLoses(j, t) ==
  /\ t \in HandOf[j]
  /\ HandOf' = [HandOf EXCEPT ![j] = HandOf[j] \ {t}]
  /\ WaitingOf' = WaitingOf /\ verdict' = verdict

BatchLosesAll ==
  /\ WaitingOf' = [j \in Job |-> {}] /\ HandOf' = [j \in Job |-> {}]
  /\ verdict' = verdict

(* Both modules count with the same operator. *)
LEMMA SameCount == \A S : Promise!Cardinality(S) = Cardinality(S)
BY DEF Promise!Cardinality, Cardinality

LEMMA PromiseSteps ==
  ASSUME \/ \E j \in Job, S \in SUBSET Tape : BatchBegins(j, S)
         \/ \E j \in Job, t \in Tape :
              \/ BatchTakesUp(j, t) \/ BatchPassesOver(j, t) \/ BatchLoses(j, t)
              \/ \E v \in {"succeeded", "failed"} : BatchReports(j, t, v)
         \/ BatchLosesAll
         \/ UNCHANGED <<WaitingOf, HandOf, verdict>>
  PROVE  [Promise!Next]_(Promise!vars)
<1>. USE DEF WaitingOf, HandOf, Hand
<1>1. ASSUME NEW j \in Job, NEW S \in SUBSET Tape, BatchBegins(j, S)
      PROVE  Promise!Next
  <2>1. Promise!Reported(j) = Listed(verdict[j])
    BY DEF Promise!Reported, Promise!Verdict, Listed
  <2>2. Promise!Begin(j, S)
    BY <1>1, <2>1 DEF BatchBegins, Promise!Begin
  <2>. QED
    BY <2>2 DEF Promise!Next
<1>2. ASSUME NEW j \in Job, NEW t \in Tape, BatchTakesUp(j, t)
      PROVE  Promise!Next
  <2>1. Promise!Cardinality(HandOf[j]) < Cardinality(Drive)
    BY <1>2, SameCount, Zenon DEF BatchTakesUp
  <2>2. Promise!TakeUp(j, t)
    BY <1>2, <2>1 DEF BatchTakesUp, Promise!TakeUp
  <2>. QED
    BY <2>2 DEF Promise!Next
<1>3. ASSUME NEW j \in Job, NEW t \in Tape, BatchPassesOver(j, t)
      PROVE  Promise!Next
  <2>1. Promise!PassOver(j, t)
    BY <1>3 DEF BatchPassesOver, Promise!PassOver
  <2>. QED
    BY <2>1 DEF Promise!Next
<1>4. ASSUME NEW j \in Job, NEW t \in Tape, BatchLoses(j, t)
      PROVE  Promise!Next
  <2>1. Promise!Lose(j, t)
    BY <1>4 DEF BatchLoses, Promise!Lose
  <2>. QED
    BY <2>1 DEF Promise!Next
<1>5. ASSUME NEW j \in Job, NEW t \in Tape, NEW v \in {"succeeded", "failed"},
             BatchReports(j, t, v)
      PROVE  Promise!Next
  <2>1. Promise!Report(j, t, v)
    BY <1>5 DEF BatchReports, Promise!Report
  <2>. QED
    BY <2>1 DEF Promise!Next
<1>6. CASE BatchLosesAll
  BY <1>6 DEF BatchLosesAll, Promise!Next, Promise!LoseAll
<1>7. CASE UNCHANGED <<WaitingOf, HandOf, verdict>>
  BY <1>7 DEF Promise!vars
<1>. QED
  BY <1>1, <1>2, <1>3, <1>4, <1>5, <1>6, <1>7

LEMMA PromiseStep == IInv /\ Shape => [Promise!Next]_(Promise!vars)
<1>. SUFFICES ASSUME IInv, Shape PROVE [Promise!Next]_(Promise!vars)
  OBVIOUS
<1>a. /\ queue \in [Job -> Seq(Tape)] /\ pc \in [Drive -> {"idle", "take"} \cup Busy]
      /\ \A e \in Drive : owner[e] \in Job \cup {NoJob}
      /\ tape = [e \in Drive |-> tape[e]]
  BY DEF IInv, TypeOK, Busy
<1>b. \A e \in Drive : tape[e] = NoTape <=> pc[e] \notin Busy
  BY DEF IInv, ThreadsSound
<1>c. \A e \in Drive : pc[e] # "idle" => owner[e] \in Job /\ state[owner[e]] = "running"
  BY <1>a DEF IInv, ThreadsSound
<1>d. \A e \in Drive : pc[e] \in Busy => tape[e] \in Tape
  BY <1>b DEF IInv, TypeOK
<1>e. \A j \in Job : WaitingOf[j] = Range(queue[j]) /\ HandOf[j] = Hand(j)
  BY DEF WaitingOf, HandOf
<1>1. ASSUME NEW j \in Job, NEW r \in Request, Start(j, r)
      PROVE  [Promise!Next]_(Promise!vars)
  <2>1. UNCHANGED <<queue, verdict, tape>>
        /\ \A e \in Drive : owner'[e] = owner[e] \/ owner[e] = NoJob
    BY <1>1 DEF Start, FreeDrives
  <2>2. \A e \in Drive : tape[e] # NoTape \/ tape'[e] # NoTape =>
           tape'[e] = tape[e] /\ owner'[e] = owner[e]
    BY <1>b, <1>c, <2>1, JobIds DEF Busy
  <2>3. \A i \in Job : Hand(i)' = Hand(i)
    BY <2>2, HandSame
  <2>. QED
    BY <2>1, <2>3, HandStays, PromiseSteps DEF WaitingOf
<1>2. ASSUME NEW j \in Job, Check(j)
      PROVE  [Promise!Next]_(Promise!vars)
  <2>1. UNCHANGED <<verdict, owner, tape>> /\ state[j] = "check"
        /\ queue' = [queue EXCEPT ![j] = request[j].tapes]
    BY <1>2 DEF Check
  <2>2. /\ queue'[j] = request[j].tapes
        /\ \A i \in Job : i # j => queue'[i] = queue[i]
    BY <1>a, <2>1
  <2>3. Range(request[j].tapes) \in SUBSET Tape
    BY <2>1, RequestShape DEF IInv, ThreadsSound, Range
  <2>4. queue[j] = <<>> /\ Listed(verdict[j]) = {} /\ Range(<<>>) = {}
    BY <2>1 DEF IInv, TapesApart, Reported, Range
  <2>5. Hand(j) = {}
    <3>1. \A e \in Drive : owner[e] = j => tape[e] = NoTape
      BY <1>b, <1>c, <2>1 DEF Busy
    <3>. QED
      BY <3>1 DEF Hand, Drives
  <2>6. HandOf' = HandOf
    <3>1. \A i \in Job : Hand(i)' = Hand(i)
      BY <2>1, HandSame
    <3>. QED
      BY <3>1, HandStays
  <2>7. WaitingOf' = [WaitingOf EXCEPT ![j] = Range(request[j].tapes)]
    BY <2>2, WaitingMoves
  <2>8. BatchBegins(j, Range(request[j].tapes))
    BY <1>e, <2>1, <2>4, <2>5, <2>6, <2>7 DEF BatchBegins
  <2>. QED
    BY <2>3, <2>8, PromiseSteps
<1>3. ASSUME NEW j \in Job, Stops(j)
      PROVE  [Promise!Next]_(Promise!vars)
  <2>1. UNCHANGED <<queue, verdict, tape>>
    BY <1>3 DEF Stops
  <2>2. \A e \in Drive : tape[e] # NoTape => owner'[e] = owner[e]
    BY <1>3, <1>b DEF Stops, Ends, Drives, Busy
  <2>3. \A i \in Job : Hand(i)' = Hand(i)
    BY <2>1, <2>2, HandSame
  <2>. QED
    BY <2>1, <2>3, HandStays, PromiseSteps DEF WaitingOf
<1>4. ASSUME NEW d \in Drive, Take(d)
      PROVE  [Promise!Next]_(Promise!vars)
  <2>. DEFINE t == Head(queue[owner[d]])
  <2>1. /\ owner[d] \in Job /\ queue[owner[d]] \in Seq(Tape) /\ queue[owner[d]] # <<>>
        /\ tape[d] = NoTape /\ UNCHANGED <<owner, verdict>>
    BY <1>4, <1>a, <1>b, <1>c DEF Take, Gets, Busy
  <2>2. t \in Tape /\ t \in Range(queue[owner[d]])
        /\ Range(Tail(queue[owner[d]])) = Range(queue[owner[d]]) \ {t}
    BY <2>1, TakingHead DEF IInv, TapesApart
  <2>3. queue'[owner[d]] = Tail(queue[owner[d]])
        /\ \A i \in Job : i # owner[d] => queue'[i] = queue[i]
    BY <1>4, <1>a, <2>1 DEF Take, Gets, Remaining
  <2>4. tape'[d] = t /\ \A e \in Drive : e # d => tape'[e] = tape[e]
    BY <1>4, <1>a DEF Take
  <2>. HIDE DEF t
  <2>5. \A i \in Job : Hand(i)' = IF i = owner[d] THEN Hand(i) \cup {t} ELSE Hand(i)
    BY <2>1, <2>2, <2>4, HandTakes
  <2>6. HandOf' = [HandOf EXCEPT ![owner[d]] = Hand(owner[d]) \cup {t}]
    BY <2>1, <2>5, HandMoves
  <2>7. WaitingOf' = [WaitingOf EXCEPT ![owner[d]] = Range(queue[owner[d]]) \ {t}]
    BY <2>1, <2>2, <2>3, WaitingMoves
  <2>8. Cardinality(Hand(owner[d])) < Cardinality(Drive)
    BY <2>1, HandFits
  <2>9. BatchTakesUp(owner[d], t)
    BY <1>e, <2>1, <2>2, <2>6, <2>7, <2>8 DEF BatchTakesUp
  <2>. QED
    BY <2>1, <2>2, <2>9, PromiseSteps
<1>5. ASSUME NEW d \in Drive, Skip(d)
      PROVE  [Promise!Next]_(Promise!vars)
  <2>. DEFINE t == Head(queue[owner[d]])
  <2>1. /\ owner[d] \in Job /\ queue[owner[d]] \in Seq(Tape) /\ queue[owner[d]] # <<>>
        /\ UNCHANGED <<owner, tape>>
    BY <1>5, <1>a, <1>c DEF Skip, Gets
  <2>2. t \in Tape /\ t \in Range(queue[owner[d]])
        /\ Range(Tail(queue[owner[d]])) = Range(queue[owner[d]]) \ {t}
    BY <2>1, TakingHead DEF IInv, TapesApart
  <2>3. queue'[owner[d]] = Tail(queue[owner[d]])
        /\ \A i \in Job : i # owner[d] => queue'[i] = queue[i]
    BY <1>5, <1>a, <2>1 DEF Skip, Gets, Remaining
  <2>4. verdict' = [verdict EXCEPT ![owner[d]]["skipped"] =
                      verdict[owner[d]]["skipped"] \cup {t}]
    BY <1>5 DEF Skip, Skipped
  <2>. HIDE DEF t
  <2>5. HandOf' = HandOf
    <3>1. \A i \in Job : Hand(i)' = Hand(i)
      BY <2>1, HandSame
    <3>. QED
      BY <3>1, HandStays
  <2>6. WaitingOf' = [WaitingOf EXCEPT ![owner[d]] = Range(queue[owner[d]]) \ {t}]
    BY <2>1, <2>2, <2>3, WaitingMoves
  <2>7. BatchPassesOver(owner[d], t)
    BY <1>e, <2>1, <2>2, <2>4, <2>5, <2>6 DEF BatchPassesOver
  <2>. QED
    BY <2>1, <2>2, <2>7, PromiseSteps
<1>6. ASSUME NEW d \in Drive, ThreadEnds(d) \/ GoesOn(d)
      PROVE  [Promise!Next]_(Promise!vars)
  <2>1. UNCHANGED <<queue, verdict, tape, owner>>
    BY <1>6 DEF ThreadEnds, GoesOn, world, jobs
  <2>2. \A i \in Job : Hand(i)' = Hand(i)
    BY <2>1, HandSame
  <2>. QED
    BY <2>1, <2>2, HandStays, PromiseSteps DEF WaitingOf
(* A thread whose tape leaves its hand. *)
<1>7. ASSUME NEW d \in Drive, pc[d] \in Busy, UNCHANGED owner,
             tape' = [tape EXCEPT ![d] = NoTape]
      PROVE  /\ owner[d] \in Job /\ tape[d] \in Tape /\ tape[d] \in HandOf[owner[d]]
             /\ HandOf' = [HandOf EXCEPT ![owner[d]] = HandOf[owner[d]] \ {tape[d]}]
  <2>1. owner[d] \in Job /\ tape[d] \in Tape /\ tape[d] # NoTape
    BY <1>7, <1>b, <1>c, <1>d DEF Busy
  <2>2. tape'[d] = NoTape /\ \A e \in Drive : e # d => tape'[e] = tape[e]
    BY <1>7, <1>a
  <2>3. \A e \in Drive : e # d /\ owner[e] = owner[d] => tape[e] # tape[d]
    BY <1>7, <1>b, <2>1 DEF IInv, TapesApart
  <2>4. \A i \in Job :
           Hand(i)' = IF i = owner[d] THEN Hand(owner[d]) \ {tape[d]} ELSE Hand(i)
    BY <1>7, <2>1, <2>2, <2>3, HandGives
  <2>5. tape[d] \in Hand(owner[d])
    BY <2>1 DEF Hand, Drives
  <2>6. HandOf' = [HandOf EXCEPT ![owner[d]] = Hand(owner[d]) \ {tape[d]}]
    BY <2>1, <2>4, HandMoves
  <2>. QED
    BY <1>e, <2>1, <2>5, <2>6
<1>8. ASSUME NEW d \in Drive, Drops(d)
      PROVE  [Promise!Next]_(Promise!vars)
  <2>1. /\ pc[d] \in Busy /\ UNCHANGED <<queue, verdict, owner>>
        /\ tape' = [tape EXCEPT ![d] = NoTape]
    BY <1>8 DEF Drops
  <2>2. owner[d] \in Job /\ tape[d] \in Tape /\ BatchLoses(owner[d], tape[d])
    BY <1>7, <2>1 DEF BatchLoses, WaitingOf
  <2>. QED
    BY <2>2, PromiseSteps
<1>9. ASSUME NEW d \in Drive, Reports(d)
      PROVE  [Promise!Next]_(Promise!vars)
  <2>1. /\ pc[d] \in Busy /\ UNCHANGED <<queue, owner>>
        /\ tape' = [tape EXCEPT ![d] = NoTape]
    BY <1>9 DEF Reports, Busy
  <2>2. PICK v \in {"succeeded", "failed"} :
          verdict' = [verdict EXCEPT ![owner[d]][v] = verdict[owner[d]][v] \cup {tape[d]}]
    BY <1>9 DEF Reports, Verdict
  <2>3. owner[d] \in Job /\ tape[d] \in Tape /\ BatchReports(owner[d], tape[d], v)
    BY <1>7, <2>1, <2>2 DEF BatchReports, WaitingOf
  <2>. QED
    BY <2>3, PromiseSteps
<1>10. CASE Crash
  <2>1. /\ queue' = [j \in Job |-> <<>>] /\ tape' = [e \in Drive |-> NoTape]
        /\ verdict' = verdict
    BY <1>10 DEF Crash
  <2>2. WaitingOf' = [j \in Job |-> {}]
    BY <2>1 DEF WaitingOf, Range
  <2>3. HandOf' = [j \in Job |-> {}]
    <3>1. \A i \in Job : Hand(i)' = {}
      BY <2>1 DEF Hand, Drives
    <3>. QED
      BY <3>1 DEF HandOf
  <2>. QED
    BY <2>1, <2>2, <2>3, PromiseSteps DEF BatchLosesAll
<1>11. CASE Elsewhere
  <2>1. UNCHANGED <<queue, verdict, owner, tape>>
    BY <1>11 DEF Elsewhere
  <2>2. \A i \in Job : Hand(i)' = Hand(i)
    BY <2>1, HandSame
  <2>. QED
    BY <2>1, <2>2, HandStays, PromiseSteps DEF WaitingOf
<1>. QED
  BY <1>1, <1>2, <1>3, <1>4, <1>5, <1>6, <1>8, <1>9, <1>10, <1>11 DEF Shape

(* Batch format and tape import keep the promise of TapeBatch in every     *)
(* behaviour: a tape is taken in hand once, by one thread, and leaves the  *)
(* hand with one verdict, or is lost with its thread.                      *)
THEOREM ImplementsBatch == Spec => KeepsBatch
<1>1. IInv /\ [Next]_vars => [Promise!Next]_(Promise!vars)
  BY Shapes, PromiseStep DEF IInv
<1>. QED
  BY <1>1, Invariance, PromiseBegins, PTL DEF Spec, KeepsBatch, Promise!Spec

-----------------------------------------------------------------------------
(* What batch format and tape import do to the tapes and the catalogue, as *)
(* long as no two jobs with a tape in common run at the same time.         *)

(* The rows a format without force is for. *)
Blank == {"unknown", "scratch"}

UnitsOn(t) == {s.unit : s \in SpansOn(t)}
Complete(t) ==
  files[t] = UnitsOn(t) /\ used[t] = Cardinality(SpansOn(t)) /\ status[t] \notin Blank

(* No place holds two tapes, and no tape has two spans of a unit. *)
PlaceSound == \A s, t \in Tape : place[s] = place[t] => s = t

(* A thread works on a tape of its job, and of a job that waits for none   *)
(* but its own.                                                            *)
BatchSound ==
  /\ \A j \in Job : Range(queue[j]) \subseteq Batch(j)
  /\ \A d \in Drive : pc[d] \in Busy => tape[d] \in Batch(owner[d])
  /\ \A i, j \in Job : i # j /\ Live(i) /\ Live(j) => Batch(i) \cap Batch(j) = {}

(* Where the tape a thread has in hand is. *)
Inside == {"format", "mount", "import", "unmount", "unload"}
PlacedFor(d, t) ==
  /\ pc[d] = "load" => slot[d] \in Slot /\ place[t] = slot[d]
  /\ pc[d] \in Inside => place[t] = d
  /\ pc[d] = "record" /\ error[d] = "none" => place[t] \in Slot

(* What a thread has read of it. *)
ReadFor(d, t) ==
  /\ pc[d] = "format" => Kind(d) = "format"
  /\ pc[d] \in {"register", "mount", "import", "unmount"} => Kind(d) = "import"
  /\ pc[d] # "register" /\ Kind(d) = "import" => status[t] \notin Blank
  /\ pc[d] = "import" =>
       left[d] \subseteq files[t] /\ (t \notin repurposed => files[t] \subseteq UnitsOn(t) \cup left[d])
  /\ pc[d] \in {"unmount", "unload", "record"} /\ error[d] = "none"
       /\ Kind(d) = "import" /\ t \notin repurposed => Complete(t)

HandSound(d) == \A t \in Tape : tape[d] = t => PlacedFor(d, t) /\ ReadFor(d, t)

(* What the catalogue says of a tape. *)
TapeSound(t) ==
  t \notin repurposed =>
    /\ \A s \in SpansOn(t) : s.unit \in files[t] /\ status[t] \notin Blank
    /\ Imported(t) => Complete(t)

(* A format without force goes on as it was checked. *)
JobSound(j) ==
  state[j] = "running" /\ request[j].kind = "format" /\ ~request[j].force =>
    \A t \in Batch(j) : status[t] \in Blank

TapesSound ==
  /\ PlaceSound /\ OneSpanPerUnit
  /\ ~shared =>
       /\ BatchSound
       /\ \A d \in Drive : HandSound(d)
       /\ \A t \in Tape : TapeSound(t)
       /\ \A j \in Job : JobSound(j)
-----------------------------------------------------------------------------
(* Places and spans.                                                       *)

(* The spans of a tape are as many as its units. *)
LEMMA SpansAreUnits ==
  ASSUME NEW S, IsFiniteSet(S), \A r, s \in S : r.unit = s.unit => r = s
  PROVE  Cardinality(S) = Cardinality({s.unit : s \in S})
<1>. DEFINE U == {s.unit : s \in S}
            f == [s \in S |-> s.unit]
<1>1. f \in Bijection(S, U)
  <2>1. f \in [S -> U]
    OBVIOUS
  <2>2. \A r, s \in S : f[r] = f[s] => r = s
    OBVIOUS
  <2>3. \A u \in U : \E s \in S : f[s] = u
    OBVIOUS
  <2>. HIDE DEF U, f
  <2>. QED
    BY <2>1, <2>2, <2>3 DEF Bijection, Injection, Surjection, IsInjective
<1>. HIDE DEF U, f
<1>2. Cardinality(U) = Cardinality(S)
  BY <1>1, FS_Bijection DEF ExistsBijection
<1>. QED
  BY <1>2 DEF U

(* There are finitely many. *)
LEMMA SpansAreFinite ==
  ASSUME NEW S \in SUBSET [tape: Tape, unit: Unit, verified: BOOLEAN]
  PROVE  IsFiniteSet(S)
<1>. DEFINE Keys == Tape \X (Unit \X BOOLEAN)
            All == [tape: Tape, unit: Unit, verified: BOOLEAN]
            f == [k \in Keys |-> [tape |-> k[1], unit |-> k[2][1], verified |-> k[2][2]]]
<1>1. IsFiniteSet(BOOLEAN)
  <2>1. IsFiniteSet({TRUE} \cup {FALSE})
    BY FS_Singleton, FS_Union, Zenon
  <2>2. BOOLEAN = {TRUE} \cup {FALSE}
    OBVIOUS
  <2>. QED
    BY <2>1, <2>2, Zenon
<1>2. IsFiniteSet(Keys)
  BY <1>1, FS_Product, TapeIds, Contents
<1>3. f \in Surjection(Keys, All)
  <2>1. f \in [Keys -> All]
    OBVIOUS
  <2>2. ASSUME NEW s \in All PROVE \E k \in Keys : f[k] = s
    <3>1. <<s.tape, <<s.unit, s.verified>>>> \in Keys
      OBVIOUS
    <3>2. f[<<s.tape, <<s.unit, s.verified>>>>] = s
      BY <3>1
    <3>. QED
      BY <3>1, <3>2
  <2>. HIDE DEF Keys, All, f
  <2>. QED
    BY <2>1, <2>2 DEF Surjection
<1>4. IsFiniteSet(All)
  <2>. HIDE DEF Keys, All, f
  <2>. QED
    BY <1>2, <1>3, FS_Surjection
<1>. QED
  BY <1>4, FS_Subset

LEMMA RequestsAsk ==
  ASSUME NEW r \in Request
  PROVE  /\ r # NoRequest /\ r.kind \in {"format", "import"}
         /\ r.verify \in BOOLEAN /\ r.force \in BOOLEAN
<1>1. r.kind \in {"format", "import"}
  BY RequestShape
<1>2. NoRequest.kind = "none"
  BY DEF NoRequest
<1>3. r.verify \in BOOLEAN /\ r.force \in BOOLEAN
  BY RequestShape, Zenon
<1>. QED
  BY <1>1, <1>2, <1>3

LEMMA PlaceStep ==
  ASSUME TypeOK, PlaceSound, [Next]_vars
  PROVE  PlaceSound'
<1>1. CASE place' = place
  BY <1>1 DEF PlaceSound
<1>2. ASSUME NEW d \in Drive, Loadable(d), Loads(d)
      PROVE  PlaceSound'
  <2>1. \A t \in Tape : place[t] # d
    BY <1>2 DEF Loadable, In
  <2>. QED
    BY <1>2, <2>1 DEF Loads, PlaceSound
<1>3. ASSUME NEW d \in Drive, Unloads(d)
      PROVE  PlaceSound'
  <2>1. PICK n : /\ \A t \in Tape : place[t] # n
                 /\ place' = [t \in Tape |-> IF place[t] = d THEN n ELSE place[t]]
    BY <1>3 DEF Unloads, FirstFree, FreeSlots
  <2>. QED
    BY <2>1 DEF PlaceSound
<1>4. ASSUME NEW j \in Job, Cancel(j) \/ JobStep(j) \/ \E r \in Request : Start(j, r)
      PROVE  place' = place
  BY <1>4 DEF Cancel, JobStep, Check, Refuse, EndJob, Start, library
<1>5. ASSUME NEW d \in Drive, ThreadStep(d)
      PROVE  place' = place \/ (Loadable(d) /\ Loads(d)) \/ Unloads(d)
  <2>1. CASE Take(d) \/ Skip(d) \/ ThreadEnds(d) \/ Record(d) \/ ThreadGone(d)
    BY <2>1 DEF Take, Skip, Gets, ThreadEnds, Record, ThreadGone, world, library
  <2>2. CASE LookUp(d) \/ NotInSlot(d) \/ LoadRefused(d) \/ Mount(d) \/ Unmount(d)
    BY <2>2 DEF LookUp, NotInSlot, LoadRefused, Mount, Unmount, world, library
  <2>3. CASE Format(d) \/ Register(d) \/ Import(d) \/ Finish(d)
    BY <2>3 DEF Format, Register, Import, Finish, library
  <2>4. CASE Load(d) \/ Unload(d)
    BY <2>4 DEF Load, Unload
  <2>. QED
    BY <1>5, <2>1, <2>2, <2>3, <2>4 DEF ThreadStep
<1>6. ASSUME NEW d \in Drive, FaultStep(d)
      PROVE  place' = place \/ (Loadable(d) /\ Loads(d)) \/ Unloads(d)
  BY <1>6 DEF FaultStep, CallFails, Dies, DiesFormatting, DiesReporting, library
<1>7. ASSUME NEW d \in Drive, OperatorUnloads(d)
      PROVE  Unloads(d)
  BY <1>7 DEF OperatorUnloads
<1>8. ASSUME Crash \/ UNCHANGED vars
      PROVE  place' = place
  BY <1>8 DEF Crash, vars, library
<1>. QED
  BY <1>1, <1>2, <1>3, <1>4, <1>5, <1>6, <1>7, <1>8 DEF Next

(* What importing the units S of a tape makes of the spans. *)
LEMMA SpansMerge ==
  ASSUME TypeOK, OneSpanPerUnit, NEW t \in Tape, NEW S \in SUBSET Unit, NEW v \in BOOLEAN,
         spans' = SpansAfter(t, S, v)
  PROVE  /\ OneSpanPerUnit'
         /\ UnitsOn(t)' = UnitsOn(t) \cup S
         /\ \A u \in Tape \ {t} : SpansOn(u)' = SpansOn(u)
<1>. DEFINE done == {s.unit : s \in {s \in Known(t, S) : s.verified}}
            new  == {Span(t, u, v) : u \in S \ done}
            old  == {s \in Known(t, S) : ~s.verified}
<1>1. spans' = (spans \ old) \cup new
  BY DEF SpansAfter
<1>2. \A s \in new : s.tape = t /\ s.unit \in S \ done
  BY DEF Span
<1>3. \A s \in old : s \in spans /\ s.tape = t /\ s.unit \in S \ done
  BY DEF Known, SpansOn, OneSpanPerUnit
<1>4. \A s \in spans \ old : s.tape = t => s.unit \notin S \ done
  BY DEF Known, SpansOn
<1>5. \A r, s \in new : r.unit = s.unit => r = s
  BY DEF Span
<1>6. ASSUME NEW u \in S \ done
      PROVE  \E s \in new : s.unit = u
  <2>1. Span(t, u, v) \in new /\ Span(t, u, v).unit = u
    BY <1>6 DEF Span
  <2>. QED
    BY <2>1
<1>7. \A u \in done : \E s \in spans \ old : s.tape = t /\ s.unit = u
  BY DEF Known, SpansOn
<1>. HIDE DEF done, new, old
<1>8. OneSpanPerUnit'
  BY <1>1, <1>2, <1>4, <1>5 DEF OneSpanPerUnit
<1>9. \A u \in Tape \ {t} : SpansOn(u)' = SpansOn(u)
  BY <1>1, <1>2, <1>3 DEF SpansOn
<1>10. UnitsOn(t)' = UnitsOn(t) \cup S
  <2>1. SpansOn(t)' = (SpansOn(t) \ old) \cup new
    BY <1>1, <1>2 DEF SpansOn
  <2>2. UnitsOn(t)' \subseteq UnitsOn(t) \cup S
    BY <1>2, <2>1 DEF UnitsOn
  <2>3. \A u \in S : u \in UnitsOn(t)'
    BY <1>6, <1>7, <2>1 DEF UnitsOn, SpansOn
  <2>4. \A u \in UnitsOn(t) \ S : u \in UnitsOn(t)'
    BY <1>3, <2>1 DEF UnitsOn
  <2>. QED
    BY <2>2, <2>3, <2>4
<1>. QED
  BY <1>8, <1>9, <1>10

LEMMA OneSpanStep ==
  ASSUME TypeOK, ThreadsSound, OneSpanPerUnit, [Next]_vars
  PROVE  OneSpanPerUnit'
<1>1. CASE spans' = spans
  BY <1>1 DEF OneSpanPerUnit
<1>2. ASSUME NEW d \in Drive, Import(d)
      PROVE  OneSpanPerUnit'
  <2>1. PICK S \in SUBSET left[d] : spans' = SpansAfter(tape[d], S, request[owner[d]].verify)
    BY <1>2 DEF Import
  <2>2. tape[d] \in Tape /\ S \in SUBSET Unit
    BY <1>2 DEF Import, TypeOK, ThreadsSound, Busy
  <2>3. request[owner[d]].verify \in BOOLEAN
    <3>1. request[owner[d]] \in Request
      BY <1>2 DEF Import, TypeOK, ThreadsSound
    <3>. QED
      BY <3>1, RequestsAsk
  <2>. QED
    BY <2>1, <2>2, <2>3, SpansMerge
<1>3. ASSUME NEW j \in Job, Cancel(j) \/ JobStep(j) \/ \E r \in Request : Start(j, r)
      PROVE  spans' = spans
  BY <1>3 DEF Cancel, JobStep, Check, Refuse, EndJob, Start, catalogue
<1>4. ASSUME NEW d \in Drive, ThreadStep(d)
      PROVE  spans' = spans \/ Import(d)
  <2>1. CASE Take(d) \/ Skip(d) \/ ThreadEnds(d) \/ Record(d) \/ ThreadGone(d)
    BY <2>1 DEF Take, Skip, Gets, ThreadEnds, Record, ThreadGone, world, catalogue
  <2>2. CASE LookUp(d) \/ NotInSlot(d) \/ LoadRefused(d) \/ Mount(d) \/ Unmount(d)
    BY <2>2 DEF LookUp, NotInSlot, LoadRefused, Mount, Unmount, world, catalogue
  <2>3. CASE Format(d) \/ Register(d) \/ Finish(d) \/ Load(d) \/ Unload(d)
    BY <2>3 DEF Format, Register, Finish, Load, Unload
  <2>. QED
    BY <1>4, <2>1, <2>2, <2>3 DEF ThreadStep
<1>5. ASSUME NEW d \in Drive, FaultStep(d) \/ OperatorUnloads(d)
      PROVE  spans' = spans
  BY <1>5 DEF FaultStep, CallFails, Dies, DiesFormatting, DiesReporting, OperatorUnloads, catalogue
<1>6. ASSUME Crash \/ UNCHANGED vars
      PROVE  spans' = spans
  BY <1>6 DEF Crash, vars, catalogue
<1>. QED
  BY <1>1, <1>2, <1>3, <1>4, <1>5, <1>6 DEF Next

(* Jobs that run have no tape in common. *)
LEMMA SharedStays ==
  ASSUME TypeOK, [Next]_vars
  PROVE  /\ shared => shared'
         /\ shared' = shared \/ \E j \in Job, r \in Request : Start(j, r)
<1>1. ASSUME NEW j \in Job, Cancel(j) \/ JobStep(j)
      PROVE  shared' = shared
  BY <1>1 DEF Cancel, JobStep, Check, Refuse, EndJob, history
<1>2. ASSUME NEW j \in Job, NEW r \in Request, Start(j, r)
      PROVE  shared => shared'
  BY <1>2 DEF Start
<1>3. ASSUME NEW d \in Drive, ThreadStep(d)
      PROVE  shared' = shared
  <2>1. CASE Take(d) \/ Skip(d) \/ ThreadEnds(d) \/ Record(d) \/ ThreadGone(d)
    BY <2>1 DEF Take, Skip, Gets, ThreadEnds, Record, ThreadGone, world, history
  <2>2. CASE LookUp(d) \/ NotInSlot(d) \/ LoadRefused(d) \/ Mount(d) \/ Unmount(d)
    BY <2>2 DEF LookUp, NotInSlot, LoadRefused, Mount, Unmount, world, history
  <2>3. CASE Format(d) \/ Register(d) \/ Import(d) \/ Finish(d) \/ Load(d) \/ Unload(d)
    BY <2>3 DEF Format, Register, Import, Finish, Load, Unload, history
  <2>. QED
    BY <1>3, <2>1, <2>2, <2>3 DEF ThreadStep
<1>4. ASSUME NEW d \in Drive, FaultStep(d) \/ OperatorUnloads(d)
      PROVE  shared' = shared
  BY <1>4 DEF FaultStep, CallFails, Dies, DiesFormatting, DiesReporting, OperatorUnloads, history
<1>5. ASSUME Crash \/ UNCHANGED vars
      PROVE  shared' = shared
  BY <1>5 DEF Crash, vars, history
<1>. QED
  BY <1>1, <1>2, <1>3, <1>4, <1>5 DEF Next

LEMMA BatchStep ==
  ASSUME IInv, [Next]_vars, BatchSound, ~shared'
  PROVE  BatchSound'
<1>0. TypeOK /\ ThreadsSound /\ Shape
  BY Shapes DEF IInv
<1>. USE <1>0
<1>a. ASSUME UNCHANGED <<queue, request, pc, tape, owner>>, \A j \in Job : Live(j)' => Live(j)
      PROVE  BatchSound'
  BY <1>a DEF BatchSound, Batch
<1>1. ASSUME NEW j \in Job, NEW r \in Request, Start(j, r)
      PROVE  BatchSound'
  <2>1. /\ state[j] = "new" /\ state' = [state EXCEPT ![j] = "check"]
        /\ request' = [request EXCEPT ![j] = r] /\ queue' = queue
        /\ UNCHANGED <<pc, tape>>
        /\ \A d \in Drive : owner'[d] \in {owner[d], j}
        /\ \A d \in Drive : owner[d] # NoJob => owner'[d] = owner[d]
        /\ \A i \in Job : Live(i) => Batch(i) \cap Range(r.tapes) = {}
    BY <1>1 DEF Start, FreeDrives
  <2>2. Batch(j)' = Range(r.tapes) /\ \A i \in Job \ {j} : Batch(i)' = Batch(i)
    <3>1. r # NoRequest
      BY RequestsAsk
    <3>2. request'[j] = r /\ \A i \in Job \ {j} : request'[i] = request[i]
      BY <2>1 DEF TypeOK
    <3>. QED
      BY <3>1, <3>2 DEF Batch
  <2>3. \A i \in Job \ {j} : Live(i)' <=> Live(i)
    BY <2>1 DEF Live, TypeOK
  <2>4. \A i \in Job : Range(queue'[i]) \subseteq Batch(i)'
    <3>1. Range(queue[j]) = {}
      BY <2>1 DEF IInv, TapesApart, Range
    <3>. QED
      BY <2>1, <2>2, <3>1 DEF BatchSound
  <2>5. \A d \in Drive : pc[d] \in Busy => owner'[d] = owner[d] /\ owner[d] \in Job \ {j}
    BY <2>1 DEF ThreadsSound, TypeOK, Busy
  <2>6. \A d \in Drive : pc'[d] \in Busy => tape'[d] \in (Batch(owner[d]))'
    BY <2>1, <2>2, <2>5 DEF BatchSound
  <2>7. \A i, k \in Job : i # k /\ Live(i)' /\ Live(k)' => Batch(i)' \cap Batch(k)' = {}
    BY <2>1, <2>2, <2>3 DEF BatchSound
  <2>. QED
    BY <2>4, <2>6, <2>7 DEF BatchSound
<1>2. ASSUME NEW j \in Job, Check(j)
      PROVE  BatchSound'
  <2>1. /\ state[j] = "check" /\ state' = [state EXCEPT ![j] = "running"]
        /\ queue' = [queue EXCEPT ![j] = request[j].tapes]
        /\ UNCHANGED <<request, tape, owner>>
        /\ \A d \in Drive : pc'[d] \in Busy => pc[d] \in Busy
    BY <1>2 DEF Check, Busy
  <2>2. request[j] # NoRequest
    BY <2>1, RequestsAsk DEF ThreadsSound
  <2>3. \A i \in Job : Batch(i)' = Batch(i) /\ (Live(i)' <=> Live(i))
    BY <2>1 DEF Batch, Live, TypeOK
  <2>4. \A i \in Job : Range(queue'[i]) \subseteq Batch(i)
    BY <2>1, <2>2 DEF BatchSound, Batch, TypeOK
  <2>5. \A d \in Drive : pc'[d] \in Busy => tape'[d] \in Batch(owner[d])'
    BY <2>1 DEF BatchSound, Batch
  <2>. QED
    BY <2>3, <2>4, <2>5 DEF BatchSound
<1>3. ASSUME NEW j \in Job, Stops(j)
      PROVE  BatchSound'
  <2>1. /\ \A i \in Job : Live(i)' => Live(i)
        /\ UNCHANGED <<request, queue, pc, tape>>
        /\ \A d \in Drive : owner'[d] = owner[d] \/ (owner[d] = j /\ pc[d] = "idle")
    BY <1>3 DEF Stops, Ends, Live, Drives, TypeOK
  <2>. QED
    BY <2>1 DEF BatchSound, Batch, Busy
<1>4. ASSUME NEW d \in Drive, Take(d) \/ Skip(d)
      PROVE  BatchSound'
  <2>1. /\ owner[d] \in Job /\ queue[owner[d]] \in Seq(Tape) /\ queue[owner[d]] # <<>>
        /\ IsInjective(queue[owner[d]])
    BY <1>4 DEF Take, Skip, Gets, ThreadsSound, TypeOK, IInv, TapesApart
  <2>2. /\ Head(queue[owner[d]]) \in Range(queue[owner[d]])
        /\ Range(Tail(queue[owner[d]])) \subseteq Range(queue[owner[d]])
    BY <2>1, TakingHead
  <2>3. /\ queue' = [queue EXCEPT ![owner[d]] = Tail(@)]
        /\ UNCHANGED <<state, request, owner>>
        /\ tape' \in {tape, [tape EXCEPT ![d] = Head(queue[owner[d]])]}
        /\ \A e \in Drive : e # d => pc'[e] = pc[e] /\ tape'[e] = tape[e]
        /\ pc'[d] \in Busy => tape'[d] = Head(queue[owner[d]])
    BY <1>4 DEF Take, Skip, Gets, Goto, Remaining, TypeOK, Busy
  <2>4. \A i \in Job : Range(queue'[i]) \subseteq Batch(i)
    BY <2>1, <2>2, <2>3 DEF BatchSound, TypeOK
  <2>5. \A e \in Drive : pc'[e] \in Busy => tape'[e] \in Batch(owner[e])
    BY <2>1, <2>2, <2>3 DEF BatchSound
  <2>. QED
    BY <2>3, <2>4, <2>5 DEF BatchSound, Batch, Live
<1>5. ASSUME NEW d \in Drive, ThreadEnds(d) \/ GoesOn(d) \/ Drops(d) \/ Reports(d)
      PROVE  BatchSound'
  <2>1. /\ UNCHANGED <<state, request, queue, owner>>
        /\ \A e \in Drive : pc'[e] \in Busy => pc[e] \in Busy /\ tape'[e] = tape[e]
    BY <1>5 DEF ThreadEnds, GoesOn, Drops, Reports, Goto, world, jobs, TypeOK, Busy
  <2>. QED
    BY <2>1 DEF BatchSound, Batch, Live
<1>6. CASE Crash
  <2>1. /\ \A i \in Job : ~Live(i)' /\ Range(queue'[i]) = {}
        /\ request' = request /\ \A d \in Drive : pc'[d] \notin Busy
    BY <1>6 DEF Crash, Live, Busy, Range
  <2>. QED
    BY <2>1 DEF BatchSound, Batch
<1>7. CASE Elsewhere
  BY <1>7, <1>a DEF Elsewhere, Live
<1>. QED
  BY <1>1, <1>2, <1>3, <1>4, <1>5, <1>6, <1>7 DEF Shape
-----------------------------------------------------------------------------
(* A thread works on its tape alone.                                       *)

(* A tape that a step leaves as it is, but for the row a blank one gets,   *)
(* and perhaps where it is.                                                *)
KeepsContent(t) ==
  /\ files'[t] = files[t] /\ used'[t] = used[t]
  /\ status'[t] \in Blank <=> status[t] \in Blank
  /\ SpansOn(t)' = SpansOn(t)
  /\ t \in repurposed' <=> t \in repurposed
  /\ \A j \in Job : t \in verdict'[j].succeeded => t \in verdict[j].succeeded

Keeps(t) == KeepsContent(t) /\ place'[t] = place[t]

(* A step of the thread of d. *)
Alone(d) ==
  /\ UNCHANGED <<state, request, owner, shared>>
  /\ \A e \in Drive \ {d} :
       /\ pc'[e] = pc[e] /\ tape'[e] = tape[e] /\ slot'[e] = slot[e]
       /\ error'[e] = error[e] /\ left'[e] = left[e]
  /\ \A t \in Tape \ {tape[d]} : Keeps(t)

(* What it has to see to itself. *)
OwnSound(d) ==
  /\ HandSound(d)'
  /\ \A t \in Tape : t = tape[d] => TapeSound(t)'
  /\ \A t \in Tape :
       t = tape[d] /\ Kind(d) = "format" /\ ~request[owner[d]].force => status'[t] \in Blank

(* The invariants while no two jobs have shared a tape. *)
Apt == IInv /\ PlaceSound /\ OneSpanPerUnit /\ BatchSound
       /\ (\A d \in Drive : HandSound(d)) /\ (\A t \in Tape : TapeSound(t))
       /\ (\A j \in Job : JobSound(j))

LEMMA Hands ==
  ASSUME Apt
  PROVE  \A c, d \in Drive : c # d /\ pc[c] \in Busy /\ pc[d] \in Busy => tape[c] # tape[d]
<1>. SUFFICES ASSUME NEW c \in Drive, NEW d \in Drive, c # d, pc[c] \in Busy, pc[d] \in Busy
              PROVE  tape[c] # tape[d]
  OBVIOUS
<1>1. /\ owner[c] \in Job /\ owner[d] \in Job /\ Live(owner[c]) /\ Live(owner[d])
      /\ tape[c] \in Batch(owner[c]) /\ tape[d] \in Batch(owner[d])
  BY DEF Apt, IInv, TypeOK, ThreadsSound, BatchSound, Busy
<1>2. CASE owner[c] = owner[d]
  BY <1>2 DEF Apt, IInv, TapesApart
<1>3. CASE owner[c] # owner[d]
  BY <1>1, <1>3 DEF Apt, BatchSound
<1>. QED
  BY <1>2, <1>3

LEMMA KeptTapes ==
  ASSUME NEW t \in Tape, KeepsContent(t), UNCHANGED request, TapeSound(t)
  PROVE  TapeSound(t)' /\ (Complete(t) => Complete(t)') /\ UnitsOn(t)' = UnitsOn(t)
<1>1. UnitsOn(t)' = UnitsOn(t)
  BY DEF UnitsOn, KeepsContent
<1>2. Complete(t) <=> Complete(t)'
  BY <1>1 DEF Complete, KeepsContent
<1>3. Imported(t)' => Imported(t)
  BY DEF Imported, KeepsContent
<1>. QED
  BY <1>1, <1>2, <1>3 DEF TapeSound, KeepsContent

LEMMA AloneIsEnough ==
  ASSUME Apt, NEW d \in Drive, Alone(d), OwnSound(d)
  PROVE  /\ \A e \in Drive : HandSound(e)'
         /\ \A t \in Tape : TapeSound(t)'
         /\ \A j \in Job : JobSound(j)'
<1>0. TypeOK /\ ThreadsSound
  BY DEF Apt, IInv
<1>1. ASSUME NEW e \in Drive PROVE HandSound(e)'
  <2>1. CASE e = d
    BY <2>1 DEF OwnSound
  <2>2. CASE e # d
    <3> SUFFICES ASSUME NEW t \in Tape, tape[e] = t
                 PROVE  PlacedFor(e, t)' /\ ReadFor(e, t)'
      BY <2>2 DEF HandSound, Alone
    <3>1. pc[e] \in Busy
      BY <1>0, TapeIds DEF ThreadsSound
    <3>2. t # tape[d]
      <4>1. CASE pc[d] \in Busy
        BY <2>2, <3>1, <4>1, Hands
      <4>2. CASE pc[d] \notin Busy
        BY <1>0, <4>2, TapeIds DEF ThreadsSound
      <4>. QED
        BY <4>1, <4>2
    <3>3. Keeps(t) /\ TapeSound(t)
      BY <3>2 DEF Alone, Apt
    <3>4. /\ pc'[e] = pc[e] /\ slot'[e] = slot[e] /\ error'[e] = error[e] /\ left'[e] = left[e]
          /\ request' = request /\ owner' = owner /\ Kind(e)' = Kind(e)
      BY <2>2 DEF Alone, Kind
    <3>5. UnitsOn(t)' = UnitsOn(t) /\ (Complete(t) => Complete(t)')
      BY <3>3, <3>4, KeptTapes DEF Keeps
    <3>6. PlacedFor(e, t) /\ ReadFor(e, t)
      BY DEF Apt, HandSound
    <3>7. PlacedFor(e, t)'
      BY <3>3, <3>4, <3>6 DEF PlacedFor, Keeps, KeepsContent
    <3>8. ReadFor(e, t)'
      BY <3>3, <3>4, <3>5, <3>6 DEF ReadFor, Keeps, KeepsContent
    <3>. QED
      BY <3>7, <3>8
  <2>. QED
    BY <2>1, <2>2
<1>2. ASSUME NEW t \in Tape PROVE TapeSound(t)'
  BY KeptTapes DEF Alone, OwnSound, Apt, Keeps
<1>3. ASSUME NEW j \in Job PROVE JobSound(j)'
  <2> SUFFICES ASSUME state[j] = "running", request[j].kind = "format", ~request[j].force,
                      NEW t \in Batch(j), t \in Tape
               PROVE  status'[t] \in Blank
    <3>1. state' = state /\ request' = request /\ Batch(j)' = Batch(j)
      BY DEF Alone, Batch
    <3>2. Batch(j) \subseteq Tape
      BY <1>0, RequestShape DEF TypeOK, Batch, Range
    <3>. QED
      BY <3>1, <3>2 DEF JobSound
  <2>1. status[t] \in Blank
    BY DEF Apt, JobSound
  <2>2. CASE t # tape[d]
    BY <2>1, <2>2 DEF Alone, Keeps, KeepsContent
  <2>3. CASE t = tape[d]
    <3>1. pc[d] \in Busy /\ owner[d] \in Job /\ Live(owner[d]) /\ t \in Batch(owner[d])
      BY <1>0, <2>3, TapeIds DEF ThreadsSound, TypeOK, Apt, BatchSound, Busy
    <3>2. owner[d] = j
      BY <3>1 DEF Apt, BatchSound, Live
    <3>. QED
      BY <2>3, <3>2 DEF OwnSound, Kind
  <2>. QED
    BY <2>2, <2>3
<1>. QED
  BY <1>1, <1>2, <1>3

(* What a thread has done to its tape is done to no other. *)
LEMMA OneInside ==
  ASSUME Apt, NEW d \in Drive, pc[d] \in Inside
  PROVE  tape[d] \in Tape /\ In(d) = {tape[d]}
<1>1. tape[d] \in Tape
  BY DEF Apt, IInv, TypeOK, ThreadsSound, Inside, Busy
<1>. QED
  BY <1>1 DEF Apt, HandSound, PlacedFor, PlaceSound, In

LEMMA LoadsOwn ==
  ASSUME Apt, NEW d \in Drive, pc[d] = "load", Loads(d)
  PROVE  /\ tape[d] \in Tape /\ place'[tape[d]] = d
         /\ \A t \in Tape \ {tape[d]} : place'[t] = place[t]
<1>1. tape[d] \in Tape
  BY DEF Apt, IInv, TypeOK, ThreadsSound, Busy
<1>2. place[tape[d]] = slot[d]
  BY <1>1 DEF Apt, HandSound, PlacedFor
<1>. QED
  BY <1>1, <1>2 DEF Loads, Apt, PlaceSound

LEMMA UnloadsOwn ==
  ASSUME Apt, NEW d \in Drive, pc[d] = "unload", Unloads(d)
  PROVE  /\ tape[d] \in Tape /\ place'[tape[d]] \in Slot
         /\ \A t \in Tape \ {tape[d]} : place'[t] = place[t]
<1>1. tape[d] \in Tape /\ In(d) = {tape[d]}
  BY OneInside DEF Inside
<1>. QED
  BY <1>1 DEF Unloads, FirstFree, FreeSlots, In

LEMMA WipesOwn ==
  ASSUME Apt, NEW d \in Drive, pc[d] = "format"
  PROVE  /\ tape[d] \in Tape /\ Wiped(d)[tape[d]] = {}
         /\ \A t \in Tape \ {tape[d]} : Wiped(d)[t] = files[t]
         /\ Repurposes(d) =>
              /\ \A t \in Tape \ {tape[d]} : t \in repurposed' <=> t \in repurposed
              /\ request[owner[d]].force => tape[d] \in repurposed'
              /\ ~request[owner[d]].force => repurposed' = repurposed
<1>1. tape[d] \in Tape /\ In(d) = {tape[d]}
  BY OneInside DEF Inside
<1>. QED
  BY <1>1 DEF Wiped, Repurposes

(* A row sync_snapshot makes is that of a blank tape. *)
LEMMA RowsAppear ==
  ASSUME NEW where, NEW t \in Tape
  PROVE  Registered(where)[t] \in Blank <=> status[t] \in Blank
BY DEF Registered, Blank
-----------------------------------------------------------------------------
(* The steps of a thread.                                                  *)

(* What it does not do to its own tape either, but for moving it.          *)
Moves(d) ==
  \A t \in Tape : t = tape[d] => KeepsContent(t)

LEMMA FormatsBlank ==
  ASSUME Apt, NEW d \in Drive, tape[d] \in Tape, Kind(d) = "format", ~request[owner[d]].force
  PROVE  status[tape[d]] \in Blank
<1>1. pc[d] \in Busy /\ owner[d] \in Job /\ state[owner[d]] = "running"
      /\ tape[d] \in Batch(owner[d])
  BY TapeIds DEF Apt, IInv, ThreadsSound, TypeOK, BatchSound, Busy
<1>. QED
  BY <1>1 DEF Apt, JobSound, Kind

(* What it has to have found out about the tape it goes on with. *)
Goes(d, t) ==
  /\ t = tape[d] \/ pc'[d] \in {"register", "lookup"}
  /\ pc'[d] = "load" => slot'[d] \in Slot /\ place'[t] = slot'[d]
  /\ pc'[d] \in Inside => place'[t] = d
  /\ pc'[d] = "record" /\ error'[d] = "none" => place'[t] \in Slot
  /\ pc'[d] = "format" => Kind(d) = "format"
  /\ pc'[d] \in {"register", "mount", "import", "unmount"} => Kind(d) = "import"
  /\ pc'[d] # "register" /\ Kind(d) = "import" => status[t] \notin Blank
  /\ pc'[d] = "import" =>
       left'[d] \subseteq files[t] /\ (t \notin repurposed => files[t] \subseteq UnitsOn(t) \cup left'[d])
  /\ pc'[d] \in {"unmount", "unload", "record"} /\ error'[d] = "none"
       /\ Kind(d) = "import" /\ t \notin repurposed => Complete(t)

LEMMA MovesAreSound ==
  ASSUME Apt, NEW d \in Drive, Alone(d), Moves(d), \A t \in Tape : tape'[d] = t => Goes(d, t)
  PROVE  OwnSound(d)
<1>1. ASSUME NEW t \in Tape
      PROVE  KeepsContent(t) /\ TapeSound(t)
             /\ TapeSound(t)' /\ (Complete(t) => Complete(t)') /\ UnitsOn(t)' = UnitsOn(t)
  <2>1. KeepsContent(t) /\ TapeSound(t) /\ request' = request
    BY DEF Alone, Moves, Keeps, Apt
  <2>. QED
    BY <2>1, KeptTapes
<1>2. ASSUME NEW t \in Tape, tape'[d] = t
      PROVE  PlacedFor(d, t)' /\ ReadFor(d, t)'
  <2>1. PlacedFor(d, t)'
    BY <1>2 DEF PlacedFor, Goes
  <2>2. Kind(d)' = Kind(d)
    BY DEF Alone, Kind
  <2>3. ReadFor(d, t)'
    BY <1>1, <1>2, <2>2 DEF ReadFor, KeepsContent, Goes
  <2>. QED
    BY <2>1, <2>3
<1>3. ASSUME NEW t \in Tape, t = tape[d], Kind(d) = "format", ~request[owner[d]].force
      PROVE  status'[t] \in Blank
  BY <1>1, <1>3, FormatsBlank DEF KeepsContent
<1>. QED
  BY <1>1, <1>2, <1>3 DEF OwnSound, HandSound

(* A step that does nothing but move the thread on. *)
LEMMA WorldStays ==
  ASSUME Apt, NEW d \in Drive,
         UNCHANGED <<catalogue, files, state, request, owner, history>>,
         \A j \in Job : verdict'[j].succeeded = verdict[j].succeeded,
         \A t \in Tape \ {tape[d]} : place'[t] = place[t],
         \A e \in Drive \ {d} :
           /\ pc'[e] = pc[e] /\ tape'[e] = tape[e] /\ slot'[e] = slot[e]
           /\ error'[e] = error[e] /\ left'[e] = left[e]
  PROVE  Alone(d) /\ Moves(d)
<1>1. \A t \in Tape : KeepsContent(t)
  BY DEF KeepsContent, SpansOn, catalogue, history
<1>. QED
  BY <1>1 DEF Alone, Moves, Keeps, history

LEMMA Taking ==
  ASSUME Apt, NEW d \in Drive, Take(d) \/ Skip(d) \/ ThreadEnds(d)
  PROVE  Alone(d) /\ OwnSound(d)
<1>0. TypeOK /\ ThreadsSound /\ tape[d] = NoTape
  BY DEF Apt, IInv, ThreadsSound, Take, Skip, Gets, ThreadEnds, Busy
<1>1. /\ UNCHANGED <<catalogue, library, state, request, owner, history, slot, error, left>>
      /\ \A j \in Job : verdict'[j].succeeded = verdict[j].succeeded
      /\ \A e \in Drive \ {d} : pc'[e] = pc[e] /\ tape'[e] = tape[e]
      /\ tape'[d] \in Tape =>
           pc'[d] = IF Kind(d) = "import" THEN "register" ELSE "lookup"
  <2>1. CASE Take(d)
    BY <1>0, <2>1 DEF Take, Gets, Goto, TypeOK
  <2>2. CASE Skip(d)
    <3>1. owner[d] \in Job
      BY <1>0, <2>2 DEF Skip, Gets, ThreadsSound, TypeOK
    <3>2. \A j \in Job : verdict'[j].succeeded = verdict[j].succeeded
      BY <1>0, <2>2, <3>1 DEF Skip, TypeOK
    <3>. QED
      BY <1>0, <2>2, <3>2, TapeIds DEF Skip, Gets, TypeOK
  <2>3. CASE ThreadEnds(d)
    BY <1>0, <2>3, TapeIds DEF ThreadEnds, Goto, TypeOK, world, jobs
  <2>. QED
    BY <2>1, <2>2, <2>3
<1>2. Alone(d) /\ Moves(d)
  BY <1>1, WorldStays DEF library
<1>3. Kind(d) # "import" => pc'[d] # "register" \/ tape'[d] \notin Tape
  BY <1>1
<1>. QED
  <2>1. ASSUME NEW t \in Tape, tape'[d] = t PROVE Goes(d, t)
    BY <1>1, <2>1 DEF Goes, Inside
  <2>. QED
    BY <1>2, <2>1, MovesAreSound

(* The tape in hand stays there, and so does what is known of it. *)
LEMMA InHand ==
  ASSUME Apt, NEW d \in Drive, pc[d] \in Busy
  PROVE  /\ TypeOK /\ ThreadsSound /\ tape[d] \in Tape /\ owner[d] \in Job
         /\ state[owner[d]] = "running" /\ tape[d] \in Batch(owner[d])
         /\ Kind(d) \in {"format", "import"}
         /\ PlacedFor(d, tape[d]) /\ ReadFor(d, tape[d]) /\ TapeSound(tape[d])
<1>1. /\ TypeOK /\ ThreadsSound /\ tape[d] \in Tape /\ owner[d] \in Job
      /\ state[owner[d]] = "running" /\ tape[d] \in Batch(owner[d])
  BY DEF Apt, IInv, ThreadsSound, TypeOK, BatchSound, Busy
<1>2. Kind(d) \in {"format", "import"}
  BY <1>1, RequestsAsk DEF ThreadsSound, Kind
<1>. QED
  BY <1>1, <1>2 DEF Apt, HandSound

LEMMA GoingOn ==
  ASSUME Apt, NEW d \in Drive,
         LookUp(d) \/ NotInSlot(d) \/ LoadRefused(d) \/ Mount(d) \/ Unmount(d) \/ ThreadGone(d)
  PROVE  Alone(d) /\ OwnSound(d)
<1>0. pc[d] \in Busy /\ UNCHANGED world
  BY DEF LookUp, NotInSlot, LoadRefused, Mount, Unmount, ThreadGone, Busy
<1>. USE InHand, <1>0
<1>1. Alone(d) /\ Moves(d)
  <2>1. \A e \in Drive \ {d} :
          /\ pc'[e] = pc[e] /\ tape'[e] = tape[e] /\ slot'[e] = slot[e]
          /\ error'[e] = error[e] /\ left'[e] = left[e]
    BY DEF LookUp, NotInSlot, LoadRefused, Mount, Unmount, ThreadGone, PutDown, Goto, Fails, TypeOK
  <2>. QED
    BY <2>1, WorldStays DEF world, library, jobs
<1>2. CASE LookUp(d)
  <2>1. /\ tape' = tape /\ place' = place /\ pc'[d] = "load" /\ slot'[d] = place[tape[d]]
        /\ slot'[d] \in Slot /\ pc[d] = "lookup"
    BY <1>2 DEF LookUp, Found, Goto, TypeOK, world, library
  <2>. QED
    <3>1. ASSUME NEW t \in Tape, tape'[d] = t PROVE Goes(d, t)
      BY <2>1, <3>1 DEF Goes, ReadFor, Inside
    <3>. QED
      BY <1>1, <3>1, MovesAreSound
<1>3. CASE NotInSlot(d) \/ LoadRefused(d)
  <2>1. /\ tape' = tape /\ pc'[d] = "record" /\ error'[d] # "none" /\ pc[d] \in {"lookup", "load"}
    BY <1>3 DEF NotInSlot, LoadRefused, Fails, AfterNoLoad, Goto, TypeOK
  <2>. QED
    <3>1. ASSUME NEW t \in Tape, tape'[d] = t PROVE Goes(d, t)
      BY <2>1, <3>1 DEF Goes, ReadFor, Inside
    <3>. QED
      BY <1>1, <3>1, MovesAreSound
<1>4. CASE Mount(d)
  <2>1. /\ tape' = tape /\ place' = place /\ pc'[d] = "import" /\ pc[d] = "mount"
        /\ left'[d] = UNION {files[t] : t \in In(d)}
    BY <1>4 DEF Mount, Goto, TypeOK, world, library
  <2>2. left'[d] = files[tape[d]] /\ place[tape[d]] = d
    BY <2>1, OneInside DEF Inside, PlacedFor
  <2>. QED
    <3>1. ASSUME NEW t \in Tape, tape'[d] = t PROVE Goes(d, t)
      BY <2>1, <2>2, <3>1 DEF Goes, ReadFor
    <3>. QED
      BY <1>1, <3>1, MovesAreSound
<1>5. CASE Unmount(d)
  <2>1. /\ tape' = tape /\ error' = error /\ place' = place /\ pc'[d] = "unload"
        /\ pc[d] = "unmount"
    BY <1>5 DEF Unmount, Goto, TypeOK, world, library
  <2>. QED
    <3>1. ASSUME NEW t \in Tape, tape'[d] = t PROVE Goes(d, t)
      BY <2>1, <3>1 DEF Goes, ReadFor, PlacedFor, Inside
    <3>. QED
      BY <1>1, <3>1, MovesAreSound
<1>6. CASE ThreadGone(d)
  <2>1. tape'[d] \notin Tape
    BY <1>6, TapeIds DEF ThreadGone, PutDown, TypeOK
  <2>. QED
    <3>1. ASSUME NEW t \in Tape, tape'[d] = t PROVE Goes(d, t)
      BY <2>1, <3>1 DEF Goes
    <3>. QED
      BY <1>1, <3>1, MovesAreSound
<1>. QED
  BY <1>2, <1>3, <1>4, <1>5, <1>6

(* Loading and unloading. *)
LEMMA Moving ==
  ASSUME Apt, NEW d \in Drive, Load(d) \/ Unload(d)
  PROVE  Alone(d) /\ OwnSound(d)
<1>0. pc[d] \in Busy
  BY DEF Load, Unload, Busy
<1>. USE InHand, <1>0
<1>1. /\ UNCHANGED <<used, checked, spans, files, state, request, verdict, owner, tape, left>>
      /\ UNCHANGED history /\ status' \in {status, Registered(place')}
      /\ \A e \in Drive \ {d} :
           pc'[e] = pc[e] /\ slot'[e] = slot[e] /\ error'[e] = error[e]
  BY DEF Load, Unload, Goto, Fails, jobs, TypeOK
<1>2. \A t \in Tape : KeepsContent(t)
  <2>1. \A t \in Tape : status'[t] \in Blank <=> status[t] \in Blank
    BY <1>1, RowsAppear
  <2>. QED
    BY <1>1, <2>1 DEF KeepsContent, SpansOn, history
<1>3. CASE Load(d)
  <2>1. /\ pc[d] = "load" /\ Loads(d) /\ pc'[d] = AfterLoad(d)
    BY <1>3 DEF Load, Goto, TypeOK
  <2>2. /\ place'[tape[d]] = d /\ \A t \in Tape \ {tape[d]} : place'[t] = place[t]
    BY <2>1, LoadsOwn
  <2>3. Alone(d) /\ Moves(d)
    BY <1>1, <1>2, <2>2 DEF Alone, Moves, Keeps, history
  <2>4. ASSUME NEW t \in Tape, tape'[d] = t PROVE Goes(d, t)
    BY <1>1, <2>1, <2>2, <2>4 DEF Goes, AfterLoad, ReadFor, Inside
  <2>. QED
    BY <2>3, <2>4, MovesAreSound
<1>4. CASE Unload(d)
  <2>1. /\ pc[d] = "unload" /\ pc'[d] = "record"
        /\ \/ place' = place /\ error'[d] # "none"
           \/ Unloads(d) /\ error' = error
    BY <1>4 DEF Unload, Goto, Fails, TypeOK
  <2>2. /\ error'[d] = "none" => place'[tape[d]] \in Slot /\ error[d] = "none"
        /\ \A t \in Tape \ {tape[d]} : place'[t] = place[t]
    BY <2>1, UnloadsOwn
  <2>3. Alone(d) /\ Moves(d)
    BY <1>1, <1>2, <2>2 DEF Alone, Moves, Keeps, history
  <2>4. ASSUME NEW t \in Tape, tape'[d] = t PROVE Goes(d, t)
    BY <1>1, <2>1, <2>2, <2>4 DEF Goes, ReadFor, Inside
  <2>. QED
    BY <2>3, <2>4, MovesAreSound
<1>. QED
  BY <1>3, <1>4

(* A tape is wiped: by a format without force it was blank, and nothing is *)
(* listed on it.                                                           *)
LEMMA Wiping ==
  ASSUME Apt, NEW d \in Drive, pc[d] = "format",
         \/ UNCHANGED <<files, repurposed>>
         \/ files' = Wiped(d) /\ Repurposes(d),
         UNCHANGED <<checked, spans, place, state, request, verdict, owner, tape, slot,
                     left, shared>>,
         \A t \in Tape \ {tape[d]} : status'[t] = status[t] /\ used'[t] = used[t],
         \/ status'[tape[d]] = status[tape[d]] /\ used'[tape[d]] = used[tape[d]]
         \/ /\ status'[tape[d]] \in Blank
            /\ files' = Wiped(d) /\ Repurposes(d),
         pc' = [pc EXCEPT ![d] = "unload"], \A e \in Drive \ {d} : error'[e] = error[e]
  PROVE  Alone(d) /\ OwnSound(d)
<1>0. pc[d] \in Busy /\ pc[d] \in Inside
  BY DEF Busy, Inside
<1>. USE InHand, <1>0
<1>1. /\ Kind(d) = "format" /\ place[tape[d]] = d
      /\ \A t \in Tape : SpansOn(t)' = SpansOn(t) /\ UnitsOn(t)' = UnitsOn(t)
  BY DEF ReadFor, PlacedFor, SpansOn, UnitsOn
<1>2. Alone(d)
  <2>1. \A t \in Tape \ {tape[d]} :
          files'[t] = files[t] /\ (t \in repurposed' <=> t \in repurposed)
    BY WipesOwn
  <2>2. \A t \in Tape \ {tape[d]} : Keeps(t)
    BY <1>1, <2>1 DEF Keeps, KeepsContent
  <2>. QED
    BY <2>2 DEF Alone, TypeOK
<1>3. HandSound(d)'
  <2>1. /\ pc'[d] = "unload" /\ tape' = tape /\ place' = place
        /\ Kind(d)' = Kind(d)
    BY DEF TypeOK, Kind
  <2>. QED
    BY <1>1, <2>1 DEF HandSound, PlacedFor, ReadFor, Inside
<1>4. CASE request[owner[d]].force
  <2>1. tape[d] \in repurposed' \/ KeepsContent(tape[d])
    BY <1>1, <1>4, WipesOwn DEF KeepsContent
  <2>2. \A t \in Tape : t = tape[d] => TapeSound(t)'
    <3>1. CASE tape[d] \in repurposed'
      BY <3>1 DEF TapeSound
    <3>2. CASE KeepsContent(tape[d])
      BY <3>2, KeptTapes
    <3>. QED
      BY <2>1, <3>1, <3>2
  <2>. QED
    BY <1>2, <1>3, <1>4, <2>2 DEF OwnSound
<1>5. CASE ~request[owner[d]].force
  <2>1. status[tape[d]] \in Blank /\ status'[tape[d]] \in Blank
    BY <1>1, <1>5, FormatsBlank
  <2>2. repurposed' = repurposed
    BY <1>5, WipesOwn
  <2>3. tape[d] \in repurposed \/ (SpansOn(tape[d]) = {} /\ ~Imported(tape[d]))
    BY <2>1 DEF TapeSound, Complete
  <2>4. ASSUME NEW t \in Tape, t = tape[d]
        PROVE  TapeSound(t)'
    <3>1. Imported(t)' => Imported(t)
      BY DEF Imported
    <3>. QED
      BY <1>1, <2>2, <2>3, <2>4, <3>1 DEF TapeSound
  <2>. QED
    BY <1>2, <1>3, <2>1, <2>4 DEF OwnSound
<1>. QED
  BY <1>4, <1>5

LEMMA Formatting ==
  ASSUME Apt, NEW d \in Drive, Format(d)
  PROVE  Alone(d) /\ OwnSound(d)
<1>0. pc[d] \in Busy
  BY DEF Format, Busy
<1>1. /\ pc[d] = "format" /\ files' = Wiped(d) /\ Repurposes(d)
      /\ UNCHANGED <<checked, spans, place, state, request, verdict, owner, tape, slot,
                     left, shared>>
      /\ pc' = [pc EXCEPT ![d] = "unload"] /\ error' = error
  BY DEF Format, Goto, jobs
<1>2. \A t \in Tape \ {tape[d]} : status'[t] = status[t] /\ used'[t] = used[t]
  BY <1>0, InHand DEF Format, TypeOK
<1>3. status'[tape[d]] \in Blank
  BY <1>0, InHand DEF Format, TypeOK, Blank
<1>. QED
  BY <1>1, <1>2, <1>3, Wiping
-----------------------------------------------------------------------------
(* Importing.                                                              *)

LEMMA Registering ==
  ASSUME Apt, NEW d \in Drive, Register(d)
  PROVE  Alone(d) /\ OwnSound(d)
<1>0. pc[d] \in Busy
  BY DEF Register, Busy
<1>. USE InHand, <1>0
<1>1. /\ pc[d] = "register" /\ pc'[d] = "lookup" /\ Kind(d) = "import"
      /\ status'[tape[d]] \notin Blank
      /\ UNCHANGED <<used, checked, spans, library, jobs, owner, tape, slot, error, left,
                     bounds, history>>
      /\ \A t \in Tape \ {tape[d]} : status'[t] = status[t]
      /\ \A e \in Drive \ {d} : pc'[e] = pc[e]
  BY DEF Register, ReadFor, Goto, TypeOK, Archived, Blank
<1>2. /\ Kind(d)' = Kind(d) /\ \A t \in Tape : Imported(t)' <=> Imported(t)
      /\ \A t \in Tape : SpansOn(t)' = SpansOn(t) /\ UnitsOn(t)' = UnitsOn(t)
  BY <1>1 DEF Kind, Imported, SpansOn, UnitsOn, jobs
<1>3. Alone(d)
  BY <1>1, <1>2 DEF Alone, Keeps, KeepsContent, library, jobs, history
<1>4. HandSound(d)'
  BY <1>1, <1>2 DEF HandSound, PlacedFor, ReadFor, Inside
<1>5. TapeSound(tape[d]) => \A t \in Tape : t = tape[d] => TapeSound(t)'
  BY <1>1, <1>2 DEF TapeSound, Complete, library, history
<1>. QED
  BY <1>1, <1>3, <1>4, <1>5 DEF OwnSound

LEMMA Importing ==
  ASSUME Apt, NEW d \in Drive, Import(d)
  PROVE  Alone(d) /\ OwnSound(d)
<1>0. pc[d] \in Busy /\ OneSpanPerUnit
  BY DEF Import, Busy, Apt
<1>. USE InHand, <1>0
<1>. PICK r \in Tape : r = tape[d]
  OBVIOUS
<1>1. /\ pc[d] = "import" /\ Kind(d) = "import"
      /\ UNCHANGED <<status, used, checked, library, jobs, owner, pc, tape, slot, error,
                     bounds, history>>
      /\ \A e \in Drive \ {d} : left'[e] = left[e]
  BY DEF Import, ReadFor, TypeOK
<1>2. PICK S \in SUBSET left[d] :
        spans' = SpansAfter(r, S, request[owner[d]].verify) /\ left'[d] = left[d] \ S
  BY DEF Import, TypeOK
<1>3. /\ request[owner[d]].verify \in BOOLEAN /\ S \in SUBSET Unit
  BY <1>2, RequestsAsk DEF TypeOK, ThreadsSound
<1>4. /\ OneSpanPerUnit' /\ UnitsOn(r)' = UnitsOn(r) \cup S
      /\ \A t \in Tape \ {r} : SpansOn(t)' = SpansOn(t)
  BY <1>2, <1>3, SpansMerge
<1>5. Kind(d)' = Kind(d) /\ \A t \in Tape : Imported(t)' <=> Imported(t)
  BY <1>1 DEF Kind, Imported, jobs
<1>6. Alone(d)
  BY <1>1, <1>4 DEF Alone, Keeps, KeepsContent, library, jobs, history
<1>7. /\ left[d] \subseteq files[r] /\ status[r] \notin Blank /\ place[r] = d
      /\ r \notin repurposed => files[r] \subseteq UnitsOn(r) \cup left[d]
  BY <1>1 DEF ReadFor, PlacedFor, Inside
<1>8. ASSUME NEW t \in Tape, t = r
      PROVE  UnitsOn(t)' = UnitsOn(r) \cup S
  BY <1>4, <1>8 DEF UnitsOn, SpansOn
<1>9. HandSound(d)'
  BY <1>1, <1>2, <1>5, <1>7, <1>8 DEF HandSound, PlacedFor, ReadFor, Inside, library, history
<1>10. ASSUME Complete(r), NEW t \in Tape, t = r
       PROVE  Complete(t)'
  <2>1. UnitsOn(t)' = UnitsOn(r)
    <3>1. S \subseteq UnitsOn(r)
      BY <1>2, <1>7, <1>10 DEF Complete
    <3>2. UnitsOn(t)' = UnitsOn(r) \cup S
      BY <1>8, <1>10
    <3>. QED
      BY <3>1, <3>2
  <2>2. Cardinality(SpansOn(t)') = Cardinality(UnitsOn(t)')
    <3>1. TypeOK'
      BY TypeStep DEF Apt, IInv, Next, ThreadStep
    <3>2. IsFiniteSet(SpansOn(t)')
      BY <3>1, <1>10, SpansAreFinite DEF SpansOn, TypeOK
    <3>3. \A p, q \in SpansOn(t)' : p.unit = q.unit => p = q
      BY <1>4 DEF OneSpanPerUnit, SpansOn
    <3>. QED
      BY <3>2, <3>3, SpansAreUnits DEF UnitsOn
  <2>3. Cardinality(SpansOn(r)) = Cardinality(UnitsOn(r))
    <3>2. IsFiniteSet(SpansOn(r))
      BY SpansAreFinite DEF SpansOn, TypeOK
    <3>3. \A p, q \in SpansOn(r) : p.unit = q.unit => p = q
      BY <1>0 DEF OneSpanPerUnit, SpansOn
    <3>. QED
      BY <3>2, <3>3, SpansAreUnits DEF UnitsOn
  <2>. QED
    BY <1>1, <1>10, <2>1, <2>2, <2>3 DEF Complete, library
<1>11. ASSUME NEW t \in Tape, t = r
       PROVE  TapeSound(t)'
  <2>1. \A s \in SpansOn(t)' : s.unit \in UnitsOn(t)'
    BY DEF UnitsOn
  <2>2. r \notin repurposed => UnitsOn(r) \subseteq files[r]
    BY DEF TapeSound, UnitsOn
  <2>3. r \notin repurposed => \A s \in SpansOn(t)' : s.unit \in files[r]
    BY <1>2, <1>7, <1>8, <1>11, <2>1, <2>2
  <2>4. r \notin repurposed /\ Imported(r) => Complete(t)'
    BY <1>10, <1>11 DEF TapeSound
  <2>. QED
    BY <1>1, <1>5, <1>7, <1>11, <2>3, <2>4 DEF TapeSound, library, history
<1>. QED
  BY <1>1, <1>6, <1>9, <1>11 DEF OwnSound

LEMMA Finishing ==
  ASSUME Apt, NEW d \in Drive, Finish(d)
  PROVE  Alone(d) /\ OwnSound(d)
<1>0. pc[d] \in Busy
  BY DEF Finish, Busy
<1>. USE InHand, <1>0
<1>1. /\ pc[d] = "import" /\ pc'[d] = "unmount" /\ Kind(d) = "import" /\ left[d] = {}
      /\ UNCHANGED <<status, spans, library, jobs, owner, tape, slot, error, left,
                     bounds, history>>
      /\ \A t \in Tape \ {tape[d]} : used'[t] = used[t]
      /\ \A e \in Drive \ {d} : pc'[e] = pc[e]
      /\ used'[tape[d]] = Cardinality(SpansOn(tape[d]))
  BY DEF Finish, ReadFor, Goto, TypeOK
<1>2. /\ Kind(d)' = Kind(d) /\ \A t \in Tape : Imported(t)' <=> Imported(t)
      /\ \A t \in Tape : SpansOn(t)' = SpansOn(t) /\ UnitsOn(t)' = UnitsOn(t)
  BY <1>1 DEF Kind, Imported, SpansOn, UnitsOn, jobs
<1>3. Alone(d)
  BY <1>1, <1>2 DEF Alone, Keeps, KeepsContent, library, jobs, history
<1>4. tape[d] \notin repurposed => \A t \in Tape : t = tape[d] => Complete(t)'
  <2>1. tape[d] \notin repurposed => files[tape[d]] = UnitsOn(tape[d])
    BY <1>1 DEF ReadFor, TapeSound, UnitsOn
  <2>2. status[tape[d]] \notin Blank
    BY <1>1 DEF ReadFor
  <2>. QED
    BY <1>1, <1>2, <2>1, <2>2 DEF Complete, library
<1>5. HandSound(d)'
  BY <1>1, <1>2, <1>4 DEF HandSound, PlacedFor, ReadFor, Inside, library, history
<1>6. \A t \in Tape : t = tape[d] => TapeSound(t)'
  BY <1>1, <1>2, <1>4 DEF TapeSound, library, history
<1>. QED
  BY <1>1, <1>3, <1>5, <1>6 DEF OwnSound

(* A tape reported as imported is catalogued completely.                   *)
LEMMA Recording ==
  ASSUME Apt, NEW d \in Drive, Record(d) \/ DiesReporting(d)
  PROVE  Alone(d) /\ OwnSound(d)
<1>0. pc[d] \in Busy
  BY DEF Record, DiesReporting, Busy
<1>. USE InHand, <1>0
<1>1. /\ pc[d] = "record" /\ verdict' = Verdict(d) /\ tape'[d] \notin Tape
      /\ UNCHANGED <<catalogue, library, state, request, queue, cancelled, owner, history>>
      /\ \A e \in Drive \ {d} :
           /\ pc'[e] = pc[e] /\ tape'[e] = tape[e] /\ slot'[e] = slot[e]
           /\ error'[e] = error[e] /\ left'[e] = left[e]
  <2>1. PutDown(d) /\ pc[d] = "record" /\ verdict' = Verdict(d)
        /\ UNCHANGED <<catalogue, library, state, request, queue, cancelled, owner, history>>
        /\ \A e \in Drive \ {d} : pc'[e] = pc[e]
    BY DEF Record, DiesReporting, Goto, TypeOK
  <2>2. NoTape \notin Tape
    BY TapeIds
  <2>. QED
    BY <2>1, <2>2 DEF PutDown, TypeOK
<1>2. /\ \A j \in Job : j # owner[d] => verdict'[j] = verdict[j]
      /\ error[d] # "none" => verdict'[owner[d]].succeeded = verdict[owner[d]].succeeded
      /\ error[d] = "none" =>
           verdict'[owner[d]].succeeded = verdict[owner[d]].succeeded \cup {tape[d]}
  BY <1>1 DEF Verdict, TypeOK
<1>3. \A t \in Tape : SpansOn(t)' = SpansOn(t) /\ UnitsOn(t)' = UnitsOn(t)
  BY <1>1 DEF SpansOn, UnitsOn, catalogue
<1>4. Alone(d)
  BY <1>1, <1>2, <1>3 DEF Alone, Keeps, KeepsContent, catalogue, library, history
<1>5. ASSUME NEW t \in Tape, t = tape[d]
      PROVE  TapeSound(t)'
  <2>1. Imported(t)' => Imported(t) \/ (Kind(d) = "import" /\ error[d] = "none")
    BY <1>1, <1>2, <1>5 DEF Imported, Kind
  <2>2. t \notin repurposed /\ Imported(t)' => Complete(t)
    BY <1>1, <1>5, <2>1 DEF TapeSound, ReadFor
  <2>3. Complete(t) => Complete(t)'
    BY <1>1, <1>3 DEF Complete, catalogue, library
  <2>. QED
    BY <1>1, <1>3, <1>5, <2>2, <2>3 DEF TapeSound, catalogue, library, history
<1>6. Kind(d) = "format" /\ ~request[owner[d]].force => status'[tape[d]] \in Blank
  BY <1>1, FormatsBlank DEF catalogue
<1>. QED
  BY <1>1, <1>4, <1>5, <1>6 DEF OwnSound, HandSound
-----------------------------------------------------------------------------
(* What goes wrong.                                                        *)

LEMMA Failing ==
  ASSUME Apt, NEW d \in Drive, CallFails(d)
  PROVE  Alone(d) /\ OwnSound(d)
<1>0. pc[d] \in Busy
  BY DEF CallFails, FailsTo, Busy
<1>. USE InHand, <1>0
<1>1. /\ UNCHANGED <<catalogue, state, request, verdict, owner, tape, slot, left, shared>>
      /\ \A e \in Drive \ {d} : pc'[e] = pc[e] /\ error'[e] = error[e]
      /\ error'[d] # "none"
  BY DEF CallFails, Fails, Goto, jobs, TypeOK
<1>2. ASSUME files' = files, repurposed' = repurposed,
             \A t \in Tape \ {tape[d]} : place'[t] = place[t]
      PROVE  Alone(d) /\ Moves(d)
  BY <1>1, <1>2, WorldStays DEF history
<1>3. CASE pc[d] \in DOMAIN FailsTo /\ Fails(d, FailsTo[pc[d]]) /\ UNCHANGED <<library, repurposed>>
  <2>1. /\ pc[d] \in {"lookup", "mount", "import", "unmount"} /\ place' = place /\ files' = files
        /\ pc'[d] = CASE pc[d] = "lookup" -> "record" [] pc[d] = "import" -> "unmount"
                      [] OTHER -> "unload"
    BY <1>3 DEF FailsTo, Fails, Goto, library, TypeOK
  <2>2. ASSUME NEW t \in Tape, tape'[d] = t PROVE Goes(d, t)
    BY <1>1, <2>1, <2>2 DEF Goes, ReadFor, PlacedFor, Inside
  <2>. QED
    BY <1>2, <1>3, <2>1, <2>2, MovesAreSound
<1>4. CASE pc[d] = "load" /\ Fails(d, AfterNoLoad(d))
           /\ (UNCHANGED place \/ Loads(d)) /\ UNCHANGED <<files, repurposed>>
  <2>1. pc'[d] = "record"
    BY <1>4 DEF Fails, AfterNoLoad, Goto, TypeOK
  <2>2. \A t \in Tape \ {tape[d]} : place'[t] = place[t]
    BY <1>4, LoadsOwn
  <2>3. ASSUME NEW t \in Tape, tape'[d] = t PROVE Goes(d, t)
    BY <1>1, <1>4, <2>1, <2>3 DEF Goes, ReadFor, Inside
  <2>. QED
    BY <1>2, <1>4, <2>2, <2>3, MovesAreSound
<1>5. CASE pc[d] = "format" /\ Fails(d, "unload") /\ UNCHANGED place
           /\ (UNCHANGED <<files, repurposed>> \/ (files' = Wiped(d) /\ Repurposes(d)))
  <2>1. UNCHANGED <<status, used, checked, spans>> /\ pc' = [pc EXCEPT ![d] = "unload"]
    BY <1>1, <1>5 DEF catalogue, Fails, Goto
  <2>. QED
    BY <1>1, <1>5, <2>1, Wiping
<1>6. CASE pc[d] = "unload" /\ Fails(d, "record")
           /\ (UNCHANGED place \/ Unloads(d)) /\ UNCHANGED <<files, repurposed>>
  <2>1. pc'[d] = "record"
    BY <1>6 DEF Fails, Goto, TypeOK
  <2>2. \A t \in Tape \ {tape[d]} : place'[t] = place[t]
    BY <1>6, UnloadsOwn
  <2>3. ASSUME NEW t \in Tape, tape'[d] = t PROVE Goes(d, t)
    BY <1>1, <1>6, <2>1, <2>3 DEF Goes, ReadFor, Inside
  <2>. QED
    BY <1>2, <1>6, <2>2, <2>3, MovesAreSound
<1>. QED
  BY <1>3, <1>4, <1>5, <1>6 DEF CallFails

LEMMA Dying ==
  ASSUME Apt, NEW d \in Drive, Dies(d)
  PROVE  Alone(d) /\ OwnSound(d)
<1>0. pc[d] \in Busy
  BY DEF Dies, Busy
<1>. USE InHand, <1>0
<1>1. /\ UNCHANGED <<catalogue, files, state, request, verdict, owner, history>>
      /\ PutDown(d) /\ Goto(d, "idle")
  BY DEF Dies, jobs
<1>2. \A t \in Tape \ {tape[d]} : place'[t] = place[t]
  BY LoadsOwn, UnloadsOwn DEF Dies
<1>3. /\ tape'[d] = NoTape
      /\ \A e \in Drive \ {d} :
           /\ pc'[e] = pc[e] /\ tape'[e] = tape[e] /\ slot'[e] = slot[e]
           /\ error'[e] = error[e] /\ left'[e] = left[e]
  BY <1>1 DEF PutDown, Goto, TypeOK
<1>4. Alone(d) /\ Moves(d)
  BY <1>1, <1>2, <1>3, WorldStays
<1>. QED
  BY <1>3, <1>4, MovesAreSound, TapeIds

LEMMA DyingFormatting ==
  ASSUME Apt, NEW d \in Drive, DiesFormatting(d)
  PROVE  Alone(d) /\ OwnSound(d)
<1>0. pc[d] \in Busy
  BY DEF DiesFormatting, Busy
<1>1. /\ pc[d] = "format"
      /\ UNCHANGED <<files, repurposed>> \/ (files' = Wiped(d) /\ Repurposes(d))
      /\ UNCHANGED <<status, used, checked, spans, place, state, request, verdict, owner,
                     tape, slot, left, shared>>
      /\ pc' = [pc EXCEPT ![d] = "unload"]
  BY DEF DiesFormatting, Goto, catalogue, jobs
<1>2. \A e \in Drive \ {d} : error'[e] = error[e]
  BY <1>0, InHand DEF DiesFormatting, TypeOK
<1>. QED
  BY <1>1, <1>2, Wiping

LEMMA ThreadsWorkAlone ==
  ASSUME Apt, NEW d \in Drive, ThreadStep(d) \/ FaultStep(d)
  PROVE  Alone(d) /\ OwnSound(d)
<1>1. CASE ThreadStep(d)
  BY <1>1, Taking, GoingOn, Moving, Formatting, Registering, Importing, Finishing, Recording
     DEF ThreadStep
<1>2. CASE FaultStep(d)
  BY <1>2, Failing, Dying, DyingFormatting, Recording DEF FaultStep
<1>. QED
  BY <1>1, <1>2
-----------------------------------------------------------------------------
(* The steps of jobs, of the operator, and the death of the process.       *)

(* Nothing happens to a tape, nor to a thread that has one. *)
Rests(d, t) ==
  /\ tape[d] = t /\ pc'[d] = pc[d] /\ slot'[d] = slot[d]
  /\ error'[d] = error[d] /\ left'[d] = left[d]
  /\ Kind(d)' = Kind(d)
  /\ pc[d] \in {"load"} \cup Inside \/ (pc[d] = "record" /\ error[d] = "none")
       => place'[t] = place[t]

LEMMA TapesRest ==
  ASSUME Apt, UNCHANGED <<files, used, spans, repurposed, verdict>>,
         \A t \in Tape : status'[t] \in Blank <=> status[t] \in Blank,
         \A j \in Job : verdict[j].succeeded # {} => request'[j] = request[j],
         \A d \in Drive : \A t \in Tape : tape'[d] = t => Rests(d, t)
  PROVE  (\A d \in Drive : HandSound(d)') /\ (\A t \in Tape : TapeSound(t)')
<1>1. ASSUME NEW t \in Tape
      PROVE  /\ UnitsOn(t)' = UnitsOn(t) /\ (Complete(t)' <=> Complete(t))
             /\ Imported(t)' => Imported(t)
  <2>1. UnitsOn(t)' = UnitsOn(t) /\ SpansOn(t)' = SpansOn(t)
    BY DEF UnitsOn, SpansOn
  <2>2. Complete(t)' <=> Complete(t)
    BY <2>1 DEF Complete
  <2>3. Imported(t)' => Imported(t)
    BY DEF Imported
  <2>. QED
    BY <2>1, <2>2, <2>3
<1>2. ASSUME NEW t \in Tape PROVE TapeSound(t)'
  BY <1>1 DEF Apt, TapeSound, SpansOn
<1>3. ASSUME NEW d \in Drive, NEW t \in Tape, tape'[d] = t
      PROVE  PlacedFor(d, t)' /\ ReadFor(d, t)'
  <2>1. Rests(d, t)
    BY <1>3
  <2>2. PlacedFor(d, t) /\ ReadFor(d, t)
    BY <2>1 DEF Apt, HandSound, Rests
  <2>3. PlacedFor(d, t)'
    BY <2>1, <2>2 DEF PlacedFor, Rests
  <2>4. ReadFor(d, t)'
    BY <1>1, <2>1, <2>2 DEF ReadFor, Rests
  <2>. QED
    BY <2>3, <2>4
<1>. QED
  BY <1>2, <1>3 DEF HandSound

AllSound ==
  /\ \A d \in Drive : HandSound(d)
  /\ \A t \in Tape : TapeSound(t)
  /\ \A j \in Job : JobSound(j)

(* A thread that has a tape is of a running job. *)
LEMMA HandsRun ==
  ASSUME Apt, NEW d \in Drive, NEW t \in Tape, tape[d] = t
  PROVE  pc[d] \in Busy /\ owner[d] \in Job /\ state[owner[d]] = "running"
BY TapeIds DEF Apt, IInv, ThreadsSound, TypeOK, Busy

LEMMA Starting ==
  ASSUME Apt, NEW j \in Job, NEW r \in Request, Start(j, r)
  PROVE  AllSound'
<1>0. TypeOK /\ ThreadsSound /\ TapesApart
  BY DEF Apt, IInv
<1>1. /\ state[j] = "new" /\ state' = [state EXCEPT ![j] = "check"]
      /\ request' = [request EXCEPT ![j] = r]
      /\ UNCHANGED <<catalogue, library, verdict, pc, tape, slot, error, left, repurposed>>
      /\ \A d \in Drive : owner[d] # NoJob => owner'[d] = owner[d]
  BY <1>0 DEF Start, FreeDrives
<1>2. verdict[j].succeeded = {}
  BY <1>0, <1>1 DEF TapesApart, Reported, Listed
<1>3. ASSUME NEW d \in Drive, NEW t \in Tape, tape'[d] = t
      PROVE  Rests(d, t)
  <2>1. pc[d] \in Busy /\ owner[d] \in Job \ {j}
    BY <1>1, <1>3, HandsRun
  <2>2. owner'[d] = owner[d] /\ request'[owner[d]] = request[owner[d]]
    BY <1>0, <1>1, <2>1, JobIds DEF TypeOK
  <2>. QED
    BY <1>1, <1>3, <2>2 DEF Rests, Kind, library
<1>4. /\ \A d \in Drive : HandSound(d)'
      /\ \A t \in Tape : TapeSound(t)'
  <2>1. \A i \in Job : verdict[i].succeeded # {} => request'[i] = request[i]
    BY <1>0, <1>1, <1>2 DEF TypeOK
  <2>. QED
    BY <1>1, <1>3, <2>1, TapesRest DEF catalogue, library
<1>5. ASSUME NEW i \in Job PROVE JobSound(i)'
  <2>1. CASE i = j
    BY <1>0, <1>1, <2>1 DEF JobSound, TypeOK
  <2>2. CASE i # j
    <3>1. state'[i] = state[i] /\ request'[i] = request[i] /\ status' = status
      BY <1>0, <1>1, <2>2 DEF TypeOK, catalogue
    <3>2. Batch(i)' = Batch(i) /\ JobSound(i)
      BY <3>1 DEF Batch, Apt
    <3>. QED
      BY <3>1, <3>2 DEF JobSound
  <2>. QED
    BY <2>1, <2>2
<1>. QED
  BY <1>4, <1>5 DEF AllSound

LEMMA Checking ==
  ASSUME Apt, NEW j \in Job, Check(j)
  PROVE  AllSound'
<1>0. TypeOK /\ ThreadsSound
  BY DEF Apt, IInv
<1>1. /\ state[j] = "check" /\ state' = [state EXCEPT ![j] = "running"] /\ Blocked(j) = {}
      /\ UNCHANGED <<catalogue, library, request, verdict, owner, tape, slot, error, left,
                     history>>
      /\ \A d \in Drive : owner[d] # j => pc'[d] = pc[d]
  BY DEF Check
<1>2. ASSUME NEW d \in Drive, NEW t \in Tape, tape'[d] = t
      PROVE  Rests(d, t)
  <2>1. owner[d] # j
    BY <1>1, <1>2, HandsRun
  <2>. QED
    BY <1>1, <1>2, <2>1 DEF Rests, Kind, library
<1>3. /\ \A d \in Drive : HandSound(d)'
      /\ \A t \in Tape : TapeSound(t)'
  BY <1>1, <1>2, TapesRest DEF catalogue, library, history
<1>4. ASSUME NEW i \in Job PROVE JobSound(i)'
  <2>1. Batch(i)' = Batch(i) /\ status' = status /\ request' = request /\ JobSound(i)
    BY <1>1 DEF Batch, Apt, catalogue
  <2>2. CASE i = j
    <3>1. request[j].kind = "format" /\ ~request[j].force =>
            \A t \in Batch(j) : status[t] \in Blank
      BY <1>1 DEF Blocked, Blank
    <3>. QED
      BY <2>1, <2>2, <3>1 DEF JobSound
  <2>3. CASE i # j
    BY <1>0, <1>1, <2>1, <2>3 DEF JobSound, TypeOK
  <2>. QED
    BY <2>2, <2>3
<1>. QED
  BY <1>3, <1>4 DEF AllSound

(* Steps that end a job, or touch none. *)
LEMMA Ending ==
  ASSUME Apt, UNCHANGED <<files, used, spans, request, verdict, repurposed>>,
         \A t \in Tape : status'[t] \in Blank <=> status[t] \in Blank,
         \A j \in Job : state'[j] = "running" => state[j] = "running",
         \A d \in Drive : \A t \in Tape : tape'[d] = t => Rests(d, t)
  PROVE  AllSound'
<1>1. /\ \A d \in Drive : HandSound(d)'
      /\ \A t \in Tape : TapeSound(t)'
  BY TapesRest
<1>2. ASSUME NEW j \in Job PROVE JobSound(j)'
  <2>1. Batch(j)' = Batch(j) /\ JobSound(j) /\ Batch(j) \subseteq Tape
    BY RequestShape DEF Batch, Apt, IInv, TypeOK, Range
  <2>. QED
    BY <2>1 DEF JobSound
<1>. QED
  BY <1>1, <1>2 DEF AllSound

LEMMA OthersSound ==
  ASSUME Apt, \/ \E j \in Job : Cancel(j) \/ Refuse(j) \/ EndJob(j)
              \/ \E d \in Drive : OperatorUnloads(d)
              \/ Crash \/ UNCHANGED vars
  PROVE  AllSound'
<1>0. TypeOK /\ ThreadsSound
  BY DEF Apt, IInv
<1>1. ASSUME NEW j \in Job, Cancel(j) \/ Refuse(j) \/ EndJob(j)
      PROVE  AllSound'
  <2>1. /\ UNCHANGED <<catalogue, library, request, verdict, pc, tape, slot, error, left, history>>
        /\ \A i \in Job : state'[i] = "running" => state[i] = "running"
        /\ owner' = owner \/ (/\ \A d \in Drive : owner[d] # j => owner'[d] = owner[d]
                              /\ \A d \in Drive : owner[d] = j => pc[d] = "idle")
    <3>1. CASE Cancel(j)
      BY <3>1 DEF Cancel, threads
    <3>2. CASE Refuse(j)
      BY <1>0, <3>2 DEF Refuse, Ends, TypeOK, ThreadsSound
    <3>3. CASE EndJob(j)
      BY <1>0, <3>3 DEF EndJob, Ends, Joined, Drives, TypeOK
    <3>. QED
      BY <1>1, <3>1, <3>2, <3>3
  <2>2. ASSUME NEW d \in Drive, NEW t \in Tape, tape'[d] = t
        PROVE  Rests(d, t)
    <3>1. owner'[d] = owner[d]
      BY <2>1, <2>2, HandsRun DEF Busy
    <3>. QED
      BY <2>1, <2>2, <3>1 DEF Rests, Kind, library
  <2>. QED
    BY <2>1, <2>2, Ending DEF catalogue, library, history
<1>2. ASSUME NEW d \in Drive, OperatorUnloads(d)
      PROVE  AllSound'
  <2>1. /\ owner[d] = NoJob /\ Unloads(d) /\ status' = Registered(place')
        /\ UNCHANGED <<used, spans, files, state, request, verdict, owner, pc, tape, slot,
                       error, left, repurposed>>
    BY <1>2 DEF OperatorUnloads, jobs, threads, history
  <2>2. ASSUME NEW e \in Drive, NEW t \in Tape, tape'[e] = t
        PROVE  Rests(e, t)
    <3>1. e # d /\ PlacedFor(e, t)
      BY <2>1, <2>2, HandsRun, JobIds DEF Apt, HandSound
    <3>2. pc[e] \in {"load"} \cup Inside \/ (pc[e] = "record" /\ error[e] = "none")
            => place[t] # d
      BY <3>1, Places DEF PlacedFor
    <3>. QED
      BY <2>1, <2>2, <3>2 DEF Rests, Kind, Unloads
  <2>3. \A t \in Tape : status'[t] \in Blank <=> status[t] \in Blank
    BY <2>1, RowsAppear
  <2>. QED
    BY <2>1, <2>2, <2>3, Ending
<1>3. CASE Crash
  <2>1. /\ UNCHANGED <<catalogue, files, request, verdict, repurposed>>
        /\ \A i \in Job : state'[i] = "running" => state[i] = "running"
        /\ \A d \in Drive : tape'[d] \notin Tape
    BY <1>3, TapeIds DEF Crash, Live, library, history
  <2>. QED
    BY <2>1, Ending DEF catalogue
<1>4. CASE UNCHANGED vars
  <2>1. UNCHANGED <<catalogue, library, state, request, verdict, owner, pc, tape, slot, error,
                    left, history>>
    BY <1>4 DEF vars, jobs, threads
  <2>. QED
    BY <2>1, Ending DEF Rests, Kind, catalogue, library, history
<1>. QED
  BY <1>1, <1>2, <1>3, <1>4

LEMMA TapesStep ==
  ASSUME IInv, TapesSound, [Next]_vars
  PROVE  TapesSound'
<1>1. PlaceSound' /\ OneSpanPerUnit'
  BY PlaceStep, OneSpanStep DEF IInv, TapesSound
<1>2. ASSUME ~shared'
      PROVE  BatchSound' /\ AllSound'
  <2>1. Apt
    BY <1>2, SharedStays DEF Apt, IInv, TapesSound
  <2>2. BatchSound'
    BY <1>2, <2>1, BatchStep DEF Apt
  <2>3. ASSUME NEW d \in Drive, ThreadStep(d) \/ FaultStep(d)
        PROVE  AllSound'
    BY <2>1, <2>3, ThreadsWorkAlone, AloneIsEnough DEF AllSound
  <2>4. ASSUME NEW j \in Job, Cancel(j) \/ JobStep(j) \/ \E r \in Request : Start(j, r)
        PROVE  AllSound'
    BY <2>1, <2>4, Starting, Checking, OthersSound DEF JobStep
  <2>5. ASSUME (\E d \in Drive : OperatorUnloads(d)) \/ Crash \/ UNCHANGED vars
        PROVE  AllSound'
    BY <2>1, <2>5, OthersSound
  <2>. QED
    BY <2>2, <2>3, <2>4, <2>5 DEF Next
<1>. QED
  BY <1>1, <1>2 DEF TapesSound, AllSound
-----------------------------------------------------------------------------
(* Tapes left in drives.                                                   *)

(* A tape gets into a drive in the hand of its thread, and is put down in  *)
(* it only by one that reports it as failed.                               *)
NoneStrays ==
  /\ dbErrors = 0 /\ crashes = 0
  /\ \A j \in Job : verdict[j].failed \subseteq verdict'[j].failed
  /\ \A d \in Drive : \A t \in Tape : place'[t] = d =>
       /\ place[t] = d \/ tape'[d] = t
       /\ tape[d] = t => tape'[d] = t \/ \E j \in Job : t \in verdict'[j].failed

LEMMA ThreadsStrayNot ==
  ASSUME Apt, NEW d \in Drive, ThreadStep(d) \/ FaultStep(d), dbErrors' = 0, crashes' = 0
  PROVE  NoneStrays
<1>0. TypeOK /\ ThreadsSound /\ (error[d] = "fatal" => dbErrors > 0) /\ Alone(d)
  BY ThreadsWorkAlone DEF Apt, IInv, NoneLost
<1>a. dbErrors \in Nat /\ crashes \in Nat
  BY <1>0 DEF TypeOK
<1>1. ASSUME dbErrors' = dbErrors, crashes' = crashes, tape' = tape, verdict' = verdict,
             \A t \in Tape : place'[t] = place[t] \/ (place'[t] \in Slot \cup {d} /\
                                                      (place'[t] = d => t = tape[d]))
      PROVE  NoneStrays
  BY <1>1, Places DEF NoneStrays
<1>2. CASE Take(d) \/ Skip(d) \/ ThreadEnds(d)
  <2>1. /\ dbErrors' = dbErrors /\ crashes' = crashes /\ place' = place /\ tape[d] \notin Tape
        /\ \A e \in Drive \ {d} : tape'[e] = tape[e]
    BY <1>0, <1>2, TapeIds DEF Take, Skip, Gets, ThreadEnds, Busy, ThreadsSound, bounds,
       world, library, Alone
  <2>2. \A j \in Job : verdict'[j].failed = verdict[j].failed
    <3>1. CASE Skip(d)
      BY <1>0, <3>1 DEF Skip, Gets, ThreadsSound, TypeOK
    <3>2. CASE Take(d) \/ ThreadEnds(d)
      BY <3>2 DEF Take, ThreadEnds, world, jobs
    <3>. QED
      BY <1>2, <3>1, <3>2
  <2>. QED
    BY <2>1, <2>2 DEF NoneStrays
<1>3. CASE Record(d)
  <2>1. /\ dbErrors' = dbErrors /\ crashes' = crashes /\ place' = place
        /\ pc[d] = "record" /\ error[d] \in {"none", "failed"} /\ verdict' = Verdict(d)
    BY <1>0, <1>3 DEF Record, bounds, library, TypeOK
  <2>2. /\ tape[d] \in Tape /\ owner[d] \in Job /\ PlacedFor(d, tape[d])
    BY <2>1, InHand DEF Busy
  <2>3. /\ \A j \in Job : verdict[j].failed \subseteq verdict'[j].failed
        /\ error[d] = "failed" => tape[d] \in verdict'[owner[d]].failed
    BY <1>0, <2>1, <2>2 DEF Verdict, TypeOK
  <2>4. error[d] = "none" => place[tape[d]] # d
    BY <2>1, <2>2, Places DEF PlacedFor
  <2>5. \A e \in Drive \ {d} : tape'[e] = tape[e]
    BY <1>0 DEF Alone
  <2>. QED
    BY <2>1, <2>2, <2>3, <2>4, <2>5 DEF NoneStrays
<1>4. CASE LookUp(d) \/ NotInSlot(d) \/ LoadRefused(d) \/ Mount(d) \/ Unmount(d)
  BY <1>1, <1>4 DEF LookUp, NotInSlot, LoadRefused, Mount, Unmount, world, library, jobs, bounds
<1>5. CASE Format(d) \/ Register(d) \/ Import(d) \/ Finish(d)
  BY <1>1, <1>5 DEF Format, Register, Import, Finish, library, jobs, bounds
<1>6. ASSUME pc[d] = "load", Loads(d), NEW t \in Tape
      PROVE  place'[t] = place[t] \/ (place'[t] = d /\ t = tape[d])
  BY <1>6, LoadsOwn
<1>7. ASSUME pc[d] = "unload", Unloads(d), NEW t \in Tape
      PROVE  place'[t] = place[t] \/ place'[t] \in Slot
  BY <1>7, UnloadsOwn
<1>8. CASE Load(d)
  BY <1>1, <1>6, <1>8 DEF Load, jobs, bounds
<1>9. CASE Unload(d)
  <2>1. \A t \in Tape : place'[t] = place[t] \/ place'[t] \in Slot
    BY <1>7, <1>9 DEF Unload
  <2>. QED
    BY <1>1, <1>9, <2>1, Places DEF Unload, jobs, bounds
<1>10. CASE ThreadGone(d)
  BY <1>0, <1>a, <1>10 DEF ThreadGone, world, bounds
<1>11. CASE CallFails(d)
  <2>1. place' = place \/ (pc[d] = "load" /\ Loads(d)) \/ (pc[d] = "unload" /\ Unloads(d))
    BY <1>11 DEF CallFails, library
  <2>2. \A t \in Tape : place'[t] = place[t] \/ (place'[t] = d /\ t = tape[d]) \/ place'[t] \in Slot
    BY <1>6, <1>7, <2>1
  <2>. QED
    BY <1>1, <1>11, <2>2, Places DEF CallFails, jobs
<1>12. CASE Dies(d) \/ DiesFormatting(d) \/ DiesReporting(d)
  BY <1>a, <1>12 DEF Dies, DiesFormatting, DiesReporting
<1>. QED
  BY <1>2, <1>3, <1>4, <1>5, <1>8, <1>9, <1>10, <1>11, <1>12 DEF ThreadStep, FaultStep

LEMMA OthersStrayNot ==
  ASSUME TypeOK, dbErrors' = 0, crashes' = 0,
         \/ \E j \in Job : Cancel(j) \/ JobStep(j) \/ \E r \in Request : Start(j, r)
         \/ \E d \in Drive : OperatorUnloads(d)
         \/ Crash \/ UNCHANGED vars
  PROVE  NoneStrays
<1>1. ASSUME NEW j \in Job, Cancel(j) \/ JobStep(j) \/ \E r \in Request : Start(j, r)
      PROVE  NoneStrays
  BY <1>1 DEF Cancel, JobStep, Check, Refuse, EndJob, Start, NoneStrays, library, threads, bounds
<1>2. ASSUME NEW d \in Drive, OperatorUnloads(d)
      PROVE  NoneStrays
  <2>1. \A t \in Tape : place'[t] = place[t] \/ place'[t] \in Slot
    BY <1>2 DEF OperatorUnloads, Unloads, FirstFree, FreeSlots
  <2>. QED
    BY <1>2, <2>1, Places DEF OperatorUnloads, NoneStrays, jobs, threads, bounds
<1>3. ~Crash
  BY DEF Crash, TypeOK
<1>4. ASSUME UNCHANGED vars
      PROVE  NoneStrays
  BY <1>4 DEF vars, NoneStrays, library, jobs, threads, bounds
<1>. QED
  BY <1>1, <1>2, <1>3, <1>4

LEMMA StrayStep ==
  ASSUME IInv, TapesSound, StrayTapesReported, [Next]_vars
  PROVE  StrayTapesReported'
<1>. SUFFICES ASSUME ~shared', dbErrors' = 0, crashes' = 0, NEW d \in Drive, NEW t \in Tape,
                     place'[t] = d
              PROVE  tape'[d] = t \/ Home[t] = d \/ \E j \in Job : t \in verdict'[j].failed
  BY DEF StrayTapesReported, In
<1>1. ~shared
  BY SharedStays DEF IInv
<1>2. NoneStrays
  <2>1. Apt
    BY <1>1 DEF Apt, TapesSound
  <2>. QED
    BY <2>1, ThreadsStrayNot, OthersStrayNot DEF Next, IInv
<1>3. CASE place[t] # d
  BY <1>2, <1>3 DEF NoneStrays
<1>4. CASE place[t] = d
  <2>1. tape[d] = t \/ Home[t] = d \/ \E j \in Job : t \in verdict[j].failed
    BY <1>1, <1>2, <1>4 DEF StrayTapesReported, In, NoneStrays
  <2>. QED
    BY <1>2, <2>1 DEF NoneStrays
<1>. QED
  BY <1>3, <1>4
-----------------------------------------------------------------------------
(* What follows.                                                           *)

JInv == IInv /\ TapesSound /\ StrayTapesReported

LEMMA TapesBegin == Init => JInv
<1>. SUFFICES ASSUME Init PROVE JInv
  OBVIOUS
<1>1. IInv
  BY Beginning
<1>2. PlaceSound /\ OneSpanPerUnit
  BY Places DEF Init, PlaceSound, OneSpanPerUnit, IsInjective
<1>3. BatchSound
  BY DEF Init, BatchSound, Batch, Busy, Live, Range
<1>4. \A d \in Drive : HandSound(d)
  BY TapeIds DEF Init, HandSound
<1>5. \A t \in Tape : TapeSound(t)
  BY DEF Init, TapeSound, SpansOn, Imported
<1>6. \A j \in Job : JobSound(j)
  BY DEF Init, JobSound
<1>7. StrayTapesReported
  BY DEF Init, StrayTapesReported, In
<1>. QED
  BY <1>1, <1>2, <1>3, <1>4, <1>5, <1>6, <1>7 DEF JInv, TapesSound

LEMMA TapesInvariant == Spec => []JInv
<1>1. JInv /\ [Next]_vars => JInv'
  <2>1. IInv /\ [Next]_vars => IInv'
    BY Shapes, TypeStep, ThreadsStep, TapesApartStep, NoneLostStep DEF IInv
  <2>. QED
    BY <2>1, TapesStep, StrayStep DEF JInv
<1>. QED
  BY <1>1, TapesBegin, PTL DEF Spec

(* As long as no two jobs have worked on a tape at the same time: what the *)
(* catalogue lists on a tape is on it, unless a format with force has      *)
(* wiped it since; each unit has one span; and a tape run_tape_import has  *)
(* reported as imported is listed completely, however often it was scanned *)
(* and whatever was interrupted.                                           *)
THEOREM CatalogueTellsTheTruth == Spec => []CatalogueIsTrue
<1>1. JInv => CatalogueIsTrue
  <2>. SUFFICES ASSUME JInv PROVE CatalogueIsTrue
    OBVIOUS
  <2>1. TypeOK /\ OneSpanPerUnit
    BY DEF JInv, IInv, TapesSound
  <2>2. CataloguedIsOnTape
    <3>. SUFFICES ASSUME ~shared, NEW s \in spans, s.tape \notin repurposed
                  PROVE  s.unit \in files[s.tape]
      BY DEF CataloguedIsOnTape
    <3>1. s.tape \in Tape /\ s \in SpansOn(s.tape)
      BY <2>1 DEF TypeOK, SpansOn
    <3>. QED
      BY <3>1 DEF JInv, TapesSound, TapeSound
  <2>3. ImportIsComplete
    BY DEF JInv, TapesSound, TapeSound, Complete, UnitsOn, Blank, ImportIsComplete
  <2>. QED
    BY <2>1, <2>2, <2>3 DEF CatalogueIsTrue
<1>. QED
  BY <1>1, TapesInvariant, PTL

(* On the same condition, and while no database error and no crash has     *)
(* ended a thread, a tape that is in a drive is in the hand of its thread, *)
(* was there from the beginning, or has been reported as failed by         *)
(* run_batch_format or run_tape_import.                                    *)
THEOREM NoTapeIsForgotten == Spec => []StrayTapesReported
<1>1. JInv => StrayTapesReported
  BY DEF JInv
<1>. QED
  BY <1>1, TapesInvariant, PTL

(* On the same condition mkltfs wipes only tapes its job was asked to      *)
(* format, and without force only those whose row says scratch, whatever   *)
(* has been moved or catalogued since the batch was checked.               *)
THEOREM OnlyRequestedIsWiped == Spec => WipedByRequest
<1>1. ASSUME JInv, Next, ~shared', NEW t \in Tape, files'[t] # files[t]
      PROVE  \E d \in Drive :
               /\ owner[d] # NoJob /\ t \in Batch(owner[d])
               /\ Kind(d) = "format"
               /\ request[owner[d]].force \/ status[t] \in {"scratch", "unknown"}
  <2>1. Apt
    BY <1>1, SharedStays DEF JInv, Apt, IInv, TapesSound
  <2>2. ASSUME NEW j \in Job, Cancel(j) \/ JobStep(j) \/ \E r \in Request : Start(j, r)
        PROVE  FALSE
    BY <1>1, <2>2 DEF Cancel, JobStep, Check, Refuse, EndJob, Start, library
  <2>3. ASSUME NEW d \in Drive, ThreadStep(d)
        PROVE  pc[d] = "format"
    <3>1. CASE Take(d) \/ Skip(d) \/ ThreadEnds(d) \/ Record(d) \/ ThreadGone(d)
      BY <1>1, <3>1 DEF Take, Skip, Gets, ThreadEnds, Record, ThreadGone, world, library
    <3>2. CASE LookUp(d) \/ NotInSlot(d) \/ LoadRefused(d) \/ Mount(d) \/ Unmount(d)
      BY <1>1, <3>2 DEF LookUp, NotInSlot, LoadRefused, Mount, Unmount, world, library
    <3>3. CASE Format(d) \/ Register(d) \/ Import(d) \/ Finish(d) \/ Load(d) \/ Unload(d)
      BY <1>1, <3>3 DEF Format, Register, Import, Finish, Load, Unload, library
    <3>. QED
      BY <2>3, <3>1, <3>2, <3>3 DEF ThreadStep
  <2>4. ASSUME NEW d \in Drive, FaultStep(d) \/ OperatorUnloads(d)
        PROVE  pc[d] = "format" /\ FaultStep(d)
    BY <1>1, <2>4 DEF FaultStep, CallFails, Dies, DiesFormatting, DiesReporting,
       OperatorUnloads, library
  <2>5. ~Crash
    BY <1>1 DEF Crash, library
  <2>6. PICK d \in Drive : pc[d] = "format" /\ (ThreadStep(d) \/ FaultStep(d))
    BY <1>1, <2>2, <2>3, <2>4, <2>5 DEF Next
  <2>7. t = tape[d]
    BY <1>1, <2>1, <2>6, ThreadsWorkAlone DEF Alone, Keeps, KeepsContent
  <2>8. /\ owner[d] \in Job /\ t \in Batch(owner[d]) /\ ReadFor(d, tape[d])
    BY <2>1, <2>6, <2>7, InHand DEF Busy
  <2>9. Kind(d) = "format" /\ owner[d] # NoJob
    BY <2>6, <2>8, JobIds DEF ReadFor
  <2>10. request[owner[d]].force \/ status[t] \in {"scratch", "unknown"}
    BY <2>1, <2>7, <2>9, FormatsBlank DEF Blank
  <2>. QED
    BY <2>8, <2>9, <2>10
<1>2. JInv /\ [Next]_vars =>
        [~shared' => \A t \in Tape : files'[t] # files[t] =>
           \E d \in Drive :
             /\ owner[d] # NoJob /\ t \in Batch(owner[d])
             /\ Kind(d) = "format"
             /\ request[owner[d]].force \/ status[t] \in {"scratch", "unknown"}]_vars
  BY <1>1
<1>. QED
  BY <1>2, TapesInvariant, PTL DEF Spec, WipedByRequest
=============================================================================
