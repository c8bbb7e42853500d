----------------------------- MODULE TapeLibrary -----------------------------
(***************************************************************************)
(* app/services/library.py, called from several sessions at once: the jobs *)
(* of app/jobs and the forms of app/routers/library.py.                    *)
(*                                                                         *)
(* Two things order the calls, and neither covers a whole call.  The arm   *)
(* lock is held while tapes move and given back before the caller commits. *)
(* The database makes sessions wait for each other from a statement that   *)
(* writes until the commit: SQLite from the first one, PostgreSQL from the *)
(* first that touches the same rows.                                       *)
(***************************************************************************)
EXTENDS Naturals, Sequences, FiniteSets

CONSTANTS
  Session,     \* the sessions that use the library
  Scripts,     \* what they may be about to do: functions from sessions to calls
  Tape,        \* the cartridges
  Cleaning,    \* those that are cleaning cartridges
  Slot,        \* the numbers of the storage slots
  Drive,       \* the numbers of the drives, taken different from the slots'
  Home,        \* Home[t]: where cartridge t is to begin with
  FirstStatus, \* FirstStatus[t]: the state of its row, "unknown" without one
  Databases,   \* the databases DATABASE_URL may name
  MaxTroubles  \* bound: hardware calls that fail and commits that raise

Nobody == 0
NoTape == 0
AnySlot == 0   \* slot=None
Nowhere == 0   \* the location of a tape without a row
Place == Slot \cup Drive
Status == {"unknown", "scratch", "active", "retired"}

Attempts == 2  \* _ARM_MOVE_ATTEMPTS

(* The calls, and the arguments of each. *)
Ask(op, s, d, t, f) == [op |-> op, slot |-> s, drive |-> d, tape |-> t, force |-> f]
Load(s, d)      == Ask("load", s, d, NoTape, FALSE)
Unload(s, d)    == Ask("unload", s, d, NoTape, FALSE)
Clean(s, d)     == Ask("clean", s, d, NoTape, FALSE)
Unlock(d)       == Ask("unlock", 0, d, NoTape, FALSE)
Inventory       == Ask("inventory", 0, 0, NoTape, FALSE)
Format(d, t, f) == Ask("format", 0, d, t, f)
Retire(t)       == Ask("retire", 0, 0, t, FALSE)

Calls ==
  {Load(s, d) : s \in Slot, d \in Drive}
    \cup {Unload(s, d) : s \in Slot \cup {AnySlot}, d \in Drive}
    \cup {Clean(s, d) : s \in Slot, d \in Drive}
    \cup {Unlock(d) : d \in Drive} \cup {Inventory}
    \cup {Format(d, t, f) : d \in Drive, t \in Tape, f \in BOOLEAN}
    \cup {Retire(t) : t \in Tape}

Moves == {"load", "unload"}
Ops == Moves \cup {"clean", "unlock", "inventory", "format", "retire"}

ASSUME SessionIds == Session \subseteq Nat \ {Nobody}
ASSUME TapeIds == Tape \subseteq Nat \ {NoTape} /\ Cleaning \subseteq Tape
ASSUME Places ==
  /\ Slot \cup Drive \subseteq Nat \ {AnySlot, Nowhere}
  /\ Slot \cap Drive = {}
ASSUME OneTapeEach ==
  /\ Home \in [Tape -> Place]
  /\ \A t, u \in Tape : Home[t] = Home[u] => t = u
ASSUME FirstRows == FirstStatus \in [Tape -> Status]
ASSUME ScriptsAreCalls == Scripts \subseteq [Session -> Seq(Calls)]
ASSUME Backends == Databases \subseteq {"sqlite", "postgres"}
ASSUME BoundIsNat == MaxTroubles \in Nat

VARIABLES
  database,   \* the one in use
  script,     \* the calls each session has still to make, the current one first
  place,      \* where each cartridge is
  arm,        \* who holds _arm_lock
  (* The catalogue, as committed. *)
  location,   \* Tape.physical_location, Nowhere where there is no row
  status,     \* Tape.status
  cache,      \* table library_slots, as the place of each cartridge
  events,     \* table tape_events, with the cartridge each call really moved
  (* The call each session is in. *)
  pc,         \* where it is
  call,       \* its local variables
  (* Bounds and history. *)
  troubles,
  unlogged,   \* cartridges moved or wiped by calls that left no event
  hasty,      \* cartridges whose row was read before their last move was committed
  disturbed   \* sessions whose drive changed after they looked at it

catalogue == <<location, status, cache, events>>
history == <<unlogged, hasty>>
vars == <<database, script, place, arm, catalogue, pc, call, troubles, history,
          disturbed>>

(* The local variables of a call: the tape found, its row as read, the     *)
(* slot, the attempts that failed, the LibraryState read last, what    *)
(* the transaction has written so far, and what the code cannot see: the   *)
(* cartridge the call moved or wiped.                                      *)
Blank == [tape |-> NoTape, seen |-> Nowhere, state |-> "unknown",
          slot |-> AnySlot, tries |-> 0, snapshot |-> Home,
          wrote |-> "nothing", moved |-> NoTape]

Current(c) == Head(script[c])
Op(c) == Current(c).op
At(c, where) == script[c] # <<>> /\ pc[c] = where
Goto(c, where) == pc' = [pc EXCEPT ![c] = where]
In(p) == {t \in Tape : place[t] = p}
Registered == {t \in Tape : location[t] # Nowhere}
Trouble == troubles < MaxTroubles /\ troubles' = troubles + 1

(* load, unload and clean wait for the arm before anything else; in a      *)
(* variant load and unload look first and never take it.                   *)
FirstUnlocked(op) == IF op = "clean" THEN "arm"
                     ELSE IF op \in Moves \cup {"unlock", "format"} THEN "look"
                     ELSE "log"
First(op) == IF op \in Moves \cup {"clean"} THEN "arm"
             ELSE IF op \in {"unlock", "format"} THEN "look" ELSE "log"
-----------------------------------------------------------------------------
(* The end of a call: the with statement gives the arm back, and what the  *)
(* transaction wrote is committed or taken back.  A session on PostgreSQL  *)
(* that was waiting for the slots written here finds them changed, or goes *)
(* on.                                                                     *)
Leave(c, goesOn, waiter) ==
  LET rest == IF goesOn THEN Tail(script[c]) ELSE <<>>
      wakes(d) == pc[d] = "blocked" /\ call[c].wrote = "slots"
  IN  /\ script' = [script EXCEPT ![c] = rest]
      /\ arm' = IF arm = c THEN Nobody ELSE arm
      /\ pc' = [d \in Session |->
                  IF d = c THEN IF rest = <<>> THEN "done" ELSE First(Head(rest).op)
                  ELSE IF wakes(d) THEN waiter ELSE pc[d]]

Event(c, result, moved) ==
  [op |-> Op(c), tape |-> call[c].tape, result |-> result, moved |-> moved]

(* finish_event_error: the event is committed as an error, with nothing    *)
(* else, whatever had been moved.  The caller stops, or goes on to its     *)
(* next call.                                                              *)
FailEvent(c, moved) ==
  /\ events' = events \cup {Event(c, "error", moved)}
  /\ \E goesOn \in BOOLEAN : Leave(c, goesOn, "sync")
  /\ UNCHANGED <<database, location, status, cache, history>>

(* An exception takes back what the transaction wrote, the event included. *)
Abandon(c, goesOn) ==
  /\ Leave(c, goesOn, "sync")
  /\ unlogged' = unlogged \cup ({call[c].moved} \ {NoTape})
  /\ call' = [call EXCEPT ![c] = Blank]
  /\ UNCHANGED <<database, place, catalogue, hasty>>
-----------------------------------------------------------------------------
(* Up to the hardware.                                                     *)

(* with _arm_lock; and a variant in which every caller has a lock of its own. *)
TakeOwnArm(c) ==
  /\ At(c, "arm")
  /\ arm' = c
  /\ Goto(c, IF Op(c) = "clean" THEN "log" ELSE "look")
  /\ UNCHANGED <<database, script, place, catalogue, call, troubles, history>>

TakeArm(c) ==
  /\ At(c, "arm") /\ arm = Nobody
  /\ arm' = c
  /\ Goto(c, IF Op(c) = "clean" THEN "log" ELSE "look")
  /\ UNCHANGED <<database, script, place, catalogue, call, troubles, history>>

FreeSlots == {s \in Slot : In(s) = {}}

(* The place whose barcode library_status() is asked for.                  *)
Source(c) == IF Op(c) = "load" THEN Current(c).slot ELSE Current(c).drive

(* The row of the tape found there; a format finds it by its barcode.      *)
Found(c) ==
  LET found == IF Op(c) = "format" THEN {Current(c).tape} ELSE In(Source(c))
  IN  IF found \cap Registered = {} THEN NoTape ELSE CHOOSE t \in found : TRUE

(* The first free slot when the caller named none.                         *)
SlotFor(c) ==
  IF Op(c) = "unload" /\ Current(c).slot = AnySlot
  THEN CHOOSE s \in FreeSlots : \A u \in FreeSlots : s <= u
  ELSE Current(c).slot

(* No free slot; or the two checks of a format: the state of the tape in   *)
(* the catalogue, and that it is in this drive.  And a variant without the *)
(* second.                                                                 *)
RefusedByStatus(c) ==
  \/ Op(c) = "unload" /\ Current(c).slot = AnySlot /\ FreeSlots = {}
  \/ /\ Op(c) = "format"
     /\ ~Current(c).force /\ status[Current(c).tape] \notin {"unknown", "scratch"}

Refused(c) ==
  \/ Op(c) = "unload" /\ Current(c).slot = AnySlot /\ FreeSlots = {}
  \/ /\ Op(c) = "format"
     /\ \/ ~Current(c).force /\ status[Current(c).tape] \notin {"unknown", "scratch"}
        \/ Current(c).tape \notin In(Current(c).drive)

(* The tapes another session has moved and not committed yet. *)
Pending(c) ==
  {call[d].moved : d \in {e \in Session \ {c} : script[e] # <<>> /\ Op(e) \in Moves}}
    \ {NoTape}

(* library_status(), and the row of the tape it shows. *)
Look(c) ==
  /\ At(c, "look") /\ ~Refused(c)
  /\ call' = [call EXCEPT ![c] =
       [@ EXCEPT !.tape = Found(c),
                 !.seen = IF Found(c) = NoTape THEN Nowhere ELSE location[Found(c)],
                 !.state = IF Found(c) = NoTape THEN "unknown" ELSE status[Found(c)],
                 !.slot = SlotFor(c)]]
  /\ hasty' = IF Op(c) \in Moves THEN hasty \cup ({Found(c)} \cap Pending(c)) ELSE hasty
  /\ Goto(c, "log")
  /\ UNCHANGED <<database, script, place, arm, catalogue, troubles, unlogged>>

(* A HardwareError before there is an event. *)
Refuse(c) ==
  /\ At(c, "look")
  /\ \/ Refused(c) /\ UNCHANGED troubles
     \/ Trouble
  /\ \E goesOn \in BOOLEAN : Abandon(c, goesOn)

(* Each call's first statement that writes is log_event's flush.  SQLite   *)
(* admits one session at a time from there to its commit.                  *)
MayWrite(c) ==
  database = "sqlite" => \A d \in Session \ {c} : call[d].wrote = "nothing"

AfterLog(op) ==
  IF op = "retire" THEN "commit" ELSE IF op = "inventory" THEN "status" ELSE "act"

(* retire_tape finds its row just before. *)
Log(c) ==
  /\ At(c, "log") /\ MayWrite(c)
  /\ Op(c) = "retire" => Current(c).tape \in Registered
  /\ call' = [call EXCEPT ![c].wrote = "event",
                          ![c].tape = IF Op(c) = "retire" THEN Current(c).tape ELSE @]
  /\ Goto(c, AfterLog(Op(c)))
  /\ UNCHANGED <<database, script, place, arm, catalogue, troubles, history>>

(* After 15 seconds "database is locked": not a HardwareError, and caught  *)
(* by nobody.                                                              *)
LockTimesOut(c) ==
  /\ At(c, "log") /\ ~MayWrite(c)
  /\ Abandon(c, FALSE) /\ UNCHANGED troubles

(* retire_tape raises for a barcode without a row. *)
RetireUnknown(c) ==
  /\ At(c, "log") /\ Op(c) = "retire" /\ Current(c).tape \notin Registered
  /\ Abandon(c, FALSE) /\ UNCHANGED troubles
-----------------------------------------------------------------------------
(* At the hardware.                                                        *)

Target(c) == IF Op(c) = "load" THEN Current(c).drive ELSE call[c].slot

CanMove(c) == In(Source(c)) # {} /\ In(Target(c)) = {}

(* _move_with_retry: an attempt that works. *)
Move(c) ==
  /\ At(c, "act") /\ Op(c) \in Moves /\ CanMove(c)
  /\ \E t \in In(Source(c)) :
       /\ place' = [place EXCEPT ![t] = Target(c)]
       /\ call' = [call EXCEPT ![c].moved = t]
  /\ Goto(c, "status")
  /\ UNCHANGED <<database, script, arm, catalogue, troubles, history>>

(* A failed attempt is not the last; and a variant off by one. *)
AgainTwice(c) == call[c].tries < Attempts
Again(c) == call[c].tries + 1 < Attempts

(* One that fails because there is nothing to move or no room for it, or   *)
(* for a reason of its own, before or after the cartridge has arrived.     *)
(* The first is repeated.                                                  *)
AttemptFails(c) ==
  /\ At(c, "act") /\ Op(c) \in Moves
  /\ \E moved \in {call[c].moved} \cup In(Source(c)) :
       /\ \/ /\ ~CanMove(c) /\ moved = call[c].moved
             /\ UNCHANGED <<place, troubles>>
          \/ Trouble /\ moved = call[c].moved /\ UNCHANGED place
          \/ Trouble /\ CanMove(c) /\ moved \in In(Source(c))
             /\ place' = [place EXCEPT ![moved] = Target(c)]
       /\ IF Again(c)
          THEN /\ call' = [call EXCEPT ![c].tries = @ + 1, ![c].moved = moved]
               /\ UNCHANGED <<database, script, arm, catalogue, pc, history>>
          ELSE /\ call' = [call EXCEPT ![c] = Blank]
               /\ FailEvent(c, moved)

(* hw.clean_drive: in, the cycle, and out again.  The simulator refuses a  *)
(* cartridge that is not a cleaning one.                                   *)
CleanWorks(c) ==
  /\ At(c, "act") /\ Op(c) = "clean"
  /\ In(Current(c).slot) # {} /\ In(Current(c).drive) = {}
  /\ Goto(c, "status")
  /\ UNCHANGED <<database, script, place, arm, catalogue, call, troubles, history>>

CleanFails(c) ==
  /\ At(c, "act") /\ Op(c) = "clean"
  /\ \E moved \in {NoTape} \cup In(Current(c).slot) :
       /\ \/ /\ In(Current(c).slot) \cap Cleaning = {} \/ In(Current(c).drive) # {}
             /\ moved = NoTape /\ UNCHANGED <<place, troubles>>
          \/ Trouble /\ moved = NoTape /\ UNCHANGED place
          \/ /\ Trouble /\ moved # NoTape /\ In(Current(c).drive) = {}
             /\ place' = [place EXCEPT ![moved] = Current(c).drive]
       /\ call' = [call EXCEPT ![c] = Blank]
       /\ FailEvent(c, moved)

UnlockWorks(c) ==
  /\ At(c, "act") /\ Op(c) = "unlock"
  /\ Goto(c, "commit")
  /\ UNCHANGED <<database, script, place, arm, catalogue, call, troubles, history>>

(* mkltfs wipes the tape that is in the drive now, whatever the barcode it *)
(* is given to write on it; the simulator compares the two.                *)
Mkltfs(c) ==
  /\ At(c, "act") /\ Op(c) = "format"
  /\ \E t \in In(Current(c).drive) : call' = [call EXCEPT ![c].moved = t]
  /\ Goto(c, "commit")
  /\ UNCHANGED <<database, script, place, arm, catalogue, troubles, history>>

(* unlock and mkltfs fail before they did anything. *)
ActFails(c) ==
  /\ At(c, "act") /\ Op(c) \in {"unlock", "format"}
  /\ \/ /\ Op(c) = "format" /\ In(Current(c).drive) # {Current(c).tape}
        /\ UNCHANGED troubles
     \/ Trouble
  /\ call' = [call EXCEPT ![c] = Blank]
  /\ FailEvent(c, NoTape) /\ UNCHANGED place
-----------------------------------------------------------------------------
(* After the hardware.                                                     *)

(* The library_status() the snapshot is made from; inventory() for an      *)
(* inventory, which does not hold the arm.                                 *)
ReadStatus(c) ==
  /\ At(c, "status")
  /\ call' = [call EXCEPT ![c].snapshot = place]
  /\ Goto(c, "sync")
  /\ UNCHANGED <<database, script, place, arm, catalogue, troubles, history>>

ReadStatusFails(c) ==
  /\ At(c, "status") /\ Trouble
  /\ call' = [call EXCEPT ![c] = Blank]
  /\ FailEvent(c, call[c].moved) /\ UNCHANGED place

SlotsTaken(c) ==
  database = "postgres" /\ \E d \in Session \ {c} : call[d].wrote = "slots"

(* sync_snapshot deletes the rows of library_slots and adds them anew; the *)
(* call's last flush follows, and the with statement gives the arm back.   *)
Sync(c) ==
  /\ At(c, "sync") /\ ~SlotsTaken(c)
  /\ call' = [call EXCEPT ![c].wrote = "slots"]
  /\ arm' = IF arm = c THEN Nobody ELSE arm
  /\ Goto(c, "commit")
  /\ UNCHANGED <<database, script, place, catalogue, troubles, history>>

(* The DELETE waits for the session that has written these rows. *)
Block(c) ==
  /\ At(c, "sync") /\ SlotsTaken(c)
  /\ Goto(c, "blocked")
  /\ UNCHANGED <<database, script, place, arm, catalogue, call, troubles, history>>

(* It does not see the rows added meanwhile, which then violate            *)
(* uq_slot_kind_number: an IntegrityError, and not a HardwareError.        *)
Conflict(c) ==
  /\ At(c, "conflict")
  /\ Abandon(c, FALSE) /\ UNCHANGED troubles

Wrote(c) == call[c].wrote = "slots"

(* Tapes seen in a slot that have no row yet are registered. *)
NewTapes(c) ==
  {t \in Tape \ (Registered \cup Cleaning) : Wrote(c) /\ call[c].snapshot[t] \in Slot}

(* What the call makes of the locations; a variant takes the slot it was   *)
(* given for the one it used.  physical_location is written only where it  *)
(* differs from what was read.                                             *)
LocationAsAsked(c) ==
  [t \in Tape |->
     IF t \in NewTapes(c) THEN call[c].snapshot[t]
     ELSE IF Op(c) = "load" /\ t = call[c].tape THEN Current(c).drive
     ELSE IF Op(c) = "unload" /\ t = call[c].tape THEN Current(c).slot
     ELSE location[t]]

LocationAfter(c) ==
  [t \in Tape |->
     IF t \in NewTapes(c) THEN call[c].snapshot[t]
     ELSE IF Op(c) \in Moves /\ t = call[c].tape /\ Target(c) # call[c].seen
     THEN Target(c)
     ELSE location[t]]

(* What it makes of the states; a tape read as "scratch" is not written,   *)
(* and stays what it has become, but in a variant.                         *)
StatusAlwaysSet(c) ==
  [t \in Tape |->
     IF t \in NewTapes(c) THEN "scratch"
     ELSE IF t # call[c].tape THEN status[t]
     ELSE IF Op(c) = "retire" THEN "retired"
     ELSE IF Op(c) = "format" THEN "scratch"
     ELSE status[t]]

StatusAfter(c) ==
  [t \in Tape |->
     IF t \in NewTapes(c) THEN "scratch"
     ELSE IF t # call[c].tape THEN status[t]
     ELSE IF Op(c) = "retire" THEN "retired"
     ELSE IF Op(c) = "format" /\ call[c].state # "scratch" THEN "scratch"
     ELSE status[t]]

(* The event of retire is never finished. *)
Verdict(c) == IF Op(c) = "retire" THEN "pending" ELSE "success"

CommitAtTheEnd(c) ==
  /\ At(c, "commit")
  /\ location' = LocationAfter(c)
  /\ status' = StatusAfter(c)
  /\ cache' = IF Wrote(c) THEN call[c].snapshot ELSE cache
  /\ events' = events \cup {Event(c, Verdict(c), call[c].moved)}
  /\ Leave(c, TRUE, "conflict")
  /\ call' = [call EXCEPT ![c] =
       [Blank EXCEPT !.wrote = IF Tail(script[c]) = <<>> THEN "nothing" ELSE "event"]]
  /\ UNCHANGED <<database, place, troubles, history>>

(* The caller commits, and goes on to its next call; and a variant that    *)
(* leaves the commit to the end of the job.                                *)
Commit(c) ==
  /\ At(c, "commit")
  /\ location' = LocationAfter(c)
  /\ status' = StatusAfter(c)
  /\ cache' = IF Wrote(c) THEN call[c].snapshot ELSE cache
  /\ events' = events \cup {Event(c, Verdict(c), call[c].moved)}
  /\ Leave(c, TRUE, "conflict")
  /\ call' = [call EXCEPT ![c] = Blank]
  /\ UNCHANGED <<database, place, troubles, history>>

CommitFails(c) ==
  /\ At(c, "commit") /\ Trouble
  /\ Abandon(c, FALSE)
-----------------------------------------------------------------------------
Init ==
  /\ database \in Databases
  /\ script \in Scripts
  /\ place = Home
  /\ arm = Nobody
  /\ location = [t \in Tape |-> IF FirstStatus[t] = "unknown" THEN Nowhere ELSE Home[t]]
  /\ status = FirstStatus
  /\ cache = Home
  /\ events = {}
  /\ pc = [c \in Session |-> IF script[c] = <<>> THEN "done" ELSE First(Op(c))]
  /\ call = [c \in Session |-> Blank]
  /\ troubles = 0
  /\ unlogged = {} /\ hasty = {} /\ disturbed = {}

(* What a call does as long as nothing goes wrong by itself. *)
Step(c) ==
  \/ TakeArm(c) \/ Look(c) \/ Log(c) \/ RetireUnknown(c)
  \/ Move(c) \/ AttemptFails(c) \/ CleanWorks(c) \/ CleanFails(c)
  \/ UnlockWorks(c) \/ Mkltfs(c) \/ ActFails(c)
  \/ ReadStatus(c) \/ Sync(c) \/ Block(c) \/ Conflict(c) \/ Commit(c)
  \/ Refuse(c)

Misfortune(c) == LockTimesOut(c) \/ ReadStatusFails(c) \/ CommitFails(c)

(* History: the sessions that are about to run mkltfs in a drive whose     *)
(* cartridge is another one since they looked.                             *)
Watch ==
  disturbed' = {c \in Session :
    /\ pc[c] \in {"log", "act"} /\ Op(c) = "format"
    /\ \/ c \in disturbed
       \/ \E t \in Tape : place'[t] # place[t]
                         /\ Current(c).drive \in {place[t], place'[t]}}

Next ==
  \/ (\E c \in Session : Step(c) \/ Misfortune(c)) /\ Watch
  \/ (\A c \in Session : script[c] = <<>>) /\ UNCHANGED vars

Spec == Init /\ [][Next]_vars

(* Every call to the hardware and to the database returns; no lock times   *)
(* out.                                                                    *)
FairSpec == Spec /\ \A c \in Session : WF_vars(Step(c) /\ Watch)
-----------------------------------------------------------------------------
(* Every variable has its type. *)
TypeOK ==
  /\ database \in {"sqlite", "postgres"}
  /\ script \in [Session -> Seq(Calls)]
  /\ place \in [Tape -> Place]
  /\ arm \in Session \cup {Nobody}
  /\ location \in [Tape -> Place \cup {Nowhere}]
  /\ status \in [Tape -> Status]
  /\ cache \in [Tape -> Place]
  /\ events \subseteq [op : Ops, tape : Tape \cup {NoTape},
                       result : {"success", "error", "pending"},
                       moved : Tape \cup {NoTape}]
  /\ pc \in [Session -> {"arm", "look", "log", "act", "status", "sync", "blocked",
                         "conflict", "commit", "done"}]
  /\ call \in [Session ->
       [tape : Tape \cup {NoTape}, seen : Place \cup {Nowhere}, state : Status,
        slot : Slot \cup {AnySlot}, tries : 0 .. Attempts - 1,
        snapshot : [Tape -> Place], wrote : {"nothing", "event", "slots"},
        moved : Tape \cup {NoTape}]]
  /\ troubles \in 0 .. MaxTroubles
  /\ unlogged \subseteq Tape /\ hasty \subseteq Tape
  /\ disturbed \subseteq Session

(* The log tells the truth: a load or unload recorded as successful names  *)
(* the tape that was moved, though the row is looked up before the move    *)
(* and other sessions move tapes all the while (library.py:164-170,        *)
(* 203-206).                                                               *)
LogIsTrue ==
  \A e \in events :
    e.op \in Moves /\ e.result = "success" /\ e.tape # NoTape => e.moved = e.tape

(* A slot chosen for "any free slot" is still free when the arm gets there *)
(* (library.py:180-188).                                                   *)
FreeSlotStaysFree ==
  \A c \in Session :
    At(c, "act") /\ Op(c) = "unload" /\ Current(c).slot = AnySlot /\ call[c].tries = 0
      => In(call[c].slot) = {}

(* No session is between a move and its commit. *)
Quiet == \A c \in Session : pc[c] \in {"arm", "look", "log", "done"}

(* Cartridges moved by calls whose event says they failed. *)
Doubtful == {e.moved : e \in {f \in events : f.result = "error"}}

LocationsFollowTapes ==
  \A t \in Tape \ (Doubtful \cup unlogged \cup hasty) :
    FirstStatus[t] # "unknown" => location[t] = place[t]

SnapshotIsCurrent == cache = place /\ unlogged = {}

(* When nothing is under way, every tape the catalogue knew is where it    *)
(* says, unless a call failed after it had moved it, lost its event, or    *)
(* read its row before the last move was committed.  On SQLite, as long as *)
(* no call and no commit fails, library_slots is as the library is, and    *)
(* every move has its event: no session gets in between the status another *)
(* one reads and its commit (library.py:110, 169, 210).                    *)
CatalogueFollowsTapes ==
  Quiet => /\ LocationsFollowTapes
           /\ database = "sqlite" /\ troubles = 0 => SnapshotIsCurrent

(* mkltfs wipes the tape it was asked for, and none the catalogue has in   *)
(* use unless forced, as long as nobody exchanges the cartridge after      *)
(* format_tape looked at it (library.py:283, 294).                         *)
WipedAsAsked ==
  [][\A c \in Session \ disturbed :
       At(c, "act") /\ Op(c) = "format" /\ call'[c].moved # NoTape =>
         /\ call'[c].moved = Current(c).tape
         /\ Current(c).force \/ status[Current(c).tape] # "active"]_vars

(* What was retired stays retired, unless a format was forced              *)
(* (library.py:303, 321).                                                  *)
RetiredStays ==
  [][\A t \in Tape :
       status[t] = "retired" /\ status'[t] # "retired"
         => \E c \in Session :
              At(c, "commit") /\ Op(c) = "format" /\ Current(c).force]_vars

(* Every call comes to its end, and no session has to give up waiting: the *)
(* arm is never held by one that waits, in the database, for one that      *)
(* waits for the arm (library.py:159, db.py:29).                           *)
CallsEnd == \A c \in Session : <>(script[c] = <<>>)
=============================================================================
