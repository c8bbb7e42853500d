--------------------------- MODULE TapeLibraryProofs ---------------------------
(***************************************************************************)
(* What TapeLibrary guarantees for any tapes, slots and drives, any        *)
(* sessions and whatever they are about to do, and any number of troubles. *)
(***************************************************************************)
EXTENDS TapeLibrary, SequenceTheorems, FiniteSetTheorems, WellFoundedInduction, TLAPS

NeedsArm == Moves \cup {"clean"}
Known == {t \in Tape : FirstStatus[t] # "unknown"}
Underway == {"log", "act", "status", "sync", "blocked", "conflict", "commit"}

(* A session that is at work has a call; one that moves tapes has the arm  *)
(* from before it looks until its last flush.                              *)
PlaceSound(c) ==
  /\ pc[c] = "done" <=> script[c] = <<>>
  /\ pc[c] = "arm" => Op(c) \in NeedsArm
  /\ pc[c] = "look" => Op(c) \in Moves \cup {"unlock", "format"}
  /\ pc[c] = "act" => Op(c) \in NeedsArm \cup {"unlock", "format"}
  /\ pc[c] \in {"status", "sync", "blocked", "conflict"} => Op(c) \in NeedsArm \cup {"inventory"}
  /\ pc[c] \in {"look", "log", "act", "status", "sync", "blocked", "conflict"}
       /\ Op(c) \in NeedsArm => arm = c

(* What its local variables say; the tape it is about to move is the one   *)
(* it has found.                                                           *)
CallSound(c) ==
  /\ pc[c] \in {"arm", "look", "done"} => call[c] = Blank
  /\ pc[c] = "log" => call[c].moved = NoTape /\ call[c].tries = 0
  /\ pc[c] = "act" /\ Op(c) \notin Moves => call[c].moved = NoTape
  /\ call[c].tape # NoTape => call[c].tape \in Registered
  /\ pc[c] \in Underway /\ Op(c) \in Moves => Target(c) \in Place
  /\ pc[c] \in {"log", "act"} /\ Op(c) \in Moves /\ call[c].tape # NoTape
       => In(Source(c)) \subseteq {call[c].tape}
  /\ pc[c] \in {"log", "act"} /\ Op(c) \in Moves
       => In(Source(c)) \cap Known \subseteq {call[c].tape}
  /\ pc[c] \in {"log", "act"} /\ Op(c) = "unload" /\ Current(c).slot = AnySlot
       /\ call[c].tries = 0 => In(call[c].slot) = {}
  /\ pc[c] \in {"status", "sync", "blocked", "conflict", "commit"} /\ Op(c) \in Moves
       /\ call[c].tape # NoTape => call[c].moved = call[c].tape

(* What a format has found when it looked still holds. *)
FormatSound(c) ==
  pc[c] \in Underway /\ Op(c) = "format" =>
    /\ call[c].tape \in {Current(c).tape, NoTape}
    /\ ~Current(c).force /\ call[c].tape # NoTape => call[c].state = "scratch"
    /\ pc[c] \in {"log", "act"} =>
         /\ ~Current(c).force => status[Current(c).tape] # "active"
         /\ c \notin disturbed => Current(c).tape \in In(Current(c).drive)

OnePlaceEach == \A t, u \in Tape : place[t] = place[u] => t = u
KnownStayKnown == Known \subseteq Registered
RowsHaveStatus == \A t \in Tape : location[t] = Nowhere <=> status[t] = "unknown"

IInv ==
  /\ TypeOK /\ OnePlaceEach /\ RowsHaveStatus /\ KnownStayKnown /\ LogIsTrue
  /\ \A c \in Session : PlaceSound(c) /\ CallSound(c) /\ FormatSound(c)

(* A session carries a tape from the move to the commit, and is after it   *)
(* from the moment it has looked it up.                                    *)
Carries(c, t) == script[c] # <<>> /\ Op(c) \in Moves /\ call[c].moved = t
After(c, t) == script[c] # <<>> /\ Op(c) \in Moves /\ call[c].tape = t

(* The tapes whose location can be relied on.  Their row is right while    *)
(* nobody carries them, will be when who carries them has committed, and   *)
(* nobody else is after a tape that is carried.                            *)
Good == Known \ (Doubtful \cup unlogged \cup hasty)

LocationSound(t) ==
  /\ (\A c \in Session : ~Carries(c, t)) => location[t] = place[t]
  /\ \A c \in Session : Carries(c, t) => call[c].tape = t /\ Target(c) = place[t]
  /\ \A c \in Session : After(c, t) =>
       /\ call[c].seen = location[t]
       /\ \A d \in Session \ {c} : ~Carries(d, t)

(* The transactions that have written something; on SQLite there is one at *)
(* most, and what it has read of the library is still so.                  *)
Writing == {"act", "status", "sync", "blocked", "conflict", "commit"}
Dirty(c) == pc[c] \in {"status", "sync"} \/ call[c].wrote = "slots"

WroteSound(c) ==
  /\ pc[c] \in Writing <=> call[c].wrote # "nothing"
  /\ call[c].wrote = "slots" => pc[c] = "commit"

OneWriter ==
  database = "sqlite" =>
    /\ \A c \in Session : pc[c] \notin {"blocked", "conflict"}
    /\ \A c, d \in Session : pc[c] \in Writing /\ pc[d] \in Writing => c = d

CacheSound ==
  database = "sqlite" /\ troubles = 0 =>
    /\ unlogged = {}
    /\ (\A c \in Session : ~Dirty(c)) => cache = place
    /\ \A c \in Session :
         pc[c] = "sync" \/ call[c].wrote = "slots" => call[c].snapshot = place

JInv ==
  /\ \A t \in Good : LocationSound(t)
  /\ \A c \in Session : WroteSound(c)
  /\ OneWriter /\ CacheSound
-----------------------------------------------------------------------------
(* A set of numbers has a smallest one: the numbers up to it are a finite  *)
(* set with no proper subset of the kind.                                  *)
LEMMA SmallestExists ==
  ASSUME NEW S, S \subseteq Nat, S # {}
  PROVE  (CHOOSE s \in S : \A u \in S : s <= u) \in S
<1> PICK n \in S : TRUE
  OBVIOUS
<1> DEFINE Whole == 0 .. n
           Below == {0 .. m : m \in {u \in S : u <= n}}
<1>1. IsFiniteSet(Whole) /\ n \in Nat
  BY FS_Interval
<1>2. IsWellFoundedOn(StrictSubsetOrdering(Whole), SUBSET Whole)
  BY <1>1, FS_StrictSubsetOrderingWellFounded, FS_FiniteSubsetsOfFinite, Zenon
<1>3. Below \subseteq SUBSET Whole /\ 0 .. n \in Below
  BY <1>1
<1> HIDE DEF Whole, Below
<1>4. PICK x \in Below : \A y \in Below : <<y, x>> \notin StrictSubsetOrdering(Whole)
  BY <1>2, <1>3, WFMin, Zenon
<1>5. PICK m \in S : m <= n /\ x = 0 .. m
  BY DEF Below
<1>6. ASSUME NEW u \in S, u < m
      PROVE  FALSE
  <2>1. 0 .. u \in Below
    BY <1>5, <1>6, <1>1 DEF Below
  <2>2. 0 .. u \in SUBSET Whole /\ x \in SUBSET Whole
    BY <1>3, <2>1
  <2>3. 0 .. u \subseteq x /\ 0 .. u # x
    <3>1. m \in Nat /\ u \in Nat
      OBVIOUS
    <3>2. m \in x /\ m \notin 0 .. u
      BY <3>1, <1>5, <1>6
    <3>. QED
      BY <3>1, <3>2, <1>5, <1>6
  <2>. QED
    BY <1>4, <2>1, <2>2, <2>3 DEF StrictSubsetOrdering
<1>7. \A u \in S : m <= u
  BY <1>6, <1>5
<1>. QED
  BY <1>7

(* The arguments a call has. *)
CallHasArguments(k) ==
  /\ k.op \in Ops /\ k.slot \in Slot \cup {AnySlot}
  /\ k.op \in NeedsArm => k.drive \in Drive
  /\ k.op \in {"load", "clean"} => k.slot \in Slot
  /\ k.op = "format" => k.drive \in Drive /\ k.tape \in Tape
  /\ k.op = "retire" => k.tape \in Tape
  /\ k.force \in BOOLEAN

LEMMA CallsHaveArguments ==
  ASSUME NEW k \in Calls
  PROVE  CallHasArguments(k)
<1> USE DEF CallHasArguments, Ask, Ops, Moves, NeedsArm
<1>1. CASE \E s \in Slot, d \in Drive : k = Load(s, d)
  BY <1>1 DEF Load
<1>6. CASE \E s \in Slot, d \in Drive : k = Clean(s, d)
  BY <1>6 DEF Clean
<1>2. CASE \E s \in Slot \cup {AnySlot}, d \in Drive : k = Unload(s, d)
  BY <1>2 DEF Unload
<1>3. CASE k = Inventory
  BY <1>3 DEF Inventory, AnySlot
<1>7. CASE \E d \in Drive : k = Unlock(d)
  BY <1>7 DEF Unlock, AnySlot
<1>4. CASE \E d \in Drive, t \in Tape, f \in BOOLEAN : k = Format(d, t, f)
  BY <1>4 DEF Format, AnySlot
<1>5. CASE \E t \in Tape : k = Retire(t)
  BY <1>5 DEF Retire, AnySlot
<1>. QED
  BY <1>1, <1>2, <1>3, <1>4, <1>5, <1>6, <1>7 DEF Calls

(* The call a session is in, and those after it. *)
LEMMA CurrentIsCall ==
  ASSUME TypeOK, NEW c \in Session, script[c] # <<>>
  PROVE  /\ CallHasArguments(Current(c)) /\ Tail(script[c]) \in Seq(Calls)
         /\ Tail(script[c]) # <<>> => CallHasArguments(Head(Tail(script[c])))
<1>1. script[c] \in Seq(Calls)
  BY DEF TypeOK
<1>2. Head(script[c]) \in Calls /\ Tail(script[c]) \in Seq(Calls)
  BY <1>1, HeadTailProperties
<1>3. Tail(script[c]) # <<>> => Head(Tail(script[c])) \in Calls
  BY <1>2, HeadTailProperties
<1>. QED
  BY <1>2, <1>3, CallsHaveArguments DEF Current

LocalVars ==
  [tape : Tape \cup {NoTape}, seen : Place \cup {Nowhere}, state : Status,
   slot : Slot \cup {AnySlot}, tries : 0 .. Attempts - 1,
   snapshot : [Tape -> Place], wrote : {"nothing", "event", "slots"},
   moved : Tape \cup {NoTape}]

LEMMA BlankIsTyped == Blank \in LocalVars
BY OneTapeEach DEF Blank, LocalVars, Status, Attempts

(* Sessions other than c are left alone, but for those that wait for the   *)
(* rows c has written; what they rely on stays.                            *)
Alone(c) ==
  \A d \in Session \ {c} :
    /\ script'[d] = script[d] /\ call'[d] = call[d]
    /\ pc'[d] = pc[d] \/ (pc[d] = "blocked" /\ pc'[d] \in {"sync", "conflict"})

Respects(c) ==
  /\ \A d \in Session \ {c} : arm = d => arm' = d
  /\ place' = place \/ arm = c
  /\ Registered \subseteq Registered'
  /\ \A t \in Tape : status'[t] = "active" => status[t] = "active"

Sound(c) == PlaceSound(c) /\ CallSound(c) /\ FormatSound(c)
Facts == TypeOK /\ OnePlaceEach /\ RowsHaveStatus /\ LogIsTrue

LEMMA OthersStaySound ==
  ASSUME IInv, NEW c \in Session, Alone(c), Respects(c), Watch,
         NEW d \in Session \ {c}
  PROVE  Sound(d)'
<1> USE DEF Current, Op
<1>0. /\ script'[d] = script[d] /\ call'[d] = call[d]
      /\ pc'[d] = pc[d] \/ (pc[d] = "blocked" /\ pc'[d] \in {"sync", "conflict"})
      /\ arm = d => arm' = d
  BY DEF Alone, Respects
<1>1. PlaceSound(d) /\ CallSound(d) /\ FormatSound(d)
  BY DEF IInv
<1>2. PlaceSound(d)'
  BY <1>0, <1>1 DEF PlaceSound, NeedsArm
<1>3. Source(d)' = Source(d) /\ Target(d)' = Target(d)
  BY <1>0 DEF Source, Target
<1>4. pc[d] \in {"log", "act"} /\ Op(d) \in Moves => \A p : In(p)' = In(p)
  <2>1. HAVE pc[d] \in {"log", "act"} /\ Op(d) \in Moves
  <2>2. arm = d
    BY <1>1, <2>1 DEF PlaceSound, NeedsArm
  <2>3. place' = place
    BY <2>2 DEF Respects
  <2>. QED
    BY <2>3 DEF In
<1>5. CallSound(d)'
  BY <1>0, <1>1, <1>3, <1>4 DEF CallSound, Underway, Respects, Moves
<1>6. FormatSound(d)'
  <2>1. SUFFICES ASSUME pc'[d] \in Underway, Op(d) = "format"
                 PROVE  FormatSound(d)'
    BY <1>0 DEF FormatSound
  <2>2. pc[d] \in Underway
    BY <1>0, <2>1 DEF Underway
  <2>3. ASSUME pc'[d] \in {"log", "act"}, d \notin disturbed'
        PROVE  Current(d).tape \in In(Current(d).drive)'
    <3>1. pc[d] \in {"log", "act"}
      BY <1>0, <2>3
    <3>2. d \notin disturbed /\ \A t \in Tape : place'[t] # place[t] =>
             Current(d).drive \notin {place[t], place'[t]}
      BY <2>3, <3>1, <2>1 DEF Watch
    <3>3. Current(d).tape \in In(Current(d).drive)
      BY <1>1, <2>1, <2>2, <3>1, <3>2 DEF FormatSound
    <3>. QED
      BY <1>0, <3>2, <3>3 DEF In
  <2>4. pc'[d] \in {"log", "act"} /\ ~Current(d).force => status'[Current(d).tape] # "active"
    <3>1. HAVE pc'[d] \in {"log", "act"} /\ ~Current(d).force
    <3>2. pc[d] \in {"log", "act"}
      BY <1>0, <3>1
    <3>3. status[Current(d).tape] # "active"
      BY <1>1, <2>1, <2>2, <3>1, <3>2 DEF FormatSound
    <3>4. Current(d).tape \in Tape
      <4>1. script[d] # <<>>
        BY <1>1, <3>2 DEF PlaceSound
      <4>. QED
        BY <4>1, CurrentIsCall, <2>1 DEF CallHasArguments, IInv
    <3>. QED
      BY <3>3, <3>4 DEF Respects
  <2>. QED
    BY <1>0, <1>1, <2>1, <2>2, <2>3, <2>4 DEF FormatSound
<1>. QED
  BY <1>2, <1>5, <1>6 DEF Sound

LEMMA StepIsSound ==
  ASSUME IInv, NEW c \in Session, Alone(c), Respects(c), Watch, Sound(c)', Facts'
  PROVE  IInv'
<1>1. KnownStayKnown'
  BY DEF IInv, KnownStayKnown, Respects, Known
<1>. QED
  BY <1>1, OthersStaySound DEF IInv, Facts, Sound
-----------------------------------------------------------------------------
(* However a call ends, its session is left in order.                      *)

Pcs == {"arm", "look", "log", "act", "status", "sync", "blocked", "conflict",
        "commit", "done"}

LEMMA LeaveIsSound ==
  ASSUME IInv, NEW c \in Session, script[c] # <<>>, NEW goesOn \in BOOLEAN,
         NEW waiter \in {"sync", "conflict"}, Leave(c, goesOn, waiter),
         call' = [call EXCEPT ![c] = Blank]
  PROVE  /\ script' \in [Session -> Seq(Calls)] /\ arm' \in Session \cup {Nobody}
         /\ pc' \in [Session -> Pcs] /\ call' \in [Session -> LocalVars]
         /\ Sound(c)' /\ Alone(c) /\ call'[c] = Blank
         /\ pc'[c] \in {"arm", "look", "log", "done"}
         /\ \A d \in Session \ {c} : arm = d => arm' = d
<1> DEFINE rest == IF goesOn THEN Tail(script[c]) ELSE <<>>
<1>1. /\ TypeOK /\ script \in [Session -> Seq(Calls)] /\ pc \in [Session -> Pcs]
      /\ call \in [Session -> LocalVars] /\ arm \in Session \cup {Nobody}
  BY DEF IInv, TypeOK, Pcs, LocalVars
<1>2. rest \in Seq(Calls) /\ (rest # <<>> => CallHasArguments(Head(rest)))
  BY <1>1, CurrentIsCall
<1>3. script' = [script EXCEPT ![c] = rest] /\ script'[c] = rest
  BY <1>1, <1>2 DEF Leave
<1>4. /\ arm' = IF arm = c THEN Nobody ELSE arm
      /\ pc' = [d \in Session |->
                  IF d = c THEN IF rest = <<>> THEN "done" ELSE First(Head(rest).op)
                  ELSE IF pc[d] = "blocked" /\ call[c].wrote = "slots" THEN waiter
                  ELSE pc[d]]
  BY DEF Leave
<1> HIDE DEF rest
<1>5. rest # <<>> => /\ First(Head(rest).op) \in {"arm", "look", "log"}
                     /\ First(Head(rest).op) = "arm" => Head(rest).op \in NeedsArm
                     /\ First(Head(rest).op) = "look" => Head(rest).op \in {"unlock", "format"}
                     /\ First(Head(rest).op) = "log" => Head(rest).op \in {"inventory", "retire"}
  BY <1>2 DEF First, NeedsArm, Moves, CallHasArguments, Ops
<1>6. pc' \in [Session -> Pcs]
  BY <1>1, <1>4, <1>5 DEF Pcs
<1>7. /\ pc'[c] = IF rest = <<>> THEN "done" ELSE First(Head(rest).op)
      /\ call'[c] = Blank
  BY <1>1, <1>4
<1>8. PlaceSound(c)'
  BY <1>3, <1>5, <1>7 DEF PlaceSound, Op, Current, NeedsArm, Moves
<1>9. CallSound(c)' /\ FormatSound(c)'
  BY <1>3, <1>5, <1>7 DEF CallSound, FormatSound, Underway, Op, Current, Blank, NeedsArm, Moves
<1>10. Alone(c)
  <2>. SUFFICES ASSUME NEW d \in Session \ {c}
                PROVE  /\ script'[d] = script[d] /\ call'[d] = call[d]
                       /\ pc'[d] = pc[d] \/ (pc[d] = "blocked" /\ pc'[d] \in {"sync", "conflict"})
    BY Zenon DEF Alone
  <2>1. pc'[d] = IF pc[d] = "blocked" /\ call[c].wrote = "slots" THEN waiter ELSE pc[d]
    BY <1>4
  <2>2. script'[d] = script[d] /\ call'[d] = call[d]
    BY <1>1, <1>3
  <2>. QED
    BY <2>1, <2>2
<1>11. /\ script' \in [Session -> Seq(Calls)] /\ arm' \in Session \cup {Nobody}
       /\ call' \in [Session -> LocalVars]
       /\ \A d \in Session \ {c} : arm = d => arm' = d
  BY <1>1, <1>2, <1>3, <1>4, BlankIsTyped
<1>12. pc'[c] \in {"arm", "look", "log", "done"}
  BY <1>5, <1>7
<1>. QED
  BY <1>6, <1>7, <1>8, <1>9, <1>10, <1>11, <1>12 DEF Sound

(* An exception changes nothing but the history. *)
LEMMA AbandonIsSound ==
  ASSUME IInv, NEW c \in Session, script[c] # <<>>, NEW goesOn \in BOOLEAN,
         Abandon(c, goesOn), Watch, troubles' \in 0 .. MaxTroubles
  PROVE  IInv'
<1>1. /\ Leave(c, goesOn, "sync") /\ call' = [call EXCEPT ![c] = Blank]
      /\ UNCHANGED <<database, place, location, status, cache, events, hasty>>
      /\ unlogged' = unlogged \cup ({call[c].moved} \ {NoTape})
  BY DEF Abandon, catalogue
<1>2. TypeOK /\ OnePlaceEach /\ RowsHaveStatus /\ LogIsTrue
  BY DEF IInv
<1>3. /\ script' \in [Session -> Seq(Calls)] /\ arm' \in Session \cup {Nobody}
      /\ pc' \in [Session -> Pcs] /\ call' \in [Session -> LocalVars]
      /\ Sound(c)' /\ Alone(c)
      /\ \A d \in Session \ {c} : arm = d => arm' = d
  BY <1>1, LeaveIsSound
<1>4. call[c].moved \in Tape \cup {NoTape}
  BY <1>2 DEF TypeOK
<1>5. TypeOK'
  <2>1. unlogged' \subseteq Tape
    BY <1>1, <1>2, <1>4 DEF TypeOK
  <2>2. disturbed' \subseteq Session
    BY DEF Watch
  <2>. QED
    BY <1>1, <1>2, <1>3, <2>1, <2>2 DEF TypeOK, Pcs, LocalVars
<1>6. Respects(c) /\ OnePlaceEach' /\ RowsHaveStatus' /\ LogIsTrue'
  BY <1>1, <1>2, <1>3 DEF Respects, Registered, OnePlaceEach, RowsHaveStatus, LogIsTrue
<1>. QED
  BY <1>3, <1>5, <1>6, StepIsSound DEF Facts

(* A call that failed is recorded as such. *)
LEMMA FailIsSound ==
  ASSUME IInv, NEW c \in Session, script[c] # <<>>, NEW moved \in Tape \cup {NoTape},
         FailEvent(c, moved), call' = [call EXCEPT ![c] = Blank],
         place' \in [Tape -> Place], OnePlaceEach', place' = place \/ arm = c,
         Watch, troubles' \in 0 .. MaxTroubles
  PROVE  IInv'
<1>1. /\ events' = events \cup {Event(c, "error", moved)}
      /\ UNCHANGED <<database, location, status, cache, hasty, unlogged>>
  BY DEF FailEvent, history
<1>2. PICK goesOn \in BOOLEAN : Leave(c, goesOn, "sync")
  BY DEF FailEvent
<1>3. TypeOK /\ RowsHaveStatus /\ LogIsTrue
  BY DEF IInv
<1>4. /\ script' \in [Session -> Seq(Calls)] /\ arm' \in Session \cup {Nobody}
      /\ pc' \in [Session -> Pcs] /\ call' \in [Session -> LocalVars]
      /\ Sound(c)' /\ Alone(c)
      /\ \A d \in Session \ {c} : arm = d => arm' = d
  BY <1>2, LeaveIsSound
<1>5. Event(c, "error", moved) \in
        [op : Ops, tape : Tape \cup {NoTape}, result : {"success", "error", "pending"},
         moved : Tape \cup {NoTape}]
  <2>1. Op(c) \in Ops
    BY <1>3, CurrentIsCall DEF CallHasArguments, Op
  <2>2. call[c].tape \in Tape \cup {NoTape}
    BY <1>3 DEF TypeOK
  <2>. QED
    BY <2>1, <2>2 DEF Event
<1>6. TypeOK'
  <2>1. disturbed' \subseteq Session
    BY DEF Watch
  <2>2. events' \subseteq [op : Ops, tape : Tape \cup {NoTape},
                           result : {"success", "error", "pending"},
                           moved : Tape \cup {NoTape}]
    BY <1>1, <1>3, <1>5 DEF TypeOK
  <2>. QED
    BY <1>1, <1>3, <1>4, <2>1, <2>2 DEF TypeOK, Pcs, LocalVars
<1>7. LogIsTrue'
  BY <1>1, <1>3 DEF LogIsTrue, Event
<1>8. Respects(c) /\ RowsHaveStatus'
  BY <1>1, <1>3, <1>4 DEF Respects, Registered, RowsHaveStatus
<1>. QED
  BY <1>4, <1>6, <1>7, <1>8, StepIsSound DEF Facts
-----------------------------------------------------------------------------
(* Within a call.  A step that goes on with it leaves the catalogue as it  *)
(* is.                                                                     *)

LEMMA GoOnIsSound ==
  ASSUME IInv, NEW c \in Session, NEW where \in Pcs, Goto(c, where),
         UNCHANGED <<database, script, location, status, cache, events, unlogged>>,
         arm' \in Session \cup {Nobody}, \A d \in Session \ {c} : arm = d => arm' = d,
         call' \in [Session -> LocalVars], \A d \in Session \ {c} : call'[d] = call[d],
         place' \in [Tape -> Place], OnePlaceEach', place' = place \/ arm = c,
         troubles' \in 0 .. MaxTroubles, hasty' \subseteq Tape, Watch,
         Sound(c)'
  PROVE  IInv'
<1>1. TypeOK /\ RowsHaveStatus /\ LogIsTrue
  BY DEF IInv
<1>2. TypeOK'
  <2>1. pc' \in [Session -> Pcs] /\ disturbed' \subseteq Session
    BY <1>1 DEF TypeOK, Goto, Pcs, Watch
  <2>. QED
    BY <1>1, <2>1 DEF TypeOK, Pcs, LocalVars
<1>3. Alone(c)
  BY <1>1 DEF Alone, Goto, TypeOK
<1>4. Respects(c) /\ RowsHaveStatus' /\ LogIsTrue'
  BY <1>1 DEF Respects, Registered, RowsHaveStatus, LogIsTrue
<1>. QED
  BY <1>2, <1>3, <1>4, StepIsSound DEF Facts

(* What is known of a session when it takes a step. *)
LEMMA AtWork ==
  ASSUME IInv, NEW c \in Session, NEW where, At(c, where)
  PROVE  /\ script[c] # <<>> /\ pc[c] = where
         /\ CallHasArguments(Current(c)) /\ Op(c) \in Ops
         /\ PlaceSound(c) /\ CallSound(c) /\ FormatSound(c)
         /\ script \in [Session -> Seq(Calls)] /\ pc \in [Session -> Pcs]
         /\ call \in [Session -> LocalVars] /\ call[c] \in LocalVars
         /\ arm \in Session \cup {Nobody} /\ place \in [Tape -> Place]
         /\ location \in [Tape -> Place \cup {Nowhere}] /\ status \in [Tape -> Status]
         /\ troubles \in 0 .. MaxTroubles /\ hasty \subseteq Tape
         /\ OnePlaceEach
<1>1. /\ script[c] # <<>> /\ pc[c] = where
      /\ PlaceSound(c) /\ CallSound(c) /\ FormatSound(c) /\ TypeOK /\ OnePlaceEach
  BY DEF At, IInv
<1>2. /\ script \in [Session -> Seq(Calls)] /\ pc \in [Session -> Pcs]
      /\ call \in [Session -> LocalVars]
      /\ arm \in Session \cup {Nobody} /\ place \in [Tape -> Place]
      /\ location \in [Tape -> Place \cup {Nowhere}] /\ status \in [Tape -> Status]
      /\ troubles \in 0 .. MaxTroubles /\ hasty \subseteq Tape
  BY <1>1 DEF TypeOK, Pcs, LocalVars
<1>3. call[c] \in LocalVars
  BY <1>2
<1>4. CallHasArguments(Current(c)) /\ Op(c) \in Ops
  BY <1>1, CurrentIsCall DEF CallHasArguments, Op
<1>. QED
  BY <1>1, <1>2, <1>3, <1>4

LEMMA TroubleIsBounded ==
  ASSUME troubles \in 0 .. MaxTroubles, Trouble \/ UNCHANGED troubles
  PROVE  troubles' \in 0 .. MaxTroubles
BY BoundIsNat DEF Trouble

LEMMA TakeArmIsSound ==
  ASSUME IInv, NEW c \in Session, TakeArm(c), Watch
  PROVE  IInv'
<1> DEFINE where == IF Op(c) = "clean" THEN "log" ELSE "look"
<1>1. /\ script[c] # <<>> /\ pc[c] = "arm"
      /\ PlaceSound(c) /\ CallSound(c) /\ pc \in [Session -> Pcs]
      /\ call \in [Session -> LocalVars] /\ place \in [Tape -> Place]
      /\ troubles \in 0 .. MaxTroubles /\ hasty \subseteq Tape /\ OnePlaceEach
  BY AtWork DEF TakeArm
<1>2. /\ arm = Nobody /\ arm' = c /\ Goto(c, where)
      /\ UNCHANGED <<database, script, place, location, status, cache, events, call,
                     troubles, unlogged, hasty>>
  BY DEF TakeArm, catalogue, history
<1>3. pc'[c] = where /\ Op(c)' = Op(c) /\ script'[c] = script[c] /\ call'[c] = Blank
  BY <1>1, <1>2 DEF Goto, Op, Current, CallSound
<1>4. Op(c) \in NeedsArm
  BY <1>1 DEF PlaceSound
<1>5. Sound(c)'
  <2>1. PlaceSound(c)'
    BY <1>1, <1>2, <1>3, <1>4 DEF PlaceSound, NeedsArm, Moves
  <2>2. CallSound(c)'
    BY <1>3, <1>4 DEF CallSound, Blank, Underway, NeedsArm, Moves
  <2>3. FormatSound(c)'
    BY <1>3, <1>4 DEF FormatSound, NeedsArm, Moves
  <2>. QED
    BY <2>1, <2>2, <2>3 DEF Sound
<1>6. \A d \in Session \ {c} : arm = d => arm' = d
  BY <1>2, SessionIds
<1>7. OnePlaceEach'
  BY <1>1, <1>2 DEF OnePlaceEach
<1>. QED
  BY <1>1, <1>2, <1>5, <1>6, <1>7, GoOnIsSound DEF Pcs

(* What library_status() and the catalogue show of the tape at hand. *)
LEMMA FoundIsThere ==
  ASSUME IInv, NEW c \in Session, script[c] # <<>>,
         Op(c) \in Moves \cup {"format", "unlock"}
  PROVE  /\ Found(c) \in Tape \cup {NoTape}
         /\ Found(c) # NoTape => Found(c) \in Registered
         /\ Found(c) # NoTape /\ Op(c) # "format" => In(Source(c)) = {Found(c)}
         /\ Op(c) # "format" => In(Source(c)) \cap Known \subseteq {Found(c)}
         /\ Op(c) = "format" => Found(c) \in {Current(c).tape, NoTape}
<1> DEFINE found == IF Op(c) = "format" THEN {Current(c).tape} ELSE In(Source(c))
<1>1. Found(c) = IF found \cap Registered = {} THEN NoTape ELSE CHOOSE t \in found : TRUE
  BY DEF Found
<1>2. /\ found \subseteq Tape
      /\ \A t, u \in found : t = u
      /\ Op(c) # "format" => found = In(Source(c))
      /\ Op(c) = "format" => found = {Current(c).tape}
  <2>1. TypeOK /\ OnePlaceEach
    BY DEF IInv
  <2>2. Op(c) = "format" => Current(c).tape \in Tape
    BY <2>1, CurrentIsCall DEF CallHasArguments, Op
  <2>. QED
    BY <2>1, <2>2 DEF In, OnePlaceEach
<1> HIDE DEF found
<1>3. CASE found \cap Registered = {}
  BY <1>1, <1>2, <1>3 DEF IInv, KnownStayKnown
<1>4. CASE found \cap Registered # {}
  <2>1. Found(c) \in found
    BY <1>1, <1>4
  <2>2. found = {Found(c)} /\ Found(c) \in Registered
    BY <1>2, <1>4, <2>1
  <2>. QED
    BY <1>2, <2>1, <2>2
<1>. QED
  BY <1>3, <1>4

LEMMA SlotIsFree ==
  ASSUME IInv, NEW c \in Session, script[c] # <<>>, Op(c) \in Moves, ~Refused(c)
  PROVE  /\ SlotFor(c) \in Slot
         /\ Op(c) = "unload" /\ Current(c).slot = AnySlot => In(SlotFor(c)) = {}
<1>1. CallHasArguments(Current(c))
  BY CurrentIsCall DEF IInv
<1>2. CASE Op(c) = "unload" /\ Current(c).slot = AnySlot
  <2>1. FreeSlots # {} /\ FreeSlots \subseteq Nat
    BY <1>2, Places DEF Refused, FreeSlots
  <2>2. SlotFor(c) \in FreeSlots
    BY <1>2, <2>1, SmallestExists DEF SlotFor
  <2>. QED
    BY <2>2 DEF FreeSlots
<1>3. CASE ~(Op(c) = "unload" /\ Current(c).slot = AnySlot)
  BY <1>1, <1>3 DEF SlotFor, CallHasArguments, Op, Moves
<1>. QED
  BY <1>2, <1>3

LEMMA LookIsSound ==
  ASSUME IInv, NEW c \in Session, Look(c), Watch
  PROVE  IInv'
<1>1. /\ script[c] # <<>> /\ pc[c] = "look"
      /\ CallHasArguments(Current(c)) /\ Op(c) \in Ops
      /\ PlaceSound(c) /\ CallSound(c) /\ pc \in [Session -> Pcs]
      /\ call \in [Session -> LocalVars] /\ place \in [Tape -> Place]
      /\ location \in [Tape -> Place \cup {Nowhere}] /\ status \in [Tape -> Status]
      /\ arm \in Session \cup {Nobody}
      /\ troubles \in 0 .. MaxTroubles /\ hasty \subseteq Tape /\ OnePlaceEach
  BY AtWork DEF Look
<1> DEFINE seen == IF Found(c) = NoTape THEN Nowhere ELSE location[Found(c)]
           state == IF Found(c) = NoTape THEN "unknown" ELSE status[Found(c)]
<1>2. /\ ~Refused(c) /\ Goto(c, "log")
      /\ call' = [call EXCEPT ![c] = [@ EXCEPT !.tape = Found(c), !.seen = seen,
                                               !.state = state, !.slot = SlotFor(c)]]
      /\ hasty' = IF Op(c) \in Moves THEN hasty \cup ({Found(c)} \cap Pending(c)) ELSE hasty
      /\ UNCHANGED <<database, script, place, arm, location, status, cache, events,
                     troubles, unlogged>>
  BY DEF Look, catalogue
<1>3. Op(c) \in Moves \cup {"unlock", "format"}
  BY <1>1 DEF PlaceSound
<1>4. /\ Found(c) \in Tape \cup {NoTape} /\ (Found(c) # NoTape => Found(c) \in Registered)
      /\ Found(c) # NoTape /\ Op(c) # "format" => In(Source(c)) = {Found(c)}
      /\ Op(c) # "format" => In(Source(c)) \cap Known \subseteq {Found(c)}
      /\ Op(c) = "format" => Found(c) \in {Current(c).tape, NoTape}
  BY <1>1, <1>3, FoundIsThere
<1>5. Op(c) \in Moves => /\ SlotFor(c) \in Slot
                         /\ Op(c) = "unload" /\ Current(c).slot = AnySlot
                              => In(SlotFor(c)) = {}
  BY <1>1, <1>2, SlotIsFree
<1>6. SlotFor(c) \in Slot \cup {AnySlot}
  BY <1>1, <1>5 DEF SlotFor, Moves, CallHasArguments
<1>7. seen \in Place \cup {Nowhere} /\ state \in Status
  BY <1>1, <1>4 DEF Status
<1>8. call[c] = Blank
  BY <1>1 DEF CallSound
<1> HIDE DEF seen, state
<1>9. /\ call'[c].tape = Found(c) /\ call'[c].state = state /\ call'[c].slot = SlotFor(c)
      /\ call'[c].moved = NoTape /\ call'[c].tries = 0 /\ call'[c] \in LocalVars
  <2>1. call'[c] = [call[c] EXCEPT !.tape = Found(c), !.seen = seen,
                                   !.state = state, !.slot = SlotFor(c)]
    BY <1>1, <1>2
  <2>2. call[c] \in LocalVars /\ call[c].moved = NoTape /\ call[c].tries = 0
    BY <1>8, BlankIsTyped DEF Blank
  <2>3. call'[c] \in LocalVars
    BY <1>4, <1>6, <1>7, <2>1, <2>2 DEF LocalVars
  <2>. QED
    BY <2>1, <2>2, <2>3 DEF LocalVars
<1>10. call' \in [Session -> LocalVars] /\ \A d \in Session \ {c} : call'[d] = call[d]
  BY <1>1, <1>2, <1>9
<1>11. /\ pc'[c] = "log" /\ Op(c)' = Op(c) /\ Current(c)' = Current(c)
       /\ script'[c] = script[c] /\ Source(c)' = Source(c)
       /\ Registered' = Registered /\ \A p : In(p)' = In(p)
  BY <1>1, <1>2 DEF Goto, Op, Current, Source, Registered, In
<1>12. PlaceSound(c)'
  BY <1>1, <1>2, <1>11 DEF PlaceSound, NeedsArm
<1>13. CallSound(c)'
  <2>1. Op(c) \in Moves => Target(c)' \in Place
    BY <1>1, <1>5, <1>9, <1>11 DEF Target, CallHasArguments, Op, Place, NeedsArm, Moves
  <2>2. Op(c) \in Moves => /\ Found(c) # NoTape => In(Source(c)) \subseteq {Found(c)}
                            /\ In(Source(c)) \cap Known \subseteq {Found(c)}
    BY <1>4 DEF Moves
  <2>. QED
    BY <1>4, <1>5, <1>9, <1>11, <2>1, <2>2 DEF CallSound, Underway, Moves
<1>14. FormatSound(c)'
  <2>1. SUFFICES ASSUME Op(c) = "format"
                 PROVE  FormatSound(c)'
    BY <1>11 DEF FormatSound
  <2>2. /\ ~Current(c).force => status[Current(c).tape] \in {"unknown", "scratch"}
        /\ Current(c).tape \in In(Current(c).drive)
    BY <1>2, <2>1 DEF Refused
  <2>3. ~Current(c).force /\ Found(c) # NoTape => state = "scratch"
    <3>1. SUFFICES ASSUME ~Current(c).force, Found(c) # NoTape
                   PROVE  status[Found(c)] = "scratch"
      BY DEF state
    <3>2. Found(c) = Current(c).tape /\ Found(c) \in Registered
      BY <1>4, <2>1, <3>1
    <3>3. status[Found(c)] # "unknown"
      BY <3>2 DEF IInv, RowsHaveStatus, Registered
    <3>. QED
      BY <2>2, <3>1, <3>2, <3>3
  <2>. QED
    BY <1>2, <1>4, <1>9, <1>11, <2>1, <2>2, <2>3 DEF FormatSound
<1>15. hasty' \subseteq Tape
  BY <1>1, <1>2, <1>4, TapeIds DEF Pending
<1>16. OnePlaceEach'
  BY <1>1, <1>2 DEF OnePlaceEach
<1>. QED
  BY <1>1, <1>2, <1>10, <1>12, <1>13, <1>14, <1>15, <1>16, GoOnIsSound DEF Sound, Pcs

LEMMA LogIsSound ==
  ASSUME IInv, NEW c \in Session, Log(c), Watch
  PROVE  IInv'
<1> DEFINE tape == IF Op(c) = "retire" THEN Current(c).tape ELSE call[c].tape
<1>1. /\ script[c] # <<>> /\ pc[c] = "log"
      /\ CallHasArguments(Current(c)) /\ Op(c) \in Ops
      /\ PlaceSound(c) /\ CallSound(c) /\ FormatSound(c) /\ pc \in [Session -> Pcs]
      /\ call \in [Session -> LocalVars] /\ call[c] \in LocalVars
      /\ place \in [Tape -> Place] /\ arm \in Session \cup {Nobody}
      /\ troubles \in 0 .. MaxTroubles /\ hasty \subseteq Tape /\ OnePlaceEach
  BY AtWork DEF Log
<1>2. /\ Op(c) = "retire" => Current(c).tape \in Registered
      /\ call' = [call EXCEPT ![c].wrote = "event", ![c].tape = tape]
      /\ Goto(c, AfterLog(Op(c)))
      /\ UNCHANGED <<database, script, place, arm, location, status, cache, events,
                     troubles, unlogged, hasty>>
  BY DEF Log, catalogue, history
<1>3. /\ tape \in Tape \cup {NoTape} /\ (tape # NoTape => tape \in Registered)
      /\ Op(c) # "retire" => tape = call[c].tape
  BY <1>1, <1>2 DEF CallSound, Registered, LocalVars
<1> HIDE DEF tape
<1>4. /\ call'[c] = [call[c] EXCEPT !.wrote = "event", !.tape = tape]
      /\ \A d \in Session \ {c} : call'[d] = call[d]
  BY <1>1, <1>2
<1>5. /\ call'[c] \in LocalVars /\ call'[c].tape = tape
      /\ call'[c].state = call[c].state /\ call'[c].slot = call[c].slot
      /\ call'[c].moved = call[c].moved /\ call'[c].tries = call[c].tries
  BY <1>1, <1>3, <1>4 DEF LocalVars
<1>6. call' \in [Session -> LocalVars]
  BY <1>1, <1>2, <1>5
<1>7. /\ pc'[c] = AfterLog(Op(c)) /\ Op(c)' = Op(c) /\ Current(c)' = Current(c)
      /\ script'[c] = script[c] /\ Source(c)' = Source(c) /\ Target(c)' = Target(c)
      /\ Registered' = Registered /\ (\A p : In(p)' = In(p)) /\ arm' = arm
  BY <1>1, <1>2, <1>5 DEF Goto, Op, Current, Source, Target, Registered, In
<1>8. AfterLog(Op(c)) \in Pcs /\ PlaceSound(c)'
  BY <1>1, <1>7 DEF PlaceSound, NeedsArm, Moves, AfterLog, Ops, Pcs
<1>9. CallSound(c)'
  BY <1>1, <1>3, <1>5, <1>7 DEF CallSound, Underway, Moves, AfterLog
<1>10. FormatSound(c)'
  <2>1. SUFFICES ASSUME Op(c) = "format"
                 PROVE  FormatSound(c)'
    BY <1>7 DEF FormatSound
  <2>2. pc'[c] = "act" /\ tape = call[c].tape
    BY <1>3, <1>7, <2>1 DEF AfterLog
  <2>3. c \notin disturbed' => c \notin disturbed
    BY <1>1, <1>2, <2>1 DEF Watch
  <2>. QED
    BY <1>1, <1>2, <1>5, <1>7, <2>1, <2>2, <2>3 DEF FormatSound, Underway
<1>11. OnePlaceEach'
  BY <1>1, <1>2 DEF OnePlaceEach
<1>. QED
  BY <1>1, <1>2, <1>4, <1>6, <1>7, <1>8, <1>9, <1>10, <1>11, GoOnIsSound DEF Sound

(* The moves. *)
LEMMA MoveKeepsPlaces ==
  ASSUME IInv, NEW c \in Session, NEW t \in Tape, NEW p \in Place, In(p) = {},
         place' = [place EXCEPT ![t] = p]
  PROVE  place' \in [Tape -> Place] /\ OnePlaceEach'
<1>1. place \in [Tape -> Place] /\ OnePlaceEach
  BY DEF IInv, TypeOK
<1>2. place' \in [Tape -> Place]
  BY <1>1
<1>3. \A u \in Tape : place[u] # p
  BY DEF In
<1>4. OnePlaceEach'
  BY <1>1, <1>3 DEF OnePlaceEach
<1>. QED
  BY <1>2, <1>4

LEMMA MoveIsSound ==
  ASSUME IInv, NEW c \in Session, Move(c), Watch
  PROVE  IInv'
<1>1. /\ script[c] # <<>> /\ pc[c] = "act"
      /\ CallHasArguments(Current(c)) /\ Op(c) \in Ops
      /\ PlaceSound(c) /\ CallSound(c) /\ pc \in [Session -> Pcs]
      /\ call \in [Session -> LocalVars] /\ call[c] \in LocalVars
      /\ place \in [Tape -> Place] /\ arm \in Session \cup {Nobody}
      /\ troubles \in 0 .. MaxTroubles /\ hasty \subseteq Tape /\ OnePlaceEach
  BY AtWork DEF Move
<1>2. PICK t \in In(Source(c)) : /\ place' = [place EXCEPT ![t] = Target(c)]
                                 /\ call' = [call EXCEPT ![c].moved = t]
  BY DEF Move
<1>3. /\ Op(c) \in Moves /\ In(Target(c)) = {} /\ Goto(c, "status")
      /\ UNCHANGED <<database, script, arm, location, status, cache, events,
                     troubles, unlogged, hasty>>
  BY DEF Move, CanMove, catalogue, history
<1>4. /\ arm = c /\ Target(c) \in Place /\ t \in Tape
      /\ call[c].tape # NoTape => t = call[c].tape
  BY <1>1, <1>2, <1>3 DEF PlaceSound, CallSound, NeedsArm, Underway, In
<1>5. place' \in [Tape -> Place] /\ OnePlaceEach'
  BY <1>2, <1>3, <1>4, MoveKeepsPlaces
<1>6. /\ call'[c] = [call[c] EXCEPT !.moved = t]
      /\ \A d \in Session \ {c} : call'[d] = call[d]
  BY <1>1, <1>2
<1>7. /\ call'[c] \in LocalVars /\ call'[c].tape = call[c].tape
      /\ call'[c].slot = call[c].slot /\ call'[c].moved = t
  BY <1>1, <1>4, <1>6 DEF LocalVars
<1>8. call' \in [Session -> LocalVars]
  BY <1>1, <1>2, <1>7
<1>9. /\ pc'[c] = "status" /\ Op(c)' = Op(c) /\ Current(c)' = Current(c)
      /\ script'[c] = script[c] /\ Target(c)' = Target(c)
      /\ Registered' = Registered /\ arm' = arm
  BY <1>1, <1>3, <1>7 DEF Goto, Op, Current, Target, Registered
<1>10. PlaceSound(c)'
  BY <1>1, <1>3, <1>4, <1>9 DEF PlaceSound, NeedsArm
<1>11. CallSound(c)' /\ FormatSound(c)'
  BY <1>1, <1>3, <1>4, <1>7, <1>9 DEF CallSound, FormatSound, Underway, Moves
<1>. QED
  BY <1>1, <1>3, <1>4, <1>5, <1>6, <1>8, <1>10, <1>11, GoOnIsSound DEF Sound, Pcs

LEMMA AttemptFailsIsSound ==
  ASSUME IInv, NEW c \in Session, AttemptFails(c), Watch
  PROVE  IInv'
<1>1. /\ script[c] # <<>> /\ pc[c] = "act"
      /\ CallHasArguments(Current(c)) /\ Op(c) \in Ops
      /\ PlaceSound(c) /\ CallSound(c) /\ pc \in [Session -> Pcs]
      /\ call \in [Session -> LocalVars] /\ call[c] \in LocalVars
      /\ place \in [Tape -> Place] /\ arm \in Session \cup {Nobody}
      /\ troubles \in 0 .. MaxTroubles /\ hasty \subseteq Tape /\ OnePlaceEach
  BY AtWork DEF AttemptFails
<1>2. Op(c) \in Moves
  BY DEF AttemptFails
<1>3. PICK moved \in {call[c].moved} \cup In(Source(c)) :
        /\ \/ /\ ~CanMove(c) /\ moved = call[c].moved
              /\ UNCHANGED <<place, troubles>>
           \/ Trouble /\ moved = call[c].moved /\ UNCHANGED place
           \/ Trouble /\ CanMove(c) /\ moved \in In(Source(c))
              /\ place' = [place EXCEPT ![moved] = Target(c)]
        /\ IF Again(c)
           THEN /\ call' = [call EXCEPT ![c].tries = @ + 1, ![c].moved = moved]
                /\ UNCHANGED <<database, script, arm, catalogue, pc, history>>
           ELSE /\ call' = [call EXCEPT ![c] = Blank]
                /\ FailEvent(c, moved)
  BY DEF AttemptFails
<1>4. arm = c /\ Target(c) \in Place /\ moved \in Tape \cup {NoTape}
  BY <1>1, <1>2 DEF PlaceSound, CallSound, NeedsArm, Underway, In, LocalVars
<1>5. troubles' \in 0 .. MaxTroubles
  BY <1>1, <1>3, TroubleIsBounded
<1>6. /\ place' \in [Tape -> Place] /\ OnePlaceEach'
      /\ \/ place' = place
         \/ CanMove(c) /\ moved \in Tape /\ place' = [place EXCEPT ![moved] = Target(c)]
  <2>1. CASE place' = place
    BY <1>1, <2>1 DEF OnePlaceEach
  <2>2. CASE /\ CanMove(c) /\ moved \in In(Source(c))
             /\ place' = [place EXCEPT ![moved] = Target(c)]
    <3>1. moved \in Tape /\ In(Target(c)) = {}
      BY <2>2 DEF In, CanMove
    <3>. QED
      BY <1>4, <2>2, <3>1, MoveKeepsPlaces
  <2>. QED
    BY <1>3, <2>1, <2>2
<1>7. CASE ~Again(c)
  BY <1>1, <1>3, <1>4, <1>5, <1>6, <1>7, FailIsSound
<1>8. CASE Again(c)
  <2>1. /\ call' = [call EXCEPT ![c].tries = @ + 1, ![c].moved = moved]
        /\ UNCHANGED <<database, script, arm, location, status, cache, events, pc,
                       unlogged, hasty>>
    BY <1>3, <1>8 DEF catalogue, history
  <2>2. /\ call'[c] = [call[c] EXCEPT !.tries = call[c].tries + 1, !.moved = moved]
        /\ \A d \in Session \ {c} : call'[d] = call[d]
    BY <1>1, <2>1
  <2>3. /\ call'[c] \in LocalVars /\ call'[c].tape = call[c].tape
        /\ call'[c].slot = call[c].slot /\ call'[c].tries = call[c].tries + 1
        /\ call'[c].tries # 0
    <3>1. call[c].tries + 1 \in 0 .. Attempts - 1 /\ call[c].tries + 1 # 0
      BY <1>1, <1>8 DEF LocalVars, Again, Attempts
    <3>. QED
      BY <1>1, <1>4, <2>2, <3>1 DEF LocalVars
  <2>4. call' \in [Session -> LocalVars]
    BY <1>1, <2>1, <2>3
  <2>5. /\ pc'[c] = "act" /\ Op(c)' = Op(c) /\ Current(c)' = Current(c)
        /\ script'[c] = script[c] /\ Target(c)' = Target(c) /\ Source(c)' = Source(c)
        /\ Registered' = Registered /\ arm' = arm /\ Goto(c, "act")
    BY <1>1, <2>1, <2>3 DEF Goto, Op, Current, Target, Source, Registered
  <2>6. In(Source(c))' \subseteq In(Source(c))
    <3>1. CASE place' = place
      BY <2>5, <3>1 DEF In
    <3>2. CASE CanMove(c) /\ moved \in Tape /\ place' = [place EXCEPT ![moved] = Target(c)]
      <4>1. Target(c) # Source(c)
        BY <3>2 DEF CanMove
      <4>. QED
        BY <1>1, <2>5, <3>2, <4>1 DEF In
    <3>. QED
      BY <1>6, <3>1, <3>2
  <2>7. PlaceSound(c)'
    BY <1>1, <1>2, <1>4, <2>5 DEF PlaceSound, NeedsArm
  <2>8. CallSound(c)' /\ FormatSound(c)'
    BY <1>1, <1>2, <2>3, <2>5, <2>6 DEF CallSound, FormatSound, Underway, Moves
  <2>. QED
    BY <1>1, <1>4, <1>5, <1>6, <2>1, <2>2, <2>4, <2>5, <2>7, <2>8, GoOnIsSound
       DEF Sound, Pcs
<1>. QED
  BY <1>7, <1>8

(* Once the hardware has done its part, and where it moves nothing, a call *)
(* goes forward to its commit.                                             *)
LEMMA ForwardIsSound ==
  ASSUME IInv, NEW c \in Session, pc[c] \in {"act", "status", "sync"}, script[c] # <<>>,
         NEW where \in {"status", "sync", "blocked", "commit"}, Goto(c, where),
         UNCHANGED <<database, script, place, location, status, cache, events, troubles,
                     unlogged, hasty>>,
         call' \in [Session -> LocalVars], \A d \in Session \ {c} : call'[d] = call[d],
         call'[c].tape = call[c].tape, call'[c].slot = call[c].slot,
         call'[c].state = call[c].state,
         Op(c) \in Moves => pc[c] # "act" /\ call'[c].moved = call[c].moved,
         where # "commit" => Op(c) \in NeedsArm \cup {"inventory"} /\ arm' = arm,
         where = "commit" => arm' = arm \/ (arm = c /\ arm' = Nobody),
         Watch
  PROVE  IInv'
<1>1. /\ PlaceSound(c) /\ CallSound(c) /\ FormatSound(c)
      /\ TypeOK /\ OnePlaceEach /\ pc \in [Session -> Pcs]
  BY DEF IInv, TypeOK, Pcs
<1>2. /\ pc'[c] = where /\ Op(c)' = Op(c) /\ Current(c)' = Current(c)
      /\ script'[c] = script[c] /\ Target(c)' = Target(c)
      /\ Registered' = Registered
  BY <1>1 DEF Goto, Op, Current, Target, Registered
<1>3. PlaceSound(c)'
  BY <1>1, <1>2 DEF PlaceSound, NeedsArm, Moves
<1>4. CallSound(c)'
  BY <1>1, <1>2 DEF CallSound, Underway
<1>5. FormatSound(c)'
  BY <1>1, <1>2 DEF FormatSound, Underway
<1>6. /\ arm' \in Session \cup {Nobody}
      /\ \A d \in Session \ {c} : arm = d => arm' = d
  BY <1>1 DEF TypeOK
<1>7. /\ OnePlaceEach' /\ place' \in [Tape -> Place]
      /\ troubles' \in 0 .. MaxTroubles /\ hasty' \subseteq Tape
  BY <1>1 DEF OnePlaceEach, TypeOK
<1>. QED
  BY <1>3, <1>4, <1>5, <1>6, <1>7, GoOnIsSound DEF Sound, Pcs

LEMMA CleanWorksIsSound ==
  ASSUME IInv, NEW c \in Session, CleanWorks(c), Watch
  PROVE  IInv'
<1>1. /\ script[c] # <<>> /\ pc[c] = "act" /\ call \in [Session -> LocalVars]
  BY AtWork DEF CleanWorks
<1>2. /\ Op(c) = "clean" /\ Goto(c, "status") /\ UNCHANGED <<arm, call>>
      /\ UNCHANGED <<database, script, place, location, status, cache, events, troubles,
                     unlogged, hasty>>
  BY DEF CleanWorks, catalogue, history
<1>. QED
  BY <1>1, <1>2, ForwardIsSound DEF NeedsArm, Moves

LEMMA UnlockWorksIsSound ==
  ASSUME IInv, NEW c \in Session, UnlockWorks(c), Watch
  PROVE  IInv'
<1>1. /\ script[c] # <<>> /\ pc[c] = "act" /\ call \in [Session -> LocalVars]
  BY AtWork DEF UnlockWorks
<1>2. /\ Op(c) = "unlock" /\ Goto(c, "commit") /\ UNCHANGED <<arm, call>>
      /\ UNCHANGED <<database, script, place, location, status, cache, events, troubles,
                     unlogged, hasty>>
  BY DEF UnlockWorks, catalogue, history
<1>. QED
  BY <1>1, <1>2, ForwardIsSound DEF Moves

LEMMA MkltfsIsSound ==
  ASSUME IInv, NEW c \in Session, Mkltfs(c), Watch
  PROVE  IInv'
<1>1. /\ script[c] # <<>> /\ pc[c] = "act"
      /\ call \in [Session -> LocalVars] /\ call[c] \in LocalVars
  BY AtWork DEF Mkltfs
<1>2. PICK t \in In(Current(c).drive) : call' = [call EXCEPT ![c].moved = t]
  BY DEF Mkltfs
<1>3. /\ Op(c) = "format" /\ Goto(c, "commit") /\ UNCHANGED arm
      /\ UNCHANGED <<database, script, place, location, status, cache, events, troubles,
                     unlogged, hasty>>
  BY DEF Mkltfs, catalogue, history
<1>4. /\ call'[c] = [call[c] EXCEPT !.moved = t] /\ t \in Tape
      /\ \A d \in Session \ {c} : call'[d] = call[d]
  BY <1>1, <1>2 DEF In
<1>5. /\ call'[c] \in LocalVars /\ call'[c].tape = call[c].tape
      /\ call'[c].slot = call[c].slot /\ call'[c].state = call[c].state
  BY <1>1, <1>4 DEF LocalVars
<1>6. call' \in [Session -> LocalVars]
  BY <1>1, <1>2, <1>5
<1>. QED
  BY <1>1, <1>3, <1>4, <1>5, <1>6, ForwardIsSound DEF Moves

LEMMA ReadStatusIsSound ==
  ASSUME IInv, NEW c \in Session, ReadStatus(c), Watch
  PROVE  IInv'
<1>1. /\ script[c] # <<>> /\ pc[c] = "status" /\ PlaceSound(c)
      /\ call \in [Session -> LocalVars] /\ call[c] \in LocalVars
      /\ place \in [Tape -> Place]
  BY AtWork DEF ReadStatus
<1>2. /\ call' = [call EXCEPT ![c].snapshot = place]
      /\ Goto(c, "sync") /\ UNCHANGED arm
      /\ UNCHANGED <<database, script, place, location, status, cache, events, troubles,
                     unlogged, hasty>>
  BY DEF ReadStatus, catalogue, history
<1>3. /\ call'[c] = [call[c] EXCEPT !.snapshot = place]
      /\ \A d \in Session \ {c} : call'[d] = call[d]
  BY <1>1, <1>2
<1>4. /\ call'[c] \in LocalVars /\ call'[c].tape = call[c].tape
      /\ call'[c].slot = call[c].slot /\ call'[c].state = call[c].state
      /\ call'[c].moved = call[c].moved
  BY <1>1, <1>3 DEF LocalVars
<1>5. call' \in [Session -> LocalVars]
  BY <1>1, <1>2, <1>4
<1>6. Op(c) \in NeedsArm \cup {"inventory"}
  BY <1>1 DEF PlaceSound
<1>. QED
  BY <1>1, <1>2, <1>3, <1>4, <1>5, <1>6, ForwardIsSound

LEMMA SyncIsSound ==
  ASSUME IInv, NEW c \in Session, Sync(c), Watch
  PROVE  IInv'
<1>1. /\ script[c] # <<>> /\ pc[c] = "sync"
      /\ call \in [Session -> LocalVars] /\ call[c] \in LocalVars
  BY AtWork DEF Sync
<1>2. /\ call' = [call EXCEPT ![c].wrote = "slots"]
      /\ Goto(c, "commit") /\ arm' = IF arm = c THEN Nobody ELSE arm
      /\ UNCHANGED <<database, script, place, location, status, cache, events, troubles,
                     unlogged, hasty>>
  BY DEF Sync, catalogue, history
<1>3. /\ call'[c] = [call[c] EXCEPT !.wrote = "slots"]
      /\ \A d \in Session \ {c} : call'[d] = call[d]
  BY <1>1, <1>2
<1>4. /\ call'[c] \in LocalVars /\ call'[c].tape = call[c].tape
      /\ call'[c].slot = call[c].slot /\ call'[c].state = call[c].state
      /\ call'[c].moved = call[c].moved
  BY <1>1, <1>3 DEF LocalVars
<1>5. call' \in [Session -> LocalVars]
  BY <1>1, <1>2, <1>4
<1>. QED
  BY <1>1, <1>2, <1>3, <1>4, <1>5, ForwardIsSound

LEMMA BlockIsSound ==
  ASSUME IInv, NEW c \in Session, Block(c), Watch
  PROVE  IInv'
<1>1. /\ script[c] # <<>> /\ pc[c] = "sync" /\ PlaceSound(c)
      /\ call \in [Session -> LocalVars]
  BY AtWork DEF Block
<1>2. /\ Goto(c, "blocked") /\ UNCHANGED <<arm, call>>
      /\ UNCHANGED <<database, script, place, location, status, cache, events, troubles,
                     unlogged, hasty>>
  BY DEF Block, catalogue, history
<1>3. Op(c) \in NeedsArm \cup {"inventory"}
  BY <1>1 DEF PlaceSound
<1>. QED
  BY <1>1, <1>2, <1>3, ForwardIsSound

(* Failures of the hardware. *)
LEMMA CleanFailsIsSound ==
  ASSUME IInv, NEW c \in Session, CleanFails(c), Watch
  PROVE  IInv'
<1>1. /\ script[c] # <<>> /\ pc[c] = "act"
      /\ CallHasArguments(Current(c)) /\ PlaceSound(c)
      /\ place \in [Tape -> Place] /\ troubles \in 0 .. MaxTroubles /\ OnePlaceEach
  BY AtWork DEF CleanFails
<1>2. PICK moved \in {NoTape} \cup In(Current(c).slot) :
        /\ \/ /\ In(Current(c).slot) \cap Cleaning = {} \/ In(Current(c).drive) # {}
              /\ moved = NoTape /\ UNCHANGED <<place, troubles>>
           \/ Trouble /\ moved = NoTape /\ UNCHANGED place
           \/ /\ Trouble /\ moved # NoTape /\ In(Current(c).drive) = {}
              /\ place' = [place EXCEPT ![moved] = Current(c).drive]
        /\ call' = [call EXCEPT ![c] = Blank]
        /\ FailEvent(c, moved)
  BY DEF CleanFails
<1>3. /\ Op(c) = "clean" /\ arm = c /\ Current(c).drive \in Place
      /\ moved \in Tape \cup {NoTape}
  BY <1>1 DEF CleanFails, PlaceSound, NeedsArm, CallHasArguments, Op, Place, In
<1>4. troubles' \in 0 .. MaxTroubles
  BY <1>1, <1>2, TroubleIsBounded
<1>5. place' \in [Tape -> Place] /\ OnePlaceEach'
  <2>1. CASE UNCHANGED place
    BY <1>1, <2>1 DEF OnePlaceEach
  <2>2. CASE /\ moved # NoTape /\ In(Current(c).drive) = {}
             /\ place' = [place EXCEPT ![moved] = Current(c).drive]
    BY <1>3, <2>2, MoveKeepsPlaces
  <2>. QED
    BY <1>2, <2>1, <2>2
<1>. QED
  BY <1>1, <1>2, <1>3, <1>4, <1>5, FailIsSound

LEMMA ActFailsIsSound ==
  ASSUME IInv, NEW c \in Session, ActFails(c), Watch
  PROVE  IInv'
<1>1. /\ script[c] # <<>> /\ place \in [Tape -> Place]
      /\ troubles \in 0 .. MaxTroubles /\ OnePlaceEach
  BY AtWork DEF ActFails
<1>2. /\ call' = [call EXCEPT ![c] = Blank] /\ FailEvent(c, NoTape) /\ UNCHANGED place
      /\ Trouble \/ UNCHANGED troubles
  BY DEF ActFails
<1>3. troubles' \in 0 .. MaxTroubles
  BY <1>1, <1>2, TroubleIsBounded
<1>4. OnePlaceEach'
  BY <1>1, <1>2 DEF OnePlaceEach
<1>. QED
  BY <1>1, <1>2, <1>3, <1>4, FailIsSound

LEMMA ReadStatusFailsIsSound ==
  ASSUME IInv, NEW c \in Session, ReadStatusFails(c), Watch
  PROVE  IInv'
<1>1. /\ script[c] # <<>> /\ place \in [Tape -> Place] /\ call[c] \in LocalVars
      /\ troubles \in 0 .. MaxTroubles /\ OnePlaceEach
  BY AtWork DEF ReadStatusFails
<1>2. /\ call' = [call EXCEPT ![c] = Blank] /\ FailEvent(c, call[c].moved)
      /\ UNCHANGED place /\ Trouble
  BY DEF ReadStatusFails
<1>3. troubles' \in 0 .. MaxTroubles
  BY <1>1, <1>2, TroubleIsBounded
<1>4. OnePlaceEach' /\ call[c].moved \in Tape \cup {NoTape}
  BY <1>1, <1>2 DEF OnePlaceEach, LocalVars
<1>. QED
  BY <1>1, <1>2, <1>3, <1>4, FailIsSound

(* Exceptions. *)
LEMMA ExceptionsAreSound ==
  ASSUME IInv, NEW c \in Session, Watch,
         \/ Refuse(c) \/ LockTimesOut(c) \/ RetireUnknown(c) \/ Conflict(c)
         \/ CommitFails(c)
  PROVE  IInv'
<1>1. /\ script[c] # <<>> /\ troubles \in 0 .. MaxTroubles
      /\ \E goesOn \in BOOLEAN : Abandon(c, goesOn)
      /\ Trouble \/ UNCHANGED troubles
  <2>1. CASE Refuse(c)
    BY <2>1, AtWork DEF Refuse
  <2>2. CASE LockTimesOut(c)
    BY <2>2, AtWork DEF LockTimesOut
  <2>3. CASE RetireUnknown(c)
    BY <2>3, AtWork DEF RetireUnknown
  <2>4. CASE Conflict(c)
    BY <2>4, AtWork DEF Conflict
  <2>5. CASE CommitFails(c)
    BY <2>5, AtWork DEF CommitFails
  <2>. QED
    BY <2>1, <2>2, <2>3, <2>4, <2>5
<1>2. troubles' \in 0 .. MaxTroubles
  BY <1>1, TroubleIsBounded
<1>. QED
  BY <1>1, <1>2, AbandonIsSound

(* What a commit makes of the rows. *)
LEMMA RowsAfterCommit ==
  ASSUME IInv, NEW c \in Session, At(c, "commit"),
         location' = LocationAfter(c), status' = StatusAfter(c)
  PROVE  /\ location' \in [Tape -> Place \cup {Nowhere}] /\ status' \in [Tape -> Status]
         /\ RowsHaveStatus' /\ Registered \subseteq Registered'
         /\ \A t \in Tape : status'[t] = "active" => status[t] = "active"
<1>1. /\ CallSound(c) /\ pc[c] = "commit" /\ call[c] \in LocalVars
      /\ location \in [Tape -> Place \cup {Nowhere}] /\ status \in [Tape -> Status]
  BY AtWork
<1>2. \A t \in Tape : location[t] = Nowhere <=> status[t] = "unknown"
  BY DEF IInv, RowsHaveStatus
<1>3. SUFFICES ASSUME NEW t \in Tape
               PROVE  /\ location'[t] \in Place \cup {Nowhere} /\ status'[t] \in Status
                      /\ location'[t] = Nowhere <=> status'[t] = "unknown"
                      /\ location[t] # Nowhere => location'[t] # Nowhere
                      /\ status'[t] = "active" => status[t] = "active"
  <2>1. /\ location' = [t \in Tape |-> location'[t]]
        /\ status' = [t \in Tape |-> status'[t]]
    BY DEF LocationAfter, StatusAfter
  <2>. QED
    BY <1>3, <2>1 DEF RowsHaveStatus, Registered
<1>4. /\ location'[t] = IF t \in NewTapes(c) THEN call[c].snapshot[t]
                        ELSE IF Op(c) \in Moves /\ t = call[c].tape /\ Target(c) # call[c].seen
                        THEN Target(c)
                        ELSE location[t]
      /\ status'[t] = IF t \in NewTapes(c) THEN "scratch"
                      ELSE IF t # call[c].tape THEN status[t]
                      ELSE IF Op(c) = "retire" THEN "retired"
                      ELSE IF Op(c) = "format" /\ call[c].state # "scratch" THEN "scratch"
                      ELSE status[t]
  BY DEF LocationAfter, StatusAfter
<1>5. Nowhere \notin Place
  BY Places DEF Place
<1>6. CASE t \in NewTapes(c)
  <2>1. call[c].snapshot[t] \in Place
    BY <1>1 DEF LocalVars
  <2>. QED
    BY <1>4, <1>5, <1>6, <2>1 DEF Status
<1>7. CASE t \notin NewTapes(c) /\ t # call[c].tape
  BY <1>1, <1>2, <1>4, <1>7
<1>8. CASE t \notin NewTapes(c) /\ t = call[c].tape
  <2>1. location[t] # Nowhere /\ status[t] # "unknown"
    BY <1>1, <1>2, <1>8, TapeIds DEF CallSound, Registered
  <2>2. Op(c) \in Moves => Target(c) \in Place
    BY <1>1 DEF CallSound, Underway
  <2>3. location'[t] \in Place
    BY <1>1, <1>4, <1>8, <2>1, <2>2
  <2>4. status'[t] \in Status /\ status'[t] # "unknown"
    BY <1>1, <1>4, <1>8, <2>1 DEF Status
  <2>5. status'[t] = "active" => status[t] = "active"
    BY <1>4, <1>8
  <2>. QED
    BY <1>5, <2>1, <2>3, <2>4, <2>5
<1>. QED
  BY <1>6, <1>7, <1>8

LEMMA CommitIsSound ==
  ASSUME IInv, NEW c \in Session, Commit(c), Watch
  PROVE  IInv'
<1>1. /\ script[c] # <<>> /\ pc[c] = "commit" /\ At(c, "commit")
      /\ CallSound(c) /\ call[c] \in LocalVars /\ Op(c) \in Ops
  BY AtWork DEF Commit
<1>2. /\ location' = LocationAfter(c) /\ status' = StatusAfter(c)
      /\ cache' = IF Wrote(c) THEN call[c].snapshot ELSE cache
      /\ events' = events \cup {Event(c, Verdict(c), call[c].moved)}
      /\ Leave(c, TRUE, "conflict") /\ call' = [call EXCEPT ![c] = Blank]
      /\ UNCHANGED <<database, place, troubles, unlogged, hasty>>
  BY DEF Commit, history
<1>3. TypeOK /\ OnePlaceEach /\ LogIsTrue
  BY DEF IInv
<1>4. /\ script' \in [Session -> Seq(Calls)] /\ arm' \in Session \cup {Nobody}
      /\ pc' \in [Session -> Pcs] /\ call' \in [Session -> LocalVars]
      /\ Sound(c)' /\ Alone(c)
      /\ \A d \in Session \ {c} : arm = d => arm' = d
  BY <1>1, <1>2, LeaveIsSound
<1>5. /\ location' \in [Tape -> Place \cup {Nowhere}] /\ status' \in [Tape -> Status]
      /\ RowsHaveStatus' /\ Registered \subseteq Registered'
      /\ \A t \in Tape : status'[t] = "active" => status[t] = "active"
  BY <1>1, <1>2, RowsAfterCommit
<1>6. Event(c, Verdict(c), call[c].moved) \in
        [op : Ops, tape : Tape \cup {NoTape}, result : {"success", "error", "pending"},
         moved : Tape \cup {NoTape}]
  BY <1>1 DEF Event, Verdict, LocalVars
<1>7. TypeOK'
  <2>1. /\ cache' \in [Tape -> Place] /\ disturbed' \subseteq Session
        /\ events' \subseteq [op : Ops, tape : Tape \cup {NoTape},
                              result : {"success", "error", "pending"},
                              moved : Tape \cup {NoTape}]
    BY <1>1, <1>2, <1>3, <1>6 DEF TypeOK, Watch, LocalVars
  <2>. QED
    BY <1>2, <1>3, <1>4, <1>5, <2>1 DEF TypeOK, Pcs, LocalVars
<1>8. LogIsTrue'
  <2>1. Op(c) \in Moves /\ call[c].tape # NoTape => call[c].moved = call[c].tape
    BY <1>1 DEF CallSound
  <2>. QED
    BY <1>2, <1>3, <2>1 DEF LogIsTrue, Event
<1>9. Respects(c) /\ OnePlaceEach'
  BY <1>2, <1>3, <1>4, <1>5 DEF Respects, OnePlaceEach
<1>. QED
  BY <1>4, <1>5, <1>7, <1>8, <1>9, StepIsSound DEF Facts
-----------------------------------------------------------------------------
LEMMA InitIsSound == Init => IInv
<1> SUFFICES ASSUME Init
             PROVE  IInv
  OBVIOUS
<1>1. /\ script \in [Session -> Seq(Calls)] /\ place = Home
      /\ location = [t \in Tape |-> IF FirstStatus[t] = "unknown" THEN Nowhere ELSE Home[t]]
      /\ status = FirstStatus /\ events = {}
      /\ pc = [c \in Session |-> IF script[c] = <<>> THEN "done" ELSE First(Op(c))]
      /\ call = [c \in Session |-> Blank]
  BY ScriptsAreCalls DEF Init
<1>2. ASSUME NEW c \in Session
      PROVE  /\ pc[c] \in Pcs /\ call[c] \in LocalVars
             /\ PlaceSound(c) /\ CallSound(c) /\ FormatSound(c)
  <2>1. script[c] # <<>> => Op(c) \in Ops
    <3>1. HAVE script[c] # <<>>
    <3>2. Head(script[c]) \in Calls
      BY <1>1, <3>1, HeadTailProperties
    <3>. QED
      BY <3>2, CallsHaveArguments DEF CallHasArguments, Op, Current
  <2>2. /\ pc[c] = IF script[c] = <<>> THEN "done" ELSE First(Op(c))
        /\ call[c] = Blank
    BY <1>1
  <2>3. pc[c] \in Pcs /\ PlaceSound(c)
    BY <2>1, <2>2 DEF PlaceSound, Pcs, First, NeedsArm, Moves, Ops
  <2>4. script[c] # <<>> /\ pc[c] = "log" => Op(c) \in {"inventory", "retire"}
    BY <2>1, <2>2 DEF First, Ops, Moves
  <2>5. pc[c] \in Underway => pc[c] = "log" /\ script[c] # <<>>
    BY <2>1, <2>2 DEF First, Ops, Moves, Underway
  <2>6. CallSound(c) /\ FormatSound(c)
    BY <2>2, <2>4, <2>5 DEF CallSound, FormatSound, Underway, Blank, Moves
  <2>. QED
    BY <2>2, <2>3, <2>6, BlankIsTyped
<1>3. pc \in [Session -> Pcs] /\ call \in [Session -> LocalVars]
  BY <1>1, <1>2
<1>4. /\ place \in [Tape -> Place] /\ location \in [Tape -> Place \cup {Nowhere}]
      /\ status \in [Tape -> Status] /\ cache \in [Tape -> Place]
  BY <1>1, OneTapeEach, FirstRows DEF Init
<1>5. TypeOK
  BY <1>1, <1>3, <1>4, Backends, BoundIsNat DEF Init, TypeOK, Pcs, LocalVars
<1>6. OnePlaceEach /\ RowsHaveStatus /\ LogIsTrue /\ KnownStayKnown
  BY <1>1, OneTapeEach, Places DEF OnePlaceEach, RowsHaveStatus, LogIsTrue, Place,
     KnownStayKnown, Known, Registered
<1>. QED
  BY <1>2, <1>5, <1>6 DEF IInv

LEMMA NextIsSound == IInv /\ [Next]_vars => IInv'
<1> SUFFICES ASSUME IInv, [Next]_vars
             PROVE  IInv'
  OBVIOUS
<1>1. CASE UNCHANGED vars
  <2>1. /\ TypeOK' = TypeOK /\ OnePlaceEach' = OnePlaceEach
        /\ RowsHaveStatus' = RowsHaveStatus /\ LogIsTrue' = LogIsTrue
        /\ KnownStayKnown' = KnownStayKnown
    BY <1>1 DEF vars, catalogue, history, TypeOK, OnePlaceEach, RowsHaveStatus, LogIsTrue,
       KnownStayKnown, Known, Registered
  <2>2. \A c \in Session : PlaceSound(c)' = PlaceSound(c)
    BY <1>1 DEF vars, PlaceSound, Op, Current
  <2>3. \A c \in Session : CallSound(c)' = CallSound(c)
    BY <1>1 DEF vars, catalogue, CallSound, Op, Current, Source, Target, In, Registered
  <2>4. \A c \in Session : FormatSound(c)' = FormatSound(c)
    BY <1>1 DEF vars, catalogue, FormatSound, Op, Current, In
  <2>. QED
    BY <2>1, <2>2, <2>3, <2>4 DEF IInv
<1>2. ASSUME NEW c \in Session, Step(c) \/ Misfortune(c), Watch
      PROVE  IInv'
  BY <1>2, TakeArmIsSound, LookIsSound, LogIsSound, MoveIsSound, AttemptFailsIsSound,
     CleanWorksIsSound, CleanFailsIsSound, UnlockWorksIsSound, MkltfsIsSound,
     ActFailsIsSound, ReadStatusIsSound, ReadStatusFailsIsSound, SyncIsSound,
     BlockIsSound, CommitIsSound, ExceptionsAreSound, Zenon DEF Step, Misfortune
<1>. QED
  BY <1>1, <1>2 DEF Next

LEMMA IInvHolds == Spec => []IInv
BY InitIsSound, NextIsSound, PTL DEF Spec

(* Whatever is done with the library, every variable keeps its type.       *)
THEOREM TypeCorrect == Spec => []TypeOK
<1>1. IInv => TypeOK
  BY DEF IInv
<1>. QED
  BY <1>1, IInvHolds, PTL

(* The event of a load or an unload that is recorded as successful names   *)
(* the cartridge that was moved, however many sessions there are.          *)
THEOREM LogTellsTheTruth == Spec => []LogIsTrue
<1>1. IInv => LogIsTrue
  BY DEF IInv
<1>. QED
  BY <1>1, IInvHolds, PTL

(* Nothing is put into a slot that unload_tape chose because it was free,  *)
(* until the arm brings its cartridge there.                               *)
THEOREM SlotsStayFree == Spec => []FreeSlotStaysFree
<1>1. IInv => FreeSlotStaysFree
  BY DEF IInv, FreeSlotStaysFree, CallSound, At
<1>. QED
  BY <1>1, IInvHolds, PTL

(* Only mkltfs wipes, only a commit changes the state of a tape, and       *)
(* nobody touches the local variables of another.                          *)
LEMMA WhoChangesWhat ==
  ASSUME TypeOK, NEW c \in Session, Step(c) \/ Misfortune(c)
  PROVE  /\ \A d \in Session \ {c} : call'[d] = call[d]
         /\ Commit(c) \/ status' = status
         /\ At(c, "act") /\ Op(c) = "format" => Mkltfs(c) \/ call'[c] = Blank
<1>1. call \in [Session -> LocalVars]
  BY DEF TypeOK, LocalVars
<1> USE DEF catalogue, At, Abandon, FailEvent
<1>2. CASE TakeArm(c) \/ Look(c) \/ Log(c)
  BY <1>1, <1>2 DEF TakeArm, Look, Log
<1>3. CASE Move(c)
  BY <1>1, <1>3 DEF Move, Moves
<1>4. CASE AttemptFails(c)
  BY <1>1, <1>4 DEF AttemptFails, Moves
<1>5. CASE CleanWorks(c) \/ CleanFails(c) \/ UnlockWorks(c)
  BY <1>1, <1>5 DEF CleanWorks, CleanFails, UnlockWorks
<1>6. CASE Mkltfs(c)
  BY <1>1, <1>6 DEF Mkltfs
<1>7. CASE ActFails(c)
  BY <1>1, <1>7 DEF ActFails
<1>8. CASE ReadStatus(c) \/ ReadStatusFails(c) \/ Sync(c) \/ Block(c)
  BY <1>1, <1>8 DEF ReadStatus, ReadStatusFails, Sync, Block
<1>9. CASE Refuse(c) \/ RetireUnknown(c) \/ Conflict(c) \/ LockTimesOut(c) \/ CommitFails(c)
  BY <1>1, <1>9 DEF Refuse, RetireUnknown, Conflict, LockTimesOut, CommitFails
<1>10. CASE Commit(c)
  BY <1>1, <1>10 DEF Commit
<1>. QED
  BY <1>2, <1>3, <1>4, <1>5, <1>6, <1>7, <1>8, <1>9, <1>10, Zenon DEF Step, Misfortune

(* mkltfs wipes the tape it was asked for, and none that is in use unless  *)
(* forced, as long as nobody exchanges the cartridge after format_tape     *)
(* looked at it.                                                           *)
THEOREM FormatsWhatWasAsked == Spec => WipedAsAsked
<1> DEFINE Wiped ==
      \A c \in Session \ disturbed :
        At(c, "act") /\ Op(c) = "format" /\ call'[c].moved # NoTape =>
          /\ call'[c].moved = Current(c).tape
          /\ Current(c).force \/ status[Current(c).tape] # "active"
<1>1. IInv /\ [Next]_vars => [Wiped]_vars
  <2> SUFFICES ASSUME IInv, Next, ~UNCHANGED vars,
                      NEW c \in Session, c \notin disturbed, At(c, "act"), Op(c) = "format",
                      call'[c].moved # NoTape
               PROVE  /\ call'[c].moved = Current(c).tape
                      /\ Current(c).force \/ status[Current(c).tape] # "active"
    OBVIOUS
  <2>1. PICK d \in Session : Step(d) \/ Misfortune(d)
    BY DEF Next
  <2>2. CallSound(c) /\ FormatSound(c) /\ OnePlaceEach /\ TypeOK
    BY DEF IInv
  <2>3. call[c].moved = NoTape
    BY <2>2 DEF At, CallSound, Moves
  <2>4. c = d
    BY <2>1, <2>2, <2>3, WhoChangesWhat
  <2>5. Mkltfs(c)
    BY <2>1, <2>2, <2>4, WhoChangesWhat DEF Blank
  <2>6. PICK t \in In(Current(c).drive) : call' = [call EXCEPT ![c].moved = t]
    BY <2>5 DEF Mkltfs
  <2>7. call'[c].moved = t
    BY <2>2, <2>6 DEF TypeOK
  <2>8. /\ ~Current(c).force => status[Current(c).tape] # "active"
        /\ Current(c).tape \in In(Current(c).drive)
    BY <2>2 DEF FormatSound, At, Underway
  <2>9. t = Current(c).tape
    BY <2>2, <2>8 DEF OnePlaceEach, In
  <2>. QED
    BY <2>7, <2>8, <2>9
<1>2. WipedAsAsked <=> [][Wiped]_vars
  BY DEF WipedAsAsked
<1>. QED
  BY <1>1, <1>2, IInvHolds, PTL DEF Spec

(* A retired tape stays retired, unless a format was forced.               *)
THEOREM RetiredTapesStay == Spec => RetiredStays
<1> DEFINE Stays ==
      \A t \in Tape :
        status[t] = "retired" /\ status'[t] # "retired"
          => \E c \in Session : At(c, "commit") /\ Op(c) = "format" /\ Current(c).force
<1>1. IInv /\ [Next]_vars => [Stays]_vars
  <2> SUFFICES ASSUME IInv, Next, ~UNCHANGED vars,
                      NEW t \in Tape, status[t] = "retired", status'[t] # "retired"
               PROVE  \E c \in Session :
                        At(c, "commit") /\ Op(c) = "format" /\ Current(c).force
    OBVIOUS
  <2>1. PICK c \in Session : Step(c) \/ Misfortune(c)
    BY DEF Next
  <2>2. CallSound(c) /\ FormatSound(c) /\ RowsHaveStatus /\ TypeOK
    BY DEF IInv
  <2>3. Commit(c)
    BY <2>1, <2>2, WhoChangesWhat
  <2>4. At(c, "commit") /\ status' = StatusAfter(c)
    BY <2>3 DEF Commit
  <2>5. t \notin NewTapes(c)
    BY <2>2 DEF NewTapes, Registered, RowsHaveStatus
  <2>6. t = call[c].tape /\ Op(c) = "format" /\ call[c].state # "scratch"
    BY <2>4, <2>5 DEF StatusAfter
  <2>7. Current(c).force
    <3>1. call[c].tape # NoTape
      BY <2>6, TapeIds
    <3>. QED
      BY <2>2, <2>4, <2>6, <3>1 DEF FormatSound, At, Underway
  <2>. QED
    BY <2>4, <2>6, <2>7
<1>2. RetiredStays <=> [][Stays]_vars
  BY DEF RetiredStays
<1>. QED
  BY <1>1, <1>2, IInvHolds, PTL DEF Spec
-----------------------------------------------------------------------------
(* The catalogue.  A step begins a call, goes on with it, or ends it.      *)

Ends(c) == call'[c] = Blank /\ pc'[c] \in {"arm", "look", "log", "done"}
Begins(c) == TakeArm(c) \/ Look(c) \/ Log(c)
WorksOn(c) ==
  \/ Move(c) \/ (AttemptFails(c) /\ Again(c)) \/ CleanWorks(c) \/ UnlockWorks(c)
  \/ Mkltfs(c) \/ ReadStatus(c) \/ Sync(c) \/ Block(c)
Fails(c) ==
  /\ \/ AttemptFails(c) /\ ~Again(c)
     \/ CleanFails(c) \/ ActFails(c) \/ ReadStatusFails(c)
  /\ \E moved \in Tape \cup {NoTape} :
       /\ FailEvent(c, moved)
       /\ moved = call[c].moved \/ Op(c) \in NeedsArm
       /\ place' # place => moved # NoTape /\ \E p \in Place : place' = [place EXCEPT ![moved] = p]
Raises(c) ==
  /\ Refuse(c) \/ LockTimesOut(c) \/ RetireUnknown(c) \/ Conflict(c) \/ CommitFails(c)
  /\ \E goesOn \in BOOLEAN : Abandon(c, goesOn)

LEMMA StepKinds ==
  ASSUME IInv, NEW c \in Session, Step(c) \/ Misfortune(c)
  PROVE  Begins(c) \/ WorksOn(c) \/ Fails(c) \/ Raises(c) \/ Commit(c)
<1>1. CASE AttemptFails(c) /\ ~Again(c)
  <2>1. PICK moved \in {call[c].moved} \cup In(Source(c)) :
          /\ \/ moved = call[c].moved /\ UNCHANGED place
             \/ moved \in In(Source(c)) /\ place' = [place EXCEPT ![moved] = Target(c)]
          /\ FailEvent(c, moved)
    BY <1>1 DEF AttemptFails
  <2>2. /\ call[c] \in LocalVars /\ CallSound(c) /\ pc[c] = "act" /\ Op(c) \in Moves
    BY <1>1, AtWork DEF AttemptFails
  <2>3. Target(c) \in Place /\ moved \in Tape \cup {NoTape} /\ Op(c) \in NeedsArm
    BY <2>1, <2>2 DEF CallSound, Underway, LocalVars, In, NeedsArm
  <2>4. place' # place => moved # NoTape /\ place' = [place EXCEPT ![moved] = Target(c)]
    BY <2>1, TapeIds DEF In
  <2>. QED
    BY <1>1, <2>1, <2>3, <2>4 DEF Fails
<1>2. CASE CleanFails(c)
  <2>1. PICK moved \in {NoTape} \cup In(Current(c).slot) :
          /\ \/ moved = NoTape /\ UNCHANGED place
             \/ moved # NoTape /\ place' = [place EXCEPT ![moved] = Current(c).drive]
          /\ FailEvent(c, moved)
    BY <1>2 DEF CleanFails
  <2>2. CallHasArguments(Current(c)) /\ Op(c) = "clean"
    BY <1>2, AtWork DEF CleanFails
  <2>3. Current(c).drive \in Place /\ moved \in Tape \cup {NoTape} /\ Op(c) \in NeedsArm
    BY <2>1, <2>2 DEF CallHasArguments, Op, In, NeedsArm, Place
  <2>. QED
    BY <1>2, <2>1, <2>3 DEF Fails
<1>3. CASE ActFails(c)
  <2>1. call[c].moved = NoTape /\ FailEvent(c, NoTape) /\ place' = place
    BY <1>3, AtWork DEF ActFails, CallSound, Moves
  <2>. QED
    BY <1>3, <2>1 DEF Fails
<1>4. CASE ReadStatusFails(c)
  <2>1. /\ FailEvent(c, call[c].moved) /\ place' = place
        /\ call[c].moved \in Tape \cup {NoTape}
    BY <1>4, AtWork DEF ReadStatusFails, LocalVars
  <2>. QED
    BY <1>4, <2>1 DEF Fails
<1>5. CASE \/ Refuse(c) \/ LockTimesOut(c) \/ RetireUnknown(c) \/ Conflict(c)
           \/ CommitFails(c)
  <2>1. \E goesOn \in BOOLEAN : Abandon(c, goesOn)
    BY <1>5 DEF Refuse, LockTimesOut, RetireUnknown, Conflict, CommitFails
  <2>. QED
    BY <1>5, <2>1 DEF Raises
<1>. QED
  BY <1>1, <1>2, <1>3, <1>4, <1>5, Zenon DEF Step, Misfortune, Begins, WorksOn

(* What each kind does.                                                    *)
LEMMA BeginsAlone ==
  ASSUME IInv, NEW c \in Session, Begins(c)
  PROVE  /\ script[c] # <<>> /\ Alone(c)
         /\ UNCHANGED <<database, script, place, location, cache, events, troubles, unlogged>>
         /\ hasty \subseteq hasty'
         /\ pc[c] \in {"arm", "look", "log"}
         /\ \/ pc'[c] \in {"look", "log"} /\ call'[c].wrote = call[c].wrote
            \/ pc'[c] \in {"act", "status", "commit"} /\ call'[c].wrote = "event" /\ MayWrite(c)
<1>1. call \in [Session -> LocalVars] /\ pc \in [Session -> Pcs] /\ call[c] \in LocalVars
  BY DEF IInv, TypeOK, Pcs, LocalVars
<1>2. CASE TakeArm(c)
  BY <1>1, <1>2 DEF TakeArm, At, Goto, Alone, catalogue, history
<1>3. CASE Look(c)
  <2>1. /\ script[c] # <<>> /\ pc[c] = "look" /\ pc' = [pc EXCEPT ![c] = "log"]
        /\ UNCHANGED <<database, script, place, location, cache, events, troubles, unlogged>>
        /\ hasty \subseteq hasty'
    BY <1>3 DEF Look, At, Goto, catalogue
  <2>2. /\ \A d \in Session \ {c} : call'[d] = call[d]
        /\ call'[c].wrote = call[c].wrote
    BY <1>1, <1>3 DEF Look, LocalVars
  <2>. QED
    BY <1>1, <2>1, <2>2 DEF Alone
<1>4. CASE Log(c)
  <2>1. /\ script[c] # <<>> /\ pc[c] = "log" /\ pc' = [pc EXCEPT ![c] = AfterLog(Op(c))]
        /\ UNCHANGED <<database, script, place, location, cache, events, troubles, unlogged>>
        /\ UNCHANGED hasty /\ MayWrite(c)
    BY <1>4 DEF Log, At, Goto, catalogue, history
  <2>2. /\ \A d \in Session \ {c} : call'[d] = call[d]
        /\ call'[c].wrote = "event"
    BY <1>1, <1>4 DEF Log, LocalVars
  <2>3. AfterLog(Op(c)) \in {"act", "status", "commit"}
    BY DEF AfterLog
  <2>. QED
    BY <1>1, <2>1, <2>2, <2>3 DEF Alone
<1>. QED
  BY <1>2, <1>3, <1>4 DEF Begins

LEMMA WorksAlone ==
  ASSUME IInv, NEW c \in Session, WorksOn(c)
  PROVE  /\ script[c] # <<>> /\ Alone(c)
         /\ UNCHANGED <<database, script, location, cache, events, unlogged, hasty>>
         /\ pc[c] \in {"act", "status", "sync"}
         /\ pc'[c] \in {"act", "status", "sync", "commit"} \/ (pc'[c] = "blocked" /\ Block(c))
         /\ call'[c].tape = call[c].tape /\ call'[c].seen = call[c].seen
         /\ call'[c].slot = call[c].slot
         /\ call'[c].wrote = IF Sync(c) THEN "slots" ELSE call[c].wrote
         /\ call'[c].snapshot = IF ReadStatus(c) THEN place ELSE call[c].snapshot
<1>1. call \in [Session -> LocalVars] /\ pc \in [Session -> Pcs] /\ call[c] \in LocalVars
  BY DEF IInv, TypeOK, Pcs, LocalVars
<1> USE DEF At, Goto, catalogue, history
<1>2. CASE Move(c)
  <2>1. ~Sync(c) /\ ~ReadStatus(c)
    BY <1>2 DEF Move, Sync, ReadStatus
  <2>. QED
    BY <1>1, <1>2, <2>1 DEF Move, Alone, LocalVars
<1>3. CASE AttemptFails(c) /\ Again(c)
  <2>1. ~Sync(c) /\ ~ReadStatus(c)
    BY <1>3 DEF AttemptFails, Sync, ReadStatus
  <2>2. PICK moved : /\ call' = [call EXCEPT ![c].tries = @ + 1, ![c].moved = moved]
                     /\ UNCHANGED <<database, script, arm, catalogue, pc, history>>
    BY <1>3 DEF AttemptFails
  <2>3. script[c] # <<>> /\ pc[c] = "act"
    BY <1>3 DEF AttemptFails
  <2>. QED
    BY <1>1, <2>1, <2>2, <2>3 DEF Alone, LocalVars
<1>4. CASE CleanWorks(c) \/ UnlockWorks(c)
  <2>1. ~Sync(c) /\ ~ReadStatus(c)
    BY <1>4 DEF CleanWorks, UnlockWorks, Sync, ReadStatus
  <2>. QED
    BY <1>1, <1>4, <2>1 DEF CleanWorks, UnlockWorks, Alone
<1>5. CASE Mkltfs(c)
  <2>1. ~Sync(c) /\ ~ReadStatus(c)
    BY <1>5 DEF Mkltfs, Sync, ReadStatus
  <2>. QED
    BY <1>1, <1>5, <2>1 DEF Mkltfs, Alone, LocalVars
<1>6. CASE ReadStatus(c)
  <2>1. ~Sync(c)
    BY <1>6 DEF Sync, ReadStatus
  <2>. QED
    BY <1>1, <1>6, <2>1 DEF ReadStatus, Alone, LocalVars
<1>7. CASE Sync(c)
  <2>1. ~ReadStatus(c)
    BY <1>7 DEF Sync, ReadStatus
  <2>. QED
    BY <1>1, <1>7, <2>1 DEF Sync, Alone, LocalVars
<1>8. CASE Block(c)
  <2>1. ~Sync(c) /\ ~ReadStatus(c)
    BY <1>8 DEF Block, Sync, ReadStatus
  <2>. QED
    BY <1>1, <1>8, <2>1 DEF Block, Alone
<1>. QED
  BY <1>2, <1>3, <1>4, <1>5, <1>6, <1>7, <1>8 DEF WorksOn

LEMMA EndsAlone ==
  ASSUME IInv, NEW c \in Session, Fails(c) \/ Raises(c) \/ Commit(c)
  PROVE  /\ script[c] # <<>> /\ Alone(c) /\ Ends(c) /\ UNCHANGED <<database, hasty>>
         /\ ~Commit(c) => UNCHANGED <<location, cache>>
         /\ events \subseteq events' /\ unlogged \subseteq unlogged'
<1>1. CASE Fails(c)
  <2>1. PICK moved : FailEvent(c, moved)
    BY <1>1 DEF Fails
  <2>2. script[c] # <<>> /\ call' = [call EXCEPT ![c] = Blank]
    BY <1>1 DEF Fails, AttemptFails, CleanFails, ActFails, ReadStatusFails, At
  <2>3. PICK goesOn \in BOOLEAN : Leave(c, goesOn, "sync")
    BY <2>1 DEF FailEvent
  <2>4. Alone(c) /\ Ends(c)
    BY <2>2, <2>3, LeaveIsSound DEF Ends
  <2>. QED
    BY <2>1, <2>2, <2>4 DEF FailEvent, history
<1>2. CASE Raises(c)
  <2>1. PICK goesOn \in BOOLEAN : Abandon(c, goesOn)
    BY <1>2 DEF Raises
  <2>2. script[c] # <<>> /\ call' = [call EXCEPT ![c] = Blank] /\ Leave(c, goesOn, "sync")
    BY <1>2, <2>1 DEF Raises, Refuse, LockTimesOut, RetireUnknown, Conflict, CommitFails,
       At, Abandon
  <2>3. Alone(c) /\ Ends(c)
    BY <2>2, LeaveIsSound DEF Ends
  <2>. QED
    BY <2>1, <2>2, <2>3 DEF Abandon, catalogue
<1>3. CASE Commit(c)
  <2>1. /\ script[c] # <<>> /\ call' = [call EXCEPT ![c] = Blank]
        /\ Leave(c, TRUE, "conflict")
    BY <1>3 DEF Commit, At
  <2>2. Alone(c) /\ Ends(c)
    BY <2>1, LeaveIsSound DEF Ends
  <2>. QED
    BY <1>3, <2>1, <2>2 DEF Commit, history
<1>. QED
  BY <1>1, <1>2, <1>3

(* Transactions. *)
LEMMA WroteStaysSound ==
  ASSUME IInv, JInv, NEW c \in Session, Step(c) \/ Misfortune(c), NEW d \in Session
  PROVE  WroteSound(d)'
<1>1. WroteSound(c) /\ WroteSound(d)
  BY DEF JInv
<1>2. Begins(c) \/ WorksOn(c) \/ Fails(c) \/ Raises(c) \/ Commit(c)
  BY StepKinds
<1>3. Alone(c)
  BY <1>2, BeginsAlone, WorksAlone, EndsAlone
<1>4. CASE d # c
  BY <1>1, <1>3, <1>4 DEF Alone, WroteSound, Writing
<1>5. CASE d = c /\ Begins(c)
  BY <1>1, <1>5, BeginsAlone DEF WroteSound, Writing
<1>6. CASE d = c /\ WorksOn(c)
  <2>1. /\ pc[c] \in {"act", "status", "sync"}
        /\ pc'[c] \in {"act", "status", "sync", "commit", "blocked"}
        /\ call'[c].wrote = IF Sync(c) THEN "slots" ELSE call[c].wrote
    BY <1>6, WorksAlone
  <2>2. Sync(c) => pc'[c] = "commit"
    BY DEF Sync, Goto, IInv, TypeOK
  <2>. QED
    BY <1>1, <1>6, <2>1, <2>2 DEF WroteSound, Writing
<1>7. CASE d = c /\ (Fails(c) \/ Raises(c) \/ Commit(c))
  BY <1>7, EndsAlone DEF WroteSound, Writing, Ends, Blank
<1>. QED
  BY <1>2, <1>4, <1>5, <1>6, <1>7

LEMMA OneWriterStays ==
  ASSUME IInv, JInv, NEW c \in Session, Step(c) \/ Misfortune(c)
  PROVE  OneWriter'
<1>1. Begins(c) \/ WorksOn(c) \/ Fails(c) \/ Raises(c) \/ Commit(c)
  BY StepKinds
<1>2. Alone(c) /\ database' = database
  BY <1>1, BeginsAlone, WorksAlone, EndsAlone
<1>3. SUFFICES ASSUME database = "sqlite"
               PROVE  /\ \A d \in Session : pc'[d] \notin {"blocked", "conflict"}
                      /\ \A d, e \in Session :
                           pc'[d] \in Writing /\ pc'[e] \in Writing => d = e
  BY <1>2 DEF OneWriter
<1>4. /\ \A d \in Session : pc[d] \notin {"blocked", "conflict"}
      /\ \A d, e \in Session : pc[d] \in Writing /\ pc[e] \in Writing => d = e
      /\ \A d \in Session : pc[d] \in Writing <=> call[d].wrote # "nothing"
  BY <1>3 DEF JInv, OneWriter, WroteSound
<1>5. \A d \in Session \ {c} : pc'[d] = pc[d]
  BY <1>2, <1>4 DEF Alone
<1>6. CASE pc'[c] \notin Writing
  BY <1>4, <1>5, <1>6 DEF Writing
<1>7. CASE WorksOn(c)
  <2>1. ~Block(c)
    BY <1>3 DEF Block, SlotsTaken
  <2>2. pc[c] \in Writing /\ pc'[c] \in {"act", "status", "sync", "commit"}
    BY <1>7, <2>1, WorksAlone DEF Writing
  <2>. QED
    BY <1>4, <1>5, <2>2 DEF Writing
<1>8. CASE Begins(c) /\ pc'[c] \in Writing
  <2>1. MayWrite(c) /\ pc'[c] \in {"act", "status", "commit"}
    BY <1>8, BeginsAlone DEF Writing
  <2>2. \A d \in Session \ {c} : pc[d] \notin Writing
    BY <1>3, <1>4, <2>1 DEF MayWrite
  <2>. QED
    BY <1>4, <1>5, <2>1, <2>2
<1>9. CASE Fails(c) \/ Raises(c) \/ Commit(c)
  BY <1>6, <1>9, EndsAlone DEF Ends, Writing
<1>. QED
  BY <1>1, <1>6, <1>7, <1>8, <1>9

(* Without troubles.                                                       *)
LEMMA NoTroubles ==
  ASSUME IInv, JInv, NEW c \in Session, Step(c) \/ Misfortune(c), troubles' = 0,
         database = "sqlite"
  PROVE  /\ troubles = 0
         /\ place' = place \/ (Move(c) /\ pc'[c] = "status")
         /\ Fails(c) => pc[c] = "act"
         /\ Raises(c) => pc[c] \in {"look", "log"} /\ unlogged' = unlogged
<1>1. troubles \in Nat /\ pc \in [Session -> Pcs]
  BY DEF IInv, TypeOK, Pcs
<1>2. ~Trouble
  BY <1>1 DEF Trouble
<1>3. Begins(c) \/ WorksOn(c) \/ Fails(c) \/ Raises(c) \/ Commit(c)
  BY StepKinds
<1>4. CASE Begins(c)
  BY <1>4, BeginsAlone DEF Fails, Raises, AttemptFails, CleanFails, ActFails,
     ReadStatusFails, Refuse, LockTimesOut, RetireUnknown, Conflict, CommitFails, At
<1>5. CASE WorksOn(c)
  <2>1. troubles' = troubles /\ (place' = place \/ (Move(c) /\ pc'[c] = "status"))
    BY <1>1, <1>2, <1>5 DEF WorksOn, Move, AttemptFails, CleanWorks, UnlockWorks, Mkltfs,
       ReadStatus, Sync, Block, Goto
  <2>2. Fails(c) => pc[c] = "act"
    BY <1>2 DEF Fails, AttemptFails, CleanFails, ActFails, ReadStatusFails, At
  <2>3. ~Raises(c)
    <3>1. pc[c] \in {"act", "status", "sync"}
      BY <1>5, WorksAlone
    <3>. QED
      BY <1>2, <3>1 DEF Raises, Refuse, LockTimesOut, RetireUnknown, Conflict,
         CommitFails, At
  <2>. QED
    BY <2>1, <2>2, <2>3
<1>6. CASE Fails(c)
  <2>1. pc[c] = "act" /\ troubles' = troubles /\ place' = place
    BY <1>2, <1>6 DEF Fails, AttemptFails, CleanFails, ActFails, ReadStatusFails, At
  <2>2. ~Raises(c)
    BY <1>2, <2>1 DEF Raises, Refuse, LockTimesOut, RetireUnknown, Conflict,
       CommitFails, At
  <2>. QED
    BY <2>1, <2>2
<1>7. CASE Raises(c)
  <2>1. pc[c] # "conflict"
    BY DEF JInv, OneWriter
  <2>2. pc[c] \in {"look", "log"} /\ troubles' = troubles
    BY <1>2, <1>7, <2>1 DEF Raises, Refuse, LockTimesOut, RetireUnknown, Conflict,
       CommitFails, At
  <2>3. call[c].moved = NoTape
    BY <2>2 DEF IInv, CallSound, Blank
  <2>4. unlogged' = unlogged /\ place' = place
    BY <1>7, <2>3 DEF Raises, Abandon
  <2>5. ~Fails(c)
    BY <1>2, <2>2 DEF Fails, AttemptFails, CleanFails, ActFails, ReadStatusFails, At
  <2>. QED
    BY <2>2, <2>4, <2>5
<1>8. CASE Commit(c)
  <2>1. pc[c] = "commit" /\ troubles' = troubles /\ place' = place
    BY <1>8 DEF Commit, At
  <2>2. ~Fails(c) /\ ~Raises(c)
    BY <1>2, <2>1 DEF Fails, AttemptFails, CleanFails, ActFails, ReadStatusFails,
       Raises, Refuse, LockTimesOut, RetireUnknown, Conflict, CommitFails, At
  <2>. QED
    BY <2>1, <2>2
<1>. QED
  BY <1>3, <1>4, <1>5, <1>6, <1>7, <1>8

(* The table library_slots. *)
LEMMA CacheStaysSound ==
  ASSUME IInv, JInv, NEW c \in Session, Step(c) \/ Misfortune(c)
  PROVE  CacheSound'
<1>1. Begins(c) \/ WorksOn(c) \/ Fails(c) \/ Raises(c) \/ Commit(c)
  BY StepKinds
<1>2. Alone(c) /\ database' = database
  BY <1>1, BeginsAlone, WorksAlone, EndsAlone
<1>3. SUFFICES ASSUME database = "sqlite", troubles' = 0
               PROVE  /\ unlogged' = {}
                      /\ (\A d \in Session : ~Dirty(d)') => cache' = place'
                      /\ \A d \in Session :
                           pc'[d] = "sync" \/ call'[d].wrote = "slots"
                             => call'[d].snapshot = place'
  BY <1>2 DEF CacheSound
<1>4. /\ troubles = 0 /\ (place' = place \/ (Move(c) /\ pc'[c] = "status"))
      /\ Fails(c) => pc[c] = "act"
      /\ Raises(c) => pc[c] \in {"look", "log"} /\ unlogged' = unlogged
  BY <1>3, NoTroubles
<1>5. /\ unlogged = {} /\ ((\A d \in Session : ~Dirty(d)) => cache = place)
      /\ \A d \in Session : pc[d] = "sync" \/ call[d].wrote = "slots"
                              => call[d].snapshot = place
      /\ \A d \in Session : pc[d] \notin {"blocked", "conflict"}
      /\ \A d, e \in Session : pc[d] \in Writing /\ pc[e] \in Writing => d = e
      /\ \A d \in Session : WroteSound(d)
  BY <1>3, <1>4 DEF JInv, CacheSound, OneWriter
<1>6. \A d \in Session \ {c} : pc'[d] = pc[d] /\ call'[d] = call[d]
  BY <1>2, <1>5 DEF Alone
<1>7. \A d \in Session \ {c} : Dirty(d)' <=> Dirty(d)
  BY <1>6 DEF Dirty
<1>8. pc[c] \in Writing =>
        \A d \in Session \ {c} : pc[d] # "sync" /\ call[d].wrote # "slots" /\ ~Dirty(d)
  BY <1>5 DEF WroteSound, Writing, Dirty
<1>9. CASE Begins(c)
  <2>1. /\ UNCHANGED <<place, cache, unlogged>> /\ pc[c] \in {"arm", "look", "log"}
        /\ pc'[c] # "sync" /\ call'[c].wrote \in {call[c].wrote, "event"}
    BY <1>9, BeginsAlone
  <2>2. ~Dirty(c) /\ call[c].wrote = "nothing"
    BY <1>5, <2>1 DEF WroteSound, Writing, Dirty
  <2>3. (\A d \in Session : ~Dirty(d)') => cache' = place'
    BY <1>5, <1>7, <2>1, <2>2
  <2>4. \A d \in Session : pc'[d] = "sync" \/ call'[d].wrote = "slots"
                             => call'[d].snapshot = place'
    BY <1>5, <1>6, <2>1, <2>2
  <2>. QED
    BY <1>5, <2>1, <2>3, <2>4
<1>10. CASE WorksOn(c)
  <2>1. /\ UNCHANGED <<cache, unlogged>> /\ pc[c] \in {"act", "status", "sync"}
        /\ call'[c].wrote = IF Sync(c) THEN "slots" ELSE call[c].wrote
        /\ call'[c].snapshot = IF ReadStatus(c) THEN place ELSE call[c].snapshot
    BY <1>10, WorksAlone
  <2>2. call[c].wrote # "slots" /\ pc[c] \in Writing
    BY <1>5, <2>1 DEF WroteSound, Writing
  <2>3. /\ ReadStatus(c) => pc[c] = "status" /\ pc'[c] = "sync" /\ place' = place
        /\ Sync(c) => pc[c] = "sync" /\ place' = place
        /\ pc'[c] = "sync" => ReadStatus(c)
        /\ pc[c] = "status" => ReadStatus(c)
        /\ pc[c] = "sync" => Sync(c)
    <3>1. pc \in [Session -> Pcs] /\ ~Block(c)
      BY <1>3 DEF IInv, TypeOK, Pcs, Block, SlotsTaken
    <3>2. pc'[c] = "sync" => ReadStatus(c)
      BY <1>10, <3>1 DEF WorksOn, Move, AttemptFails, CleanWorks, UnlockWorks, Mkltfs,
         ReadStatus, Sync, Goto, At
    <3>3. /\ ReadStatus(c) => pc[c] = "status" /\ pc'[c] = "sync" /\ place' = place
          /\ Sync(c) => pc[c] = "sync" /\ place' = place
      BY <3>1 DEF ReadStatus, Sync, Goto, At
    <3>4. /\ pc[c] = "status" => ReadStatus(c)
          /\ pc[c] = "sync" => Sync(c)
      BY <1>10, <3>1 DEF WorksOn, Move, AttemptFails, CleanWorks, UnlockWorks, Mkltfs,
         ReadStatus, Sync, At
    <3>. QED
      BY <3>2, <3>3, <3>4
  <2>4. (\A d \in Session : ~Dirty(d)') => cache' = place'
    <3>1. HAVE \A d \in Session : ~Dirty(d)'
    <3>2. place' = place
      BY <1>4, <3>1 DEF Dirty
    <3>3. ~Dirty(c)
      BY <2>1, <2>2, <2>3, <3>1 DEF Dirty
    <3>. QED
      BY <1>5, <1>7, <2>1, <3>1, <3>2, <3>3
  <2>5. ASSUME NEW d \in Session, pc'[d] = "sync" \/ call'[d].wrote = "slots"
        PROVE  call'[d].snapshot = place'
    <3>1. d = c
      BY <1>6, <1>8, <2>2, <2>5
    <3>2. ReadStatus(c) \/ Sync(c)
      BY <2>1, <2>2, <2>3, <2>5, <3>1
    <3>3. Sync(c) => ~ReadStatus(c) /\ call[c].snapshot = place
      BY <1>5, <2>3
    <3>. QED
      BY <2>1, <2>3, <3>1, <3>2, <3>3
  <2>. QED
    BY <1>5, <2>1, <2>4, <2>5
<1>11. CASE Fails(c) \/ Raises(c)
  <2>1. pc[c] \in {"act", "look", "log"} /\ ~Commit(c)
    BY <1>4, <1>11 DEF Commit, At
  <2>2. /\ UNCHANGED cache /\ call'[c] = Blank /\ pc'[c] # "sync"
    BY <1>11, <2>1, EndsAlone DEF Ends
  <2>3. place' = place
    BY <1>4, <2>1, <1>11, EndsAlone DEF Ends
  <2>4. unlogged' = {}
    BY <1>4, <1>5, <1>11 DEF Fails, FailEvent, history
  <2>5. ~Dirty(c)
    BY <1>5, <2>1 DEF WroteSound, Dirty
  <2>6. (\A d \in Session : ~Dirty(d)') => cache' = place'
    BY <1>5, <1>7, <2>2, <2>3, <2>5
  <2>7. \A d \in Session : pc'[d] = "sync" \/ call'[d].wrote = "slots"
                             => call'[d].snapshot = place'
    BY <1>5, <1>6, <2>2, <2>3 DEF Blank
  <2>. QED
    BY <2>4, <2>6, <2>7
<1>12. CASE Commit(c)
  <2>1. /\ pc[c] = "commit" /\ UNCHANGED <<place, unlogged>>
        /\ cache' = IF call[c].wrote = "slots" THEN call[c].snapshot ELSE cache
    BY <1>12 DEF Commit, At, history, Wrote
  <2>2. call'[c] = Blank /\ pc'[c] # "sync"
    BY <1>12, EndsAlone DEF Ends
  <2>3. \A d \in Session \ {c} : pc[d] # "sync" /\ call[d].wrote # "slots" /\ ~Dirty(d)
    BY <1>8, <2>1 DEF Writing
  <2>4. cache' = place'
    BY <1>5, <2>1, <2>3 DEF Dirty
  <2>5. \A d \in Session : pc'[d] = "sync" \/ call'[d].wrote = "slots"
                             => call'[d].snapshot = place'
    BY <1>6, <2>2, <2>3 DEF Blank
  <2>. QED
    BY <1>5, <2>1, <2>4, <2>5
<1>. QED
  BY <1>1, <1>9, <1>10, <1>11, <1>12

(* The locations.  What is good afterwards was good before.                *)
LEMMA GoodShrinks ==
  ASSUME events \subseteq events', unlogged \subseteq unlogged', hasty \subseteq hasty'
  PROVE  Good' \subseteq Good
<1>1. Doubtful \subseteq Doubtful'
  BY DEF Doubtful
<1>. QED
  BY <1>1 DEF Good, Known

LEMMA HistoryGrows ==
  ASSUME IInv, NEW c \in Session, Step(c) \/ Misfortune(c)
  PROVE  Good' \subseteq Good
<1>1. Begins(c) \/ WorksOn(c) \/ Fails(c) \/ Raises(c) \/ Commit(c)
  BY StepKinds
<1>2. events \subseteq events' /\ unlogged \subseteq unlogged' /\ hasty \subseteq hasty'
  BY <1>1, BeginsAlone, WorksAlone, EndsAlone
<1>. QED
  BY <1>2, GoodShrinks

(* Others carry what they carried, and are after what they were after.     *)
LEMMA OthersCarryOn ==
  ASSUME NEW c \in Session, Alone(c), NEW d \in Session \ {c}, NEW t
  PROVE  /\ Carries(d, t)' <=> Carries(d, t)
         /\ After(d, t)' <=> After(d, t)
         /\ Target(d)' = Target(d) /\ call'[d] = call[d]
BY DEF Alone, Carries, After, Target, Op, Current

(* Two sessions after one tape: unless one of them has moved it, both      *)
(* would have the arm.                                                     *)
LEMMA OneAfterEach ==
  ASSUME IInv, NEW t \in Good, LocationSound(t), NEW c \in Session, After(c, t),
         pc[c] # "commit", NEW d \in Session, After(d, t)
  PROVE  c = d
<1>1. SUFFICES ASSUME c # d
               PROVE  FALSE
  OBVIOUS
<1>2. t \in Tape /\ t # NoTape
  BY TapeIds DEF Good, Known
<1>3. ASSUME NEW e \in Session, After(e, t)
      PROVE  /\ pc[e] \in Underway /\ Op(e) \in Moves /\ script[e] # <<>>
             /\ pc[e] # "commit" => arm = e
             /\ pc[e] = "commit" => call[e].moved = t
  <2>1. /\ PlaceSound(e) /\ CallSound(e) /\ call[e].tape = t /\ script[e] # <<>>
        /\ Op(e) \in Moves /\ pc[e] \in Pcs
    BY <1>3 DEF IInv, TypeOK, Pcs, After
  <2>2. pc[e] \notin {"arm", "look", "done"}
    BY <1>2, <2>1 DEF CallSound, Blank
  <2>3. pc[e] \in Underway
    BY <2>1, <2>2 DEF Underway, Pcs
  <2>4. pc[e] # "commit" => arm = e
    BY <2>1, <2>3 DEF PlaceSound, Underway, NeedsArm
  <2>5. pc[e] = "commit" => call[e].moved = t
    BY <1>2, <2>1 DEF CallSound
  <2>. QED
    BY <2>1, <2>3, <2>4, <2>5
<1>4. arm = c /\ pc[d] = "commit"
  BY <1>1, <1>3
<1>5. Carries(d, t)
  BY <1>3, <1>4 DEF Carries
<1>. QED
  BY <1>1, <1>5 DEF LocationSound

(* A tape that is carried has arrived: its target is taken.                *)
LEMMA CarriedHasArrived ==
  ASSUME NEW t \in Good, LocationSound(t), NEW c \in Session, Carries(c, t)
  PROVE  ~CanMove(c)
BY DEF LocationSound, CanMove, In, Good, Known

LEMMA BeginsKeepsLocations ==
  ASSUME IInv, JInv, NEW c \in Session, Begins(c), NEW t \in Good'
  PROVE  LocationSound(t)'
<1>1. /\ script[c] # <<>> /\ Alone(c) /\ UNCHANGED <<script, place, location>>
  BY BeginsAlone
<1>2. t \in Good /\ t \in Tape /\ t # NoTape /\ LocationSound(t)
  BY HistoryGrows, TapeIds DEF JInv, Begins, Step, Good, Known
<1>3. call \in [Session -> LocalVars] /\ call[c] \in LocalVars
  BY DEF IInv, TypeOK, LocalVars
<1>4. Op(c)' = Op(c) /\ script'[c] = script[c]
  BY <1>1 DEF Op, Current
<1>5. CASE TakeArm(c)
  <2>1. \A d \in Session : /\ Carries(d, t)' <=> Carries(d, t)
                           /\ After(d, t)' <=> After(d, t)
                           /\ Target(d)' = Target(d) /\ call'[d] = call[d]
    BY <1>1, <1>5 DEF TakeArm, Carries, After, Target, Op, Current
  <2>. QED
    BY <1>1, <1>2, <2>1 DEF LocationSound
<1>6. CASE Log(c)
  <2>1. /\ call'[c].moved = call[c].moved /\ call'[c].seen = call[c].seen
        /\ call'[c].slot = call[c].slot
        /\ Op(c) # "retire" => call'[c].tape = call[c].tape
    BY <1>3, <1>6 DEF Log, LocalVars
  <2>2. /\ Carries(c, t)' <=> Carries(c, t)
        /\ After(c, t)' <=> After(c, t)
        /\ Target(c)' = Target(c)
    BY <1>4, <2>1 DEF Carries, After, Moves, Target, Op, Current
  <2>3. Carries(c, t) \/ After(c, t) => call'[c].tape = call[c].tape
    BY <2>1 DEF Carries, After, Moves
  <2>. QED
    BY <1>1, <1>2, <2>1, <2>2, <2>3, OthersCarryOn DEF LocationSound
<1>7. CASE Look(c)
  <2>1. call[c] = Blank
    BY <1>7 DEF IInv, CallSound, Look, At
  <2>2. /\ call'[c].moved = call[c].moved /\ call'[c].tape = Found(c)
        /\ call'[c].seen = IF Found(c) = NoTape THEN Nowhere ELSE location[Found(c)]
        /\ hasty' = IF Op(c) \in Moves THEN hasty \cup ({Found(c)} \cap Pending(c)) ELSE hasty
    BY <1>3, <1>7 DEF Look, LocalVars
  <2>3. ~Carries(c, t) /\ ~Carries(c, t)'
    BY <1>2, <2>1, <2>2 DEF Carries, Blank
  <2>4. After(c, t)' => /\ call'[c].seen = location[t]
                        /\ \A d \in Session \ {c} : ~Carries(d, t)
    <3>1. HAVE After(c, t)'
    <3>2. Found(c) = t /\ Op(c) \in Moves
      BY <1>4, <2>2, <3>1 DEF After
    <3>3. t \notin Pending(c)
      BY <2>2, <3>2 DEF Good
    <3>4. \A d \in Session \ {c} : ~Carries(d, t)
      BY <1>2, <3>3 DEF Pending, Carries
    <3>. QED
      BY <1>2, <2>2, <3>2, <3>4
  <2>. QED
    BY <1>1, <1>2, <2>3, <2>4, OthersCarryOn DEF LocationSound
<1>. QED
  BY <1>5, <1>6, <1>7 DEF Begins

LEMMA WorksKeepsLocations ==
  ASSUME IInv, JInv, NEW c \in Session, WorksOn(c), NEW t \in Good'
  PROVE  LocationSound(t)'
<1>1. /\ script[c] # <<>> /\ Alone(c) /\ UNCHANGED <<script, location>>
      /\ call'[c].tape = call[c].tape /\ call'[c].seen = call[c].seen
      /\ call'[c].slot = call[c].slot /\ pc[c] \in {"act", "status", "sync"}
  BY WorksAlone
<1>2. t \in Good /\ t \in Tape /\ t # NoTape /\ LocationSound(t) /\ t \in Known
  <2>1. Step(c)
    BY DEF WorksOn, Step
  <2>. QED
    BY <2>1, HistoryGrows, TapeIds DEF JInv, Good, Known
<1>3. call \in [Session -> LocalVars] /\ call[c] \in LocalVars /\ place \in [Tape -> Place]
  BY DEF IInv, TypeOK, LocalVars
<1>4. /\ Op(c)' = Op(c) /\ script'[c] = script[c] /\ Target(c)' = Target(c)
      /\ After(c, t)' <=> After(c, t)
  BY <1>1 DEF Op, Current, Target, After
<1>5. CASE place' = place /\ (Op(c) \in Moves => call'[c].moved = call[c].moved)
  <2>1. Carries(c, t)' <=> Carries(c, t)
    BY <1>4, <1>5 DEF Carries
  <2>. QED
    BY <1>1, <1>2, <1>4, <1>5, <2>1, OthersCarryOn DEF LocationSound
<1>6. CASE \E u \in In(Source(c)) : /\ CanMove(c) /\ Op(c) \in Moves /\ pc[c] = "act"
                                    /\ place' = [place EXCEPT ![u] = Target(c)]
                                    /\ call'[c].moved = u
  <2>1. PICK u \in In(Source(c)) : /\ CanMove(c) /\ Op(c) \in Moves /\ pc[c] = "act"
                                   /\ place' = [place EXCEPT ![u] = Target(c)]
                                   /\ call'[c].moved = u
    BY <1>6
  <2>2. u \in Tape /\ ~Carries(c, t)
    BY <1>2, <2>1, CarriedHasArrived DEF In
  <2>3. Carries(c, t)' <=> t = u
    BY <1>1, <1>4, <2>1 DEF Carries
  <2>4. CASE t # u
    <3>1. place'[t] = place[t]
      BY <1>3, <2>1, <2>4
    <3>. QED
      BY <1>1, <1>2, <1>4, <2>2, <2>3, <2>4, <3>1, OthersCarryOn DEF LocationSound
  <2>5. CASE t = u
    <3>1. call[c].tape = t
      BY <1>2, <2>1, <2>5 DEF IInv, CallSound
    <3>2. After(c, t)
      BY <1>1, <2>1, <3>1 DEF After
    <3>3. \A d \in Session \ {c} : ~Carries(d, t) /\ ~After(d, t)
      BY <1>2, <2>1, <3>2, OneAfterEach DEF LocationSound
    <3>4. place'[t] = Target(c)
      BY <1>2, <1>3, <2>1, <2>5
    <3>. QED
      BY <1>1, <1>2, <1>4, <2>3, <2>5, <3>1, <3>2, <3>3, <3>4, OthersCarryOn
         DEF LocationSound
  <2>. QED
    BY <2>4, <2>5
<1>7. CASE Move(c)
  <2>1. PICK u \in In(Source(c)) : /\ place' = [place EXCEPT ![u] = Target(c)]
                                   /\ call' = [call EXCEPT ![c].moved = u]
    BY <1>7 DEF Move
  <2>2. call'[c].moved = u
    BY <1>3, <2>1 DEF LocalVars
  <2>. QED
    BY <1>6, <1>7, <2>1, <2>2 DEF Move, At
<1>8. CASE AttemptFails(c) /\ Again(c)
  <2>1. PICK u \in {call[c].moved} \cup In(Source(c)) :
          /\ \/ u = call[c].moved /\ UNCHANGED place
             \/ CanMove(c) /\ u \in In(Source(c)) /\ place' = [place EXCEPT ![u] = Target(c)]
          /\ call' = [call EXCEPT ![c].tries = @ + 1, ![c].moved = u]
    BY <1>8 DEF AttemptFails
  <2>2. call'[c].moved = u
    BY <1>3, <2>1 DEF LocalVars
  <2>. QED
    BY <1>5, <1>6, <1>8, <2>1, <2>2 DEF AttemptFails, At
<1>9. CASE CleanWorks(c) \/ UnlockWorks(c) \/ Block(c) \/ Mkltfs(c)
  BY <1>5, <1>9 DEF CleanWorks, UnlockWorks, Block, Mkltfs, Moves
<1>10. CASE ReadStatus(c) \/ Sync(c)
  <2>1. call'[c].moved = call[c].moved /\ place' = place
    BY <1>3, <1>10 DEF ReadStatus, Sync, LocalVars
  <2>. QED
    BY <1>5, <2>1
<1>. QED
  BY <1>7, <1>8, <1>9, <1>10 DEF WorksOn

LEMMA EndsKeepsLocations ==
  ASSUME IInv, JInv, NEW c \in Session, Fails(c) \/ Raises(c) \/ Commit(c), NEW t \in Good',
         Step(c) \/ Misfortune(c)
  PROVE  LocationSound(t)'
<1>1. script[c] # <<>> /\ Alone(c) /\ call'[c] = Blank
  BY EndsAlone DEF Ends
<1>2. t \in Good /\ t \in Tape /\ t # NoTape /\ LocationSound(t) /\ t \in Known
  BY HistoryGrows, TapeIds DEF JInv, Good, Known
<1>3. ~Carries(c, t)' /\ ~After(c, t)'
  BY <1>1, <1>2 DEF Carries, After, Blank
<1>4. place \in [Tape -> Place]
  BY DEF IInv, TypeOK
<1>5. CASE place'[t] = place[t] /\ location'[t] = location[t] /\ ~Carries(c, t)
  BY <1>1, <1>2, <1>3, <1>5, OthersCarryOn DEF LocationSound
<1>6. CASE Fails(c)
  <2>1. PICK moved \in Tape \cup {NoTape} :
          /\ FailEvent(c, moved)
          /\ moved = call[c].moved \/ Op(c) \in NeedsArm
          /\ place' # place => /\ moved # NoTape
                               /\ \E p \in Place : place' = [place EXCEPT ![moved] = p]
    BY <1>6 DEF Fails
  <2>2. moved \in Doubtful'
    <3>1. Event(c, "error", moved) \in events' /\ Event(c, "error", moved).result = "error"
          /\ Event(c, "error", moved).moved = moved
      BY <2>1 DEF FailEvent, Event
    <3>. QED
      BY <3>1 DEF Doubtful
  <2>3. moved # t
    BY <2>2 DEF Good
  <2>4. place'[t] = place[t]
    BY <1>2, <1>4, <2>1, <2>3
  <2>5. location'[t] = location[t]
    BY <2>1 DEF FailEvent
  <2>6. ~Carries(c, t)
    <3>1. SUFFICES ASSUME Carries(c, t)
                   PROVE  moved = t
      BY <2>3
    <3>2. ~CanMove(c) /\ call[c].moved = t /\ Op(c) \in Moves
      BY <1>2, <3>1, CarriedHasArrived DEF Carries
    <3>3. CASE AttemptFails(c) /\ ~Again(c)
      <4>1. PICK u : /\ \/ u = call[c].moved /\ UNCHANGED place
                        \/ CanMove(c)
                     /\ FailEvent(c, u)
        BY <3>3 DEF AttemptFails
      <4>2. u = t
        BY <3>2, <4>1
      <4>3. t \in Doubtful'
        <5>1. Event(c, "error", t) \in events' /\ Event(c, "error", t).result = "error"
              /\ Event(c, "error", t).moved = t
          BY <4>1, <4>2 DEF FailEvent, Event
        <5>. QED
          BY <5>1 DEF Doubtful
      <4>. QED
        BY <4>3 DEF Good
    <3>4. CASE ReadStatusFails(c)
      <4>1. t \in Doubtful'
        <5>1. Event(c, "error", t) \in events' /\ Event(c, "error", t).result = "error"
              /\ Event(c, "error", t).moved = t
          BY <3>2, <3>4 DEF ReadStatusFails, FailEvent, Event
        <5>. QED
          BY <5>1 DEF Doubtful
      <4>. QED
        BY <4>1 DEF Good
    <3>5. CASE CleanFails(c) \/ ActFails(c)
      BY <3>2, <3>5 DEF CleanFails, ActFails, Moves
    <3>. QED
      BY <1>6, <3>3, <3>4, <3>5 DEF Fails
  <2>. QED
    BY <1>5, <2>4, <2>5, <2>6
<1>7. CASE Raises(c)
  <2>1. /\ UNCHANGED <<place, location>>
        /\ unlogged' = unlogged \cup ({call[c].moved} \ {NoTape})
    BY <1>7 DEF Raises, Abandon, catalogue
  <2>2. ~Carries(c, t)
    BY <1>2, <2>1 DEF Carries, Good
  <2>. QED
    BY <1>5, <2>1, <2>2
<1>8. CASE Commit(c)
  <2>1. /\ UNCHANGED place /\ location' = LocationAfter(c) /\ pc[c] = "commit"
    BY <1>8 DEF Commit, At
  <2>2. t \notin NewTapes(c)
    BY <1>2 DEF NewTapes, IInv, KnownStayKnown
  <2>3. location'[t] = IF Op(c) \in Moves /\ t = call[c].tape /\ Target(c) # call[c].seen
                       THEN Target(c) ELSE location[t]
    BY <1>2, <2>1, <2>2 DEF LocationAfter
  <2>4. CASE After(c, t)
    <3>1. call[c].moved = t
      BY <1>2, <2>1, <2>4 DEF IInv, CallSound, After
    <3>2. Carries(c, t)
      BY <2>4, <3>1 DEF After, Carries
    <3>3. /\ Target(c) = place[t] /\ call[c].seen = location[t]
          /\ \A d \in Session \ {c} : ~Carries(d, t) /\ ~After(d, t)
      BY <1>2, <2>4, <3>2 DEF LocationSound
    <3>4. location'[t] = place'[t]
      BY <2>1, <2>3, <2>4, <3>3 DEF After
    <3>. QED
      BY <1>1, <1>3, <3>3, <3>4, OthersCarryOn DEF LocationSound
  <2>5. CASE ~After(c, t)
    <3>1. location'[t] = location[t]
      BY <1>1, <2>3, <2>5 DEF After
    <3>2. ~Carries(c, t)
      BY <1>2, <2>5 DEF LocationSound, Carries, After
    <3>. QED
      BY <1>5, <2>1, <3>1, <3>2
  <2>. QED
    BY <2>4, <2>5
<1>. QED
  BY <1>6, <1>7, <1>8
-----------------------------------------------------------------------------
LEMMA InitIsJSound == Init => JInv
<1> SUFFICES ASSUME Init
             PROVE  JInv
  OBVIOUS
<1>1. /\ IInv /\ unlogged = {} /\ cache = Home /\ place = Home /\ hasty = {} /\ events = {}
      /\ call = [c \in Session |-> Blank]
      /\ location = [t \in Tape |-> IF FirstStatus[t] = "unknown" THEN Nowhere ELSE Home[t]]
      /\ pc = [c \in Session |-> IF script[c] = <<>> THEN "done" ELSE First(Op(c))]
  BY InitIsSound DEF Init
<1>2. ASSUME NEW c \in Session
      PROVE  call[c] = Blank /\ pc[c] \in {"arm", "look", "log", "done"}
  BY <1>1, <1>2 DEF First
<1>3. ASSUME NEW t \in Good
      PROVE  LocationSound(t)
  <2>1. t \in Tape /\ t # NoTape /\ location[t] = place[t]
    BY <1>1, TapeIds DEF Good, Known
  <2>2. \A c \in Session : ~Carries(c, t) /\ ~After(c, t)
    BY <1>2, <2>1 DEF Carries, After, Blank
  <2>. QED
    BY <2>1, <2>2 DEF LocationSound
<1>4. \A c \in Session : WroteSound(c)
  BY <1>2 DEF WroteSound, Writing, Blank
<1>5. OneWriter
  BY <1>2 DEF OneWriter, Writing
<1>6. CacheSound
  BY <1>1, <1>2 DEF CacheSound, Blank
<1>. QED
  BY <1>3, <1>4, <1>5, <1>6 DEF JInv

LEMMA NextIsJSound == IInv /\ JInv /\ [Next]_vars => JInv'
<1> SUFFICES ASSUME IInv, JInv, [Next]_vars
             PROVE  JInv'
  OBVIOUS
<1>1. CASE UNCHANGED vars
  <2>1. Good' = Good
    BY <1>1 DEF vars, catalogue, history, Good, Doubtful, Known
  <2>2. ASSUME NEW t
        PROVE  LocationSound(t)' <=> LocationSound(t)
    <3>1. \A c : /\ Carries(c, t)' <=> Carries(c, t)
                 /\ After(c, t)' <=> After(c, t)
                 /\ Target(c)' = Target(c)
      BY <1>1 DEF vars, Carries, After, Target, Op, Current
    <3>. QED
      BY <1>1, <3>1 DEF vars, catalogue, LocationSound
  <2>3. \A c \in Session : WroteSound(c)' <=> WroteSound(c)
    BY <1>1 DEF vars, WroteSound
  <2>4. OneWriter' <=> OneWriter
    BY <1>1 DEF vars, OneWriter
  <2>5. CacheSound' <=> CacheSound
    BY <1>1 DEF vars, catalogue, history, CacheSound, Dirty
  <2>. QED
    BY <2>1, <2>2, <2>3, <2>4, <2>5 DEF JInv
<1>2. ASSUME NEW c \in Session, Step(c) \/ Misfortune(c)
      PROVE  JInv'
  <2>1. Begins(c) \/ WorksOn(c) \/ Fails(c) \/ Raises(c) \/ Commit(c)
    BY <1>2, StepKinds
  <2>2. \A t \in Good' : LocationSound(t)'
    BY <1>2, <2>1, BeginsKeepsLocations, WorksKeepsLocations, EndsKeepsLocations
  <2>3. \A d \in Session : WroteSound(d)'
    BY <1>2, WroteStaysSound
  <2>4. OneWriter' /\ CacheSound'
    BY <1>2, OneWriterStays, CacheStaysSound
  <2>. QED
    BY <2>2, <2>3, <2>4 DEF JInv
<1>. QED
  BY <1>1, <1>2 DEF Next

(* When no move is under way, the catalogue knows where every tape is that *)
(* it knew before, except those whose moves failed, left no event or were  *)
(* begun on a row about to change; and on SQLite, without failures,        *)
(* library_slots is as the library is.                                     *)
THEOREM CatalogueKeepsUp == Spec => []CatalogueFollowsTapes
<1>1. IInv /\ JInv => CatalogueFollowsTapes
  <2> SUFFICES ASSUME IInv, JInv, Quiet
               PROVE  /\ LocationsFollowTapes
                      /\ database = "sqlite" /\ troubles = 0 => SnapshotIsCurrent
    BY DEF CatalogueFollowsTapes
  <2>1. \A c \in Session : pc[c] \in {"arm", "look", "log", "done"} /\ call[c].moved = NoTape
    BY DEF Quiet, IInv, CallSound, Blank
  <2>2. LocationsFollowTapes
    <3>1. SUFFICES ASSUME NEW t \in Good
                   PROVE  location[t] = place[t]
      BY DEF LocationsFollowTapes, Good, Known
    <3>2. \A c \in Session : ~Carries(c, t)
      BY <2>1, TapeIds DEF Carries, Good, Known
    <3>. QED
      BY <3>2 DEF JInv, LocationSound
  <2>3. \A c \in Session : ~Dirty(c)
    BY <2>1 DEF Dirty, JInv, WroteSound
  <2>4. database = "sqlite" /\ troubles = 0 => SnapshotIsCurrent
    BY <2>3 DEF JInv, CacheSound, SnapshotIsCurrent
  <2>. QED
    BY <2>2, <2>4
<1>2. Spec => []JInv
  BY IInvHolds, InitIsJSound, NextIsJSound, PTL DEF Spec
<1>. QED
  BY <1>1, <1>2, IInvHolds, PTL
=============================================================================
