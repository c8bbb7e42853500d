------------------------- MODULE WritePipelineProofs -------------------------
(***************************************************************************)
(* What WritePipeline guarantees for any tapes, slots, drives and scans,   *)
(* and any number of runs, pauses, failures and crashes.                   *)
(***************************************************************************)
EXTENDS WritePipeline, FiniteSetTheorems, WellFoundedInduction, SequenceTheorems, TLAPS

Ensuring == {"release", "lookup", "load", "format", "copy", "catalogue"}
Pcs == Ensuring \cup {"idle", "plan", "check", "finalise", "csv", "export", "close"}

(* The types, with those of source and plan as functions. *)
Types ==
  /\ status \in [Tape -> {"scratch", "active", "full"}]
  /\ used \in [Tape -> Nat]
  /\ spans \in SUBSET SpanType /\ IsFiniteSet(spans)
  /\ place \in [Tape -> Slot \cup Drive]
  /\ files \in [Tape -> SUBSET Unit]
  /\ pc \in [Drive -> Pcs]
  /\ source \in [Drive -> Scan \cup {<<>>}]
  /\ plan \in [Drive -> Seq(Placement)]
  /\ pos \in [Drive -> Nat \ {0}]
  /\ csv \in [Drive -> SUBSET Tape]
  /\ want \in [Drive -> Tape \cup {NoTape}]
  /\ slot \in [Drive -> Slot \cup {0}]
  /\ loaded \in [Drive -> Tape \cup {NoTape}]
  /\ formatted \in [Drive -> SUBSET Tape]
  /\ touched \in [Drive -> SUBSET Tape]
  /\ result \in [Drive -> {"none", "completed", "stopped", "failed"}]
  /\ runs \in 0 .. MaxRuns /\ stops \in 0 .. MaxStops
  /\ faults \in 0 .. MaxFaults /\ crashes \in 0 .. MaxCrashes
  /\ behind \in SUBSET Tape /\ shared \in BOOLEAN

OnePlaceEach == \A t, u \in Tape : place[t] = place[u] => t = u

(* What the local variables of a run say, by the place it is at. *)
RunSound(d) ==
  /\ pc[d] \in {"idle", "plan"} =>
       plan[d] = <<>> /\ csv[d] = {} /\ touched[d] = {} /\ loaded[d] = NoTape
  /\ pc[d] \notin {"idle", "plan"} =>
       /\ Len(plan[d]) = Len(source[d])
       /\ \A k \in 1 .. Len(plan[d]) : plan[d][k].unit = source[d][k]
  /\ csv[d] # {} => pc[d] \in {"csv", "release", "lookup", "load", "export", "close"}
  /\ csv[d] \subseteq touched[d] /\ touched[d] \subseteq Tapes(plan[d])
  /\ pc[d] \in Ensuring /\ csv[d] = {} => pos[d] <= Len(plan[d]) /\ want[d] = At(d).tape
  /\ pc[d] \in {"release", "lookup", "load", "export"} /\ csv[d] # {} => want[d] \in csv[d]
  /\ pc[d] = "export" => csv[d] # {}
  /\ pc[d] = "release" => loaded[d] # NoTape
  /\ pc[d] \in {"lookup", "load"} => loaded[d] = NoTape
  /\ pc[d] \in {"format", "copy", "catalogue", "export"} => loaded[d] = want[d]
  /\ pc[d] = "load" => slot[d] \in Slot

(* A tape the plan wants formatted has been before anything is written.    *)
FormatSound(d) ==
  /\ \A j, k \in 1 .. Len(plan[d]) :
       plan[d][j].tape = plan[d][k].tape => plan[d][j].format = plan[d][k].format
  /\ pc[d] = "format" => csv[d] = {} /\ MustFormat(d)
  /\ pc[d] \in {"check", "copy", "catalogue"} =>
       \A k \in 1 .. Len(plan[d]) :
         plan[d][k].tape = loaded[d] /\ plan[d][k].format => loaded[d] \in formatted[d]

Catalogued(u) == \E s \in spans : s.folder = Folder[u]

(* What has been gone through is in the catalogue. *)
CatalogueSound(d) ==
  /\ \A t \in touched[d] : SpansOn(t) # {}
  /\ pc[d] \notin {"idle", "plan"} =>
       \A k \in 1 .. Len(plan[d]) : k < pos[d] => Catalogued(plan[d][k].unit)
  /\ result[d] = "completed" => \A k \in 1 .. Len(source[d]) : Catalogued(source[d][k])

(* The row of a tape agrees with its spans unless a run that wrote on it   *)
(* has not come to finalise it yet, or died.                               *)
RowsSound ==
  \A t \in Tape \ behind :
    (\A d \in Drive : t \notin Unfinished(d)) =>
      /\ used[t] = Total(t)
      /\ status[t] = "scratch" <=> SpansOn(t) = {}
      /\ status[t] = "full" <=> Total(t) >= Capacity

DrivesSound ==
  faults = 0 /\ crashes = 0 => \A d \in Drive : loaded[d] = NoTape => In(d) = {}

IInv ==
  /\ Types /\ OnePlaceEach /\ RowsSound /\ DrivesSound
  /\ \A d \in Drive : RunSound(d) /\ FormatSound(d) /\ CatalogueSound(d)

-----------------------------------------------------------------------------
(* Runs that share no tape keep out of each other's way: the tape a run    *)
(* counts on is where it takes it to be.                                   *)
ApartSound ==
  \A d, e \in Drive :
    d # e /\ AtWork(d) /\ AtWork(e) => Tapes(plan[d]) \cap Tapes(plan[e]) = {}

HoldsWhatItWants(d) ==
  /\ AtWork(d) /\ loaded[d] # NoTape => place[loaded[d]] = d
  /\ pc[d] = "load" => place[want[d]] = slot[d]
  /\ pc[d] = "catalogue" => At(d).unit \in files[At(d).tape]

(* A tape still to be formatted has nothing on it the catalogue lists. *)
FreshOnes(d) ==
  Relying(d) =>
    \A k \in 1 .. Len(plan[d]) :
      plan[d][k].format /\ plan[d][k].tape \notin formatted[d] \cup behind
        => SpansOn(plan[d][k].tape) = {}

OnTape == \A s \in spans : s.tape \notin behind => s.unit \in files[s.tape]

JInv == ~shared => /\ ApartSound /\ OnTape
                   /\ \A d \in Drive : HoldsWhatItWants(d) /\ FreshOnes(d)
-----------------------------------------------------------------------------
(* A family of finite sets has one that includes no other. *)
LEMMA SmallestSet ==
  ASSUME NEW U, IsFiniteSet(U)
  PROVE  \A F : F # {} /\ F \subseteq SUBSET U
                 => \E X \in F : \A Y \in F : Y \subseteq X => Y = X
<1> SUFFICES ASSUME NEW F, F # {}, F \subseteq SUBSET U
             PROVE  \E X \in F : \A Y \in F : Y \subseteq X => Y = X
  OBVIOUS
<1>1. IsWellFoundedOn(StrictSubsetOrdering(U), SUBSET U)
  BY FS_StrictSubsetOrderingWellFounded, FS_FiniteSubsetsOfFinite, Zenon
<1>2. PICK X \in F : \A Y \in F : <<Y, X>> \notin StrictSubsetOrdering(U)
  BY <1>1, WFMin, Zenon
<1>3. \A Y \in F : Y \subseteq X => Y = X
  BY <1>2 DEF StrictSubsetOrdering
<1>. QED
  BY <1>3

(* The plan.  Room is counted in places: pairs of a tape and a number.     *)

PlacesOn(S) == UNION {{t} \X (1 .. Room(t)) : t \in S}

LEMMA RoomIsNat ==
  ASSUME Types, NEW t \in Tape
  PROVE  Room(t) \in 0 .. Capacity
BY UnitsFit DEF Types, Room

LEMMA RoomOnIsNat ==
  ASSUME Types, NEW S \in SUBSET Tape
  PROVE  IsFiniteSet(PlacesOn(S)) /\ RoomOn(S) \in Nat /\ RoomOn(S) = Cardinality(PlacesOn(S))
<1>1. PlacesOn(S) \subseteq Tape \X (1 .. Capacity)
  BY RoomIsNat, UnitsFit DEF PlacesOn
<1>2. IsFiniteSet(Tape \X (1 .. Capacity))
  <2>1. IsFiniteSet(1 .. Capacity)
    BY UnitsFit, FS_Interval
  <2>. QED
    BY <2>1, TapeIds, FS_Product, Zenon
<1>3. IsFiniteSet(PlacesOn(S))
  BY <1>1, <1>2, FS_Subset
<1>. QED
  BY <1>3, FS_CardinalityType DEF PlacesOn, RoomOn

LEMMA RoomAdds ==
  ASSUME Types, NEW S \in SUBSET Tape, NEW t \in Tape \ S
  PROVE  RoomOn(S \cup {t}) = RoomOn(S) + Room(t)
<1> DEFINE new == {t} \X (1 .. Room(t))
<1>1. PlacesOn(S \cup {t}) = PlacesOn(S) \cup new /\ PlacesOn(S) \cap new = {}
  BY DEF PlacesOn
<1>2. IsFiniteSet(new) /\ Cardinality(new) = Room(t)
  <2>1. IsFiniteSet({t}) /\ Cardinality({t}) = 1
    BY FS_Singleton
  <2>2. IsFiniteSet(1 .. Room(t)) /\ Cardinality(1 .. Room(t)) = Room(t)
    BY RoomIsNat, UnitsFit, FS_Interval
  <2>. QED
    BY <2>1, <2>2, RoomIsNat, UnitsFit, FS_Product
<1>3. RoomOn(S) = Cardinality(PlacesOn(S)) /\ IsFiniteSet(PlacesOn(S)) /\ RoomOn(S) \in Nat
      /\ RoomOn(S \cup {t}) = Cardinality(PlacesOn(S \cup {t}))
  BY RoomOnIsNat
<1>4. Cardinality(PlacesOn(S) \cap new) = 0
  BY <1>1, FS_EmptySet
<1>5. Cardinality(PlacesOn(S) \cup new)
        = Cardinality(PlacesOn(S)) + Cardinality(new) - Cardinality(PlacesOn(S) \cap new)
  <2> HIDE DEF new
  <2>. QED
    BY <1>2, <1>3, FS_Union
<1>6. Cardinality(PlacesOn(S \cup {t})) = Cardinality(PlacesOn(S) \cup new)
  BY <1>1
<1> HIDE DEF new
<1>7. Room(t) \in Nat
  BY RoomIsNat, UnitsFit
<1>. QED
  BY <1>2, <1>3, <1>4, <1>5, <1>6, <1>7

LEMMA NoRoomOnNone == RoomOn({}) = 0
BY FS_EmptySet DEF RoomOn

(* Tapes are filled in a strict order. *)
LEMMA Orders ==
  ASSUME Types
  PROVE  /\ \A s, t \in Views : Before(s, t) => ~Before(t, s)
         /\ \A s, t, u \in Views : Before(s, t) /\ Before(t, u) => Before(s, u)
         /\ \A s, t \in Views : s # t => Before(s, t) \/ Before(t, s)
<1>1. \A t \in Views : t \in Nat /\ used[t] \in Nat /\ status[t] \in {"active", "scratch"}
  BY TapeIds DEF Types, Views
<1>. QED
  BY <1>1 DEF Before

(* The last tape in the order. *)
LEMMA LastExists ==
  ASSUME Types, NEW S \in SUBSET Views, S # {}
  PROVE  \E m \in S : \A s \in S \ {m} : Before(s, m)
<1> DEFINE After(m) == {s \in S : Before(m, s)}
<1>1. S \subseteq Tape /\ S \subseteq Views
  BY DEF Views
<1>2. PICK m \in S : \A n \in S : After(n) \subseteq After(m) => After(n) = After(m)
  <2> DEFINE F == {After(n) : n \in S}
  <2>1. F # {} /\ F \subseteq SUBSET Tape
    BY <1>1
  <2>2. \A n \in S : After(n) \in F
    OBVIOUS
  <2>3. \A X \in F : \E m \in S : X = After(m)
    OBVIOUS
  <2>4. \A G : G # {} /\ G \subseteq SUBSET Tape
               => \E X \in G : \A Y \in G : Y \subseteq X => Y = X
    BY TapeIds, SmallestSet
  <2> HIDE DEF F
  <2>5. PICK X \in F : \A Y \in F : Y \subseteq X => Y = X
    BY <2>1, <2>4
  <2> HIDE DEF After
  <2>. QED
    BY <2>2, <2>3, <2>5
<1>3. ASSUME NEW s \in S, Before(m, s)
      PROVE  FALSE
  <2>1. After(s) \subseteq After(m)
    BY <1>1, <1>3, Orders
  <2>2. s \in After(m) /\ s \notin After(s)
    BY <1>1, <1>3, Orders
  <2>. QED
    BY <1>2, <2>1, <2>2
<1>. QED
  BY <1>1, <1>3, Orders

Earlier(t) == {s \in Views : Before(s, t)}

(* As long as there is room enough there is a tape for the k-th unit. *)
LEMMA TapeForExists ==
  ASSUME Types, NEW k \in Nat \ {0}, k <= RoomOn(Views)
  PROVE  TapeFor(k) \in Views
<1> DEFINE Reached == {t \in Views : k <= RoomOn(Earlier(t)) + Room(t)}
<1>1. Views \subseteq Tape /\ \A t \in Views : Earlier(t) \in SUBSET Tape /\ t \in Tape \ Earlier(t)
  BY Orders DEF Views, Earlier
<1>2. Reached # {}
  <2>1. Views # {}
    BY NoRoomOnNone
  <2>2. PICK m \in Views : \A s \in Views \ {m} : Before(s, m)
    BY <2>1, LastExists
  <2>3. Earlier(m) \cup {m} = Views
    BY <2>2 DEF Earlier
  <2>4. RoomOn(Views) = RoomOn(Earlier(m)) + Room(m)
    BY <1>1, <2>3, RoomAdds
  <2>. QED
    BY <2>4
<1>3. PICK t \in Reached : \A s \in Reached : Earlier(s) \subseteq Earlier(t) => Earlier(s) = Earlier(t)
  <2> DEFINE F == {Earlier(s) : s \in Reached}
  <2>1. F # {} /\ F \subseteq SUBSET Tape
    BY <1>1, <1>2
  <2>2. \A s \in Reached : Earlier(s) \in F
    OBVIOUS
  <2>3. \A X \in F : \E s \in Reached : X = Earlier(s)
    OBVIOUS
  <2>4. \A G : G # {} /\ G \subseteq SUBSET Tape
               => \E X \in G : \A Y \in G : Y \subseteq X => Y = X
    BY TapeIds, SmallestSet
  <2> HIDE DEF F, Reached
  <2>5. PICK X \in F : \A Y \in F : Y \subseteq X => Y = X
    BY <2>1, <2>4
  <2>. QED
    BY <2>2, <2>3, <2>5
<1>4. RoomOn(Earlier(t)) < k
  <2> SUFFICES ASSUME k <= RoomOn(Earlier(t))
               PROVE  FALSE
    BY <1>1, RoomOnIsNat
  <2>1. Earlier(t) # {}
    BY NoRoomOnNone
  <2>2. PICK m \in Earlier(t) : \A s \in Earlier(t) \ {m} : Before(s, m)
    BY <2>1, LastExists DEF Earlier
  <2>3. m \in Views /\ Before(m, t) /\ t \in Views
    BY DEF Earlier
  <2>4. Earlier(m) \cup {m} = Earlier(t)
    BY <2>2, <2>3, Orders DEF Earlier
  <2>5. RoomOn(Earlier(t)) = RoomOn(Earlier(m)) + Room(m)
    BY <1>1, <2>3, <2>4, RoomAdds
  <2>6. m \in Reached
    BY <2>3, <2>5
  <2>7. m \notin Earlier(m)
    BY <1>1, <2>3
  <2>. QED
    BY <1>3, <2>4, <2>6, <2>7
<1>5. \E s \in Views : RoomOn(Earlier(s)) < k /\ k <= RoomOn(Earlier(s)) + Room(s)
  BY <1>4
<1>. QED
  BY <1>5 DEF TapeFor, Earlier

LEMMA LayoutIsSound ==
  ASSUME Types, NEW d \in Drive, Len(source[d]) <= RoomOn(Views)
  PROVE  /\ Layout(source[d]) \in Seq(Placement)
         /\ Len(Layout(source[d])) = Len(source[d])
         /\ \A k \in 1 .. Len(source[d]) :
              /\ Layout(source[d])[k].unit = source[d][k]
              /\ Layout(source[d])[k].tape \in Views
              /\ Layout(source[d])[k].format = (status[Layout(source[d])[k].tape] = "scratch")
<1>1. source[d] \in Seq(Unit)
  <2>1. <<>> \in Seq(Unit)
    OBVIOUS
  <2>2. source[d] \in Scan \/ source[d] = <<>>
    BY DEF Types
  <2>. QED
    BY <2>1, <2>2, UnitsFit
<1>2. \A k \in 1 .. Len(source[d]) : TapeFor(k) \in Views
  <2> SUFFICES ASSUME NEW k \in 1 .. Len(source[d])
               PROVE  TapeFor(k) \in Views
    OBVIOUS
  <2>1. k <= RoomOn(Views) /\ k \in Nat \ {0}
    BY <1>1, RoomOnIsNat, Views \in SUBSET Tape DEF Views
  <2>. QED
    BY <2>1, TapeForExists
<1>3. \A k \in 1 .. Len(source[d]) : source[d][k] \in Unit /\ TapeFor(k) \in Tape
  BY <1>1, <1>2 DEF Views
<1>4. DOMAIN source[d] = 1 .. Len(source[d]) /\ Len(source[d]) \in Nat
  BY <1>1
<1>5. Layout(source[d]) = [k \in 1 .. Len(source[d]) |->
        [unit |-> source[d][k], tape |-> TapeFor(k), format |-> status[TapeFor(k)] = "scratch"]]
  BY <1>4 DEF Layout
<1>6. ASSUME NEW k \in 1 .. Len(source[d])
      PROVE  /\ Layout(source[d])[k].unit = source[d][k]
             /\ Layout(source[d])[k].tape = TapeFor(k)
             /\ Layout(source[d])[k].format = (status[TapeFor(k)] = "scratch")
             /\ Layout(source[d])[k] \in Placement
  BY <1>3, <1>5 DEF Placement
<1>7. Layout(source[d]) \in Seq(Placement) /\ Len(Layout(source[d])) = Len(source[d])
  <2>1. Layout(source[d]) \in [1 .. Len(source[d]) -> Placement]
    BY <1>5, <1>6, Zenon
  <2>. QED
    BY <1>4, <2>1
<1>8. ASSUME NEW k \in 1 .. Len(source[d])
      PROVE  /\ Layout(source[d])[k].tape \in Views
             /\ Layout(source[d])[k].format = (status[Layout(source[d])[k].tape] = "scratch")
  BY <1>2, <1>6, Zenon
<1>. QED
  BY <1>6, <1>7, <1>8, Zenon
-----------------------------------------------------------------------------
(* The library.                                                            *)

LEMMA FreeSlotExists ==
  ASSUME Types, NEW d \in Drive, In(d) # {}
  PROVE  FirstFree \in FreeSlots
<1>1. FreeSlots # {}
  <2> SUFFICES ASSUME FreeSlots = {}
               PROVE  FALSE
    OBVIOUS
  <2> DEFINE stored == {t \in Tape : place[t] \in Slot}
             f == [t \in stored |-> place[t]]
  <2>1. f \in Surjection(stored, Slot)
    BY DEF FreeSlots, Surjection
  <2>2. PICK u \in Tape : place[u] = d
    BY DEF In
  <2>3. stored \subseteq Tape /\ u \notin stored
    BY <2>2, Places
  <2> HIDE DEF f, stored
  <2>4. IsFiniteSet(stored) /\ Cardinality(stored) <= Cardinality(Tape)
        /\ (Cardinality(Tape) = Cardinality(stored) => Tape = stored)
    BY <2>3, TapeIds, FS_Subset
  <2>5. Cardinality(Slot) <= Cardinality(stored)
    BY <2>1, <2>4, FS_Surjection
  <2>6. Cardinality(stored) \in Nat /\ Cardinality(Tape) \in Nat /\ Cardinality(Slot) \in Nat
    BY <2>4, TapeIds, Places, FS_CardinalityType
  <2>. QED
    BY <2>2, <2>3, <2>4, <2>5, <2>6, Places
<1>2. FreeSlots \subseteq Slot /\ Slot \subseteq Nat /\ IsFiniteSet(Slot)
  BY Places DEF FreeSlots
<1> DEFINE below(n) == {m \in FreeSlots : m < n}
           F == {below(n) : n \in FreeSlots}
<1>3. F # {} /\ F \subseteq SUBSET Slot
  BY <1>1, <1>2
<1>4. \A n \in FreeSlots : below(n) \in F
  OBVIOUS
<1>5. \A X \in F : \E n \in FreeSlots : X = below(n)
  OBVIOUS
<1>6. PICK X \in F : \A Y \in F : Y \subseteq X => Y = X
  <2>1. \A G : G # {} /\ G \subseteq SUBSET Slot
               => \E X \in G : \A Y \in G : Y \subseteq X => Y = X
    BY Places, SmallestSet
  <2> HIDE DEF F
  <2>. QED
    BY <1>3, <2>1
<1>7. PICK n \in FreeSlots : X = below(n)
  BY <1>5
<1>8. \A m \in FreeSlots : n <= m
  <2> SUFFICES ASSUME NEW m \in FreeSlots, ~(n <= m)
               PROVE  FALSE
    OBVIOUS
  <2>1. m < n /\ m \in Nat /\ n \in Nat
    BY <1>2
  <2>2. below(m) \subseteq below(n) /\ m \in below(n) /\ m \notin below(m)
    <3>1. \A x \in FreeSlots : x \in Nat
      BY <1>2
    <3>2. \A x \in FreeSlots : x < m => x < n
      BY <2>1, <3>1
    <3>3. \A x : x \in below(m) <=> x \in FreeSlots /\ x < m
      OBVIOUS
    <3>4. \A x : x \in below(n) <=> x \in FreeSlots /\ x < n
      OBVIOUS
    <3>5. ~(m < m)
      BY <2>1
    <3> HIDE DEF below
    <3>. QED
      BY <2>1, <3>2, <3>3, <3>4, <3>5
  <2>. QED
    BY <1>4, <1>6, <1>7, <2>2
<1>. QED
  BY <1>8 DEF FirstFree

(* An unload takes what is in the drive to a slot that was free. *)
LEMMA UnloadsMoves ==
  ASSUME Types, OnePlaceEach, NEW d \in Drive, Unloads(d)
  PROVE  /\ place' \in [Tape -> Slot \cup Drive] /\ OnePlaceEach'
         /\ In(d)' = {}
         /\ \A e \in Drive \ {d} : In(e)' = In(e)
         /\ \A t \in Tape \ In(d) : place'[t] = place[t]
<1>1. place' = [t \in Tape |-> IF t \in In(d) THEN FirstFree ELSE place[t]]
  BY DEF Unloads
<1>2. place \in [Tape -> Slot \cup Drive] /\ Slot \cap Drive = {}
  BY Places DEF Types
<1>3. CASE In(d) = {}
  <2>1. place' = place
    BY <1>1, <1>2, <1>3
  <2>. QED
    BY <1>2, <1>3, <2>1 DEF OnePlaceEach, In
<1>4. CASE In(d) # {}
  <2>1. FirstFree \in Slot /\ \A t \in Tape : place[t] # FirstFree
    BY <1>4, FreeSlotExists DEF FreeSlots
  <2>2. \A t, u \in In(d) : t = u
    BY DEF OnePlaceEach, In
  <2>. QED
    BY <1>1, <1>2, <2>1, <2>2 DEF OnePlaceEach, In
<1>. QED
  BY <1>3, <1>4

(* A load takes what is in the slot to the drive, which was empty. *)
LEMMA LoadsMoves ==
  ASSUME Types, OnePlaceEach, NEW d \in Drive, Loadable(d), slot[d] \in Slot, Loads(d)
  PROVE  /\ place' \in [Tape -> Slot \cup Drive] /\ OnePlaceEach'
         /\ \A e \in Drive \ {d} : In(e)' = In(e)
         /\ \A t \in Tape : place'[t] = IF place[t] = slot[d] THEN d ELSE place[t]
<1>1. place' = [t \in Tape |-> IF place[t] = slot[d] THEN d ELSE place[t]]
  BY DEF Loads
<1>2. place \in [Tape -> Slot \cup Drive] /\ Slot \cap Drive = {}
  BY Places DEF Types
<1>3. \A t \in Tape : place[t] # d
  BY DEF Loadable, In
<1>. QED
  BY <1>1, <1>2, <1>3 DEF OnePlaceEach, In
-----------------------------------------------------------------------------
(* Types.                                                                  *)

(* A step of the run in d, of a fault there, or of the operator. *)
DriveStep(d) ==
  \/ \E q \in Scan : Start(d, q)
  \/ RunStep(d) \/ Break(d) \/ FaultStep(d) \/ OperatorUnloads(d)

LEMMA CurrentPlacement ==
  ASSUME Types, NEW d \in Drive, pos[d] <= Len(plan[d])
  PROVE  /\ pos[d] \in 1 .. Len(plan[d]) /\ plan[d] \in Seq(Placement)
         /\ At(d) \in Placement /\ At(d).tape \in Tape /\ At(d).unit \in Unit
         /\ At(d).tape \in Tapes(plan[d])
<1>1. plan[d] \in Seq(Placement) /\ pos[d] \in Nat \ {0}
  BY DEF Types
<1>2. pos[d] \in 1 .. Len(plan[d]) /\ plan[d][pos[d]] \in Placement
  BY <1>1
<1>3. DOMAIN plan[d] = 1 .. Len(plan[d])
  BY <1>1
<1>. QED
  BY <1>1, <1>2, <1>3 DEF At, Placement, Tapes

LEMMA PlanTapes ==
  ASSUME Types, NEW d \in Drive
  PROVE  /\ Tapes(plan[d]) \subseteq Tape
         /\ \A k \in 1 .. Len(plan[d]) :
              plan[d][k] \in Placement /\ plan[d][k].tape \in Tapes(plan[d])
<1>1. plan[d] \in Seq(Placement)
  BY DEF Types
<1>2. DOMAIN plan[d] = 1 .. Len(plan[d]) /\ \A k \in 1 .. Len(plan[d]) : plan[d][k] \in Placement
  BY <1>1
<1>. QED
  BY <1>2 DEF Tapes, Placement

LEMMA TotalIsNat ==
  ASSUME Types, NEW t \in Tape
  PROVE  /\ IsFiniteSet(SpansOn(t)) /\ Total(t) \in Nat
         /\ Total(t) = 0 <=> SpansOn(t) = {}
<1>1. SpansOn(t) \subseteq spans /\ IsFiniteSet(spans)
  BY DEF SpansOn, Types
<1>2. IsFiniteSet(SpansOn(t))
  BY <1>1, FS_Subset
<1>. QED
  BY <1>2, FS_CardinalityType, FS_EmptySet DEF Total

(* What every conjunct of the next lemma needs of the state before. *)
LEMMA RunTypes ==
  ASSUME IInv, NEW d \in Drive
  PROVE  /\ Types /\ OnePlaceEach /\ RunSound(d)
         /\ pc[d] \in {"copy", "catalogue", "format"} =>
              At(d).tape \in Tape /\ At(d).unit \in Unit
         /\ pc[d] \in {"release", "lookup", "load", "format", "export"} => want[d] \in Tape
BY CurrentPlacement DEF IInv, Types, RunSound, FormatSound, Ensuring

LEMMA RaiseTypes ==
  ASSUME IInv, NEW d \in Drive, Raise(d)
  PROVE  /\ csv' \in [Drive -> SUBSET Tape] /\ pc' \in [Drive -> Pcs]
         /\ result' \in [Drive -> {"none", "completed", "stopped", "failed"}]
         /\ behind' \in SUBSET Tape /\ behind \subseteq behind'
<1>1. Types /\ pc[d] \in Pcs
  BY RunTypes DEF Types
<1>2. CASE csv[d] # {}
  <2>1. /\ csv' = [csv EXCEPT ![d] = @ \ {want[d]}] /\ pc' = [pc EXCEPT ![d] = "csv"]
        /\ result' = result /\ behind' = behind
    BY <1>2 DEF Raise, Goto
  <2>2. csv' \in [Drive -> SUBSET Tape]
    BY <1>1, <2>1 DEF Types
  <2>3. pc' \in [Drive -> Pcs]
    BY <1>1, <2>1 DEF Types, Pcs
  <2>. QED
    BY <1>1, <2>1, <2>2, <2>3 DEF Types
<1>3. CASE csv[d] = {}
  <2>1. Unfinished(d) \subseteq Tape
    <3>1. pc[d] = "catalogue" => At(d).tape \in Tape
      BY RunTypes
    <3>. QED
      BY <1>1, <3>1 DEF Unfinished, Types
  <2>2. behind' = behind \cup Unfinished(d) /\ csv' = csv
    BY <1>3 DEF Raise
  <2>3. result' \in [Drive -> {"none", "completed", "stopped", "failed"}] /\ pc' \in [Drive -> Pcs]
    BY <1>1, <1>3 DEF Raise, Types, Goto, Pcs
  <2>. QED
    BY <1>1, <2>1, <2>2, <2>3 DEF Types
<1>. QED
  BY <1>2, <1>3

(* Raise leaves the catalogue, the data and the plan alone. *)
LEMMA RaiseLeaves ==
  ASSUME NEW d \in Drive, Raise(d)
  PROVE  UNCHANGED <<status, used, spans, files, want, slot, formatted, source, plan, pos,
                     touched, runs, stops, crashes, shared>>
BY DEF Raise, catalogue

LEMMA ForgetTypes ==
  ASSUME Types, NEW d \in Drive, Forget(d)
  PROVE  /\ plan' \in [Drive -> Seq(Placement)] /\ pos' \in [Drive -> Nat \ {0}]
         /\ csv' \in [Drive -> SUBSET Tape] /\ want' \in [Drive -> Tape \cup {NoTape}]
         /\ slot' \in [Drive -> Slot \cup {0}] /\ formatted' \in [Drive -> SUBSET Tape]
         /\ touched' \in [Drive -> SUBSET Tape]
<1>1. <<>> \in Seq(Placement)
  OBVIOUS
<1>. QED
  BY <1>1 DEF Types, Forget

(* A run that ends without its finally clause forgets all it knew. *)
LEMMA SessionFailsEnds ==
  ASSUME IInv, NEW d \in Drive, SessionFails(d)
  PROVE  /\ pc'[d] = "idle" /\ plan'[d] = <<>> /\ csv'[d] = {} /\ touched'[d] = {}
         /\ loaded'[d] = NoTape /\ result'[d] = "failed" /\ Len(plan'[d]) = 0
         /\ source' = source /\ shared' = shared /\ crashes' = crashes
         /\ UNCHANGED <<status, used, spans, files>>
         /\ behind' = behind \cup Unfinished(d) /\ Unfinished(d) \subseteq Tape
         /\ faults \in Nat /\ faults' = faults + 1 /\ faults' \in 0 .. MaxFaults
<1>1. /\ Types /\ faults \in Nat /\ faults + 1 \in 0 .. MaxFaults
      /\ pc[d] = "catalogue" => At(d).tape \in Tape
  BY RunTypes, BoundsAreNat DEF SessionFails, Types
<1>2. Unfinished(d) \subseteq Tape
  BY <1>1 DEF Unfinished, Types
<1>3. UNCHANGED <<status, used, spans, files>>
  BY DEF SessionFails, catalogue
<1>4. Len(<<>>) = 0
  OBVIOUS
<1>. QED
  BY <1>1, <1>2, <1>3, <1>4 DEF SessionFails, Types, Goto, Forget

LEMMA TypesStay ==
  ASSUME IInv, NEW d \in Drive, DriveStep(d)
  PROVE  Types' /\ OnePlaceEach'
<1>1. /\ Types /\ OnePlaceEach /\ RunSound(d)
      /\ pc[d] \in {"copy", "catalogue", "format"} =>
           At(d).tape \in Tape /\ At(d).unit \in Unit
      /\ pc[d] \in {"release", "lookup", "load", "format", "export"} => want[d] \in Tape
  BY RunTypes
<1>2. MaxRuns \in Nat /\ MaxStops \in Nat /\ MaxFaults \in Nat /\ MaxCrashes \in Nat
  BY BoundsAreNat
<1> USE DEF Types, Goto, Pcs, Ensuring, catalogue, library, ensuring, running, bounds, history
<1>3. CASE \E q \in Scan : Start(d, q)
  BY <1>1, <1>2, <1>3 DEF Start, OnePlaceEach
<1>4. CASE MakePlan(d)
  <2>1. Layout(source[d]) \in Seq(Placement)
    BY <1>1, <1>4, LayoutIsSound DEF MakePlan
  <2>2. shared' \in BOOLEAN
    BY <1>4 DEF MakePlan
  <2>. QED
    BY <1>1, <1>4, <2>1, <2>2 DEF MakePlan, OnePlaceEach
<1>5. CASE NoPlan(d)
  BY <1>1, <1>5 DEF NoPlan, OnePlaceEach
<1>6. CASE NextPlacement(d)
  <2>1. At(d).tape \in Tape
    BY <1>1, <1>6, CurrentPlacement DEF NextPlacement
  <2>. QED
    BY <1>1, <1>6, <2>1 DEF NextPlacement, Ensure, OnePlaceEach
<1>7. CASE EndLoop(d)
  BY <1>1, <1>7 DEF EndLoop, Done, OnePlaceEach
<1>7a. CASE Break(d)
  <2>1. stops' \in 0 .. MaxStops
    BY <1>1, <1>2, <1>7a DEF Break
  <2>. QED
    BY <1>1, <1>7a, <2>1 DEF Break, Done, OnePlaceEach
<1>8. CASE Skip(d)
  BY <1>1, <1>8 DEF Skip, Advance, OnePlaceEach
<1>9. CASE Copy(d)
  <2>1. files' \in [Tape -> SUBSET Unit]
    BY <1>1, <1>9 DEF Copy, In
  <2>. QED
    BY <1>1, <1>9, <2>1 DEF Copy, OnePlaceEach
<1>10. CASE Catalogue(d)
  <2>1. Span(At(d).unit, At(d).tape) \in SpanType
    BY <1>1, <1>10 DEF Catalogue, SpanType
  <2>2. spans' = spans \cup {Span(At(d).unit, At(d).tape)}
    BY <1>10 DEF Catalogue
  <2>2a. IsFiniteSet(spans')
    <3>1. IsFiniteSet(spans)
      BY <1>1
    <3>. QED
      BY <2>2, <3>1, FS_AddElement, Zenon
  <2>2b. spans' \in SUBSET SpanType
    BY <1>1, <2>1, <2>2
  <2>. QED
    BY <1>1, <1>10, <2>2a, <2>2b DEF Catalogue, Advance, OnePlaceEach
<1>11. CASE Finalise(d)
  <2>1. \A t \in Tape : Total(t) \in Nat
    BY <1>1, TotalIsNat
  <2>. QED
    BY <1>1, <1>11, <2>1 DEF Finalise, Finalised, OnePlaceEach
<1>12. CASE NextCsv(d)
  BY <1>1, <1>12 DEF NextCsv, Ensure, OnePlaceEach
<1>13. CASE Export(d)
  BY <1>1, <1>13 DEF Export, OnePlaceEach
<1>13a. CASE EndCsv(d)
  BY <1>1, <1>13a DEF EndCsv, OnePlaceEach
<1>14. CASE Swap(d)
  <2>1. place' \in [Tape -> Slot \cup Drive] /\ OnePlaceEach'
    BY <1>1, <1>14, UnloadsMoves DEF Swap
  <2>. QED
    BY <1>1, <1>14, <2>1 DEF Swap
<1>15. CASE LookUp(d)
  BY <1>1, <1>15 DEF LookUp, OnePlaceEach
<1>16. CASE Load(d)
  <2>1. place' \in [Tape -> Slot \cup Drive] /\ OnePlaceEach'
    BY <1>1, <1>16, LoadsMoves DEF Load, RunSound
  <2>. QED
    BY <1>1, <1>16, <2>1 DEF Load
<1>17. CASE Format(d)
  <2>1. files' \in [Tape -> SUBSET Unit]
    BY <1>1, <1>17 DEF Format, Wipes
  <2>. QED
    BY <1>1, <1>17, <2>1 DEF Format, OnePlaceEach
<1>18. CASE Refused(d)
  <2>1. Raise(d) /\ UNCHANGED <<place, loaded, faults>>
    BY <1>18 DEF Refused
  <2>. QED
    BY <1>1, <2>1, RaiseTypes, RaiseLeaves DEF OnePlaceEach
<1>19. CASE Close(d)
  <2>1. place' \in [Tape -> Slot \cup Drive] /\ OnePlaceEach'
    BY <1>1, <1>19, UnloadsMoves DEF Close, OnePlaceEach
  <2>. QED
    BY <1>1, <1>19, <2>1, ForgetTypes DEF Close
<1>20. CASE UnloadFails(d)
  <2>1. place' \in [Tape -> Slot \cup Drive] /\ OnePlaceEach'
    BY <1>1, <1>20, UnloadsMoves DEF UnloadFails, OnePlaceEach
  <2>2. faults' \in 0 .. MaxFaults
    BY <1>1, <1>2, <1>20 DEF UnloadFails
  <2>3. /\ plan' \in [Drive -> Seq(Placement)] /\ pos' \in [Drive -> Nat \ {0}]
        /\ csv' \in [Drive -> SUBSET Tape] /\ want' \in [Drive -> Tape \cup {NoTape}]
        /\ slot' \in [Drive -> Slot \cup {0}] /\ formatted' \in [Drive -> SUBSET Tape]
        /\ touched' \in [Drive -> SUBSET Tape] /\ pc' \in [Drive -> Pcs]
        /\ loaded' \in [Drive -> Tape \cup {NoTape}]
    <3>1. CASE pc[d] = "release"
      BY <1>1, <1>20, <3>1 DEF UnloadFails
    <3>2. CASE pc[d] = "close"
      BY <1>1, <1>20, <3>2, ForgetTypes DEF UnloadFails
    <3>. QED
      BY <1>20, <3>1, <3>2 DEF UnloadFails
  <2>. QED
    BY <1>1, <1>20, <2>1, <2>2, <2>3 DEF UnloadFails
<1>21. CASE LoadFails(d)
  <2>1. place' \in [Tape -> Slot \cup Drive] /\ OnePlaceEach'
    BY <1>1, <1>21, LoadsMoves DEF LoadFails, RunSound, OnePlaceEach
  <2>2. faults' \in 0 .. MaxFaults
    BY <1>1, <1>2, <1>21 DEF LoadFails
  <2>. QED
    BY <1>1, <1>21, <2>1, <2>2, RaiseTypes, RaiseLeaves DEF LoadFails
<1>22. CASE MountFails(d)
  <2>1. faults' \in 0 .. MaxFaults
    BY <1>1, <1>2, <1>22 DEF MountFails
  <2>. QED
    BY <1>1, <1>22, <2>1, RaiseTypes, RaiseLeaves DEF MountFails, OnePlaceEach
<1>22a. CASE ExportFails(d)
  <2>1. faults' \in 0 .. MaxFaults
    BY <1>1, <1>2, <1>22a DEF ExportFails
  <2>. QED
    BY <1>1, <1>22a, <2>1 DEF ExportFails, OnePlaceEach
<1>22b. CASE SessionFails(d)
  <2>1. place' \in [Tape -> Slot \cup Drive] /\ OnePlaceEach'
    <3>1. CASE UNCHANGED place
      BY <1>1, <3>1 DEF OnePlaceEach
    <3>2. CASE pc[d] = "load" /\ Loadable(d) /\ Loads(d)
      BY <1>1, <3>2, LoadsMoves DEF RunSound
    <3>3. CASE Unloads(d)
      BY <1>1, <3>3, UnloadsMoves
    <3>. QED
      BY <1>22b, <3>1, <3>2, <3>3 DEF SessionFails
  <2>2. behind' \in SUBSET Tape /\ faults' \in 0 .. MaxFaults
    BY <1>1, <1>22b, SessionFailsEnds
  <2>3. /\ pc' \in [Drive -> Pcs] /\ loaded' \in [Drive -> Tape \cup {NoTape}]
        /\ result' \in [Drive -> {"none", "completed", "stopped", "failed"}]
    BY <1>1, <1>22b DEF SessionFails
  <2>4. Forget(d)
    BY <1>22b DEF SessionFails
  <2>. QED
    BY <1>1, <1>22b, <2>1, <2>2, <2>3, <2>4, ForgetTypes DEF SessionFails
<1>23. CASE OperatorUnloads(d)
  BY <1>1, <1>23, UnloadsMoves DEF OperatorUnloads
<1>. QED
  BY <1>3, <1>4, <1>5, <1>6, <1>7, <1>8, <1>9, <1>10, <1>11, <1>12, <1>13, <1>14, <1>15,
     <1>16, <1>17, <1>18, <1>19, <1>20, <1>21, <1>22, <1>22a, <1>22b, <1>23, <1>7a, <1>13a, Zenon
     DEF DriveStep, RunStep, FaultStep
-----------------------------------------------------------------------------
(* What a step leaves alone.                                               *)

(* The local variables of the run in e. *)
Untouched(e) ==
  /\ pc'[e] = pc[e] /\ source'[e] = source[e] /\ plan'[e] = plan[e] /\ pos'[e] = pos[e]
  /\ csv'[e] = csv[e] /\ want'[e] = want[e] /\ slot'[e] = slot[e]
  /\ loaded'[e] = loaded[e] /\ formatted'[e] = formatted[e]
  /\ touched'[e] = touched[e] /\ result'[e] = result[e]

LEMMA OthersStay ==
  ASSUME Types, NEW d \in Drive, DriveStep(d), NEW e \in Drive, e # d
  PROVE  Untouched(e)
<1> USE DEF Types, Goto, Untouched, catalogue, library, ensuring, running, bounds, history
<1>1. CASE \E q \in Scan : Start(d, q)
  BY <1>1 DEF Start
<1>2. CASE MakePlan(d) \/ NoPlan(d) \/ NextPlacement(d) \/ EndLoop(d) \/ Break(d)
  BY <1>2 DEF MakePlan, NoPlan, NextPlacement, Ensure, EndLoop, Break, Done
<1>3. CASE Skip(d) \/ Copy(d) \/ Catalogue(d) \/ Finalise(d)
  BY <1>3 DEF Skip, Advance, Copy, Catalogue, Finalise, Finalised
<1>4. CASE NextCsv(d) \/ Export(d) \/ EndCsv(d) \/ Swap(d) \/ LookUp(d)
  BY <1>4 DEF NextCsv, Ensure, Export, EndCsv, Swap, LookUp
<1>5. CASE Load(d) \/ Format(d) \/ Close(d) \/ OperatorUnloads(d)
  BY <1>5 DEF Load, Format, Close, Forget, OperatorUnloads
<1>6. CASE UnloadFails(d)
  BY <1>6 DEF UnloadFails, Forget
<1>7. CASE Refused(d) \/ LoadFails(d) \/ MountFails(d)
  BY <1>7 DEF Refused, LoadFails, MountFails, Raise
<1>8. CASE ExportFails(d) \/ SessionFails(d)
  BY <1>8 DEF ExportFails, SessionFails, Forget
<1>. QED
  BY <1>1, <1>2, <1>3, <1>4, <1>5, <1>6, <1>7, <1>8, Zenon DEF DriveStep, RunStep, FaultStep

(* Only Catalogue adds to the spans, and nothing takes from the tapes that *)
(* were left behind or from the count of the faults.                       *)
LEMMA HistoryGrows ==
  ASSUME Types, NEW d \in Drive, DriveStep(d)
  PROVE  /\ spans \subseteq spans' /\ (pc[d] # "catalogue" => spans' = spans)
         /\ behind \subseteq behind'
         /\ crashes' = crashes /\ faults \in Nat /\ faults' \in Nat /\ faults <= faults'
<1> USE DEF Types, Goto, catalogue, library, ensuring, running, bounds, history
<1>0. faults \in Nat /\ faults <= faults + 1 /\ faults + 1 \in Nat /\ faults <= faults
  BY BoundsAreNat
<1>1. CASE \E q \in Scan : Start(d, q)
  BY <1>0, <1>1 DEF Start
<1>2. CASE MakePlan(d) \/ NoPlan(d) \/ NextPlacement(d) \/ EndLoop(d) \/ Break(d)
  BY <1>0, <1>2 DEF MakePlan, NoPlan, NextPlacement, Ensure, EndLoop, Break, Done
<1>3. CASE Skip(d) \/ Copy(d) \/ Catalogue(d) \/ Finalise(d)
  BY <1>0, <1>3 DEF Skip, Advance, Copy, Catalogue, Finalise, Finalised
<1>4. CASE NextCsv(d) \/ Export(d) \/ EndCsv(d) \/ Swap(d) \/ LookUp(d)
  BY <1>0, <1>4 DEF NextCsv, Ensure, Export, EndCsv, Swap, LookUp
<1>5. CASE Load(d) \/ Format(d) \/ Close(d) \/ OperatorUnloads(d)
  BY <1>0, <1>5 DEF Load, Format, Close, Forget, OperatorUnloads
<1>6. CASE UnloadFails(d)
  BY <1>0, <1>6 DEF UnloadFails, Forget
<1>7. CASE Refused(d) \/ LoadFails(d) \/ MountFails(d)
  BY <1>0, <1>7 DEF Refused, LoadFails, MountFails, Raise
<1>8. CASE ExportFails(d) \/ SessionFails(d)
  BY <1>0, <1>8 DEF ExportFails, SessionFails, Forget
<1>. QED
  BY <1>1, <1>2, <1>3, <1>4, <1>5, <1>6, <1>7, <1>8, Zenon DEF DriveStep, RunStep, FaultStep
-----------------------------------------------------------------------------
(* The local variables of a run stay sound.                                *)

LEMMA RunStaysSound ==
  ASSUME IInv, NEW d \in Drive, DriveStep(d), NEW e \in Drive
  PROVE  RunSound(e)'
<1>0. /\ Types /\ OnePlaceEach /\ RunSound(d) /\ RunSound(e)
      /\ pc[d] \in {"copy", "catalogue", "format"} => At(d).tape \in Tapes(plan[d])
  <2>1. RunSound(d) /\ RunSound(e) /\ FormatSound(d) /\ Types /\ OnePlaceEach
    BY DEF IInv
  <2>. QED
    BY <2>1, CurrentPlacement DEF RunSound, FormatSound, Ensuring
<1>1. CASE e # d
  BY <1>0, <1>1, OthersStay DEF Untouched, RunSound, At, Tapes
<1>2. CASE e = d
  <2> SUFFICES RunSound(d)'
    BY <1>2
  <2> USE <1>0
  <2>0. Types' /\ csv[d] \in SUBSET Tape /\ touched[d] \in SUBSET Tape
    BY TypesStay DEF Types
  <2> USE DEF RunSound, At, Tapes, Ensuring, Goto,
            catalogue, library, ensuring, running, bounds, history
  <2>1. CASE \E q \in Scan : Start(d, q)
    BY <2>0, <2>1 DEF Types, Start
  <2>2. CASE MakePlan(d)
    <3>1. /\ plan'[d] = Layout(source[d]) /\ source' = source /\ pos'[d] = 1
          /\ pc'[d] = "check" /\ csv'[d] = {} /\ touched'[d] = {} /\ loaded'[d] = NoTape
      BY <2>2 DEF MakePlan, Types
    <3>2. /\ Len(Layout(source[d])) = Len(source[d])
          /\ \A k \in 1 .. Len(source[d]) : Layout(source[d])[k].unit = source[d][k]
      BY <2>2, LayoutIsSound DEF MakePlan
    <3>. QED
      BY <3>1, <3>2
  <2>3. CASE NoPlan(d)
    BY <2>3 DEF NoPlan, Types
  <2>4. CASE NextPlacement(d)
    BY <2>4 DEF NextPlacement, Ensure, Types
  <2>5. CASE EndLoop(d)
    BY <2>5 DEF EndLoop, Done, Types
  <2>5a. CASE Break(d)
    BY <2>5a DEF Break, Done, Types
  <2>6. CASE Skip(d)
    BY <2>6 DEF Skip, Advance, Types
  <2>7. CASE Copy(d)
    BY <2>7 DEF Copy, Types
  <2>8. CASE Catalogue(d)
    BY <2>8 DEF Catalogue, Advance, Types
  <2>9. CASE Finalise(d)
    BY <2>9 DEF Finalise, Finalised, Types
  <2>10. CASE NextCsv(d)
    BY <2>10 DEF NextCsv, Ensure, Types
  <2>11. CASE Export(d)
    BY <2>0, <2>11 DEF Export, Types
  <2>12. CASE EndCsv(d)
    BY <2>12 DEF EndCsv, Types
  <2>13. CASE Swap(d)
    BY <2>13 DEF Swap, Types
  <2>14. CASE LookUp(d)
    BY <2>14 DEF LookUp, Types
  <2>15. CASE Load(d)
    BY <2>15 DEF Load, Types, FormatSound, MustFormat
  <2>16. CASE Format(d)
    BY <2>16 DEF Format, Types
  <2>17. CASE Close(d)
    BY <2>17 DEF Close, Forget, Types
  <2>18. CASE UnloadFails(d)
    <3>1. CASE pc[d] = "release"
      <4>1. /\ csv' = csv /\ want' = want /\ slot' = slot /\ plan' = plan /\ pos' = pos
            /\ touched' = touched /\ source' = source
            /\ loaded'[d] = NoTape /\ pc'[d] = "lookup"
        BY <2>18, <3>1 DEF UnloadFails, Types
      <4>. QED
        BY <3>1, <4>1
    <3>2. CASE pc[d] = "close"
      BY <2>18, <3>2 DEF UnloadFails, Forget, Types
    <3>. QED
      BY <2>18, <3>1, <3>2 DEF UnloadFails
  <2>19. ASSUME Raise(d), loaded' = loaded,
                pc[d] \in {"lookup", "load", "format", "copy", "export"}
         PROVE  RunSound(d)'
    <3>1. /\ plan'[d] = plan[d] /\ source'[d] = source[d] /\ touched'[d] = touched[d]
          /\ pc'[d] \in {"csv", "close"} /\ csv'[d] \subseteq csv[d]
          /\ csv[d] = {} => csv'[d] = {}
          /\ csv[d] # {} => pc'[d] = "csv"
      BY <2>19 DEF Raise, Types
    <3>. QED
      BY <2>0, <2>19, <3>1
  <2>20. CASE Refused(d) \/ LoadFails(d) \/ MountFails(d)
    BY <2>19, <2>20 DEF Refused, NotInSlot, NotLoadable, TapeFull, LoadFails, MountFails
  <2>20a. CASE ExportFails(d)
    BY <2>20a DEF ExportFails, Types
  <2>20b. CASE SessionFails(d)
    BY <2>20b, SessionFailsEnds
  <2>21. CASE OperatorUnloads(d)
    BY <2>21 DEF OperatorUnloads, Types
  <2>. QED
    BY <2>1, <2>2, <2>3, <2>4, <2>5, <2>5a, <2>6, <2>7, <2>8, <2>9, <2>10, <2>11, <2>12, <2>13,
       <2>14, <2>15, <2>16, <2>17, <2>18, <2>20, <2>20a, <2>20b, <2>21, Zenon DEF DriveStep, RunStep, FaultStep
<1>. QED
  BY <1>1, <1>2

LEMMA FormatStaysSound ==
  ASSUME IInv, NEW d \in Drive, DriveStep(d), NEW e \in Drive
  PROVE  FormatSound(e)'
<1>0. /\ Types /\ RunSound(d) /\ FormatSound(d) /\ FormatSound(e)
      /\ \A k \in 1 .. Len(plan[d]) : plan[d][k].tape # NoTape
      /\ pc[d] \in {"load", "format"} /\ csv[d] = {} =>
           want[d] = plan[d][pos[d]].tape /\ pos[d] \in 1 .. Len(plan[d])
  <2>1. RunSound(d) /\ FormatSound(d) /\ FormatSound(e) /\ Types
    BY DEF IInv
  <2>. QED
    BY <2>1, CurrentPlacement, PlanTapes, TapeIds DEF RunSound, FormatSound, Ensuring, At
<1>1. CASE e # d
  BY <1>0, <1>1, OthersStay DEF Untouched, FormatSound, MustFormat, At
<1>2. CASE e = d
  <2> SUFFICES FormatSound(d)'
    BY <1>2
  <2> USE <1>0
  <2> USE DEF FormatSound, MustFormat, At, Goto,
            catalogue, library, ensuring, running, bounds, history
  <2>1. CASE \E q \in Scan : Start(d, q)
    BY <2>1 DEF Types, Start, RunSound
  <2>2. CASE MakePlan(d)
    <3>1. /\ plan'[d] = Layout(source[d]) /\ pc'[d] = "check" /\ loaded'[d] = NoTape
      BY <2>2 DEF MakePlan, Types, RunSound
    <3>2. /\ Len(Layout(source[d])) = Len(source[d])
          /\ \A k \in 1 .. Len(source[d]) :
               /\ Layout(source[d])[k].tape \in Tape
               /\ Layout(source[d])[k].format = (status[Layout(source[d])[k].tape] = "scratch")
      BY <2>2, LayoutIsSound DEF MakePlan, Views
    <3>3. NoTape \notin Tape
      BY TapeIds
    <3>4. \A k \in 1 .. Len(plan'[d]) :
            /\ plan'[d][k].tape # loaded'[d]
            /\ plan'[d][k].format = (status[plan'[d][k].tape] = "scratch")
      BY <3>1, <3>2, <3>3
    <3>. QED
      BY <3>1, <3>4
  <2>3. CASE NoPlan(d)
    BY <2>3 DEF NoPlan, Types
  <2>4. CASE NextPlacement(d)
    BY <2>4 DEF NextPlacement, Ensure, Types
  <2>5. CASE EndLoop(d)
    BY <2>5 DEF EndLoop, Done, Types
  <2>5a. CASE Break(d)
    BY <2>5a DEF Break, Done, Types
  <2>6. CASE Skip(d)
    BY <2>6 DEF Skip, Advance, Types
  <2>7. CASE Copy(d)
    BY <2>7 DEF Copy, Types
  <2>8. CASE Catalogue(d)
    BY <2>8 DEF Catalogue, Advance, Types
  <2>9. CASE Finalise(d)
    BY <2>9 DEF Finalise, Finalised, Types
  <2>10. CASE NextCsv(d)
    BY <2>10 DEF NextCsv, Ensure, Types
  <2>11. CASE Export(d)
    BY <2>11 DEF Export, Types
  <2>12. CASE EndCsv(d)
    BY <2>12 DEF EndCsv, Types
  <2>13. CASE Swap(d)
    BY <2>13 DEF Swap, Types
  <2>14. CASE LookUp(d)
    BY <2>14 DEF LookUp, Types
  <2>15. CASE Load(d)
    <3>1. /\ plan' = plan /\ pos' = pos /\ csv' = csv /\ want' = want /\ formatted' = formatted
          /\ loaded'[d] = want[d] /\ pc[d] = "load"
          /\ pc'[d] = IF csv[d] # {} THEN "export"
                      ELSE IF plan[d][pos[d]].format /\ want[d] \notin formatted[d]
                           THEN "format" ELSE "copy"
      BY <2>15 DEF Load, Types
    <3>. QED
      BY <3>1
  <2>16. CASE Format(d)
    <3>1. loaded[d] = want[d]
      BY <2>16 DEF Format, RunSound
    <3>. QED
      BY <2>16, <3>1 DEF Format, Types
  <2>17. CASE Close(d)
    BY <2>17 DEF Close, Forget, Types
  <2>18. CASE UnloadFails(d)
    <3>1. CASE pc[d] = "release"
      BY <2>18, <3>1 DEF UnloadFails, Types
    <3>2. CASE pc[d] = "close"
      BY <2>18, <3>2 DEF UnloadFails, Forget, Types
    <3>. QED
      BY <2>18, <3>1, <3>2 DEF UnloadFails
  <2>20. CASE Refused(d) \/ LoadFails(d) \/ MountFails(d)
    <3>1. plan'[d] = plan[d] /\ pc'[d] \in {"csv", "close"}
      BY <2>20 DEF Refused, LoadFails, MountFails, Raise, Types
    <3>. QED
      BY <3>1
  <2>20a. CASE ExportFails(d)
    BY <2>20a DEF ExportFails, Types
  <2>20b. CASE SessionFails(d)
    BY <2>20b, SessionFailsEnds
  <2>21. CASE OperatorUnloads(d)
    BY <2>21 DEF OperatorUnloads, Types
  <2>. QED
    BY <2>1, <2>2, <2>3, <2>4, <2>5, <2>5a, <2>6, <2>7, <2>8, <2>9, <2>10, <2>11, <2>12, <2>13,
       <2>14, <2>15, <2>16, <2>17, <2>18, <2>20, <2>20a, <2>20b, <2>21, Zenon DEF DriveStep, RunStep, FaultStep
<1>. QED
  BY <1>1, <1>2

LEMMA SpanFields ==
  ASSUME NEW u, NEW t
  PROVE  Span(u, t).folder = Folder[u] /\ Span(u, t).tape = t /\ Span(u, t).unit = u
BY DEF Span

LEMMA CatalogueStaysSound ==
  ASSUME IInv, NEW d \in Drive, DriveStep(d), NEW e \in Drive
  PROVE  CatalogueSound(e)'
<1>0. /\ Types /\ RunSound(d) /\ CatalogueSound(d) /\ CatalogueSound(e)
      /\ pc[d] \in {"copy", "catalogue"} => At(d).tape \in Tape /\ At(d).unit \in Unit
  BY RunTypes DEF IInv
<1>1. spans \subseteq spans'
  BY <1>0, HistoryGrows
<1>2. CASE e # d
  BY <1>0, <1>1, <1>2, OthersStay DEF Untouched, CatalogueSound, Catalogued, SpansOn
<1>3. CASE e = d
  <2> SUFFICES CatalogueSound(d)'
    BY <1>3
  <2> USE <1>0, <1>1
  <2> USE DEF CatalogueSound, Catalogued, SpansOn, Goto,
            catalogue, library, ensuring, running, bounds, history
  <2>1. ASSUME touched'[d] \subseteq touched[d], plan'[d] = plan[d], pos'[d] = pos[d],
               source'[d] = source[d], pc[d] \notin {"idle", "plan"} \/ pc'[d] = pc[d],
               result'[d] \in {result[d], "stopped", "failed"}
        PROVE  CatalogueSound(d)'
    BY <2>1
  <2>0. pos[d] \in Nat /\ Len(plan[d]) \in Nat
    <3>1. plan[d] \in Seq(Placement)
      BY DEF Types
    <3>. QED
      BY <3>1 DEF Types
  <2>1a. ASSUME touched'[d] = touched[d] \cup {At(d).tape},
                plan'[d] = plan[d], pos'[d] = pos[d] + 1,
                source'[d] = source[d], pc[d] \notin {"idle", "plan"},
                result'[d] = result[d],
                \E s \in spans' : s.tape = At(d).tape /\ s.folder = Folder[At(d).unit]
         PROVE  CatalogueSound(d)'
    <3>1. \A v \in touched'[d] : \E s \in spans' : s.tape = v
      BY <2>1a
    <3>2. ASSUME NEW k \in 1 .. Len(plan[d]), k < pos[d] + 1
          PROVE  \E s \in spans' : s.folder = Folder[plan[d][k].unit]
      <4>1. k < pos[d] \/ k = pos[d]
        BY <2>0, <3>2
      <4>2. CASE k < pos[d]
        BY <2>1a, <4>2
      <4>3. CASE k = pos[d]
        BY <2>1a, <4>3 DEF At
      <4>. QED
        BY <4>1, <4>2, <4>3
    <3>3. ASSUME result[d] = "completed", NEW k \in 1 .. Len(source[d])
          PROVE  \E s \in spans' : s.folder = Folder[source[d][k]]
      BY <2>1a, <3>3
    <3>. QED
      BY <2>1a, <3>1, <3>2, <3>3
  <2>2. CASE \E q \in Scan : Start(d, q)
    BY <2>2 DEF Types, Start, RunSound
  <2>3. CASE MakePlan(d)
    BY <2>3 DEF MakePlan, Types
  <2>4. CASE NoPlan(d)
    BY <2>4 DEF NoPlan, Types
  <2>5. CASE EndLoop(d)
    <3>1. \A k \in 1 .. Len(plan[d]) : Catalogued(plan[d][k].unit)
      <4>1. \A k \in 1 .. Len(plan[d]) : k < pos[d]
        BY <2>0, <2>5 DEF EndLoop
      <4>. QED
        BY <2>5, <4>1 DEF EndLoop
    <3>2. \A k \in 1 .. Len(source[d]) : Catalogued(source[d][k])
      BY <2>5, <3>1 DEF EndLoop, RunSound
    <3>. QED
      BY <2>5, <3>2 DEF EndLoop, Done, Types
  <2>6. CASE Skip(d)
    <3>1. \E s \in spans' : s.tape = At(d).tape /\ s.folder = Folder[At(d).unit]
      BY <2>6 DEF Skip, Exists
    <3>2. /\ touched'[d] = touched[d] \cup {At(d).tape} /\ pos'[d] = pos[d] + 1
          /\ plan' = plan /\ source' = source /\ result' = result /\ pc[d] = "copy"
      BY <2>6 DEF Skip, Advance, Types
    <3>. QED
      BY <2>1a, <3>1, <3>2
  <2>7. CASE Catalogue(d)
    <3>1. \E s \in spans' : s.tape = At(d).tape /\ s.folder = Folder[At(d).unit]
      BY <2>7, SpanFields DEF Catalogue
    <3>2. /\ touched'[d] = touched[d] \cup {At(d).tape} /\ pos'[d] = pos[d] + 1
          /\ plan' = plan /\ source' = source /\ result' = result /\ pc[d] = "catalogue"
      BY <2>7 DEF Catalogue, Advance, Types
    <3>. QED
      BY <2>1a, <3>1, <3>2
  <2>8. CASE Close(d) \/ (UnloadFails(d) /\ pc[d] = "close")
    <3>1. /\ touched'[d] = {} /\ pc'[d] = "idle"
          /\ source'[d] = source[d] /\ result'[d] = result[d]
      BY <2>8 DEF Close, UnloadFails, Forget, Types
    <3>. QED
      BY <3>1
  <2>9. CASE NextPlacement(d) \/ Break(d) \/ Copy(d) \/ Finalise(d)
    BY <2>1, <2>9 DEF NextPlacement, Ensure, Break, Done, Copy, Finalise, Finalised, Types
  <2>10. CASE NextCsv(d) \/ Export(d) \/ EndCsv(d) \/ Swap(d) \/ LookUp(d)
    BY <2>1, <2>10 DEF NextCsv, Ensure, Export, EndCsv, Swap, LookUp
  <2>11. CASE Load(d) \/ Format(d) \/ OperatorUnloads(d) \/ (UnloadFails(d) /\ pc[d] = "release")
    BY <2>1, <2>11 DEF Load, Format, OperatorUnloads, UnloadFails
  <2>12. CASE Refused(d) \/ LoadFails(d) \/ MountFails(d)
    BY <2>1, <2>12 DEF Refused, NotInSlot, NotLoadable, TapeFull, LoadFails, MountFails, Raise, Types
  <2>13. CASE ExportFails(d)
    BY <2>1, <2>13 DEF ExportFails, Types
  <2>14. CASE SessionFails(d)
    BY <2>14, SessionFailsEnds
  <2>. QED
    BY <2>2, <2>3, <2>4, <2>5, <2>6, <2>7, <2>8, <2>9, <2>10, <2>11, <2>12, <2>13, <2>14, Zenon
       DEF DriveStep, RunStep, FaultStep, UnloadFails
<1>. QED
  BY <1>2, <1>3
-----------------------------------------------------------------------------
(* The rows and the drives stay sound.                                     *)

(* A run does not forget a tape it has not finalised, but leaves it behind. *)
LEMMA UnfinishedStays ==
  ASSUME IInv, NEW d \in Drive, DriveStep(d), ~Finalise(d)
  PROVE  Unfinished(d) \subseteq Unfinished(d)' \cup behind'
<1>0. Types /\ RunSound(d)
  BY DEF IInv
<1>1. ASSUME ~Relying(d)
      PROVE  Unfinished(d) \subseteq Unfinished(d)' \cup behind'
  BY <1>1 DEF Unfinished
<1>2. ASSUME Relying(d), Relying(d)', touched[d] \subseteq touched'[d], pc[d] # "catalogue"
      PROVE  Unfinished(d) \subseteq Unfinished(d)' \cup behind'
  BY <1>2 DEF Unfinished
<1> USE <1>0
<1> USE DEF Goto, catalogue, library, ensuring, running, bounds, history
<1>3. CASE (\E q \in Scan : Start(d, q)) \/ MakePlan(d) \/ NoPlan(d) \/ NextCsv(d) \/ Export(d)
           \/ EndCsv(d) \/ Close(d) \/ OperatorUnloads(d)
  <2>1. ~Relying(d)
    BY <1>3 DEF Start, MakePlan, NoPlan, NextCsv, Export, EndCsv, Close, OperatorUnloads, Relying
  <2>. QED
    BY <1>1, <2>1
<1>4. CASE NextPlacement(d) \/ EndLoop(d) \/ Break(d) \/ Copy(d) \/ Skip(d)
  <2>1. /\ csv' = csv /\ touched[d] \subseteq touched'[d] /\ pc[d] \in {"check", "copy"}
        /\ pc'[d] \in {"check", "copy", "lookup", "release", "finalise", "catalogue"}
    BY <1>4 DEF NextPlacement, Ensure, EndLoop, Break, Done, Copy, Skip, Advance, Types
  <2>. QED
    BY <1>1, <1>2, <2>1 DEF Relying
<1>5. CASE Swap(d) \/ LookUp(d) \/ Load(d) \/ Format(d) \/ (UnloadFails(d) /\ pc[d] = "release")
  <2>1. /\ csv' = csv /\ touched' = touched /\ pc[d] \in {"release", "lookup", "load", "format"}
        /\ pc'[d] \in {"lookup", "load", "format", "copy", "export"}
        /\ pc'[d] = "export" => csv[d] # {}
    BY <1>5 DEF Swap, LookUp, Load, Format, UnloadFails, Types
  <2>. QED
    BY <1>1, <1>2, <2>1 DEF Relying
<1>6. CASE Catalogue(d)
  <2>1. /\ csv' = csv /\ touched'[d] = touched[d] \cup {At(d).tape}
        /\ pc[d] = "catalogue" /\ pc'[d] = "check"
    BY <1>6 DEF Catalogue, Advance, Types
  <2>. QED
    BY <2>1 DEF Unfinished, Relying
<1>7. CASE Refused(d) \/ LoadFails(d) \/ MountFails(d)
  <2>1. csv[d] # {} \/ Unfinished(d) \subseteq behind'
    BY <1>7 DEF Refused, LoadFails, MountFails, Raise
  <2>. QED
    BY <1>1, <2>1 DEF Relying
<1>8. CASE UnloadFails(d) /\ pc[d] = "close"
  BY <1>1, <1>8 DEF Relying
<1>9. CASE ExportFails(d)
  BY <1>0, <1>1, <1>9 DEF ExportFails, Relying, RunSound
<1>10. CASE SessionFails(d)
  BY <1>10, SessionFailsEnds
<1>. QED
  BY <1>3, <1>4, <1>5, <1>6, <1>7, <1>8, <1>9, <1>10, Zenon DEF DriveStep, RunStep, FaultStep, UnloadFails

(* The rows change in two steps only. *)
LEMMA RowsChange ==
  ASSUME Types, NEW d \in Drive, DriveStep(d), ~Catalogue(d), ~Finalise(d)
  PROVE  UNCHANGED <<status, used, spans>>
<1> USE DEF catalogue, library, ensuring, running, bounds, history
<1>1. CASE (\E q \in Scan : Start(d, q)) \/ MakePlan(d) \/ NoPlan(d) \/ NextPlacement(d)
           \/ EndLoop(d) \/ Break(d)
  BY <1>1 DEF Start, MakePlan, NoPlan, NextPlacement, EndLoop, Break, Done
<1>2. CASE Skip(d) \/ Copy(d) \/ NextCsv(d) \/ Export(d) \/ EndCsv(d) \/ Swap(d) \/ LookUp(d)
  BY <1>2 DEF Skip, Copy, NextCsv, Export, EndCsv, Swap, LookUp
<1>3. CASE Load(d) \/ Format(d) \/ Close(d) \/ OperatorUnloads(d) \/ UnloadFails(d)
  BY <1>3 DEF Load, Format, Close, OperatorUnloads, UnloadFails
<1>4. CASE Refused(d) \/ LoadFails(d) \/ MountFails(d)
  BY <1>4 DEF Refused, NotInSlot, NotLoadable, TapeFull, LoadFails, MountFails, Raise
<1>5. CASE ExportFails(d)
  BY <1>5 DEF ExportFails
<1>6. CASE SessionFails(d)
  BY <1>6 DEF SessionFails
<1>. QED
  BY <1>1, <1>2, <1>3, <1>4, <1>5, <1>6, Zenon DEF DriveStep, RunStep, FaultStep

RowSound(t) ==
  /\ used[t] = Total(t)
  /\ status[t] = "scratch" <=> SpansOn(t) = {}
  /\ status[t] = "full" <=> Total(t) >= Capacity

LEMMA RowsStaySound ==
  ASSUME IInv, NEW d \in Drive, DriveStep(d)
  PROVE  RowsSound'
<1>0. Types /\ RunSound(d) /\ CatalogueSound(d) /\ RowsSound
  BY DEF IInv
<1>1. SUFFICES ASSUME NEW t \in Tape \ behind', \A e \in Drive : t \notin Unfinished(e)'
               PROVE  RowSound(t)'
  BY DEF RowsSound, RowSound
<1>2. t \notin behind
  BY <1>0, HistoryGrows
<1>3. \A e \in Drive \ {d} : t \notin Unfinished(e)
  <2>1. \A e \in Drive \ {d} : Unfinished(e)' = Unfinished(e)
    BY <1>0, OthersStay DEF Untouched, Unfinished, Relying, At
  <2>. QED
    BY <1>1, <2>1
<1>4. t \notin Unfinished(d) => RowSound(t)
  BY <1>0, <1>1, <1>2, <1>3 DEF RowsSound, RowSound
<1>5. CASE Finalise(d)
  <2>1. /\ used' = [v \in Tape |-> IF v \in touched[d] THEN Total(v) ELSE used[v]]
        /\ status' = [v \in Tape |-> IF v \notin touched[d] THEN status[v]
                                     ELSE IF Total(v) >= Capacity THEN "full" ELSE "active"]
        /\ spans' = spans /\ pc[d] = "finalise"
    BY <1>5 DEF Finalise, Finalised
  <2>2. Total(t)' = Total(t) /\ SpansOn(t)' = SpansOn(t)
    BY <2>1 DEF Total, SpansOn
  <2>3. CASE t \in touched[d]
    <3>1. SpansOn(t) # {}
      BY <1>0, <2>3 DEF CatalogueSound
    <3>. QED
      BY <2>1, <2>2, <2>3, <3>1 DEF RowSound
  <2>4. CASE t \notin touched[d]
    <3>1. t \notin Unfinished(d)
      BY <2>1, <2>4 DEF Unfinished
    <3>. QED
      BY <1>4, <2>1, <2>2, <2>4, <3>1 DEF RowSound
  <2>. QED
    BY <2>3, <2>4
<1>6. CASE Catalogue(d)
  <2>1. /\ spans' = spans \cup {Span(At(d).unit, At(d).tape)} /\ pc[d] = "catalogue"
        /\ status' = status /\ used' = used
        /\ pc'[d] = "check" /\ csv' = csv /\ touched'[d] = touched[d] \cup {At(d).tape}
    BY <1>0, <1>6 DEF Catalogue, Advance, Goto, Types, ensuring
  <2>2. csv[d] = {}
    BY <1>0, <2>1 DEF RunSound
  <2>3. t # At(d).tape /\ t \notin Unfinished(d)
    BY <1>1, <2>1, <2>2 DEF Unfinished, Relying
  <2>4. SpansOn(t)' = SpansOn(t) /\ Total(t)' = Total(t)
    <3>1. Span(At(d).unit, At(d).tape).tape # t
      BY <2>3, SpanFields
    <3>2. SpansOn(t)' = SpansOn(t)
      BY <2>1, <3>1 DEF SpansOn
    <3>. QED
      BY <3>2 DEF Total
  <2>. QED
    BY <1>4, <2>1, <2>3, <2>4 DEF RowSound
<1>7. CASE ~Finalise(d) /\ ~Catalogue(d)
  <2>1. UNCHANGED <<status, used, spans>>
    BY <1>0, <1>7, RowsChange
  <2>2. t \notin Unfinished(d)
    BY <1>1, <1>7, UnfinishedStays
  <2>. QED
    BY <1>4, <2>1, <2>2 DEF RowSound, Total, SpansOn
<1>. QED
  BY <1>5, <1>6, <1>7

LEMMA DrivesStaySound ==
  ASSUME IInv, NEW d \in Drive, DriveStep(d)
  PROVE  DrivesSound'
<1>0. Types /\ OnePlaceEach /\ RunSound(d) /\ DrivesSound /\ (pc[d] = "load" => want[d] \in Tape)
  BY RunTypes DEF IInv
<1>1. SUFFICES ASSUME faults' = 0, crashes' = 0, NEW e \in Drive, loaded'[e] = NoTape
               PROVE  In(e)' = {}
  BY DEF DrivesSound
<1>2. faults = 0 /\ crashes = 0
  BY <1>0, <1>1, HistoryGrows
<1> USE DEF Goto, catalogue, library, ensuring, running, bounds, history
<1>3. ASSUME UNCHANGED place, loaded'[e] = loaded[e]
      PROVE  In(e)' = {}
  BY <1>0, <1>1, <1>2, <1>3 DEF DrivesSound, In
<1>4. ASSUME Unloads(d)
      PROVE  In(e)' = {}
  <2>1. CASE e = d
    BY <1>0, <1>4, <2>1, UnloadsMoves
  <2>2. CASE e # d
    <3>1. In(e)' = In(e)
      BY <1>0, <1>4, <2>2, UnloadsMoves
    <3>2. loaded[e] = NoTape
      BY <1>0, <1>1, <2>2, OthersStay DEF Untouched
    <3>. QED
      BY <1>0, <1>2, <3>1, <3>2 DEF DrivesSound
  <2>. QED
    BY <2>1, <2>2
<1>5. CASE (\E q \in Scan : Start(d, q)) \/ MakePlan(d) \/ NoPlan(d) \/ NextPlacement(d)
           \/ EndLoop(d) \/ Break(d)
  BY <1>3, <1>5 DEF Start, MakePlan, NoPlan, NextPlacement, EndLoop, Break, Done
<1>6. CASE Skip(d) \/ Copy(d) \/ Catalogue(d) \/ Finalise(d) \/ NextCsv(d) \/ Export(d) \/ EndCsv(d)
  BY <1>3, <1>6 DEF Skip, Copy, Catalogue, Finalise, NextCsv, Export, EndCsv
<1>7. CASE LookUp(d) \/ Format(d) \/ Refused(d)
  BY <1>3, <1>7 DEF LookUp, Format, Refused
<1>8. CASE Swap(d) \/ OperatorUnloads(d)
  BY <1>4, <1>8 DEF Swap, OperatorUnloads
<1>9. CASE Close(d)
  <2>1. CASE loaded[d] = NoTape
    <3>1. UNCHANGED place /\ loaded'[e] = loaded[e]
      BY <1>0, <1>9, <2>1 DEF Close, Types
    <3>. QED
      BY <1>3, <3>1
  <2>2. CASE loaded[d] # NoTape
    BY <1>4, <1>9, <2>2 DEF Close
  <2>. QED
    BY <2>1, <2>2
<1>10. CASE Load(d)
  <2>1. e # d
    <3>1. NoTape \notin Tape
      BY TapeIds
    <3>. QED
      BY <1>0, <1>1, <1>10, <3>1 DEF Load, Types
  <2>2. In(e)' = In(e)
    BY <1>0, <1>10, <2>1, LoadsMoves DEF Load, RunSound
  <2>3. loaded[e] = NoTape
    BY <1>0, <1>1, <2>1, OthersStay DEF Untouched
  <2>. QED
    BY <1>0, <1>2, <2>2, <2>3 DEF DrivesSound
<1>11. CASE FaultStep(d)
  BY <1>1, <1>2, <1>11 DEF FaultStep, UnloadFails, LoadFails, MountFails, ExportFails, SessionFails
<1>. QED
  BY <1>5, <1>6, <1>7, <1>8, <1>9, <1>10, <1>11, Zenon DEF DriveStep, RunStep
-----------------------------------------------------------------------------
(* The invariant, and what follows from it.                                *)

LEMMA StartsSound == Init => IInv
<1> SUFFICES ASSUME Init
             PROVE  IInv
  OBVIOUS
<1> USE DEF Init
<1>1. Types
  <2>1. 0 \in 0 .. MaxRuns /\ 0 \in 0 .. MaxStops /\ 0 \in 0 .. MaxFaults /\ 0 \in 0 .. MaxCrashes
    BY BoundsAreNat
  <2>2. IsFiniteSet({}) /\ <<>> \in Seq(Placement)
    BY FS_EmptySet
  <2>3. /\ status \in [Tape -> {"scratch", "active", "full"}] /\ used \in [Tape -> Nat]
        /\ place \in [Tape -> Slot \cup Drive] /\ files \in [Tape -> SUBSET Unit]
    OBVIOUS
  <2>4. /\ pc \in [Drive -> Pcs] /\ source \in [Drive -> Scan \cup {<<>>}]
        /\ plan \in [Drive -> Seq(Placement)] /\ pos \in [Drive -> Nat \ {0}]
    BY <2>2 DEF Pcs
  <2>5. /\ csv \in [Drive -> SUBSET Tape] /\ want \in [Drive -> Tape \cup {NoTape}]
        /\ slot \in [Drive -> Slot \cup {0}] /\ loaded \in [Drive -> Tape \cup {NoTape}]
        /\ formatted \in [Drive -> SUBSET Tape] /\ touched \in [Drive -> SUBSET Tape]
        /\ result \in [Drive -> {"none", "completed", "stopped", "failed"}]
    OBVIOUS
  <2>6. spans \in SUBSET SpanType /\ IsFiniteSet(spans)
    BY <2>2
  <2>. QED
    BY <2>1, <2>3, <2>4, <2>5, <2>6 DEF Types
<1>2. OnePlaceEach
  BY DEF OnePlaceEach, IsInjective
<1>3. RowsSound
  <2>1. \A t \in Tape : SpansOn(t) = {} /\ Total(t) = 0
    BY FS_EmptySet DEF SpansOn, Total
  <2>. QED
    BY <2>1, UnitsFit DEF RowsSound
<1>4. DrivesSound
  BY Places DEF DrivesSound, In
<1>5. ASSUME NEW d \in Drive
      PROVE  RunSound(d) /\ FormatSound(d) /\ CatalogueSound(d)
  <2>1. /\ pc[d] = "idle" /\ plan[d] = <<>> /\ csv[d] = {} /\ touched[d] = {}
        /\ loaded[d] = NoTape /\ result[d] = "none" /\ Len(plan[d]) = 0
    BY <1>5
  <2>. QED
    BY <2>1 DEF RunSound, FormatSound, CatalogueSound, Ensuring
<1>. QED
  BY <1>1, <1>2, <1>3, <1>4, <1>5 DEF IInv

LEMMA CrashStaysSound ==
  ASSUME IInv, Crash
  PROVE  IInv'
<1> USE DEF Crash, catalogue, library
<1>0. Types /\ OnePlaceEach /\ RowsSound /\ \A d \in Drive : CatalogueSound(d)
  BY DEF IInv
<1>1. Types'
  <2>1. behind' \in SUBSET Tape
    <3>1. \A d \in Drive : pc[d] = "catalogue" => At(d).tape \in Tape
      BY RunTypes
    <3>2. \A d \in Drive : Unfinished(d) \in SUBSET Tape
      BY <1>0, <3>1 DEF Types, Unfinished
    <3>. QED
      BY <1>0, <3>2 DEF Types
  <2>2. crashes' \in 0 .. MaxCrashes /\ <<>> \in Seq(Placement)
    BY <1>0, BoundsAreNat DEF Types
  <2>3. result' \in [Drive -> {"none", "completed", "stopped", "failed"}]
    BY <1>0 DEF Types
  <2>. QED
    BY <1>0, <2>1, <2>2, <2>3 DEF Types, Pcs, Ensuring
<1>2. OnePlaceEach'
  BY <1>0 DEF OnePlaceEach
<1>3. RowsSound'
  <2>1. \A t \in Tape \ behind' : t \in Tape \ behind /\ \A d \in Drive : t \notin Unfinished(d)
    OBVIOUS
  <2>2. \A t \in Tape : SpansOn(t)' = SpansOn(t) /\ Total(t)' = Total(t)
    BY DEF SpansOn, Total
  <2>. QED
    BY <1>0, <2>1, <2>2 DEF RowsSound
<1>4. DrivesSound'
  <2>1. crashes' # 0
    BY <1>0, BoundsAreNat DEF Types
  <2>. QED
    BY <2>1 DEF DrivesSound
<1>5. ASSUME NEW d \in Drive
      PROVE  RunSound(d)' /\ FormatSound(d)' /\ CatalogueSound(d)'
  <2>1. /\ pc'[d] = "idle" /\ plan'[d] = <<>> /\ csv'[d] = {} /\ touched'[d] = {}
        /\ loaded'[d] = NoTape /\ Len(plan'[d]) = 0
        /\ source' = source /\ spans' = spans /\ result'[d] \in {result[d], "failed"}
    BY <1>5
  <2>2. CatalogueSound(d)
    BY <1>0
  <2>. QED
    BY <2>1, <2>2 DEF RunSound, FormatSound, CatalogueSound, Catalogued, Ensuring
<1>. QED
  BY <1>1, <1>2, <1>3, <1>4, <1>5 DEF IInv

LEMMA StaysSound == IInv /\ [Next]_vars => IInv'
<1> SUFFICES ASSUME IInv, [Next]_vars
             PROVE  IInv'
  OBVIOUS
<1>1. ASSUME NEW d \in Drive, DriveStep(d)
      PROVE  IInv'
  <2>1. Types' /\ OnePlaceEach'
    BY <1>1, TypesStay
  <2>2. RowsSound' /\ DrivesSound'
    BY <1>1, RowsStaySound, DrivesStaySound
  <2>3. \A e \in Drive : RunSound(e)' /\ FormatSound(e)' /\ CatalogueSound(e)'
    BY <1>1, RunStaysSound, FormatStaysSound, CatalogueStaysSound
  <2>. QED
    BY <2>1, <2>2, <2>3 DEF IInv
<1>2. CASE Crash
  BY <1>2, CrashStaysSound
<1>3. CASE UNCHANGED vars
  <2> USE DEF vars, catalogue, library, ensuring, running, bounds, history
  <2>1. Types' /\ OnePlaceEach'
    BY <1>3 DEF IInv, Types, OnePlaceEach
  <2>2. RowsSound' /\ DrivesSound'
    BY <1>3 DEF IInv, RowsSound, DrivesSound, Unfinished, Relying, At, Total, SpansOn, In
  <2>3. \A d \in Drive : RunSound(d)' /\ FormatSound(d)' /\ CatalogueSound(d)'
    BY <1>3 DEF IInv, RunSound, FormatSound, CatalogueSound, Catalogued, SpansOn, MustFormat, At, Tapes
  <2>. QED
    BY <2>1, <2>2, <2>3 DEF IInv
<1>. QED
  BY <1>1, <1>2, <1>3, Zenon DEF Next, DriveStep

LEMMA Invariant == Spec => []IInv
<1>1. Init => IInv
  BY StartsSound
<1>2. IInv /\ [Next]_vars => IInv'
  BY StaysSound
<1>. QED
  BY <1>1, <1>2, PTL DEF Spec

(* Every variable has its type, in every state the pipeline can reach.     *)
THEOREM TypeCorrect == Spec => []TypeOK
<1>1. IInv => TypeOK
  BY DEF IInv, Types, TypeOK, Pcs, Ensuring
<1>. QED
  BY <1>1, Invariant, PTL

(* A job reported as completed has a span in the catalogue for the folder  *)
(* of every unit it scanned, whatever was paused, cancelled, failed or     *)
(* crashed before or beside it (writer.py:297).                            *)
THEOREM CompletedJobsAreCatalogued == Spec => []CompletedIsCatalogued
<1>1. IInv => CompletedIsCatalogued
  <2> SUFFICES ASSUME IInv, NEW d \in Drive, result[d] = "completed", NEW k \in DOMAIN source[d]
               PROVE  \E s \in spans : s.folder = Folder[source[d][k]]
    BY DEF CompletedIsCatalogued
  <2>1. source[d] \in Seq(Unit)
    BY UnitsFit DEF IInv, Types
  <2>2. k \in 1 .. Len(source[d])
    BY <2>1
  <2>. QED
    BY <2>2 DEF IInv, CatalogueSound, Catalogued
<1>. QED
  BY <1>1, Invariant, PTL

(* Between runs the rows of the tapes match the spans, and a run none of   *)
(* whose calls failed leaves its drive empty (writer.py:105, :537).        *)
THEOREM RowsAndDrivesAreClean == Spec => []CleanBetweenRuns
<1>1. IInv => RowsMatchSpans
  <2> SUFFICES ASSUME IInv, \A d \in Drive : ~Relying(d), NEW t \in Tape \ behind
               PROVE  /\ used[t] = Total(t)
                      /\ status[t] = "scratch" <=> SpansOn(t) = {}
                      /\ status[t] = "full" <=> Total(t) >= Capacity
    BY DEF RowsMatchSpans
  <2>1. \A d \in Drive : Unfinished(d) = {}
    BY DEF Unfinished
  <2>. QED
    BY <2>1 DEF IInv, RowsSound
<1>2. IInv => DriveLeftEmpty
  BY DEF IInv, DrivesSound, DriveLeftEmpty, RunSound
<1>3. IInv => CleanBetweenRuns
  BY <1>1, <1>2 DEF CleanBetweenRuns
<1>. QED
  BY <1>3, Invariant, PTL
-----------------------------------------------------------------------------
(* As long as no run plans to use a tape of one still at work.             *)

Apart ==
  /\ ApartSound /\ OnTape
  /\ \A d \in Drive : HoldsWhatItWants(d) /\ FreshOnes(d)

(* What a run uses is of its plan. *)
LEMMA UsesItsPlan ==
  ASSUME IInv, NEW d \in Drive
  PROVE  /\ Relying(d) => AtWork(d)
         /\ Unfinished(d) \subseteq Tapes(plan[d])
         /\ pc[d] = "load" => want[d] \in Tapes(plan[d])
         /\ pc[d] \in {"format", "copy", "catalogue"} =>
              /\ csv[d] = {} /\ pos[d] \in 1 .. Len(plan[d]) /\ At(d).tape \in Tapes(plan[d])
              /\ At(d).tape = loaded[d] /\ want[d] = loaded[d] /\ loaded[d] \in Tape
              /\ At(d).unit \in Unit
<1>1. Types /\ RunSound(d)
  BY DEF IInv
<1>2. pc[d] \in Ensuring /\ csv[d] = {} => pos[d] <= Len(plan[d]) /\ want[d] = At(d).tape
  BY <1>1 DEF RunSound
<1>3. pos[d] <= Len(plan[d]) =>
        /\ pos[d] \in 1 .. Len(plan[d]) /\ At(d).tape \in Tapes(plan[d])
        /\ At(d).tape \in Tape /\ At(d).unit \in Unit
  BY <1>1, CurrentPlacement
<1>4. /\ csv[d] \subseteq touched[d] /\ touched[d] \subseteq Tapes(plan[d])
      /\ csv[d] # {} => pc[d] \in {"csv", "release", "lookup", "load", "export", "close"}
      /\ pc[d] = "load" /\ csv[d] # {} => want[d] \in csv[d]
      /\ pc[d] \in {"format", "copy", "catalogue"} => loaded[d] = want[d]
  BY <1>1 DEF RunSound
<1>. QED
  BY <1>2, <1>3, <1>4 DEF Relying, AtWork, Unfinished, Ensuring

(* The steps that start or end a run's work. *)
LEMMA WorkGoesOn ==
  ASSUME IInv, NEW d \in Drive, DriveStep(d), ~MakePlan(d)
  PROVE  /\ AtWork(d)' => AtWork(d) /\ plan'[d] = plan[d]
         /\ Relying(d)' => Relying(d) /\ plan'[d] = plan[d] /\ formatted[d] \subseteq formatted'[d]
         /\ shared' = shared
<1>0. Types /\ RunSound(d)
  BY DEF IInv
<1> USE <1>0 DEF AtWork, Relying, Goto, catalogue, library, ensuring, running, bounds, history
<1>1. CASE (\E q \in Scan : Start(d, q)) \/ NoPlan(d)
  BY <1>1 DEF Start, NoPlan, Types
<1>2. CASE NextPlacement(d) \/ EndLoop(d) \/ Break(d)
  BY <1>2 DEF NextPlacement, Ensure, EndLoop, Break, Done, Types
<1>3. CASE Skip(d) \/ Copy(d) \/ Catalogue(d)
  BY <1>3 DEF Skip, Advance, Copy, Catalogue, Types
<1>4. CASE Finalise(d) \/ NextCsv(d) \/ Export(d) \/ EndCsv(d)
  BY <1>4 DEF Finalise, Finalised, NextCsv, Ensure, Export, EndCsv, Types
<1>5. CASE Swap(d) \/ LookUp(d) \/ Load(d) \/ Format(d) \/ OperatorUnloads(d)
  BY <1>5 DEF Swap, LookUp, Load, Format, OperatorUnloads, Types
<1>6. CASE Close(d) \/ (UnloadFails(d) /\ pc[d] = "close")
  BY <1>6 DEF Close, UnloadFails, Forget, Types
<1>7. CASE UnloadFails(d) /\ pc[d] = "release"
  BY <1>7 DEF UnloadFails, Types
<1>8. CASE Refused(d) \/ LoadFails(d) \/ MountFails(d)
  <2>1. /\ plan' = plan /\ shared' = shared /\ pc'[d] \in {"csv", "close"}
        /\ pc[d] \in {"lookup", "load", "format", "copy", "export"}
    BY <1>8 DEF Refused, NotInSlot, NotLoadable, TapeFull, LoadFails, MountFails, Raise, Types
  <2>. QED
    BY <2>1
<1>9. CASE ExportFails(d) \/ SessionFails(d)
  BY <1>9 DEF ExportFails, SessionFails, Types
<1>. QED
  BY <1>1, <1>2, <1>3, <1>4, <1>5, <1>6, <1>7, <1>8, <1>9, Zenon
     DEF DriveStep, RunStep, FaultStep, UnloadFails

(* Which step moves tapes, and which changes what is on them. *)
LEMMA LibraryChanges ==
  ASSUME Types, NEW d \in Drive, DriveStep(d)
  PROVE  /\ UNCHANGED place \/ Unloads(d) \/ (pc[d] = "load" /\ Loadable(d) /\ Loads(d))
         /\ UNCHANGED files \/ Copy(d) \/ Format(d)
         /\ UNCHANGED spans \/ Catalogue(d)
<1> USE DEF catalogue, library, ensuring, running, bounds, history
<1>1. CASE (\E q \in Scan : Start(d, q)) \/ MakePlan(d) \/ NoPlan(d) \/ NextPlacement(d)
           \/ EndLoop(d) \/ Break(d)
  BY <1>1 DEF Start, MakePlan, NoPlan, NextPlacement, EndLoop, Break, Done
<1>2. CASE Skip(d) \/ Copy(d) \/ Catalogue(d) \/ Finalise(d) \/ NextCsv(d) \/ Export(d) \/ EndCsv(d)
  BY <1>2 DEF Skip, Copy, Catalogue, Finalise, NextCsv, Export, EndCsv
<1>3. CASE Swap(d) \/ LookUp(d) \/ Load(d) \/ Format(d) \/ OperatorUnloads(d)
  BY <1>3 DEF Swap, LookUp, Load, Format, OperatorUnloads
<1>4. CASE Close(d) \/ UnloadFails(d)
  BY <1>4 DEF Close, UnloadFails
<1>5. CASE Refused(d) \/ LoadFails(d) \/ MountFails(d)
  BY <1>5 DEF Refused, LoadFails, MountFails, Raise
<1>6. CASE ExportFails(d)
  BY <1>6 DEF ExportFails
<1>7. CASE SessionFails(d)
  BY <1>7 DEF SessionFails
<1>. QED
  BY <1>1, <1>2, <1>3, <1>4, <1>5, <1>6, <1>7, Zenon DEF DriveStep, RunStep, FaultStep

LEMMA ApartStays ==
  ASSUME IInv, Apart, NEW d \in Drive, DriveStep(d), ~shared'
  PROVE  ApartSound'
<1>0. Types /\ ApartSound
  BY DEF IInv, Apart
<1>1. SUFFICES ASSUME NEW x \in Drive, NEW y \in Drive, x # y, AtWork(x)', AtWork(y)'
               PROVE  Tapes(plan'[x]) \cap Tapes(plan'[y]) = {}
  BY DEF ApartSound
<1>2. \A e \in Drive \ {d} : AtWork(e)' = AtWork(e) /\ plan'[e] = plan[e]
  BY <1>0, OthersStay DEF Untouched, AtWork
<1>3. CASE MakePlan(d)
  <2>1. \A e \in Drive \ {d} : AtWork(e) => Tapes(plan[e]) \cap Tapes(plan'[d]) = {}
    BY <1>3 DEF MakePlan
  <2>2. CASE x # d /\ y # d
    BY <1>0, <1>1, <1>2, <2>2 DEF ApartSound
  <2>3. CASE x = d
    BY <1>1, <1>2, <2>1, <2>3
  <2>4. CASE y = d
    BY <1>1, <1>2, <2>1, <2>4
  <2>. QED
    BY <2>2, <2>3, <2>4
<1>4. CASE ~MakePlan(d)
  <2>1. \A e \in Drive : AtWork(e)' => AtWork(e) /\ plan'[e] = plan[e]
    BY <1>2, <1>4, WorkGoesOn
  <2>. QED
    BY <1>0, <1>1, <2>1 DEF ApartSound
<1>. QED
  BY <1>3, <1>4

LEMMA FreshStays ==
  ASSUME IInv, Apart, NEW d \in Drive, DriveStep(d), ~shared', NEW e \in Drive
  PROVE  FreshOnes(e)'
<1>0. /\ Types /\ ApartSound /\ FreshOnes(d) /\ FreshOnes(e) /\ RowsSound
      /\ RunSound(d) /\ FormatSound(d) /\ behind \subseteq behind'
  BY HistoryGrows DEF IInv, Apart
<1>1. SUFFICES ASSUME Relying(e)', NEW k \in 1 .. Len(plan'[e]), plan'[e][k].format,
                      plan'[e][k].tape \notin formatted'[e], plan'[e][k].tape \notin behind'
               PROVE  \A s \in spans' : s.tape # plan'[e][k].tape
  BY DEF FreshOnes, SpansOn
<1>2. CASE MakePlan(d) /\ e = d
  <2>1. /\ plan'[d] = Layout(source[d]) /\ spans' = spans /\ behind' = behind /\ pc[d] = "plan"
        /\ \A x \in Drive \ {d} : AtWork(x) => Tapes(plan[x]) \cap Tapes(plan'[d]) = {}
    BY <1>0, <1>2 DEF MakePlan, Types, catalogue
  <2>2. /\ k \in 1 .. Len(source[d]) /\ k \in DOMAIN plan'[d]
        /\ plan'[d][k].tape \in Tape /\ status[plan'[d][k].tape] = "scratch"
    <3>1. /\ Layout(source[d]) \in Seq(Placement) /\ Len(Layout(source[d])) = Len(source[d])
          /\ \A j \in 1 .. Len(source[d]) :
               /\ Layout(source[d])[j].tape \in Tape
               /\ Layout(source[d])[j].format = (status[Layout(source[d])[j].tape] = "scratch")
      BY <1>0, <1>2, LayoutIsSound DEF MakePlan, Views
    <3>2. k \in 1 .. Len(Layout(source[d])) /\ DOMAIN Layout(source[d]) = 1 .. Len(Layout(source[d]))
      BY <1>1, <1>2, <2>1, <3>1
    <3>3. Layout(source[d])[k].format
      BY <1>1, <1>2, <2>1
    <3>. QED
      BY <2>1, <3>1, <3>2, <3>3
  <2>3. plan'[d][k].tape \in Tapes(plan'[d])
    BY <2>2 DEF Tapes
  <2>4. \A x \in Drive : plan'[d][k].tape \notin Unfinished(x)
    <3>1. Unfinished(d) = {}
      BY <2>1 DEF Unfinished, Relying
    <3>2. ASSUME NEW x \in Drive \ {d}
          PROVE  plan'[d][k].tape \notin Unfinished(x)
      <4>1. Unfinished(x) \subseteq Tapes(plan[x]) /\ (Unfinished(x) # {} => AtWork(x))
        BY UsesItsPlan DEF Unfinished
      <4>. QED
        BY <2>1, <2>3, <4>1
    <3>. QED
      BY <3>1, <3>2
  <2>5. SpansOn(plan'[d][k].tape) = {}
    BY <1>0, <1>1, <1>2, <2>1, <2>2, <2>4 DEF RowsSound
  <2>. QED
    BY <1>2, <2>1, <2>5 DEF SpansOn
<1>3. CASE ~(MakePlan(d) /\ e = d)
  <2>1. Relying(e) /\ plan'[e] = plan[e] /\ formatted[e] \subseteq formatted'[e]
    <3>1. CASE e = d
      BY <1>1, <1>3, <3>1, WorkGoesOn
    <3>2. CASE e # d
      BY <1>0, <1>1, <3>2, OthersStay DEF Untouched, Relying
    <3>. QED
      BY <3>1, <3>2
  <2>2. SpansOn(plan[e][k].tape) = {}
    BY <1>0, <1>1, <2>1 DEF FreshOnes
  <2>3. CASE UNCHANGED spans
    BY <2>1, <2>2, <2>3 DEF SpansOn
  <2>4. CASE Catalogue(d)
    <3>1. /\ spans' = spans \cup {Span(At(d).unit, At(d).tape)} /\ pc[d] = "catalogue"
          /\ formatted' = formatted
      BY <2>4 DEF Catalogue, ensuring
    <3>2. At(d).tape # plan[e][k].tape
      <4>1. CASE e = d
        <5>1. At(d).tape = loaded[d]
          BY <3>1, UsesItsPlan
        <5>2. plan[d][k].tape # loaded[d]
          BY <1>0, <1>1, <2>1, <3>1, <4>1 DEF FormatSound
        <5>. QED
          BY <4>1, <5>1, <5>2
      <4>2. CASE e # d
        <5>1. Tapes(plan[d]) \cap Tapes(plan[e]) = {}
          BY <1>0, <2>1, <3>1, <4>2, UsesItsPlan DEF ApartSound, AtWork
        <5>2. At(d).tape \in Tapes(plan[d]) /\ plan[e][k].tape \in Tapes(plan[e])
          BY <1>0, <1>1, <2>1, <3>1, UsesItsPlan, PlanTapes
        <5>. QED
          BY <5>1, <5>2
      <4>. QED
        BY <4>1, <4>2
    <3>3. Span(At(d).unit, At(d).tape).tape # plan[e][k].tape
      BY <3>2, SpanFields
    <3>. QED
      BY <2>1, <2>2, <3>1, <3>3 DEF SpansOn
  <2>. QED
    BY <1>0, <2>3, <2>4, LibraryChanges
<1>. QED
  BY <1>2, <1>3

LEMMA HoldsStays ==
  ASSUME IInv, Apart, NEW d \in Drive, DriveStep(d), NEW e \in Drive
  PROVE  HoldsWhatItWants(e)'
<1>0. /\ Types /\ OnePlaceEach /\ ApartSound /\ RunSound(d) /\ RunSound(e)
      /\ HoldsWhatItWants(d) /\ HoldsWhatItWants(e)
      /\ Slot \cap Drive = {} /\ slot[e] \in Slot \cup {0}
  BY Places DEF IInv, Apart, Types
<1>1. CASE e # d
  <2>1. /\ Untouched(e) /\ At(e)' = At(e) /\ AtWork(e)' = AtWork(e)
    BY <1>0, <1>1, OthersStay DEF Untouched, At, AtWork
  <2>2. ASSUME AtWork(e), loaded[e] # NoTape
        PROVE  place'[loaded[e]] = e
    <3>1. place[loaded[e]] = e /\ loaded[e] \in Tape
      BY <1>0, <2>2 DEF HoldsWhatItWants, Types
    <3>2. CASE Unloads(d)
      BY <1>0, <1>1, <3>1, <3>2, UnloadsMoves DEF In
    <3>3. CASE pc[d] = "load" /\ Loadable(d) /\ Loads(d)
      <4>1. slot[d] \in Slot
        BY <1>0, <3>3 DEF RunSound
      <4>. QED
        BY <1>0, <3>1, <3>3, <4>1, LoadsMoves
    <3>. QED
      BY <1>0, <3>1, <3>2, <3>3, LibraryChanges
  <2>3. ASSUME pc[e] = "load"
        PROVE  place'[want[e]] = slot[e]
    <3>1. /\ place[want[e]] = slot[e] /\ slot[e] \in Slot
          /\ want[e] \in Tape /\ want[e] \in Tapes(plan[e])
      BY <1>0, <2>3, UsesItsPlan, PlanTapes DEF HoldsWhatItWants, RunSound
    <3>2. CASE Unloads(d)
      BY <1>0, <3>1, <3>2, UnloadsMoves DEF In
    <3>3. CASE pc[d] = "load" /\ Loadable(d) /\ Loads(d)
      <4>1. /\ place[want[d]] = slot[d] /\ slot[d] \in Slot
            /\ want[d] \in Tape /\ want[d] \in Tapes(plan[d])
        BY <1>0, <3>3, UsesItsPlan, PlanTapes DEF HoldsWhatItWants, RunSound
      <4>2. Tapes(plan[d]) \cap Tapes(plan[e]) = {}
        BY <1>0, <1>1, <2>3, <3>3 DEF ApartSound, AtWork
      <4>3. place[want[e]] # slot[d]
        BY <1>0, <3>1, <4>1, <4>2 DEF OnePlaceEach
      <4>. QED
        BY <1>0, <3>1, <3>3, <4>1, <4>3, LoadsMoves
    <3>. QED
      BY <1>0, <3>1, <3>2, <3>3, LibraryChanges
  <2>4. ASSUME pc[e] = "catalogue"
        PROVE  At(e).unit \in files'[At(e).tape]
    <3>1. /\ At(e).unit \in files[At(e).tape] /\ At(e).tape \in Tape /\ At(e).tape = loaded[e]
          /\ loaded[e] # NoTape
      BY <1>0, <2>4, UsesItsPlan, TapeIds DEF HoldsWhatItWants
    <3>2. CASE Copy(d)
      BY <1>0, <3>1, <3>2 DEF Copy, Types
    <3>3. CASE Format(d)
      <4>1. place[loaded[e]] = e
        BY <1>0, <2>4, <3>1 DEF HoldsWhatItWants, AtWork
      <4>. QED
        BY <1>1, <3>1, <3>3, <4>1 DEF Format, Wipes, In
    <3>. QED
      BY <1>0, <3>1, <3>2, <3>3, LibraryChanges
  <2>. QED
    BY <2>1, <2>2, <2>3, <2>4 DEF Untouched, HoldsWhatItWants
<1>2. CASE e = d
  <2> SUFFICES HoldsWhatItWants(d)'
    BY <1>2
  <2> USE <1>0 DEF Goto, catalogue, library, ensuring, running, bounds, history
  <2>1. ASSUME UNCHANGED place, loaded'[d] = loaded[d], AtWork(d)' => AtWork(d),
               pc'[d] \notin {"load", "catalogue"}
        PROVE  HoldsWhatItWants(d)'
    BY <2>1 DEF HoldsWhatItWants
  <2>2. ASSUME loaded'[d] = NoTape, pc'[d] \notin {"load", "catalogue"}
        PROVE  HoldsWhatItWants(d)'
    BY <2>2 DEF HoldsWhatItWants
  <2>3. CASE (\E q \in Scan : Start(d, q)) \/ NoPlan(d) \/ MakePlan(d)
    <3>1. loaded'[d] = NoTape /\ pc'[d] \notin {"load", "catalogue"}
      BY <2>3 DEF Start, NoPlan, MakePlan, RunSound, Types
    <3>. QED
      BY <2>2, <3>1
  <2>4. CASE NextPlacement(d) \/ EndLoop(d) \/ Break(d)
    BY <2>1, <2>4 DEF NextPlacement, Ensure, EndLoop, Break, Done, Types, AtWork
  <2>5. CASE Skip(d) \/ Catalogue(d)
    BY <2>1, <2>5 DEF Skip, Catalogue, Advance, Types, AtWork
  <2>6. CASE Finalise(d) \/ NextCsv(d) \/ Export(d) \/ EndCsv(d)
    BY <2>1, <2>6 DEF Finalise, Finalised, NextCsv, Ensure, Export, EndCsv, Types, AtWork
  <2>7. CASE Swap(d) \/ Close(d) \/ UnloadFails(d)
    <3>1. loaded'[d] = NoTape /\ pc'[d] \in {"lookup", "idle"}
      BY <2>7 DEF Swap, Close, UnloadFails, Types
    <3>. QED
      BY <2>2, <3>1
  <2>8. CASE Copy(d)
    <3>1. /\ At(d).tape = loaded[d] /\ loaded[d] \in Tape /\ AtWork(d) /\ loaded[d] # NoTape
      BY <2>8, UsesItsPlan, TapeIds DEF Copy, AtWork
    <3>2. place[loaded[d]] = d
      BY <3>1 DEF HoldsWhatItWants
    <3>3. In(d) = {loaded[d]}
      BY <3>1, <3>2 DEF In, OnePlaceEach
    <3>4. At(d).unit \in files'[At(d).tape]
      BY <2>8, <3>1, <3>3 DEF Copy, Types
    <3>5. At(d)' = At(d) /\ loaded' = loaded /\ place' = place /\ pc'[d] = "catalogue"
      BY <2>8 DEF Copy, At, Types
    <3>. QED
      BY <3>2, <3>4, <3>5 DEF HoldsWhatItWants
  <2>9. CASE LookUp(d)
    BY <2>9 DEF LookUp, HoldsWhatItWants, RunSound, Types
  <2>10. CASE Load(d)
    <3>1. /\ place[want[d]] = slot[d] /\ slot[d] \in Slot /\ want[d] \in Tape
      BY <2>10, UsesItsPlan, PlanTapes DEF Load, HoldsWhatItWants, RunSound
    <3>2. place'[want[d]] = d
      BY <2>10, <3>1, LoadsMoves DEF Load
    <3>3. loaded'[d] = want[d] /\ pc'[d] \in {"export", "format", "copy"}
      BY <2>10 DEF Load, Types
    <3>. QED
      BY <3>2, <3>3 DEF HoldsWhatItWants
  <2>11. CASE Format(d)
    BY <2>1, <2>11 DEF Format, Types, AtWork
  <2>12. CASE Refused(d) \/ MountFails(d)
    BY <2>1, <2>12 DEF Refused, NotInSlot, NotLoadable, TapeFull, MountFails, Raise, Types, AtWork
  <2>13. CASE LoadFails(d)
    <3>1. loaded'[d] = NoTape /\ pc'[d] \in {"csv", "close"}
      BY <2>13 DEF LoadFails, Raise, RunSound, Types
    <3>. QED
      BY <2>2, <3>1
  <2>14. CASE OperatorUnloads(d)
    <3>1. loaded'[d] = NoTape /\ pc'[d] = "idle"
      BY <2>14 DEF OperatorUnloads, RunSound
    <3>. QED
      BY <2>2, <3>1
  <2>15. CASE ExportFails(d)
    BY <2>1, <2>15 DEF ExportFails, Types, AtWork
  <2>16. CASE SessionFails(d)
    BY <2>2, <2>16, SessionFailsEnds
  <2>. QED
    BY <2>3, <2>4, <2>5, <2>6, <2>7, <2>8, <2>9, <2>10, <2>11, <2>12, <2>13, <2>14, <2>15,
       <2>16, Zenon
       DEF DriveStep, RunStep, FaultStep
<1>. QED
  BY <1>1, <1>2

LEMMA OnTapeStays ==
  ASSUME IInv, Apart, NEW d \in Drive, DriveStep(d)
  PROVE  OnTape'
<1>0. /\ Types /\ OnePlaceEach /\ OnTape /\ RunSound(d) /\ FormatSound(d)
      /\ HoldsWhatItWants(d) /\ FreshOnes(d) /\ behind \subseteq behind'
      /\ \A s \in spans : s.tape \in Tape
  <2>1. Types /\ \A u \in Unit, t \in Tape : Span(u, t).tape \in Tape
    BY SpanFields DEF IInv
  <2>2. \A s \in spans : s.tape \in Tape
    BY <2>1 DEF Types, SpanType
  <2>. QED
    BY <2>1, <2>2, HistoryGrows DEF IInv, Apart
<1>1. SUFFICES ASSUME NEW s \in spans', s.tape \notin behind'
               PROVE  s.unit \in files'[s.tape]
  BY DEF OnTape
<1>2. CASE Catalogue(d)
  <2>1. /\ s \in spans \cup {Span(At(d).unit, At(d).tape)} /\ files' = files
        /\ At(d).unit \in files[At(d).tape]
    BY <1>0, <1>2 DEF Catalogue, library, HoldsWhatItWants
  <2>2. CASE s = Span(At(d).unit, At(d).tape)
    <3>1. s.unit = At(d).unit /\ s.tape = At(d).tape
      BY <2>2, SpanFields
    <3>. QED
      BY <2>1, <3>1
  <2>. QED
    BY <1>0, <1>1, <2>1, <2>2 DEF OnTape
<1>3. CASE UNCHANGED spans
  <2>1. s \in spans /\ s.unit \in files[s.tape] /\ s.tape \in Tape /\ s.tape \notin behind
    BY <1>0, <1>1, <1>3 DEF OnTape
  <2>2. CASE Copy(d)
    BY <1>0, <2>1, <2>2 DEF Copy, Types
  <2>3. CASE Format(d)
    <3>1. /\ pc[d] = "format" /\ csv[d] = {} /\ pos[d] \in 1 .. Len(plan[d])
          /\ At(d).tape = loaded[d] /\ want[d] = loaded[d] /\ loaded[d] \in Tape
      BY <2>3, UsesItsPlan DEF Format
    <3>2. At(d).format /\ At(d).tape \notin formatted[d]
      BY <1>0, <3>1 DEF FormatSound, MustFormat
    <3>3. At(d).tape \notin behind => SpansOn(At(d).tape) = {}
      BY <1>0, <3>1, <3>2 DEF FreshOnes, Relying, At
    <3>4. s.tape # loaded[d]
      BY <2>1, <3>1, <3>3 DEF SpansOn
    <3>5. place[loaded[d]] = d
      BY <1>0, <3>1, TapeIds DEF HoldsWhatItWants, AtWork
    <3>6. s.tape \notin In(d)
      BY <1>0, <2>1, <3>1, <3>4, <3>5 DEF In, OnePlaceEach
    <3>. QED
      BY <2>1, <2>3, <3>6 DEF Format, Wipes
  <2>. QED
    BY <1>0, <2>1, <2>2, <2>3, LibraryChanges
<1>. QED
  BY <1>0, <1>2, <1>3, LibraryChanges

LEMMA SharedIsForGood == [Next]_vars /\ IInv /\ shared => shared'
<1> SUFFICES ASSUME [Next]_vars, IInv, shared
             PROVE  shared'
  OBVIOUS
<1>1. ASSUME NEW d \in Drive, DriveStep(d)
      PROVE  shared'
  BY <1>1, WorkGoesOn DEF MakePlan
<1>2. CASE Crash \/ UNCHANGED vars
  BY <1>2 DEF Crash, vars, history
<1>. QED
  BY <1>1, <1>2, Zenon DEF Next, DriveStep

LEMMA ApartInvariant == Spec => [](IInv /\ JInv)
<1>1. Init => JInv
  BY DEF Init, JInv, ApartSound, OnTape, HoldsWhatItWants, FreshOnes, AtWork, Relying
<1>2. IInv /\ JInv /\ [Next]_vars => JInv'
  <2> SUFFICES ASSUME IInv, JInv, [Next]_vars, ~shared'
               PROVE  /\ ApartSound' /\ OnTape'
                      /\ \A e \in Drive : HoldsWhatItWants(e)' /\ FreshOnes(e)'
    BY DEF JInv
  <2>1. Apart
    BY SharedIsForGood DEF JInv, Apart
  <2>2. ASSUME NEW d \in Drive, DriveStep(d)
        PROVE  /\ ApartSound' /\ OnTape'
               /\ \A e \in Drive : HoldsWhatItWants(e)' /\ FreshOnes(e)'
    BY <2>1, <2>2, ApartStays, OnTapeStays, HoldsStays, FreshStays
  <2>3. CASE Crash
    <3>1. /\ \A e \in Drive : ~AtWork(e)' /\ ~Relying(e)' /\ pc'[e] = "idle"
          /\ spans' = spans /\ files' = files /\ behind \subseteq behind'
      BY <2>3 DEF Crash, AtWork, Relying, catalogue, library
    <3>2. ApartSound'
      BY <3>1 DEF ApartSound
    <3>3. OnTape'
      BY <2>1, <3>1 DEF OnTape, Apart
    <3>4. \A e \in Drive : HoldsWhatItWants(e)' /\ FreshOnes(e)'
      BY <3>1 DEF HoldsWhatItWants, FreshOnes
    <3>. QED
      BY <3>2, <3>3, <3>4
  <2>4. CASE UNCHANGED vars
    <3> USE DEF vars, catalogue, library, ensuring, running, bounds, history
    <3>1. ApartSound' /\ OnTape'
      <4>1. plan' = plan /\ pc' = pc /\ spans' = spans /\ behind' = behind /\ files' = files
        BY <2>4
      <4>2. \A e \in Drive : Tapes(plan'[e]) = Tapes(plan[e])
        BY <4>1
      <4>. QED
        BY <2>1, <4>1, <4>2 DEF Apart, ApartSound, AtWork, OnTape
    <3>2. \A e \in Drive : HoldsWhatItWants(e)' /\ FreshOnes(e)'
      BY <2>1, <2>4 DEF Apart, HoldsWhatItWants, FreshOnes, AtWork, Relying, SpansOn, At
    <3>. QED
      BY <3>1, <3>2
  <2>. QED
    BY <2>2, <2>3, <2>4, Zenon DEF Next, DriveStep
<1>. QED
  BY <1>1, <1>2, Invariant, PTL DEF Spec

(* What the catalogue lists is on the tape it names, whatever was paused,  *)
(* failed or crashed, while no run planned to use a tape of one still at   *)
(* work and but for the tapes a run died on (writer.py:88, :96, :323).     *)
THEOREM CatalogueMatchesTapes == Spec => []CataloguedIsOnTape
<1>1. JInv => CataloguedIsOnTape
  BY DEF JInv, OnTape, CataloguedIsOnTape
<1>. QED
  BY <1>1, ApartInvariant, PTL
=============================================================================
