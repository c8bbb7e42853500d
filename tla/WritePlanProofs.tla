-------------------------- MODULE WritePlanProofs --------------------------
(***************************************************************************)
(* What the plan of a write job guarantees for every set of tapes, every   *)
(* capacity, every catalogue state and every source tree: first of the     *)
(* allocator, for any list of units it may be given, then of the scan that *)
(* makes the list, then of both.                                           *)
(***************************************************************************)
EXTENDS WritePlan, FiniteLemmas

(* The tapes a job may write on, and what it may say about them: it formats *)
(* a scratch tape and leaves any other as it is.                           *)
ScratchTape == {t \in Tape : shelf[t].status = "scratch"}
Pool == fresh \cup Eligible(shelf, greedy)
PoolPart == [tape: Pool, from: Nat, to: Nat, size: Nat]
RightPlacement ==
  {p \in PlacementType : IF p.needsFormat THEN p.tape \in ScratchTape
                                          ELSE p.tape \in Eligible(shelf, greedy)}

(* The tapes in every list are tapes of the pool. *)
ListsSound ==
  /\ fresh \subseteq ScratchTape
  /\ open \in Seq(Pool)
  /\ scratch \in Seq(ScratchTape)
  /\ step = "span" => at \in Pool
  /\ parts \in Seq(PoolPart)
  /\ placements \in Seq(RightPlacement)

(* A unit is being split only while there is one, and the buffer fits.     *)
SpanFits ==
  /\ step \in {"span", "split"} => unit <= Len(units)
  /\ step = "span" => /\ used[at] + load <= Capacity[at]
                      /\ first <= next
                      /\ first = next => load = 0

(* The inductive invariant. *)
IInv == TypeOK /\ SpanFits /\ NoOverflow /\ ListsSound

(* A list without one of its entries. *)
LEMMA DropType ==
  ASSUME NEW S, NEW q \in Seq(S), NEW i \in DOMAIN q
  PROVE  Drop(q, i) \in Seq(S)
<1>1. Len(q) \in Nat /\ i \in 1 .. Len(q)
  BY LenProperties
<1>2. SubSeq(q, 1, i - 1) \in Seq(S)
  <2>1. \A k \in 1 .. i - 1 : q[k] \in S
    BY <1>1, ElementOfSeq
  <2>. QED
    BY <1>1, <2>1, SubSeqProperties
<1>3. SubSeq(q, i + 1, Len(q)) \in Seq(S)
  <2>1. \A k \in i + 1 .. Len(q) : q[k] \in S
    BY <1>1, ElementOfSeq
  <2>. QED
    BY <1>1, <2>1, SubSeqProperties
<1>. QED
  BY <1>2, <1>3, ConcatProperties DEF Drop

(* A tape that fits is one of the open tapes, and has the room. *)
LEMMA FittingTape ==
  ASSUME TypeOK, NEW need \in Nat, NEW t \in FirstThatFits(need)
  PROVE  /\ t \in Tape
         /\ Free(t) >= need
         /\ \E i \in DOMAIN open : t = open[i]
<1>1. PICK i \in DOMAIN open : t = open[i] /\ Free(open[i]) >= need
  BY DEF FirstThatFits
<1>2. open[i] \in Tape
  BY ElementOfSeq, LenProperties DEF TypeOK
<1>. QED
  BY <1>1, <1>2

(* What free_bytes says. *)
LEMMA FreeBytes ==
  ASSUME TypeOK, NEW t \in Tape
  PROVE  /\ Free(t) \in Nat
         /\ Free(t) > 0 => used[t] + Free(t) = Capacity[t]
  BY CapacityType DEF TypeOK, Free

(* The unit at hand is a unit. *)
LEMMA CurrentUnit ==
  ASSUME TypeOK, unit <= Len(units)
  PROVE  Current \in Unit
<1>1. units \in Seq(Unit)
  BY BatchShape DEF TypeOK
<1>2. Len(units) \in Nat
  BY <1>1, LenProperties
<1>. QED
  BY <1>1, <1>2, ElementOfSeq DEF TypeOK, Current

(* A frame is a number of bytes. *)
LEMMA FrameSize ==
  ASSUME TypeOK, unit <= Len(units), AtFrame
  PROVE  Frame \in Nat
<1>1. Current.frames \in Seq(Nat)
  BY CurrentUnit DEF Unit
<1>2. Len(Current.frames) \in Nat /\ next + 1 \in 1 .. Len(Current.frames)
  BY <1>1, LenProperties DEF AtFrame, TypeOK
<1>. QED
  BY <1>1, <1>2, ElementOfSeq DEF Frame

(* A placement of a part on a tape of the pool is right. *)
LEMMA PlacementIsRight ==
  ASSUME IInv, NEW p \in PoolPart, NEW i \in Nat, NEW n \in Nat
  PROVE  Placement(p, i, n) \in RightPlacement
<1>1. p.tape \in Tape /\ p.tape \in Pool /\ p.from \in Nat /\ p.to \in Nat /\ p.size \in Nat
  BY DEF IInv, TypeOK, PoolPart, Pool, Eligible
<1>2. unit \in Nat
  BY DEF IInv, TypeOK
<1>3. CASE p.tape \in fresh
  <2>1. Placement(p, i, n) =
          [unit |-> unit, part |-> i, parts |-> n, tape |-> p.tape, from |-> p.from,
           to |-> p.to, size |-> p.size, needsFormat |-> TRUE]
    BY <1>3 DEF Placement
  <2>2. p.tape \in ScratchTape
    BY <1>3 DEF IInv, ListsSound
  <2>. QED
    BY <1>1, <1>2, <2>1, <2>2 DEF RightPlacement, PlacementType
<1>4. CASE p.tape \notin fresh
  <2>1. Placement(p, i, n) =
          [unit |-> unit, part |-> i, parts |-> n, tape |-> p.tape, from |-> p.from,
           to |-> p.to, size |-> p.size, needsFormat |-> FALSE]
    <3>1. (p.tape \in fresh) = FALSE
      BY <1>4
    <3>. QED
      BY <3>1, Zenon DEF Placement
  <2>2. p.tape \in Eligible(shelf, greedy)
    BY <1>1, <1>4 DEF Pool
  <2>. QED
    BY <1>1, <1>2, <2>1, <2>2 DEF RightPlacement, PlacementType
<1>. QED
  BY <1>3, <1>4

(* So are the parts of a unit, turned into placements behind the others. *)
LEMMA PartsToPlacements ==
  ASSUME IInv, NEW q \in Seq(PoolPart)
  PROVE  placements \o [i \in 1 .. Len(q) |-> Placement(q[i], i - 1, Len(q))]
           \in Seq(RightPlacement)
<1>. DEFINE more == [i \in 1 .. Len(q) |-> Placement(q[i], i - 1, Len(q))]
<1>1. Len(q) \in Nat
  BY LenProperties
<1>2. ASSUME NEW i \in 1 .. Len(q)
      PROVE  Placement(q[i], i - 1, Len(q)) \in RightPlacement
  <2>1. q[i] \in PoolPart
    BY ElementOfSeq
  <2>2. i - 1 \in Nat
    BY <1>1
  <2>. QED
    BY <1>1, <2>1, <2>2, PlacementIsRight
<1>3. more \in [1 .. Len(q) -> RightPlacement]
  BY <1>2
<1>4. more \in Seq(RightPlacement)
  BY <1>1, <1>3, SeqDef
<1>. QED
  BY <1>4, ConcatProperties DEF IInv, ListsSound

(* Right placements and pool parts are of their types. *)
LEMMA SoundTypes ==
  ASSUME IInv
  PROVE  Pool \subseteq Tape /\ Seq(RightPlacement) \subseteq Seq(PlacementType)
<1>1. Pool \subseteq Tape
  BY DEF IInv, TypeOK, Pool, Eligible
<1>2. RightPlacement \subseteq PlacementType
  BY DEF RightPlacement
<1>. QED
  BY <1>1, <1>2, SeqMonotonic

(* Opening a scratch tape keeps the lists sound. *)
LEMMA OpensSound ==
  ASSUME IInv, NEW i \in DOMAIN scratch, Opens(i),
         UNCHANGED <<shelf, greedy, parts>>
  PROVE  /\ scratch[i] \in Tape
         /\ scratch[i] \in Pool'
         /\ Pool \subseteq Pool'
         /\ open \in Seq(Pool')
         /\ parts \in Seq(PoolPart')
         /\ owner' \in [Tape -> Source \cup {NoSource}]
         /\ fresh' \subseteq ScratchTape'
         /\ fresh' \in SUBSET Tape
         /\ scratch' \in Seq(ScratchTape')
         /\ scratch' \in Seq(Tape)
         /\ Eligible(shelf', greedy') = Eligible(shelf, greedy)
<1>. USE DEF IInv, TypeOK, ListsSound
<1>1. scratch[i] \in Tape /\ scratch[i] \in ScratchTape
  BY LenProperties, ElementOfSeq
<1>2. ScratchTape' = ScratchTape /\ Eligible(shelf', greedy') = Eligible(shelf, greedy)
  BY DEF ScratchTape, Eligible
<1>3. fresh' = fresh \cup {scratch[i]}
  BY DEF Opens
<1>4. Pool \subseteq Pool' /\ scratch[i] \in Pool'
  BY <1>2, <1>3 DEF Pool
<1>5. PoolPart \subseteq PoolPart'
  BY <1>4 DEF PoolPart
<1>6. open \in Seq(Pool') /\ parts \in Seq(PoolPart')
  BY <1>4, <1>5, SeqMonotonic
<1>7. scratch' \in Seq(ScratchTape) /\ scratch' \in Seq(Tape)
  BY DropType DEF Opens
<1>8. owner' \in [Tape -> Source \cup {NoSource}]
  BY <1>1 DEF Opens
<1>. QED
  BY <1>1, <1>2, <1>3, <1>4, <1>6, <1>7, <1>8

(* With the same tapes in the pool, what the lists are drawn from is the same. *)
LEMMA SamePool ==
  ASSUME UNCHANGED <<shelf, greedy, fresh>>
  PROVE  /\ Pool' = Pool /\ ScratchTape' = ScratchTape
         /\ PoolPart' = PoolPart /\ RightPlacement' = RightPlacement
  BY DEF Pool, ScratchTape, PoolPart, RightPlacement, Eligible

(* The invariant holds at the start. *)
LEMMA InitIInv == Init => IInv
<1>. SUFFICES ASSUME Init PROVE IInv
  OBVIOUS
<1>. USE DEF Init
<1>1. ASSUME NEW S, NEW q \in Listings(S)
      PROVE  q \in Seq(S)
  <2>1. PICK m \in 0 .. Cardinality(S) : q \in [1 .. m -> S]
    BY DEF Listings
  <2>. QED
    BY <2>1, SeqDef
<1>2. open \in Seq(Eligible(shelf, greedy)) /\ scratch \in Seq(ScratchTape)
  BY <1>1 DEF ScratchTape
<1>3. open \in Seq(Pool)
  BY <1>2, SeqMonotonic DEF Pool
<1>4. Eligible(shelf, greedy) \subseteq Tape /\ ScratchTape \subseteq Tape
  BY DEF Eligible, ScratchTape
<1>5. open \in Seq(Tape) /\ scratch \in Seq(Tape)
  BY <1>2, <1>4, SeqMonotonic
<1>6. \A t \in Tape : /\ shelf[t].used \in Nat
                     /\ shelf[t].owner \in Source \cup {NoSource}
  BY CartridgeShape
<1>7. TypeOK
  BY <1>5, <1>6 DEF TypeOK
<1>8. SpanFits /\ NoOverflow
  BY <1>6 DEF SpanFits, NoOverflow
<1>9. ListsSound
  BY <1>2, <1>3 DEF ListsSound
<1>. QED
  BY <1>7, <1>8, <1>9 DEF IInv

(* Every step keeps it. *)
LEMMA StepIInv == IInv /\ [Next]_vars => IInv'
<1>. SUFFICES ASSUME IInv, [Next]_vars PROVE IInv'
  OBVIOUS
<1>. USE DEF IInv, inputs, pool, cursor
<1>t. \A t \in Tape : /\ shelf[t].used \in Nat /\ used[t] \in Nat /\ Capacity[t] \in Nat
  BY CartridgeShape, CapacityType DEF TypeOK
<1>n. Len(units) \in Nat /\ unit \in Nat /\ load \in Nat /\ first \in Nat /\ next \in Nat
  BY BatchShape, LenProperties DEF TypeOK
<1>1. CASE NoPin
  <2>1. TypeOK'
    BY <1>1 DEF NoPin, TypeOK
  <2>2. SpanFits' /\ NoOverflow'
    BY <1>1, <1>t DEF NoPin, TypeOK, SpanFits, NoOverflow
  <2>3. ListsSound'
    BY <1>1, SamePool DEF NoPin, ListsSound
  <2>. QED
    BY <2>1, <2>2, <2>3
<1>2. CASE PinOpen
  <2>1. PICK i \in DOMAIN open : open[i] = target /\ open' = <<target>> \o Drop(open, i)
    BY <1>2 DEF PinOpen
  <2>2. target \in Pool /\ target \in Tape
    BY <2>1, LenProperties, ElementOfSeq DEF ListsSound, TypeOK
  <2>3. open' \in Seq(Pool) /\ open' \in Seq(Tape)
    <3>1. <<target>> \in Seq(Pool) /\ <<target>> \in Seq(Tape)
      BY <2>2
    <3>2. Drop(open, i) \in Seq(Pool) /\ Drop(open, i) \in Seq(Tape)
      BY DropType DEF ListsSound, TypeOK
    <3>. QED
      BY <2>1, <3>1, <3>2, ConcatProperties
  <2>4. TypeOK'
    BY <1>2, <2>3 DEF PinOpen, TypeOK
  <2>5. SpanFits' /\ NoOverflow'
    BY <1>2, <1>t DEF PinOpen, TypeOK, SpanFits, NoOverflow
  <2>6. ListsSound'
    BY <1>2, <2>3, SamePool DEF PinOpen, ListsSound
  <2>. QED
    BY <2>4, <2>5, <2>6
<1>3. CASE PinScratch
  <2>1. PICK i \in DOMAIN scratch : scratch[i] = target /\ Opens(i) /\ open' = <<target>> \o open
    BY <1>3 DEF PinScratch
  <2>2. UNCHANGED <<shelf, greedy, parts, placements, at, used, unit, units, target,
                    first, next, load>>
    BY <1>3 DEF PinScratch
  <2>3. open' \in Seq(Pool') /\ open' \in Seq(Tape)
    <3>1. target \in Pool' /\ target \in Tape /\ open \in Seq(Pool') /\ open \in Seq(Tape)
      BY <2>1, <2>2, OpensSound DEF TypeOK
    <3>. QED
      BY <2>1, <3>1, ConcatProperties
  <2>4. TypeOK'
    BY <1>3, <2>1, <2>2, <2>3, OpensSound DEF PinScratch, TypeOK
  <2>5. SpanFits' /\ NoOverflow'
    BY <1>3, <1>t DEF PinScratch, TypeOK, SpanFits, NoOverflow
  <2>6. RightPlacement' = RightPlacement
    BY <2>1, <2>2, OpensSound DEF RightPlacement, ScratchTape
  <2>7. ListsSound'
    BY <1>3, <2>1, <2>2, <2>3, <2>6, OpensSound DEF PinScratch, ListsSound
  <2>. QED
    BY <2>4, <2>5, <2>7
<1>4. CASE Finish
  <2>1. TypeOK'
    BY <1>4 DEF Finish, TypeOK
  <2>2. SpanFits' /\ NoOverflow'
    BY <1>4, <1>t DEF Finish, TypeOK, SpanFits, NoOverflow
  <2>3. ListsSound'
    BY <1>4, SamePool DEF Finish, ListsSound
  <2>. QED
    BY <2>1, <2>2, <2>3
<1>5. CASE PlaceWhole
  <2>. DEFINE p(t) == [tape |-> t, from |-> 0, to |-> Extent, size |-> Current.size]
  <2>1. unit <= Len(units) /\ Current \in Unit
    BY <1>5, CurrentUnit DEF PlaceWhole
  <2>2. Current.size \in Nat /\ Extent \in Nat
    BY <2>1, LenProperties DEF Unit, Extent
  <2>3. PICK t \in FirstThatFits(Current.size) :
          /\ used' = [used EXCEPT ![t] = @ + Current.size]
          /\ placements' = Append(placements, Placement(p(t), 0, 1))
    BY <1>5 DEF PlaceWhole
  <2>4. t \in Tape /\ Free(t) >= Current.size /\ t \in Pool
    <3>1. \A i \in DOMAIN open : open[i] \in Pool
      BY LenProperties, ElementOfSeq DEF ListsSound
    <3>. QED
      BY <2>2, <3>1, FittingTape
  <2>5. placements' \in Seq(RightPlacement)
    <3>1. p(t) \in PoolPart
      BY <2>2, <2>4 DEF PoolPart
    <3>2. Placement(p(t), 0, 1) \in RightPlacement
      BY <3>1, PlacementIsRight
    <3>. QED
      BY <2>3, <3>2, AppendProperties DEF ListsSound
  <2>6. TypeOK'
    <3>1. placements' \in Seq(PlacementType)
      BY <2>5, SoundTypes
    <3>2. used' \in [Tape -> Nat]
      BY <2>2, <2>3, <2>4 DEF TypeOK
    <3>. QED
      BY <1>5, <3>1, <3>2 DEF PlaceWhole, TypeOK
  <2>7. SpanFits'
    BY <1>5 DEF PlaceWhole, SpanFits
  <2>8. NoOverflow'
    <3>1. used[t] + Current.size <= Capacity[t] \/ Current.size = 0
      BY <2>2, <2>4, <1>t, FreeBytes
    <3>2. \A s \in Tape : used'[s] = IF s = t THEN used[s] + Current.size ELSE used[s]
      BY <2>3, <2>4 DEF TypeOK
    <3>. QED
      BY <1>5, <1>t, <2>2, <3>1, <3>2 DEF PlaceWhole, NoOverflow
  <2>9. ListsSound'
    BY <1>5, <2>5, SamePool DEF PlaceWhole, ListsSound
  <2>. QED
    BY <2>6, <2>7, <2>8, <2>9
<1>6. CASE OpenScratch
  <2>1. 1 \in DOMAIN scratch
    BY <1>6, LenProperties, EmptySeq DEF OpenScratch, TypeOK
  <2>2. /\ Opens(1) /\ open' = Append(open, scratch[1])
        /\ UNCHANGED <<shelf, greedy, parts, placements, at, used, unit, units, target,
                       first, next, load, step>>
    BY <1>6 DEF OpenScratch
  <2>3. open' \in Seq(Pool') /\ open' \in Seq(Tape)
    <3>1. scratch[1] \in Pool' /\ scratch[1] \in Tape /\ open \in Seq(Pool') /\ open \in Seq(Tape)
      BY <2>1, <2>2, OpensSound DEF TypeOK
    <3>. QED
      BY <2>2, <3>1, AppendProperties
  <2>4. TypeOK'
    BY <1>6, <2>1, <2>2, <2>3, OpensSound DEF OpenScratch, TypeOK
  <2>5. SpanFits' /\ NoOverflow'
    BY <1>6, <1>t DEF OpenScratch, TypeOK, SpanFits, NoOverflow
  <2>6. RightPlacement' = RightPlacement
    BY <2>1, <2>2, OpensSound DEF RightPlacement, ScratchTape
  <2>7. ListsSound'
    BY <1>6, <2>1, <2>2, <2>3, <2>6, OpensSound DEF OpenScratch, ListsSound
  <2>. QED
    BY <2>4, <2>5, <2>7
<1>7. CASE StartSpan
  <2>1. at' \in Tape /\ at' \in Pool /\ Free(at') >= 1
    <3>1. \A i \in DOMAIN open : open[i] \in Pool
      BY LenProperties, ElementOfSeq DEF ListsSound
    <3>. QED
      BY <1>7, <3>1, FittingTape DEF StartSpan
  <2>2. <<>> \in Seq(PoolPart) /\ <<>> \in Seq(PartType)
    BY EmptySeq
  <2>3. TypeOK'
    BY <1>7, <2>1, <2>2 DEF StartSpan, TypeOK
  <2>4. used[at'] <= Capacity[at']
    BY <2>1, <1>t DEF Free
  <2>5. SpanFits'
    BY <1>7, <2>1, <2>4, <1>t DEF StartSpan, MustSplit, SpanFits
  <2>6. NoOverflow'
    BY <1>7, <1>t DEF StartSpan, MustSplit, NoOverflow
  <2>7. ListsSound'
    BY <1>7, <2>1, <2>2, SamePool DEF StartSpan, ListsSound
  <2>. QED
    BY <2>3, <2>5, <2>6, <2>7
<1>8. CASE TakeFrame
  <2>1. Frame \in Nat /\ at \in Tape /\ step = "span"
    BY <1>8, FrameSize DEF TakeFrame, AtFrame, SpanFits, TypeOK
  <2>2. TypeOK'
    BY <1>8, <2>1, <1>n DEF TakeFrame, AtFrame, TypeOK
  <2>3. used[at] + (load + Frame) <= Capacity[at]
    <3>1. CASE Free(at) > 0
      BY <3>1, <1>8, <2>1, <1>t, <1>n, FreeBytes DEF TakeFrame
    <3>2. CASE Free(at) = 0
      BY <3>2, <1>8, <2>1, <1>t, <1>n DEF TakeFrame, SpanFits
    <3>. QED
      BY <3>1, <3>2, <2>1, FreeBytes
  <2>4. SpanFits'
    BY <1>8, <2>1, <2>3, <1>n DEF TakeFrame, SpanFits
  <2>5. NoOverflow'
    BY <1>8, <2>1, <2>3, <1>t DEF TakeFrame, NoOverflow
  <2>6. ListsSound'
    BY <1>8, SamePool DEF TakeFrame, ListsSound
  <2>. QED
    BY <2>2, <2>4, <2>5, <2>6
<1>9. CASE ClosePart
  <2>1. at \in Tape /\ at \in Pool /\ step = "span"
    BY <1>9 DEF ClosePart, AtFrame, TypeOK, ListsSound
  <2>2. used' = [used EXCEPT ![at] = @ + load] /\ used' \in [Tape -> Nat]
    BY <1>9, <2>1, <1>n DEF ClosePart, TypeOK
  <2>3. parts' \in Seq(PoolPart) /\ parts' \in Seq(PartType)
    <3>1. Part(at, first, next, load) \in PoolPart /\ Part(at, first, next, load) \in PartType
      BY <2>1, <1>n DEF Part, PoolPart, PartType
    <3>. QED
      BY <1>9, <3>1, AppendProperties DEF ClosePart, ListsSound, TypeOK
  <2>4. TypeOK'
    BY <1>9, <2>1, <2>2, <2>3, <1>n DEF ClosePart, TypeOK
  <2>5. \A s \in Tape : used'[s] = IF s = at THEN used[s] + load ELSE used[s]
    BY <2>1, <2>2 DEF TypeOK
  <2>6. SpanFits'
    BY <1>9, <2>1, <2>5, <1>t, <1>n DEF ClosePart, SpanFits
  <2>7. NoOverflow'
    BY <1>9, <2>1, <2>5, <1>t, <1>n DEF ClosePart, NoOverflow, SpanFits
  <2>8. ListsSound'
    BY <1>9, <2>3, SamePool DEF ClosePart, ListsSound
  <2>. QED
    BY <2>4, <2>6, <2>7, <2>8
<1>10. CASE NextTape
  <2>1. Frame \in Nat /\ at \in Tape /\ step = "span"
    BY <1>10, FrameSize DEF NextTape, AtFrame, SpanFits, TypeOK
  <2>2. at' \in Tape /\ at' \in Pool /\ Free(at') >= Frame
    <3>1. \A i \in DOMAIN open : open[i] \in Pool
      BY LenProperties, ElementOfSeq DEF ListsSound
    <3>. QED
      BY <1>10, <2>1, <3>1, FittingTape DEF NextTape
  <2>3. TypeOK'
    BY <1>10, <2>1, <2>2 DEF NextTape, TypeOK
  <2>4. load = 0 /\ load' = 0
    BY <1>10, <2>1 DEF NextTape, SpanFits
  <2>5. used[at'] <= Capacity[at']
    <3>1. Free(at') > 0
      BY <1>10, <2>1, <2>2, FreeBytes DEF NextTape
    <3>. QED
      BY <2>2, <3>1, <1>t DEF Free
  <2>6. SpanFits'
    BY <1>10, <2>1, <2>2, <2>4, <2>5, <1>t DEF NextTape, SpanFits
  <2>7. NoOverflow'
    BY <1>10, <2>1, <2>4, <1>t DEF NextTape, NoOverflow
  <2>8. ListsSound'
    BY <1>10, <2>2, SamePool DEF NextTape, ListsSound
  <2>. QED
    BY <2>3, <2>6, <2>7, <2>8
<1>11. CASE EndSpan
  <2>. DEFINE all == Append(parts, Part(at, first, next, load))
  <2>1. at \in Tape /\ at \in Pool /\ step = "span"
    BY <1>11 DEF EndSpan, TypeOK, ListsSound
  <2>2. all \in Seq(PoolPart)
    <3>1. Part(at, first, next, load) \in PoolPart
      BY <2>1, <1>n DEF Part, PoolPart
    <3>. QED
      BY <3>1, AppendProperties DEF ListsSound
  <2>3. placements' \in Seq(RightPlacement)
    <3>. HIDE DEF all
    <3>1. placements' = placements \o
            [i \in 1 .. Len(all) |-> Placement(all[i], i - 1, Len(all))]
      BY <1>11 DEF EndSpan, all
    <3>. QED
      BY <2>2, <3>1, PartsToPlacements
  <2>4. used' = [used EXCEPT ![at] = @ + load] /\ used' \in [Tape -> Nat]
    BY <1>11, <2>1, <1>n DEF EndSpan, TypeOK
  <2>5. TypeOK'
    <3>1. placements' \in Seq(PlacementType)
      BY <2>3, SoundTypes
    <3>2. step' = "next" /\ unit' = unit + 1 /\ UNCHANGED <<inputs, pool, cursor>>
      BY <1>11 DEF EndSpan
    <3>3. unit' \in Nat \ {0}
      BY <3>2, <1>n DEF TypeOK
    <3>. QED
      BY <2>1, <2>4, <3>1, <3>2, <3>3 DEF TypeOK
  <2>6. SpanFits'
    BY <1>11 DEF EndSpan, SpanFits
  <2>7. NoOverflow'
    <3>1. \A s \in Tape : used'[s] = IF s = at THEN used[s] + load ELSE used[s]
      BY <2>1, <2>4 DEF TypeOK
    <3>. QED
      BY <1>11, <2>1, <3>1, <1>t, <1>n DEF EndSpan, NoOverflow, SpanFits
  <2>8. ListsSound'
    BY <1>11, <2>3, SamePool DEF EndSpan, ListsSound
  <2>. QED
    BY <2>5, <2>6, <2>7, <2>8
<1>12. CASE StartSplit
  <2>1. <<>> \in Seq(PoolPart) /\ <<>> \in Seq(PartType)
    BY EmptySeq
  <2>2. TypeOK'
    BY <1>12, <2>1 DEF StartSplit, MustSplit, TypeOK
  <2>3. SpanFits'
    BY <1>12 DEF StartSplit, MustSplit, SpanFits
  <2>4. NoOverflow'
    BY <1>12, <1>t DEF StartSplit, MustSplit, NoOverflow
  <2>5. ListsSound'
    BY <1>12, <2>1, SamePool DEF StartSplit, ListsSound
  <2>. QED
    BY <2>2, <2>3, <2>4, <2>5
<1>13. CASE SplitChunk
  <2>. DEFINE rest == Current.size - first
              take(t) == IF Free(t) < rest THEN Free(t) ELSE rest
  <2>1. step = "split" /\ Current \in Unit
    BY <1>13, CurrentUnit DEF SplitChunk, SpanFits
  <2>2. rest \in Nat
    BY <1>13, <2>1, <1>n DEF SplitChunk, Unit
  <2>3. PICK t \in FirstThatFits(1) :
          /\ first' = first + take(t)
          /\ parts' = Append(parts, Part(t, first, first + take(t), take(t)))
          /\ used' = [used EXCEPT ![t] = @ + take(t)]
    BY <1>13 DEF SplitChunk
  <2>4. t \in Tape /\ Free(t) \in Nat /\ Free(t) >= 1 /\ t \in Pool
    <3>1. \A i \in DOMAIN open : open[i] \in Pool
      BY LenProperties, ElementOfSeq DEF ListsSound
    <3>. QED
      BY <3>1, FittingTape, FreeBytes
  <2>5. take(t) \in Nat /\ take(t) <= Free(t)
    BY <2>2, <2>4
  <2>6. parts' \in Seq(PoolPart) /\ parts' \in Seq(PartType)
    <3>1. /\ Part(t, first, first + take(t), take(t)) \in PoolPart
          /\ Part(t, first, first + take(t), take(t)) \in PartType
      <4>. HIDE DEF take
      <4>. QED
        BY <2>4, <2>5, <1>n DEF Part, PoolPart, PartType
    <3>. QED
      BY <2>3, <3>1, AppendProperties DEF ListsSound, TypeOK
  <2>7. \A s \in Tape : used'[s] = IF s = t THEN used[s] + take(t) ELSE used[s]
    BY <2>3, <2>4 DEF TypeOK
  <2>8. TypeOK'
    <3>1. used' \in [Tape -> Nat] /\ first' \in Nat
      <4>. HIDE DEF take
      <4>. QED
        BY <2>3, <2>4, <2>5, <1>n DEF TypeOK
    <3>. QED
      BY <1>13, <2>6, <3>1 DEF SplitChunk, TypeOK
  <2>9. SpanFits'
    BY <1>13 DEF SplitChunk, SpanFits
  <2>10. NoOverflow'
    <3>1. used[t] + take(t) <= Capacity[t]
      <4>. HIDE DEF take
      <4>. QED
        BY <2>4, <2>5, <1>t, FreeBytes
    <3>2. step' = "split" /\ shelf' = shelf
      BY <1>13, <2>1 DEF SplitChunk
    <3>. HIDE DEF take
    <3>3. ASSUME NEW s \in Tape
          PROVE  used'[s] <= Capacity[s] \/ used'[s] = shelf[s].used
      <4>1. CASE s = t
        BY <4>1, <2>7, <3>1
      <4>2. CASE s # t
        BY <4>2, <2>1, <2>7, <1>t DEF NoOverflow
      <4>. QED
        BY <4>1, <4>2
    <3>4. \A s \in Tape : used'[s] \in Nat
      BY <2>8 DEF TypeOK
    <3>. QED
      BY <3>2, <3>3, <3>4 DEF NoOverflow
  <2>11. ListsSound'
    BY <1>13, <2>6, SamePool DEF SplitChunk, ListsSound
  <2>. QED
    BY <2>8, <2>9, <2>10, <2>11
<1>14. CASE EndSplit
  <2>1. placements' \in Seq(RightPlacement)
    BY <1>14, PartsToPlacements DEF EndSplit, ListsSound
  <2>2. TypeOK'
    <3>1. placements' \in Seq(PlacementType)
      BY <2>1, SoundTypes
    <3>. QED
      BY <1>14, <3>1, <1>n DEF EndSplit, TypeOK
  <2>3. SpanFits'
    BY <1>14 DEF EndSplit, SpanFits
  <2>4. NoOverflow'
    BY <1>14, <1>t DEF EndSplit, NoOverflow
  <2>5. ListsSound'
    BY <1>14, <2>1, SamePool DEF EndSplit, ListsSound
  <2>. QED
    BY <2>2, <2>3, <2>4, <2>5
<1>15. CASE Fail
  <2>1. TypeOK'
    BY <1>15 DEF Fail, TypeOK
  <2>2. SpanFits'
    BY <1>15 DEF Fail, SpanFits
  <2>3. NoOverflow'
    BY <1>15, <1>t, <1>n DEF Fail, NoOverflow, SpanFits
  <2>4. ListsSound'
    BY <1>15, SamePool DEF Fail, ListsSound
  <2>. QED
    BY <2>1, <2>2, <2>3, <2>4
<1>16. CASE UNCHANGED vars
  <2>1. TypeOK'
    BY <1>16 DEF vars, TypeOK
  <2>2. SpanFits' /\ NoOverflow'
    BY <1>16 DEF vars, SpanFits, NoOverflow, Free
  <2>3. ListsSound'
    BY <1>16, SamePool DEF vars, ListsSound
  <2>. QED
    BY <2>1, <2>2, <2>3
<1>. QED
  BY <1>1, <1>2, <1>3, <1>4, <1>5, <1>6, <1>7, <1>8, <1>9, <1>10, <1>11, <1>12,
     <1>13, <1>14, <1>15, <1>16 DEF Next

(* The invariant holds throughout. *)
THEOREM Invariance == Spec => []IInv
BY InitIInv, StepIInv, PTL DEF Spec

(* Every variable keeps its type. *)
THEOREM TypeCorrect == Spec => []TypeOK
<1>1. IInv => TypeOK
  BY DEF IInv
<1>. QED
  BY <1>1, Invariance, PTL

(* No layout fills a tape beyond its capacity: whatever the sizes, parts   *)
(* of several units and the buffer never take more than the tape has.      *)
THEOREM NoTapeOverflows == Spec => []NoOverflow
<1>1. IInv => NoOverflow
  BY DEF IInv
<1>. QED
  BY <1>1, Invariance, PTL

(* What a placement says about its tape follows from the catalogue.        *)
LEMMA PlacementsAreRight ==
  ASSUME IInv, NEW i \in DOMAIN placements
  PROVE  /\ placements[i].needsFormat \in BOOLEAN
         /\ placements[i].needsFormat => shelf[placements[i].tape].status = "scratch"
         /\ ~placements[i].needsFormat =>
              /\ shelf[placements[i].tape].status = "active"
              /\ greedy # NoSource => shelf[placements[i].tape].owner = greedy
<1>1. placements[i] \in RightPlacement
  BY LenProperties, ElementOfSeq DEF IInv, ListsSound
<1>. QED
  BY <1>1 DEF RightPlacement, PlacementType, ScratchTape, Eligible

(* A job formats the scratch tapes it uses and no tape that holds data.    *)
THEOREM OnlyScratchIsFormatted == Spec => []FormatsScratchOnly
<1>1. IInv => FormatsScratchOnly
  BY PlacementsAreRight DEF FormatsScratchOnly
<1>. QED
  BY <1>1, Invariance, PTL

(* A greedy job writes on no tape with data that is not its source's.      *)
THEOREM GreedyJobsAreIsolated == Spec => []GreedyIsolation
<1>1. IInv => GreedyIsolation
  BY PlacementsAreRight DEF GreedyIsolation
<1>. QED
  BY <1>1, Invariance, PTL
-----------------------------------------------------------------------------

(* The bytes of the entries S of a list, those for tape t, and the sum of  *)
(* the latter.                                                             *)
BytesOf(q, S) == SumFunctionOnSet([i \in DOMAIN q |-> q[i].size], S)
On(q, t) == {i \in DOMAIN q : q[i].tape = t}
TapeBytes(q, t) == BytesOf(q, On(q, t))

LEMMA BytesType ==
  ASSUME NEW R, \A r \in R : r.size \in Nat, NEW q \in Seq(R), NEW S \in SUBSET DOMAIN q
  PROVE  /\ IsFiniteSet(S)
         /\ \A i \in S : [j \in DOMAIN q |-> q[j].size][i] \in Nat
         /\ BytesOf(q, S) \in Nat
         /\ S = {} => BytesOf(q, S) = 0
<1>1. DOMAIN q = 1 .. Len(q) /\ Len(q) \in Nat
  BY LenProperties
<1>2. IsFiniteSet(S)
  <2>1. IsFiniteSet(1 .. Len(q))
    BY <1>1, FS_Interval
  <2>. QED
    BY <1>1, <2>1, FS_Subset
<1>3. \A i \in S : [j \in DOMAIN q |-> q[j].size][i] \in Nat
  BY <1>1, ElementOfSeq
<1>. QED
  BY <1>2, <1>3, SumPick DEF BytesOf

(* Entries that stay where they are keep their bytes. *)
LEMMA BytesKept ==
  ASSUME NEW R, \A r \in R : r.size \in Nat, NEW q \in Seq(R), NEW S \in SUBSET DOMAIN q,
         NEW w, S \subseteq DOMAIN w, \A i \in S : w[i].size = q[i].size
  PROVE  BytesOf(w, S) = BytesOf(q, S)
<1>1. PICK f, g : f = [i \in DOMAIN q |-> q[i].size] /\ g = [i \in DOMAIN w |-> w[i].size]
  OBVIOUS
<1>2. \A i \in S : f[i] \in Nat /\ g[i] = f[i]
  BY <1>1, BytesType
<1>3. SumFunctionOnSet(g, S) = SumFunctionOnSet(f, S)
  BY <1>2, BytesType, SumSame
<1>. QED
  BY <1>1, <1>3 DEF BytesOf

(* The bytes of two lists, one behind the other, add up. *)
LEMMA BytesConcat ==
  ASSUME NEW R, \A r \in R : r.size \in Nat, NEW q \in Seq(R), NEW w \in Seq(R), NEW t
  PROVE  TapeBytes(q \o w, t) = TapeBytes(q, t) + TapeBytes(w, t)
<1>1. PICK both : both = q \o w
  OBVIOUS
<1>2. /\ both \in Seq(R) /\ Len(q) \in Nat /\ Len(w) \in Nat
      /\ DOMAIN q = 1 .. Len(q) /\ DOMAIN w = 1 .. Len(w)
      /\ DOMAIN both = 1 .. Len(q) + Len(w)
      /\ \A i \in 1 .. Len(q) : both[i] = q[i]
      /\ \A i \in 1 .. Len(w) : both[Len(q) + i] = w[i]
  BY <1>1, LenProperties, ConcatProperties
<1>3. PICK m : m = [i \in 1 .. Len(w) |-> Len(q) + i]
  OBVIOUS
<1>4. PICK S, T, M : S = On(q, t) /\ T = On(w, t) /\ M = {m[i] : i \in T}
  OBVIOUS
<1>5. S \subseteq DOMAIN q /\ T \subseteq DOMAIN w
  BY <1>4 DEF On
<1>6. \A i \in T : m[i] = Len(q) + i /\ i \in Nat
  BY <1>2, <1>3, <1>5
<1>7. M \subseteq DOMAIN both /\ S \subseteq DOMAIN both /\ S \cap M = {}
  BY <1>2, <1>4, <1>5, <1>6
<1>8. On(both, t) = S \cup M
  <2>1. ASSUME NEW i \in DOMAIN both, both[i].tape = t
        PROVE  i \in S \cup M
    <3>1. CASE i <= Len(q)
      BY <1>2, <1>4, <2>1, <3>1 DEF On
    <3>2. CASE i > Len(q)
      <4>1. PICK k : k = i - Len(q)
        OBVIOUS
      <4>2. k \in 1 .. Len(w) /\ Len(q) + k = i
        BY <1>2, <2>1, <3>2, <4>1
      <4>3. w[k] = both[i]
        BY <1>2, <4>2
      <4>4. k \in T
        BY <1>2, <1>4, <2>1, <4>2, <4>3 DEF On
      <4>. QED
        BY <1>4, <1>6, <4>2, <4>4
    <3>. QED
      BY <1>2, <2>1, <3>1, <3>2
  <2>2. ASSUME NEW i \in S
        PROVE  both[i].tape = t
    BY <1>2, <1>4, <1>5 DEF On
  <2>3. ASSUME NEW i \in T
        PROVE  both[m[i]].tape = t
    BY <1>2, <1>4, <1>5, <1>6 DEF On
  <2>. QED
    BY <1>4, <1>7, <2>1, <2>2, <2>3 DEF On
<1>9. BytesOf(both, S \cup M) = BytesOf(both, S) + BytesOf(both, M)
  <2>1. S \cup M \in SUBSET DOMAIN both /\ S \in SUBSET DOMAIN both /\ M \in SUBSET DOMAIN both
    BY <1>7
  <2>2. PICK f : f = [i \in DOMAIN both |-> both[i].size]
    OBVIOUS
  <2>3. /\ IsFiniteSet(S) /\ IsFiniteSet(M)
        /\ \A i \in S \cup M : f[i] \in Nat
    BY <1>2, <2>1, <2>2, BytesType
  <2>4. SumFunctionOnSet(f, S \cup M) = SumFunctionOnSet(f, S) + SumFunctionOnSet(f, M)
    BY <1>7, <2>3, SumUnion
  <2>. QED
    BY <2>2, <2>4 DEF BytesOf
<1>10. BytesOf(both, S) = BytesOf(q, S)
  BY <1>2, <1>5, <1>7, BytesKept
<1>11. BytesOf(both, M) = BytesOf(w, T)
  <2>1. PICK f, g : f = [i \in DOMAIN w |-> w[i].size] /\ g = [i \in DOMAIN both |-> both[i].size]
    OBVIOUS
  <2>2. IsFiniteSet(T) /\ \A i \in T : f[i] \in Nat
    BY <1>5, <2>1, BytesType
  <2>3. \A i \in T : g[m[i]] = f[i]
    BY <1>2, <1>5, <1>6, <2>1
  <2>4. \A i, j \in T : m[i] = m[j] => i = j
    BY <1>2, <1>6
  <2>5. /\ \A i \in T : m[i] \in M
        /\ \A k \in M : \E i \in T : k = m[i]
    BY <1>4
  <2>6. Renames(m, T, f, M, g)
    BY <2>2, <2>3, <2>4, <2>5 DEF Renames
  <2>7. SumFunctionOnSet(g, M) = SumFunctionOnSet(f, T)
    BY <2>6, SumRenamed
  <2>. QED
    BY <1>4, <2>1, <2>7 DEF BytesOf
<1>. QED
  BY <1>1, <1>4, <1>8, <1>9, <1>10, <1>11 DEF TapeBytes

LEMMA BytesOfNone ==
  ASSUME NEW t
  PROVE  TapeBytes(<<>>, t) = 0
<1>1. On(<<>>, t) = {}
  BY DEF On
<1>2. SumFunctionOnSet([i \in DOMAIN <<>> |-> <<>>[i].size], {}) = 0
  BY FS_EmptySet, SumPick
<1>. QED
  BY <1>1, <1>2 DEF TapeBytes, BytesOf

LEMMA BytesOfOne ==
  ASSUME NEW r, r.size \in Nat, NEW t
  PROVE  TapeBytes(<<r>>, t) = IF r.tape = t THEN r.size ELSE 0
<1>1. PICK q, f : q = <<r>> /\ f = [i \in DOMAIN q |-> q[i].size]
  OBVIOUS
<1>2. DOMAIN q = {1} /\ q[1] = r /\ f[1] = r.size
  BY <1>1
<1>3. CASE r.tape = t
  <2>1. On(q, t) = {1}
    BY <1>2, <1>3 DEF On
  <2>2. IsFiniteSet({1}) /\ IsFiniteSet({}) /\ {1} \ {1} = {}
    BY FS_EmptySet, FS_Singleton
  <2>3. \A i \in {1} : f[i] \in Nat
    BY <1>2
  <2>4. SumFunctionOnSet(f, {1}) = f[1] + SumFunctionOnSet(f, {1} \ {1})
    BY <2>2, <2>3, SumRemove
  <2>5. SumFunctionOnSet(f, {}) = 0
    BY <2>2, SumPick
  <2>6. SumFunctionOnSet(f, {1}) = r.size
    BY <1>2, <2>2, <2>4, <2>5
  <2>. QED
    BY <1>1, <1>3, <2>1, <2>6 DEF TapeBytes, BytesOf
<1>4. CASE r.tape # t
  <2>1. On(q, t) = {}
    BY <1>2, <1>4 DEF On
  <2>2. SumFunctionOnSet(f, {}) = 0
    BY FS_EmptySet, SumPick
  <2>. QED
    BY <1>1, <1>4, <2>1, <2>2 DEF TapeBytes, BytesOf
<1>. QED
  BY <1>3, <1>4

LEMMA BytesAppend ==
  ASSUME NEW R, \A r \in R : r.size \in Nat, NEW q \in Seq(R), NEW r \in R, NEW t
  PROVE  TapeBytes(Append(q, r), t) = TapeBytes(q, t) + IF r.tape = t THEN r.size ELSE 0
<1>1. <<r>> \in Seq(R) /\ Append(q, r) = q \o <<r>>
  BY AppendIsConcat
<1>2. TapeBytes(q \o <<r>>, t) = TapeBytes(q, t) + TapeBytes(<<r>>, t)
  BY <1>1, BytesConcat
<1>3. TapeBytes(<<r>>, t) = IF r.tape = t THEN r.size ELSE 0
  BY BytesOfOne
<1>. QED
  BY <1>1, <1>2, <1>3
-----------------------------------------------------------------------------
(* The units that have been passed have all their placements, which cover  *)
(* them, and no other unit has any.                                        *)
Filed ==
  /\ \A i \in DOMAIN placements : placements[i].unit \in 1 .. unit - 1
  /\ \A u \in 1 .. unit - 1 : Covered(u)

(* The parts of the unit at hand begin at 0 and go on where the last ends. *)
Chained(q) == \A k \in 1 .. Len(q) : q[k].from = IF k = 1 THEN 0 ELSE q[k - 1].to

PartsChained ==
  step \in {"span", "split"} =>
    /\ Chained(parts)
    /\ first = IF parts = <<>> THEN 0 ELSE parts[Len(parts)].to
    /\ step = "span" => Current.kind = "sequence" /\ next <= Len(Current.frames)
    /\ step = "split" => Current.kind = "file" /\ first <= Current.size

(* What a tape held and what the placements put there; what is reserved is *)
(* that, with the parts of the unit at hand.                               *)
Placed(t) == shelf[t].used + TapeBytes(placements, t)

Reserved ==
  /\ step \in {"pin", "next", "done"} => \A t \in Tape : used[t] = Placed(t)
  /\ step \in {"span", "split"} =>
       \A t \in Tape : used[t] = Placed(t) + TapeBytes(parts, t)

(* No usable tape is lost from the pool, and a unit is being split only    *)
(* because none has room for it.                                           *)
Usable == Eligible(shelf, greedy) \cup {t \in Tape : shelf[t].status = "scratch"}
NoRoom(size) == \A t \in Usable : Placed(t) + size > Capacity[t]

PoolKept == Usable \subseteq Range(open) \cup Range(scratch)
SplitForced == step \in {"span", "split"} => NoRoom(Current.size)

LInv == Filed /\ PartsChained /\ Reserved /\ PoolKept /\ SplitForced /\ NoNeedlessSplit

(* NoNeedlessSplit, in these terms.                                        *)
Sooner(q, t, u) == {j \in DOMAIN q : q[j].tape = t /\ q[j].unit < u}

LEMMA SplitsInTerms ==
  NoNeedlessSplit <=>
    \A i \in DOMAIN placements : placements[i].parts > 1 =>
      \A t \in Usable :
        shelf[t].used + BytesOf(placements, Sooner(placements, t, placements[i].unit))
          + units[placements[i].unit].size > Capacity[t]
BY DEF NoNeedlessSplit, BytesOn, BytesOf, Sooner, Usable

LEMMA PlacementSizes ==
  ASSUME IInv
  PROVE  /\ placements \in Seq(PlacementType) /\ \A r \in PlacementType : r.size \in Nat
         /\ parts \in Seq(PartType) /\ \A r \in PartType : r.size \in Nat
BY DEF IInv, TypeOK, PlacementType, PartType

LEMMA PlacedType ==
  ASSUME IInv, NEW t \in Tape
  PROVE  /\ shelf[t].used \in Nat /\ Capacity[t] \in Nat
         /\ TapeBytes(placements, t) \in Nat /\ Placed(t) \in Nat
<1>1. shelf[t].used \in Nat /\ Capacity[t] \in Nat
  BY CartridgeShape, CapacityType DEF IInv, TypeOK
<1>2. On(placements, t) \in SUBSET DOMAIN placements
  BY DEF On
<1>3. TapeBytes(placements, t) \in Nat
  BY <1>2, PlacementSizes, BytesType DEF TapeBytes
<1>. QED
  BY <1>1, <1>3 DEF Placed

(* What a placement says.                                                  *)
LEMMA PlacementSays ==
  ASSUME IInv, NEW p \in PartType, NEW i \in Nat, NEW n \in Nat, NEW w, w = Placement(p, i, n)
  PROVE  /\ w \in PlacementType
         /\ w.unit = unit /\ w.part = i /\ w.parts = n /\ w.tape = p.tape
         /\ w.from = p.from /\ w.to = p.to /\ w.size = p.size
<1>1. unit \in Nat
  BY DEF IInv, TypeOK
<1>2. ASSUME NEW x \in BOOLEAN, (p.tape \in fresh) = x
      PROVE  w = [unit |-> unit, part |-> i, parts |-> n, tape |-> p.tape, from |-> p.from,
                  to |-> p.to, size |-> p.size, needsFormat |-> x]
  BY <1>2, Zenon DEF Placement
<1>3. CASE p.tape \in fresh
  <2>1. (p.tape \in fresh) = TRUE
    BY <1>3
  <2>2. w = [unit |-> unit, part |-> i, parts |-> n, tape |-> p.tape, from |-> p.from,
             to |-> p.to, size |-> p.size, needsFormat |-> TRUE]
    BY <1>2, <2>1, Zenon
  <2>. QED
    BY <1>1, <2>2 DEF PartType, PlacementType
<1>4. CASE p.tape \notin fresh
  <2>1. (p.tape \in fresh) = FALSE
    BY <1>4
  <2>2. w = [unit |-> unit, part |-> i, parts |-> n, tape |-> p.tape, from |-> p.from,
             to |-> p.to, size |-> p.size, needsFormat |-> FALSE]
    BY <1>2, <2>1, Zenon
  <2>. QED
    BY <1>1, <2>2 DEF PartType, PlacementType
<1>. QED
  BY <1>3, <1>4

(* A cover is one as long as its entries stay. *)
LEMMA CoverStays ==
  ASSUME NEW p, NEW q, NEW S, NEW e, Covers(p, S, e),
         Len(p) \in Nat, Len(q) \in Nat, Len(p) <= Len(q), S \subseteq 1 .. Len(p),
         \A i \in S : q[i] = p[i]
  PROVE  Covers(q, S, e)
<1>1. CASE S = {}
  BY <1>1 DEF Covers
<1>2. CASE S # {}
  <2>1. PICK n : n = Cardinality(S)
    OBVIOUS
  <2>2. n \in Nat /\ n > 0
    <3>1. IsFiniteSet(1 .. Len(p))
      BY FS_Interval
    <3>2. IsFiniteSet(S)
      BY <3>1, FS_Subset
    <3>. QED
      BY <1>2, <2>1, <3>2, FS_CardinalityType, FS_EmptySet
  <2>3. PICK b \in 0 .. Len(p) :
              /\ S = b + 1 .. b + n
              /\ p[b + 1].from = 0
              /\ p[b + n].to = e
              /\ \A k \in 1 .. n :
                 /\ p[b + k].part = k - 1
                 /\ p[b + k].parts = n
                 /\ k > 1 => p[b + k].from = p[b + k - 1].to
    BY <1>2, <2>1 DEF Covers
  <2>4. \A k \in 1 .. n : q[b + k] = p[b + k]
    <3>1. \A k \in 1 .. n : b + k \in S
      BY <2>2, <2>3
    <3>. QED
      BY <3>1
  <2>5. 1 \in 1 .. n /\ n \in 1 .. n
    BY <2>2
  <2>6. ASSUME NEW k \in 1 .. n, k > 1
        PROVE  q[b + k].from = q[b + k - 1].to
    <3>1. k - 1 \in 1 .. n /\ b + (k - 1) = b + k - 1
      BY <2>2, <2>3, <2>6
    <3>. QED
      BY <2>3, <2>4, <2>6, <3>1
  <2>7. b \in 0 .. Len(q)
    OBVIOUS
  <2>8. /\ S = b + 1 .. b + n
        /\ q[b + 1].from = 0
        /\ q[b + n].to = e
        /\ \A k \in 1 .. n :
             /\ q[b + k].part = k - 1
             /\ q[b + k].parts = n
             /\ k > 1 => q[b + k].from = q[b + k - 1].to
    BY <2>3, <2>4, <2>5, <2>6
  <2>. QED
    BY <1>2, <2>1, <2>7, <2>8 DEF Covers
<1>. QED
  BY <1>1, <1>2

(* The parts q of the unit at hand become placements, and it is passed.    *)
LEMMA UnitPassed ==
  ASSUME IInv, Filed, NoNeedlessSplit, unit <= Len(units),
         NEW q \in Seq(PartType), Chained(q),
         IF q = <<>> THEN Extent = 0 ELSE q[Len(q)].to = Extent,
         Len(q) > 1 => NoRoom(Current.size),
         placements' = placements \o [i \in 1 .. Len(q) |-> Placement(q[i], i - 1, Len(q))],
         unit' = unit + 1, UNCHANGED <<shelf, units, greedy>>
  PROVE  /\ Filed' /\ NoNeedlessSplit'
         /\ \A t \in Tape : Placed(t)' = Placed(t) + TapeBytes(q, t)
<1>1. PICK w : w = [i \in 1 .. Len(q) |-> Placement(q[i], i - 1, Len(q))]
  OBVIOUS
<1>2. PICK m, n, p, p2 : m = Len(placements) /\ n = Len(q) /\ p = placements /\ p2 = placements'
  OBVIOUS
<1>3. /\ n \in Nat /\ DOMAIN q = 1 .. n
      /\ \A k \in 1 .. n : q[k] \in PartType /\ k - 1 \in Nat
  BY <1>2, LenProperties, ElementOfSeq
<1>4. \A k \in 1 .. n : /\ w[k] \in PlacementType
                        /\ w[k].unit = unit /\ w[k].part = k - 1 /\ w[k].parts = n
                        /\ w[k].tape = q[k].tape /\ w[k].size = q[k].size
                        /\ w[k].from = q[k].from /\ w[k].to = q[k].to
  <2> SUFFICES ASSUME NEW k \in 1 .. n
               PROVE  /\ w[k] \in PlacementType
                      /\ w[k].unit = unit /\ w[k].part = k - 1 /\ w[k].parts = n
                      /\ w[k].tape = q[k].tape /\ w[k].size = q[k].size
                      /\ w[k].from = q[k].from /\ w[k].to = q[k].to
    OBVIOUS
  <2>1. w[k] = Placement(q[k], k - 1, n)
    BY <1>1, <1>2
  <2>2. q[k] \in PartType /\ k - 1 \in Nat /\ n \in Nat
    BY <1>3
  <2>. QED
    BY <2>1, <2>2, PlacementSays
<1>5. w \in [1 .. n -> PlacementType]
  BY <1>1, <1>2, <1>4
<1>6. w \in Seq(PlacementType) /\ Len(w) = n
  BY <1>3, <1>5, SeqDef, LenProperties
<1>7. /\ m \in Nat /\ DOMAIN p = 1 .. m /\ DOMAIN p2 = 1 .. m + n
      /\ \A i \in 1 .. m : p2[i] = p[i]
      /\ \A k \in 1 .. n : p2[m + k] = w[k]
      /\ p2 \in Seq(PlacementType) /\ Len(p2) = m + n
  BY <1>1, <1>2, <1>6, PlacementSizes, LenProperties, ConcatProperties
<1>8. \A i \in DOMAIN p2 : IF i <= m THEN i \in DOMAIN p /\ p2[i] = p[i] /\ p2[i].unit \in 1 .. unit - 1
                           ELSE \E k \in 1 .. n : i = m + k /\ p2[i] = w[k] /\ p2[i].unit = unit
  <2> SUFFICES ASSUME NEW i \in DOMAIN p2
               PROVE  IF i <= m THEN i \in DOMAIN p /\ p2[i] = p[i] /\ p2[i].unit \in 1 .. unit - 1
                      ELSE \E k \in 1 .. n : i = m + k /\ p2[i] = w[k] /\ p2[i].unit = unit
    OBVIOUS
  <2>1. CASE i <= m
    BY <1>2, <1>7, <2>1 DEF Filed
  <2>2. CASE ~(i <= m)
    <3>1. PICK k : k = i - m
      OBVIOUS
    <3>2. i \in 1 .. m + n /\ m \in Nat /\ n \in Nat
      BY <1>3, <1>7
    <3>3. k \in 1 .. n /\ i = m + k
      BY <2>2, <3>1, <3>2
    <3>4. p2[i] = w[k] /\ w[k].unit = unit
      BY <1>4, <1>7, <3>3
    <3>. QED
      BY <2>2, <3>3, <3>4
  <2>. QED
    BY <2>1, <2>2
<1>9. unit \in Nat /\ unit > 0 /\ unit' - 1 = unit
  BY DEF IInv, TypeOK
<1>10. \A t \in Tape : Placed(t)' = Placed(t) + TapeBytes(q, t)
  <2> SUFFICES ASSUME NEW t \in Tape
               PROVE  Placed(t)' = Placed(t) + TapeBytes(q, t)
    OBVIOUS
  <2>1. TapeBytes(p \o w, t) = TapeBytes(p, t) + TapeBytes(w, t)
    BY <1>2, <1>6, PlacementSizes, BytesConcat
  <2>2. On(w, t) = On(q, t) /\ On(q, t) \in SUBSET DOMAIN q /\ On(q, t) \subseteq DOMAIN w
    BY <1>3, <1>4, <1>5 DEF On
  <2>3. \A i \in On(q, t) : w[i].size = q[i].size
    BY <1>3, <1>4, <2>2
  <2>4. BytesOf(w, On(q, t)) = BytesOf(q, On(q, t))
    BY <2>2, <2>3, PlacementSizes, BytesKept
  <2>5. BytesOf(q, On(q, t)) \in Nat
    BY <2>2, PlacementSizes, BytesType
  <2>6. placements' = p \o w /\ shelf' = shelf
    BY <1>1, <1>2
  <2>7. Placed(t)' = shelf'[t].used + TapeBytes(placements', t)
    BY DEF Placed, TapeBytes, BytesOf, On
  <2>8. TapeBytes(w, t) = TapeBytes(q, t) /\ TapeBytes(q, t) \in Nat
    BY <2>2, <2>4, <2>5 DEF TapeBytes
  <2>9. shelf[t].used \in Nat /\ TapeBytes(placements, t) \in Nat
    BY PlacedType
  <2>10. Placed(t) = shelf[t].used + TapeBytes(placements, t)
    BY DEF Placed
  <2>11. PICK c, d, e : c = shelf[t].used /\ d = TapeBytes(p, t) /\ e = TapeBytes(q, t)
    OBVIOUS
  <2>12. c \in Nat /\ d \in Nat /\ e \in Nat
    BY <1>2, <2>8, <2>9, <2>11
  <2>13. Placed(t)' = c + (d + e)
    BY <2>1, <2>6, <2>7, <2>8, <2>11
  <2>14. Placed(t) = c + d
    BY <1>2, <2>10, <2>11
  <2>15. c + (d + e) = (c + d) + e
    BY <2>12
  <2>. QED
    BY <2>11, <2>13, <2>14, <2>15, Zenon
<1>11. Filed'
  <2>1. \A i \in DOMAIN p2 : p2[i].unit \in 1 .. unit
    BY <1>8, <1>9
  <2>6. ASSUME NEW u
        PROVE  Covered(u)' <=>
                 Covers(placements', {i \in DOMAIN placements' : placements'[i].unit = u},
                        IF units[u].kind = "sequence" THEN Len(units[u].frames)
                        ELSE units[u].size)
    BY DEF Covered, Covers
  <2>2. ASSUME NEW u \in 1 .. unit - 1
        PROVE  Covered(u)'
    <3>1. Covered(u)
      BY <2>2 DEF Filed
    <3>2. PICK S : S = {i \in DOMAIN p : p[i].unit = u}
      OBVIOUS
    <3>3. {i \in DOMAIN p2 : p2[i].unit = u} = S
      BY <1>3, <1>7, <1>8, <2>2, <3>2, <1>9
    <3>4. PICK e : e = IF units[u].kind = "sequence" THEN Len(units[u].frames) ELSE units[u].size
      OBVIOUS
    <3>5. Covers(p, S, e)
      BY <1>2, <3>1, <3>2, <3>4 DEF Covered
    <3>6. S \subseteq 1 .. m /\ \A i \in S : p2[i] = p[i]
      BY <1>7, <3>2
    <3>7. Len(p) = m /\ m \in Nat /\ m + n \in Nat /\ m <= m + n
      BY <1>2, <1>3, <1>7
    <3>8. Covers(p2, S, e)
      BY <1>7, <3>5, <3>6, <3>7, CoverStays
    <3>. QED
      BY <1>2, <2>6, <3>3, <3>4, <3>8
  <2>3. ASSUME NEW v, v = unit PROVE Covered(v)'
    <3>1. PICK S : S = {i \in DOMAIN p2 : p2[i].unit = unit}
      OBVIOUS
    <3>2. S = m + 1 .. m + n
      <4>1. ASSUME NEW i \in 1 .. m + n
            PROVE  p2[i].unit = unit <=> i > m
        <5>1. i \in DOMAIN p2 /\ i \in Nat /\ m \in Nat
          BY <1>3, <1>7
        <5>2. i <= m => p2[i].unit \in 1 .. unit - 1
          BY <1>8, <5>1
        <5>3. ~(i <= m) => p2[i].unit = unit
          BY <1>8, <5>1
        <5>. QED
          BY <1>9, <5>1, <5>2, <5>3
      <4>2. \A i : i \in m + 1 .. m + n <=> i \in 1 .. m + n /\ i > m
        BY <1>3, <1>7
      <4>3. DOMAIN p2 = 1 .. m + n
        BY <1>7
      <4>. QED
        BY <3>1, <4>1, <4>2, <4>3
    <3>3. Extent = IF units[unit].kind = "sequence" THEN Len(units[unit].frames)
                   ELSE units[unit].size
      BY DEF Extent, Current
    <3>4. CASE n = 0
      <4>1. S = {}
        BY <1>7, <3>2, <3>4
      <4>2. q = <<>>
        BY <1>2, <3>4, EmptySeq
      <4>3. Extent = 0
        BY <4>2
      <4>4. Covers(p2, S, Extent)
        BY <4>1, <4>3 DEF Covers
      <4>. QED
        BY <1>2, <2>3, <2>6, <3>1, <3>3, <4>4
    <3>5. CASE n # 0
      <4>1. 1 \in 1 .. n /\ n \in 1 .. n /\ q # <<>>
        BY <1>2, <1>3, <3>5, EmptySeq
      <4>2. S # {} /\ Cardinality(S) = n
        <5>1. m + 1 \in S
          BY <1>3, <1>7, <3>2, <3>5
        <5>2. Cardinality(m + 1 .. m + n) = n
          BY <1>3, <1>7, <3>5, FS_Interval
        <5>. QED
          BY <3>2, <5>1, <5>2
      <4>3. p2[m + 1].from = 0 /\ p2[m + n].to = Extent
        BY <1>2, <1>4, <1>7, <4>1 DEF Chained
      <4>4. ASSUME NEW k \in 1 .. n
            PROVE  /\ p2[m + k].part = k - 1 /\ p2[m + k].parts = n
                   /\ k > 1 => p2[m + k].from = p2[m + k - 1].to
        <5>1. p2[m + k].part = k - 1 /\ p2[m + k].parts = n
          BY <1>4, <1>7
        <5>2. ASSUME k > 1 PROVE p2[m + k].from = p2[m + k - 1].to
          <6>1. k - 1 \in 1 .. n /\ m + (k - 1) = m + k - 1
            BY <1>3, <1>7, <5>2
          <6>2. q[k].from = q[k - 1].to
            BY <1>2, <5>2 DEF Chained
          <6>3. p2[m + k].from = q[k].from
            BY <1>4, <1>7
          <6>4. p2[m + (k - 1)].to = q[k - 1].to
            BY <1>4, <1>7, <6>1
          <6>. QED
            BY <6>1, <6>2, <6>3, <6>4
        <5>. QED
          BY <5>1, <5>2
      <4>5. m \in 0 .. m + n
        BY <1>3, <1>7
      <4>6. Covers(p2, S, Extent)
        BY <1>7, <3>2, <4>2, <4>3, <4>4, <4>5 DEF Covers
      <4>. QED
        BY <1>2, <2>3, <2>6, <3>1, <3>3, <4>6
    <3>. QED
      BY <3>4, <3>5
  <2>4. \A u \in 1 .. unit : u = unit \/ u \in 1 .. unit - 1
    BY <1>9
  <2>5. \A u \in 1 .. unit : Covered(u)'
    BY <2>2, <2>3, <2>4
  <2>. QED
    BY <1>2, <1>9, <2>1, <2>5 DEF Filed
<1>12. NoNeedlessSplit'
  <2>1. Usable' = Usable
    BY DEF Usable, Eligible
  <2>2. ASSUME NEW i \in DOMAIN p2, p2[i].parts > 1, NEW t \in Usable
        PROVE  shelf[t].used + BytesOf(p2, Sooner(p2, t, p2[i].unit))
                 + units[p2[i].unit].size > Capacity[t]
    <3>1. CASE i <= m
      <4>1. i \in DOMAIN p /\ p2[i] = p[i]
        BY <1>8, <3>1
      <4>2. PICK u : u = p[i].unit
        OBVIOUS
      <4>3. u \in 1 .. unit - 1
        BY <1>2, <4>1, <4>2 DEF Filed
      <4>4. Sooner(p2, t, u) = Sooner(p, t, u)
        <5>1. \A j \in DOMAIN p2 : p2[j].unit < u => j \in DOMAIN p /\ p2[j] = p[j]
          BY <1>8, <1>9, <4>3
        <5>2. \A j \in DOMAIN p : j \in DOMAIN p2 /\ p2[j] = p[j]
          BY <1>3, <1>7
        <5>. QED
          BY <5>1, <5>2 DEF Sooner
      <4>5. /\ Sooner(p, t, u) \in SUBSET DOMAIN p
            /\ Sooner(p, t, u) \subseteq DOMAIN p2
            /\ \A j \in Sooner(p, t, u) : p2[j].size = p[j].size
        BY <1>3, <1>7 DEF Sooner
      <4>6. BytesOf(p2, Sooner(p, t, u)) = BytesOf(p, Sooner(p, t, u))
        BY <1>2, <4>5, PlacementSizes, BytesKept
      <4>7. shelf[t].used + BytesOf(p, Sooner(p, t, u)) + units[u].size > Capacity[t]
        BY <1>2, <2>2, <4>1, <4>2, SplitsInTerms
      <4>. QED
        BY <4>1, <4>2, <4>4, <4>6, <4>7
    <3>2. CASE ~(i <= m)
      <4>1. p2[i].unit = unit /\ p2[i].parts = n
        BY <1>4, <1>8, <3>2
      <4>2. NoRoom(Current.size)
        BY <1>2, <2>2, <4>1
      <4>3. Sooner(p2, t, unit) = On(p, t)
        <5>1. \A j \in DOMAIN p2 : p2[j].unit < unit => j \in DOMAIN p /\ p2[j] = p[j]
          BY <1>8, <1>9
        <5>2. \A j \in DOMAIN p : j \in DOMAIN p2 /\ p2[j] = p[j] /\ p2[j].unit < unit
          BY <1>3, <1>7, <1>8, <1>9
        <5>. QED
          BY <5>1, <5>2 DEF Sooner, On
      <4>4. /\ On(p, t) \in SUBSET DOMAIN p
            /\ On(p, t) \subseteq DOMAIN p2
            /\ \A j \in On(p, t) : p2[j].size = p[j].size
        BY <1>3, <1>7 DEF On
      <4>5. BytesOf(p2, On(p, t)) = BytesOf(p, On(p, t))
        BY <1>2, <4>4, PlacementSizes, BytesKept
      <4>6. Placed(t) = shelf[t].used + BytesOf(p, On(p, t))
        BY <1>2 DEF Placed, TapeBytes
      <4>. QED
        BY <4>1, <4>2, <4>3, <4>5, <4>6 DEF NoRoom, Current
    <3>. QED
      BY <3>1, <3>2
  <2>3. NoNeedlessSplit' <=>
          \A i \in DOMAIN placements' : placements'[i].parts > 1 =>
            \A t \in Usable' :
              shelf'[t].used + BytesOf(placements', Sooner(placements', t, placements'[i].unit))
                + units'[placements'[i].unit].size > Capacity[t]
    BY DEF NoNeedlessSplit, BytesOn, BytesOf, Sooner, Usable
  <2>. QED
    BY <1>2, <2>1, <2>2, <2>3
<1>. QED
  BY <1>10, <1>11, <1>12

(* A step that passes no unit leaves the layout as it is.                  *)
LEMMA LayoutKept ==
  ASSUME Filed, NoNeedlessSplit, UNCHANGED <<shelf, units, greedy, unit, placements>>
  PROVE  /\ Filed' /\ NoNeedlessSplit' /\ Usable' = Usable
         /\ \A t \in Tape : Placed(t)' = Placed(t)
<1>1. Usable' = Usable
  BY DEF Usable, Eligible
<1>2. \A u \in 1 .. unit - 1 : Covered(u)' <=> Covered(u)
  BY DEF Covered, Covers
<1>3. Filed'
  BY <1>2 DEF Filed
<1>4. NoNeedlessSplit'
  BY DEF NoNeedlessSplit, BytesOn, Eligible
<1>5. \A t \in Tape : Placed(t)' = Placed(t)
  BY DEF Placed, TapeBytes, BytesOf, On
<1>. QED
  BY <1>1, <1>3, <1>4, <1>5

(* A list without its i-th entry has all others. *)
LEMMA DropKeeps ==
  ASSUME NEW S, NEW q \in Seq(S), NEW i \in DOMAIN q
  PROVE  Range(q) \subseteq Range(Drop(q, i)) \cup {q[i]}
<1>1. PICK n : n = Len(q)
  OBVIOUS
<1>2. n \in Nat /\ DOMAIN q = 1 .. n /\ i \in 1 .. n /\ \A k \in 1 .. n : q[k] \in S
  BY <1>1, LenProperties, ElementOfSeq
<1>3. PICK a, b : a = SubSeq(q, 1, i - 1) /\ b = SubSeq(q, i + 1, n)
  OBVIOUS
<1>4. /\ a \in Seq(S) /\ Len(a) = i - 1
      /\ \A k \in 1 .. i - 1 : a[k] = q[k]
  <2>1. \A k \in 1 .. i - 1 : q[k] \in S
    BY <1>2
  <2>. QED
    BY <1>2, <1>3, <2>1, SubSeqProperties
<1>5. /\ b \in Seq(S) /\ Len(b) = n - i
      /\ \A k \in 1 .. n - i : b[k] = q[i + k]
  <2>1. \A k \in i + 1 .. n : q[k] \in S
    BY <1>2
  <2>2. Len(b) = IF i + 1 <= n THEN n - (i + 1) + 1 ELSE 0
    BY <1>2, <1>3, <2>1, SubSeqProperties
  <2>3. b \in Seq(S) /\ \A k \in 1 .. n - i : b[k] = q[i + 1 + k - 1]
    BY <1>2, <1>3, <2>1, SubSeqProperties
  <2>4. \A k \in 1 .. n - i : i + 1 + k - 1 = i + k
    BY <1>2
  <2>. QED
    BY <1>2, <2>2, <2>3, <2>4
<1>6. PICK d : d = a \o b
  OBVIOUS
<1>7. /\ DOMAIN d = 1 .. (i - 1) + (n - i)
      /\ \A k \in 1 .. i - 1 : d[k] = a[k]
      /\ \A k \in 1 .. n - i : d[i - 1 + k] = b[k]
  BY <1>2, <1>4, <1>5, <1>6, ConcatProperties, LenProperties
<1>8. Drop(q, i) = d
  BY <1>1, <1>3, <1>6 DEF Drop
<1>9. ASSUME NEW k \in 1 .. n, k # i
      PROVE  \E j \in DOMAIN d : d[j] = q[k]
  <2>1. CASE k < i
    <3>1. k \in 1 .. i - 1 /\ k \in DOMAIN d
      BY <1>2, <1>7, <2>1
    <3>. QED
      BY <1>4, <1>7, <3>1
  <2>2. CASE k > i
    <3>1. PICK j : j = k - i
      OBVIOUS
    <3>2. j \in 1 .. n - i /\ i + j = k /\ i - 1 + j \in DOMAIN d
      BY <1>2, <1>7, <2>2, <3>1
    <3>. QED
      BY <1>5, <1>7, <3>2
  <2>. QED
    BY <1>2, <1>9, <2>1, <2>2
<1>. QED
  BY <1>2, <1>8, <1>9 DEF Range

(* With every usable tape open and none that fits, there is no room.       *)
LEMMA NothingFits ==
  ASSUME IInv, PoolKept, scratch = <<>>, NEW size \in Nat, FirstThatFits(size) = {},
         \A t \in Tape : used[t] = Placed(t)
  PROVE  NoRoom(size)
<1> SUFFICES ASSUME NEW t \in Usable
             PROVE  Placed(t) + size > Capacity[t]
  BY DEF NoRoom
<1>1. t \in Tape
  BY DEF Usable, Eligible
<1>2. PICK k \in DOMAIN open : open[k] = t
  BY DEF PoolKept, Range
<1>3. open \in Seq(Tape) /\ DOMAIN open = 1 .. Len(open) /\ Len(open) \in Nat
  BY LenProperties DEF IInv, TypeOK
<1>4. \A i \in DOMAIN open : Free(open[i]) \in Nat
  BY <1>3, ElementOfSeq, FreeBytes DEF IInv
<1>5. Free(t) < size
  <2>1. SUFFICES ASSUME Free(t) >= size PROVE FALSE
    BY <1>2, <1>4
  <2>2. PICK fit : fit = {i \in DOMAIN open : Free(open[i]) >= size}
    OBVIOUS
  <2>3. fit \subseteq Nat /\ fit # {}
    BY <1>2, <1>3, <2>1, <2>2
  <2>4. PICK i \in fit : \A j \in fit : i <= j
    BY <2>3, SmallestNumber
  <2>5. \A j \in 1 .. i - 1 : Free(open[j]) < size
    <3> SUFFICES ASSUME NEW j \in 1 .. i - 1 PROVE Free(open[j]) < size
      OBVIOUS
    <3>1. j \in DOMAIN open /\ j \notin fit
      BY <1>3, <2>2, <2>4
    <3>. QED
      BY <1>4, <2>2, <3>1
  <2>. QED
    BY <2>2, <2>5 DEF FirstThatFits
<1>6. used[t] \in Nat /\ Capacity[t] \in Nat
  BY <1>1, CapacityType DEF IInv, TypeOK
<1>. QED
  BY <1>1, <1>5, <1>6 DEF Free

(* The layout is right at the start. *)
LEMMA InitLInv == Init => LInv
<1> SUFFICES ASSUME Init PROVE LInv
  OBVIOUS
<1>1. placements = <<>> /\ unit = 1 /\ step = "pin"
  BY DEF Init
<1>2. Filed
  BY <1>1 DEF Filed
<1>3. ASSUME NEW t \in Tape
      PROVE  used[t] = Placed(t)
  <2>2. TapeBytes(placements, t) = 0
    BY <1>1, BytesOfNone
  <2>3. shelf[t].used \in Nat /\ used[t] = shelf[t].used
    BY <1>3, CartridgeShape DEF Init
  <2>. QED
    BY <2>2, <2>3 DEF Placed
<1>4. PoolKept
  BY DEF Init, PoolKept, Usable, Listings
<1>5. NoNeedlessSplit
  BY <1>1 DEF NoNeedlessSplit
<1>. QED
  BY <1>1, <1>2, <1>3, <1>4, <1>5 DEF LInv, PartsChained, Reserved, SplitForced

(* A step that neither reserves nor places anything, nor takes a tape from *)
(* the pool.                                                               *)
LEMMA NothingReserved ==
  ASSUME IInv, LInv,
         UNCHANGED <<shelf, units, greedy, unit, placements, used>>,
         PoolKept', PartsChained', SplitForced',
         \/ step' \in {"next", "done"} /\ step \in {"pin", "next"}
         \/ step' \in {"span", "split"} /\ step = "next" /\ parts' = <<>>
         \/ step' = step /\ parts' = parts
         \/ step' = "failed"
  PROVE  LInv'
<1>1. Filed' /\ NoNeedlessSplit' /\ \A t \in Tape : Placed(t)' = Placed(t)
  BY LayoutKept DEF LInv
<1>2. ASSUME NEW t \in Tape, parts' = <<>>
      PROVE  TapeBytes(parts, t)' = 0
  <2>2. TapeBytes(<<>>, t) = 0
    BY BytesOfNone
  <2>3. TapeBytes(parts, t)' = TapeBytes(parts', t)
    BY DEF TapeBytes, BytesOf, On
  <2>. QED
    BY <1>2, <2>2, <2>3
<1>3. \A t \in Tape : parts' = parts => TapeBytes(parts, t)' = TapeBytes(parts, t)
  BY DEF TapeBytes, BytesOf, On
<1>4. \A t \in Tape : Placed(t) \in Nat
  BY PlacedType
<1>5. Reserved'
  <2>1. CASE step' \in {"next", "done"} /\ step \in {"pin", "next"}
    BY <1>1, <2>1 DEF LInv, Reserved
  <2>2. CASE step' \in {"span", "split"} /\ step = "next" /\ parts' = <<>>
    <3>1. \A t \in Tape : used'[t] = Placed(t)' + TapeBytes(parts, t)'
      BY <1>1, <1>2, <1>4, <2>2 DEF LInv, Reserved
    <3>. QED
      BY <2>2, <3>1 DEF Reserved
  <2>3. CASE step' = step /\ parts' = parts
    <3>1. step \in {"span", "split"} =>
            \A t \in Tape : used'[t] = Placed(t)' + TapeBytes(parts, t)'
      BY <1>1, <1>3, <2>3 DEF LInv, Reserved
    <3>2. step \in {"pin", "next", "done"} => \A t \in Tape : used'[t] = Placed(t)'
      BY <1>1, <2>3 DEF LInv, Reserved
    <3>. QED
      BY <2>3, <3>1, <3>2 DEF Reserved
  <2>4. CASE step' = "failed"
    BY <2>4 DEF Reserved
  <2>. QED
    BY <2>1, <2>2, <2>3, <2>4
<1>. QED
  BY <1>1, <1>5 DEF LInv

(* A part that goes on where the others end. *)
LEMMA ChainExtended ==
  ASSUME NEW w \in Seq(PartType), Chained(w), NEW p \in PartType,
         p.from = IF w = <<>> THEN 0 ELSE w[Len(w)].to, NEW q, q = Append(w, p)
  PROVE  q \in Seq(PartType) /\ q # <<>> /\ Chained(q) /\ q[Len(q)] = p
<1>1. Len(w) \in Nat /\ (w # <<>> => Len(w) \in Nat \ {0}) /\ Len(<<>>) = 0
  BY EmptySeq, LenProperties
<1>2. /\ q \in Seq(PartType) /\ Len(q) = Len(w) + 1 /\ q # <<>>
      /\ \A k \in 1 .. Len(w) : q[k] = w[k]
      /\ q[Len(w) + 1] = p
  BY AppendProperties
<1>3. ASSUME NEW k \in 1 .. Len(w) + 1
      PROVE  q[k].from = IF k = 1 THEN 0 ELSE q[k - 1].to
  <2>1. CASE k = Len(w) + 1
    <3>1. q[k] = p
      BY <1>2, <2>1
    <3>2. CASE w = <<>>
      BY <1>1, <2>1, <3>1, <3>2
    <3>3. CASE w # <<>>
      <4>1. k - 1 = Len(w) /\ k # 1 /\ Len(w) \in 1 .. Len(w)
        BY <1>1, <2>1, <3>3
      <4>2. q[Len(w)] = w[Len(w)]
        BY <1>2, <4>1
      <4>. QED
        BY <3>1, <3>3, <4>1, <4>2
    <3>. QED
      BY <3>2, <3>3
  <2>2. CASE k # Len(w) + 1
    <3>1. k \in 1 .. Len(w) /\ (k # 1 => k - 1 \in 1 .. Len(w))
      BY <1>1, <2>2
    <3>. QED
      BY <1>2, <3>1 DEF Chained
  <2>. QED
    BY <2>1, <2>2
<1>. QED
  BY <1>1, <1>2, <1>3 DEF Chained

(* A step that adds the part p to those of the unit at hand.               *)
LEMMA PartReserved ==
  ASSUME IInv, LInv, step \in {"span", "split"},
         NEW p \in PartType, p.from = first, p.to = first',
         parts' = Append(parts, p),
         used' = [used EXCEPT ![p.tape] = @ + p.size],
         UNCHANGED <<shelf, units, greedy, unit, placements, open, scratch, step>>,
         step = "span" => next' = next,
         step = "split" => first' <= Current.size
  PROVE  LInv'
<1>1. /\ Filed' /\ NoNeedlessSplit' /\ Usable' = Usable
      /\ \A t \in Tape : Placed(t)' = Placed(t)
  BY LayoutKept DEF LInv
<1>2. Current' = Current
  BY DEF Current
<1>3. parts' \in Seq(PartType) /\ parts' # <<>> /\ Chained(parts') /\ parts'[Len(parts')] = p
  BY ChainExtended DEF IInv, TypeOK, LInv, PartsChained
<1>4. Chained(parts)'
  BY <1>3 DEF Chained
<1>5. PartsChained'
  BY <1>2, <1>3, <1>4 DEF LInv, PartsChained
<1>6. Reserved'
  <2>1. ASSUME NEW t \in Tape
        PROVE  used'[t] = Placed(t)' + TapeBytes(parts, t)'
    <3>1. TapeBytes(parts, t)' = TapeBytes(parts', t)
      BY DEF TapeBytes, BytesOf, On
    <3>2. TapeBytes(parts', t) = TapeBytes(parts, t) + IF p.tape = t THEN p.size ELSE 0
      BY PlacementSizes, BytesAppend
    <3>3. TapeBytes(parts, t) \in Nat /\ Placed(t) \in Nat /\ p.size \in Nat
      <4>1. On(parts, t) \in SUBSET DOMAIN parts
        BY DEF On
      <4>. QED
        BY <4>1, PlacementSizes, BytesType, PlacedType DEF TapeBytes, PartType
    <3>4. used[t] = Placed(t) + TapeBytes(parts, t)
      BY DEF LInv, Reserved
    <3>5. used'[t] = used[t] + IF p.tape = t THEN p.size ELSE 0
      BY <3>3, <3>4 DEF IInv, TypeOK
    <3>. QED
      BY <1>1, <3>1, <3>2, <3>3, <3>4, <3>5
  <2>. QED
    BY <2>1 DEF Reserved
<1>7. PoolKept' /\ SplitForced'
  BY <1>1, <1>2 DEF LInv, PoolKept, SplitForced, NoRoom, Usable, Eligible
<1>. QED
  BY <1>1, <1>5, <1>6, <1>7 DEF LInv

(* A step that ends a unit: all its parts are reserved and are placed.     *)
LEMMA UnitPlaced ==
  ASSUME IInv, LInv, unit <= Len(units),
         NEW q \in Seq(PartType), Chained(q),
         IF q = <<>> THEN Extent = 0 ELSE q[Len(q)].to = Extent,
         Len(q) > 1 => NoRoom(Current.size),
         placements' = placements \o [i \in 1 .. Len(q) |-> Placement(q[i], i - 1, Len(q))],
         unit' = unit + 1, step' = "next",
         \A t \in Tape : used'[t] = Placed(t) + TapeBytes(q, t),
         UNCHANGED <<shelf, units, greedy, open, scratch>>
  PROVE  LInv'
<1>1. /\ Filed' /\ NoNeedlessSplit'
      /\ \A t \in Tape : Placed(t)' = Placed(t) + TapeBytes(q, t)
  BY UnitPassed DEF LInv
<1>2. Reserved'
  BY <1>1 DEF Reserved
<1>3. PoolKept' /\ PartsChained' /\ SplitForced'
  BY DEF LInv, PoolKept, PartsChained, SplitForced, Usable, Eligible
<1>. QED
  BY <1>1, <1>2, <1>3 DEF LInv

LEMMA StepLInv == IInv /\ LInv /\ [Next]_vars => LInv'
<1> SUFFICES ASSUME IInv, LInv, [Next]_vars PROVE LInv'
  OBVIOUS
<1>. USE DEF inputs, pool, cursor
<1>t. TypeOK
  BY DEF IInv
<1>1. CASE NoPin \/ Finish \/ Fail \/ UNCHANGED vars
  <2>1. /\ UNCHANGED <<shelf, units, greedy, unit, placements, used, open, scratch, parts, first, next>>
        /\ \/ step' \in {"next", "done"} /\ step \in {"pin", "next"}
           \/ step' = step
           \/ step' = "failed"
    BY <1>1 DEF NoPin, Finish, Fail, vars
  <2>2. PoolKept'
    BY <2>1 DEF LInv, PoolKept, Usable, Eligible
  <2>3. PartsChained' /\ SplitForced'
    <3>1. CASE step' = step
      BY <2>1, <3>1, LayoutKept
         DEF LInv, PartsChained, SplitForced, Chained, NoRoom, Current, Usable, Eligible
    <3>2. CASE step' \in {"next", "done", "failed"}
      BY <3>2 DEF PartsChained, SplitForced
    <3>. QED
      BY <2>1, <3>1, <3>2
  <2>. QED
    BY <2>1, <2>2, <2>3, NothingReserved
<1>2. CASE PinOpen
  <2>1. PICK i \in DOMAIN open : open[i] = target /\ open' = <<target>> \o Drop(open, i)
    BY <1>2 DEF PinOpen
  <2>2. Range(open) \subseteq Range(open')
    <3>1. target \in Tape /\ <<target>> \in Seq(Tape) /\ Drop(open, i) \in Seq(Tape)
      BY <1>t, <2>1, DropType, LenProperties, ElementOfSeq DEF TypeOK
    <3>2. Range(<<target>> \o Drop(open, i)) = Range(<<target>>) \cup Range(Drop(open, i))
      BY <3>1, RangeConcatenation
    <3>3. target \in Range(<<target>>)
      BY DEF Range
    <3>. QED
      BY <1>t, <2>1, <3>2, <3>3, DropKeeps DEF TypeOK
  <2>3. PoolKept'
    BY <1>2, <2>2 DEF PinOpen, LInv, PoolKept, Usable, Eligible
  <2>4. PartsChained' /\ SplitForced'
    BY <1>2 DEF PinOpen, PartsChained, SplitForced
  <2>. QED
    BY <1>2, <2>3, <2>4, NothingReserved DEF PinOpen
<1>3. CASE PinScratch \/ OpenScratch
  <2>1. PICK i \in DOMAIN scratch :
          /\ Opens(i)
          /\ open' = <<scratch[i]>> \o open \/ open' = open \o <<scratch[i]>>
    <3>1. CASE PinScratch
      BY <3>1 DEF PinScratch
    <3>2. CASE OpenScratch
      <4>1. 1 \in DOMAIN scratch /\ scratch[1] \in Tape
        BY <1>t, <3>2, LenProperties, EmptySeq, ElementOfSeq DEF OpenScratch, TypeOK
      <4>2. Append(open, scratch[1]) = open \o <<scratch[1]>>
        BY <1>t, <4>1, AppendIsConcat DEF TypeOK
      <4>. QED
        BY <3>2, <4>1, <4>2 DEF OpenScratch
    <3>. QED
      BY <1>3, <3>1, <3>2
  <2>2. Range(open) \cup Range(scratch) \subseteq Range(open') \cup Range(scratch')
    <3>1. scratch[i] \in Tape /\ <<scratch[i]>> \in Seq(Tape) /\ open \in Seq(Tape)
      BY <1>t, <2>1, LenProperties, ElementOfSeq DEF TypeOK
    <3>2. Range(open') = Range(<<scratch[i]>>) \cup Range(open)
      <4>1. Range(<<scratch[i]>> \o open) = Range(<<scratch[i]>>) \cup Range(open)
        BY <3>1, RangeConcatenation
      <4>2. Range(open \o <<scratch[i]>>) = Range(open) \cup Range(<<scratch[i]>>)
        BY <3>1, RangeConcatenation
      <4>. QED
        BY <2>1, <4>1, <4>2
    <3>3. scratch[i] \in Range(<<scratch[i]>>)
      BY DEF Range
    <3>4. Range(scratch) \subseteq Range(scratch') \cup {scratch[i]}
      BY <1>t, <2>1, DropKeeps DEF TypeOK, Opens
    <3>. QED
      BY <3>2, <3>3, <3>4
  <2>3. UNCHANGED <<shelf, units, greedy, unit, placements, used>>
    BY <1>3 DEF PinScratch, OpenScratch
  <2>4. step' = "next" /\ step \in {"pin", "next"}
    BY <1>3 DEF PinScratch, OpenScratch
  <2>5. PoolKept'
    BY <2>2, <2>3 DEF LInv, PoolKept, Usable, Eligible
  <2>6. PartsChained' /\ SplitForced'
    BY <2>4 DEF PartsChained, SplitForced
  <2>. QED
    BY <2>3, <2>4, <2>5, <2>6, NothingReserved
<1>4. CASE PlaceWhole
  <2>1. PICK t \in FirstThatFits(Current.size) :
          /\ used' = [used EXCEPT ![t] = @ + Current.size]
          /\ placements' = Append(placements,
               Placement([tape |-> t, from |-> 0, to |-> Extent, size |-> Current.size], 0, 1))
    BY <1>4 DEF PlaceWhole
  <2>2. unit <= Len(units) /\ Current \in Unit
    BY <1>4, <1>t, CurrentUnit DEF PlaceWhole
  <2>3. Current.size \in Nat /\ Extent \in Nat
    BY <2>2, LenProperties DEF Unit, Extent
  <2>4. t \in Tape
    BY <1>t, <2>3, FittingTape
  <2>5. PICK p, q : /\ p = [tape |-> t, from |-> 0, to |-> Extent, size |-> Current.size]
                    /\ q = <<p>>
    OBVIOUS
  <2>6. p \in PartType /\ p.tape = t /\ p.from = 0 /\ p.to = Extent /\ p.size = Current.size
    BY <2>3, <2>4, <2>5 DEF PartType
  <2>7. q \in Seq(PartType) /\ Len(q) = 1 /\ q[1] = p /\ q # <<>>
    BY <2>5, <2>6
  <2>8. Chained(q) /\ q[Len(q)].to = Extent
    BY <2>6, <2>7 DEF Chained
  <2>9. placements' = placements \o [i \in 1 .. Len(q) |-> Placement(q[i], i - 1, Len(q))]
    <3>1. PICK r : r = Placement(p, 0, 1)
      OBVIOUS
    <3>2. r \in PlacementType
      BY <2>6, <3>1, PlacementSays
    <3>3. placements' = placements \o <<r>>
      BY <2>1, <2>5, <3>1, <3>2, PlacementSizes, AppendIsConcat
    <3>4. \A i \in 1 .. 1 : Placement(q[i], i - 1, 1) = r
      <4>1. \A i \in 1 .. 1 : i = 1 /\ i - 1 = 0
        OBVIOUS
      <4>. QED
        BY <2>7, <3>1, <4>1
    <3>5. [i \in 1 .. 1 |-> Placement(q[i], i - 1, 1)] = [i \in 1 .. 1 |-> r]
      BY <3>4
    <3>6. [i \in 1 .. 1 |-> r] = <<r>>
      OBVIOUS
    <3>. QED
      BY <2>7, <3>3, <3>5, <3>6
  <2>10. \A u \in Tape : used'[u] = Placed(u) + TapeBytes(q, u)
    <3> SUFFICES ASSUME NEW u \in Tape PROVE used'[u] = Placed(u) + TapeBytes(q, u)
      OBVIOUS
    <3>1. TapeBytes(q, u) = IF t = u THEN Current.size ELSE 0
      BY <2>3, <2>5, <2>6, BytesOfOne
    <3>2. used[u] = Placed(u) /\ Placed(u) \in Nat
      BY <1>4, PlacedType DEF PlaceWhole, LInv, Reserved
    <3>3. used'[u] = used[u] + IF t = u THEN Current.size ELSE 0
      <4>1. PICK n : n = Current.size
        OBVIOUS
      <4>2. used \in [Tape -> Nat] /\ used' = [used EXCEPT ![t] = @ + n] /\ n \in Nat
        BY <1>t, <2>1, <2>3, <4>1 DEF TypeOK
      <4>3. used'[u] = used[u] + IF t = u THEN n ELSE 0
        BY <4>2
      <4>. QED
        BY <4>1, <4>3
    <3>. QED
      BY <3>1, <3>2, <3>3
  <2>11. unit' = unit + 1 /\ step' = "next" /\ UNCHANGED <<shelf, units, greedy, open, scratch>>
    BY <1>4 DEF PlaceWhole
  <2>12. ~(Len(q) > 1)
    BY <2>7
  <2>. QED
    BY <2>2, <2>7, <2>8, <2>9, <2>10, <2>11, <2>12, UnitPlaced
<1>5. CASE StartSpan \/ StartSplit
  <2>1. /\ UNCHANGED <<shelf, units, greedy, unit, placements, used, open, scratch>>
        /\ step = "next" /\ step' \in {"span", "split"} /\ parts' = <<>>
        /\ first' = 0 /\ next' = 0
        /\ unit <= Len(units) /\ FirstThatFits(Current.size) = {} /\ scratch = <<>>
        /\ step' = "span" => Current.kind = "sequence"
        /\ step' = "split" => Current.kind = "file"
    BY <1>5 DEF StartSpan, StartSplit, MustSplit
  <2>2. Current \in Unit /\ Current' = Current
    BY <1>t, <2>1, CurrentUnit DEF Current
  <2>3. Current.size \in Nat /\ Len(Current.frames) \in Nat
    BY <2>2, LenProperties DEF Unit
  <2>4. NoRoom(Current.size)
    BY <2>1, <2>3, NothingFits DEF LInv, Reserved
  <2>5. PoolKept'
    BY <2>1 DEF LInv, PoolKept, Usable, Eligible
  <2>6. PartsChained'
    BY <2>1, <2>2, <2>3 DEF PartsChained, Chained
  <2>7. SplitForced'
    <3>1. \A t \in Usable : t \in Tape
      BY DEF Usable, Eligible
    <3>. QED
      BY <2>1, <2>2, <2>4, <3>1, LayoutKept DEF LInv, SplitForced, NoRoom
  <2>. QED
    BY <2>1, <2>5, <2>6, <2>7, NothingReserved
<1>6. CASE TakeFrame \/ NextTape
  <2>1. /\ UNCHANGED <<shelf, units, greedy, unit, placements, used, open, scratch, parts, first, step>>
        /\ step = "span" /\ next' \in {next, next + 1} /\ next < Len(Current.frames)
    BY <1>6 DEF TakeFrame, NextTape, AtFrame
  <2>2. Current' = Current
    BY <2>1 DEF Current
  <2>3. next' <= Len(Current.frames)
    <3>1. Current \in Unit
      BY <1>t, <2>1, CurrentUnit DEF IInv, SpanFits
    <3>. QED
      BY <1>t, <2>1, <3>1, LenProperties DEF TypeOK, Unit
  <2>4. PoolKept'
    BY <2>1 DEF LInv, PoolKept, Usable, Eligible
  <2>5. PartsChained'
    BY <2>1, <2>2, <2>3 DEF LInv, PartsChained, Chained
  <2>6. SplitForced'
    <3>1. \A t \in Usable : t \in Tape
      BY DEF Usable, Eligible
    <3>. QED
      BY <2>1, <2>2, <3>1, LayoutKept DEF LInv, SplitForced, NoRoom
  <2>. QED
    BY <2>1, <2>4, <2>5, <2>6, NothingReserved
<1>7. CASE ClosePart
  <2>1. at \in Tape /\ step = "span"
    BY <1>7, <1>t DEF ClosePart, AtFrame, TypeOK
  <2>2. PICK p : p = Part(at, first, next, load)
    OBVIOUS
  <2>3. p \in PartType /\ p.tape = at /\ p.from = first /\ p.to = next /\ p.size = load
    BY <1>t, <2>1, <2>2 DEF Part, PartType, TypeOK
  <2>. QED
    BY <1>7, <2>1, <2>2, <2>3, PartReserved DEF ClosePart, AtFrame
<1>8. CASE SplitChunk
  <2>. DEFINE rest == Current.size - first
              take(t) == IF Free(t) < rest THEN Free(t) ELSE rest
  <2>1. step = "split" /\ Current \in Unit /\ first < Current.size
    BY <1>8, <1>t, CurrentUnit DEF SplitChunk, IInv, SpanFits
  <2>2. rest \in Nat /\ first \in Nat /\ Current.size \in Nat
    BY <1>t, <2>1 DEF Unit, TypeOK
  <2>3. PICK t \in FirstThatFits(1) :
          /\ first' = first + take(t)
          /\ parts' = Append(parts, Part(t, first, first + take(t), take(t)))
          /\ used' = [used EXCEPT ![t] = @ + take(t)]
    BY <1>8 DEF SplitChunk
  <2>4. t \in Tape /\ Free(t) \in Nat
    BY <1>t, FittingTape, FreeBytes
  <2>5. take(t) \in Nat /\ take(t) <= rest
    BY <2>2, <2>4
  <2>6. PICK n \in Nat : n = take(t) /\ first + n <= Current.size
    BY <2>2, <2>5
  <2>. HIDE DEF take, rest
  <2>7. PICK p : p = Part(t, first, first + n, n)
    OBVIOUS
  <2>8. p \in PartType /\ p.tape = t /\ p.from = first /\ p.to = first + n /\ p.size = n
    BY <2>2, <2>4, <2>7 DEF Part, PartType
  <2>9. UNCHANGED <<shelf, units, greedy, unit, placements, open, scratch, step>>
    BY <1>8 DEF SplitChunk
  <2>. QED
    BY <2>1, <2>3, <2>6, <2>7, <2>8, <2>9, PartReserved
<1>9. CASE EndSpan
  <2>1. /\ at \in Tape /\ step = "span" /\ unit <= Len(units) /\ next = Len(Current.frames)
        /\ UNCHANGED <<shelf, units, greedy, open, scratch>>
        /\ unit' = unit + 1 /\ step' = "next"
    BY <1>9, <1>t DEF EndSpan, TypeOK, IInv, SpanFits
  <2>2. PICK p : p = Part(at, first, next, load)
    OBVIOUS
  <2>3. p \in PartType /\ p.tape = at /\ p.from = first /\ p.to = next /\ p.size = load
    BY <1>t, <2>1, <2>2 DEF Part, PartType, TypeOK
  <2>4. PICK q : q = Append(parts, p)
    OBVIOUS
  <2>5. /\ placements' = placements \o [i \in 1 .. Len(q) |-> Placement(q[i], i - 1, Len(q))]
        /\ used' = [used EXCEPT ![at] = @ + load]
    BY <1>9, <2>2, <2>4 DEF EndSpan
  <2>6. /\ q \in Seq(PartType) /\ q # <<>> /\ Chained(q) /\ q[Len(q)] = p
    <3>1. Chained(parts) /\ first = IF parts = <<>> THEN 0 ELSE parts[Len(parts)].to
      BY <2>1 DEF LInv, PartsChained
    <3>2. parts \in Seq(PartType)
      BY <1>t DEF TypeOK
    <3>. QED
      BY <2>3, <2>4, <3>1, <3>2, ChainExtended
  <2>7. p.to = Extent /\ NoRoom(Current.size)
    BY <2>1, <2>3 DEF LInv, PartsChained, SplitForced, Extent
  <2>8. \A t \in Tape : used'[t] = Placed(t) + TapeBytes(q, t)
    <3> SUFFICES ASSUME NEW t \in Tape PROVE used'[t] = Placed(t) + TapeBytes(q, t)
      OBVIOUS
    <3>1. TapeBytes(q, t) = TapeBytes(parts, t) + IF at = t THEN load ELSE 0
      BY <2>3, <2>4, PlacementSizes, BytesAppend
    <3>2. On(parts, t) \in SUBSET DOMAIN parts
      BY DEF On
    <3>3. TapeBytes(parts, t) \in Nat /\ Placed(t) \in Nat
      BY <3>2, PlacementSizes, BytesType, PlacedType DEF TapeBytes
    <3>4. used[t] = Placed(t) + TapeBytes(parts, t)
      BY <2>1 DEF LInv, Reserved
    <3>5. used'[t] = used[t] + IF at = t THEN load ELSE 0
      <4>1. used \in [Tape -> Nat] /\ load \in Nat
        BY <1>t DEF TypeOK
      <4>. QED
        BY <2>1, <2>5, <4>1
    <3>. QED
      BY <1>t, <3>1, <3>3, <3>4, <3>5 DEF TypeOK
  <2>. QED
    BY <2>1, <2>5, <2>6, <2>7, <2>8, UnitPlaced
<1>10. CASE EndSplit
  <2>1. /\ step = "split" /\ unit <= Len(units) /\ first = Current.size
        /\ UNCHANGED <<shelf, units, greedy, open, scratch, used>>
        /\ unit' = unit + 1 /\ step' = "next"
        /\ placements' = placements \o
             [i \in 1 .. Len(parts) |-> Placement(parts[i], i - 1, Len(parts))]
    BY <1>10 DEF EndSplit, IInv, SpanFits
  <2>2. /\ Chained(parts) /\ first = Extent
        /\ first = IF parts = <<>> THEN 0 ELSE parts[Len(parts)].to
    BY <2>1 DEF LInv, PartsChained, Extent
  <2>3. NoRoom(Current.size)
    BY <2>1 DEF LInv, SplitForced
  <2>4. \A t \in Tape : used'[t] = Placed(t) + TapeBytes(parts, t)
    BY <2>1 DEF LInv, Reserved
  <2>5. parts \in Seq(PartType)
    BY <1>t DEF TypeOK
  <2>. QED
    BY <2>1, <2>2, <2>3, <2>4, <2>5, UnitPlaced
<1>. QED
  BY <1>1, <1>2, <1>3, <1>4, <1>5, <1>6, <1>7, <1>8, <1>9, <1>10 DEF Next

(* The invariant of the layout holds throughout. *)
THEOREM LayoutInvariance == Spec => [](IInv /\ LInv)
<1>1. Init => IInv /\ LInv
  BY InitIInv, InitLInv
<1>2. IInv /\ LInv /\ [Next]_vars => (IInv /\ LInv)'
  BY StepIInv, StepLInv
<1>. QED
  BY <1>1, <1>2, PTL DEF Spec

(* A unit goes on several tapes only if no tape the job may write on had   *)
(* room for the whole of it when it came up.                               *)
THEOREM SplitsAreNeeded == Spec => []NoNeedlessSplit
<1>1. LInv => NoNeedlessSplit
  BY DEF LInv
<1>. QED
  BY <1>1, LayoutInvariance, PTL

(* Whenever a unit has been passed, what the views say is used is what the *)
(* tapes held and what is placed on them, and the parts of every unit      *)
(* passed cover it end to end, in order and without overlap.               *)
LEMMA LayoutSound == LInv => ReservedIsPlaced /\ PartsCover
<1>1. ASSUME LInv, step \in {"next", "done"}, NEW t \in Tape
      PROVE  used[t] = shelf[t].used + BytesOn(t, LAMBDA u : TRUE)
  <2>1. used[t] = shelf[t].used + TapeBytes(placements, t)
    BY <1>1 DEF LInv, Reserved, Placed
  <2>2. {i \in DOMAIN placements : placements[i].tape = t /\ TRUE} = On(placements, t)
    BY DEF On
  <2>3. BytesOn(t, LAMBDA u : TRUE) = TapeBytes(placements, t)
    BY <2>2 DEF BytesOn, TapeBytes, BytesOf
  <2>. QED
    BY <2>1, <2>3
<1>2. LInv => PartsCover
  BY DEF LInv, Filed, PartsCover
<1>. QED
  BY <1>1, <1>2 DEF ReservedIsPlaced

THEOREM LayoutAddsUp == Spec => [](ReservedIsPlaced /\ PartsCover)
BY LayoutInvariance, LayoutSound, PTL
-----------------------------------------------------------------------------
(* How long the pieces of a unit are: those of a file are as long as what  *)
(* they hold is large.  When the allocator is done, it has passed every    *)
(* unit.                                                                   *)
Measures(p, kind) == p.from <= p.to /\ (kind = "file" => p.from + p.size = p.to)

PartsMeasured ==
  step \in {"span", "split"} => \A k \in DOMAIN parts : Measures(parts[k], Current.kind)

PlacementsMeasured ==
  \A i \in DOMAIN placements : Measures(placements[i], units[placements[i].unit].kind)

AllPassed == unit <= Len(units) + 1 /\ (step = "done" => unit > Len(units))

Measured == AllPassed /\ PlacementsMeasured /\ PartsMeasured

LEMMA UnitMeasured ==
  ASSUME IInv, PlacementsMeasured, unit <= Len(units),
         NEW q \in Seq(PartType), \A k \in DOMAIN q : Measures(q[k], Current.kind),
         placements' = placements \o [i \in 1 .. Len(q) |-> Placement(q[i], i - 1, Len(q))],
         unit' = unit + 1, step' = "next", UNCHANGED units
  PROVE  Measured'
<1>1. PICK w : w = [i \in 1 .. Len(q) |-> Placement(q[i], i - 1, Len(q))]
  OBVIOUS
<1>2. PICK m, n, p, p2 : m = Len(placements) /\ n = Len(q) /\ p = placements /\ p2 = placements'
  OBVIOUS
<1>3. /\ n \in Nat /\ DOMAIN q = 1 .. n
      /\ \A k \in 1 .. n : q[k] \in PartType /\ k - 1 \in Nat
  BY <1>2, LenProperties, ElementOfSeq
<1>4. \A k \in 1 .. n : /\ w[k] \in PlacementType /\ w[k].unit = unit /\ w[k].size = q[k].size
                        /\ w[k].from = q[k].from /\ w[k].to = q[k].to
  <2> SUFFICES ASSUME NEW k \in 1 .. n
               PROVE  /\ w[k] \in PlacementType /\ w[k].unit = unit /\ w[k].size = q[k].size
                      /\ w[k].from = q[k].from /\ w[k].to = q[k].to
    OBVIOUS
  <2>1. w[k] = Placement(q[k], k - 1, n)
    BY <1>1, <1>2
  <2>2. q[k] \in PartType /\ k - 1 \in Nat /\ n \in Nat
    BY <1>3
  <2>. QED
    BY <2>1, <2>2, PlacementSays
<1>5. w \in [1 .. n -> PlacementType]
  BY <1>1, <1>2, <1>4
<1>6. w \in Seq(PlacementType) /\ Len(w) = n
  BY <1>3, <1>5, SeqDef, LenProperties
<1>7. /\ m \in Nat /\ DOMAIN p = 1 .. m /\ DOMAIN p2 = 1 .. m + n
      /\ \A i \in 1 .. m : p2[i] = p[i]
      /\ \A k \in 1 .. n : p2[m + k] = w[k]
  BY <1>1, <1>2, <1>6, PlacementSizes, LenProperties, ConcatProperties
<1>8. ASSUME NEW i \in DOMAIN p2 PROVE Measures(p2[i], units[p2[i].unit].kind)
  <2>1. CASE i \in 1 .. m
    BY <1>2, <1>7, <2>1 DEF PlacementsMeasured
  <2>2. CASE i \notin 1 .. m
    <3>1. PICK k : k = i - m
      OBVIOUS
    <3>2. k \in 1 .. n /\ i = m + k
      BY <1>3, <1>7, <2>2, <3>1
    <3>3. p2[i] = w[k] /\ Measures(q[k], units[unit].kind)
      BY <1>3, <1>7, <3>2 DEF Current
    <3>. QED
      BY <1>4, <3>2, <3>3 DEF Measures
  <2>. QED
    BY <2>1, <2>2
<1>9. PlacementsMeasured'
  <2>1. placements' = p2 /\ units' = units
    BY <1>2
  <2>2. \A i \in DOMAIN placements' : Measures(placements'[i], units'[placements'[i].unit].kind)
    BY <1>8, <2>1
  <2>. QED
    BY <2>2 DEF PlacementsMeasured, Measures
<1>10. AllPassed'
  <2>1. unit \in Nat /\ Len(units) \in Nat
    BY BatchShape, LenProperties DEF IInv, TypeOK
  <2>. QED
    BY <2>1 DEF AllPassed
<1>. QED
  BY <1>9, <1>10 DEF Measured, PartsMeasured

(* A step that neither passes a unit nor ends the layout. *)
LEMMA MeasuredKept ==
  ASSUME Measured, UNCHANGED <<units, unit, placements>>, step' # "done", PartsMeasured'
  PROVE  Measured'
<1>1. AllPassed'
  BY DEF Measured, AllPassed
<1>2. PlacementsMeasured'
  BY DEF Measured, PlacementsMeasured, Measures
<1>. QED
  BY <1>1, <1>2 DEF Measured

LEMMA PartMeasured ==
  ASSUME IInv, Measured, step \in {"span", "split"}, NEW p \in PartType, Measures(p, Current.kind),
         NEW q, q = Append(parts, p)
  PROVE  q \in Seq(PartType) /\ \A k \in DOMAIN q : Measures(q[k], Current.kind)
<1>1. PICK r, n : r = parts /\ n = Len(parts)
  OBVIOUS
<1>2. r \in Seq(PartType) /\ q = Append(r, p) /\ n = Len(r)
  BY <1>1 DEF IInv, TypeOK
<1>3. n \in Nat /\ DOMAIN r = 1 .. n
  BY <1>2, LenProperties
<1>4. q \in Seq(PartType) /\ Len(q) = n + 1 /\ (\A k \in 1 .. n : q[k] = r[k]) /\ q[n + 1] = p
  BY <1>2, AppendProperties
<1>5. DOMAIN q = 1 .. n + 1
  BY <1>4, LenProperties
<1>6. \A k \in 1 .. n : Measures(r[k], Current.kind)
  BY <1>1, <1>3 DEF Measured, PartsMeasured
<1>7. \A k \in 1 .. n + 1 : k \in 1 .. n \/ k = n + 1
  BY <1>3
<1>. QED
  BY <1>4, <1>5, <1>6, <1>7

LEMMA InitMeasured == Init => Measured
<1> SUFFICES ASSUME Init PROVE Measured
  OBVIOUS
<1>1. placements = <<>> /\ unit = 1 /\ step = "pin" /\ Len(units) \in Nat
  BY BatchShape, LenProperties DEF Init
<1>. QED
  BY <1>1 DEF Measured, AllPassed, PlacementsMeasured, PartsMeasured

LEMMA StepMeasured == IInv /\ LInv /\ Measured /\ [Next]_vars => Measured'
<1> SUFFICES ASSUME IInv, LInv, Measured, [Next]_vars PROVE Measured'
  OBVIOUS
<1>. USE DEF inputs, pool, cursor
<1>t. TypeOK /\ PlacementsMeasured
  BY DEF IInv, Measured
<1>1. CASE NoPin \/ PinOpen \/ PinScratch \/ OpenScratch \/ Fail
  <2>1. UNCHANGED <<units, unit, placements>> /\ step' \in {"next", "failed"}
    BY <1>1 DEF NoPin, PinOpen, PinScratch, OpenScratch, Fail
  <2>2. PartsMeasured'
    BY <2>1 DEF PartsMeasured
  <2>. QED
    BY <2>1, <2>2, MeasuredKept
<1>2. CASE Finish
  <2>1. UNCHANGED <<units, unit, placements>> /\ step' = "done" /\ unit > Len(units)
    BY <1>2 DEF Finish
  <2>2. PartsMeasured' /\ AllPassed'
    BY <2>1 DEF PartsMeasured, AllPassed, Measured
  <2>3. PlacementsMeasured'
    BY <2>1, <1>t DEF PlacementsMeasured, Measures
  <2>. QED
    BY <2>2, <2>3 DEF Measured
<1>3. CASE UNCHANGED vars
  BY <1>3 DEF vars, Measured, AllPassed, PlacementsMeasured, PartsMeasured, Measures, Current
<1>4. CASE PlaceWhole
  <2>1. PICK t \in FirstThatFits(Current.size) :
          placements' = Append(placements,
            Placement([tape |-> t, from |-> 0, to |-> Extent, size |-> Current.size], 0, 1))
    BY <1>4 DEF PlaceWhole
  <2>2. unit <= Len(units) /\ Current \in Unit
    BY <1>4, <1>t, CurrentUnit DEF PlaceWhole
  <2>3. Current.size \in Nat /\ Extent \in Nat
    BY <2>2, LenProperties DEF Unit, Extent
  <2>4. t \in Tape
    BY <1>t, <2>3, FittingTape
  <2>5. PICK p, q : /\ p = [tape |-> t, from |-> 0, to |-> Extent, size |-> Current.size]
                    /\ q = <<p>>
    OBVIOUS
  <2>6. p \in PartType /\ p.from = 0 /\ p.to = Extent /\ p.size = Current.size
    BY <2>3, <2>4, <2>5 DEF PartType
  <2>7. q \in Seq(PartType) /\ Len(q) = 1 /\ q[1] = p /\ DOMAIN q = {1}
    BY <2>5, <2>6
  <2>8. Measures(p, Current.kind)
    BY <2>3, <2>6 DEF Measures, Extent
  <2>9. placements' = placements \o [i \in 1 .. Len(q) |-> Placement(q[i], i - 1, Len(q))]
    <3>1. PICK r : r = Placement(p, 0, 1)
      OBVIOUS
    <3>2. r \in PlacementType
      BY <2>6, <3>1, PlacementSays
    <3>3. placements' = placements \o <<r>>
      BY <2>1, <2>5, <3>1, <3>2, PlacementSizes, AppendIsConcat
    <3>4. \A i \in 1 .. 1 : Placement(q[i], i - 1, 1) = r
      <4>1. \A i \in 1 .. 1 : i = 1 /\ i - 1 = 0
        OBVIOUS
      <4>. QED
        BY <2>7, <3>1, <4>1
    <3>5. [i \in 1 .. 1 |-> Placement(q[i], i - 1, 1)] = [i \in 1 .. 1 |-> r]
      BY <3>4
    <3>6. [i \in 1 .. 1 |-> r] = <<r>>
      OBVIOUS
    <3>. QED
      BY <2>7, <3>3, <3>5, <3>6
  <2>10. unit' = unit + 1 /\ step' = "next" /\ UNCHANGED units
    BY <1>4 DEF PlaceWhole
  <2>11. \A k \in DOMAIN q : Measures(q[k], Current.kind)
    BY <2>7, <2>8
  <2>. QED
    BY <1>t, <2>2, <2>7, <2>9, <2>10, <2>11, UnitMeasured
<1>5. CASE StartSpan \/ StartSplit
  <2>1. /\ UNCHANGED <<units, unit, placements>> /\ parts' = <<>> /\ step' # "done"
    BY <1>5 DEF StartSpan, StartSplit
  <2>2. PartsMeasured'
    BY <2>1 DEF PartsMeasured
  <2>. QED
    BY <2>1, <2>2, MeasuredKept
<1>6. CASE TakeFrame \/ NextTape
  <2>1. UNCHANGED <<units, unit, placements, parts, step>> /\ step' # "done"
    BY <1>6 DEF TakeFrame, NextTape, AtFrame
  <2>2. PartsMeasured'
    BY <2>1 DEF Measured, PartsMeasured, Current, Measures
  <2>. QED
    BY <2>1, <2>2, MeasuredKept
<1>7. CASE ClosePart
  <2>1. at \in Tape /\ step = "span" /\ step' = "span" /\ first < next
        /\ UNCHANGED <<units, unit, placements>>
    BY <1>7, <1>t DEF ClosePart, AtFrame, TypeOK
  <2>2. PICK p : p = Part(at, first, next, load)
    OBVIOUS
  <2>3. p \in PartType /\ p.from = first /\ p.to = next
    BY <1>t, <2>1, <2>2 DEF Part, PartType, TypeOK
  <2>4. Measures(p, Current.kind)
    BY <1>t, <2>1, <2>3 DEF Measures, LInv, PartsChained, TypeOK
  <2>5. PICK q : q = Append(parts, p)
    OBVIOUS
  <2>6. \A k \in DOMAIN q : Measures(q[k], Current.kind)
    BY <2>1, <2>3, <2>4, <2>5, PartMeasured
  <2>7. parts' = q /\ Current' = Current
    BY <1>7, <2>1, <2>2, <2>5 DEF ClosePart, Current
  <2>8. PartsMeasured'
    BY <2>6, <2>7 DEF PartsMeasured, Measures
  <2>. QED
    BY <2>1, <2>8, MeasuredKept
<1>8. CASE SplitChunk
  <2>. DEFINE rest == Current.size - first
              take(t) == IF Free(t) < rest THEN Free(t) ELSE rest
  <2>1. step = "split" /\ step' = "split" /\ Current \in Unit /\ first < Current.size
        /\ UNCHANGED <<units, unit, placements>>
    BY <1>8, <1>t, CurrentUnit DEF SplitChunk, IInv, SpanFits
  <2>2. rest \in Nat /\ first \in Nat /\ Current.size \in Nat
    BY <1>t, <2>1 DEF Unit, TypeOK
  <2>3. PICK t \in FirstThatFits(1) : parts' = Append(parts, Part(t, first, first + take(t), take(t)))
    BY <1>8 DEF SplitChunk
  <2>4. t \in Tape /\ Free(t) \in Nat
    BY <1>t, FittingTape, FreeBytes
  <2>5. PICK n \in Nat : n = take(t)
    BY <2>2, <2>4
  <2>. HIDE DEF take, rest
  <2>6. PICK p : p = Part(t, first, first + n, n)
    OBVIOUS
  <2>7. p \in PartType /\ p.from = first /\ p.to = first + n /\ p.size = n
    BY <2>2, <2>4, <2>6 DEF Part, PartType
  <2>8. Measures(p, Current.kind)
    BY <2>2, <2>7 DEF Measures
  <2>9. PICK q : q = Append(parts, p)
    OBVIOUS
  <2>10. \A k \in DOMAIN q : Measures(q[k], Current.kind)
    BY <2>1, <2>7, <2>8, <2>9, PartMeasured
  <2>11. parts' = q /\ Current' = Current
    BY <2>1, <2>3, <2>5, <2>6, <2>9 DEF Current
  <2>12. PartsMeasured'
    BY <2>10, <2>11 DEF PartsMeasured, Measures
  <2>. QED
    BY <2>1, <2>12, MeasuredKept
<1>9. CASE EndSpan
  <2>1. /\ at \in Tape /\ step = "span" /\ unit <= Len(units)
        /\ unit' = unit + 1 /\ step' = "next" /\ UNCHANGED units
    BY <1>9, <1>t DEF EndSpan, TypeOK, IInv, SpanFits
  <2>2. PICK p : p = Part(at, first, next, load)
    OBVIOUS
  <2>3. p \in PartType /\ p.from = first /\ p.to = next
    BY <1>t, <2>1, <2>2 DEF Part, PartType, TypeOK
  <2>4. Measures(p, Current.kind)
    BY <1>t, <2>1, <2>3 DEF Measures, LInv, PartsChained, IInv, SpanFits, TypeOK
  <2>5. PICK q : q = Append(parts, p)
    OBVIOUS
  <2>6. q \in Seq(PartType) /\ \A k \in DOMAIN q : Measures(q[k], Current.kind)
    BY <2>1, <2>3, <2>4, <2>5, PartMeasured
  <2>7. placements' = placements \o [i \in 1 .. Len(q) |-> Placement(q[i], i - 1, Len(q))]
    BY <1>9, <2>2, <2>5 DEF EndSpan
  <2>. QED
    BY <1>t, <2>1, <2>6, <2>7, UnitMeasured
<1>10. CASE EndSplit
  <2>1. /\ step = "split" /\ unit <= Len(units)
        /\ unit' = unit + 1 /\ step' = "next" /\ UNCHANGED units
        /\ placements' = placements \o
             [i \in 1 .. Len(parts) |-> Placement(parts[i], i - 1, Len(parts))]
    BY <1>10 DEF EndSplit, IInv, SpanFits
  <2>2. parts \in Seq(PartType)
    BY <1>t DEF TypeOK
  <2>3. \A k \in DOMAIN parts : Measures(parts[k], Current.kind)
    BY <2>1 DEF Measured, PartsMeasured
  <2>. QED
    BY <1>t, <2>1, <2>2, <2>3, UnitMeasured
<1>. QED
  BY <1>1, <1>2, <1>3, <1>4, <1>5, <1>6, <1>7, <1>8, <1>9, <1>10 DEF Next
-----------------------------------------------------------------------------
(* Two directories fork where the names that lead to them first differ, or *)
(* where the one ends.                                                     *)
Forks(p, q, i) ==
  /\ i \in 1 .. Len(q) /\ i <= Len(p) + 1
  /\ \A j \in 1 .. i - 1 : p[j] = q[j]
  /\ i <= Len(p) => p[i] < q[i]

Alike(p, q, m) == \A i \in 1 .. m : p[i] = q[i]

LEMMA EarlierForks ==
  ASSUME NEW p \in Seq(Nat), NEW q \in Seq(Nat)
  PROVE  Earlier(p, q) <=> \E i \in Nat : Forks(p, q, i)
<1>1. PICK m, n : m = Len(p) /\ n = Len(q)
  OBVIOUS
<1>2. /\ m \in Nat /\ n \in Nat /\ DOMAIN p = 1 .. m /\ DOMAIN q = 1 .. n
      /\ \A i \in 1 .. m : p[i] \in Nat
      /\ \A i \in 1 .. n : q[i] \in Nat
  BY <1>1, LenProperties, ElementOfSeq
<1>3. IsStrictPrefix(p, q) <=> m < n /\ Alike(p, q, m)
  <2>1. PICK a, b : a = SubSeq(p, 1, m) /\ b = SubSeq(q, 1, m)
    OBVIOUS
  <2>2. IsStrictPrefix(p, q) <=> m <= n /\ a = b /\ p # q
    BY <1>1, <2>1 DEF IsStrictPrefix, IsPrefix
  <2>3. m <= n => (a = b <=> Alike(p, q, m))
    <3>1. SUFFICES ASSUME m <= n PROVE a = b <=> Alike(p, q, m)
      OBVIOUS
    <3>2. a = [i \in 1 .. m |-> p[i]] /\ b = [i \in 1 .. m |-> q[i]]
      BY <1>1, <1>2, <2>1, <3>1
    <3>. QED
      BY <3>2 DEF Alike
  <2>4. m = n /\ Alike(p, q, m) => p = q
    BY <1>1, <1>2, SeqEqual DEF Alike
  <2>5. p = q => m = n
    BY <1>1
  <2>. QED
    BY <1>2, <2>2, <2>3, <2>4, <2>5
<1>4. ASSUME Earlier(p, q)
      PROVE  \E i \in Nat : Forks(p, q, i)
  <2>1. CASE IsStrictPrefix(p, q)
    <3>1. Forks(p, q, m + 1)
      BY <1>1, <1>2, <1>3, <2>1 DEF Forks, Alike
    <3>. QED
      BY <1>2, <3>1
  <2>2. CASE ~IsStrictPrefix(p, q)
    <3>1. PICK i \in DOMAIN p \cap DOMAIN q : p[i] < q[i] /\ \A j \in 1 .. i - 1 : p[j] = q[j]
      BY <1>4, <2>2 DEF Earlier
    <3>2. Forks(p, q, i) /\ i \in Nat
      BY <1>1, <1>2, <3>1 DEF Forks
    <3>. QED
      BY <3>2
  <2>. QED
    BY <2>1, <2>2
<1>5. ASSUME NEW i \in Nat, Forks(p, q, i)
      PROVE  Earlier(p, q)
  <2>1. CASE i <= m
    <3>1. i \in DOMAIN p \cap DOMAIN q /\ p[i] < q[i] /\ \A j \in 1 .. i - 1 : p[j] = q[j]
      BY <1>1, <1>2, <1>5, <2>1 DEF Forks
    <3>. QED
      BY <3>1 DEF Earlier
  <2>2. CASE ~(i <= m)
    <3>1. i = m + 1 /\ m < n /\ \A j \in 1 .. m : p[j] = q[j]
      BY <1>1, <1>2, <1>5, <2>2 DEF Forks
    <3>. QED
      BY <1>3, <3>1 DEF Earlier, Alike
  <2>. QED
    BY <2>1, <2>2
<1>. QED
  BY <1>4, <1>5

(* Directories come in one order. *)
LEMMA EarlierOrders ==
  ASSUME NEW S, S \subseteq Seq(Nat)
  PROVE  Orders({p \in S \X S : Earlier(p[1], p[2])}, S)
<1>1. \A p, q \in S : <<p, q>> \in {r \in S \X S : Earlier(r[1], r[2])} <=> Earlier(p, q)
  OBVIOUS
<1>2. ASSUME NEW p \in S PROVE ~Earlier(p, p)
  <2>1. Len(p) \in Nat /\ \A i \in 1 .. Len(p) : p[i] \in Nat
    BY LenProperties, ElementOfSeq
  <2>2. \A i \in Nat : ~Forks(p, p, i)
    BY <2>1 DEF Forks
  <2>. QED
    BY <2>2, EarlierForks
<1>3. ASSUME NEW p \in S, NEW q \in S, p # q PROVE Earlier(p, q) \/ Earlier(q, p)
  <2>1. PICK m, n : m = Len(p) /\ n = Len(q)
    OBVIOUS
  <2>2. /\ m \in Nat /\ n \in Nat
        /\ \A i \in 1 .. m : p[i] \in Nat
        /\ \A i \in 1 .. n : q[i] \in Nat
    BY <2>1, LenProperties, ElementOfSeq
  <2>3. PICK D : D = {i \in 1 .. m \cap 1 .. n : p[i] # q[i]}
    OBVIOUS
  <2>4. CASE D = {}
    <3>1. \A i \in 1 .. m \cap 1 .. n : p[i] = q[i]
      BY <2>3, <2>4
    <3>2. CASE m = n
      <4>1. p = q
        BY <2>1, <2>2, <3>1, <3>2, SeqEqual
      <4>. QED
        BY <1>3, <4>1
    <3>3. CASE m < n
      <4>1. Forks(p, q, m + 1) /\ m + 1 \in Nat
        BY <2>1, <2>2, <3>1, <3>3 DEF Forks
      <4>. QED
        BY <4>1, EarlierForks
    <3>4. CASE n < m
      <4>1. Forks(q, p, n + 1) /\ n + 1 \in Nat
        BY <2>1, <2>2, <3>1, <3>4 DEF Forks
      <4>. QED
        BY <4>1, EarlierForks
    <3>. QED
      BY <2>2, <3>2, <3>3, <3>4
  <2>5. CASE D # {}
    <3>0. D \subseteq Nat
      BY <2>3
    <3>1. PICK i \in D : \A j \in D : i <= j
      BY <2>5, <3>0, SmallestNumber
    <3>2. i \in 1 .. m /\ i \in 1 .. n /\ p[i] # q[i]
      BY <2>3
    <3>3. ASSUME NEW j \in 1 .. i - 1 PROVE p[j] = q[j]
      <4>1. j \in 1 .. m \cap 1 .. n /\ j < i
        BY <2>2, <3>2
      <4>. QED
        BY <2>2, <2>3, <3>1, <3>2, <4>1
    <3>4. i \in Nat /\ p[i] \in Nat /\ q[i] \in Nat
      BY <2>2, <3>2
    <3>5. p[i] < q[i] => Forks(p, q, i)
      BY <2>1, <2>2, <3>2, <3>3 DEF Forks
    <3>6. q[i] < p[i] => Forks(q, p, i)
      <4>1. \A j \in 1 .. i - 1 : q[j] = p[j]
        BY <3>3
      <4>. QED
        BY <2>1, <2>2, <3>2, <4>1 DEF Forks
    <3>7. Forks(p, q, i) \/ Forks(q, p, i)
      BY <3>2, <3>4, <3>5, <3>6
    <3>. QED
      BY <3>4, <3>7, EarlierForks
  <2>. QED
    BY <2>4, <2>5
<1>4. ASSUME NEW p \in S, NEW q \in S, NEW r \in S, Earlier(p, q), Earlier(q, r)
      PROVE  Earlier(p, r)
  <2>1. PICK i \in Nat : Forks(p, q, i)
    BY <1>4, EarlierForks
  <2>2. PICK k \in Nat : Forks(q, r, k)
    BY <1>4, EarlierForks
  <2>3. /\ Len(p) \in Nat /\ Len(q) \in Nat /\ Len(r) \in Nat
        /\ \A j \in 1 .. Len(p) : p[j] \in Nat
        /\ \A j \in 1 .. Len(q) : q[j] \in Nat
        /\ \A j \in 1 .. Len(r) : r[j] \in Nat
    BY LenProperties, ElementOfSeq
  <2>4. PICK l, m, n : l = Len(p) /\ m = Len(q) /\ n = Len(r)
    OBVIOUS
  <2>5. /\ i \in 1 .. m /\ i <= l + 1 /\ (i <= l => p[i] < q[i])
        /\ \A j \in 1 .. i - 1 : p[j] = q[j]
    BY <2>1, <2>4 DEF Forks
  <2>6. /\ k \in 1 .. n /\ k <= m + 1 /\ (k <= m => q[k] < r[k])
        /\ \A j \in 1 .. k - 1 : q[j] = r[j]
    BY <2>2, <2>4 DEF Forks
  <2>7. /\ l \in Nat /\ m \in Nat /\ n \in Nat
        /\ \A j \in 1 .. l : p[j] \in Nat
        /\ \A j \in 1 .. m : q[j] \in Nat
        /\ \A j \in 1 .. n : r[j] \in Nat
    BY <2>3, <2>4
  <2>8. CASE i <= k
    <3>1. i \in 1 .. n
      BY <2>5, <2>6, <2>7, <2>8
    <3>2. \A j \in 1 .. i - 1 : p[j] = r[j]
      <4>1. \A j \in 1 .. i - 1 : j \in 1 .. k - 1
        BY <2>5, <2>6, <2>7, <2>8
      <4>. QED
        BY <2>5, <2>6, <4>1
    <3>3. ASSUME i <= l PROVE p[i] < r[i]
      <4>1. p[i] \in Nat /\ q[i] \in Nat /\ r[i] \in Nat
        BY <2>5, <2>7, <3>1, <3>3
      <4>2. CASE i = k
        <5>1. p[i] < q[i] /\ q[i] < r[i]
          BY <2>5, <2>6, <2>7, <3>3, <4>2
        <5>2. PICK a, b, c : a = p[i] /\ b = q[i] /\ c = r[i]
          OBVIOUS
        <5>3. a \in Nat /\ b \in Nat /\ c \in Nat /\ a < b /\ b < c
          BY <4>1, <5>1, <5>2
        <5>4. a < c
          BY <5>3
        <5>. QED
          BY <5>2, <5>4
      <4>3. CASE i < k
        <5>1. i \in 1 .. k - 1
          BY <2>5, <2>6, <2>7, <4>3
        <5>. QED
          BY <2>5, <2>6, <3>3, <5>1
      <4>. QED
        BY <2>8, <4>2, <4>3
    <3>4. Forks(p, r, i)
      BY <2>4, <2>5, <3>1, <3>2, <3>3 DEF Forks
    <3>. QED
      BY <3>4, EarlierForks
  <2>9. CASE k < i
    <3>1. k \in 1 .. n /\ k <= l /\ k <= m /\ k \in 1 .. i - 1
      BY <2>5, <2>6, <2>7, <2>9
    <3>2. \A j \in 1 .. k - 1 : p[j] = r[j]
      <4>1. \A j \in 1 .. k - 1 : j \in 1 .. i - 1
        BY <2>5, <2>6, <2>7, <2>9
      <4>. QED
        BY <2>5, <2>6, <4>1
    <3>3. p[k] < r[k]
      BY <2>5, <2>6, <3>1
    <3>4. Forks(p, r, k)
      BY <2>4, <2>7, <3>1, <3>2, <3>3 DEF Forks
    <3>. QED
      BY <3>4, EarlierForks
  <2>. QED
    BY <2>8, <2>9
<1>. QED
  BY <1>1, <1>2, <1>3, <1>4 DEF Orders

(* The walk looks once into each directory that is not hidden. *)
Visible(dirs) == {p \in DOMAIN dirs : Range(p) \cap Hidden = {}}

LEMMA WalkType ==
  ASSUME NEW dirs, DOMAIN dirs \subseteq Seq(Nat), IsFiniteSet(DOMAIN dirs)
  PROVE  /\ Walk(dirs) \in Seq(Visible(dirs)) /\ Range(Walk(dirs)) = Visible(dirs)
         /\ \A i, k \in DOMAIN Walk(dirs) : Walk(dirs)[i] = Walk(dirs)[k] => i = k
<1>1. PICK S, R : S = Visible(dirs) /\ R = {p \in S \X S : Earlier(p[1], p[2])}
  OBVIOUS
<1>2. IsFiniteSet(S) /\ Orders(R, S)
  <2>1. S \subseteq DOMAIN dirs
    BY <1>1 DEF Visible
  <2>. QED
    BY <1>1, <2>1, FS_Subset, EarlierOrders
<1>3. Walk(dirs) = Arranged(S, R)
  BY <1>1 DEF Walk, Sorted, Visible
<1>4. Lists(Walk(dirs), S, R)
  BY <1>2, <1>3, ArrangedLists
<1>. QED
  BY <1>1, <1>4 DEF Lists
-----------------------------------------------------------------------------
(* Lists of what is in a directory.                                        *)

Once(q) == \A i, k \in DOMAIN q : q[i] = q[k] => i = k

(* The entries of a directory have numbers, and names of their own. *)
Named(S) ==
  /\ IsFiniteSet(S)
  /\ \A e \in S : e.name \in Nat /\ e.num \in Nat /\ e.size \in Nat
  /\ \A e, f \in S : e.name = f.name => e = f

LEMMA SomeNamed ==
  ASSUME NEW S, Named(S), NEW T \in SUBSET S
  PROVE  Named(T)
BY FS_Subset DEF Named

LEMMA ByNameLists ==
  ASSUME NEW S, Named(S)
  PROVE  LET q == Sorted(S, ByName) IN q \in Seq(S) /\ Range(q) = S /\ Once(q)
<1>1. PICK R : R = {p \in S \X S : ByName(p[1], p[2])}
  OBVIOUS
<1>2. \A e, f \in S : <<e, f>> \in R <=> e.name < f.name
  BY <1>1 DEF ByName
<1>3. Orders(R, S)
  BY <1>2 DEF Orders, Named
<1>4. Lists(Arranged(S, R), S, R)
  BY <1>3, ArrangedLists DEF Named
<1>5. Sorted(S, ByName) = Arranged(S, R)
  BY <1>1 DEF Sorted
<1>. QED
  BY <1>4, <1>5 DEF Lists, Once

LEMMA NumberedLists ==
  ASSUME NEW S, Named(S)
  PROVE  Numbered(S) \in Seq(S) /\ Range(Numbered(S)) = S /\ Once(Numbered(S))
<1>1. PICK R : R = {p \in S \X S : \/ p[1].num < p[2].num
                                   \/ p[1].num = p[2].num /\ p[1].name < p[2].name}
  OBVIOUS
<1>2. \A e, f \in S : <<e, f>> \in R <=> \/ e.num < f.num
                                         \/ e.num = f.num /\ e.name < f.name
  BY <1>1
<1>3. Orders(R, S)
  <2>1. \A e \in S : <<e, e>> \notin R
    BY <1>2 DEF Named
  <2>2. ASSUME NEW e \in S, NEW f \in S, e # f PROVE <<e, f>> \in R \/ <<f, e>> \in R
    <3>1. e.name # f.name /\ e.name \in Nat /\ f.name \in Nat /\ e.num \in Nat /\ f.num \in Nat
      BY <2>2 DEF Named
    <3>. QED
      BY <1>2, <3>1
  <2>3. ASSUME NEW e \in S, NEW f \in S, NEW g \in S, <<e, f>> \in R, <<f, g>> \in R
        PROVE  <<e, g>> \in R
    <3>1. /\ e.name \in Nat /\ f.name \in Nat /\ g.name \in Nat
          /\ e.num \in Nat /\ f.num \in Nat /\ g.num \in Nat
      BY DEF Named
    <3>. QED
      BY <1>2, <2>3, <3>1
  <2>. QED
    BY <2>1, <2>2, <2>3 DEF Orders
<1>4. Lists(Arranged(S, R), S, R)
  BY <1>3, ArrangedLists DEF Named
<1>5. Numbered(S) = Arranged(S, R)
  BY <1>1 DEF Numbered, Sorted
<1>. QED
  BY <1>4, <1>5 DEF Lists, Once

(* The base names are those of the entries, each of them once.             *)
Names(b, n, S) ==
  /\ n \in Nat /\ n = Len(b) /\ DOMAIN b = 1 .. n
  /\ \A i, k \in 1 .. n : b[i] = b[k] => i = k
  /\ \A i \in 1 .. n : \E e \in S : e.base = b[i]
  /\ \A e \in S : \E i \in 1 .. n : b[i] = e.base

LEMMA BasesType ==
  ASSUME NEW S, Named(S)
  PROVE  Names(Bases(S), Len(Bases(S)), S)
<1>0. PICK b : b = Bases(S)
  OBVIOUS
<1>1. PICK H : H = {e \in S : \A f \in S : f.base = e.base => e.name <= f.name}
  OBVIOUS
<1>2. H \in SUBSET S /\ Named(H)
  BY <1>1, SomeNamed
<1>3. PICK q : q = Sorted(H, ByName)
  OBVIOUS
<1>4. q \in Seq(H) /\ Range(q) = H /\ Once(q)
  BY <1>2, <1>3, ByNameLists
<1>5. b = [i \in DOMAIN q |-> q[i].base]
  BY <1>0, <1>1, <1>3 DEF Bases
<1>6. Len(q) \in Nat /\ DOMAIN q = 1 .. Len(q) /\ \A i \in DOMAIN q : q[i] \in H
  BY <1>4, LenProperties, ElementOfSeq
<1>7. DOMAIN b = DOMAIN q /\ Len(b) = Len(q) /\ \A i \in DOMAIN q : b[i] = q[i].base
  BY <1>5, <1>6
<1>8. Once(b)
  <2>1. ASSUME NEW e \in H, NEW f \in H, e.base = f.base PROVE e = f
    <3>1. e.name <= f.name /\ f.name <= e.name /\ e.name \in Nat /\ f.name \in Nat
      BY <1>1, <2>1 DEF Named
    <3>2. e.name = f.name
      BY <3>1
    <3>. QED
      BY <1>2, <3>2 DEF Named
  <2>. QED
    BY <1>4, <1>6, <1>7, <2>1 DEF Once
<1>9. ASSUME NEW e \in S PROVE \E i \in DOMAIN b : b[i] = e.base
  <2>1. PICK N : N = {f.name : f \in {g \in S : g.base = e.base}}
    OBVIOUS
  <2>2. N \subseteq Nat /\ e.name \in N
    BY <2>1 DEF Named
  <2>3. PICK n \in N : \A m \in N : n <= m
    BY <2>2, SmallestNumber
  <2>4. PICK f \in S : f.base = e.base /\ f.name = n
    BY <2>1
  <2>5. f \in H
    BY <1>1, <2>1, <2>3, <2>4
  <2>6. PICK i \in DOMAIN q : q[i] = f
    BY <1>4, <2>5 DEF Range
  <2>. QED
    BY <1>7, <2>4, <2>6
<1>. QED
  BY <1>0, <1>1, <1>6, <1>7, <1>8, <1>9 DEF Names, Once
-----------------------------------------------------------------------------
(* What a list of units holds.  Files are pairs of a directory and an      *)
(* entry of it.                                                            *)

UnitOf(E) == [kind: {"sequence", "file"}, dir: Seq(Nat), files: Seq(E), chunks: Nat]
FilesOf(E) == Seq(Nat) \X E
Has(v, y) == v.dir = y[1] /\ y[2] \in Range(v.files)

(* A unit has files, each once, and only one if it is not a sequence.      *)
UnitSound(v) ==
  /\ v.files # <<>> /\ Once(v.files)
  /\ v.kind = "file" => Len(v.files) = 1

(* The units of q hold the files Y, each of them in one unit, and no other.*)
Deals(q, E, Y) ==
  /\ Y \subseteq FilesOf(E)
  /\ q \in Seq(UnitOf(E))
  /\ \A u \in DOMAIN q : UnitSound(q[u])
  /\ \A u \in DOMAIN q : \A y \in FilesOf(E) : Has(q[u], y) => y \in Y
  /\ \A y \in Y : \E u \in DOMAIN q : Has(q[u], y)
  /\ \A y \in Y : \A u, v \in DOMAIN q : Has(q[u], y) /\ Has(q[v], y) => u = v

LEMMA DealsNothing ==
  ASSUME NEW E
  PROVE  Deals(<<>>, E, {})
BY DEF Deals

LEMMA DealsConcat ==
  ASSUME NEW E, NEW q, NEW Y, Deals(q, E, Y), NEW w, NEW Z, Deals(w, E, Z), Y \cap Z = {}
  PROVE  Deals(q \o w, E, Y \cup Z)
<1>1. PICK b, m, n : b = q \o w /\ m = Len(q) /\ n = Len(w)
  OBVIOUS
<1>2. q \in Seq(UnitOf(E)) /\ w \in Seq(UnitOf(E))
  BY DEF Deals
<1>3. /\ m \in Nat /\ n \in Nat /\ DOMAIN q = 1 .. m /\ DOMAIN w = 1 .. n
      /\ b \in Seq(UnitOf(E)) /\ DOMAIN b = 1 .. m + n
      /\ \A u \in 1 .. m : b[u] = q[u]
      /\ \A u \in 1 .. n : b[m + u] = w[u]
  BY <1>1, <1>2, LenProperties, ConcatProperties
<1>4. \A u \in 1 .. m + n : \/ u \in DOMAIN q /\ b[u] = q[u]
                            \/ \E v \in DOMAIN w : u = m + v /\ b[u] = w[v]
  <2>. SUFFICES ASSUME NEW u \in 1 .. m + n, u > m
                PROVE  \E v \in DOMAIN w : u = m + v /\ b[u] = w[v]
    BY <1>3
  <2>1. PICK v : v = u - m
    OBVIOUS
  <2>2. v \in DOMAIN w /\ u = m + v
    BY <1>3, <2>1
  <2>. QED
    BY <1>3, <2>2
<1>5. \A u \in DOMAIN b : UnitSound(b[u])
  BY <1>3, <1>4 DEF Deals
<1>6. \A u \in DOMAIN b : \A y \in FilesOf(E) : Has(b[u], y) => y \in Y \cup Z
  BY <1>3, <1>4 DEF Deals
<1>7. ASSUME NEW y \in Y \cup Z PROVE \E u \in DOMAIN b : Has(b[u], y)
  <2>1. CASE y \in Y
    <3>1. PICK u \in DOMAIN q : Has(q[u], y)
      BY <2>1 DEF Deals
    <3>2. u \in DOMAIN b /\ b[u] = q[u]
      BY <1>3
    <3>. QED
      BY <3>1, <3>2
  <2>2. CASE y \in Z
    <3>1. PICK u \in DOMAIN w : Has(w[u], y)
      BY <2>2 DEF Deals
    <3>2. m + u \in DOMAIN b /\ b[m + u] = w[u]
      BY <1>3
    <3>. QED
      BY <3>1, <3>2
  <2>. QED
    BY <2>1, <2>2
<1>8. ASSUME NEW y \in Y \cup Z, NEW u \in DOMAIN b, NEW v \in DOMAIN b,
             Has(b[u], y), Has(b[v], y)
      PROVE  u = v
  <2>0. y \in FilesOf(E)
    BY DEF Deals
  <2>1. CASE y \in Y
    <3>1. y \notin Z
      BY <2>1
    <3>2. \A i \in DOMAIN w : ~Has(w[i], y)
      BY <2>0, <3>1 DEF Deals
    <3>3. u \in DOMAIN q /\ b[u] = q[u] /\ v \in DOMAIN q /\ b[v] = q[v]
      BY <1>3, <1>4, <1>8, <3>2
    <3>. QED
      BY <1>8, <2>1, <3>3 DEF Deals
  <2>2. CASE y \in Z
    <3>1. y \notin Y
      BY <2>2
    <3>2. \A i \in DOMAIN q : ~Has(q[i], y)
      BY <2>0, <3>1 DEF Deals
    <3>3. PICK i \in DOMAIN w : u = m + i /\ b[u] = w[i]
      BY <1>3, <1>4, <1>8, <3>2
    <3>4. PICK k \in DOMAIN w : v = m + k /\ b[v] = w[k]
      BY <1>3, <1>4, <1>8, <3>2
    <3>5. i = k
      BY <1>8, <2>2, <3>3, <3>4 DEF Deals
    <3>. QED
      BY <3>3, <3>4, <3>5
  <2>. QED
    BY <2>1, <2>2
<1>9. Y \cup Z \subseteq FilesOf(E)
  BY DEF Deals
<1>. QED
  BY <1>1, <1>3, <1>5, <1>6, <1>7, <1>8, <1>9 DEF Deals

Upto(Y, i) == UNION {Y[j] : j \in 1 .. i}

(* n lists, each of which deals out its own files.                         *)
DealsEach(q, n, E, Y) ==
  /\ n \in Nat /\ Len(q) = n /\ DOMAIN q = 1 .. n /\ (n = 0 => q = <<>>)
  /\ \A i \in 1 .. n : Deals(q[i], E, Y[i])
  /\ \A i, k \in 1 .. n : i # k => Y[i] \cap Y[k] = {}

LEMMA DealsFlatten ==
  ASSUME NEW E, NEW q, NEW n, NEW Y, DealsEach(q, n, E, Y)
  PROVE  Deals(FlattenSeq(q), E, UNION {Y[i] : i \in 1 .. n})
<1>0. /\ n \in Nat /\ Len(q) = n /\ DOMAIN q = 1 .. n /\ (n = 0 => q = <<>>)
      /\ \A i \in 1 .. n : Deals(q[i], E, Y[i])
      /\ \A i, k \in 1 .. n : i # k => Y[i] \cap Y[k] = {}
  BY DEF DealsEach
<1>1. CASE n = 0
  <2>0. Len(q) = 0 /\ q = <<>>
    BY <1>0, <1>1
  <2>1. FlattenSeq(q) = <<>>
    BY <1>0, <2>0, Zenon DEF FlattenSeq
  <2>2. UNION {Y[i] : i \in 1 .. n} = {}
    BY <1>0, <1>1
  <2>3. PICK z, Z : z = FlattenSeq(q) /\ Z = UNION {Y[i] : i \in 1 .. n}
    BY <1>0
  <2>4. z = <<>> /\ Z = {}
    BY <1>0, <2>1, <2>2, <2>3
  <2>5. Deals(z, E, Z)
    BY <1>0, <2>4, DealsNothing
  <2>. QED
    BY <1>0, <2>3, <2>5
<1>2. CASE n # 0
  <2>3. PICK f : Grows(f, q, n) /\ FlattenSeq(q) = f[n]
    BY <1>0, <1>2, FlattenGrows
  <2>4. /\ f[1] = q[1]
        /\ \A i \in 1 .. n : i # 1 => f[i] = f[i - 1] \o q[i]
    <3>1. 1 \in 1 .. n
      BY <1>0, <1>2
    <3>. QED
      BY <2>3, <3>1, Zenon DEF Grows
  <2>5. PICK F : F = {i \in Nat : i \in 1 .. n => Deals(f[i], E, Upto(Y, i))}
    BY <1>0
  <2>6. 0 \in F
    BY <1>0, <2>5
  <2>7. ASSUME NEW i \in Nat, i \in F PROVE i + 1 \in F
    <3>1. SUFFICES ASSUME i + 1 \in 1 .. n PROVE Deals(f[i + 1], E, Upto(Y, i + 1))
      BY <1>0, <2>5
    <3>2. PICK k : k = i + 1 /\ k \in 1 .. n /\ k - 1 = i /\ (i # 0 => k # 1)
      BY <1>0, <3>1
    <3>3. Upto(Y, k) = Upto(Y, i) \cup Y[k]
      BY <1>0, <3>2 DEF Upto
    <3>4. Deals(q[k], E, Y[k])
      BY <1>0, <3>2
    <3>5. CASE i = 0
      <4>1. Upto(Y, 0) = {}
        BY <1>0 DEF Upto
      <4>2. f[k] = q[k] /\ Upto(Y, k) = Y[k]
        <5>0. k = 1
          BY <1>0, <3>2, <3>5
        <5>1. k = 1 /\ f[1] = q[1]
          BY <1>0, <2>4, <5>0, Zenon
        <5>. QED
          BY <1>0, <3>3, <3>5, <4>1, <5>1, Zenon
      <4>. QED
        BY <1>0, <3>2, <3>4, <4>2
    <3>6. CASE i # 0
      <4>1. i \in 1 .. n /\ f[k] = f[i] \o q[k]
        <5>1. i \in 1 .. n
          BY <1>0, <3>2, <3>6
        <5>2. f[k] = f[k - 1] \o q[k]
          BY <1>0, <2>4, <3>2, <3>6, Zenon
        <5>. QED
          BY <1>0, <3>2, <5>1, <5>2, Zenon
      <4>2. Deals(f[i], E, Upto(Y, i))
        BY <1>0, <2>5, <2>7, <4>1
      <4>3. Upto(Y, i) \cap Y[k] = {}
        <5>1. \A j \in 1 .. i : j \in 1 .. n /\ j # k
          BY <1>0, <3>2
        <5>2. \A j \in 1 .. i : Y[j] \cap Y[k] = {}
          BY <1>0, <3>2, <5>1
        <5>. QED
          BY <1>0, <5>2 DEF Upto
      <4>. QED
        BY <1>0, <3>2, <3>3, <3>4, <4>1, <4>2, <4>3, DealsConcat
    <3>. QED
      BY <1>0, <3>5, <3>6
  <2>8. n \in F
    BY <1>0, <2>5, <2>6, <2>7, NumberInduction
  <2>9. Deals(f[n], E, Upto(Y, n))
    BY <1>0, <1>2, <2>5, <2>8
  <2>. QED
    BY <1>0, <2>3, <2>9 DEF Upto
<1>. QED
  BY <1>0, <1>1, <1>2
-----------------------------------------------------------------------------
(* The units of a directory hold its regular files.                        *)

(* Files that are units of their own. *)
LEMMA SinglesDeal ==
  ASSUME NEW E, NEW T \in SUBSET E, NEW path \in Seq(Nat), NEW c \in Nat,
         NEW files \in Seq(T), Range(files) = T, Once(files)
  PROVE  Deals([k \in DOMAIN files |-> Single(path, files[k], c)], E, {path} \X T)
<1>1. PICK q, n : q = [k \in DOMAIN files |-> Single(path, files[k], c)] /\ n = Len(files)
  OBVIOUS
<1>2. n \in Nat /\ DOMAIN files = 1 .. n /\ \A k \in 1 .. n : files[k] \in T
  BY <1>1, LenProperties, ElementOfSeq
<1>3. /\ DOMAIN q = 1 .. n
      /\ \A k \in 1 .. n : q[k] = [kind |-> "file", dir |-> path, files |-> <<files[k]>>, chunks |-> c]
  BY <1>1, <1>2 DEF Single
<1>4. \A k \in 1 .. n : <<files[k]>> \in Seq(E) /\ Range(<<files[k]>>) = {files[k]}
  BY <1>2 DEF Range
<1>5. ASSUME NEW k \in 1 .. n
      PROVE  q[k] \in UnitOf(E) /\ UnitSound(q[k])
  <2>1. q[k] \in UnitOf(E)
    <3>1. <<files[k]>> \in Seq(E)
      BY <1>4
    <3>2. [kind |-> "file", dir |-> path, files |-> <<files[k]>>, chunks |-> c] \in UnitOf(E)
      BY <3>1 DEF UnitOf
    <3>. QED
      BY <1>3, <3>2
  <2>2. PICK e : e = files[k]
    OBVIOUS
  <2>3. q[k].files = <<e>> /\ q[k].kind = "file"
    BY <1>3, <2>2
  <2>4. <<e>> # <<>> /\ Len(<<e>>) = 1 /\ Once(<<e>>)
    BY DEF Once
  <2>. QED
    BY <2>1, <2>3, <2>4 DEF UnitSound
<1>6. q \in Seq(UnitOf(E))
  <2>1. q \in [1 .. n -> UnitOf(E)]
    BY <1>1, <1>2, <1>3, <1>5
  <2>. QED
    BY <1>2, <2>1, SeqDef
<1>7. \A k \in 1 .. n : \A y : Has(q[k], y) <=> path = y[1] /\ y[2] = files[k]
  BY <1>3, <1>4 DEF Has
<1>8. {path} \X T \subseteq FilesOf(E)
  BY DEF FilesOf
<1>9. \A k \in 1 .. n : \A y \in FilesOf(E) : Has(q[k], y) => y \in {path} \X T
  BY <1>2, <1>7 DEF FilesOf
<1>10. \A y \in {path} \X T : \E k \in 1 .. n : Has(q[k], y)
  BY <1>2, <1>7 DEF Range
<1>11. \A y \in {path} \X T : \A u, v \in 1 .. n : Has(q[u], y) /\ Has(q[v], y) => u = v
  <2>1. \A u, v \in 1 .. n : files[u] = files[v] => u = v
    BY <1>2 DEF Once
  <2>2. ASSUME NEW y, NEW u \in 1 .. n, NEW v \in 1 .. n, Has(q[u], y), Has(q[v], y)
        PROVE  u = v
    <3>1. y[2] = files[u] /\ y[2] = files[v]
      BY <1>7, <2>2
    <3>. QED
      BY <2>1, <3>1
  <2>. QED
    BY <2>2
<1>12. Deals(q, E, {path} \X T)
  BY <1>3, <1>5, <1>6, <1>8, <1>9, <1>10, <1>11 DEF Deals
<1>. QED
  BY <1>1, <1>12

(* The frame sequences: a unit per base name. *)
LEMMA SequencesDeal ==
  ASSUME NEW E, NEW S \in SUBSET E, Named(S), NEW path \in Seq(Nat)
  PROVE  Deals(FrameSequences(path, S), E, {path} \X Matching(S, "frame"))
<1>1. PICK T, b, n : T = Matching(S, "frame") /\ b = Bases(T) /\ n = Len(b)
  OBVIOUS
<1>2. T \in SUBSET S /\ Named(T)
  BY <1>1, SomeNamed DEF Matching, Regular
<1>3. /\ n \in Nat /\ DOMAIN b = 1 .. n
      /\ \A i, k \in 1 .. n : b[i] = b[k] => i = k
      /\ \A i \in 1 .. n : \E e \in T : e.base = b[i]
      /\ \A e \in T : \E i \in 1 .. n : b[i] = e.base
  <2>1. Names(Bases(T), Len(Bases(T)), T)
    BY <1>2, BasesType
  <2>. QED
    BY <1>1, <2>1 DEF Names
<1>4. PICK q : q = FrameSequences(path, S)
  OBVIOUS
<1>5. /\ DOMAIN q = 1 .. n
      /\ \A i \in 1 .. n : q[i] = [kind |-> "sequence", dir |-> path,
                                   files |-> Numbered(Group(T, b[i])), chunks |-> 0]
  BY <1>1, <1>3, <1>4 DEF FrameSequences
<1>6. ASSUME NEW i \in 1 .. n
      PROVE  /\ q[i].dir = path /\ q[i].kind = "sequence"
             /\ Range(q[i].files) = {e \in T : e.base = b[i]}
             /\ Once(q[i].files) /\ q[i] \in UnitOf(E) /\ q[i].files # <<>>
  <2>1. PICK G : G = Group(T, b[i]) /\ G \in SUBSET T
    BY DEF Group
  <2>2. Named(G)
    BY <1>2, <2>1, SomeNamed
  <2>3. PICK w : w = Numbered(G)
    OBVIOUS
  <2>4. w \in Seq(G) /\ Range(w) = G /\ Once(w)
    BY <2>2, <2>3, NumberedLists
  <2>5. w \in Seq(E)
    <3>1. G \subseteq E
      BY <1>2, <2>1
    <3>. QED
      BY <2>4, <3>1
  <2>6. q[i] = [kind |-> "sequence", dir |-> path, files |-> w, chunks |-> 0]
    BY <1>5, <2>1, <2>3
  <2>7. G # {}
    BY <1>3, <2>1 DEF Group
  <2>8. w # <<>>
    BY <2>4, <2>7 DEF Range
  <2>. QED
    BY <2>1, <2>4, <2>5, <2>6, <2>8 DEF UnitOf, Group
<1>7. q \in Seq(UnitOf(E))
  <2>1. q \in [1 .. n -> UnitOf(E)]
    <3>1. q = [i \in 1 .. n |-> q[i]]
      BY <1>1, <1>3, <1>4 DEF FrameSequences
    <3>. QED
      BY <1>6, <3>1
  <2>. QED
    BY <1>3, <2>1, SeqDef
<1>8. \A i \in 1 .. n : \A y \in FilesOf(E) :
         Has(q[i], y) <=> y[1] = path /\ y[2] \in T /\ y[2].base = b[i]
  BY <1>6 DEF Has
<1>9. {path} \X T \subseteq FilesOf(E)
  BY <1>2 DEF FilesOf
<1>10. \A i \in 1 .. n : \A y \in FilesOf(E) : Has(q[i], y) => y \in {path} \X T
  BY <1>8 DEF FilesOf
<1>11. \A y \in {path} \X T : \E i \in 1 .. n : Has(q[i], y)
  BY <1>3, <1>8, <1>9
<1>12. \A y \in {path} \X T : \A u, v \in 1 .. n : Has(q[u], y) /\ Has(q[v], y) => u = v
  <2>1. \A u, v \in 1 .. n : b[u] = b[v] => u = v
    BY <1>3
  <2>2. ASSUME NEW y \in FilesOf(E), NEW u \in 1 .. n, NEW v \in 1 .. n, Has(q[u], y), Has(q[v], y)
        PROVE  u = v
    BY <1>8, <2>1, <2>2
  <2>. QED
    BY <1>9, <2>2
<1>13. Deals(q, E, {path} \X T)
  BY <1>5, <1>6, <1>7, <1>9, <1>10, <1>11, <1>12 DEF Deals, UnitSound
<1>. QED
  BY <1>1, <1>4, <1>13

(* The videos: the chunks of each base name. *)
LEMMA VideosDeal ==
  ASSUME NEW E, NEW S \in SUBSET E, Named(S), NEW path \in Seq(Nat)
  PROVE  Deals(Videos(path, S), E, {path} \X Matching(S, "chunk"))
<1>1. PICK T, b, n : T = Matching(S, "chunk") /\ b = Bases(T) /\ n = Len(b)
  OBVIOUS
<1>2. T \in SUBSET S /\ Named(T)
  BY <1>1, SomeNamed DEF Matching, Regular
<1>3. /\ n \in Nat /\ DOMAIN b = 1 .. n
      /\ \A i, k \in 1 .. n : b[i] = b[k] => i = k
      /\ \A i \in 1 .. n : \E e \in T : e.base = b[i]
      /\ \A e \in T : \E i \in 1 .. n : b[i] = e.base
  <2>1. Names(Bases(T), Len(Bases(T)), T)
    BY <1>2, BasesType
  <2>2. Names(b, n, T)
    BY <1>1, <2>1, Zenon
  <2>. QED
    BY <2>2, Zenon DEF Names
<1>4. PICK q : q = [i \in DOMAIN b |->
       LET files == Numbered(Group(T, b[i]))
       IN [k \in DOMAIN files |-> Single(path, files[k], Len(files))]]
  OBVIOUS
<1>5. Videos(path, S) = FlattenSeq(q)
  BY <1>1, <1>4, Zenon DEF Videos
<1>6. PICK Y : Y = [i \in 1 .. n |-> {path} \X {e \in T : e.base = b[i]}]
  OBVIOUS
<1>7. DOMAIN q = 1 .. n /\ Len(q) = n /\ (n = 0 => q = <<>>)
  BY <1>3, <1>4
<1>8. ASSUME NEW i \in 1 .. n PROVE Deals(q[i], E, Y[i])
  <2>1. PICK G : G = Group(T, b[i]) /\ G \in SUBSET T
    BY DEF Group
  <2>2. Named(G) /\ G \in SUBSET E
    BY <1>2, <2>1, SomeNamed
  <2>3. PICK w, c : w = Numbered(G) /\ c = Len(w)
    OBVIOUS
  <2>4. w \in Seq(G) /\ Range(w) = G /\ Once(w) /\ c \in Nat
    BY <2>2, <2>3, NumberedLists, LenProperties
  <2>5. q[i] = [k \in DOMAIN w |-> Single(path, w[k], c)]
    BY <1>3, <1>4, <2>1, <2>3
  <2>6. Y[i] = {path} \X G
    BY <1>6, <2>1 DEF Group
  <2>. QED
    BY <2>2, <2>4, <2>5, <2>6, SinglesDeal
<1>9. \A i, k \in 1 .. n : i # k => Y[i] \cap Y[k] = {}
  <2>1. \A i, k \in 1 .. n : b[i] = b[k] => i = k
    BY <1>3
  <2>2. ASSUME NEW i \in 1 .. n, NEW k \in 1 .. n, NEW y \in Y[i] \cap Y[k] PROVE i = k
    <3>1. y \in {path} \X {e \in T : e.base = b[i]} /\ y \in {path} \X {e \in T : e.base = b[k]}
      BY <1>6
    <3>2. y[2].base = b[i] /\ y[2].base = b[k]
      BY <3>1
    <3>. QED
      BY <2>1, <3>2
  <2>. QED
    BY <2>2
<1>10. Deals(FlattenSeq(q), E, UNION {Y[i] : i \in 1 .. n})
  <2>1. DealsEach(q, n, E, Y)
    BY <1>3, <1>7, <1>8, <1>9 DEF DealsEach
  <2>. QED
    BY <2>1, DealsFlatten
<1>11. UNION {Y[i] : i \in 1 .. n} = {path} \X T
  <2>1. \A y \in {path} \X T : \E i \in 1 .. n : y \in Y[i]
    BY <1>3, <1>6
  <2>2. \A i \in 1 .. n : Y[i] \subseteq {path} \X T
    BY <1>6
  <2>. QED
    BY <2>1, <2>2
<1>. QED
  BY <1>1, <1>5, <1>10, <1>11

LEMMA LeftoversDeal ==
  ASSUME NEW E, NEW S \in SUBSET E, Named(S), NEW path \in Seq(Nat)
  PROVE  Deals(Leftovers(path, S), E, {path} \X Matching(S, "none"))
<1>1. PICK T, w : T = Matching(S, "none") /\ w = Sorted(T, ByName)
  OBVIOUS
<1>2. T \in SUBSET S /\ Named(T)
  BY <1>1, SomeNamed DEF Matching, Regular
<1>3. w \in Seq(T) /\ Range(w) = T /\ Once(w) /\ T \in SUBSET E
  BY <1>1, <1>2, ByNameLists
<1>4. Leftovers(path, S) = [k \in DOMAIN w |-> Single(path, w[k], 0)]
  BY <1>1 DEF Leftovers
<1>5. Deals([k \in DOMAIN w |-> Single(path, w[k], 0)], E, {path} \X T)
  BY <1>3, SinglesDeal
<1>. QED
  BY <1>1, <1>4, <1>5

Patterned(S) == \A e \in S : e.pattern \in {"frame", "chunk", "none"}

LEMMA UnitsOfDeal ==
  ASSUME NEW E, NEW S \in SUBSET E, Named(S), Patterned(S), NEW path \in Seq(Nat)
  PROVE  Deals(UnitsOf(path, S), E, {path} \X Regular(S))
<1>1. PICK F, C, N : F = {path} \X Matching(S, "frame") /\ C = {path} \X Matching(S, "chunk")
                     /\ N = {path} \X Matching(S, "none")
  OBVIOUS
<1>2. F \cap C = {} /\ (F \cup C) \cap N = {}
  BY <1>1 DEF Matching
<1>3. F \cup C \cup N = {path} \X Regular(S)
  BY <1>1 DEF Matching, Regular, Patterned
<1>4. PICK q, w, r : q = FrameSequences(path, S) /\ w = Videos(path, S) /\ r = Leftovers(path, S)
  OBVIOUS
<1>5. Deals(q, E, F) /\ Deals(w, E, C) /\ Deals(r, E, N)
  BY <1>1, <1>4, SequencesDeal, VideosDeal, LeftoversDeal
<1>6. Deals(q \o w, E, F \cup C)
  BY <1>2, <1>5, DealsConcat
<1>7. Deals((q \o w) \o r, E, (F \cup C) \cup N)
  BY <1>2, <1>5, <1>6, DealsConcat
<1>. QED
  BY <1>3, <1>4, <1>7 DEF UnitsOf

(* What os.walk may list: directories are lists of names, their entries    *)
(* have a name each, a number, a size, and one of the three patterns.      *)
TreeShape(dirs) ==
  /\ IsFiniteSet(DOMAIN dirs) /\ DOMAIN dirs \subseteq Seq(Nat)
  /\ \A p \in DOMAIN dirs : Named(dirs[p]) /\ Patterned(dirs[p])

Entries(dirs) == UNION {dirs[p] : p \in DOMAIN dirs}

(* The regular files of a tree that are not hidden. *)
Archivable(dirs) ==
  {y \in Visible(dirs) \X Entries(dirs) : y[2] \in Regular(dirs[y[1]])}

(* The scan deals out the regular files of the dirs, each to one unit.     *)
LEMMA ScanDeals ==
  ASSUME NEW dirs, TreeShape(dirs)
  PROVE  Deals(Scan(dirs), Entries(dirs), Archivable(dirs))
<1>1. PICK w, n, E, V : w = Walk(dirs) /\ n = Len(w) /\ E = Entries(dirs) /\ V = Visible(dirs)
  OBVIOUS
<1>2. /\ n \in Nat /\ DOMAIN w = 1 .. n /\ (\A i \in 1 .. n : w[i] \in V)
      /\ Range(w) = V /\ \A i, k \in 1 .. n : w[i] = w[k] => i = k
  <2>1. w \in Seq(V) /\ Range(w) = V /\ \A i, k \in DOMAIN w : w[i] = w[k] => i = k
    BY <1>1, WalkType DEF TreeShape
  <2>. QED
    BY <1>1, <2>1, LenProperties, ElementOfSeq
<1>3. V \subseteq DOMAIN dirs /\ V \subseteq Seq(Nat)
  BY <1>1 DEF Visible, TreeShape
<1>4. PICK q : q = [i \in DOMAIN w |-> UnitsOf(w[i], dirs[w[i]])]
  OBVIOUS
<1>5. Scan(dirs) = FlattenSeq(q)
  BY <1>1, <1>4, Zenon DEF Scan
<1>6. DOMAIN q = 1 .. n /\ Len(q) = n /\ (n = 0 => q = <<>>)
  BY <1>2, <1>4
<1>7. PICK Y : Y = [i \in 1 .. n |-> {w[i]} \X Regular(dirs[w[i]])]
  OBVIOUS
<1>8. ASSUME NEW i \in 1 .. n PROVE Deals(q[i], E, Y[i])
  <2>1. PICK p : p = w[i]
    OBVIOUS
  <2>2. p \in DOMAIN dirs /\ p \in Seq(Nat)
    BY <1>2, <1>3, <2>1
  <2>3. PICK S : S = dirs[p]
    OBVIOUS
  <2>4. S \in SUBSET E /\ Named(S) /\ Patterned(S)
    BY <1>1, <2>2, <2>3 DEF TreeShape, Entries
  <2>5. q[i] = UnitsOf(p, S) /\ Y[i] = {p} \X Regular(S)
    BY <1>2, <1>4, <1>7, <2>1, <2>3
  <2>. QED
    BY <2>2, <2>4, <2>5, UnitsOfDeal
<1>9. \A i, k \in 1 .. n : i # k => Y[i] \cap Y[k] = {}
  <2>1. ASSUME NEW i \in 1 .. n, NEW k \in 1 .. n, NEW y \in Y[i] \cap Y[k] PROVE i = k
    BY <1>2, <1>7
  <2>. QED
    BY <2>1
<1>10. Deals(FlattenSeq(q), E, UNION {Y[i] : i \in 1 .. n})
  <2>1. DealsEach(q, n, E, Y)
    BY <1>2, <1>6, <1>8, <1>9 DEF DealsEach
  <2>. QED
    BY <2>1, DealsFlatten
<1>11. UNION {Y[i] : i \in 1 .. n} = Archivable(dirs)
  <2>1. ASSUME NEW i \in 1 .. n, NEW y \in Y[i] PROVE y \in Archivable(dirs)
    <3>1. y \in {w[i]} \X Regular(dirs[w[i]]) /\ w[i] \in V /\ w[i] \in DOMAIN dirs
      BY <1>2, <1>3, <1>7
    <3>2. y[1] = w[i] /\ y[2] \in Regular(dirs[w[i]]) /\ y \in V \X E
      BY <1>1, <3>1 DEF Entries, Regular
    <3>. QED
      BY <1>1, <3>2 DEF Archivable
  <2>2. ASSUME NEW y \in Archivable(dirs) PROVE \E i \in 1 .. n : y \in Y[i]
    <3>1. y \in V \X E /\ y[2] \in Regular(dirs[y[1]])
      BY <1>1 DEF Archivable
    <3>2. PICK i \in 1 .. n : w[i] = y[1]
      BY <1>2, <3>1 DEF Range
    <3>3. y \in {w[i]} \X Regular(dirs[w[i]])
      BY <3>1, <3>2
    <3>. QED
      BY <1>7, <3>3
  <2>. QED
    BY <2>1, <2>2
<1>. QED
  BY <1>1, <1>5, <1>10, <1>11
-----------------------------------------------------------------------------
(* The gap report.                                                         *)

(* What the fold of a list makes of its first k elements.                  *)
Gathers(g, q, n) ==
  /\ g[0] = <<>>
  /\ \A k \in 1 .. n : g[k] = Extend(g[k - 1], q[k])

Spans == Seq([from: Nat, to: Nat])

LEMMA ExtendType ==
  ASSUME NEW r \in Spans, NEW n \in Nat
  PROVE  Extend(r, n) \in Spans
<1>1. PICK e : e = [from |-> n, to |-> n]
  OBVIOUS
<1>2. Append(r, e) \in Spans
  BY <1>1 DEF Spans
<1>3. ASSUME r # <<>> PROVE [r EXCEPT ![Len(r)].to = n] \in Spans
  <2>1. PICK m : m = Len(r)
    OBVIOUS
  <2>2. m \in Nat /\ m \in 1 .. m /\ DOMAIN r = 1 .. m /\ \A i \in 1 .. m : r[i] \in [from: Nat, to: Nat]
    <3>1. r \in Seq([from: Nat, to: Nat])
      BY DEF Spans
    <3>2. m \in Nat /\ DOMAIN r = 1 .. m /\ r \in [1 .. m -> [from: Nat, to: Nat]]
      BY <2>1, <3>1, LenProperties
    <3>3. m # 0
      BY <1>3, <2>1, <3>1, EmptySeq
    <3>. QED
      BY <3>2, <3>3
  <2>3. PICK w : w = [r EXCEPT ![m].to = n]
    OBVIOUS
  <2>4. w \in [1 .. m -> [from: Nat, to: Nat]]
    BY <2>2, <2>3
  <2>5. w \in Spans
    BY <2>2, <2>4, SeqDef DEF Spans
  <2>. QED
    BY <2>1, <2>3, <2>5
<1>. QED
  BY <1>1, <1>2, <1>3, Zenon DEF Extend

LEMMA CompressFolds ==
  ASSUME NEW q \in Seq(Nat), NEW n \in Nat, n = Len(q)
  PROVE  \E g : Gathers(g, q, n) /\ CompressRanges(q) = g[n] /\ \A k \in 0 .. n : g[k] \in Spans
<1>1. PICK D : D = 1 .. n
  OBVIOUS
<1>2. D = DOMAIN q /\ IsFiniteSet(D) /\ D \subseteq Nat /\ D \in SUBSET D
  <2>1. D = DOMAIN q /\ D \subseteq Nat
    BY <1>1, LenProperties
  <2>2. IsFiniteSet(D)
    BY <1>1, FS_Interval
  <2>. QED
    BY <2>1, <2>2
<1>3. PICK c : c = [X \in SUBSET D |-> Max(X)]
  OBVIOUS
<1>4. PICK G : G = [X \in SUBSET D |-> [r \in Spans |-> Extend(r, q[c[X]])]]
  OBVIOUS
<1>5. ASSUME NEW X \in SUBSET D, X # {}
      PROVE  c[X] \in X /\ (\A u \in X : u <= c[X]) /\ q[c[X]] \in Nat
  <2>1. X \subseteq Nat /\ IsFiniteSet(X)
    BY <1>2, FS_Subset
  <2>2. Max(X) \in X /\ \A u \in X : u <= Max(X)
    BY <1>5, <2>1, MaxOf
  <2>3. c[X] = Max(X)
    BY <1>3
  <2>4. \A i \in D : q[i] \in Nat
    BY <1>1, <1>2, ElementOfSeq
  <2>. QED
    BY <2>2, <2>3, <2>4
<1>6. \A X \in SUBSET D, r \in Spans : X # {} => G[X][r] = Extend(r, q[c[X]]) /\ G[X][r] \in Spans
  BY <1>4, <1>5, ExtendType
<1>7. <<>> \in Spans /\ \A X \in SUBSET D : X # {} => c[X] \in X
  BY <1>5 DEF Spans
<1>8. PICK h : FoldsTo(D, Spans, <<>>, c, G, h)
  <2>1. \A X \in SUBSET D, v \in Spans : X # {} => G[X][v] \in Spans
    BY <1>6
  <2>. QED
    BY <1>2, <1>7, <2>1, FoldExists
<1>9. /\ h \in [SUBSET D -> Spans]
      /\ h[{}] = <<>>
      /\ \A X \in SUBSET D : X # {} => h[X] = Extend(h[X \ {c[X]}], q[c[X]])
  <2>1. h \in [SUBSET D -> Spans] /\ h[{}] = <<>>
    BY <1>8 DEF FoldsTo
  <2>2. ASSUME NEW X \in SUBSET D, X # {} PROVE h[X] = Extend(h[X \ {c[X]}], q[c[X]])
    <3>1. PICK Y : Y = X \ {c[X]}
      OBVIOUS
    <3>2. h[X] = G[X][h[Y]]
      BY <1>8, <2>2, <3>1, Zenon DEF FoldsTo
    <3>3. h[Y] \in Spans
      BY <2>1, <3>1
    <3>. QED
      BY <1>6, <2>2, <3>1, <3>2, <3>3
  <2>. QED
    BY <2>1, <2>2
<1>10. h = [X \in SUBSET D |-> IF X = {} THEN <<>> ELSE Extend(h[X \ {Max(X)}], q[Max(X)])]
  <2>1. \A X \in SUBSET D : h[X] = IF X = {} THEN <<>> ELSE Extend(h[X \ {Max(X)}], q[Max(X)])
    BY <1>3, <1>9
  <2>2. h = [X \in SUBSET D |-> h[X]]
    BY <1>9
  <2>. QED
    BY <2>1, <2>2, Zenon
<1>11. ASSUME NEW g, g = [X \in SUBSET D |-> IF X = {} THEN <<>> ELSE Extend(g[X \ {Max(X)}], q[Max(X)])]
       PROVE  g = h
  <2>0. PICK w : w = [X \in SUBSET D |-> IF X = {} THEN <<>> ELSE Extend(g[X \ {Max(X)}], q[Max(X)])]
    BY Zenon
  <2>1. DOMAIN g = SUBSET D /\ \A X \in SUBSET D : g[X] = IF X = {} THEN <<>> ELSE Extend(g[X \ {c[X]}], q[c[X]])
    <3>1. DOMAIN w = SUBSET D
      BY <2>0
    <3>2. g = w
      BY <1>11, <2>0, Zenon
    <3>3. \A X \in SUBSET D : w[X] = IF X = {} THEN <<>> ELSE Extend(g[X \ {c[X]}], q[c[X]])
      BY <1>3, <2>0
    <3>. QED
      BY <3>1, <3>2, <3>3, Zenon
  <2>3. PICK Bad : Bad = {X \in SUBSET D : g[X] # h[X]}
    OBVIOUS
  <2>4. ASSUME Bad # {} PROVE FALSE
    <3>1. PICK X \in Bad : \A Y \in Bad : Y \subseteq X => Y = X
      <4>1. Bad \subseteq SUBSET D
        BY <2>3
      <4>. QED
        <5>1. IsFiniteSet(D)
          BY <1>2
        <5>. QED
          BY <2>4, <4>1, <5>1, SmallestSet
    <3>2. PICK Y : Y = X \ {c[X]}
      OBVIOUS
    <3>3. X \in SUBSET D /\ g[X] # h[X] /\ X # {}
      BY <1>9, <2>1, <2>3, <3>1
    <3>4. Y \in SUBSET D /\ Y \subseteq X /\ Y # X
      BY <1>5, <3>2, <3>3
    <3>5. g[Y] = h[Y]
      BY <2>3, <3>1, <3>4
    <3>6. g[X] = Extend(g[Y], q[c[X]]) /\ h[X] = Extend(h[Y], q[c[X]])
      BY <1>9, <2>1, <3>2, <3>3, Zenon
    <3>. QED
      BY <3>3, <3>5, <3>6
  <2>5. \A X \in SUBSET D : g[X] = h[X]
    BY <2>3, <2>4
  <2>6. DOMAIN h = SUBSET D /\ DOMAIN g = SUBSET D
    BY <1>9, <2>1
  <2>7. h = [X \in SUBSET D |-> h[X]]
    BY <1>9
  <2>8. g = [X \in SUBSET D |-> g[X]]
    <3>1. w = [X \in SUBSET D |-> w[X]]
      BY <2>0
    <3>2. g = w
      BY <1>11, <2>0, Zenon
    <3>. QED
      BY <3>1, <3>2, Zenon
  <2>9. [X \in SUBSET D |-> g[X]] = [X \in SUBSET D |-> h[X]]
    BY <2>5, Zenon
  <2>. QED
    BY <2>7, <2>8, <2>9, Zenon
<1>12. CompressRanges(q) = h[D]
  <2>1. CompressRanges(q) =
          (CHOOSE g : g = [X \in SUBSET D |-> IF X = {} THEN <<>>
                                              ELSE Extend(g[X \ {Max(X)}], q[Max(X)])])[D]
    BY <1>2, Zenon DEF CompressRanges, FoldLeft, MapThenFoldSet
  <2>2. (CHOOSE g : g = [X \in SUBSET D |-> IF X = {} THEN <<>>
                                              ELSE Extend(g[X \ {Max(X)}], q[Max(X)])]) = h
    BY <1>10, <1>11, Zenon
  <2>. QED
    BY <2>1, <2>2
<1>13. PICK g : g = [k \in 0 .. n |-> h[1 .. k]]
  OBVIOUS
<1>14. \A k \in 0 .. n : 1 .. k \in SUBSET D /\ g[k] = h[1 .. k] /\ g[k] \in Spans
  BY <1>1, <1>9, <1>13
<1>15. g[0] = <<>>
  <2>1. 1 .. 0 = {} /\ 0 \in 0 .. n
    OBVIOUS
  <2>. QED
    BY <1>9, <1>14, <2>1
<1>16. ASSUME NEW k \in 1 .. n PROVE g[k] = Extend(g[k - 1], q[k])
  <2>1. PICK X : X = 1 .. k
    OBVIOUS
  <2>2. X \in SUBSET D /\ k \in X /\ \A u \in X : u <= k /\ u \in Nat
    BY <1>1, <2>1
  <2>3. c[X] = k
    <3>1. X # {}
      BY <2>2
    <3>2. c[X] \in X /\ \A u \in X : u <= c[X]
      BY <1>5, <2>2, <3>1
    <3>3. c[X] \in Nat /\ k \in Nat /\ k <= c[X] /\ c[X] <= k
      BY <2>2, <3>2
    <3>. QED
      BY <3>3
  <2>4. X \ {k} = 1 .. k - 1 /\ k - 1 \in 0 .. n /\ k \in 0 .. n
    BY <2>1
  <2>5. h[X] = Extend(h[X \ {k}], q[k])
    BY <1>9, <2>1, <2>2, <2>3
  <2>. QED
    BY <1>14, <2>1, <2>4, <2>5
<1>17. g[n] = h[D]
  BY <1>1, <1>14
<1>. QED
  BY <1>12, <1>14, <1>15, <1>16, <1>17 DEF Gathers

(* Ranges r of ascending numbers that do not touch, which hold the numbers *)
(* of N and no others.                                                     *)
Holds(r, m) == \E i \in DOMAIN r : r[i].from <= m /\ m <= r[i].to

Ranges(r, N) ==
  /\ r \in Spans
  /\ \A m \in Nat : Holds(r, m) <=> m \in N
  /\ \A i \in DOMAIN r : r[i].from <= r[i].to
  /\ \A i \in DOMAIN r : i > 1 => r[i].from > r[i - 1].to + 1

(* The first k numbers of q. *)
Firsts(q, k) == {q[j] : j \in 1 .. k}

LastOf(r, m) == r # <<>> /\ r[Len(r)].to = m

LEMMA ExtendsRanges ==
  ASSUME NEW r, NEW N \in SUBSET Nat, Ranges(r, N), NEW n \in Nat,
         NEW m \in Nat, LastOf(r, m), m < n
  PROVE  Ranges(Extend(r, n), N \cup {n}) /\ LastOf(Extend(r, n), n)
<1>1. PICK l, w : l = Len(r) /\ w = Extend(r, n)
  OBVIOUS
<1>2. l \in Nat /\ DOMAIN r = 1 .. l /\ (\A i \in 1 .. l : r[i].from \in Nat /\ r[i].to \in Nat)
  <2>1. r \in Seq([from: Nat, to: Nat])
    BY DEF Ranges, Spans
  <2>2. \A i \in 1 .. l : r[i] \in [from: Nat, to: Nat]
    BY <1>1, <2>1, LenProperties, ElementOfSeq
  <2>. QED
    BY <1>1, <2>1, <2>2, LenProperties
<1>3. l \in 1 .. l /\ r[l].to = m
  <2>1. r \in Seq([from: Nat, to: Nat]) /\ r # <<>>
    BY DEF Ranges, Spans, LastOf
  <2>2. l # 0
    BY <1>1, <2>1, EmptySeq
  <2>. QED
    BY <1>1, <1>2, <2>2 DEF LastOf
<1>4. w \in Spans
  BY <1>1, ExtendType DEF Ranges
<1>5. CASE n = m + 1
  <2>1. w = [r EXCEPT ![l].to = n]
    <3>1. r # <<>> /\ n = r[Len(r)].to + 1
      BY <1>1, <1>3, <1>5 DEF LastOf
    <3>. QED
      BY <1>1, <3>1, Zenon DEF Extend
  <2>2. /\ DOMAIN w = 1 .. l
        /\ \A i \in 1 .. l : w[i].from = r[i].from /\ w[i].to = IF i = l THEN n ELSE r[i].to
    <3>1. r \in [1 .. l -> [from: Nat, to: Nat]]
      <4>1. r \in Seq([from: Nat, to: Nat])
        BY DEF Ranges, Spans
      <4>. QED
        BY <1>1, <4>1, LenProperties
    <3>. QED
      BY <1>2, <2>1, <3>1
  <2>3. Len(w) = l /\ w # <<>>
    <3>1. w \in Seq([from: Nat, to: Nat]) /\ l # 0
      BY <1>3, <1>4 DEF Spans
    <3>. QED
      BY <1>2, <2>2, <3>1, LenProperties
  <2>4. LastOf(w, n)
    BY <1>3, <2>2, <2>3 DEF LastOf
  <2>5. \A i \in 1 .. l : r[i].from <= r[i].to
    BY <1>2 DEF Ranges
  <2>6. \A i \in 1 .. l : i > 1 => r[i].from > r[i - 1].to + 1
    BY <1>2 DEF Ranges
  <2>7. \A i \in DOMAIN w : w[i].from <= w[i].to
    BY <1>2, <1>3, <1>5, <2>2, <2>5
  <2>8. \A i \in DOMAIN w : i > 1 => w[i].from > w[i - 1].to + 1
    <3>1. SUFFICES ASSUME NEW i \in 1 .. l, i > 1 PROVE w[i].from > w[i - 1].to + 1
      BY <2>2
    <3>2. i - 1 \in 1 .. l /\ i - 1 # l
      BY <1>2, <3>1
    <3>. QED
      BY <2>2, <2>6, <3>1, <3>2
  <2>9. ASSUME NEW o \in Nat PROVE Holds(w, o) <=> o \in N \cup {n}
    <3>1. Holds(r, o) <=> o \in N
      BY DEF Ranges
    <3>2. Holds(w, o) <=> Holds(r, o) \/ o = n
      <4>1. ASSUME Holds(w, o) PROVE Holds(r, o) \/ o = n
        <5>1. PICK i \in 1 .. l : w[i].from <= o /\ o <= w[i].to
          BY <2>2, <4>1 DEF Holds
        <5>2. o # n => r[i].from <= o /\ o <= r[i].to
          BY <1>2, <1>3, <1>5, <2>2, <5>1
        <5>. QED
          BY <1>2, <5>1, <5>2 DEF Holds
      <4>2. ASSUME Holds(r, o) PROVE Holds(w, o)
        <5>1. PICK i \in 1 .. l : r[i].from <= o /\ o <= r[i].to
          BY <1>2, <4>2 DEF Holds
        <5>2. w[i].from <= o /\ o <= w[i].to
          BY <1>2, <1>3, <1>5, <2>2, <5>1
        <5>. QED
          BY <2>2, <5>2 DEF Holds
      <4>3. ASSUME o = n PROVE Holds(w, o)
        <5>1. w[l].from <= o /\ o <= w[l].to
          BY <1>2, <1>3, <1>5, <2>2, <2>5, <4>3
        <5>. QED
          BY <1>3, <2>2, <5>1 DEF Holds
      <4>. QED
        BY <4>1, <4>2, <4>3
    <3>. QED
      BY <3>1, <3>2
  <2>10. Ranges(w, N \cup {n})
    BY <1>4, <2>7, <2>8, <2>9 DEF Ranges
  <2>. QED
    BY <1>1, <2>4, <2>10
<1>6. CASE n # m + 1
  <2>1. w = Append(r, [from |-> n, to |-> n])
    <3>1. ~(r # <<>> /\ n = r[Len(r)].to + 1)
      BY <1>1, <1>3, <1>6
    <3>. QED
      BY <1>1, <3>1, Zenon DEF Extend
  <2>2. /\ DOMAIN w = 1 .. l + 1 /\ Len(w) = l + 1
        /\ \A i \in 1 .. l : w[i] = r[i]
        /\ w[l + 1].from = n /\ w[l + 1].to = n
    <3>1. r \in Seq([from: Nat, to: Nat])
      BY DEF Ranges, Spans
    <3>2. PICK e : e = [from |-> n, to |-> n]
      OBVIOUS
    <3>3. e \in [from: Nat, to: Nat] /\ e.from = n /\ e.to = n
      BY <3>2
    <3>4. w = Append(r, e)
      BY <2>1, <3>2
    <3>5. /\ Len(w) = l + 1 /\ w[l + 1] = e
          /\ \A i \in 1 .. l : w[i] = r[i]
      BY <1>1, <3>1, <3>3, <3>4, AppendProperties
    <3>6. DOMAIN w = 1 .. l + 1
      BY <1>4, <3>5, LenProperties DEF Spans
    <3>. QED
      BY <3>3, <3>5, <3>6
  <2>3. LastOf(w, n)
    <3>1. w # <<>>
      BY <1>2, <2>2
    <3>. QED
      BY <2>2, <3>1 DEF LastOf
  <2>4. \A i \in 1 .. l : r[i].from <= r[i].to
    BY <1>2 DEF Ranges
  <2>5. \A i \in 1 .. l : i > 1 => r[i].from > r[i - 1].to + 1
    BY <1>2 DEF Ranges
  <2>6. \A i \in 1 .. l + 1 : i \in 1 .. l \/ i = l + 1
    BY <1>2
  <2>7. \A i \in DOMAIN w : w[i].from <= w[i].to
    BY <2>2, <2>4, <2>6
  <2>8. \A i \in DOMAIN w : i > 1 => w[i].from > w[i - 1].to + 1
    <3>1. SUFFICES ASSUME NEW i \in 1 .. l + 1, i > 1 PROVE w[i].from > w[i - 1].to + 1
      BY <2>2
    <3>2. i - 1 \in 1 .. l /\ w[i - 1] = r[i - 1]
      BY <1>2, <2>2, <3>1
    <3>3. CASE i \in 1 .. l
      BY <2>2, <2>5, <3>1, <3>2, <3>3
    <3>4. CASE i = l + 1
      <4>1. i - 1 = l /\ w[l].to = m
        BY <1>2, <1>3, <2>2, <3>4
      <4>2. w[i].from = n
        BY <2>2, <3>4
      <4>. QED
        BY <1>6, <4>1, <4>2
    <3>. QED
      BY <2>6, <3>3, <3>4
  <2>9. ASSUME NEW o \in Nat PROVE Holds(w, o) <=> o \in N \cup {n}
    <3>1. Holds(r, o) <=> o \in N
      BY DEF Ranges
    <3>2. Holds(w, o) <=> Holds(r, o) \/ o = n
      <4>1. ASSUME Holds(w, o) PROVE Holds(r, o) \/ o = n
        <5>1. PICK i \in 1 .. l + 1 : w[i].from <= o /\ o <= w[i].to
          BY <2>2, <4>1 DEF Holds
        <5>2. i \in 1 .. l => r[i].from <= o /\ o <= r[i].to
          BY <2>2, <5>1
        <5>3. i = l + 1 => o = n
          BY <2>2, <5>1
        <5>. QED
          BY <1>2, <2>6, <5>1, <5>2, <5>3 DEF Holds
      <4>2. ASSUME Holds(r, o) PROVE Holds(w, o)
        <5>1. PICK i \in 1 .. l : r[i].from <= o /\ o <= r[i].to
          BY <1>2, <4>2 DEF Holds
        <5>2. i \in 1 .. l + 1 /\ w[i].from <= o /\ o <= w[i].to
          BY <1>2, <2>2, <5>1
        <5>. QED
          BY <2>2, <5>2 DEF Holds
      <4>3. ASSUME o = n PROVE Holds(w, o)
        <5>1. l + 1 \in 1 .. l + 1 /\ w[l + 1].from <= o /\ o <= w[l + 1].to
          BY <1>2, <2>2, <4>3
        <5>. QED
          BY <2>2, <5>1 DEF Holds
      <4>. QED
        BY <4>1, <4>2, <4>3
    <3>. QED
      BY <3>1, <3>2
  <2>10. Ranges(w, N \cup {n})
    BY <1>4, <2>7, <2>8, <2>9 DEF Ranges
  <2>. QED
    BY <1>1, <2>3, <2>10
<1>. QED
  BY <1>5, <1>6

(* The first number opens a range. *)
LEMMA OpensRanges ==
  ASSUME NEW n \in Nat
  PROVE  Ranges(Extend(<<>>, n), {n}) /\ LastOf(Extend(<<>>, n), n)
<1>1. PICK w, e : w = Extend(<<>>, n) /\ e = [from |-> n, to |-> n]
  OBVIOUS
<1>2. w = Append(<<>>, e)
  BY <1>1, Zenon DEF Extend
<1>3. e \in [from: Nat, to: Nat] /\ e.from = n /\ e.to = n
  BY <1>1
<1>4. w = <<e>>
  BY <1>2
<1>5. w \in Spans /\ Len(w) = 1 /\ DOMAIN w = 1 .. 1 /\ w[1] = e /\ w # <<>>
  BY <1>3, <1>4 DEF Spans
<1>6. \A m \in Nat : Holds(w, m) <=> m = n
  BY <1>3, <1>5 DEF Holds
<1>. QED
  BY <1>1, <1>3, <1>5, <1>6 DEF Ranges, LastOf

Ascends(q, n) == \A i, k \in 1 .. n : i < k => q[i] < q[k]

Gathered(g, q, k) == Ranges(g[k], Firsts(q, k)) /\ (k # 0 => LastOf(g[k], q[k]))

LEMMA CompressRangesType ==
  ASSUME NEW q \in Seq(Nat), Ascends(q, Len(q))
  PROVE  Ranges(CompressRanges(q), Range(q))
<1>1. PICK n : n = Len(q)
  OBVIOUS
<1>2. n \in Nat /\ DOMAIN q = 1 .. n /\ (\A i \in 1 .. n : q[i] \in Nat) /\ Ascends(q, n)
  BY <1>1, LenProperties, ElementOfSeq
<1>3. PICK g : Gathers(g, q, n) /\ CompressRanges(q) = g[n] /\ \A k \in 0 .. n : g[k] \in Spans
  BY <1>1, CompressFolds
<1>4. PICK F : F = {k \in Nat : k \in 0 .. n => Gathered(g, q, k)}
  OBVIOUS
<1>5. g[0] = <<>> /\ \A k \in 1 .. n : g[k] = Extend(g[k - 1], q[k])
  BY <1>3 DEF Gathers
<1>6. 0 \in F
  <2>1. Firsts(q, 0) = {}
    BY DEF Firsts
  <2>2. Ranges(<<>>, {})
    BY DEF Ranges, Holds, Spans
  <2>. QED
    BY <1>4, <1>5, <2>1, <2>2 DEF Gathered
<1>7. ASSUME NEW k \in Nat, k \in F PROVE k + 1 \in F
  <2>1. SUFFICES ASSUME k + 1 \in 0 .. n
                 PROVE  Ranges(g[k + 1], Firsts(q, k + 1)) /\ LastOf(g[k + 1], q[k + 1])
    BY <1>4 DEF Gathered
  <2>2. PICK l : l = k + 1 /\ l \in 1 .. n /\ l - 1 = k /\ k \in 0 .. n
    BY <1>2, <2>1
  <2>3. PICK r, m : r = g[k] /\ m = q[l] /\ m \in Nat
    BY <1>2, <2>2
  <2>4. g[l] = Extend(r, m)
    BY <1>5, <2>2, <2>3
  <2>5. Firsts(q, l) = Firsts(q, k) \cup {m}
    <3>1. \A j \in 1 .. l : j \in 1 .. k \/ j = l
      BY <2>2
    <3>2. \A j \in 1 .. k : j \in 1 .. l
      BY <2>2
    <3>. QED
      BY <2>2, <2>3, <3>1, <3>2 DEF Firsts
  <2>6. CASE k = 0
    <3>1. Firsts(q, 0) = {}
      BY DEF Firsts
    <3>2. r = <<>> /\ Firsts(q, l) = {m}
      BY <1>5, <2>3, <2>5, <2>6, <3>1
    <3>. QED
      BY <2>2, <2>3, <2>4, <3>2, OpensRanges
  <2>7. CASE k # 0
    <3>1. PICK o : o = q[k] /\ o \in Nat /\ o < m
      BY <1>2, <2>2, <2>3, <2>7 DEF Ascends
    <3>2. PICK N : N = Firsts(q, k) /\ N \in SUBSET Nat
      <4>1. \A j \in 1 .. k : j \in 1 .. n
        BY <1>2, <2>2
      <4>2. Firsts(q, k) \in SUBSET Nat
        BY <1>2, <4>1 DEF Firsts
      <4>. QED
        BY <4>2
    <3>3. Ranges(r, N) /\ LastOf(r, o)
      <4>1. Ranges(g[k], Firsts(q, k)) /\ (k # 0 => LastOf(g[k], q[k]))
        BY <1>4, <1>7, <2>2 DEF Gathered
      <4>. QED
        BY <2>3, <2>7, <3>1, <3>2, <4>1
    <3>4. Ranges(Extend(r, m), N \cup {m}) /\ LastOf(Extend(r, m), m)
      BY <2>3, <3>1, <3>2, <3>3, ExtendsRanges
    <3>. QED
      BY <2>2, <2>3, <2>4, <2>5, <3>2, <3>4
  <2>. QED
    BY <2>6, <2>7
<1>8. n \in F
  BY <1>2, <1>6, <1>7, NumberInduction
<1>9. Ranges(g[n], Firsts(q, n))
  <2>1. n \in 0 .. n
    BY <1>2
  <2>. QED
    BY <1>4, <1>8, <2>1 DEF Gathered
<1>10. Firsts(q, n) = Range(q)
  BY <1>2 DEF Firsts, Range
<1>. QED
  BY <1>3, <1>9, <1>10

LEMMA NumbersAscend ==
  ASSUME NEW S, S \subseteq Nat, IsFiniteSet(S)
  PROVE  LET q == Sorted(S, Below)
         IN q \in Seq(S) /\ Range(q) = S /\ Ascends(q, Len(q))
<1>1. PICK R : R = {p \in S \X S : p[1] < p[2]}
  OBVIOUS
<1>2. \A m, n \in S : <<m, n>> \in R <=> m < n
  BY <1>1
<1>3. Orders(R, S)
  BY <1>2 DEF Orders
<1>4. Lists(Arranged(S, R), S, R)
  BY <1>3, ArrangedLists
<1>5. Sorted(S, Below) = Arranged(S, R)
  BY <1>1 DEF Sorted, Below
<1>6. PICK q : q = Arranged(S, R)
  OBVIOUS
<1>7. q \in Seq(S) /\ Range(q) = S /\ \A i, k \in DOMAIN q : i < k => <<q[i], q[k]>> \in R
  BY <1>4, <1>6 DEF Lists
<1>8. DOMAIN q = 1 .. Len(q) /\ \A i \in DOMAIN q : q[i] \in S
  BY <1>7, LenProperties, ElementOfSeq
<1>9. Ascends(q, Len(q))
  BY <1>2, <1>7, <1>8 DEF Ascends
<1>. QED
  BY <1>5, <1>6, <1>7, <1>9

(* The gap report of a sequence of files with numbers.                     *)
Gaps(r, N) ==
  /\ \A n \in 0 .. Max(N) :
       (\E i \in DOMAIN r : r[i].from <= n /\ n <= r[i].to) <=> n \notin N /\ \E m \in N : m < n
  /\ \A i \in DOMAIN r :
       /\ r[i].from <= r[i].to
       /\ r[i].to <= Max(N)
       /\ i > 1 => r[i].from > r[i - 1].to + 1

LEMMA GapReportType ==
  ASSUME NEW E, \A e \in E : e.num \in Nat, NEW u \in UnitOf(E), u.files # <<>>
  PROVE  Gaps(GapReport(u), FrameNumbers(u))
<1>1. PICK n, f : n = Len(u.files) /\ f = u.files
  OBVIOUS
<1>2. f \in Seq(E) /\ f # <<>>
  BY <1>1 DEF UnitOf
<1>3. n \in Nat /\ n # 0 /\ DOMAIN f = 1 .. n /\ \A i \in 1 .. n : f[i] \in E
  BY <1>1, <1>2, LenProperties, ElementOfSeq, EmptySeq
<1>4. PICK N : N = FrameNumbers(u)
  OBVIOUS
<1>5. N = {f[i].num : i \in 1 .. n}
  BY <1>1, <1>3, <1>4 DEF FrameNumbers
<1>6. N \subseteq Nat /\ N # {}
  BY <1>3, <1>5
<1>7. IsFiniteSet(N)
  <2>1. IsFiniteSet(1 .. n)
    BY <1>3, FS_Interval
  <2>2. PICK h : h = [i \in 1 .. n |-> f[i].num]
    OBVIOUS
  <2>3. h \in Surjection(1 .. n, N)
    BY <1>5, <2>2 DEF Surjection
  <2>. QED
    BY <2>1, <2>3, FS_Surjection
<1>8. PICK a, b : a = Min(N) /\ b = Max(N)
  OBVIOUS
<1>9. a \in N /\ b \in N /\ a \in Nat /\ b \in Nat /\ \A m \in N : a <= m /\ m <= b
  BY <1>6, <1>7, <1>8, MaxOf, MinOf
<1>10. PICK M : M = (a .. b) \ N
  OBVIOUS
<1>11. M = Missing(N) /\ M \subseteq Nat
  BY <1>8, <1>9, <1>10 DEF Missing
<1>12. IsFiniteSet(M)
  <2>1. IsFiniteSet(a .. b)
    BY <1>9, FS_Interval
  <2>2. M \subseteq a .. b
    BY <1>10
  <2>. QED
    BY <2>1, <2>2, FS_Subset
<1>13. PICK q : q = Sorted(M, Below)
  OBVIOUS
<1>14. q \in Seq(M) /\ Range(q) = M /\ Ascends(q, Len(q))
  BY <1>11, <1>12, <1>13, NumbersAscend
<1>15. q \in Seq(Nat)
  BY <1>11, <1>14
<1>16. PICK r : r = CompressRanges(q)
  OBVIOUS
<1>17. Ranges(r, M)
  BY <1>14, <1>15, <1>16, CompressRangesType
<1>18. GapReport(u) = r
  BY <1>4, <1>11, <1>13, <1>16 DEF GapReport
<1>19. PICK l : l = Len(r) /\ l \in Nat /\ DOMAIN r = 1 .. l
                /\ \A i \in 1 .. l : r[i].from \in Nat /\ r[i].to \in Nat
  <2>1. r \in Seq([from: Nat, to: Nat])
    BY <1>17 DEF Ranges, Spans
  <2>2. \A i \in 1 .. Len(r) : r[i] \in [from: Nat, to: Nat]
    BY <2>1, LenProperties, ElementOfSeq
  <2>. QED
    BY <2>1, <2>2, LenProperties
<1>20. ASSUME NEW o \in 0 .. b
       PROVE  (\E i \in DOMAIN r : r[i].from <= o /\ o <= r[i].to) <=> o \notin N /\ \E m \in N : m < o
  <2>1. o \in Nat /\ o <= b
    BY <1>9
  <2>2. (\E i \in DOMAIN r : r[i].from <= o /\ o <= r[i].to) <=> o \in M
    BY <1>17, <2>1 DEF Ranges, Holds
  <2>3. o \in M <=> a <= o /\ o \notin N
    BY <1>9, <1>10, <2>1
  <2>4. o \notin N => (a <= o <=> \E m \in N : m < o)
    <3>1. ASSUME o \notin N, a <= o PROVE \E m \in N : m < o
      BY <1>9, <2>1, <3>1
    <3>2. ASSUME NEW m \in N, m < o PROVE a <= o
      <4>1. a <= m /\ m \in Nat
        BY <1>6, <1>9
      <4>. QED
        BY <1>9, <2>1, <3>2, <4>1
    <3>. QED
      BY <3>1, <3>2
  <2>. QED
    BY <2>2, <2>3, <2>4
<1>21. ASSUME NEW i \in DOMAIN r
       PROVE  r[i].from <= r[i].to /\ r[i].to <= b /\ (i > 1 => r[i].from > r[i - 1].to + 1)
  <2>1. PICK o : o = r[i].to /\ o \in Nat /\ r[i].from <= o
    BY <1>17, <1>19 DEF Ranges
  <2>2. Holds(r, o)
    BY <2>1 DEF Holds
  <2>3. o \in M
    BY <1>17, <2>1, <2>2 DEF Ranges
  <2>4. o <= b
    BY <1>9, <1>10, <2>1, <2>3
  <2>5. i > 1 => r[i].from > r[i - 1].to + 1
    BY <1>17 DEF Ranges
  <2>. QED
    BY <2>1, <2>4, <2>5
<1>22. Gaps(r, N)
  BY <1>8, <1>20, <1>21 DEF Gaps
<1>. QED
  BY <1>4, <1>18, <1>22
-----------------------------------------------------------------------------
(* The placements of a unit are pieces of it that follow each other.       *)
Pieces(q, S, b, m, lo, hi, e) ==
  /\ Chain(lo, hi, m, e)
  /\ b \in Nat /\ S = b + 1 .. b + m
  /\ \A k \in 1 .. m : lo[k] = q[b + k].from /\ hi[k] = q[b + k].to

LEMMA CoverIsChain ==
  ASSUME NEW q \in Seq(PlacementType), NEW S, S # {}, S \subseteq DOMAIN q,
         NEW e, Covers(q, S, e), \A i \in S : q[i].from <= q[i].to
  PROVE  \E b, m, lo, hi : Pieces(q, S, b, m, lo, hi, e)
<1>1. PICK l, m : l = Len(q) /\ m = Cardinality(S)
  OBVIOUS
<1>2. l \in Nat /\ DOMAIN q = 1 .. l /\ \A i \in 1 .. l : q[i] \in PlacementType
  BY <1>1, LenProperties, ElementOfSeq
<1>3. m \in Nat /\ m # 0
  <2>1. IsFiniteSet(1 .. l)
    BY <1>2, FS_Interval
  <2>2. IsFiniteSet(S)
    BY <1>2, <2>1, FS_Subset
  <2>. QED
    BY <1>1, <2>2, FS_CardinalityType, FS_EmptySet
<1>4. PICK b \in 0 .. l :
        /\ S = b + 1 .. b + m
        /\ q[b + 1].from = 0 /\ q[b + m].to = e
        /\ \A k \in 1 .. m : k > 1 => q[b + k].from = q[b + k - 1].to
  BY <1>1 DEF Covers
<1>5. b \in Nat /\ \A k \in 1 .. m : b + k \in S /\ b + k \in 1 .. l
  BY <1>2, <1>3, <1>4
<1>6. PICK lo, hi : /\ lo = [k \in 1 .. m |-> q[b + k].from]
                    /\ hi = [k \in 1 .. m |-> q[b + k].to]
  OBVIOUS
<1>7. \A k \in 1 .. m : lo[k] = q[b + k].from /\ hi[k] = q[b + k].to
  BY <1>6
<1>8. \A k \in 1 .. m : lo[k] \in Nat /\ hi[k] \in Nat /\ lo[k] <= hi[k]
  <2> SUFFICES ASSUME NEW k \in 1 .. m PROVE lo[k] \in Nat /\ hi[k] \in Nat /\ lo[k] <= hi[k]
    OBVIOUS
  <2>1. PICK i : i = b + k /\ i \in S /\ i \in 1 .. l
    BY <1>5
  <2>2. q[i].from \in Nat /\ q[i].to \in Nat /\ q[i].from <= q[i].to
    BY <1>2, <2>1 DEF PlacementType
  <2>. QED
    BY <1>7, <2>1, <2>2
<1>9. \A k \in 1 .. m : k > 1 => lo[k] = hi[k - 1]
  <2> SUFFICES ASSUME NEW k \in 1 .. m, k > 1 PROVE lo[k] = hi[k - 1]
    OBVIOUS
  <2>1. k - 1 \in 1 .. m /\ b + (k - 1) = b + k - 1
    BY <1>3, <1>5
  <2>. QED
    BY <1>4, <1>7, <2>1
<1>10. lo[1] = 0 /\ hi[m] = e
  BY <1>3, <1>4, <1>7
<1>11. Chain(lo, hi, m, e)
  BY <1>3, <1>8, <1>9, <1>10 DEF Chain
<1>. QED
  BY <1>4, <1>5, <1>7, <1>11 DEF Pieces

(* Each frame of a sequence is in one of them. *)
LEMMA FramePlacedOnce ==
  ASSUME NEW q \in Seq(PlacementType), NEW S, S \subseteq DOMAIN q,
         NEW e, Covers(q, S, e), \A i \in S : q[i].from <= q[i].to,
         NEW k \in Nat, k > 0, k <= e
  PROVE  Cardinality({i \in S : q[i].from < k /\ k <= q[i].to}) = 1
<1>1. S # {}
  <2>1. S = {} => e = 0
    BY DEF Covers
  <2>. QED
    BY <2>1
<1>2. PICK b, m, lo, hi : Pieces(q, S, b, m, lo, hi, e)
  BY <1>1, CoverIsChain
<1>3. /\ Chain(lo, hi, m, e) /\ m \in Nat /\ b \in Nat /\ S = b + 1 .. b + m
      /\ \A j \in 1 .. m : lo[j] = q[b + j].from /\ hi[j] = q[b + j].to
  BY <1>2 DEF Pieces, Chain
<1>4. PICK j \in 1 .. m : OnlyIn(lo, hi, m, k, j)
  BY <1>3, ChainHolds
<1>5. ASSUME NEW i \in S PROVE q[i].from < k /\ k <= q[i].to <=> i = b + j
  <2>1. i \in b + 1 .. b + m /\ m \in Nat /\ b \in Nat
    BY <1>3
  <2>2. PICK h \in 1 .. m : i = b + h
    <3>1. i - b \in 1 .. m /\ i = b + (i - b)
      BY <2>1
    <3>. QED
      BY <3>1
  <2>3. q[i].from < k /\ k <= q[i].to <=> h = j
    BY <1>3, <1>4, <2>2 DEF OnlyIn
  <2>. QED
    BY <1>3, <1>4, <2>2, <2>3
<1>6. b + j \in S
  BY <1>3
<1>7. {i \in S : q[i].from < k /\ k <= q[i].to} = {b + j}
  BY <1>5, <1>6
<1>. QED
  BY <1>7, FS_Singleton

(* The sizes of the pieces of a file add up to its size. *)
LEMMA FilePlaced ==
  ASSUME NEW q \in Seq(PlacementType), NEW S, S \subseteq DOMAIN q,
         NEW e, Covers(q, S, e), \A i \in S : Measures(q[i], "file")
  PROVE  SumFunctionOnSet([i \in DOMAIN q |-> q[i].size], S) = e
<1>1. PICK f : f = [i \in DOMAIN q |-> q[i].size]
  OBVIOUS
<1>2. \A i \in S : f[i] = q[i].size /\ q[i].from <= q[i].to /\ q[i].from + q[i].size = q[i].to
  BY <1>1 DEF Measures
<1>3. DOMAIN q = 1 .. Len(q) /\ \A i \in DOMAIN q : q[i] \in PlacementType
  BY LenProperties, ElementOfSeq
<1>4. \A i \in S : f[i] \in Nat
  BY <1>2, <1>3 DEF PlacementType
<1>5. CASE S = {}
  <2>1. e = 0
    BY <1>5 DEF Covers
  <2>2. IsFiniteSet(S)
    BY <1>5, FS_EmptySet
  <2>. QED
    BY <1>1, <1>4, <1>5, <2>1, <2>2, SumPick
<1>6. CASE S # {}
  <2>1. PICK b, m, lo, hi : Pieces(q, S, b, m, lo, hi, e)
    BY <1>2, <1>6, CoverIsChain
  <2>2. /\ Chain(lo, hi, m, e) /\ m \in Nat /\ b \in Nat /\ S = b + 1 .. b + m
        /\ \A j \in 1 .. m : lo[j] = q[b + j].from /\ hi[j] = q[b + j].to
    BY <2>1 DEF Pieces, Chain
  <2>3. ASSUME NEW k \in 1 .. m PROVE f[b + k] \in Nat /\ lo[k] + f[b + k] = hi[k]
    <3>1. PICK i : i = b + k /\ i \in S
      BY <2>2
    <3>. QED
      BY <1>2, <1>4, <2>2, <3>1
  <2>4. SumFunctionOnSet(f, b + 1 .. b + m) = e
    <3>1. Lengths(lo, hi, m, b, f)
      BY <2>3 DEF Lengths
    <3>. QED
      BY <2>2, <3>1, ChainSum
  <2>. QED
    BY <1>1, <2>2, <2>4
<1>. QED
  BY <1>5, <1>6
-----------------------------------------------------------------------------
(* The job plans what was scanned from the tree it was given.              *)
FromTree == tree \in Trees /\ found = Scan(tree) /\ units = Views(found)

(* The inductive invariant of the plan. *)
PInv == IInv /\ LInv /\ Measured /\ FromTree

(* The allocator does not change what it was asked. *)
LEMMA InputsStay == [Next]_vars => UNCHANGED inputs
BY DEF Next, vars, NoPin, PinOpen, PinScratch, Finish, PlaceWhole, OpenScratch, StartSpan,
       TakeFrame, ClosePart, NextTape, EndSpan, StartSplit, SplitChunk, EndSplit, Fail

LEMMA NothingFoundKeeps ==
  ASSUME PInv, NothingFound
  PROVE  IInv' /\ LInv' /\ Measured'
<1>. USE DEF inputs, pool, cursor
<1>t. \A t \in Tape : /\ shelf[t].used \in Nat /\ used[t] \in Nat /\ Capacity[t] \in Nat
  BY CartridgeShape, CapacityType DEF TypeOK, IInv, PInv
<1>1. IInv'
  <2>1. TypeOK'
    BY DEF NothingFound, TypeOK, IInv, PInv
  <2>2. SpanFits' /\ NoOverflow'
    BY <1>t DEF NothingFound, SpanFits, NoOverflow, TypeOK, IInv, PInv
  <2>3. ListsSound'
    BY SamePool DEF NothingFound, ListsSound, IInv, PInv
  <2>. QED
    BY <2>1, <2>2, <2>3 DEF IInv
<1>2. LInv'
  <2>1. UNCHANGED <<shelf, units, greedy, unit, placements, used, open, scratch, parts>>
        /\ step' = "failed"
    BY DEF NothingFound
  <2>2. PartsChained' /\ SplitForced'
    BY <2>1 DEF PartsChained, SplitForced
  <2>3. PoolKept'
    BY <2>1 DEF PInv, LInv, PoolKept, Usable, Eligible
  <2>. QED
    BY <2>1, <2>2, <2>3, NothingReserved DEF PInv
<1>3. Measured'
  <2>1. UNCHANGED <<units, unit, placements>> /\ step' = "failed"
    BY DEF NothingFound
  <2>2. PartsMeasured'
    BY <2>1 DEF PartsMeasured
  <2>. QED
    BY <2>1, <2>2, MeasuredKept DEF PInv
<1>. QED
  BY <1>1, <1>2, <1>3

(* The invariant of the plan holds throughout. *)
THEOREM PlanInvariance == PlanSpec => []PInv
<1>1. PlanInit => PInv
  BY InitIInv, InitLInv, InitMeasured DEF PlanInit, PInv, FromTree
<1>2. PInv /\ [PlanNext]_<<vars, tree, found>> => PInv'
  <2> SUFFICES ASSUME PInv, [PlanNext]_<<vars, tree, found>> PROVE PInv'
    OBVIOUS
  <2>1. NothingFound \/ [Next]_vars
    BY DEF PlanNext, Allocate
  <2>2. UNCHANGED <<units, tree, found>>
    <3>1. UNCHANGED <<tree, found>>
      BY DEF PlanNext
    <3>2. UNCHANGED units
      BY <2>1, InputsStay DEF inputs, NothingFound
    <3>. QED
      BY <3>1, <3>2
  <2>3. FromTree'
    BY <2>2 DEF PInv, FromTree, Views, Viewed, Bytes
  <2>4. IInv' /\ LInv' /\ Measured'
    BY <2>1, NothingFoundKeeps, StepIInv, StepLInv, StepMeasured DEF PInv
  <2>. QED
    BY <2>3, <2>4 DEF PInv
<1>. QED
  BY <1>1, <1>2, PTL DEF PlanSpec

(* The trees have the shape that the scan asks for. *)
LEMMA TreesAreTrees ==
  ASSUME NEW t \in Trees
  PROVE  TreeShape(t)
<1>1. ASSUME NEW p \in DOMAIN t PROVE Named(t[p]) /\ Patterned(t[p])
  BY TreesShape DEF Named, Patterned
<1>. QED
  BY <1>1, TreesShape DEF TreeShape

(* What the allocator sees of the units of a scan. *)
LEMMA ViewsType ==
  ASSUME NEW E, \A e \in E : e.size \in Nat, NEW q \in Seq(UnitOf(E)),
         \A u \in DOMAIN q : UnitSound(q[u]), NEW u \in DOMAIN q
  PROVE  /\ DOMAIN Views(q) = DOMAIN q /\ Len(Views(q)) = Len(q)
         /\ Views(q)[u].kind = q[u].kind
         /\ q[u].kind = "sequence" => Len(Views(q)[u].frames) = Len(q[u].files)
         /\ q[u].kind = "file" => Views(q)[u].size = q[u].files[1].size
<1>1. PICK v, f, n : v = q[u] /\ f = v.files /\ n = Len(f)
  OBVIOUS
<1>2. v \in UnitOf(E) /\ UnitSound(v) /\ DOMAIN q = 1 .. Len(q) /\ Len(q) \in Nat
  BY <1>1, LenProperties, ElementOfSeq
<1>3. f \in Seq(E)
  BY <1>1, <1>2 DEF UnitOf
<1>4. n \in Nat /\ DOMAIN f = 1 .. n /\ \A i \in 1 .. n : f[i] \in E
  BY <1>1, <1>3, LenProperties, ElementOfSeq
<1>5. DOMAIN Views(q) = DOMAIN q /\ Len(Views(q)) = Len(q) /\ Views(q)[u] = Viewed(v)
  BY <1>1, <1>2 DEF Views
<1>6. PICK b : b = Bytes(v)
  OBVIOUS
<1>7. DOMAIN b = 1 .. n /\ Len(b) = n /\ \A i \in 1 .. n : b[i] = f[i].size
  BY <1>1, <1>4, <1>6 DEF Bytes
<1>8. Viewed(v).kind = v.kind /\ Viewed(v).size = SumFunctionOnSet(b, 1 .. n)
      /\ (v.kind = "sequence" => Viewed(v).frames = b)
  BY <1>6, <1>7 DEF Viewed, SumFunction
<1>9. ASSUME v.kind = "file" PROVE SumFunctionOnSet(b, 1 .. n) = f[1].size
  <2>1. n = 1
    BY <1>1, <1>2, <1>9 DEF UnitSound
  <2>2. 1 .. n = {} \cup {1} /\ b[1] = f[1].size /\ b[1] \in Nat
    BY <1>4, <1>7, <2>1
  <2>3. SumFunctionOnSet(b, {}) = 0
    BY FS_EmptySet, SumPick
  <2>4. SumFunctionOnSet(b, {} \cup {1}) = b[1] + SumFunctionOnSet(b, {})
    BY <2>2, FS_EmptySet, SumAdd
  <2>5. b[1] + 0 = b[1]
    BY <2>2
  <2>. QED
    BY <2>2, <2>3, <2>4, <2>5, Zenon
<1>. QED
  BY <1>1, <1>5, <1>7, <1>8, <1>9
-----------------------------------------------------------------------------
(* What the scan found: the regular files of the tree, each in one unit.   *)
LEMMA FoundDeals ==
  ASSUME PInv
  PROVE  /\ TreeShape(tree)
         /\ Deals(found, Entries(tree), Archivable(tree))
         /\ \A e \in Entries(tree) : e.size \in Nat /\ e.num \in Nat
<1>1. tree \in Trees /\ found = Scan(tree)
  BY DEF PInv, FromTree
<1>2. TreeShape(tree)
  BY <1>1, TreesAreTrees
<1>3. Deals(Scan(tree), Entries(tree), Archivable(tree))
  BY <1>2, ScanDeals
<1>4. \A e \in Entries(tree) : e.size \in Nat /\ e.num \in Nat
  BY <1>1, TreesShape DEF Entries
<1>. QED
  BY <1>1, <1>2, <1>3, <1>4

(* The files of a unit are regular files of its directory. *)
LEMMA FilesOfDirectory ==
  ASSUME PInv, NEW u \in DOMAIN found
  PROVE  /\ found[u].dir \in Visible(tree) /\ found[u].files # <<>> /\ Once(found[u].files)
         /\ Len(found[u].files) \in Nat /\ DOMAIN found[u].files = 1 .. Len(found[u].files)
         /\ \A k \in DOMAIN found[u].files : found[u].files[k] \in Regular(tree[found[u].dir])
<1>1. PICK E, Y, q : E = Entries(tree) /\ Y = Archivable(tree) /\ q = found
  OBVIOUS
<1>2. Deals(q, E, Y)
  BY <1>1, FoundDeals
<1>3. PICK v, f, p : v = q[u] /\ f = v.files /\ p = v.dir
  OBVIOUS
<1>4. v \in UnitOf(E) /\ UnitSound(v)
  <2>1. q \in Seq(UnitOf(E)) /\ \A w \in DOMAIN q : UnitSound(q[w])
    BY <1>2 DEF Deals
  <2>2. u \in 1 .. Len(q)
    BY <1>1, <2>1, LenProperties
  <2>. QED
    BY <1>1, <1>3, <2>1, <2>2, ElementOfSeq
<1>5. f \in Seq(E) /\ p \in Seq(Nat)
  BY <1>3, <1>4 DEF UnitOf
<1>6. Len(f) \in Nat /\ DOMAIN f = 1 .. Len(f) /\ \A k \in 1 .. Len(f) : f[k] \in E
  BY <1>5, LenProperties, ElementOfSeq
<1>7. ASSUME NEW k \in DOMAIN f PROVE p \in Visible(tree) /\ f[k] \in Regular(tree[p])
  <2>1. PICK y : y = <<p, f[k]>>
    OBVIOUS
  <2>2. y \in FilesOf(E) /\ Has(v, y) /\ y[1] = p /\ y[2] = f[k]
    BY <1>3, <1>5, <1>6, <2>1 DEF FilesOf, Has, Range
  <2>3. y \in Y
    BY <1>1, <1>2, <1>3, <2>2 DEF Deals
  <2>. QED
    BY <1>1, <2>2, <2>3 DEF Archivable
<1>8. f # <<>> /\ Once(f)
  BY <1>3, <1>4 DEF UnitSound
<1>9. 1 \in DOMAIN f
  <2>1. Len(f) # 0
    BY <1>5, <1>8, EmptySeq
  <2>. QED
    BY <1>6, <2>1
<1>. QED
  BY <1>1, <1>3, <1>6, <1>7, <1>8, <1>9

(* Where the file e of the directory p is. *)
HoldersOf(p, e) ==
  {h \in (DOMAIN found) \X (1 .. Cardinality(tree[p])) :
     /\ h[2] \in DOMAIN found[h[1]].files
     /\ found[h[1]].dir = p /\ found[h[1]].files[h[2]] = e}

LEMMA FileFound ==
  ASSUME PInv, NEW p \in Visible(tree), NEW e \in Regular(tree[p])
  PROVE  \E h \in HoldersOf(p, e) : HoldersOf(p, e) = {h}
<1>1. PICK E, Y, q, y : E = Entries(tree) /\ Y = Archivable(tree) /\ q = found /\ y = <<p, e>>
  OBVIOUS
<1>2. Deals(q, E, Y)
  BY <1>1, FoundDeals
<1>3. p \in DOMAIN tree /\ IsFiniteSet(tree[p]) /\ e \in tree[p]
  BY FoundDeals DEF TreeShape, Named, Visible, Regular
<1>4. y \in Y /\ y[1] = p /\ y[2] = e
  <2>1. e \in E
    BY <1>1, <1>3 DEF Entries
  <2>. QED
    BY <1>1, <2>1 DEF Archivable
<1>5. PICK u \in DOMAIN q : Has(q[u], y)
  BY <1>2, <1>4 DEF Deals
<1>6. PICK f, n : f = q[u].files /\ n = Len(f)
  OBVIOUS
<1>7. /\ n \in Nat /\ DOMAIN f = 1 .. n /\ Once(f)
      /\ \A k \in 1 .. n : f[k] \in Regular(tree[q[u].dir])
  BY <1>1, <1>6, FilesOfDirectory
<1>8. q[u].dir = p /\ \E k \in 1 .. n : f[k] = e
  BY <1>4, <1>5, <1>6, <1>7 DEF Has, Range
<1>9. PICK k \in 1 .. n : f[k] = e
  BY <1>8
<1>10. n <= Cardinality(tree[p]) /\ Cardinality(tree[p]) \in Nat
  <2>1. \A i \in 1 .. n : f[i] \in tree[p]
    BY <1>7, <1>8 DEF Regular
  <2>2. PICK g : g = [i \in 1 .. n |-> f[i]]
    OBVIOUS
  <2>3. g \in Injection(1 .. n, tree[p])
    BY <1>7, <2>1, <2>2 DEF Injection, IsInjective, Once
  <2>4. Cardinality(1 .. n) <= Cardinality(tree[p])
    BY <1>3, <2>3, FS_Injection
  <2>5. Cardinality(1 .. n) = n
    BY <1>7, FS_Interval
  <2>. QED
    BY <1>3, <2>4, <2>5, FS_CardinalityType
<1>11. PICK h : h = <<u, k>>
  OBVIOUS
<1>12. h[1] = u /\ h[2] = k /\ k \in 1 .. Cardinality(tree[p])
  BY <1>7, <1>10, <1>11
<1>13. h \in HoldersOf(p, e)
  BY <1>1, <1>6, <1>7, <1>8, <1>9, <1>11, <1>12 DEF HoldersOf
<1>14. ASSUME NEW g \in HoldersOf(p, e) PROVE g = h
  <2>1. /\ g \in (DOMAIN q) \X (1 .. Cardinality(tree[p]))
        /\ g[2] \in DOMAIN q[g[1]].files /\ q[g[1]].dir = p /\ q[g[1]].files[g[2]] = e
    BY <1>1 DEF HoldersOf
  <2>2. PICK v, i : v = g[1] /\ i = g[2] /\ v \in DOMAIN q /\ g = <<v, i>>
    BY <2>1
  <2>3. Has(q[v], y)
    BY <1>4, <2>1, <2>2 DEF Has, Range
  <2>4. v = u
    BY <1>2, <1>4, <1>5, <2>2, <2>3 DEF Deals
  <2>5. i \in DOMAIN f /\ f[i] = f[k]
    BY <1>6, <1>9, <2>1, <2>2, <2>4
  <2>6. i = k
    BY <1>7, <2>5 DEF Once
  <2>. QED
    BY <1>11, <2>2, <2>4, <2>6
<1>. QED
  BY <1>13, <1>14

(* A file of a unit is on the tapes: a frame in one placement, any other   *)
(* byte by byte.                                                           *)
PlacementsOf(u) == {i \in DOMAIN placements : placements[i].unit = u}

LEMMA FileIsPlaced ==
  ASSUME PInv, step = "done", NEW u \in DOMAIN found, NEW k \in DOMAIN found[u].files
  PROVE  IF found[u].kind = "sequence"
         THEN Cardinality({i \in PlacementsOf(u) : placements[i].from < k
                                                   /\ k <= placements[i].to}) = 1
         ELSE SumFunctionOnSet([i \in DOMAIN placements |-> placements[i].size],
                               PlacementsOf(u)) = found[u].files[k].size
<1>1. PICK E, q, v, f : E = Entries(tree) /\ q = found /\ v = q[u] /\ f = v.files
  OBVIOUS
<1>2. PICK w, p, S : w = units[u] /\ p = placements /\ S = PlacementsOf(u)
  OBVIOUS
<1>3. q \in Seq(UnitOf(E)) /\ (\A i \in DOMAIN q : UnitSound(q[i])) /\ \A e \in E : e.size \in Nat
  BY <1>1, FoundDeals DEF Deals
<1>4. units = Views(q)
  BY <1>1 DEF PInv, FromTree
<1>5. /\ Len(units) = Len(q) /\ w.kind = v.kind
      /\ v.kind = "sequence" => Len(w.frames) = Len(f)
      /\ v.kind = "file" => w.size = f[1].size
  BY <1>1, <1>2, <1>3, <1>4, ViewsType
<1>6. /\ v.kind \in {"sequence", "file"} /\ Len(q) \in Nat /\ u \in 1 .. Len(q)
      /\ UnitSound(v)
  <2>1. u \in 1 .. Len(q) /\ Len(q) \in Nat
    BY <1>1, <1>3, LenProperties
  <2>2. v \in UnitOf(E)
    BY <1>1, <1>3, <2>1, ElementOfSeq
  <2>. QED
    BY <1>1, <1>3, <2>1, <2>2 DEF UnitOf
<1>7. Len(f) \in Nat /\ k \in 1 .. Len(f)
  BY <1>1, FilesOfDirectory
<1>8. Covers(p, S, IF w.kind = "sequence" THEN Len(w.frames) ELSE w.size)
  <2>1. unit > Len(units) /\ unit \in Nat
    BY DEF PInv, Measured, AllPassed, IInv, TypeOK
  <2>2. u \in 1 .. unit - 1
    BY <1>5, <1>6, <2>1
  <2>3. Covered(u)
    BY <2>2 DEF PInv, LInv, Filed
  <2>. QED
    BY <1>2, <2>3 DEF Covered, PlacementsOf
<1>9. p \in Seq(PlacementType) /\ S \subseteq DOMAIN p
  BY <1>2 DEF PlacementsOf, PInv, IInv, TypeOK
<1>10. \A i \in S : Measures(p[i], v.kind)
  BY <1>2, <1>5 DEF PlacementsOf, PInv, Measured, PlacementsMeasured
<1>11. CASE v.kind = "sequence"
  <2>1. Covers(p, S, Len(f))
    BY <1>5, <1>8, <1>11
  <2>2. \A i \in S : p[i].from <= p[i].to
    BY <1>10 DEF Measures
  <2>3. k \in Nat /\ k > 0 /\ k <= Len(f)
    BY <1>7
  <2>4. Cardinality({i \in S : p[i].from < k /\ k <= p[i].to}) = 1
    BY <1>9, <2>1, <2>2, <2>3, FramePlacedOnce
  <2>. QED
    BY <1>1, <1>2, <1>11, <2>4
<1>12. CASE v.kind = "file"
  <2>1. Covers(p, S, f[1].size)
    BY <1>5, <1>8, <1>12
  <2>2. \A i \in S : Measures(p[i], "file")
    BY <1>10, <1>12
  <2>3. SumFunctionOnSet([i \in DOMAIN p |-> p[i].size], S) = f[1].size
    BY <1>9, <2>1, <2>2, FilePlaced
  <2>4. k = 1
    BY <1>1, <1>6, <1>7, <1>12 DEF UnitSound
  <2>. QED
    BY <1>1, <1>2, <1>12, <2>3, <2>4
<1>. QED
  BY <1>6, <1>11, <1>12

LEMMA EveryFileIsPlacedOnce == PInv => EveryFileOnce
<1>1. SUFFICES ASSUME PInv, step = "done" PROVE EveryFileOnce
  BY DEF EveryFileOnce
<1>2. Range(Walk(tree)) = Visible(tree)
  <2>1. TreeShape(tree)
    BY <1>1, FoundDeals
  <2>2. DOMAIN tree \subseteq Seq(Nat) /\ IsFiniteSet(DOMAIN tree)
    BY <2>1 DEF TreeShape
  <2>. QED
    BY <2>2, WalkType
<1>3. ASSUME NEW p \in Visible(tree), NEW e \in Regular(tree[p])
      PROVE  \E h \in HoldersOf(p, e) :
               /\ HoldersOf(p, e) = {h}
               /\ IF found[h[1]].kind = "sequence"
                  THEN Cardinality({i \in PlacementsOf(h[1]) : placements[i].from < h[2]
                                                               /\ h[2] <= placements[i].to}) = 1
                  ELSE SumFunctionOnSet([i \in DOMAIN placements |-> placements[i].size],
                                        PlacementsOf(h[1])) = e.size
  <2>1. PICK h \in HoldersOf(p, e) : HoldersOf(p, e) = {h}
    BY <1>1, FileFound
  <2>2. PICK u, k : u = h[1] /\ k = h[2]
    OBVIOUS
  <2>3. u \in DOMAIN found /\ k \in DOMAIN found[u].files /\ found[u].files[k] = e
    BY <2>1, <2>2 DEF HoldersOf
  <2>4. IF found[u].kind = "sequence"
        THEN Cardinality({i \in PlacementsOf(u) : placements[i].from < k
                                                  /\ k <= placements[i].to}) = 1
        ELSE SumFunctionOnSet([i \in DOMAIN placements |-> placements[i].size],
                              PlacementsOf(u)) = e.size
    BY <1>1, <2>3, FileIsPlaced
  <2>. QED
    BY <2>1, <2>2, <2>4
<1>4. ASSUME NEW u \in DOMAIN found
      PROVE  Range(found[u].files) \subseteq Regular(tree[found[u].dir])
  BY <1>1, <1>4, FilesOfDirectory DEF Range
<1>5. EveryFileOnce <=>
        (step = "done" =>
           /\ \A p \in Range(Walk(tree)) : \A e \in Regular(tree[p]) :
                \E h \in HoldersOf(p, e) :
                  /\ HoldersOf(p, e) = {h}
                  /\ IF found[h[1]].kind = "sequence"
                     THEN Cardinality({i \in PlacementsOf(h[1]) : placements[i].from < h[2]
                                                     /\ h[2] <= placements[i].to}) = 1
                     ELSE SumFunctionOnSet([i \in DOMAIN placements |-> placements[i].size],
                                           PlacementsOf(h[1])) = e.size
           /\ \A u \in DOMAIN found : Range(found[u].files) \subseteq Regular(tree[found[u].dir]))
  BY DEF EveryFileOnce, HoldersOf, PlacementsOf
<1>. QED
  BY <1>2, <1>3, <1>4, <1>5, Zenon

(* When the plan is made, every regular file of the tree that is not       *)
(* hidden is in one unit and on the tapes once; what is reserved there is  *)
(* what is placed, and the parts of every unit cover it.                   *)
THEOREM PlanIsComplete == PlanSpec => []PlanAddsUp
<1>1. PInv => PlanAddsUp
  BY LayoutSound, EveryFileIsPlacedOnce DEF PInv, PlanAddsUp
<1>. QED
  BY <1>1, PlanInvariance, PTL

(* The gap report of a sequence is true: it names the frame numbers that   *)
(* are missing between the first and the last, in ranges that do not touch.*)
THEOREM GapReportsAreTrue == PlanSpec => []GapsAreTrue
<1>1. PInv => GapsAreTrue
  <2>1. SUFFICES ASSUME PInv PROVE GapsAreTrue
    OBVIOUS
  <2>2. ASSUME NEW u \in DOMAIN found PROVE Gaps(GapReport(found[u]), FrameNumbers(found[u]))
    <3>1. PICK E, v : E = Entries(tree) /\ v = found[u]
      OBVIOUS
    <3>2. v \in UnitOf(E) /\ \A e \in E : e.num \in Nat
      <4>1. found \in Seq(UnitOf(E)) /\ \A e \in E : e.num \in Nat
        BY <2>1, <3>1, FoundDeals DEF Deals
      <4>2. u \in 1 .. Len(found)
        BY <4>1, LenProperties
      <4>. QED
        BY <3>1, <4>1, <4>2, ElementOfSeq
    <3>3. v.files # <<>>
      BY <2>1, <3>1, FilesOfDirectory
    <3>. QED
      BY <3>1, <3>2, <3>3, GapReportType
  <2>. QED
    BY <2>2 DEF GapsAreTrue, Gaps
<1>. QED
  BY <1>1, PlanInvariance, PTL

(* What holds of any layout holds of the plan: types, no tape over-filled, *)
(* only scratch tapes formatted, greedy jobs isolated, no needless split.  *)
THEOREM PlanIsSafe ==
  PlanSpec => [](TypeOK /\ NoOverflow /\ FormatsScratchOnly /\ GreedyIsolation /\ NoNeedlessSplit)
<1>1. PInv => TypeOK /\ NoOverflow /\ NoNeedlessSplit
  BY DEF PInv, IInv, LInv
<1>2. PInv => FormatsScratchOnly /\ GreedyIsolation
  BY PlacementsAreRight DEF PInv, FormatsScratchOnly, GreedyIsolation
<1>. QED
  BY <1>1, <1>2, PlanInvariance, PTL
=============================================================================
