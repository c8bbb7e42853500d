--------------------------- MODULE TapeAllocator ---------------------------
(***************************************************************************)
(* The tape allocator: app/services/spanning.py.                           *)
(*                                                                         *)
(* TapeAllocator takes a view of the tapes present in the library and the  *)
(* units a source was scanned into, and lays the units out: whole on the   *)
(* first tape that fits, else split over what room is left.  One step here *)
(* is one turn of a loop there.                                            *)
(***************************************************************************)
EXTENDS Naturals, Sequences, FiniteSets, Functions

CONSTANTS
  Tape,       \* the ids of the tapes in the library
  Capacity,   \* TapeView.capacity_bytes of each
  Source,     \* the source machines
  Cartridge,  \* the catalogue states considered: [status, used, owner]
  Batch       \* the scans considered: sequences of units

NoSource == "none"
NoTape == 0

Unit == [kind: {"sequence", "file"}, frames: Seq(Nat), size: Nat]

ASSUME TapeIds == Tape \subseteq Nat \ {NoTape}
ASSUME CapacityType == Capacity \in [Tape -> Nat]
ASSUME SourceNames == NoSource \notin Source
ASSUME CartridgeShape ==
  Cartridge \subseteq [status: {"active", "scratch", "absent"}, used: Nat,
                       owner: Source \cup {NoSource}]
ASSUME BatchShape ==
  \A b \in Batch : b \in Seq(Unit)
ASSUME SequencesHaveFrames ==
  \A b \in Batch : \A k \in DOMAIN b :
    b[k].kind = "sequence" => /\ b[k].frames # <<>>
                              /\ b[k].size = SumFunction(b[k].frames)

VARIABLES
  shelf,        \* the catalogue rows the views were made from
  units,        \* the argument of allocate
  greedy,       \* self.greedy_source, NoSource in standard mode
  target,       \* target_barcode, NoTape without one
  used,         \* TapeView.used_bytes
  owner,        \* TapeView.dedicated_source_machine
  fresh,        \* the tapes whose view says needs_format
  open,         \* self._open
  scratch,      \* self._scratch
  step,         \* where the allocator is
  unit,         \* the index of the unit being placed
  at,           \* the tape being filled
  first, next,  \* the frames first .. next - 1 are in buf; first is offset
  load,         \* buf_size
  parts,        \* the parts of the unit laid out so far
  placements

inputs == <<shelf, units, greedy, target>>
pool   == <<open, scratch, owner, fresh>>
cursor == <<at, first, next, load, parts>>
vars == <<inputs, pool, used, step, unit, cursor, placements>>

Current == units[unit]
-----------------------------------------------------------------------------
(* The pool of tapes.                                                      *)

(* TapeView.free_bytes. *)
Free(t) == IF used[t] < Capacity[t] THEN Capacity[t] - used[t] ELSE 0

(* The first open tape with that much room, none or one; and a variant     *)
(* that asks of a tape only that it is not full.                           *)
FirstWithRoom(need) ==
  {open[i] : i \in {i \in DOMAIN open :
                      Free(open[i]) > 0 /\ \A j \in 1 .. i - 1 : Free(open[j]) = 0}}

FirstThatFits(need) ==
  {open[i] : i \in {i \in DOMAIN open :
                      /\ Free(open[i]) >= need
                      /\ \A j \in 1 .. i - 1 : Free(open[j]) < need}}

(* The active tapes the job may write on; and a variant blind to owners. *)
EligibleToAll(s, g) == {t \in Tape : s[t].status = "active"}

Eligible(s, g) ==
  {t \in Tape : s[t].status = "active" /\ (g # NoSource => s[t].owner = g)}

(* The lists that name each tape of S once. *)
Listings(S) == {q \in UNION {[1 .. n -> S] : n \in 0 .. Cardinality(S)} :
                  IsInjective(q) /\ Range(q) = S}

(* Rows come in the order of their ids; standard mode then puts the        *)
(* fullest tape first.                                                     *)
FullestFirst(q, s, g) ==
  \A i, j \in DOMAIN q : i < j =>
    IF g = NoSource /\ s[q[i]].used # s[q[j]].used
    THEN s[q[i]].used > s[q[j]].used
    ELSE q[i] < q[j]

(* The list q without its i-th entry. *)
Drop(q, i) == SubSeq(q, 1, i - 1) \o SubSeq(q, i + 1, Len(q))

(* A scratch tape leaves the pile: it must be formatted, and a greedy job  *)
(* makes it its own.                                                       *)
Opens(i) ==
  /\ scratch' = Drop(scratch, i)
  /\ fresh' = fresh \cup {scratch[i]}
  /\ owner' = IF greedy # NoSource /\ owner[scratch[i]] = NoSource
              THEN [owner EXCEPT ![scratch[i]] = greedy] ELSE owner
-----------------------------------------------------------------------------
(* _pin_target: the requested tape is tried before any other.              *)

NoPin ==
  /\ step = "pin"
  /\ target = NoTape
  /\ step' = "next"
  /\ UNCHANGED <<inputs, pool, used, unit, cursor, placements>>

PinOpen ==
  /\ step = "pin"
  /\ \E i \in DOMAIN open :
       /\ open[i] = target
       /\ open' = <<target>> \o Drop(open, i)
  /\ step' = "next"
  /\ UNCHANGED <<inputs, scratch, owner, fresh, used, unit, cursor, placements>>

PinScratch ==
  /\ step = "pin"
  /\ \E i \in DOMAIN scratch :
       /\ scratch[i] = target
       /\ Opens(i)
       /\ open' = <<target>> \o open
  /\ step' = "next"
  /\ UNCHANGED <<inputs, used, unit, cursor, placements>>
-----------------------------------------------------------------------------
(* Placing a unit whole: _tape_that_fits.                                  *)

(* allocate has laid out every unit. *)
Finish ==
  /\ step = "next"
  /\ unit > Len(units)
  /\ step' = "done"
  /\ UNCHANGED <<inputs, pool, used, unit, cursor, placements>>

Placement(p, i, n) ==
  [unit |-> unit, part |-> i, parts |-> n, tape |-> p.tape, from |-> p.from,
   to |-> p.to, size |-> p.size, needsFormat |-> p.tape \in fresh]

(* What the parts of the current unit are counted in. *)
Extent == IF Current.kind = "sequence" THEN Len(Current.frames) ELSE Current.size

PlaceWhole ==
  /\ step = "next"
  /\ unit <= Len(units)
  /\ \E t \in FirstThatFits(Current.size) :
       /\ used' = [used EXCEPT ![t] = @ + Current.size]
       /\ placements' = Append(placements,
            Placement([tape |-> t, from |-> 0, to |-> Extent,
                       size |-> Current.size], 0, 1))
  /\ unit' = unit + 1
  /\ UNCHANGED <<inputs, pool, step, cursor>>

(* No open tape fits: _next_fresh_tape, and _tape_that_fits looks again. *)
OpenScratch ==
  /\ step = "next"
  /\ unit <= Len(units)
  /\ FirstThatFits(Current.size) = {}
  /\ scratch # <<>>
  /\ Opens(1)
  /\ open' = Append(open, scratch[1])
  /\ UNCHANGED <<inputs, used, step, unit, cursor, placements>>
-----------------------------------------------------------------------------
(* Splitting a unit no tape can hold.  By now every scratch tape is open,  *)
(* so where the code calls _next_fresh_tape it raises: see Fail.           *)

(* The tapes cannot take the unit whole; and a version that splits before  *)
(* it has looked at the scratch tapes.                                     *)
MustSplitSoon ==
  step = "next" /\ unit <= Len(units) /\ FirstThatFits(Current.size) = {}

MustSplit ==
  /\ step = "next"
  /\ unit <= Len(units)
  /\ FirstThatFits(Current.size) = {}
  /\ scratch = <<>>

(* _current_tape; and a version that may come back with None. *)
StartSpanOnNone ==
  /\ MustSplit
  /\ Current.kind = "sequence"
  /\ at' \in FirstThatFits(1) \cup {t \in {NoTape} : FirstThatFits(1) = {}}
  /\ first' = 0 /\ next' = 0 /\ load' = 0 /\ parts' = <<>>
  /\ step' = "span"
  /\ UNCHANGED <<inputs, pool, used, unit, placements>>

StartSpan ==
  /\ MustSplit
  /\ Current.kind = "sequence"
  /\ at' \in FirstThatFits(1)
  /\ first' = 0 /\ next' = 0 /\ load' = 0 /\ parts' = <<>>
  /\ step' = "span"
  /\ UNCHANGED <<inputs, pool, used, unit, placements>>

StartSplit ==
  /\ MustSplit
  /\ Current.kind = "file"
  /\ first' = 0 /\ next' = 0 /\ load' = 0 /\ parts' = <<>>
  /\ step' = "split"
  /\ UNCHANGED <<inputs, pool, used, unit, at, placements>>

(* The frame the loop is at. *)
AtFrame == step = "span" /\ next < Len(Current.frames)
Frame == Current.frames[next + 1]

Part(t, from, to, size) == [tape |-> t, from |-> from, to |-> to, size |-> size]

(* The frame goes into the buffer. *)
TakeFrame ==
  /\ AtFrame
  /\ Frame <= Capacity[at]
  /\ load + Frame <= Free(at)
  /\ next' = next + 1
  /\ load' = load + Frame
  /\ UNCHANGED <<inputs, pool, used, step, unit, at, first, parts, placements>>

(* The frame does not fit behind the buffer, which becomes a part.         *)
ClosePart ==
  /\ AtFrame
  /\ Frame <= Capacity[at]
  /\ first < next
  /\ load + Frame > Free(at)
  /\ parts' = Append(parts, Part(at, first, next, load))
  /\ used' = [used EXCEPT ![at] = @ + load]
  /\ first' = next
  /\ load' = 0
  /\ UNCHANGED <<inputs, pool, step, unit, at, next, placements>>

(* The buffer is empty and the tape too full: _next_tape_with_space; and a *)
(* version that asks, like _current_tape, for any room at all.             *)
NextTapeWithRoom ==
  /\ AtFrame
  /\ Frame <= Capacity[at]
  /\ first = next
  /\ Frame > Free(at)
  /\ at' \in FirstThatFits(1)
  /\ UNCHANGED <<inputs, pool, used, step, unit, first, next, load, parts,
                 placements>>

NextTape ==
  /\ AtFrame
  /\ Frame <= Capacity[at]
  /\ first = next
  /\ Frame > Free(at)
  /\ at' \in FirstThatFits(Frame)
  /\ UNCHANGED <<inputs, pool, used, step, unit, first, next, load, parts,
                 placements>>

(* The last buffer is a part too, and the parts are the placements. *)
EndSpan ==
  /\ step = "span"
  /\ next = Len(Current.frames)
  /\ LET all == Append(parts, Part(at, first, next, load))
     IN placements' = placements \o
          [i \in 1 .. Len(all) |-> Placement(all[i], i - 1, Len(all))]
  /\ used' = [used EXCEPT ![at] = @ + load]
  /\ unit' = unit + 1
  /\ step' = "next"
  /\ UNCHANGED <<inputs, pool, cursor>>

(* One piece of a file: as much of the rest as the next tape takes.        *)
SplitChunk ==
  /\ step = "split"
  /\ first < Current.size
  /\ \E t \in FirstThatFits(1) :
       LET rest == Current.size - first
           take == IF Free(t) < rest THEN Free(t) ELSE rest
       IN /\ first' = first + take
          /\ parts' = Append(parts, Part(t, first, first + take, take))
          /\ used' = [used EXCEPT ![t] = @ + take]
  /\ UNCHANGED <<inputs, pool, step, unit, at, next, load, placements>>

EndSplit ==
  /\ step = "split"
  /\ first = Current.size
  /\ placements' = placements \o
       [i \in 1 .. Len(parts) |-> Placement(parts[i], i - 1, Len(parts))]
  /\ unit' = unit + 1
  /\ step' = "next"
  /\ UNCHANGED <<inputs, pool, used, cursor>>

(* AllocationError. *)
TargetMissing ==
  /\ step = "pin"
  /\ target # NoTape
  /\ target \notin Range(open) \cup Range(scratch)

OutOfTape ==
  \/ MustSplit /\ Current.kind = "sequence" /\ FirstThatFits(1) = {}
  \/ AtFrame /\ Frame > Capacity[at]
  \/ AtFrame /\ first = next /\ Frame > Free(at) /\ FirstThatFits(Frame) = {}
  \/ step = "split" /\ first < Current.size /\ FirstThatFits(1) = {}

Fail ==
  /\ TargetMissing \/ OutOfTape
  /\ step' = "failed"
  /\ UNCHANGED <<inputs, pool, used, unit, cursor, placements>>
-----------------------------------------------------------------------------
Init ==
  /\ shelf \in [Tape -> Cartridge]
  /\ units \in Batch
  /\ greedy \in Source \cup {NoSource}
  /\ target \in Tape \cup {NoTape}
  /\ used = [t \in Tape |-> shelf[t].used]
  /\ owner = [t \in Tape |-> shelf[t].owner]
  /\ fresh = {}
  /\ open \in Listings(Eligible(shelf, greedy))
  /\ FullestFirst(open, shelf, greedy)
  /\ scratch \in Listings({t \in Tape : shelf[t].status = "scratch"})
  /\ \A i, j \in DOMAIN scratch : i < j => scratch[i] < scratch[j]
  /\ step = "pin"
  /\ unit = 1
  /\ at = NoTape
  /\ first = 0 /\ next = 0 /\ load = 0
  /\ parts = <<>>
  /\ placements = <<>>

Next ==
  \/ NoPin \/ PinOpen \/ PinScratch
  \/ Finish \/ PlaceWhole \/ OpenScratch
  \/ StartSpan \/ TakeFrame \/ ClosePart \/ NextTape \/ EndSpan
  \/ StartSplit \/ SplitChunk \/ EndSplit
  \/ Fail

Spec == Init /\ [][Next]_vars

(* allocate runs to its end. *)
FairSpec == Spec /\ WF_vars(Next)
-----------------------------------------------------------------------------
PartType == [tape: Tape, from: Nat, to: Nat, size: Nat]
PlacementType == [unit: Nat, part: Nat, parts: Nat, tape: Tape, from: Nat,
                  to: Nat, size: Nat, needsFormat: BOOLEAN]

(* Every variable has its type. *)
TypeOK ==
  /\ shelf \in [Tape -> Cartridge]
  /\ units \in Batch
  /\ greedy \in Source \cup {NoSource}
  /\ target \in Tape \cup {NoTape}
  /\ used \in [Tape -> Nat]
  /\ owner \in [Tape -> Source \cup {NoSource}]
  /\ fresh \in SUBSET Tape
  /\ open \in Seq(Tape)
  /\ scratch \in Seq(Tape)
  /\ step \in {"pin", "next", "span", "split", "done", "failed"}
  /\ unit \in Nat \ {0}
  /\ at \in IF step = "span" THEN Tape ELSE Tape \cup {NoTape}
  /\ first \in Nat /\ next \in Nat /\ load \in Nat
  /\ parts \in Seq(PartType)
  /\ placements \in Seq(PlacementType)

(* No tape is promised more than it holds, the buffer being filled         *)
(* included, however the units of a job share the tapes (spanning.py:141,  *)
(* :209).  A tape that is over-full to begin with gets nothing more.       *)
NoOverflow ==
  \A t \in Tape :
    LET buffered == IF step = "span" /\ at = t THEN load ELSE 0
    IN \/ used[t] + buffered <= Capacity[t]
       \/ used[t] + buffered = shelf[t].used

(* The bytes on t of the placements of the units that satisfy P. *)
BytesOn(t, P(_)) ==
  LET S == {i \in DOMAIN placements : placements[i].tape = t /\ P(placements[i].unit)}
  IN SumFunctionOnSet([i \in DOMAIN placements |-> placements[i].size], S)

(* What a tape's view says is used is what it held plus what the job will  *)
(* write there: whole units, and parts reserved as they fill               *)
(* (spanning.py:182, :211, :219, :250).                                    *)
ReservedIsPlaced ==
  step \in {"next", "done"} =>
    \A t \in Tape : used[t] = shelf[t].used + BytesOn(t, LAMBDA u : TRUE)

(* The entries S of a layout q follow each other and cover a unit from end *)
(* to end, with no gap and no overlap, numbered from 0.  A file without a  *)
(* byte may have none (spanning.py:247).                                   *)
Covers(q, S, extent) ==
  LET n == Cardinality(S)
  IN IF S = {} THEN extent = 0
     ELSE \E b \in 0 .. Len(q) :
            /\ S = b + 1 .. b + n
            /\ q[b + 1].from = 0
            /\ q[b + n].to = extent
            /\ \A k \in 1 .. n :
                 /\ q[b + k].part = k - 1
                 /\ q[b + k].parts = n
                 /\ k > 1 => q[b + k].from = q[b + k - 1].to

Covered(u) ==
  Covers(placements, {i \in DOMAIN placements : placements[i].unit = u},
         IF units[u].kind = "sequence" THEN Len(units[u].frames) ELSE units[u].size)

(* Every unit that has been passed is covered (spanning.py:221, :253).     *)
PartsCover ==
  step \in {"next", "done"} => \A u \in 1 .. unit - 1 : Covered(u)

(* Greedy mode leaves every tape that holds anything to its owner: a tape  *)
(* it does not format was its own before (spanning.py:89).                 *)
GreedyIsolation ==
  greedy # NoSource =>
    \A i \in DOMAIN placements :
      \/ placements[i].needsFormat
      \/ shelf[placements[i].tape].owner = greedy

(* The job is told to format the scratch tapes it uses, and no other       *)
(* tape, whichever way they came into the pool (spanning.py:119, :151).    *)
FormatsScratchOnly ==
  \A i \in DOMAIN placements :
    placements[i].needsFormat <=> shelf[placements[i].tape].status = "scratch"

(* A unit is split only if no usable tape had room for it whole            *)
(* (spanning.py:192, :238).                                                *)
NoNeedlessSplit ==
  \A i \in DOMAIN placements :
    LET u == placements[i].unit
        usable == Eligible(shelf, greedy)
                    \cup {t \in Tape : shelf[t].status = "scratch"}
    IN placements[i].parts > 1 =>
         \A t \in usable :
           shelf[t].used + BytesOn(t, LAMBDA v : v < u) + units[u].size > Capacity[t]

(* allocate ends: every step uses up a frame, a tape or a unit             *)
(* (spanning.py:163, :204, :247).                                          *)
Terminates == <>(step \in {"done", "failed"})
=============================================================================
