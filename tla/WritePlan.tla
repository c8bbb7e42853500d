----------------------------- MODULE WritePlan -----------------------------
(***************************************************************************)
(* The plan of a write job, app/services/writer.py:254-267: the source is  *)
(* scanned into units (Intake), and the allocator lays the units out on    *)
(* the tapes (TapeAllocator).                                              *)
(***************************************************************************)
EXTENDS TapeAllocator, Intake

CONSTANT Trees   \* the source trees considered

(* Directories are lists of names; what is in one of them has a name of    *)
(* its own, a pattern, a number and a size.                                *)
ASSUME TreesShape ==
  \A t \in Trees :
    /\ IsFiniteSet(DOMAIN t) /\ DOMAIN t \subseteq Seq(Nat)
    /\ \A p \in DOMAIN t :
         /\ IsFiniteSet(t[p])
         /\ \A e \in t[p] : /\ e.pattern \in {"frame", "chunk", "none"}
                            /\ e.name \in Nat /\ e.num \in Nat /\ e.size \in Nat
         /\ \A e, f \in t[p] : e.name = f.name => e = f

VARIABLES
  tree,    \* what is under source_path
  found    \* the units of the scan

(* What the allocator reads of a unit. *)
Bytes(u) == [i \in DOMAIN u.files |-> u.files[i].size]

Viewed(u) ==
  [kind |-> u.kind,
   frames |-> IF u.kind = "sequence" THEN Bytes(u) ELSE <<>>,
   size |-> SumFunction(Bytes(u))]

Views(scan) == [i \in DOMAIN scan |-> Viewed(scan[i])]

PlanInit ==
  /\ tree \in Trees
  /\ found = Scan(tree)
  /\ units = Views(found)
  /\ Init

(* WriteError: no archivable content found. *)
NothingFound ==
  /\ step = "pin"
  /\ units = <<>>
  /\ step' = "failed"
  /\ UNCHANGED <<inputs, pool, used, unit, cursor, placements>>

Allocate == units # <<>> /\ Next

PlanNext == (NothingFound \/ Allocate) /\ UNCHANGED <<tree, found>>

PlanSpec == PlanInit /\ [][PlanNext]_<<vars, tree, found>>

FairPlanSpec == PlanSpec /\ WF_<<vars, tree, found>>(PlanNext)
-----------------------------------------------------------------------------
(* What allocate was given is the scan of the tree, and every regular file *)
(* of it, the hidden directories aside, is in one unit and on the tapes    *)
(* once: a frame in one placement, a chunk or another file byte by byte.   *)
(* Nothing is silently dropped (intake.py:6), neither by the scan nor by a *)
(* unit that is split (spanning.py:184, :236).                             *)
EveryFileOnce ==
  step = "done" =>
    LET Holders(p, e) == {h \in (DOMAIN found) \X (1 .. Cardinality(tree[p])) :
                            /\ h[2] \in DOMAIN found[h[1]].files
                            /\ found[h[1]].dir = p /\ found[h[1]].files[h[2]] = e}
        Of(u) == {i \in DOMAIN placements : placements[i].unit = u}
        sizes == [i \in DOMAIN placements |-> placements[i].size]
    IN /\ \A p \in Range(Walk(tree)) : \A e \in Regular(tree[p]) :
            \E h \in Holders(p, e) :
              /\ Holders(p, e) = {h}
              /\ IF found[h[1]].kind = "sequence"
                 THEN Cardinality({i \in Of(h[1]) : placements[i].from < h[2]
                                                    /\ h[2] <= placements[i].to}) = 1
                 ELSE SumFunctionOnSet(sizes, Of(h[1])) = e.size
       /\ \A u \in DOMAIN found : Range(found[u].files) \subseteq Regular(tree[found[u].dir])

(* The plan adds up from disk to tape: what is reserved is what is placed, *)
(* the parts of every unit cover it, and the units are the files found.    *)
PlanAddsUp == ReservedIsPlaced /\ PartsCover /\ EveryFileOnce

(* The gap report of a sequence names the frame numbers that are missing   *)
(* between its first and its last frame, and no others, in ascending       *)
(* ranges that do not touch (intake.py:94, :122).                          *)
GapsAreTrue ==
  LET gaps(u) == GapReport(found[u])
  IN \A u \in {u \in DOMAIN found : found[u].kind = "sequence"} :
       /\ \A n \in 0 .. Max(FrameNumbers(found[u])) :
            (\E i \in DOMAIN gaps(u) : gaps(u)[i].from <= n /\ n <= gaps(u)[i].to)
              <=> /\ n \notin FrameNumbers(found[u])
                  /\ \E m \in FrameNumbers(found[u]) : m < n
       /\ \A i \in DOMAIN gaps(u) :
            /\ gaps(u)[i].from <= gaps(u)[i].to
            /\ gaps(u)[i].to <= Max(FrameNumbers(found[u]))
            /\ i > 1 => gaps(u)[i].from > gaps(u)[i - 1].to + 1
=============================================================================
