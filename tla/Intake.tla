------------------------------- MODULE Intake -------------------------------
(***************************************************************************)
(* The intake scan: app/services/intake.py.                                *)
(*                                                                         *)
(* A source tree is a function from directories to what os.walk lists in   *)
(* them.  A directory is the sequence of names that lead to it from the    *)
(* root, and a name is its rank in sorted order.  An entry says which      *)
(* pattern its name matches, with the groups of the match, and what lstat  *)
(* makes of it: a regular file of some size, something else, or gone.      *)
(***************************************************************************)
EXTENDS Naturals, Sequences, FiniteSets, FiniteSetsExt, SequencesExt, Sorting

CONSTANT Hidden   \* the names _manifests and _catalog

(* Whether p comes before q in the walk: top-down, names in order. *)
Earlier(p, q) ==
  \/ IsStrictPrefix(p, q)
  \/ \E i \in DOMAIN p \cap DOMAIN q :
       /\ p[i] < q[i]
       /\ \A j \in 1 .. i - 1 : p[j] = q[j]

(* The directories looked into.  A hidden one is passed over together with *)
(* all that lies under it.                                                 *)
Walk(tree) ==
  Sorted({p \in DOMAIN tree : Range(p) \cap Hidden = {}}, Earlier)

ByName(e, f) == e.name < f.name

Regular(S) == {e \in S : e.stat = "file"}

Matching(S, p) == {e \in Regular(S) : e.pattern = p}

(* The base names, each in the place of the first file that bears it. *)
Bases(S) ==
  LET heads == {e \in S : \A f \in S : f.base = e.base => e.name <= f.name}
      sorted == Sorted(heads, ByName)
  IN [i \in DOMAIN sorted |-> sorted[i].base]

(* sorted_frames, and the sort of the chunks of a video: by number, then   *)
(* by name.                                                                *)
Numbered(S) ==
  Sorted(S, LAMBDA e, f : e.num < f.num \/ (e.num = f.num /\ e.name < f.name))

(* The files of one base; and a version that keeps one file per number.    *)
OneEach(S, base) == {e \in S : e.base = base /\ \A f \in S :
                       f.base = base /\ f.num = e.num => f.name <= e.name}

Group(S, base) == {e \in S : e.base = base}

(* The units of one directory: a sequence per base name, a unit per chunk  *)
(* of each video, and a unit per file that is left.                        *)
FrameSequences(path, S) ==
  LET frames == Matching(S, "frame")
      bases == Bases(frames)
  IN [i \in DOMAIN bases |->
        LET files == Numbered(Group(frames, bases[i]))
        IN [kind |-> "sequence", dir |-> path, files |-> files, chunks |-> 0]]

Single(path, e, n) ==
  [kind |-> "file", dir |-> path, files |-> <<e>>, chunks |-> n]

Videos(path, S) ==
  LET chunks == Matching(S, "chunk")
      bases == Bases(chunks)
  IN FlattenSeq([i \in DOMAIN bases |->
       LET files == Numbered(Group(chunks, bases[i]))
       IN [k \in DOMAIN files |-> Single(path, files[k], Len(files))]])

Leftovers(path, S) ==
  LET files == Sorted(Matching(S, "none"), ByName)
  IN [k \in DOMAIN files |-> Single(path, files[k], 0)]

UnitsOf(path, S) == FrameSequences(path, S) \o Videos(path, S) \o Leftovers(path, S)

(* scan_source *)
Scan(tree) ==
  LET walk == Walk(tree)
  IN FlattenSeq([i \in DOMAIN walk |-> UnitsOf(walk[i], tree[walk[i]])])
-----------------------------------------------------------------------------
(* gap_report: the frame numbers that are missing, in ranges.              *)

FrameNumbers(u) == {u.files[i].num : i \in DOMAIN u.files}

Missing(nums) == (Min(nums) .. Max(nums)) \ nums

(* _compress_ranges: a number goes on with the last range or opens the     *)
(* next; and a version that looks one number too far.                      *)
ExtendLoosely(ranges, n) ==
  IF ranges # <<>> /\ n <= ranges[Len(ranges)].to + 2
  THEN [ranges EXCEPT ![Len(ranges)].to = n]
  ELSE Append(ranges, [from |-> n, to |-> n])

Extend(ranges, n) ==
  IF ranges # <<>> /\ n = ranges[Len(ranges)].to + 1
  THEN [ranges EXCEPT ![Len(ranges)].to = n]
  ELSE Append(ranges, [from |-> n, to |-> n])

CompressRanges(nums) == FoldLeft(Extend, <<>>, nums)

Below(m, n) == m < n

GapReport(u) == CompressRanges(Sorted(Missing(FrameNumbers(u)), Below))
=============================================================================
