---------------------------- MODULE MCWritePlan ----------------------------
(* Three tapes, one of them smaller, in any mix of five catalogue states,  *)
(* and sources from empty to larger than any tape: one or two units of     *)
(* every shape, and trees that mix everything the scan tells apart.        *)
EXTENDS WritePlan

Sizes == <<3, 3, 2>>

Row(s, bytes, source) == [status |-> s, used |-> bytes, owner |-> source]
Rows == {Row("absent", 0, NoSource), Row("scratch", 0, NoSource),
         Row("active", 0, NoSource), Row("active", 2, NoSource),
         Row("active", 1, "A")}

Entry(n, p, b, k, bytes) ==
  [name |-> n, pattern |-> p, base |-> b, num |-> k, stat |-> "file", size |-> bytes]

(* A unit as the allocator sees it, and the files of a folder that is one. *)
Shot(f) == [kind |-> "sequence", frames |-> f, size |-> SumFunction(f)]
Clip(n) == [kind |-> "file", frames |-> <<>>, size |-> n]
Files(u) ==
  IF u.kind = "sequence"
  THEN {Entry(i, "frame", "s", i, u.frames[i]) : i \in DOMAIN u.frames}
  ELSE {Entry(1, "none", "", 0, u.size)}

Alone == {Shot(<<1, 2>>), Shot(<<2, 1, 2>>), Shot(<<2, 2, 1, 1>>), Shot(<<4, 1>>),
          Clip(0), Clip(2), Clip(5), Clip(9)}
First == {Shot(<<1, 2>>), Clip(2), Clip(5)}

(* Names 7 and 8 are hidden.  Two bases in one folder, a frame number that *)
(* two files bear or one, gaps, chunks out of order, a link and a file     *)
(* that went.                                                              *)
Folder ==
  {Entry(1, "frame", "b", 9, 1), Entry(2, "frame", "a", 4, 1),
   Entry(3, "frame", "b", 2, 1), Entry(4, "frame", "a", 4, 0),
   Entry(5, "frame", "b", 4, 1), Entry(6, "frame", "b", 6, 0)}
Twinless == Folder \ {Entry(2, "frame", "a", 4, 1)}
Reel ==
  {Entry(1, "chunk", "r", 10, 1), Entry(2, "chunk", "r", 2, 2), Entry(3, "none", "", 0, 1),
   Entry(4, "chunk", "q", 1, 0),
   [Entry(5, "none", "", 0, 1) EXCEPT !.stat = "link"],
   [Entry(6, "frame", "s", 1, 1) EXCEPT !.stat = "gone"]}

Nested == {<<>>, <<2>>, <<2, 1>>, <<7>>, <<7, 1>>, <<3>>, <<3, 8>>}
Mixed == {[p \in Nested |-> IF p = deep THEN folder ELSE IF p = top THEN Reel
                            ELSE IF p \in {<<7, 1>>, <<3, 8>>} THEN Files(Clip(1)) ELSE {}] :
            deep \in {<<>>, <<2, 1>>, <<7>>}, top \in {<<2>>, <<3>>},
            folder \in {Folder, Twinless}}

Two(a, b) == [p \in {<<>>, <<1>>} |-> IF p = <<>> THEN a ELSE b]
SourceTrees ==
  {Two({}, {})} \cup {Two({}, Files(u)) : u \in Alone}
    \cup {Two(Files(u), Files(v)) : u \in First, v \in Alone}
    \cup Mixed

(* The same, scanned by hand. *)
OfFolder == {<<Shot(<<1, 1, 0, 1>>), Shot(<<1, 0>>)>>, <<Shot(<<1, 1, 0, 1>>), Shot(<<0>>)>>}
OfReel == <<Clip(2), Clip(1), Clip(0), Clip(1)>>
Batches ==
  {<<>>, OfReel} \cup {f \o OfReel : f \in OfFolder} \cup {OfReel \o f : f \in OfFolder}
    \cup {<<u>> : u \in Alone} \cup {<<u, v>> : u \in First, v \in Alone}

ASSUME ScannedAsExpected == {Views(Scan(t)) : t \in SourceTrees} \subseteq Batches
=============================================================================
