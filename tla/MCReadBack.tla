----------------------------- MODULE MCReadBack -----------------------------
(* Instances of ReadBack for TLC: tapes are 1, 2, ..., drives 8 and 9,     *)
(* slots 11, 12, ...                                                       *)
EXTENDS ReadBack

HomeInOrder == [t \in Tape |-> 10 + t]

Holds(c, k, t, p) == [content |-> c, kind |-> k, tape |-> t, part |-> p, hashed |-> TRUE]
Scanned(c, k, t) == [Holds(c, k, t, 1) EXCEPT !.hashed = FALSE]

(* A sequence and a file on both tapes and, on tape 1, two whole files.  A *)
(* fast scan has added the sequence of tape 1 and one of the whole files.  *)
BothTapes ==
  <<Scanned(1, "sequence", 1), Holds(2, "file", 1, 1), Holds(2, "file", 2, 2),
    Scanned(3, "file", 1), Holds(4, "file", 1, 1), Holds(1, "sequence", 2, 2)>>
Everything == [r \in Request |-> {1, 2, 3, 4}]

(* A file on both tapes, and a sequence on tape 2. *)
SequenceLater ==
  <<Holds(1, "file", 1, 1), Holds(1, "file", 2, 2), Holds(2, "sequence", 2, 1)>>
FileAndSequence == [r \in Request |-> {1, 2}]

Restore(r) == [kind |-> "restore", request |-> r]
Verify(t, f) == [kind |-> "verify", tape |-> t, full |-> f]
RestoreOrVerify == {Restore("r"), Verify(1, TRUE), Verify(2, FALSE)}
RestoreOnly == {Restore("r")}

(* Pieces with and without a hash are wrong, or cannot be read. *)
Damaged(wrong, lost) ==
  [w \in Datum |-> IF w \in wrong THEN "wrong"
                   ELSE IF w \in lost THEN "unreadable" ELSE "good"]
Fine == Damaged({}, {})
SomeBad ==
  {Damaged({Piece(1, "manifest"), Piece(2, "data"), Piece(4, "data")}, {}),
   Damaged({}, {Piece(1, "frames")}),
   Damaged({Piece(1, "frames"), Piece(5, "data")}, {Piece(6, "manifest")})}
AllFine == {Fine}
=============================================================================
