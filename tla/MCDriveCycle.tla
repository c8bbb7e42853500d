---------------------------- MODULE MCDriveCycle ----------------------------
(* Instances of DriveCycle for TLC: tapes are 1, 2, ..., drives 8, 9, 10,  *)
(* slots 11, 12, ...                                                       *)
EXTENDS DriveCycle

HomeInOrder == [t \in Tape |-> 10 + t]

(* One unit on tape 1, two on tape 2, the third tape is blank. *)
UnitsOfTape == [t \in Tape |-> CASE t = 1 -> {"a"} [] t = 2 -> {"b", "c"} [] OTHER -> {}]

(* Inventory has not seen tape 2. *)
RowOfTape == [t \in Tape |-> IF t = 2 THEN "unknown" ELSE "scratch"]

FormatJob(q, f) == [kind |-> "format", tapes |-> q, force |-> f, verify |-> TRUE]
ImportJob(q, v) == [kind |-> "import", tapes |-> q, force |-> FALSE, verify |-> v]

Mixed == {FormatJob(<<3, 1>>, FALSE), FormatJob(<<1>>, TRUE),
          ImportJob(<<2, 1>>, TRUE), ImportJob(<<2>>, FALSE)}
=============================================================================
