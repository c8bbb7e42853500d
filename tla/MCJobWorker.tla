---------------------------- MODULE MCJobWorker ----------------------------
(* Two drives, as the library has, and the submissions the runs choose from. *)
EXTENDS JobWorker

Asks(type, drive, tapes) == [type |-> type, drive |-> drive, tapes |-> tapes]

(* A job for one given drive, one that fans out over both, one for none. *)
MixedRequests == {Asks("write", 0, 0), Asks("tape_import", 0, 2)}
LiveRequests == {Asks("write", 0, 0), Asks("batch_format", 0, 2),
                 Asks("restore", 0, 0), Asks("backup", 0, 0)}
FormatRequests == {Asks("format", 0, 0)}
=============================================================================
