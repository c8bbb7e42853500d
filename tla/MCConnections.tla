--------------------------- MODULE MCConnections ---------------------------
(* Instances of Connections for TLC: an ingest share and a restore         *)
(* destination on one machine, with a second form for the first of them,   *)
(* or one for a machine whose name reads like that destination.            *)
EXTENDS Connections

Share(h, p) == [host |-> h, purpose |-> p]
TwoOfAKind ==
  <<Share(<<"h">>, "ingest"), Share(<<"h">>, "restore"), Share(<<"h">>, "ingest")>>
NamesClash ==
  <<Share(<<"h">>, "ingest"), Share(<<"h">>, "restore"),
    Share(<<"h", "restore">>, "ingest")>>
ThreeForms == {TwoOfAKind, NamesClash}
=============================================================================
