-------------------------- MODULE MCWritePipeline --------------------------
(* Tapes of two units, sources that need more than one of them.            *)
EXTENDS WritePipeline

Apart == [u \in Unit |-> u]
OneFolder == [u \in Unit |-> 1]

TwoScans == {<<1, 2, 3>>, <<4>>}
PairScan == {<<1, 2>>}
=============================================================================
