--------------------------- MODULE MCTapeLibrary ---------------------------
(* Instances of TapeLibrary for TLC: tape 1 is in use and in slot 11, tape *)
(* 2 is scratch and in drive 2, tape 3 is new to the catalogue and in slot *)
(* 12, tape 4 cleans and is in slot 14; slot 13 and drive 1 are free.      *)
EXTENDS TapeLibrary

HomeMixed == <<11, 2, 12, 14>>
StatusMixed == <<"active", "scratch", "unknown", "unknown">>

WriteJob == <<Load(11, 1), Unload(AnySlot, 1)>>

(* Jobs on two drives, and forms of the library page. *)
MixedScripts ==
  {<<WriteJob, <<Unload(AnySlot, 2), Load(12, 2)>>, <<Inventory>>>>,
   <<WriteJob, <<Unload(AnySlot, 2), Unload(AnySlot, 2)>>, <<Clean(14, 1)>>>>,
   <<<<Unload(13, 2)>>, <<Load(11, 1), Unload(AnySlot, 2), Load(12, 2)>>,
     <<>>>>,
   <<<<Load(11, 1)>>, <<Unload(11, 1)>>, <<Load(11, 2), Inventory>>>>,
   <<<<Format(2, 2, FALSE), Unload(AnySlot, 2)>>, <<Unload(13, 2)>>,
     <<Load(11, 2), Clean(11, 1)>>>>,
   <<<<Format(2, 2, TRUE), Unlock(2)>>, <<Retire(2)>>,
     <<Format(2, 2, FALSE), Format(2, 1, TRUE)>>>>,
   <<<<Retire(3), Inventory>>, <<Load(12, 1)>>, <<Format(1, 3, FALSE)>>>>}
=============================================================================
