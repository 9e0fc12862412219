---------------------------- MODULE MCCheckpoint ----------------------------
(* Six generations wrap several times within four reserved sequences, two
   cursor moves and any number of anchor saves. *)
EXTENDS Checkpoint, TLC

OneSlotMissed == {{}, {"A"}, {"B"}}
=============================================================================
