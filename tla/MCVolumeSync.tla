---------------------------- MODULE MCVolumeSync ----------------------------
(* VolumeSync for TLC.                                                        *)
EXTENDS VolumeSync

(* The first two stages publish an artifact each; the third has a manifest.   *)
CONSTANT a
UnitsOfTwoStages == {<<1, a>>, <<2, a>>}

(* The whole sequence, and a range that stops before the export.              *)
WholeAndFirstHalf == {<<1, 3>>, <<1, 2>>}
==============================================================================
