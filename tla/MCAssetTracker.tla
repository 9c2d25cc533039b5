---------------------------- MODULE MCAssetTracker ----------------------------
(***************************************************************************)
(* Instances of AssetTracker for TLC: both builds; a store with room for   *)
(* every key, and one that the boot's reset cause leaves too small for a   *)
(* whole cycle.                                                            *)
(***************************************************************************)
EXTENDS AssetTracker

MCBuilds == {"gnss", "sim"}
MCSlots == {8, 10}
ConfiguredSlots == {10}
===============================================================================
