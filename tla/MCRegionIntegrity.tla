------------------------- MODULE MCRegionIntegrity --------------------------
(* RegionIntegrity, model-checked with the bounds of the .cfg file.         *)
EXTENDS RegionIntegrity
=============================================================================
