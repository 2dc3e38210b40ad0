--------------------------- MODULE MCGarnerDaemon ---------------------------
(* Small instances of GarnerDaemon for TLC.                                *)
EXTENDS GarnerDaemon
=============================================================================
