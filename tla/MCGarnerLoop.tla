---------------------------- MODULE MCGarnerLoop ----------------------------
(* Small instances of GarnerLoop for TLC.                                  *)
EXTENDS GarnerLoop

\* Consumers at every tick, every second and every third one.
IntervalTable ==
  [c \in Consumers |-> CASE c = "trigger" -> 1 [] c = "rotate" -> 2 [] OTHER -> 3]
=============================================================================
