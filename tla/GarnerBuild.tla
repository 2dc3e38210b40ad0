----------------------------- MODULE GarnerBuild -----------------------------
(***************************************************************************)
(* The build of garner, fixed when it is compiled: _ENABLE_CYGWIN selects  *)
(* select instead of epoll, and a second check of the pid file.            *)
(***************************************************************************)
CONSTANT Builds   \* values of _ENABLE_CYGWIN: TRUE for select, FALSE for epoll

ASSUME BuildAssumption == Builds \subseteq BOOLEAN

VARIABLE Cygwin   \* which build this is
==============================================================================
