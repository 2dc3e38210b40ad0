------------------------------ MODULE MCFdPool ------------------------------
(* Small instances of FdPool for TLC.                                      *)
EXTENDS FdPool, TLC

\* Addresses are interchangeable.
AddrSymmetry == Permutations(Addrs)
=============================================================================
