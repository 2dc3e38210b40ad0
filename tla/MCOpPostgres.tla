---------------------------- MODULE MCOpPostgres ----------------------------
(* Small instances of OpPostgres for TLC.                                  *)
EXTENDS OpPostgres, TLC

\* Names of tables are interchangeable.
TableSymmetry == Permutations(Tables)

\* Any command may be refused except DEALLOCATE of an existing statement.
AllButDeallocate == Commands \ {"deallocate"}

\* ... and except PQprepare.
AllButPrepare == Commands \ {"deallocate", "prepare"}

\* Only DEALLOCATE is refused.
OnlyDeallocate == {"deallocate"}
=============================================================================
