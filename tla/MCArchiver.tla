----------------------------- MODULE MCArchiver -----------------------------
(* Small instances of Archiver for TLC.                                    *)
EXTENDS Archiver
=============================================================================
