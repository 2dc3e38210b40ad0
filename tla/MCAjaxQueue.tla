---------------------------- MODULE MCAjaxQueue ----------------------------
(* A small instance of AjaxQueue for TLC.                                  *)
EXTENDS AjaxQueue
=============================================================================
