-------------------------- MODULE MCBatchService --------------------------
(***************************************************************************)
(* Model checking BatchService: every block of a small chain may arrive    *)
(* next, in either direction, at the head or not, readable or not.         *)
(***************************************************************************)
EXTENDS BatchService
=============================================================================
