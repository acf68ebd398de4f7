-------------------------- MODULE MCBoundedProcess --------------------------
(***************************************************************************)
(* A small instance of BoundedProcess.                                     *)
(***************************************************************************)
EXTENDS BoundedProcess

CONSTANTS node, worker
=============================================================================
