-------------------------- MODULE MCBridgeSession ---------------------------
(***************************************************************************)
(* A small instance of BridgeSession.                                      *)
(***************************************************************************)
EXTENDS BridgeSession

CONSTANTS o1, o2

\* Two things are done, and each is followed by an assertion.
MCProgram == <<Act, o1, Act, o2>>

\* The program and the recorded network profile travel with prepare.
MCLarge == {"prepare"}
=============================================================================
