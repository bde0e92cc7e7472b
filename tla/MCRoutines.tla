----------------------------- MODULE MCRoutines -----------------------------
(* An instance of the routine scheduler for TLC: one instant, which the one *)
(* schedule names, and two routines.                                        *)
EXTENDS Routines

CONSTANT h1

AtOne == {{1}}
=============================================================================
