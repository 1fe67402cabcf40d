---------------------------- MODULE MCLamHandler ----------------------------
(* Instances of LamHandler for TLC.                                        *)
EXTENDS LamHandler
=============================================================================
