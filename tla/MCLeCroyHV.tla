----------------------------- MODULE MCLeCroyHV -----------------------------
(* Instances of LeCroyHV for TLC.                                          *)
EXTENDS LeCroyHV

(* One operation of each shape of loop: data words after the command, one  *)
(* answer read, answers read until there is no Q.                          *)
MCShapes == {"SetAllVoltage", "GetVoltage", "CheckTurnOn"}
=============================================================================
