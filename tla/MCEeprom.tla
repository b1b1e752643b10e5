------------------------------ MODULE MCEeprom ------------------------------
(* Eeprom for TLC: three groups of settings and a station in one sector, a    *)
(* station in the next.                                                       *)
EXTENDS Eeprom
=============================================================================
