--------------------------- MODULE MCMeasurement ---------------------------
(* Measurement and Wifi with the delays of constants.rs, in units of 2.5   *)
(* seconds.                                                                *)
EXTENDS Measurement
=============================================================================
