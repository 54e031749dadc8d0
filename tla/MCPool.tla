------------------------------- MODULE MCPool -------------------------------
(* Small instances of Pool: four threads contend for two objects.          *)
EXTENDS Pool
=============================================================================
