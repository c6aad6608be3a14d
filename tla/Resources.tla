------------------------------- MODULE Resources -------------------------------
(***************************************************************************)
(* The two ceilings of a transaction's declared resources                  *)
(* (src/cu_pilot/schemas.py), for measured and for fitted limits alike.    *)
(***************************************************************************)
EXTENDS Integers

MaxComputeUnits == 1400000
MaxLoadedBytes == 67108864
=============================================================================
