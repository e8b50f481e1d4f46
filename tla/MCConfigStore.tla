---------------------------- MODULE MCConfigStore ----------------------------
(* A small instance of ConfigStore for TLC.  Processes and accounts are       *)
(* interchangeable, and no property is a liveness property.                   *)
EXTENDS ConfigStore, TLC

MCSymmetry == Permutations(Procs) \cup Permutations(Accounts)
=============================================================================
