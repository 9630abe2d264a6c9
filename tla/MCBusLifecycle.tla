--------------------------- MODULE MCBusLifecycle ---------------------------
(***************************************************************************)
(* Instances of BusLifecycle for TLC.                                      *)
(***************************************************************************)
EXTENDS BusLifecycle, TLC

(* Device objects are interchangeable until they are created.              *)
PdoSymmetry == Permutations(Pdo)

=============================================================================
