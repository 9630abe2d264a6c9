------------------------------ MODULE MCIoCount ------------------------------
(***************************************************************************)
(* Instances of IoCount for TLC.                                           *)
(***************************************************************************)
EXTENDS IoCount

=============================================================================
