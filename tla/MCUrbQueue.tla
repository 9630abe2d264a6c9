----------------------------- MODULE MCUrbQueue -----------------------------
(***************************************************************************)
(* Instances of UrbQueue for TLC.                                          *)
(***************************************************************************)
EXTENDS UrbQueueService

(* Readers are interchangeable in the runs that check safety only.         *)
ReaderSymmetry == Permutations(Reader)

=============================================================================
