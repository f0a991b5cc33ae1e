------------------------------- MODULE MCKms -------------------------------
(* KmsImplDevice for the runs with several CRTCs, which are alike. *)
EXTENDS KmsImplDevice, TLC

Symmetry == Permutations(Crtcs)
=============================================================================
