------------------------------ MODULE MCThread ------------------------------
(* MetaThread with one thread besides the main and the impl thread. *)
EXTENDS MetaThread
OneOther == {"other"}
=============================================================================
