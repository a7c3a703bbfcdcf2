------------------------------ MODULE MCShell ------------------------------
(***************************************************************************)
(* Shell for TLC.                                                          *)
(***************************************************************************)
EXTENDS Shell

MCNodes == 1 .. 4
MCSizes == {1}
MCBursts == {0, 1}
=============================================================================
