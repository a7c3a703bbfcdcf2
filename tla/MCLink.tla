------------------------------- MODULE MCLink -------------------------------
(***************************************************************************)
(* Link for TLC: three databases, the one in the middle empty.             *)
(***************************************************************************)
EXTENDS Link

MCDbSizes == <<1, 0, 3>>
=============================================================================
