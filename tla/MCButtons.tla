----------------------------- MODULE MCButtons -----------------------------
(***************************************************************************)
(* Buttons for TLC, with the pins of the default configuration: the power  *)
(* button on INT0, start and stop on PCINT0.                               *)
(***************************************************************************)
EXTENDS Buttons

MCPcint == {"D50", "D52"}
MCD21 == "D21"
=============================================================================
