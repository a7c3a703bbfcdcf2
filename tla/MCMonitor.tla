----------------------------- MODULE MCMonitor -----------------------------
(***************************************************************************)
(* Monitor for TLC.                                                        *)
(***************************************************************************)
EXTENDS Monitor

MCTemperatures == {7}
MCIntervals == {2, 3}
MCResolutions == {2}
=============================================================================
