-------------------------- MODULE MCCaptureRuntime --------------------------
(* Instances of CaptureRuntime for TLC. *)
EXTENDS CaptureRuntime

CONSTANTS l1, l2

MCLeases == {l1, l2}
=============================================================================
