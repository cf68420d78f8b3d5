-------------------------- MODULE MCMediaRecapture --------------------------
(***************************************************************************)
(* Small instances of media recapture.                                     *)
(***************************************************************************)
EXTENDS MediaRecapture
=============================================================================
