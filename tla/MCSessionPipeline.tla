------------------------- MODULE MCSessionPipeline -------------------------
(* Instances of SessionPipeline for TLC.                                    *)
EXTENDS SessionPipeline

CONSTANTS s1, s2
OneSession  == {s1}
TwoSessions == {s1, s2}
One == {1}
Two == {1, 2}
=============================================================================
