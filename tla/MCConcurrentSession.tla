------------------------- MODULE MCConcurrentSession -------------------------
(* Model values for TLC: which owners may end by themselves.               *)
EXTENDS ConcurrentSession

AnyExit == Roles \X {"none", "other"}
CollectorGone == {<<"collector", "none">>}
=============================================================================
