-------------------------- MODULE ExclusiveProfile --------------------------
(***************************************************************************)
(* What the capture runtime promises its callers, whatever happens to the  *)
(* processes: epochs of exclusive use of one browser profile.  An epoch    *)
(* grants the profile to at most one process; a pin taken in an epoch      *)
(* keeps that epoch open; the next epoch opens only when nothing is pinned *)
(* and the profile has been given back.                                    *)
(***************************************************************************)
EXTENDS Naturals

CONSTANT Pins   \* the pins that callers may hold

VARIABLES epoch,    \* number of the current epoch
          granted,  \* whether this epoch's grant has been decided
          holder,   \* the epoch whose process holds the profile; 0 is none
          pinned    \* pins that are held

pvars == <<epoch, granted, holder, pinned>>

PInit == epoch = 1 /\ granted = TRUE /\ holder = 1 /\ pinned = {}

OpenEpoch ==
  /\ pinned = {} /\ holder = 0 /\ granted
  /\ epoch' = epoch + 1 /\ granted' = FALSE
  /\ UNCHANGED <<holder, pinned>>

Grant ==
  /\ ~granted /\ granted' = TRUE
  /\ holder' \in {0, epoch}
  /\ UNCHANGED <<epoch, pinned>>

GiveBack ==
  /\ holder # 0 /\ holder' = 0
  /\ UNCHANGED <<epoch, granted, pinned>>

Pin(p) ==
  /\ granted /\ p \notin pinned
  /\ pinned' = pinned \cup {p}
  /\ UNCHANGED <<epoch, granted, holder>>

Unpin(p) ==
  /\ p \in pinned
  /\ pinned' = pinned \ {p}
  /\ UNCHANGED <<epoch, granted, holder>>

PNext == OpenEpoch \/ Grant \/ GiveBack \/ \E p \in Pins : Pin(p) \/ Unpin(p)

PSpec == PInit /\ [][PNext]_pvars

=============================================================================
