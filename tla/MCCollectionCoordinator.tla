----------------------- MODULE MCCollectionCoordinator -----------------------
(***************************************************************************)
(* Small instances of the coordinator over the manager.                    *)
(***************************************************************************)
EXTENDS CollectionCoordinator, TLC

LeaseSymmetry == Permutations(Leases)
=============================================================================
