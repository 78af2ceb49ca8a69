------------------------ MODULE MC_InstallFrontDoor ------------------------
(***************************************************************************)
(* Small instances of InstallFrontDoor for TLC.                            *)
(***************************************************************************)
EXTENDS InstallFrontDoor, TLC

CONSTANTS k1, k2, r1, r2

\* Two kits: the second run may be of the same one, or of another.
Kits == Permutations(Kit)
=============================================================================
