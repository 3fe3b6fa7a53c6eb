-------------------------- MODULE MCScanCheckpoint --------------------------
(***************************************************************************)
(* Instances of ScanCheckpoint: a directory with one file before one with  *)
(* the others, and contents that differ already in their quick hashes.     *)
(***************************************************************************)
EXTENDS ScanCheckpoint, TLC

CONSTANTS x, y

MCEnds == {1, N}
MCDisks == {[p \in 1 .. N |-> x]}
MCContents == {x, y}
MCQuick == x :> 1 @@ y :> 2
=============================================================================
