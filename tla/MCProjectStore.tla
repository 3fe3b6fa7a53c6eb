--------------------------- MODULE MCProjectStore ---------------------------
(* Two directories for one name, a photo source, and the home directory that *)
(* holds the photos and every project database.                              *)
EXTENDS ProjectStore, TLC

CONSTANTS photos, home

MCBelow    == {<<photos, photos>>, <<home, home>>, <<photos, home>>}
MCCovering == {home} \X (0 .. N)
Symmetry   == Permutations(Proc)
=============================================================================
