---------------------------- MODULE MCFileVersions ----------------------------
(* FileVersions on small instances. *)
EXTENDS FileVersions, TLC

CONSTANTS f, g, c1, c2, c3

TwoFiles == {f, g}
ThreeContents == {c1, c2, c3}
LastContent == {c3}

Symmetry == Permutations(TwoFiles) \cup Permutations(ThreeContents \ LastContent)
=============================================================================
