---------------------------- MODULE MCDiskWatch ----------------------------
(* Two files, so that a save of one can fall between two of the other, and as *)
(* many tabs; the clock leaves room for a race and the save that follows it.  *)
EXTENDS DiskWatch, TLC

CONSTANTS a, b, s, t

TwoFiles == {a, b}
TwoTabs  == {s, t}

Symmetric == {f @@ g : f \in Permutations(TwoFiles), g \in Permutations(TwoTabs)}
=============================================================================
