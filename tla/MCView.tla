------------------------------- MODULE MCView -------------------------------
(* Small instances of View for TLC.                                         *)
EXTENDS View, TLC

CONSTANTS v, w, silent, single, double

\* Bodies for which the map function emits nothing, one value and two.
ThreeKinds == [doc \in Docs |-> CASE doc = silent -> <<>>
                                  [] doc = single -> <<v>>
                                  [] doc = double -> <<v, w>>]

Symmetry == Permutations(Keys)
=============================================================================
