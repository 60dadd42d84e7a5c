------------------------------- MODULE MCPull -------------------------------
(* Small instances of Pull for TLC.                                         *)
EXTENDS Pull, TLC

CONSTANTS a, b, del

\* The keys are interchangeable, and so are the bodies that are not a deletion.
Symmetry == Permutations(Keys) \cup Permutations(Edits \ {Deletion})
=============================================================================
