------------------------------ MODULE MCBuilder ------------------------------
(* Builder for TLC: owners are alike, and so are the slugs visitors claim, *)
(* the notes that are listed and the skills.                               *)
EXTENDS Builder, TLC

CONSTANTS b, s1, s2

MCSymmetry ==
    Permutations(Owners) \cup Permutations(Slugs \ Bundled)
        \cup Permutations(Notes \ Hidden) \cup Permutations(Skills)
=============================================================================
