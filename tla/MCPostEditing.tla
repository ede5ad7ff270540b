--------------------------- MODULE MCPostEditing ----------------------------
(* Small instances of PostEditing for TLC. *)
EXTENDS PostEditing, TLC

CONSTANTS p1, p2, instagram

MCMediaPlatforms == {instagram}
OnePost == {p1}
TwoPosts == {p1, p2}
OneNetwork == {instagram}
Symmetry == Permutations(TwoPosts)
\* The instants from the start of the clock on, one of them past the end of the shorter one.
MCHorizon == {Iso(0), Iso(1), Iso(2)}
OneNetworkContents == [targets : {{instagram}}, media : BOOLEAN]
=============================================================================
