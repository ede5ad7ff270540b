----------------------------- MODULE MCSessions -----------------------------
(* Small instances of Sessions for TLC. *)
EXTENDS Sessions, TLC

CONSTANTS ann, bob

MCUsers == {ann, bob}
Symmetry == Permutations(MCUsers)

\* Bound: the third session is issued by tick 2; expiry, at tick 3, meets two sessions at most.
Small == now + issued <= 5
=============================================================================
