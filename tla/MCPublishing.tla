---------------------------- MODULE MCPublishing ----------------------------
(* Small instances of Publishing for TLC. *)
EXTENDS Publishing, TLC

CONSTANTS p1, instagram, x, igAcme, xAcme, r1, r2

OnePost == {p1}
TwoNetworks == {instagram, x}
NoNetworks == {}
TwoAccounts == {igAcme, xAcme}
MCPlatformOf == igAcme :> instagram @@ xAcme :> x
MCConnected == {igAcme}
TwoCallers == {r1, r2}
OneCaller == {r1}
MCContents == {[targets |-> {n}, media |-> TRUE] : n \in TwoNetworks}
ApprovedOnly == {"approved"}
\* One instant, as toISOString spells it and as a string that sorts before it.
TwoSpellings == {Iso(1), [at |-> 1, off |-> -1]}
=============================================================================
