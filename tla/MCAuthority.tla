---------------------------- MODULE MCAuthority -----------------------------
(* Small instances of Scheduling, alone and served to callers, for TLC. *)
EXTENDS Authority, TLC

CONSTANTS p1, instagram, x, threads, igAcme, xAcme, r1, s1, s2

OnePost == {p1}
ThreeNetworks == {instagram, x, threads}
NeedMedia == {instagram}
TwoAccounts == {igAcme, xAcme}
MCPlatformOf == igAcme :> instagram @@ xAcme :> x
MCConnected == {igAcme}
XConnected == {xAcme}
OneCaller == {r1}
NoCallers == {}
TwoSlots == {s1, s2}
OneSlot == {s1}
SlotContents ==
  {[targets |-> {threads}, media |-> FALSE], [targets |-> {threads, x}, media |-> FALSE]}
DraftContents == {[targets |-> {instagram}, media |-> FALSE]}
DraftOnly == {"draft"}
MCHorizon == {Iso(0), Iso(1)}
FromStart == {"draft", "approved"}
Symmetry == Permutations(TwoSlots)

\* People of three roles, a role claimed in a header, and keys that ask for what keys may not do.
MCRequests ==
  [by : {"token"}, role : {"manager", "creator", "viewer"}]
    \cup {[by |-> "header", role |-> "reviewer"]}
    \cup [by : {"key"}, scopes : {{"posts.create"}, {"posts.review", "posts.publish", "unheard of"}}]

OneManager == {[by |-> "token", role |-> "manager"]}

\* Who made the last step says nothing of the next one.
View == schedVars
=============================================================================
