---------------------------- MODULE MCWebRenewal ----------------------------
(* Small instances of WebRenewal for TLC: one browser of one user. *)
EXTENDS WebRenewal, TLC

CONSTANTS ann, tab1, tab2

MCRequests == {tab1, tab2}
Symmetry == Permutations(MCRequests)

\* answer, reused, reason and replaces are written and never read by what these instances check.
Seen(s) == <<s.family, s.lastUsedAt, s.expiresAt, s.revokedAt>>
View == <<now, issued, [s \in DOMAIN sessions |-> Seen(sessions[s])], recentRotations, webVars>>
=============================================================================
