----------------------------- MODULE MCAuthFlow -----------------------------
(* Small instances of AuthFlow for TLC: the demo account and one more. *)
EXTENDS AuthFlow, TLC

CONSTANTS demo, ann, mail, pw1, pw2, r1, r2

MCCallers == {r1, r2}
Symmetry == Permutations(MCCallers)

\* answer, reused, reason and replaces are written and never read by what these instances check.
Seen(s) == <<s.user, s.family, s.lastUsedAt, s.expiresAt, s.revokedAt>>
View == <<now, issued, [s \in DOMAIN sessions |-> Seen(sessions[s])], recentRotations, accounts,
          emailIndex, seeding, attempts, requests, opened>>

\* Nor are under and knew, but where it is asked which password opened a session; and with no more
\* sessions than a user may hold and a clock that stays below the idle timeout and within the
\* retention, nothing is evicted, idle or pruned, and it does not matter when a session was last
\* used or revoked.
Standing(s) == <<s.user, s.family, s.expiresAt, s.revokedAt = Never>>
WithoutUnder(r) == <<r.kind, r.step, r.email, r.user, r.password, r.next, r.ok>>
WithoutKnew(o) == <<o.at, o.ended>>
ViewOfRevocations ==
  <<now, issued, [s \in DOMAIN sessions |-> Standing(sessions[s])], recentRotations, accounts,
    emailIndex, seeding, attempts, [c \in DOMAIN requests |-> WithoutUnder(requests[c])],
    [f \in DOMAIN opened |-> WithoutKnew(opened[f])]>>
=============================================================================
