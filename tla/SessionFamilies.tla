-------------------------- MODULE SessionFamilies --------------------------
(***************************************************************************)
(* What the refresh-token store promises its callers, with no tokens, no   *)
(* clock and no grace window in it.  A sign-in opens a family.  A family   *)
(* is a single chain of credentials: at any moment it has one usable       *)
(* credential or none.  Rotation replaces the usable credential by a newer *)
(* one; a family left without a usable credential never has one again.     *)
(*                                                                         *)
(* A step may close any number of families at once, because time passes    *)
(* for all of them, and because opening a family may evict others.         *)
(***************************************************************************)
EXTENDS Naturals

CONSTANT Families      \* the ids a family may have, a set of positive numbers

VARIABLES
  seq,                 \* how many credentials have been issued
  current              \* current[f]: the usable credential of f, 0 when none

fvars == <<seq, current>>

FamiliesTypeOK ==
  /\ seq \in Nat
  /\ current \in [Families -> Nat]

FInit ==
  /\ seq = 0
  /\ current = [f \in Families |-> 0]

\* Every family outside F keeps its credential or loses it.
OthersOnlyClose(F) == \A g \in Families \ F : current'[g] \in {current[g], 0}

Open(f) ==
  /\ f = seq + 1
  /\ seq' = seq + 1
  /\ current'[f] = f
  /\ OthersOnlyClose({f})

Advance(f) ==
  /\ current[f] # 0
  /\ seq' = seq + 1
  /\ current'[f] = seq + 1
  /\ OthersOnlyClose({f})

Close ==
  /\ seq' = seq
  /\ OthersOnlyClose({})

FNext ==
  /\ current' \in [Families -> Nat]
  /\ \/ \E f \in Families : Open(f) \/ Advance(f)
     \/ Close

FSpec == FInit /\ [][FNext]_fvars
=============================================================================
