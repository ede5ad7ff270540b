------------------------------ MODULE Service ------------------------------
(***************************************************************************)
(* What the in-memory services of the API share: a clock, the plan check   *)
(* of BillingService and the spelling of names.  Every service is one      *)
(* workspace's, holds its records in lists that only grow, runs each call  *)
(* to its end without an await, and starts from the demo fixtures.  A list *)
(* is a sequence here, its records known by their place in it; audit       *)
(* records are left out, and so are the fixtures' records of which there   *)
(* is a second like them.                                                  *)
(***************************************************************************)
EXTENDS Naturals, Sequences, FiniteSets

CONSTANTS
  MaxTime,  \* bound: last instant of the clock
  Words,    \* the names that differ in more than capitals and spaces
  Users,    \* who calls a service
  DemoUser  \* whom the fixtures are about

VARIABLE now

ServiceAssumption == MaxTime \in Nat \ {0} /\ Words # {}
ASSUME ServiceAssumption

Instants == 1 .. MaxTime
Never == 0      \* a timestamp that is not set
NoRecord == 0   \* a lookup that finds nothing

ClockInit == now = 1
Tick == now < MaxTime /\ now' = now + 1

\* A name as a caller types it, and its trimmed lower-case form, which is Plain.
Spelled == [word : Words, capitals : BOOLEAN]
Plain(name) == [name EXCEPT !.capitals = FALSE]

\* The name the fixtures use.
DemoName == [word |-> CHOOSE w \in Words : TRUE, capitals |-> FALSE]

\* Array.find by a condition on records, with the list's newest record first.
Newest(records, Test(_)) ==
  IF \E i \in DOMAIN records : Test(records[i])
  THEN CHOOSE i \in DOMAIN records :
         Test(records[i]) /\ \A j \in DOMAIN records : Test(records[j]) => j <= i
  ELSE NoRecord

-----------------------------------------------------------------------------
(* BillingService: every workspace is on the business plan, and its usage  *)
(* is counted in the demo fixtures, which no service writes.               *)

PlanLimit ==
  [workspaces |-> 10, socialAccounts |-> 50, postsThisMonth |-> 2000, aiGenerations |-> 1000,
   teamMembers |-> 25, mediaStorageGb |-> 200]

FixtureUsage ==
  [workspaces |-> 1, socialAccounts |-> 3, postsThisMonth |-> 16, aiGenerations |-> 9,
   teamMembers |-> 2, mediaStorageGb |-> 0]

AssertAllowed(capability, increment) ==
  capability # "apiAccess" => FixtureUsage[capability] + increment <= PlanLimit[capability]
=============================================================================
