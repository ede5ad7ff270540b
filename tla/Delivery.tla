------------------------------ MODULE Delivery ------------------------------
(***************************************************************************)
(* What a queue of deliveries promises, whatever requests work it: a       *)
(* delivery is accepted once, is started from waiting only, is done only   *)
(* when it was started, and then is done for good.  Nothing that was       *)
(* started goes back to waiting, so nothing that may have gone out is ever *)
(* mistaken for something that has not.                                    *)
(***************************************************************************)
CONSTANTS Deliveries

VARIABLES phase  \* accepted delivery -> how far it is

Phases == {"waiting", "sending", "done"}

DeliveryTypeOK == DOMAIN phase \subseteq Deliveries /\ phase \in [DOMAIN phase -> Phases]

DeliveryInit == phase = [d \in {} |-> "waiting"]

Accept(D) ==
  /\ D \cap DOMAIN phase = {}
  /\ phase' = [d \in DOMAIN phase \cup D |-> IF d \in D THEN "waiting" ELSE phase[d]]

Start(d) ==
  /\ d \in DOMAIN phase
  /\ phase[d] = "waiting"
  /\ phase' = [phase EXCEPT ![d] = "sending"]

Finish(d) ==
  /\ d \in DOMAIN phase
  /\ phase[d] = "sending"
  /\ phase' = [phase EXCEPT ![d] = "done"]

DeliveryNext ==
  \/ \E D \in SUBSET Deliveries : Accept(D)
  \/ \E d \in Deliveries : Start(d) \/ Finish(d)

DeliverySpec == DeliveryInit /\ [][DeliveryNext]_phase
=============================================================================
