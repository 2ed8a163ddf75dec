------------------------------ MODULE Delivery ------------------------------
(***************************************************************************)
(* What the outbound queue promises, with no attempts, leases, drains or   *)
(* clock: a submitted delivery is settled once, as delivered or as given   *)
(* up, and it is delivered only after its node was joined to the artifact. *)
(***************************************************************************)
CONSTANT Keys

VARIABLES
  outcome,  \* "absent", "queued", "delivered" or "abandoned", for every key
  synced    \* the keys whose node is joined to an external artifact

contract == <<outcome, synced>>

Init ==
  /\ outcome = [k \in Keys |-> "absent"]
  /\ synced = {}

Submit(k) ==
  /\ outcome[k] = "absent"
  /\ outcome' = [outcome EXCEPT ![k] = "queued"]
  /\ UNCHANGED synced

Sync(k) ==
  /\ outcome[k] = "queued"
  /\ synced' = synced \union {k}
  /\ UNCHANGED outcome

Settle(k) ==
  /\ outcome[k] = "queued"
  /\ \/ k \in synced /\ outcome' = [outcome EXCEPT ![k] = "delivered"]
     \/ outcome' = [outcome EXCEPT ![k] = "abandoned"]
  /\ UNCHANGED synced

Next == \E k \in Keys : Submit(k) \/ Sync(k) \/ Settle(k)

Spec == Init /\ [][Next]_contract
=============================================================================
