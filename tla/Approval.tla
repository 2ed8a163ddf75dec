------------------------------ MODULE Approval ------------------------------
(***************************************************************************)
(* What a person is promised of an external tool call: nothing happens     *)
(* until they approve it, a call they decline never happens, an approved   *)
(* one happens at most once, and a recorded success did happen.            *)
(*                                                                         *)
(* An effect may come late: after a timeout has been recorded as unknown,  *)
(* or after a failure has.                                                 *)
(***************************************************************************)
EXTENDS Naturals

CONSTANT Calls

VARIABLES
  stage,   \* what is on record about each call
  effect   \* how often each call has taken effect in the other system

aVars == <<stage, effect>>

Outcomes == {"succeeded", "failed", "unknown"}
Approved(c) == stage[c] \in {"confirmed"} \union Outcomes

AInit ==
  /\ stage = [c \in Calls |-> "absent"]
  /\ effect = [c \in Calls |-> 0]

Move(c, from, to) ==
  /\ stage[c] = from
  /\ stage' = [stage EXCEPT ![c] = to]
  /\ UNCHANGED effect

TakeEffect(c) ==
  /\ Approved(c) /\ effect[c] = 0
  /\ effect' = [effect EXCEPT ![c] = 1]
  /\ UNCHANGED stage

Settle(c, o) ==
  /\ o = "succeeded" => effect[c] = 1
  /\ Move(c, "confirmed", o)

ANext ==
  \E c \in Calls :
    \/ Move(c, "absent", "proposed")
    \/ Move(c, "proposed", "confirmed")
    \/ Move(c, "proposed", "rejected")
    \/ TakeEffect(c)
    \/ \E o \in Outcomes : Settle(c, o)

Spec == AInit /\ [][ANext]_aVars
=============================================================================
