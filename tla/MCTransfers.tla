------------------------------ MODULE MCTransfers ------------------------------
(***************************************************************************)
(* A small instance of Transfers. Accounts are looked at three times:      *)
(* sign-ins that overlap, keys that are typed or generated, and mail       *)
(* drafts beside a sign-in. All of it at once is too much.                 *)
(***************************************************************************)
EXTENDS Transfers

CONSTANTS a1, a2, s1, s2, m1, w1

Scope(connectors, targets, mailing, signIns, draftsOf, failures) ==
  [connectors |-> connectors, targets |-> targets, mailing |-> mailing, signIns |-> signIns,
   drafts |-> draftsOf, workers |-> IF draftsOf = {} THEN {} ELSE {w1}, faults |-> failures]

AccountScopes ==
  [p \in {"sign-ins", "keys", "mail"} |->
     IF p = "sign-ins" THEN Scope({"microsoft"}, {a1, a2}, {FALSE}, {s1, s2}, {}, 1)
     ELSE IF p = "keys" THEN Scope({"google", "webhook"}, {a1, a2}, {FALSE}, {}, {}, 2)
     ELSE Scope({"google", "microsoft"}, {a1}, {TRUE}, {s1}, {m1}, 1)]
=============================================================================
