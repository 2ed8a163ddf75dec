-------------------------------- MODULE Stores --------------------------------
(***************************************************************************)
(* Three parts that keep the workspace in step with something beside its   *)
(* rows: the files of the vault, the database of an older workspace, and   *)
(* the graph of edges. They share no state: a behaviour is one of one      *)
(* part, chosen at the start, and the others stay as they began. Of the    *)
(* graph it is one within bounds that its part names.                      *)
(***************************************************************************)
EXTENDS VaultMirror

CONSTANTS
  Legacy, Canonical, Surfaces, Torn, MaxBroken,                    \* adoption
  Meetings, Summaries, Items, Tickets, Notes, People, Nil, MaxCuts,  \* the graph
  Scopes  \* bound: the ids that a part of the graph makes use of

VARIABLES
  part,
  files, step, from, kind, attached, told, committed, parted, overlapped, broken,
  rows, of, trashed, edges, attends, work, hand, awaiting, used, made, muddled, cuts

vault    == vars
adoption == <<files, step, from, kind, attached, told, committed, parted, overlapped, broken>>
graph    == <<rows, of, trashed, edges, attends, work, hand, awaiting, used, made, muddled, cuts>>

A == INSTANCE Adoption WITH MaxFaults <- MaxBroken, file <- files, pc <- step, faults <- broken

G == INSTANCE Workspace WITH None <- Nil, MaxFaults <- MaxCuts, linked <- made, faults <- cuts

ASSUME Assumptions ==
  A!AdoptionAssumption /\ G!WorkspaceAssumption

OfGraph == part \in DOMAIN Scopes

\* Where workspaces are at first is a question of adoption's alone.
StoresInit ==
  /\ part \in {"vault", "adoption"} \union DOMAIN Scopes
  /\ Init /\ A!Init /\ G!Init
  /\ part # "adoption" => committed = {}

StoresNext ==
  \/ part = "vault"    /\ Next   /\ UNCHANGED <<part, adoption, graph>>
  \/ part = "adoption" /\ A!Next /\ UNCHANGED <<part, vault, graph>>
  \/ OfGraph /\ G!Next /\ UNCHANGED <<part, vault, adoption>> /\ used' \subseteq Scopes[part]

storesVars == <<part, vault, adoption, graph>>

StoresSpec == StoresInit /\ [][StoresNext]_storesVars

\* The types of the parts.
StoresTypeOK ==
  /\ part = "vault" => TypeOK
  /\ part = "adoption" => A!TypeOK
  /\ OfGraph => G!TypeOK

\* No commit is destroyed by moving workspaces, and who is not warned sees every one (Adoption).
CommitsAreSafe == part = "adoption" => A!NothingIsDestroyed /\ A!WhatIsMissingIsTold

\* The graph says of the rows what the handlers said, and an action item becomes one ticket
\* (Workspace).
LinksAreTrue == OfGraph => G!LinksAreTrue /\ G!PromotedOnce
=============================================================================
