------------------------------- MODULE MCStores -------------------------------
(***************************************************************************)
(* A small instance of Stores. The graph is looked at twice, for what is   *)
(* promoted by two processes, and with one of each of the others: all of   *)
(* it at once is too much.                                                 *)
(***************************************************************************)
EXTENDS Stores, TLC

CONSTANTS
  t1,                                          \* the vault's one title
  talk, task, first, second, digest, memo, ann  \* the graph

\* The notes change, the title never.
OneTitle == <<t1, t1>>

GraphScopes ==
  [tickets |-> {talk, task, first, second}, notes |-> {talk, digest, task, memo, ann}]

\* The vault's edits and requests differ in nothing.
Symmetry == Permutations(Edits) \union Permutations(Requests)
=============================================================================
