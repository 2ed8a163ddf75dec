-------------------------------- MODULE MCParts --------------------------------
(***************************************************************************)
(* A small instance of Parts. Utterances are in units of 10 ms: frames of  *)
(* 20 to 60 ms, and a phrase is 40 ms long at least.                       *)
(***************************************************************************)
EXTENDS Parts, TLC

CONSTANTS
  ollama, cloud, other, sum, chat,  \* the router
  m1,                               \* join detection
  notebook, letter, here,           \* the importer
  low                               \* merging

RouterKinds  == {ollama, cloud, other}
RouterTasks  == {sum, chat}
Rule(tasks, h, to, mask) == [tasks |-> tasks, health |-> h, to |-> to, mask |-> mask]
StoredRules ==
  { <<>>,
    <<Rule({sum}, "any", other, TRUE), Rule({sum, chat}, "down", cloud, FALSE)>> }

HappeningThen == [m \in {m1} |-> {2, 3}]
FolderThen    == [f \in {notebook, letter} |-> here]
FoldCase(a)   == low
FrameLengths  == 1..3

\* Pulls are alike and so are files, and no part but the importer speaks of them.
Alike == Permutations(Pulls) \union Permutations(Files)
=============================================================================
