----------------------------- MODULE MCRecording -----------------------------
(***************************************************************************)
(* A small instance of Microphone. Dictation is looked at twice: one       *)
(* session beside a replacement of the assistant's, where something may    *)
(* fail, and two sessions, where nothing does.                             *)
(***************************************************************************)
EXTENDS Microphone

CONSTANTS
  said, next,    \* dictations
  swap,          \* a replacement
  plain, styled  \* what the user copies

Scope(sessions, acts, copies, failures) ==
  [sessions |-> sessions, acts |-> acts, copies |-> copies, faults |-> failures]

DictationScopes ==
  [p \in {"selections", "sessions"} |->
     IF p = "selections" THEN Scope({said}, {swap}, {plain, styled}, 1)
     ELSE Scope({said, next}, {}, {styled}, 0)]
=============================================================================
