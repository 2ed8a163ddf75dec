------------------------------ MODULE Indexing ------------------------------
(***************************************************************************)
(* The semantic index: vectors of what meetings and notes said when a pass *)
(* last read them. A pass lists what has changed under the database lock,  *)
(* lets go of it, and writes the vectors back one entity at a time, each   *)
(* after a model call. Edits, the trash and the purge go on meanwhile.     *)
(*                                                                         *)
(* A text is the number of edits behind it. The clock ticks once a second. *)
(***************************************************************************)
EXTENDS Integers, FiniteSets

CONSTANTS
  Entities,  \* the meetings and notes there are
  Passes,    \* the passes that may be under way
  None,
  Slack,     \* how close two clocks read as the same one: a second
  Quiet,     \* how long the workspace is quiet before a pass starts by itself
  MaxEdits,  \* bound: edits of one entity
  MaxNow,    \* bound: the clock
  MaxFaults  \* bound: passes that fail, and crashes

ASSUME IndexingAssumption ==
  /\ Slack \in Nat /\ Quiet \in Nat /\ MaxEdits \in Nat /\ MaxNow \in Nat /\ MaxFaults \in Nat
  /\ None \notin [text : Nat, stamp : Nat] /\ None \notin Nat

VARIABLES
  meetings, \* which entities are meetings; the others are notes
  now,
  life,    \* "live", "trashed" or "purged"
  text,    \* what the entity says
  stamp,   \* updated_at
  ended,   \* meetings that are over
  vector,  \* the chunks stored for the entity: the text and the updated_at it had, or None
  timer,   \* when the touch that was last made may start a pass, or None
  status,  \* IndexManager's: "idle", "running", "done" or "failed"
  pass,    \* how far each pass is, and what it has left to write
  unseen,  \* ghost: entities changed in a way that the next pass need not notice
  faults

notes   == Entities \ meetings
content == <<meetings, life, text, stamp, ended>>
vars    == <<now, content, vector, timer, status, pass, unseen, faults>>

Copies    == [entity : Entities, text : 0..MaxEdits, stamp : 0..MaxNow]
Stored    == [text : 0..MaxEdits, stamp : 0..MaxNow]
Away      == [step |-> "away", todo |-> {}]
CopyOf(e) == [entity |-> e, text |-> text[e], stamp |-> stamp[e]]

\* A copy of what e said is in the hands of a pass.
Held(e) == \E r \in Passes : \E c \in pass[r].todo : c.entity = e

TypeOK ==
  /\ meetings \subseteq Entities /\ ended \subseteq meetings
  /\ now \in 0..MaxNow
  /\ life \in [Entities -> {"live", "trashed", "purged"}]
  /\ text \in [Entities -> 0..MaxEdits]
  /\ stamp \in [Entities -> 0..MaxNow]
  /\ vector \in [Entities -> Stored \union {None}]
  /\ timer \in 0..(MaxNow + Quiet) \union {None}
  /\ status \in {"idle", "running", "done", "failed"}
  /\ pass \in [Passes -> [step : {"away", "checked", "begun", "writing"}, todo : SUBSET Copies]]
  /\ \A r \in Passes : pass[r].todo # {} => pass[r].step = "writing"
  /\ unseen \subseteq Entities
  /\ faults \in 0..MaxFaults

Init ==
  /\ meetings \in SUBSET Entities
  /\ now = 0
  /\ life = [e \in Entities |-> "live"]
  /\ text = [e \in Entities |-> 0]
  /\ stamp = [e \in Entities |-> 0]
  /\ ended \in SUBSET meetings
  /\ vector = [e \in Entities |-> None]
  /\ timer = None /\ status = "idle"
  /\ pass = [r \in Passes |-> Away]
  /\ unseen = {} /\ faults = 0

\* touch: the generation moves, so that of the timers that sleep only the newest will act.
Touch == timer' = now + Quiet

\* is_current: a vector is there, and no more than Slack older than its entity.
IsCurrent(e) == vector[e] # None /\ vector[e].stamp + Slack >= stamp[e]

\* collect_pending, as it would judge e now.
Pending(e) == life[e] = "live" /\ ~IsCurrent(e)

\* An edit that a pass in flight overtakes.
Overtakes(e) == unseen' = IF Held(e) THEN unseen \union {e} ELSE unseen

\* And one that comes so soon after the one before it that the clocks read the same.
OvertakesOrTooSoon(e) ==
  unseen' = IF Held(e) \/ (vector[e] # None /\ vector[e].stamp + Slack >= now)
            THEN unseen \union {e} ELSE unseen

Tick ==
  /\ now < MaxNow
  /\ now' = now + 1
  /\ UNCHANGED <<content, vector, timer, status, pass, unseen, faults>>
-----------------------------------------------------------------------------
(* Edits. *)

Edited(e) == text[e] < MaxEdits /\ text' = [text EXCEPT ![e] = @ + 1]

\* update_note: refused in the trash. The vectors stay, and updated_at tells.
UpdateNote(e) ==
  /\ e \in notes /\ life[e] = "live"
  /\ Edited(e)
  /\ stamp' = [stamp EXCEPT ![e] = now]
  /\ OvertakesOrTooSoon(e) /\ Touch
  /\ UNCHANGED <<meetings, now, life, ended, vector, status, pass, faults>>

\* An edit of a transcript that leaves the meeting's vectors.
CorrectInPlace(e) ==
  /\ e \in meetings /\ life[e] # "purged"
  /\ Edited(e)
  /\ Overtakes(e) /\ Touch
  /\ UNCHANGED <<meetings, now, life, stamp, ended, vector, status, pass, faults>>

\* set_segment_text and rename_speaker: updated_at stays, and the meeting's vectors go.
Correct(e) ==
  /\ e \in meetings /\ life[e] # "purged"
  /\ Edited(e)
  /\ vector' = [vector EXCEPT ![e] = None]
  /\ Overtakes(e) /\ Touch
  /\ UNCHANGED <<meetings, now, life, stamp, ended, status, pass, faults>>

\* set_title: both.
SetTitle(e) ==
  /\ e \in meetings /\ life[e] # "purged"
  /\ Edited(e)
  /\ stamp' = [stamp EXCEPT ![e] = now]
  /\ vector' = [vector EXCEPT ![e] = None]
  /\ Overtakes(e) /\ Touch
  /\ UNCHANGED <<meetings, now, life, ended, status, pass, faults>>

\* append_segments: neither. A meeting in the trash, or one that is over, takes them too.
Append(e) ==
  /\ e \in meetings /\ life[e] # "purged"
  /\ Edited(e)
  /\ unseen' = IF vector[e] # None \/ Held(e) THEN unseen \union {e} ELSE unseen
  /\ Touch
  /\ UNCHANGED <<meetings, now, life, stamp, ended, vector, status, pass, faults>>

\* end: once. Nothing is touched.
End(e) ==
  /\ e \in meetings \ ended /\ life[e] # "purged"
  /\ ended' = ended \union {e}
  /\ stamp' = [stamp EXCEPT ![e] = now]
  /\ UNCHANGED <<meetings, now, life, text, vector, timer, status, pass, unseen, faults>>
-----------------------------------------------------------------------------
(* The trash. *)

\* delete_note and delete_meeting without purge: a meeting's vectors go at once, a note's stay. What
\* is in the trash already keeps its times.
Trash(e) ==
  /\ life[e] # "purged"
  /\ life' = [life EXCEPT ![e] = "trashed"]
  /\ IF e \in meetings
     THEN /\ stamp' = [stamp EXCEPT ![e] = IF life[e] = "live" THEN now ELSE @]
          /\ vector' = [vector EXCEPT ![e] = None]
          /\ UNCHANGED timer
     ELSE Touch /\ UNCHANGED <<stamp, vector>>
  /\ UNCHANGED <<meetings, now, text, ended, status, pass, unseen, faults>>

\* restore_note and restore_meeting, in the trash or not: only the note's touches.
Restore(e) ==
  /\ life[e] # "purged"
  /\ life' = [life EXCEPT ![e] = "live"]
  /\ IF e \in meetings
     THEN stamp' = [stamp EXCEPT ![e] = now] /\ UNCHANGED timer
     ELSE Touch /\ UNCHANGED stamp
  /\ UNCHANGED <<meetings, now, text, ended, vector, status, pass, unseen, faults>>

\* delete_note and delete_meeting with purge, under one taking of the lock.
Purge(e) ==
  /\ life[e] # "purged"
  /\ life' = [life EXCEPT ![e] = "purged"]
  /\ vector' = [vector EXCEPT ![e] = None]
  /\ IF e \in notes THEN Touch ELSE UNCHANGED timer
  /\ Overtakes(e)
  /\ UNCHANGED <<meetings, now, text, stamp, ended, status, pass, faults>>

\* empty_trash: everything in it.
EmptyTrash ==
  LET trashed == {e \in Entities : life[e] = "trashed"}
  IN /\ trashed # {}
     /\ life' = [e \in Entities |-> IF e \in trashed THEN "purged" ELSE life[e]]
     /\ vector' = [e \in Entities |-> IF e \in trashed THEN None ELSE vector[e]]
     /\ unseen' = unseen \union {e \in trashed : Held(e)}
     /\ UNCHANGED <<meetings, now, text, stamp, ended, timer, status, pass, faults>>
-----------------------------------------------------------------------------
(* Passes. *)

\* start asks whether a pass is running, and answers with that one if it is.
Call(r) ==
  /\ pass[r].step = "away"
  /\ IF status = "running" THEN UNCHANGED pass
     ELSE pass' = [pass EXCEPT ![r].step = "checked"]

\* build_index, whenever a person asks.
Build(r) ==
  /\ status # "running"
  /\ Call(r)
  /\ UNCHANGED <<now, content, vector, timer, status, unseen, faults>>

\* A touch whose time is up and that no later one replaced: nothing, when there is no index.
Fire(r) ==
  /\ timer # None /\ timer <= now
  /\ timer' = None
  /\ IF \A e \in Entities : vector[e] = None THEN UNCHANGED pass ELSE Call(r)
  /\ UNCHANGED <<now, content, vector, status, unseen, faults>>

\* start sets the status in another taking of its lock, and spawns run.
Begin(r) ==
  /\ pass[r].step = "checked"
  /\ status' = "running"
  /\ pass' = [pass EXCEPT ![r].step = "begun"]
  /\ UNCHANGED <<now, content, vector, timer, unseen, faults>>

\* run: everything that is pending, read under one taking of the database lock.
Collect(r) ==
  /\ pass[r].step = "begun"
  /\ pass' = [pass EXCEPT ![r] = [step |-> "writing", todo |-> {CopyOf(e) : e \in {e \in Entities : Pending(e)}}]]
  /\ UNCHANGED <<now, content, vector, timer, status, unseen, faults>>

\* replace_for_entity: nothing asks whether the entity still says this, or is still there.
Write(r) ==
  \E c \in pass[r].todo :
    /\ vector' = [vector EXCEPT ![c.entity] = [text |-> c.text, stamp |-> c.stamp]]
    /\ pass' = [pass EXCEPT ![r].todo = @ \ {c}]
    /\ UNCHANGED <<now, content, timer, status, unseen, faults>>

\* Everything collected is written.
Finish(r) ==
  /\ pass[r].step = "writing" /\ pass[r].todo = {}
  /\ pass' = [pass EXCEPT ![r] = Away]
  /\ status' = "done"
  /\ UNCHANGED <<now, content, vector, timer, unseen, faults>>

\* A pass that leaves without a word.
FailSilently(r) ==
  /\ pass[r].step \in {"begun", "writing"}
  /\ faults < MaxFaults /\ faults' = faults + 1
  /\ pass' = [pass EXCEPT ![r] = Away]
  /\ UNCHANGED <<now, content, vector, timer, status, unseen>>

\* There is no embedder, a batch cannot be embedded, or the rows not written.
Fail(r) ==
  /\ pass[r].step \in {"begun", "writing"}
  /\ faults < MaxFaults /\ faults' = faults + 1
  /\ pass' = [pass EXCEPT ![r] = Away]
  /\ status' = "failed"
  /\ UNCHANGED <<now, content, vector, timer, unseen>>

\* clear_index: a pass under way is not told.
Clear ==
  /\ \E e \in Entities : vector[e] # None
  /\ vector' = [e \in Entities |-> None]
  /\ UNCHANGED <<now, content, timer, status, pass, unseen, faults>>

\* The process dies: what it kept in memory goes.
Crash ==
  /\ faults < MaxFaults /\ faults' = faults + 1
  /\ pass' = [r \in Passes |-> Away]
  /\ timer' = None /\ status' = "idle"
  /\ UNCHANGED <<now, content, vector, unseen>>

PassStep(r) == Begin(r) \/ Collect(r) \/ Write(r) \/ Finish(r)

Next ==
  \/ \E e \in Entities :
       \/ UpdateNote(e) \/ Correct(e) \/ SetTitle(e) \/ Append(e) \/ End(e)
       \/ Trash(e) \/ Restore(e) \/ Purge(e)
  \/ EmptyTrash \/ Clear \/ Crash \/ Tick
  \/ \E r \in Passes : Build(r) \/ Fire(r) \/ PassStep(r) \/ Fail(r)

Spec == Init /\ [][Next]_vars

\* A pass that began goes on: each of its steps is the next await of a task that runs.
FairSpec == Spec /\ \A r \in Passes : WF_vars(PassStep(r))
-----------------------------------------------------------------------------
(* Properties. *)

\* Every vector tells what its entity says, or the next pass will see that it does not, or the
\* change was one of those that no pass notices: lines appended, an edit within the second, and
\* one that a pass in flight overtook. In particular a purge leaves no text of what it destroyed.
VectorsAreCurrent ==
  \A e \in Entities :
    vector[e] # None =>
      \/ e \in unseen
      \/ life[e] # "purged" /\ vector[e].text = text[e]
      \/ life[e] # "purged" /\ ~IsCurrent(e)

\* A pass in flight ends and says so, or none could ever be started again.
PassEnds == status = "running" ~> status # "running"

\* What was purged has left no text in the index once no pass is under way.
PurgedLeavesNoText ==
  \A e \in Entities : life[e] = "purged" /\ (\A r \in Passes : pass[r] = Away) => vector[e] = None
=============================================================================
