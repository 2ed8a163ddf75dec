----------------------------- MODULE VaultMirror -----------------------------
(***************************************************************************)
(* One meeting mirrored to a folder of markdown files that its user edits: *)
(* requests that write it, the check that refuses a file which is no       *)
(* longer what was last written, and the three answers to a refusal.       *)
(*                                                                         *)
(* A file name comes from the meeting's title, so that each title has a    *)
(* file, an external item and at most one divergence of its own. Contents  *)
(* stand for their fingerprints. Every edit of the user is a new content.  *)
(***************************************************************************)
EXTENDS Integers, FiniteSets

CONSTANTS
  Titles,     \* titles the meeting is given, each with a file name of its own
  MaxRender,  \* what the meeting renders to, 1 at first; bounds how often it changes
  TitleOf,    \* the title each render has at its head
  Edits,      \* contents the user writes; bounds how many edits there are
  Requests,   \* requests and background drains at a time, each with an outbox row
  None,       \* no content: no file, no baseline
  MaxFaults   \* bound: crashes, failed statements, unreadable and deleted files

Renders  == 1..MaxRender
Contents == Renders \union Edits

ASSUME VaultAssumption ==
  /\ MaxRender \in Nat \ {0}
  /\ Renders \intersect Edits = {} /\ None \notin Contents \union Titles \union Requests
  /\ TitleOf \in [Renders -> Titles]
  /\ MaxFaults \in Nat

VARIABLES
  render,     \* what the meeting renders to, title and all
  file,       \* content of the file of each title
  base,       \* remote_version of the external item of each title
  linked,     \* titles whose item the meeting is SyncedTo
  div,        \* divergence of each item: the path it names and whether it is open
  row,        \* outbox row of each request, with its payload
  pc, batch, cur, exist, known,       \* of each drain: its row, the item it found, that item's baseline
  choice, item, edited,               \* of each answer
  notes,      \* edits saved as notes
  agreed,     \* edits the user agreed to have replaced, with the resolution that said so
  unguarded,  \* edits made past the check of a push, or met by one with nothing to check against
  faults

drainVars   == <<batch, cur, exist, known>>
answerVars  == <<choice, item, edited>>
ghostVars   == <<agreed, unguarded>>
vars == <<render, file, base, linked, div, row, pc, drainVars, answerVars, notes, ghostVars,
          faults>>

Resolutions == {"kept", "overwritten", "copied_to_note"}
Steps == {"idle", "claim", "look", "check", "write", "record", "link",
          "copy", "adopt", "settle", "push"}
NoRow == [status |-> "none", render |-> None]
Rows  == {NoRow} \union [status : {"pending", "leased"}, render : Renders]
NoDivergence == [status |-> "none", path |-> None]
Divergences  == {NoDivergence} \union [status : {"open"} \union Resolutions, path : Titles]

\* Types; a row in a batch is leased, and in one batch only.
TypeOK ==
  /\ render \in Renders
  /\ file \in [Titles -> Contents \union {None}]
  /\ base \in [Titles -> Contents \union {None}]
  /\ linked \in SUBSET Titles
  /\ div \in [Titles -> Divergences]
  /\ row \in [Requests -> Rows]
  /\ pc \in [Requests -> Steps]
  /\ batch \in [Requests -> SUBSET Requests]
  /\ cur \in [Requests -> Requests \union {None}]
  /\ exist \in [Requests -> Titles \union {None}]
  /\ known \in [Requests -> Contents \union {None}]
  /\ choice \in [Requests -> Resolutions \union {None}]
  /\ item \in [Requests -> Titles \union {None}]
  /\ edited \in [Requests -> Contents \union {None}]
  /\ notes \in SUBSET Edits
  /\ agreed \in SUBSET (Edits \X Resolutions)
  /\ unguarded \in SUBSET Edits
  /\ faults \in 0..MaxFaults
  /\ \A q \in Requests : \A r \in batch[q] :
       row[r].status = "leased" /\ \A p \in Requests \ {q} : r \notin batch[p]

Init ==
  /\ render = 1
  /\ file = [t \in Titles |-> None]
  /\ base = [t \in Titles |-> None]
  /\ linked = {}
  /\ div = [t \in Titles |-> NoDivergence]
  /\ row = [q \in Requests |-> NoRow]
  /\ pc = [q \in Requests |-> "idle"]
  /\ batch = [q \in Requests |-> {}]
  /\ cur = [q \in Requests |-> None]
  /\ exist = [q \in Requests |-> None]
  /\ known = [q \in Requests |-> None]
  /\ choice = [q \in Requests |-> None]
  /\ item = [q \in Requests |-> None]
  /\ edited = [q \in Requests |-> None]
  /\ notes = {} /\ agreed = {} /\ unguarded = {}
  /\ faults = 0

Goto(q, step) == pc' = [pc EXCEPT ![q] = step]
Target(q)     == TitleOf[row[cur[q]].render]

Fault == faults < MaxFaults /\ faults' = faults + 1
-----------------------------------------------------------------------------
(* The user, outside the program and in it. *)

\* The meeting is renamed, or its notes change.
Rewrite ==
  /\ render < MaxRender /\ render' = render + 1
  /\ UNCHANGED <<file, base, linked, div, row, pc, drainVars, answerVars, notes, ghostVars, faults>>

\* An edit of a file the mirror made, never one made before. Nothing can guard it from a push that
\* has checked the file already.
UserEdits(t) ==
  /\ file[t] # None
  /\ \E e \in Edits :
       /\ e \notin notes \union unguarded \union {a[1] : a \in agreed}
       /\ \A s \in Titles : e \notin {file[s], base[s]}
       /\ \A q \in Requests : e # edited[q]
       /\ file' = [file EXCEPT ![t] = e]
       /\ unguarded' = IF \E q \in Requests : pc[q] = "write" /\ Target(q) = t
                       THEN unguarded \union {e} ELSE unguarded
  /\ UNCHANGED <<render, base, linked, div, row, pc, drainVars, answerVars, notes, agreed,
                 faults>>

UserDeletes(t) ==
  /\ file[t] # None /\ Fault
  /\ file' = [file EXCEPT ![t] = None]
  /\ UNCHANGED <<render, base, linked, div, row, pc, drainVars, answerVars, notes, ghostVars>>
-----------------------------------------------------------------------------
(* Pushing: mirror_meeting, and Dispatcher::drain with the vault as its sink. *)

\* A row of its own, under a key no other has, and a drain.
Enqueue(q) ==
  /\ row[q] = NoRow
  /\ row' = [row EXCEPT ![q] = [status |-> "pending", render |-> render]]
  /\ Goto(q, "claim")

\* mirror_meeting.
Mirror(q) ==
  /\ pc[q] = "idle" /\ Enqueue(q)
  /\ UNCHANGED <<render, file, base, linked, div, drainVars, answerVars, notes, ghostVars,
                 faults>>

\* The background pass, which enqueues nothing.
DrainOnce(q) ==
  /\ pc[q] = "idle" /\ \E r \in Requests : row[r].status = "pending"
  /\ Goto(q, "claim")
  /\ UNCHANGED <<render, file, base, linked, div, row, drainVars, answerVars, notes, ghostVars,
                 faults>>

\* A claim that does not lease.
ClaimUnleased(q) ==
  /\ pc[q] = "claim"
  /\ batch' = [batch EXCEPT ![q] = {r \in Requests : row[r].status # "none"}]
  /\ row' = [r \in Requests |-> IF r \in batch'[q] THEN [row[r] EXCEPT !.status = "leased"]
                                                  ELSE row[r]]
  /\ Goto(q, IF batch'[q] = {} THEN "idle" ELSE "look")
  /\ UNCHANGED <<render, file, base, linked, div, cur, exist, known, answerVars, notes,
                 ghostVars, faults>>

Claim(q) ==
  /\ pc[q] = "claim"
  /\ batch' = [batch EXCEPT ![q] = {r \in Requests : row[r].status = "pending"}]
  /\ row' = [r \in Requests |-> IF r \in batch'[q] THEN [row[r] EXCEPT !.status = "leased"]
                                                  ELSE row[r]]
  /\ Goto(q, IF batch'[q] = {} THEN "idle" ELSE "look")
  /\ UNCHANGED <<render, file, base, linked, div, cur, exist, known, answerVars, notes,
                 ghostVars, faults>>

\* existing_item: any item the meeting is linked to, in no stated order. Without one the push has
\* nothing to check the file against and writes.
Look(q) ==
  /\ pc[q] = "look"
  /\ \E r \in batch[q] :
       /\ cur' = [cur EXCEPT ![q] = r]
       /\ unguarded' = IF linked = {} THEN unguarded \union ({file[TitleOf[row[r].render]]} \intersect Edits)
                                      ELSE unguarded
  /\ \E i \in IF linked = {} THEN {None} ELSE linked :
       /\ exist' = [exist EXCEPT ![q] = i]
       /\ known' = [known EXCEPT ![q] = IF i = None THEN None ELSE base[i]]
       /\ Goto(q, IF i = None THEN "write" ELSE "check")
  /\ UNCHANGED <<render, file, base, linked, div, row, batch, answerVars, notes, agreed, faults>>

\* The row in hand is complete or dead-lettered, and the drain goes on to the next.
RowDone(q) ==
  /\ row' = [row EXCEPT ![cur[q]] = NoRow]
  /\ batch' = [batch EXCEPT ![q] = @ \ {cur[q]}]
  /\ cur' = [cur EXCEPT ![q] = None]
  /\ exist' = [exist EXCEPT ![q] = None]
  /\ known' = [known EXCEPT ![q] = None]
  /\ Goto(q, IF batch'[q] = {} THEN "idle" ELSE "look")

\* A check that never refuses.
UnchangedAlways(q) == TRUE

\* What is in the file is what was last written there, or nothing is.
Unchanged(q) == file[Target(q)] \in {None, known[q]}

Passes(q) ==
  /\ pc[q] = "check" /\ Unchanged(q)
  /\ exist' = [exist EXCEPT ![q] = None]
  /\ known' = [known EXCEPT ![q] = None]
  /\ Goto(q, "write")
  /\ UNCHANGED <<render, file, base, linked, div, row, batch, cur, answerVars, notes, ghostVars,
                 faults>>

\* record_divergence: one row for each item. A settled one takes the new path and stays settled.
RecordDivergence(i, t) ==
  div' = [div EXCEPT ![i] = [status |-> IF @.status = "none" THEN "open" ELSE @.status,
                             path   |-> IF @.status = "open" THEN @.path ELSE t]]

\* Refused, recorded and given up on.
Refuse(q) ==
  /\ file[Target(q)] # None
  /\ RecordDivergence(exist[q], Target(q))
  /\ RowDone(q)
  /\ UNCHANGED <<render, file, base, linked, answerVars, notes, ghostVars>>

\* The file differs from what was last written.
RefuseEdited(q) == pc[q] = "check" /\ ~Unchanged(q) /\ Refuse(q) /\ UNCHANGED faults

\* It does not, but cannot be read.
RefuseUnreadable(q) == pc[q] = "check" /\ Unchanged(q) /\ Refuse(q) /\ Fault

Write(q) ==
  /\ pc[q] = "write"
  /\ file' = [file EXCEPT ![Target(q)] = row[cur[q]].render]
  /\ Goto(q, "record")
  /\ UNCHANGED <<render, base, linked, div, row, drainVars, answerVars, notes, ghostVars,
                 faults>>

\* The folder is gone, or the statement that records the push fails: not retried.
Fails(q) ==
  /\ pc[q] \in {"write", "record", "link"} /\ Fault
  /\ RowDone(q)
  /\ UNCHANGED <<render, file, base, linked, div, answerVars, notes, ghostVars>>

\* upsert of the external item, with the fingerprint of what was written.
Record(q) ==
  /\ pc[q] = "record"
  /\ base' = [base EXCEPT ![Target(q)] = row[cur[q]].render]
  /\ Goto(q, "link")
  /\ UNCHANGED <<render, file, linked, div, row, drainVars, answerVars, notes, ghostVars,
                 faults>>

\* The SyncedTo edge, and the row is complete.
Link(q) ==
  /\ pc[q] = "link"
  /\ linked' = linked \union {Target(q)}
  /\ RowDone(q)
  /\ UNCHANGED <<render, file, base, div, answerVars, notes, ghostVars, faults>>
-----------------------------------------------------------------------------
(* Answering a divergence: resolve. *)

\* An open divergence, one of three answers, and the file as it is now. None when it cannot be read,
\* which only keeping it allows.
Answer(q, i, how) ==
  /\ pc[q] = "idle" /\ div[i].status = "open"
  /\ how = "kept" \/ file[div[i].path] # None
  /\ choice' = [choice EXCEPT ![q] = how]
  /\ item' = [item EXCEPT ![q] = i]
  /\ edited' = [edited EXCEPT ![q] = IF how = "kept" THEN None ELSE file[div[i].path]]
  /\ Goto(q, [kept |-> "settle", overwritten |-> "adopt", copied_to_note |-> "copy"][how])
  /\ UNCHANGED <<render, file, base, linked, div, row, drainVars, notes, ghostVars, faults>>

\* A copy of the meeting's own render in place of what the user wrote.
CopyRender(q) ==
  /\ pc[q] = "copy"
  /\ Goto(q, "adopt")
  /\ UNCHANGED <<render, file, base, linked, div, row, drainVars, answerVars, notes, ghostVars,
                 faults>>

Copy(q) ==
  /\ pc[q] = "copy"
  /\ notes' = notes \union ({edited[q]} \intersect Edits)
  /\ Goto(q, "adopt")
  /\ UNCHANGED <<render, file, base, linked, div, row, drainVars, answerVars, ghostVars,
                 faults>>

\* What was read becomes the baseline, so that the push to come finds it unchanged.
Adopt(q) ==
  /\ pc[q] = "adopt"
  /\ base' = [base EXCEPT ![item[q]] = edited[q]]
  /\ agreed' = agreed \union (({edited[q]} \intersect Edits) \X {choice[q]})
  /\ edited' = [edited EXCEPT ![q] = None]
  /\ Goto(q, "settle")
  /\ UNCHANGED <<render, file, linked, div, row, drainVars, choice, item, notes, unguarded,
                 faults>>

Forget(q) ==
  /\ choice' = [choice EXCEPT ![q] = None]
  /\ item' = [item EXCEPT ![q] = None]
  /\ edited' = [edited EXCEPT ![q] = None]

\* resolve_divergence, and on to the push unless the file is kept. Someone may have settled it
\* first, which ends the request.
Settle(q) ==
  /\ pc[q] = "settle"
  /\ IF div[item[q]].status = "open"
     THEN /\ div' = [div EXCEPT ![item[q]].status = choice[q]]
          /\ Goto(q, IF choice[q] = "kept" THEN "idle" ELSE "push")
     ELSE /\ Goto(q, "idle") /\ UNCHANGED div
  /\ Forget(q)
  /\ UNCHANGED <<render, file, base, linked, row, drainVars, notes, ghostVars, faults>>

\* The push an answer ends with.
PushAgain(q) ==
  /\ pc[q] = "push" /\ Enqueue(q)
  /\ UNCHANGED <<render, file, base, linked, div, drainVars, answerVars, notes, ghostVars,
                 faults>>
-----------------------------------------------------------------------------
(* Requests that end halfway. A lease they held lapses later. *)

Stop(Q) ==
  LET But(f, v) == [q \in Requests |-> IF q \in Q THEN v ELSE f[q]]
  IN /\ Fault
     /\ pc' = But(pc, "idle")
     /\ batch' = But(batch, {})
     /\ cur' = But(cur, None)
     /\ exist' = But(exist, None)
     /\ known' = But(known, None)
     /\ choice' = But(choice, None)
     /\ item' = But(item, None)
     /\ edited' = But(edited, None)
     /\ UNCHANGED <<render, file, base, linked, div, row, notes, ghostVars>>

\* An answer whose caller went away or whose statement failed, or a drain that could not write a
\* failure down.
Abandon(q) == pc[q] # "idle" /\ Stop({q})

\* The process dies.
Crash == Stop(Requests)

LeaseLapses(r) ==
  /\ row[r].status = "leased" /\ \A q \in Requests : r \notin batch[q]
  /\ row' = [row EXCEPT ![r].status = "pending"]
  /\ UNCHANGED <<render, file, base, linked, div, pc, drainVars, answerVars, notes, ghostVars,
                 faults>>

Next ==
  \/ Rewrite \/ Crash
  \/ \E t \in Titles : UserEdits(t) \/ UserDeletes(t)
  \/ \E q \in Requests :
       \/ Mirror(q) \/ DrainOnce(q) \/ Claim(q) \/ Look(q) \/ Passes(q)
       \/ RefuseEdited(q) \/ RefuseUnreadable(q)
       \/ Write(q) \/ Fails(q) \/ Record(q) \/ Link(q)
       \/ \E i \in Titles, how \in Resolutions : Answer(q, i, how)
       \/ Copy(q) \/ Adopt(q) \/ Settle(q) \/ PushAgain(q) \/ LeaseLapses(q)
       \/ Abandon(q)

Spec == Init /\ [][Next]_vars
-----------------------------------------------------------------------------
(* Properties. *)

AgreedBy(hows) == {e \in Edits : \E how \in hows : <<e, how>> \in agreed}

\* The mirror never overwrites something the user wrote, unless the user said so, or no check could
\* see it: it was written past the check, or the push found no item to check against.
EditsAreKept ==
  [][\A t \in Titles :
       file[t] \in Edits /\ file'[t] \in Renders
         => file[t] \in AgreedBy(Resolutions) \union unguarded]_vars

\* An edit overwritten on the word of a copy alone is in a note.
CopyLosesNothing ==
  [][\A t \in Titles :
       file[t] \in Edits /\ file'[t] \in Renders
         => file[t] \in AgreedBy({"overwritten"}) \union unguarded \union notes]_vars

\* A baseline is a render the mirror wrote or an edit the user agreed to have replaced.
BaselineIsOurs ==
  \A t \in Titles : base[t] \in Edits => base[t] \in AgreedBy(Resolutions)

\* Diverging again after a decision is a new decision to make, unless the decision was to stop.
DivergesAgain ==
  [][\A q \in Requests :
       RefuseEdited(q) /\ file[Target(q)] \in Edits /\ div[exist[q]].status # "kept"
         => div'[exist[q]].status = "open"]_vars
=============================================================================
