------------------------------ MODULE Dictation ------------------------------
(***************************************************************************)
(* Dictation: a thread listens, a stop waits for it and puts the words at  *)
(* the cursor, if need be by way of the clipboard, which is the user's.    *)
(*                                                                         *)
(* The slot of the one session is emptied before its thread has ended and  *)
(* before its words are placed, so a second may listen and be placed       *)
(* meanwhile; and the assistant places its replacements with no session at *)
(* all. The hotkey's thread keeps a flag of its own for whether the engine *)
(* listens, and the box of the application starts and stops sessions that  *)
(* the flag knows nothing of.                                              *)
(***************************************************************************)
EXTENDS Naturals, FiniteSets

CONSTANTS
  Sessions,  \* the dictations there may be, each with its words
  Acts,      \* replacements the assistant makes of selected text
  Copies,    \* what the user copies
  Rich,      \* those of the copies that a snapshot cannot capture whole
  None,
  MaxFaults  \* bound: things that fail

Texts == Sessions \union Acts

DictationAssumption ==
  /\ Rich \subseteq Copies /\ None \notin Texts \union Copies /\ MaxFaults \in Nat
  /\ Sessions \intersect Acts = {}
  /\ (Sessions \union {None}) \intersect {"ok", "conflict", "failed"} = {}

VARIABLES
  live,      \* the session in the slot, or None
  boxed,     \* sessions started for a box: their words are not placed
  thread,    \* the thread of each session: "none", "capturing", "ended" or "failed"
  stopping,  \* sessions whose stop flag is set
  late,      \* sessions past MAX_SESSION_SECS
  step,      \* how far the handler that ends a session, or replaces a selection, is
  clipboard, \* what it holds, and whether that is all of it
  snap,      \* the clipboard as each insertion in hand found it, or None
  flag,      \* whether the hotkey's thread takes the engine to be listening
  press,     \* the answer a press of the hotkey waits for, the session it ends, or None
  copied,    \* ghost: what the user copied last
  mixed,     \* ghost: texts whose insertion met another or the user copying, and none has copied since
  warned,    \* ghost: the user was told, since copying, that the clipboard is not as it was
  amiss,     \* ghost: since the last press, the engine was driven by another, or a press failed
  faults

engine == <<live, boxed, thread, stopping, late>>
placing == <<clipboard, snap>>
ghosts == <<copied, mixed, warned>>
hotkey == <<flag, press>>
vars == <<engine, step, placing, hotkey, ghosts, amiss, faults>>

Whole(c)   == [of |-> c, whole |-> TRUE]
Empty      == Whole(None)
Contents   == [of : Texts \union Copies \union {None}, whole : BOOLEAN]
Borrowing  == {"snapped", "written", "pasted"}
Borrowers  == {x \in Texts : step[x] \in Borrowing}
Replies    == {"done", "error", "left"}

TypeOK ==
  /\ live \in Sessions \union {None}
  /\ boxed \subseteq Sessions /\ stopping \subseteq Sessions /\ late \subseteq Sessions
  /\ thread \in [Sessions -> {"none", "capturing", "ended", "failed"}]
  /\ step \in [Texts -> {"none", "awaiting", "cancelling", "ready"} \union Borrowing \union Replies]
  /\ clipboard \in Contents
  /\ snap \in [Texts -> Contents \union {None}]
  /\ flag \in BOOLEAN /\ press \in Sessions \union {None, "ok", "conflict", "failed"}
  /\ copied \in Copies \union {None} /\ mixed \subseteq Texts
  /\ warned \in BOOLEAN /\ amiss \in BOOLEAN
  /\ faults \in 0..MaxFaults

Init ==
  /\ live = None /\ boxed = {} /\ stopping = {} /\ late = {}
  /\ thread = [s \in Sessions |-> "none"] /\ step = [x \in Texts |-> "none"]
  /\ clipboard = Empty /\ snap = [x \in Texts |-> None]
  /\ flag = FALSE /\ press = None
  /\ copied = None /\ mixed = {} /\ warned = FALSE /\ amiss = FALSE /\ faults = 0

Fault   == faults < MaxFaults /\ faults' = faults + 1
NoFault == UNCHANGED faults
-----------------------------------------------------------------------------
(* The engine: the slot and the threads. *)

\* start, under the slot's lock from the check to the end.
Start(s) ==
  /\ live = None /\ thread[s] = "none"
  /\ live' = s
  /\ thread' = [thread EXCEPT ![s] = "capturing"]
  /\ UNCHANGED <<stopping, late>>

\* take_session: the slot is emptied and the flag set, and then the handler waits.
TakeSession(s, as) ==
  /\ live = s
  /\ live' = None
  /\ stopping' = stopping \union {s}
  /\ step' = [step EXCEPT ![s] = as]
  /\ UNCHANGED <<boxed, thread, late>>

\* Time passes.
Expire(s) ==
  /\ thread[s] = "capturing" /\ s \notin late
  /\ late' = late \union {s}
  /\ UNCHANGED <<live, boxed, thread, stopping, step, placing, hotkey, ghosts, amiss, faults>>

\* A thread that ends when it is told to, and not of itself.
EndWhenTold(s) ==
  /\ thread[s] = "capturing" /\ s \in stopping
  /\ thread' = [thread EXCEPT ![s] = "ended"]
  /\ UNCHANGED <<live, boxed, stopping, late, step, placing, hotkey, ghosts, amiss, faults>>

\* The thread sees the flag or the deadline, reads the tail, lets the microphone go and flushes.
\* A session that ended of itself stays in the slot.
End(s) ==
  /\ thread[s] = "capturing" /\ s \in stopping \union late
  /\ thread' = [thread EXCEPT ![s] = "ended"]
  /\ UNCHANGED <<live, boxed, stopping, late, step, placing, hotkey, ghosts, amiss, faults>>

\* The microphone goes away, and what was heard is kept; or it or the engine fails.
Break(s) ==
  /\ thread[s] = "capturing" /\ Fault
  /\ \E how \in {"ended", "failed"} : thread' = [thread EXCEPT ![s] = how]
  /\ UNCHANGED <<live, boxed, stopping, late, step, placing, hotkey, ghosts, amiss>>

\* The handler has the thread's result. A cancel throws it away; nothing heard, or words that a box
\* asked for, are answered; other words are cleaned, which may wait for a model, and placed.
Hand(s) ==
  /\ step[s] \in {"awaiting", "cancelling"} /\ thread[s] \in {"ended", "failed"}
  /\ \/ thread[s] = "failed" /\ step' = [step EXCEPT ![s] = "error"]
     \/ thread[s] = "ended" /\ step' = [step EXCEPT ![s] = "done"]
     \/ thread[s] = "ended" /\ step[s] = "awaiting" /\ s \notin boxed /\ step' = [step EXCEPT ![s] = "ready"]
  /\ UNCHANGED <<engine, placing, hotkey, ghosts, amiss, faults>>

\* act_on_selection has the model's reply.
Act(x) ==
  /\ x \in Acts /\ step[x] = "none"
  /\ step' = [step EXCEPT ![x] = "ready"]
  /\ UNCHANGED <<engine, placing, hotkey, ghosts, amiss, faults>>
-----------------------------------------------------------------------------
(* insert_with, step by step; two handlers may be at it at once. *)

Becomes(x, how) == step' = [step EXCEPT ![x] = how] /\ UNCHANGED <<engine, hotkey, copied, amiss>>

\* It is written by accessibility; or there is nowhere to put it, or the grant is missing.
WithoutClipboard(x) ==
  /\ step[x] = "ready" /\ Becomes(x, "done")
  /\ UNCHANGED <<placing, mixed, warned, faults>>

\* via_clipboard, where the accessibility write is not offered or fails.
Snapshot(x) ==
  /\ step[x] = "ready" /\ Becomes(x, "snapped")
  /\ \/ snap' = [snap EXCEPT ![x] = clipboard] /\ NoFault
     \/ snap' = snap /\ Fault
  /\ mixed' = mixed \union (IF Borrowers = {} THEN {} ELSE {x} \union Borrowers)
  /\ UNCHANGED <<clipboard, warned>>

Write(x) ==
  /\ step[x] = "snapped" /\ Becomes(x, "written")
  /\ clipboard' = Whole(x)
  /\ UNCHANGED <<snap, mixed, warned, faults>>

\* It is cleared before it takes the text; what it held is not put back.
WriteFails(x) ==
  /\ step[x] = "snapped" /\ Fault /\ Becomes(x, "done")
  /\ clipboard' \in {clipboard, Empty} /\ snap' = [snap EXCEPT ![x] = None]
  /\ warned' = TRUE
  /\ UNCHANGED mixed

\* The keystroke, and the wait in which the application reads the clipboard; or it cannot be posted.
Paste(x) ==
  /\ step[x] = "written" /\ Becomes(x, "pasted")
  /\ UNCHANGED <<placing, mixed, warned, faults>>

\* What a snapshot puts back: the text of it.
PutBack(c) == [c EXCEPT !.whole = @ /\ c.of \notin Rich]

\* Put back the text whatever was there, and say it is all there was.
RestoreTextOnly(x) ==
  /\ step[x] = "pasted" /\ snap[x] # None /\ Becomes(x, "done")
  /\ clipboard' = PutBack(snap[x]) /\ snap' = [snap EXCEPT ![x] = None]
  /\ UNCHANGED <<mixed, warned, faults>>

\* A clipboard that held more than text is put back in part, and is not said to be restored.
Restore(x) ==
  /\ step[x] = "pasted" /\ snap[x] # None /\ Becomes(x, "done")
  /\ clipboard' = PutBack(snap[x]) /\ snap' = [snap EXCEPT ![x] = None]
  /\ warned' = (warned \/ PutBack(snap[x]) # snap[x])
  /\ UNCHANGED <<mixed, faults>>

\* There is no snapshot, or no text in it; or it cannot be put back, and may be half way.
Keep(x) ==
  /\ step[x] = "pasted" /\ Becomes(x, "done")
  /\ \/ /\ snap[x] # None => PutBack(snap[x]) # snap[x]
        /\ NoFault /\ UNCHANGED clipboard
     \/ snap[x] # None /\ Fault /\ clipboard' \in {clipboard, Empty}
  /\ snap' = [snap EXCEPT ![x] = None]
  /\ warned' = TRUE
  /\ UNCHANGED mixed

Place(x) ==
  \/ WithoutClipboard(x) \/ Snapshot(x) \/ Write(x) \/ WriteFails(x)
  \/ Paste(x) \/ Restore(x) \/ Keep(x)

\* The user copies something, perhaps while the clipboard is borrowed.
Copy(c) ==
  /\ copied' = c /\ clipboard' = Whole(c)
  /\ mixed' = IF Borrowers = {} THEN {} ELSE mixed \union Borrowers
  /\ warned' = FALSE
  /\ UNCHANGED <<engine, step, snap, hotkey, amiss, faults>>
-----------------------------------------------------------------------------
(* Who starts and ends sessions. *)

\* The first press, by the flag: start. A session is listening already, or the microphone is denied:
\* conflict. The model is missing or the microphone does not open: failed.
PressToStart ==
  /\ press = None /\ ~flag
  /\ \/ \E s \in Sessions : Start(s) /\ press' = "ok" /\ amiss' = FALSE /\ NoFault
     \/ live # None /\ press' = "conflict" /\ amiss' = FALSE /\ NoFault /\ UNCHANGED <<live, thread, stopping, late>>
     \/ \E how \in {"conflict", "failed"} :
          live = None /\ press' = how /\ amiss' = TRUE /\ Fault /\ UNCHANGED <<live, thread, stopping, late>>
  /\ UNCHANGED <<boxed, step, placing, flag, ghosts>>

\* The second press: stop.
PressToStop ==
  /\ press = None /\ flag
  /\ \/ \E s \in Sessions : TakeSession(s, "awaiting") /\ press' = s
     \/ live = None /\ press' = "conflict" /\ UNCHANGED <<engine, step>>
  /\ amiss' = FALSE
  /\ UNCHANGED <<placing, flag, ghosts, faults>>

\* A flag that a refusal leaves as it was.
SettleUncorrected ==
  /\ press \in {"ok", "conflict", "failed"}
  /\ flag' = (flag # (press = "ok")) /\ press' = None
  /\ UNCHANGED <<engine, step, placing, ghosts, amiss, faults>>

\* The answer: done, or refused since the flag was wrong, turns the flag.
Settle ==
  /\ press \in {"ok", "conflict", "failed"}
  /\ flag' = (flag # (press \in {"ok", "conflict"})) /\ press' = None
  /\ UNCHANGED <<engine, step, placing, ghosts, amiss, faults>>

\* The handler of the session a press ended has answered.
Answered(s) ==
  /\ press = s /\ step[s] \in Replies
  /\ press' = IF step[s] = "error" THEN "failed" ELSE "ok"
  /\ amiss' = (amiss \/ step[s] = "error")
  /\ UNCHANGED <<engine, step, placing, flag, ghosts, faults>>

\* The press stops waiting, and the handler goes with it, but for what it does without a wait.
Leave(s) ==
  /\ press = s /\ Fault /\ step[s] \in {"awaiting", "ready"}
  /\ press' = None /\ amiss' = TRUE
  /\ \E how \in {step[s], "left"} : step' = [step EXCEPT ![s] = how]
  /\ UNCHANGED <<engine, placing, flag, ghosts>>

\* The box of the application starts a session, and stops or cancels the one there is.
BoxStarts(s) ==
  /\ Start(s)
  /\ boxed' = boxed \union {s} /\ amiss' = TRUE
  /\ UNCHANGED <<step, placing, hotkey, ghosts, faults>>

BoxEnds(s) ==
  /\ \E as \in {"awaiting", "cancelling"} : TakeSession(s, as)
  /\ amiss' = TRUE
  /\ UNCHANGED <<placing, hotkey, ghosts, faults>>

Next ==
  \/ \E s \in Sessions :
       Expire(s) \/ End(s) \/ Break(s) \/ Hand(s) \/ Answered(s) \/ Leave(s) \/ BoxStarts(s) \/ BoxEnds(s)
  \/ \E x \in Texts : Act(x) \/ Place(x)
  \/ \E c \in Copies : Copy(c)
  \/ PressToStart \/ PressToStop \/ Settle

\* Time passes, and a thread that is to end does.
FairSpec == Init /\ [][Next]_vars /\ \A s \in Sessions : WF_vars(Expire(s)) /\ WF_vars(End(s))
-----------------------------------------------------------------------------
(* Properties. *)

\* What a box asked to be heard is never typed or pasted, whoever ends the session.
BoxKeepsItsWords == \A s \in boxed : step[s] \notin {"ready"} \union Borrowing

\* What is about to be pasted is what was said, but where insertions met or the user copied.
WordsLandAsSaid == \A x \in Texts : step[x] = "written" => clipboard = Whole(x) \/ x \in mixed

\* When no insertion has it, the clipboard is as the user left it or the user was told it is not,
\* but where insertions met or the user copied.
ClipboardComesBack == Borrowers = {} => clipboard = Whole(copied) \/ warned \/ mixed # {}

\* Placing words disturbs nothing else of the user's, and says so where it does.
NothingElseIsTouched == BoxKeepsItsWords /\ WordsLandAsSaid /\ ClipboardComesBack

\* The hotkey's flag and the engine disagree only if something else drove dictation or a press
\* failed, and then for one press that is answered (toggle).
FlagIsRight == press = None /\ ~amiss => flag = (live # None)

\* A hotkey pressed by accident does not hold the microphone: every thread lets it go, with nobody
\* to stop it and whatever the slot says.
MicrophoneIsReleased == \A s \in Sessions : thread[s] = "capturing" ~> thread[s] # "capturing"
=============================================================================
