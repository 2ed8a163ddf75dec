----------------------------- MODULE StoresProofs -----------------------------
(***************************************************************************)
(* Safety of three parts that keep the workspace in step with something    *)
(* beside its rows: the vault, for any titles, renders, edits, requests    *)
(* and faults, the adoption of older workspaces, for any places, surfaces  *)
(* and faults, and the graph of edges, for any ids and faults.             *)
(***************************************************************************)
EXTENDS Stores, Sequences, FiniteSetTheorems, TLAPS

-----------------------------------------------------------------------------
(* The vault: no edit is overwritten unguarded against the user's word,    *)
(* and a copy loses nothing. An edit can only be overwritten by a push     *)
(* that found it equal to the baseline, and only an answer makes an edit a *)
(* baseline. So the argument follows a content from the answer that read   *)
(* it to the baseline, from there to the push that was handed it, and to   *)
(* the write.                                                              *)

\* A push past the choice of its row has that row in its batch.
Held ==
  \A q \in Requests : pc[q] \in {"check", "write", "record", "link"} => cur[q] \in batch[q]

\* An answer on its way is one of the three, and keeping a file adopts nothing.
Chosen ==
  \A q \in Requests :
    /\ pc[q] \in {"copy", "adopt", "settle"} => choice[q] \in Resolutions
    /\ pc[q] = "copy" => choice[q] = "copied_to_note"
    /\ pc[q] = "adopt" => choice[q] # "kept"

\* So is the edit a push was handed as the baseline to check against.
Handed == \A q \in Requests : known[q] \in Edits => known[q] \in AgreedBy(Resolutions)

\* And the edit a push is about to overwrite, unless no check could see it.
MayWrite(q) ==
  pc[q] = "write" /\ file[Target(q)] \in Edits
    => file[Target(q)] \in AgreedBy(Resolutions) \union unguarded
Checked == \A q \in Requests : MayWrite(q)

\* What is adopted on the word of a copy is in a note by then.
Noted ==
  /\ \A e \in Edits : <<e, "kept">> \notin agreed
  /\ \A e \in Edits : <<e, "copied_to_note">> \in agreed => e \in notes
  /\ \A q \in Requests : pc[q] = "adopt" /\ choice[q] = "copied_to_note" /\ edited[q] \in Edits
                           => edited[q] \in notes

IInv == TypeOK /\ Held /\ Chosen /\ BaselineIsOurs /\ Handed /\ Checked /\ Noted

LEMMA InitIInv == Init => IInv
<1> SUFFICES ASSUME Init PROVE IInv
  OBVIOUS
<1>1. TypeOK
  BY VaultAssumption DEF Init, TypeOK, Renders, Contents, Steps, Rows, NoRow, Resolutions, NoDivergence, Divergences
<1>2. Held /\ Chosen
  BY DEF Init, Held, Chosen
<1>3. BaselineIsOurs /\ Handed /\ Checked /\ Noted
  BY VaultAssumption DEF Init, BaselineIsOurs, Handed, Checked, MayWrite, Noted, Contents
<1> QED
  BY <1>1, <1>2, <1>3 DEF IInv
-----------------------------------------------------------------------------
(* Types, and what the control alone settles. *)

\* A push past the choice of its row writes a render of the meeting to the file of its title.
LEMMA TargetTyped ==
  ASSUME TypeOK, Held, NEW q \in Requests, pc[q] \in {"check", "write", "record", "link"}
  PROVE  /\ cur[q] \in Requests /\ row[cur[q]].status = "leased"
         /\ row[cur[q]].render \in Renders /\ Target(q) \in Titles
<1>1. cur[q] \in batch[q] /\ cur[q] \in Requests /\ row[cur[q]].status = "leased"
  BY DEF TypeOK, Held
<1>2. row[cur[q]].render \in Renders
  BY <1>1 DEF TypeOK, Rows, NoRow
<1> QED
  BY <1>1, <1>2, VaultAssumption DEF Target

\* What is left of a batch stays leased to its drain alone when a row of it is done.
LEMMA RowDoneTyped ==
  ASSUME TypeOK, Held, NEW q \in Requests, pc[q] \in {"check", "write", "record", "link"}, RowDone(q)
  PROVE  /\ row' \in [Requests -> Rows] /\ pc' \in [Requests -> Steps]
         /\ batch' \in [Requests -> SUBSET Requests]
         /\ cur' \in [Requests -> Requests \union {None}]
         /\ exist' \in [Requests -> Titles \union {None}]
         /\ known' \in [Requests -> Contents \union {None}]
         /\ \A p \in Requests : \A r \in batch'[p] :
              row'[r].status = "leased" /\ \A u \in Requests \ {p} : r \notin batch'[u]
<1>1. cur[q] \in batch[q] /\ cur[q] \in Requests
  BY DEF TypeOK, Held
<1>2. /\ row' \in [Requests -> Rows] /\ batch' \in [Requests -> SUBSET Requests]
      /\ cur' \in [Requests -> Requests \union {None}]
      /\ exist' \in [Requests -> Titles \union {None}]
      /\ known' \in [Requests -> Contents \union {None}]
  BY <1>1 DEF RowDone, TypeOK, Rows
<1>3. pc' \in [Requests -> Steps]
  BY DEF RowDone, TypeOK, Goto, Steps
<1>4. ASSUME NEW p \in Requests, NEW r \in batch'[p]
      PROVE row'[r].status = "leased" /\ \A u \in Requests \ {p} : r \notin batch'[u]
  BY <1>1 DEF RowDone, TypeOK
<1> QED
  BY <1>2, <1>3, <1>4

\* Recording a refusal leaves a divergence with a path.
LEMMA DivergenceTyped ==
  ASSUME TypeOK, NEW i, NEW t \in Titles, RecordDivergence(i, t)
  PROVE  div' \in [Titles -> Divergences]
<1> DEFINE d == [status |-> IF div[i].status = "none" THEN "open" ELSE div[i].status,
                 path   |-> IF div[i].status = "open" THEN div[i].path ELSE t]
<1>1. div' = [div EXCEPT ![i] = d]
  BY DEF RecordDivergence
<1>2. ASSUME i \in Titles PROVE d \in Divergences
  <2>1. div[i] = NoDivergence \/ div[i] \in [status : {"open"} \union Resolutions, path : Titles]
    BY <1>2 DEF TypeOK, Divergences
  <2> QED
    BY <2>1 DEF NoDivergence, Divergences, Resolutions
<1> HIDE DEF d
<1> QED
  BY <1>1, <1>2 DEF TypeOK

\* Types.
LEMMA StepTypeOK == TypeOK /\ Held /\ Chosen /\ [Next]_vars => TypeOK'
<1> SUFFICES ASSUME TypeOK, Held, Chosen, [Next]_vars PROVE TypeOK'
  OBVIOUS
<1> USE VaultAssumption DEF Held, TypeOK, drainVars, answerVars, ghostVars, Renders, Contents, Steps, Rows, NoRow, NoDivergence, Divergences, Resolutions, Chosen
<1>1. ASSUME Rewrite PROVE TypeOK'
  BY <1>1 DEF Rewrite
<1>2. ASSUME NEW t \in Titles, UserEdits(t) PROVE TypeOK'
  BY <1>2 DEF UserEdits
<1>3. ASSUME NEW t \in Titles, UserDeletes(t) PROVE TypeOK'
  BY <1>3 DEF UserDeletes, Fault
<1>4. ASSUME NEW q \in Requests, Mirror(q) PROVE TypeOK'
  BY <1>4 DEF Mirror, Enqueue, Goto
<1>5. ASSUME NEW q \in Requests, DrainOnce(q) PROVE TypeOK'
  BY <1>5 DEF DrainOnce, Goto
<1>6. ASSUME NEW q \in Requests, Claim(q) PROVE TypeOK'
  <2> DEFINE due == {r \in Requests : row[r].status = "pending"}
  <2>1. /\ batch' = [batch EXCEPT ![q] = due]
        /\ row' = [r \in Requests |-> IF r \in due THEN [row[r] EXCEPT !.status = "leased"]
                                                    ELSE row[r]]
    BY <1>6 DEF Claim
  <2>2. row' \in [Requests -> Rows]
    <3>1. ASSUME NEW r \in due PROVE [row[r] EXCEPT !.status = "leased"] \in Rows
      BY DEF Rows
    <3> QED
      BY <2>1, <3>1
  <2>3. batch' \in [Requests -> SUBSET Requests] /\ pc' \in [Requests -> Steps]
    BY <2>1, <1>6 DEF Claim, Goto
  <2>4. ASSUME NEW p \in Requests, NEW r \in batch'[p]
        PROVE row'[r].status = "leased" /\ \A u \in Requests \ {p} : r \notin batch'[u]
    BY <2>1
  <2> HIDE DEF due
  <2> QED
    BY <2>2, <2>3, <2>4, <1>6 DEF Claim
<1>7. ASSUME NEW q \in Requests, Look(q) PROVE TypeOK'
  BY <1>7 DEF Look, Goto
<1>8. ASSUME NEW q \in Requests, Passes(q) PROVE TypeOK'
  BY <1>8 DEF Passes, Unchanged, Target, Goto
<1>9. ASSUME NEW q \in Requests, RefuseEdited(q) PROVE TypeOK'
  <2>1. div' \in [Titles -> Divergences]
    BY <1>9, TargetTyped, DivergenceTyped DEF RefuseEdited, Refuse
  <2>2. RowDone(q)
    BY <1>9 DEF RefuseEdited, Refuse
  <2> QED
    BY <2>1, <2>2, RowDoneTyped, <1>9 DEF RefuseEdited, Refuse
<1>10. ASSUME NEW q \in Requests, RefuseUnreadable(q) PROVE TypeOK'
  <2>1. div' \in [Titles -> Divergences]
    BY <1>10, TargetTyped, DivergenceTyped DEF RefuseUnreadable, Refuse
  <2>2. RowDone(q)
    BY <1>10 DEF RefuseUnreadable, Refuse
  <2> QED
    BY <2>1, <2>2, RowDoneTyped, <1>10 DEF RefuseUnreadable, Refuse, Fault
<1>11. ASSUME NEW q \in Requests, Write(q) PROVE TypeOK'
  <2>1. file' \in [Titles -> Contents \union {None}]
    BY <1>11, TargetTyped DEF Write
  <2> QED
    BY <2>1, <1>11 DEF Write, Goto
<1>12. ASSUME NEW q \in Requests, Fails(q) PROVE TypeOK'
  <2>1. RowDone(q)
    BY <1>12 DEF Fails
  <2> QED
    BY <2>1, RowDoneTyped, <1>12 DEF Fails, Fault
<1>13. ASSUME NEW q \in Requests, Record(q) PROVE TypeOK'
  <2>1. base' \in [Titles -> Contents \union {None}]
    BY <1>13, TargetTyped DEF Record
  <2> QED
    BY <2>1, <1>13 DEF Record, Goto
<1>14. ASSUME NEW q \in Requests, Link(q) PROVE TypeOK'
  <2>1. RowDone(q)
    BY <1>14 DEF Link
  <2>2. linked' \in SUBSET Titles
    BY <1>14, TargetTyped DEF Link
  <2> QED
    BY <2>1, <2>2, RowDoneTyped, <1>14 DEF Link
<1>15. ASSUME NEW q \in Requests, NEW i \in Titles, NEW how \in Resolutions, Answer(q, i, how) PROVE TypeOK'
  <2>1. edited' \in [Requests -> Contents \union {None}]
    BY <1>15 DEF Answer
  <2>2. pc' \in [Requests -> Steps]
    BY <1>15 DEF Answer, Goto
  <2> QED
    BY <2>1, <2>2, <1>15 DEF Answer
<1>16. ASSUME NEW q \in Requests, Copy(q) PROVE TypeOK'
  BY <1>16 DEF Copy, Goto
<1>17. ASSUME NEW q \in Requests, Adopt(q) PROVE TypeOK'
  BY <1>17 DEF Adopt, Goto
<1>18. ASSUME NEW q \in Requests, Settle(q) PROVE TypeOK'
  <2>1. div' \in [Titles -> Divergences]
    <3>1. CASE div[item[q]].status # "open"
      BY <3>1, <1>18 DEF Settle
    <3>2. ASSUME div[item[q]].status = "open", item[q] \in Titles
          PROVE  [div[item[q]] EXCEPT !.status = choice[q]] \in Divergences
      <4>1. div[item[q]] \in [status : {"open"} \union Resolutions, path : Titles]
        BY <3>2
      <4>2. choice[q] \in Resolutions
        BY <1>18 DEF Settle
      <4> QED
        BY <4>1, <4>2
    <3>3. CASE div[item[q]].status = "open"
      <4>1. div' = [div EXCEPT ![item[q]] = [div[item[q]] EXCEPT !.status = choice[q]]]
        BY <3>3, <1>18 DEF Settle
      <4>2. div \in [Titles -> Divergences]
        OBVIOUS
      <4> HIDE DEF Divergences, TypeOK
      <4> QED
        BY <3>2, <3>3, <4>1, <4>2
    <3> QED
      BY <3>1, <3>3
  <2>2. pc' \in [Requests -> Steps]
    <3>1. Goto(q, "idle") \/ Goto(q, "push")
      BY <1>18 DEF Settle
    <3> QED
      BY <3>1 DEF Goto
  <2>3. /\ choice' \in [Requests -> Resolutions \union {None}]
        /\ item' \in [Requests -> Titles \union {None}]
        /\ edited' \in [Requests -> Contents \union {None}]
    BY <1>18 DEF Settle, Forget
  <2> QED
    BY <2>1, <2>2, <2>3, <1>18 DEF Settle
<1>19. ASSUME NEW q \in Requests, PushAgain(q) PROVE TypeOK'
  BY <1>19 DEF PushAgain, Enqueue, Goto
<1>20. ASSUME NEW q \in Requests, LeaseLapses(q) PROVE TypeOK'
  <2>1. row' \in [Requests -> Rows]
    <3>1. row[q] \in [status : {"pending", "leased"}, render : Renders]
      BY <1>20 DEF LeaseLapses
    <3>2. [row[q] EXCEPT !.status = "pending"] \in [status : {"pending", "leased"}, render : Renders]
      BY <3>1
    <3> QED
      BY <3>2, <1>20 DEF LeaseLapses
  <2>2. ASSUME NEW p \in Requests, NEW r \in batch'[p]
        PROVE row'[r].status = "leased" /\ \A u \in Requests \ {p} : r \notin batch'[u]
    BY <1>20 DEF LeaseLapses
  <2> QED
    BY <2>1, <2>2, <1>20 DEF LeaseLapses
<1>21. ASSUME NEW q \in Requests, Abandon(q) PROVE TypeOK'
  BY <1>21 DEF Abandon, Stop, Fault
<1>22. ASSUME Crash PROVE TypeOK'
  BY <1>22 DEF Crash, Stop, Fault
<1>23. ASSUME UNCHANGED vars PROVE TypeOK'
  BY <1>23 DEF vars
<1> HIDE DEF Held, TypeOK, drainVars, answerVars, ghostVars, Renders, Contents, Steps, Rows, NoRow, NoDivergence, Divergences, Resolutions, Chosen
<1> QED
  BY <1>1, <1>2, <1>3, <1>4, <1>5, <1>6, <1>7, <1>8, <1>9, <1>10, <1>11, <1>12,
     <1>13, <1>14, <1>15, <1>16, <1>17, <1>18, <1>19, <1>20, <1>21, <1>22, <1>23 DEF Next

LEMMA StepHeld == TypeOK /\ Held /\ [Next]_vars => Held'
<1> SUFFICES ASSUME TypeOK, Held, [Next]_vars PROVE Held'
  OBVIOUS
<1> USE DEF Held, TypeOK, drainVars, answerVars, ghostVars, Rows, NoRow
<1>1. ASSUME Rewrite PROVE Held'
  BY <1>1 DEF Rewrite
<1>2. ASSUME NEW t \in Titles, UserEdits(t) PROVE Held'
  BY <1>2 DEF UserEdits
<1>3. ASSUME NEW t \in Titles, UserDeletes(t) PROVE Held'
  BY <1>3 DEF UserDeletes, Fault
<1>4. ASSUME NEW q \in Requests, Mirror(q) PROVE Held'
  BY <1>4 DEF Mirror, Enqueue, Goto
<1>5. ASSUME NEW q \in Requests, DrainOnce(q) PROVE Held'
  BY <1>5 DEF DrainOnce, Goto
<1>6. ASSUME NEW q \in Requests, Claim(q) PROVE Held'
  BY <1>6 DEF Claim, Goto
<1>7. ASSUME NEW q \in Requests, Look(q) PROVE Held'
  BY <1>7 DEF Look, Goto
<1>8. ASSUME NEW q \in Requests, Passes(q) PROVE Held'
  BY <1>8 DEF Passes, Unchanged, Target, Goto
<1>9. ASSUME NEW q \in Requests, RefuseEdited(q) PROVE Held'
  BY <1>9 DEF RefuseEdited, Refuse, RecordDivergence, RowDone, Goto, Target
<1>10. ASSUME NEW q \in Requests, RefuseUnreadable(q) PROVE Held'
  BY <1>10 DEF RefuseUnreadable, Refuse, RecordDivergence, RowDone, Goto, Target, Fault
<1>11. ASSUME NEW q \in Requests, Write(q) PROVE Held'
  BY <1>11 DEF Write, Target, Goto
<1>12. ASSUME NEW q \in Requests, Fails(q) PROVE Held'
  BY <1>12 DEF Fails, RowDone, Goto, Fault
<1>13. ASSUME NEW q \in Requests, Record(q) PROVE Held'
  BY <1>13 DEF Record, Target, Goto
<1>14. ASSUME NEW q \in Requests, Link(q) PROVE Held'
  BY <1>14 DEF Link, Target, RowDone, Goto
<1>15. ASSUME NEW q \in Requests, NEW i \in Titles, NEW how \in Resolutions, Answer(q, i, how) PROVE Held'
  <2>1. pc[q] = "idle" /\ UNCHANGED <<cur, batch>>
    BY <1>15 DEF Answer
  <2>2. pc' = [pc EXCEPT ![q] = pc'[q]] /\ pc'[q] \in {"settle", "adopt", "copy"}
    BY <1>15 DEF Answer, Goto, Resolutions
  <2> QED
    BY <2>1, <2>2
<1>16. ASSUME NEW q \in Requests, Copy(q) PROVE Held'
  BY <1>16 DEF Copy, Goto
<1>17. ASSUME NEW q \in Requests, Adopt(q) PROVE Held'
  BY <1>17 DEF Adopt, Goto
<1>18. ASSUME NEW q \in Requests, Settle(q) PROVE Held'
  BY <1>18 DEF Settle, Forget, Goto
<1>19. ASSUME NEW q \in Requests, PushAgain(q) PROVE Held'
  BY <1>19 DEF PushAgain, Enqueue, Goto
<1>20. ASSUME NEW q \in Requests, LeaseLapses(q) PROVE Held'
  BY <1>20 DEF LeaseLapses
<1>21. ASSUME NEW q \in Requests, Abandon(q) PROVE Held'
  BY <1>21 DEF Abandon, Stop, Fault
<1>22. ASSUME Crash PROVE Held'
  BY <1>22 DEF Crash, Stop, Fault
<1>23. ASSUME UNCHANGED vars PROVE Held'
  BY <1>23 DEF vars
<1> HIDE DEF Held, TypeOK, drainVars, answerVars, ghostVars, Rows, NoRow
<1> QED
  BY <1>1, <1>2, <1>3, <1>4, <1>5, <1>6, <1>7, <1>8, <1>9, <1>10, <1>11, <1>12,
     <1>13, <1>14, <1>15, <1>16, <1>17, <1>18, <1>19, <1>20, <1>21, <1>22, <1>23 DEF Next

LEMMA StepChosen == TypeOK /\ Chosen /\ [Next]_vars => Chosen'
<1> SUFFICES ASSUME TypeOK, Chosen, [Next]_vars PROVE Chosen'
  OBVIOUS
<1> USE DEF Chosen, TypeOK, drainVars, answerVars, ghostVars, Resolutions
<1>1. ASSUME Rewrite PROVE Chosen'
  BY <1>1 DEF Rewrite
<1>2. ASSUME NEW t \in Titles, UserEdits(t) PROVE Chosen'
  BY <1>2 DEF UserEdits
<1>3. ASSUME NEW t \in Titles, UserDeletes(t) PROVE Chosen'
  BY <1>3 DEF UserDeletes, Fault
<1>4. ASSUME NEW q \in Requests, Mirror(q) PROVE Chosen'
  BY <1>4 DEF Mirror, Enqueue, Goto
<1>5. ASSUME NEW q \in Requests, DrainOnce(q) PROVE Chosen'
  BY <1>5 DEF DrainOnce, Goto
<1>6. ASSUME NEW q \in Requests, Claim(q) PROVE Chosen'
  BY <1>6 DEF Claim, Goto
<1>7. ASSUME NEW q \in Requests, Look(q) PROVE Chosen'
  BY <1>7 DEF Look, Goto
<1>8. ASSUME NEW q \in Requests, Passes(q) PROVE Chosen'
  BY <1>8 DEF Passes, Unchanged, Target, Goto
<1>9. ASSUME NEW q \in Requests, RefuseEdited(q) PROVE Chosen'
  BY <1>9 DEF RefuseEdited, Refuse, RecordDivergence, RowDone, Goto, Target
<1>10. ASSUME NEW q \in Requests, RefuseUnreadable(q) PROVE Chosen'
  BY <1>10 DEF RefuseUnreadable, Refuse, RecordDivergence, RowDone, Goto, Target, Fault
<1>11. ASSUME NEW q \in Requests, Write(q) PROVE Chosen'
  BY <1>11 DEF Write, Target, Goto
<1>12. ASSUME NEW q \in Requests, Fails(q) PROVE Chosen'
  BY <1>12 DEF Fails, RowDone, Goto, Fault
<1>13. ASSUME NEW q \in Requests, Record(q) PROVE Chosen'
  BY <1>13 DEF Record, Target, Goto
<1>14. ASSUME NEW q \in Requests, Link(q) PROVE Chosen'
  BY <1>14 DEF Link, Target, RowDone, Goto
<1>15. ASSUME NEW q \in Requests, NEW i \in Titles, NEW how \in Resolutions, Answer(q, i, how) PROVE Chosen'
  BY <1>15 DEF Answer, Goto
<1>16. ASSUME NEW q \in Requests, Copy(q) PROVE Chosen'
  BY <1>16 DEF Copy, Goto
<1>17. ASSUME NEW q \in Requests, Adopt(q) PROVE Chosen'
  BY <1>17 DEF Adopt, Goto
<1>18. ASSUME NEW q \in Requests, Settle(q) PROVE Chosen'
  BY <1>18 DEF Settle, Forget, Goto
<1>19. ASSUME NEW q \in Requests, PushAgain(q) PROVE Chosen'
  BY <1>19 DEF PushAgain, Enqueue, Goto
<1>20. ASSUME NEW q \in Requests, LeaseLapses(q) PROVE Chosen'
  BY <1>20 DEF LeaseLapses
<1>21. ASSUME NEW q \in Requests, Abandon(q) PROVE Chosen'
  BY <1>21 DEF Abandon, Stop, Fault
<1>22. ASSUME Crash PROVE Chosen'
  BY <1>22 DEF Crash, Stop, Fault
<1>23. ASSUME UNCHANGED vars PROVE Chosen'
  BY <1>23 DEF vars
<1> HIDE DEF Chosen, TypeOK, drainVars, answerVars, ghostVars, Resolutions
<1> QED
  BY <1>1, <1>2, <1>3, <1>4, <1>5, <1>6, <1>7, <1>8, <1>9, <1>10, <1>11, <1>12,
     <1>13, <1>14, <1>15, <1>16, <1>17, <1>18, <1>19, <1>20, <1>21, <1>22, <1>23 DEF Next

LEMMA StepNoted == TypeOK /\ Chosen /\ Noted /\ [Next]_vars => Noted'
<1> SUFFICES ASSUME TypeOK, Chosen, Noted, [Next]_vars PROVE Noted'
  OBVIOUS
<1> USE VaultAssumption DEF Noted, TypeOK, Chosen, drainVars, answerVars, ghostVars, Resolutions
<1>1. ASSUME Rewrite PROVE Noted'
  BY <1>1 DEF Rewrite
<1>2. ASSUME NEW t \in Titles, UserEdits(t) PROVE Noted'
  BY <1>2 DEF UserEdits
<1>3. ASSUME NEW t \in Titles, UserDeletes(t) PROVE Noted'
  BY <1>3 DEF UserDeletes, Fault
<1>4. ASSUME NEW q \in Requests, Mirror(q) PROVE Noted'
  BY <1>4 DEF Mirror, Enqueue, Goto
<1>5. ASSUME NEW q \in Requests, DrainOnce(q) PROVE Noted'
  BY <1>5 DEF DrainOnce, Goto
<1>6. ASSUME NEW q \in Requests, Claim(q) PROVE Noted'
  BY <1>6 DEF Claim, Goto
<1>7. ASSUME NEW q \in Requests, Look(q) PROVE Noted'
  BY <1>7 DEF Look, Goto
<1>8. ASSUME NEW q \in Requests, Passes(q) PROVE Noted'
  BY <1>8 DEF Passes, Unchanged, Target, Goto
<1>9. ASSUME NEW q \in Requests, RefuseEdited(q) PROVE Noted'
  BY <1>9 DEF RefuseEdited, Refuse, RecordDivergence, RowDone, Goto, Target
<1>10. ASSUME NEW q \in Requests, RefuseUnreadable(q) PROVE Noted'
  BY <1>10 DEF RefuseUnreadable, Refuse, RecordDivergence, RowDone, Goto, Target, Fault
<1>11. ASSUME NEW q \in Requests, Write(q) PROVE Noted'
  BY <1>11 DEF Write, Target, Goto
<1>12. ASSUME NEW q \in Requests, Fails(q) PROVE Noted'
  BY <1>12 DEF Fails, RowDone, Goto, Fault
<1>13. ASSUME NEW q \in Requests, Record(q) PROVE Noted'
  BY <1>13 DEF Record, Target, Goto
<1>14. ASSUME NEW q \in Requests, Link(q) PROVE Noted'
  BY <1>14 DEF Link, Target, RowDone, Goto
<1>15. ASSUME NEW q \in Requests, NEW i \in Titles, NEW how \in Resolutions, Answer(q, i, how) PROVE Noted'
  BY <1>15 DEF Answer, Goto
<1>16. ASSUME NEW q \in Requests, Copy(q) PROVE Noted'
  BY <1>16 DEF Copy, Goto
<1>17. ASSUME NEW q \in Requests, Adopt(q) PROVE Noted'
  BY <1>17 DEF Adopt, Goto
<1>18. ASSUME NEW q \in Requests, Settle(q) PROVE Noted'
  BY <1>18 DEF Settle, Forget, Goto
<1>19. ASSUME NEW q \in Requests, PushAgain(q) PROVE Noted'
  BY <1>19 DEF PushAgain, Enqueue, Goto
<1>20. ASSUME NEW q \in Requests, LeaseLapses(q) PROVE Noted'
  BY <1>20 DEF LeaseLapses
<1>21. ASSUME NEW q \in Requests, Abandon(q) PROVE Noted'
  BY <1>21 DEF Abandon, Stop, Fault
<1>22. ASSUME Crash PROVE Noted'
  BY <1>22 DEF Crash, Stop, Fault
<1>23. ASSUME UNCHANGED vars PROVE Noted'
  BY <1>23 DEF vars
<1> HIDE DEF Noted, TypeOK, Chosen, drainVars, answerVars, ghostVars, Resolutions
<1> QED
  BY <1>1, <1>2, <1>3, <1>4, <1>5, <1>6, <1>7, <1>8, <1>9, <1>10, <1>11, <1>12,
     <1>13, <1>14, <1>15, <1>16, <1>17, <1>18, <1>19, <1>20, <1>21, <1>22, <1>23 DEF Next

-----------------------------------------------------------------------------
(* What may be overwritten. *)

\* The user writes neither nothing nor what the mirror would.
LEMMA Apart == None \notin Edits /\ Renders \intersect Edits = {}
BY VaultAssumption DEF Contents

LEMMA StepBaselineIsOurs == TypeOK /\ Held /\ Chosen /\ BaselineIsOurs /\ [Next]_vars => BaselineIsOurs'
<1> SUFFICES ASSUME TypeOK, Held, Chosen, BaselineIsOurs, [Next]_vars PROVE BaselineIsOurs'
  OBVIOUS
<1> USE DEF BaselineIsOurs, TypeOK, Chosen, AgreedBy, drainVars, answerVars, ghostVars
<1>1. ASSUME Rewrite PROVE BaselineIsOurs'
  BY <1>1 DEF Rewrite
<1>2. ASSUME NEW t \in Titles, UserEdits(t) PROVE BaselineIsOurs'
  BY <1>2 DEF UserEdits
<1>3. ASSUME NEW t \in Titles, UserDeletes(t) PROVE BaselineIsOurs'
  BY <1>3 DEF UserDeletes, Fault
<1>4. ASSUME NEW q \in Requests, Mirror(q) PROVE BaselineIsOurs'
  BY <1>4 DEF Mirror, Enqueue, Goto
<1>5. ASSUME NEW q \in Requests, DrainOnce(q) PROVE BaselineIsOurs'
  BY <1>5 DEF DrainOnce, Goto
<1>6. ASSUME NEW q \in Requests, Claim(q) PROVE BaselineIsOurs'
  BY <1>6 DEF Claim, Goto
<1>7. ASSUME NEW q \in Requests, Look(q) PROVE BaselineIsOurs'
  BY <1>7 DEF Look, Goto
<1>8. ASSUME NEW q \in Requests, Passes(q) PROVE BaselineIsOurs'
  BY <1>8 DEF Passes, Unchanged, Target, Goto
<1>9. ASSUME NEW q \in Requests, RefuseEdited(q) PROVE BaselineIsOurs'
  BY <1>9 DEF RefuseEdited, Refuse, RecordDivergence, RowDone, Goto, Target
<1>10. ASSUME NEW q \in Requests, RefuseUnreadable(q) PROVE BaselineIsOurs'
  BY <1>10 DEF RefuseUnreadable, Refuse, RecordDivergence, RowDone, Goto, Target, Fault
<1>11. ASSUME NEW q \in Requests, Write(q) PROVE BaselineIsOurs'
  BY <1>11 DEF Write, Target, Goto
<1>12. ASSUME NEW q \in Requests, Fails(q) PROVE BaselineIsOurs'
  BY <1>12 DEF Fails, RowDone, Goto, Fault
<1>13. ASSUME NEW q \in Requests, Record(q) PROVE BaselineIsOurs'
  <2>1. row[cur[q]].render \in Renders
    BY <1>13, TargetTyped DEF Record
  <2> QED
    BY <2>1, <1>13, Apart DEF Record
<1>14. ASSUME NEW q \in Requests, Link(q) PROVE BaselineIsOurs'
  BY <1>14 DEF Link, Target, RowDone, Goto
<1>15. ASSUME NEW q \in Requests, NEW i \in Titles, NEW how \in Resolutions, Answer(q, i, how) PROVE BaselineIsOurs'
  BY <1>15 DEF Answer, Goto
<1>16. ASSUME NEW q \in Requests, Copy(q) PROVE BaselineIsOurs'
  BY <1>16 DEF Copy, Goto
<1>17. ASSUME NEW q \in Requests, Adopt(q) PROVE BaselineIsOurs'
  BY <1>17 DEF Adopt, Goto
<1>18. ASSUME NEW q \in Requests, Settle(q) PROVE BaselineIsOurs'
  BY <1>18 DEF Settle, Forget, Goto
<1>19. ASSUME NEW q \in Requests, PushAgain(q) PROVE BaselineIsOurs'
  BY <1>19 DEF PushAgain, Enqueue, Goto
<1>20. ASSUME NEW q \in Requests, LeaseLapses(q) PROVE BaselineIsOurs'
  BY <1>20 DEF LeaseLapses
<1>21. ASSUME NEW q \in Requests, Abandon(q) PROVE BaselineIsOurs'
  BY <1>21 DEF Abandon, Stop, Fault
<1>22. ASSUME Crash PROVE BaselineIsOurs'
  BY <1>22 DEF Crash, Stop, Fault
<1>23. ASSUME UNCHANGED vars PROVE BaselineIsOurs'
  BY <1>23 DEF vars
<1> HIDE DEF BaselineIsOurs, TypeOK, Chosen, AgreedBy, drainVars, answerVars, ghostVars
<1> QED
  BY <1>1, <1>2, <1>3, <1>4, <1>5, <1>6, <1>7, <1>8, <1>9, <1>10, <1>11, <1>12,
     <1>13, <1>14, <1>15, <1>16, <1>17, <1>18, <1>19, <1>20, <1>21, <1>22, <1>23 DEF Next

LEMMA StepHanded == TypeOK /\ BaselineIsOurs /\ Handed /\ [Next]_vars => Handed'
<1> SUFFICES ASSUME TypeOK, BaselineIsOurs, Handed, [Next]_vars PROVE Handed'
  OBVIOUS
<1> USE Apart DEF Handed, BaselineIsOurs, TypeOK, AgreedBy, drainVars, answerVars, ghostVars
<1>1. ASSUME Rewrite PROVE Handed'
  BY <1>1 DEF Rewrite
<1>2. ASSUME NEW t \in Titles, UserEdits(t) PROVE Handed'
  BY <1>2 DEF UserEdits
<1>3. ASSUME NEW t \in Titles, UserDeletes(t) PROVE Handed'
  BY <1>3 DEF UserDeletes, Fault
<1>4. ASSUME NEW q \in Requests, Mirror(q) PROVE Handed'
  BY <1>4 DEF Mirror, Enqueue, Goto
<1>5. ASSUME NEW q \in Requests, DrainOnce(q) PROVE Handed'
  BY <1>5 DEF DrainOnce, Goto
<1>6. ASSUME NEW q \in Requests, Claim(q) PROVE Handed'
  BY <1>6 DEF Claim, Goto
<1>7. ASSUME NEW q \in Requests, Look(q) PROVE Handed'
  <2>1. PICK i \in Titles \union {None} : known' = [known EXCEPT ![q] = IF i = None THEN None ELSE base[i]]
    BY <1>7 DEF Look
  <2>2. agreed' = agreed
    BY <1>7 DEF Look
  <2> QED
    BY <2>1, <2>2
<1>8. ASSUME NEW q \in Requests, Passes(q) PROVE Handed'
  BY <1>8 DEF Passes, Unchanged, Target, Goto
<1>9. ASSUME NEW q \in Requests, RefuseEdited(q) PROVE Handed'
  BY <1>9 DEF RefuseEdited, Refuse, RowDone
<1>10. ASSUME NEW q \in Requests, RefuseUnreadable(q) PROVE Handed'
  BY <1>10 DEF RefuseUnreadable, Refuse, RowDone
<1>11. ASSUME NEW q \in Requests, Write(q) PROVE Handed'
  BY <1>11 DEF Write, Target, Goto
<1>12. ASSUME NEW q \in Requests, Fails(q) PROVE Handed'
  BY <1>12 DEF Fails, RowDone, Goto, Fault
<1>13. ASSUME NEW q \in Requests, Record(q) PROVE Handed'
  BY <1>13 DEF Record, Target, Goto
<1>14. ASSUME NEW q \in Requests, Link(q) PROVE Handed'
  BY <1>14 DEF Link, Target, RowDone, Goto
<1>15. ASSUME NEW q \in Requests, NEW i \in Titles, NEW how \in Resolutions, Answer(q, i, how) PROVE Handed'
  BY <1>15 DEF Answer, Goto
<1>16. ASSUME NEW q \in Requests, Copy(q) PROVE Handed'
  BY <1>16 DEF Copy, Goto
<1>17. ASSUME NEW q \in Requests, Adopt(q) PROVE Handed'
  BY <1>17 DEF Adopt, Goto
<1>18. ASSUME NEW q \in Requests, Settle(q) PROVE Handed'
  BY <1>18 DEF Settle, Forget, Goto
<1>19. ASSUME NEW q \in Requests, PushAgain(q) PROVE Handed'
  BY <1>19 DEF PushAgain, Enqueue, Goto
<1>20. ASSUME NEW q \in Requests, LeaseLapses(q) PROVE Handed'
  BY <1>20 DEF LeaseLapses
<1>21. ASSUME NEW q \in Requests, Abandon(q) PROVE Handed'
  BY <1>21 DEF Abandon, Stop, Fault
<1>22. ASSUME Crash PROVE Handed'
  BY <1>22 DEF Crash, Stop, Fault
<1>23. ASSUME UNCHANGED vars PROVE Handed'
  BY <1>23 DEF vars
<1> HIDE DEF Handed, BaselineIsOurs, TypeOK, AgreedBy, drainVars, answerVars, ghostVars
<1> QED
  BY <1>1, <1>2, <1>3, <1>4, <1>5, <1>6, <1>7, <1>8, <1>9, <1>10, <1>11, <1>12,
     <1>13, <1>14, <1>15, <1>16, <1>17, <1>18, <1>19, <1>20, <1>21, <1>22, <1>23 DEF Next

\* A step that leaves to p its row and what it is about to overwrite, or leaves nothing of the
\* user's there.
Untouched(p) ==
  pc'[p] = "write" => /\ pc[p] = "write"
                      /\ cur'[p] = cur[p] /\ row'[cur[p]] = row[cur[p]]
                      /\ file'[Target(p)] = file[Target(p)] \/ file'[Target(p)] \notin Edits
                      /\ agreed \subseteq agreed' /\ unguarded \subseteq unguarded'

LEMMA StaysChecked ==
  ASSUME TypeOK, Held, Checked, NEW p \in Requests, Untouched(p)
  PROVE  MayWrite(p)'
BY DEF Checked, MayWrite, AgreedBy, Target, Untouched

\* A drain that is done with a row is not about to write, and touches nobody else's row.
LEMMA RowDoneElsewhere ==
  ASSUME TypeOK, Held, NEW q \in Requests, pc[q] \in {"check", "write", "record", "link"}, RowDone(q),
         NEW p \in Requests, pc'[p] = "write"
  PROVE  pc[p] = "write" /\ cur'[p] = cur[p] /\ row'[cur[p]] = row[cur[p]]
<1>1. cur[q] \in batch[q] /\ cur[q] \in Requests
  BY DEF TypeOK, Held
<1>2. p # q
  BY DEF RowDone, Goto, TypeOK
<1>3. pc[p] = "write"
  BY <1>2 DEF RowDone, Goto, TypeOK
<1>4. cur[p] \in batch[p] /\ cur[p] \in Requests
  BY <1>3 DEF TypeOK, Held
<1>5. cur[p] # cur[q]
  BY <1>1, <1>2, <1>4 DEF TypeOK
<1> QED
  BY <1>1, <1>2, <1>3, <1>4, <1>5 DEF RowDone, TypeOK

LEMMA StepChecked == TypeOK /\ Held /\ Handed /\ Checked /\ [Next]_vars => Checked'
<1> SUFFICES ASSUME TypeOK, Held, Handed, Checked, [Next]_vars, NEW p \in Requests
             PROVE  MayWrite(p)'
  BY DEF Checked
<1> USE DEF drainVars, answerVars, ghostVars
<1>a. pc[p] = "write" => /\ cur[p] \in Requests /\ cur[p] \in batch[p] /\ row[cur[p]].status = "leased"
                         /\ \A u \in Requests \ {p} : cur[p] \notin batch[u]
  BY TargetTyped DEF TypeOK, Held
<1>1. ASSUME Rewrite PROVE MayWrite(p)'
  BY <1>1, <1>a, StaysChecked DEF Rewrite, Untouched, TypeOK
<1>2. ASSUME NEW t \in Titles, UserEdits(t) PROVE MayWrite(p)'
  <2>1. PICK e \in Edits :
          /\ file' = [file EXCEPT ![t] = e]
          /\ unguarded' = IF \E q \in Requests : pc[q] = "write" /\ Target(q) = t
                          THEN unguarded \union {e} ELSE unguarded
    BY <1>2 DEF UserEdits
  <2>2. CASE pc[p] = "write" /\ Target(p) = t
    <3>1. e \in unguarded' /\ Target(p)' = t
      BY <2>1, <2>2, <1>2 DEF UserEdits, Target
    <3>2. file'[t] = e
      BY <2>1 DEF TypeOK
    <3> QED
      BY <3>1, <3>2 DEF MayWrite
  <2>3. CASE ~(pc[p] = "write" /\ Target(p) = t)
    <3>1. pc[p] = "write" => file'[Target(p)] = file[Target(p)]
      BY <2>1, <2>3, TargetTyped DEF TypeOK
    <3>2. Untouched(p)
      BY <2>1, <3>1, <1>2 DEF UserEdits, Untouched
    <3> QED
      BY <3>2, StaysChecked
  <2> QED
    BY <2>2, <2>3
<1>3. ASSUME NEW t \in Titles, UserDeletes(t) PROVE MayWrite(p)'
  <2>1. file'[Target(p)] = file[Target(p)] \/ file'[Target(p)] \notin Edits
    BY <1>3, Apart DEF UserDeletes, TypeOK
  <2> QED
    BY <2>1, <1>3, StaysChecked DEF UserDeletes, Untouched
<1>4. ASSUME NEW q \in Requests, Mirror(q) PROVE MayWrite(p)'
  <2>1. row[q].status # "leased"
    BY <1>4 DEF Mirror, Enqueue, NoRow
  <2>2. Untouched(p)
    BY <1>4, <2>1, <1>a DEF Mirror, Enqueue, Goto, Untouched, TypeOK
  <2> QED
    BY <2>2, StaysChecked
<1>5. ASSUME NEW q \in Requests, DrainOnce(q) PROVE MayWrite(p)'
  BY <1>5, <1>a, StaysChecked DEF DrainOnce, Goto, Untouched, TypeOK
<1>6. ASSUME NEW q \in Requests, Claim(q) PROVE MayWrite(p)'
  BY <1>6, <1>a, StaysChecked DEF Claim, Goto, Untouched, TypeOK
<1>7. ASSUME NEW q \in Requests, Look(q) PROVE MayWrite(p)'
  <2>1. PICK r \in batch[q] :
          /\ cur' = [cur EXCEPT ![q] = r]
          /\ unguarded' = IF linked = {}
                          THEN unguarded \union ({file[TitleOf[row[r].render]]} \intersect Edits)
                          ELSE unguarded
    BY <1>7 DEF Look
  <2>2. UNCHANGED <<file, row, agreed>> /\ unguarded \subseteq unguarded'
    BY <2>1, <1>7 DEF Look
  <2>3. CASE p = q
    <3>1. Target(p)' = TitleOf[row[r].render]
      BY <2>1, <2>2, <2>3 DEF TypeOK, Target
    <3>2. ASSUME pc'[p] = "write" PROVE linked = {}
      <4>1. PICK i \in IF linked = {} THEN {None} ELSE linked :
              Goto(q, IF i = None THEN "write" ELSE "check")
        BY <1>7 DEF Look
      <4>2. i = None
        BY <3>2, <4>1, <2>3 DEF Goto, TypeOK
      <4> QED
        BY <4>1, <4>2, VaultAssumption DEF TypeOK
    <3> QED
      BY <2>1, <2>2, <3>1, <3>2 DEF MayWrite
  <2>4. CASE p # q
    <3>1. Untouched(p)
      BY <2>1, <2>2, <2>4, <1>7 DEF Look, Goto, Untouched, TypeOK
    <3> QED
      BY <3>1, StaysChecked
  <2> QED
    BY <2>3, <2>4
<1>8. ASSUME NEW q \in Requests, Passes(q) PROVE MayWrite(p)'
  <2>1. CASE p = q
    <3>1. file[Target(p)] \in Edits => file[Target(p)] \in AgreedBy(Resolutions)
      BY <2>1, <1>8, Apart DEF Passes, Unchanged, Handed
    <3>2. UNCHANGED <<file, agreed, row, cur>>
      BY <1>8 DEF Passes
    <3> QED
      BY <3>1, <3>2 DEF MayWrite, AgreedBy, Target
  <2>2. CASE p # q
    <3>1. Untouched(p)
      BY <2>2, <1>8 DEF Passes, Goto, Untouched, TypeOK
    <3> QED
      BY <3>1, StaysChecked
  <2> QED
    BY <2>1, <2>2
<1>9. ASSUME NEW q \in Requests, RefuseEdited(q) PROVE MayWrite(p)'
  <2>1. RowDone(q) /\ pc[q] \in {"check", "write", "record", "link"}
    BY <1>9 DEF RefuseEdited, Refuse
  <2>2. Untouched(p)
    BY <1>9, <2>1, RowDoneElsewhere DEF RefuseEdited, Refuse, Untouched
  <2> QED
    BY <2>2, StaysChecked
<1>10. ASSUME NEW q \in Requests, RefuseUnreadable(q) PROVE MayWrite(p)'
  <2>1. RowDone(q) /\ pc[q] \in {"check", "write", "record", "link"}
    BY <1>10 DEF RefuseUnreadable, Refuse
  <2>2. Untouched(p)
    BY <1>10, <2>1, RowDoneElsewhere DEF RefuseUnreadable, Refuse, Untouched
  <2> QED
    BY <2>2, StaysChecked
<1>11. ASSUME NEW q \in Requests, Write(q) PROVE MayWrite(p)'
  <2>1. row[cur[q]].render \notin Edits
    BY <1>11, TargetTyped, Apart DEF Write
  <2>2. file'[Target(p)] = file[Target(p)] \/ file'[Target(p)] \notin Edits
    BY <2>1, <1>11 DEF Write, TypeOK
  <2>3. Untouched(p)
    BY <1>11, <2>2, <1>a DEF Write, Goto, Untouched, TypeOK
  <2> QED
    BY <2>3, StaysChecked
<1>12. ASSUME NEW q \in Requests, Fails(q) PROVE MayWrite(p)'
  <2>1. RowDone(q) /\ pc[q] \in {"check", "write", "record", "link"}
    BY <1>12 DEF Fails
  <2>2. Untouched(p)
    BY <1>12, <2>1, RowDoneElsewhere DEF Fails, Untouched
  <2> QED
    BY <2>2, StaysChecked
<1>13. ASSUME NEW q \in Requests, Record(q) PROVE MayWrite(p)'
  BY <1>13, <1>a, StaysChecked DEF Record, Target, Goto, Untouched, TypeOK
<1>14. ASSUME NEW q \in Requests, Link(q) PROVE MayWrite(p)'
  <2>1. RowDone(q) /\ pc[q] \in {"check", "write", "record", "link"}
    BY <1>14 DEF Link
  <2>2. Untouched(p)
    BY <1>14, <2>1, RowDoneElsewhere DEF Link, Untouched
  <2> QED
    BY <2>2, StaysChecked
<1>15. ASSUME NEW q \in Requests, NEW i \in Titles, NEW how \in Resolutions, Answer(q, i, how) PROVE MayWrite(p)'
  <2>1. pc'[q] # "write"
    BY <1>15 DEF Answer, Goto, Resolutions, TypeOK
  <2>2. Untouched(p)
    BY <1>15, <2>1 DEF Answer, Goto, Untouched, TypeOK
  <2> QED
    BY <2>2, StaysChecked
<1>16. ASSUME NEW q \in Requests, Copy(q) PROVE MayWrite(p)'
  BY <1>16, <1>a, StaysChecked DEF Copy, Goto, Untouched, TypeOK
<1>17. ASSUME NEW q \in Requests, Adopt(q) PROVE MayWrite(p)'
  BY <1>17, <1>a, StaysChecked DEF Adopt, Goto, Untouched, TypeOK
<1>18. ASSUME NEW q \in Requests, Settle(q) PROVE MayWrite(p)'
  BY <1>18, <1>a, StaysChecked DEF Settle, Forget, Goto, Untouched, TypeOK
<1>19. ASSUME NEW q \in Requests, PushAgain(q) PROVE MayWrite(p)'
  <2>1. row[q].status # "leased"
    BY <1>19 DEF PushAgain, Enqueue, NoRow
  <2>2. Untouched(p)
    BY <1>19, <2>1, <1>a DEF PushAgain, Enqueue, Goto, Untouched, TypeOK
  <2> QED
    BY <2>2, StaysChecked
<1>20. ASSUME NEW q \in Requests, LeaseLapses(q) PROVE MayWrite(p)'
  <2>1. pc[p] = "write" => cur[p] # q
    BY <1>20, <1>a DEF LeaseLapses
  <2>2. Untouched(p)
    BY <1>20, <2>1, <1>a DEF LeaseLapses, Untouched, TypeOK
  <2> QED
    BY <2>2, StaysChecked
<1>21. ASSUME NEW q \in Requests, Abandon(q) PROVE MayWrite(p)'
  BY <1>21, <1>a, StaysChecked DEF Abandon, Stop, Fault, Untouched, TypeOK
<1>22. ASSUME Crash PROVE MayWrite(p)'
  BY <1>22, <1>a, StaysChecked DEF Crash, Stop, Fault, Untouched, TypeOK
<1>23. ASSUME UNCHANGED vars PROVE MayWrite(p)'
  BY <1>23, StaysChecked DEF vars, Untouched
<1> QED
  BY <1>1, <1>2, <1>3, <1>4, <1>5, <1>6, <1>7, <1>8, <1>9, <1>10, <1>11, <1>12,
     <1>13, <1>14, <1>15, <1>16, <1>17, <1>18, <1>19, <1>20, <1>21, <1>22, <1>23 DEF Next

\* The inductive invariant.
LEMMA StepIInv == IInv /\ [Next]_vars => IInv'
BY StepTypeOK, StepHeld, StepChosen, StepBaselineIsOurs, StepHanded, StepChecked, StepNoted DEF IInv

LEMMA AlwaysIInv == Spec => []IInv
<1>1. Init => IInv
  BY InitIInv
<1>2. IInv /\ [Next]_vars => IInv'
  BY StepIInv
<1> QED
  BY <1>1, <1>2, PTL DEF Spec
-----------------------------------------------------------------------------
(* What the mirror keeps. *)

\* Only a write puts a render into a file.
LEMMA OnlyWrites ==
  ASSUME IInv, [Next]_vars, NEW t \in Titles, file[t] \in Edits, file'[t] \in Renders
  PROVE  \E q \in Requests : Write(q) /\ Target(q) = t
<1> USE DEF drainVars, answerVars, ghostVars
<1>1. file'[t] # file[t]
  BY Apart
<1>2. ASSUME NEW s \in Titles, UserEdits(s) PROVE FALSE
  BY <1>1, <1>2, Apart DEF UserEdits, IInv, TypeOK
<1>3. ASSUME NEW s \in Titles, UserDeletes(s) PROVE FALSE
  BY <1>1, <1>3, VaultAssumption DEF UserDeletes, IInv, TypeOK, Contents
<1>4. ASSUME NEW q \in Requests, Write(q) PROVE Target(q) = t
  BY <1>1, <1>4 DEF Write, IInv, TypeOK
<1>5. ASSUME NEW q \in Requests, \/ Mirror(q) \/ DrainOnce(q) \/ Claim(q) \/ Look(q) \/ Passes(q)
                                \/ RefuseEdited(q) \/ RefuseUnreadable(q)
                                \/ Fails(q) \/ Record(q) \/ Link(q)
      PROVE  UNCHANGED file
  BY <1>5 DEF Mirror, DrainOnce, Claim, Look, Passes, RefuseEdited, RefuseUnreadable, Refuse, Fails,
              Record, Link
<1>6. ASSUME NEW q \in Requests, \/ \E i \in Titles, how \in Resolutions : Answer(q, i, how)
                                \/ Copy(q) \/ Adopt(q) \/ Settle(q) \/ PushAgain(q)
                                \/ LeaseLapses(q) \/ Abandon(q)
      PROVE  UNCHANGED file
  BY <1>6 DEF Answer, Copy, Adopt, Settle, PushAgain, LeaseLapses, Abandon, Stop
<1>7. Rewrite \/ Crash \/ UNCHANGED vars => UNCHANGED file
  BY DEF Rewrite, Crash, Stop, vars
<1> QED
  BY <1>1, <1>2, <1>3, <1>4, <1>5, <1>6, <1>7 DEF Next

\* The vault among the others is the vault alone.
LEMMA VaultOfStores == StoresSpec => Spec
<1>1. StoresInit => Init
  BY DEF StoresInit
<1>2. [StoresNext]_storesVars => [Next]_vars
  BY DEF StoresNext, storesVars, vault
<1> QED
  BY <1>1, <1>2, PTL DEF StoresSpec, Spec

\* Types, of every reachable state.
THEOREM VaultTypeCorrect == Spec => []TypeOK
<1>1. IInv => TypeOK
  BY DEF IInv
<1> QED
  BY <1>1, AlwaysIInv, PTL

\* A baseline is never an edit of the user's, unless the user agreed to have it replaced.
THEOREM VaultBaselines == Spec => []BaselineIsOurs
<1>1. IInv => BaselineIsOurs
  BY DEF IInv
<1> QED
  BY <1>1, AlwaysIInv, PTL

\* A push overwrites no edit, but with the user's word or where no check could see it.
THEOREM VaultKeepsEdits == StoresSpec => EditsAreKept
<1> DEFINE Keeps == \A t \in Titles :
                      file[t] \in Edits /\ file'[t] \in Renders
                        => file[t] \in AgreedBy(Resolutions) \union unguarded
<1>1. IInv /\ [Next]_vars => Keeps
  <2> SUFFICES ASSUME IInv, [Next]_vars, NEW t \in Titles, file[t] \in Edits, file'[t] \in Renders
               PROVE  file[t] \in AgreedBy(Resolutions) \union unguarded
    OBVIOUS
  <2>1. PICK q \in Requests : Write(q) /\ Target(q) = t
    BY OnlyWrites
  <2>2. pc[q] = "write" /\ MayWrite(q)
    BY <2>1 DEF Write, IInv, Checked
  <2> QED
    BY <2>1, <2>2 DEF MayWrite
<1>2. IInv /\ [Next]_vars => [Keeps]_vars
  BY <1>1
<1> HIDE DEF Keeps
<1>3. StoresSpec => [][Keeps]_vars
  BY <1>2, AlwaysIInv, VaultOfStores, PTL DEF Spec
<1> QED
  BY <1>3 DEF EditsAreKept, Keeps

\* What the user asked to have copied first is in a note when its file is overwritten.
THEOREM VaultCopyLosesNothing == StoresSpec => CopyLosesNothing
<1> DEFINE Copies == \A t \in Titles :
                       file[t] \in Edits /\ file'[t] \in Renders
                         => file[t] \in AgreedBy({"overwritten"}) \union unguarded \union notes
<1>1. IInv /\ [Next]_vars => Copies
  <2> SUFFICES ASSUME IInv, [Next]_vars, NEW t \in Titles, file[t] \in Edits, file'[t] \in Renders
               PROVE  file[t] \in AgreedBy({"overwritten"}) \union unguarded \union notes
    OBVIOUS
  <2>1. PICK q \in Requests : Write(q) /\ Target(q) = t
    BY OnlyWrites
  <2>2. pc[q] = "write" /\ MayWrite(q)
    BY <2>1 DEF Write, IInv, Checked
  <2>3. file[t] \in AgreedBy(Resolutions) \union unguarded
    BY <2>1, <2>2 DEF MayWrite
  <2>4. AgreedBy(Resolutions) \subseteq AgreedBy({"overwritten"}) \union notes
    BY DEF IInv, Noted, AgreedBy, Resolutions
  <2> QED
    BY <2>3, <2>4
<1>2. IInv /\ [Next]_vars => [Copies]_vars
  BY <1>1
<1> HIDE DEF Copies
<1>3. StoresSpec => [][Copies]_vars
  BY <1>2, AlwaysIInv, VaultOfStores, PTL DEF Spec
<1> QED
  BY <1>3 DEF CopyLosesNothing, Copies

-----------------------------------------------------------------------------
(* Adoption: no commit is destroyed, and who is not warned sees each of    *)
(* them. While no two launches go on at once, a move has nothing open and  *)
(* nothing in its way, and what it has half copied has its source yet.     *)
(* While besides none stopped between the two files, who opened unwarned   *)
(* has left no legacy file behind.                                         *)

\* No two launches go on at once.
OneLaunches == \A s, t \in Surfaces : s # t => ~(A!Busy(s) /\ A!Busy(t))

\* What is open is open on the files that are there.
OpenOnWhatIsThere ==
  \A s \in Surfaces : /\ attached[s] <=> step[s] = "running"
                      /\ attached[s] => files[A!Database] \notin {None, Torn} /\ files[A!Log] # Torn

\* A log is beside its database.
LogHasDatabase == files[A!Log] # None => files[A!Database] # None

\* A move has a legacy workspace in hand, nothing open, and nothing in the way.
MovesAreSafe ==
  \A s \in Surfaces : step[s] \in A!Moving =>
    /\ \A t \in Surfaces : step[t] # "running"
    /\ kind[s] = "database" => files[A!Log] = None
    /\ kind[s] = "log" => files[A!Database] \notin {None, Torn}
    /\ step[s] = "move" => files[A!Target(s)] = None
    /\ step[s] = "copying" => files[A!Target(s)] = Torn
    /\ step[s] = "copied" => files[A!Target(s)] = files[A!Source(s)] /\ files[A!Source(s)] # None

\* Nothing is left at a legacy place.
Emptied == \A l \in Legacy : files[<<l, "database">>] = None /\ files[<<l, "log">>] = None

\* While no launch stopped between the two files, a legacy log has its database, or is on its way after it.
LegacyIsWhole ==
  \A l \in Legacy : files[<<l, "log">>] # None =>
    \/ files[<<l, "database">>] # None
    \/ \E s \in Surfaces : step[s] \in A!Moving /\ kind[s] = "log" /\ from[s] = l

\* A move is of the only legacy workspace, and who opened untold has left none behind.
NoneIsLeft ==
  \A s \in Surfaces :
    /\ step[s] \in A!Moving => \A l \in Legacy : files[<<l, "database">>] # None => l = from[s] /\ kind[s] = "database"
    /\ step[s] \in {"open", "running"} /\ ~told[s] => Emptied

\* Who looks begins with the database, and no half copy is at a legacy place.
Beginnings ==
  /\ \A s \in Surfaces : /\ step[s] = "look" => kind[s] = "database"
                         /\ step[s] \in A!Moving => from[s] \in Legacy
  /\ \A l \in Legacy, k \in A!Kinds : files[<<l, k>>] # Torn

\* What holds where no two launches went on at once, and where besides none stopped between two files.
Single == OneLaunches /\ OpenOnWhatIsThere /\ LogHasDatabase /\ MovesAreSafe /\ committed \subseteq A!OnDisk
Untold == LegacyIsWhole /\ NoneIsLeft

AdoptionInv ==
  /\ A!TypeOK
  /\ Beginnings
  /\ ~overlapped => Single
  /\ ~overlapped /\ ~parted => Untold

LEMMA Files == ASSUME A!AdoptionAssumption
               PROVE  /\ A!Database \in A!Places \X A!Kinds /\ A!Log \in A!Places \X A!Kinds /\ A!Database # A!Log
                      /\ \A l \in Legacy : l # Canonical /\ l # None
                      /\ None # Torn /\ \A c \in SUBSET A!Commits : c # None /\ c # Torn
BY DEF A!AdoptionAssumption, A!Database, A!Log, A!Places, A!Kinds

\* A commit is in a file.
LEMMA Somewhere == ASSUME NEW c
                   PROVE  c \in A!OnDisk <=> \E f \in A!Places \X A!Kinds : c \in A!Content(files[f])
<1>1. c \in A!OnDisk <=> \E p \in A!Places : c \in A!Content(files[<<p, "database">>]) \/ c \in A!Content(files[<<p, "log">>])
  BY DEF A!OnDisk, A!Visible
<1>2. \A p \in A!Places : <<p, "database">> \in A!Places \X A!Kinds /\ <<p, "log">> \in A!Places \X A!Kinds
  BY DEF A!Kinds
<1>3. \A f \in A!Places \X A!Kinds : \E p \in A!Places : f = <<p, "database">> \/ f = <<p, "log">>
  BY DEF A!Kinds
<1>q. QED BY <1>1, <1>2, <1>3

LEMMA ContentIs == \A f : A!Content(f) = (IF f \in {None, Torn} THEN {} ELSE f)
BY DEF A!Content

LEMMA OnDiskKept ==
  ASSUME committed \subseteq A!OnDisk, committed' = committed,
         \A f \in A!Places \X A!Kinds : \E g \in A!Places \X A!Kinds : A!Content(files[f]) \subseteq A!Content(files'[g])
  PROVE  committed' \subseteq A!OnDisk'
<1> SUFFICES ASSUME NEW c \in committed PROVE c \in A!OnDisk'
  OBVIOUS
<1>1. PICK f \in A!Places \X A!Kinds : c \in A!Content(files[f])
  BY Somewhere
<1>2. PICK g \in A!Places \X A!Kinds : c \in A!Content(files'[g])
  BY <1>1
<1>3. PICK p \in A!Places, k \in A!Kinds : g = <<p, k>>
  OBVIOUS
<1>4. c \in A!Visible(p)'
  BY <1>2, <1>3 DEF A!Visible, A!Kinds, A!Content
<1>q. QED BY <1>4 DEF A!OnDisk

\* What a move has in hand.
LEMMA InHand ==
  ASSUME A!AdoptionAssumption, A!TypeOK, Beginnings, NEW s \in Surfaces, step[s] \in A!Moving
  PROVE  /\ A!Source(s) \in A!Places \X A!Kinds /\ A!Target(s) \in A!Places \X A!Kinds /\ A!Source(s) # A!Target(s)
         /\ A!Source(s) = <<from[s], kind[s]>> /\ from[s] \in Legacy /\ kind[s] \in A!Kinds
         /\ A!Target(s) = (IF kind[s] = "database" THEN A!Database ELSE A!Log)
         /\ A!Source(s) \notin {A!Database, A!Log}
BY Files DEF A!TypeOK, Beginnings, A!Source, A!Target, A!Database, A!Log, A!Places, A!Kinds

LEMMA AdoptionInit == ASSUME A!AdoptionAssumption, A!Init PROVE AdoptionInv
<1>1. PICK present \in SUBSET A!Places : \E logged \in SUBSET present :
       files = [f \in A!Places \X A!Kinds |->
                  CASE f[2] = "database" /\ f[1] \in present -> {<<f[1], "old">>}
                    [] f[2] = "log" /\ f[1] \in logged -> {<<f[1], "recent">>}
                    [] OTHER -> None]
  BY DEF A!Init
<1>2. PICK logged \in SUBSET present :
       files = [f \in A!Places \X A!Kinds |->
                  CASE f[2] = "database" /\ f[1] \in present -> {<<f[1], "old">>}
                    [] f[2] = "log" /\ f[1] \in logged -> {<<f[1], "recent">>}
                    [] OTHER -> None]
  BY <1>1
<1>3. ASSUME NEW p \in A!Places
      PROVE  /\ <<p, "database">> \in A!Places \X A!Kinds /\ <<p, "log">> \in A!Places \X A!Kinds
             /\ files[<<p, "database">>] = (IF p \in present THEN {<<p, "old">>} ELSE None)
             /\ files[<<p, "log">>] = (IF p \in logged THEN {<<p, "recent">>} ELSE None)
  BY <1>2 DEF A!Kinds
<1>4. ASSUME NEW p \in A!Places
      PROVE  {<<p, "old">>} \in SUBSET A!Commits /\ {<<p, "recent">>} \in SUBSET A!Commits
  BY DEF A!Commits
<1>5. ASSUME NEW f \in A!Places \X A!Kinds PROVE files[f] = None \/ files[f] \in SUBSET A!Commits
  <2>1. PICK q \in A!Places : f = <<q, "database">> \/ f = <<q, "log">>
    BY DEF A!Kinds
  <2> DEFINE Sets == SUBSET A!Commits
  <2>2. {<<q, "old">>} \in Sets /\ {<<q, "recent">>} \in Sets
    BY <1>4
  <2>3. /\ files[<<q, "database">>] \in {{<<q, "old">>}, None}
        /\ files[<<q, "log">>] \in {{<<q, "recent">>}, None}
    BY <1>3
  <2> HIDE DEF Sets
  <2>4. files[f] = None \/ files[f] \in Sets
    BY <2>1, <2>2, <2>3
  <2>q. QED BY <2>4 DEF Sets
<1>6. ASSUME NEW f \in A!Places \X A!Kinds PROVE A!Content(files[f]) \subseteq A!Commits
  <2>1. CASE files[f] = None
    BY <2>1 DEF A!Content
  <2>2. CASE files[f] \in SUBSET A!Commits
    BY <2>2 DEF A!Content
  <2>q. QED BY <1>5, <2>1, <2>2
<1>7. A!TypeOK
  <2>1. committed \subseteq A!Commits
    <3> SUFFICES ASSUME NEW c \in A!OnDisk PROVE c \in A!Commits
      BY DEF A!Init
    <3>1. PICK f \in A!Places \X A!Kinds : c \in A!Content(files[f])
      BY Somewhere
    <3>q. QED BY <1>6, <3>1
  <2>2. files \in [A!Places \X A!Kinds -> (SUBSET A!Commits) \cup {None, Torn}]
    <3>1. ASSUME NEW f \in A!Places \X A!Kinds PROVE files[f] \in (SUBSET A!Commits) \cup {None, Torn}
      <4>1. CASE files[f] = None
        BY <4>1, Zenon
      <4>2. CASE files[f] \in SUBSET A!Commits
        BY <4>2, Zenon
      <4>q. QED BY <1>5, <4>1, <4>2
    <3>2. files = [f \in A!Places \X A!Kinds |-> files[f]]
      BY <1>2
    <3>q. QED BY <3>1, <3>2
  <2>3. /\ step = [s \in Surfaces |-> "down"] /\ from = [s \in Surfaces |-> None]
        /\ kind = [s \in Surfaces |-> "database"] /\ attached = [s \in Surfaces |-> FALSE]
        /\ told = [s \in Surfaces |-> FALSE] /\ parted = FALSE /\ overlapped = FALSE /\ broken = 0
    BY DEF A!Init
  <2>4. {FALSE} \subseteq BOOLEAN /\ "database" \in A!Kinds /\ 0 \in 0 .. MaxBroken
    BY DEF A!Kinds, A!AdoptionAssumption
  <2>q. QED BY <2>1, <2>2, <2>3, <2>4 DEF A!TypeOK
<1>8. OneLaunches /\ OpenOnWhatIsThere /\ MovesAreSafe /\ NoneIsLeft
  BY DEF A!Init, OneLaunches, A!Busy, OpenOnWhatIsThere, MovesAreSafe, NoneIsLeft, A!Moving
<1>9. ASSUME NEW p \in A!Places, files[<<p, "log">>] # None PROVE files[<<p, "database">>] # None
  <2>1. p \in present /\ files[<<p, "database">>] = {<<p, "old">>}
    BY <1>3, <1>9
  <2>q. QED BY <1>4, <2>1 DEF A!AdoptionAssumption
<1>10. LogHasDatabase /\ LegacyIsWhole
  BY <1>9 DEF LogHasDatabase, LegacyIsWhole, A!Database, A!Log, A!Places
<1>11. Beginnings
  <2>1. ASSUME NEW l \in Legacy, NEW k \in A!Kinds PROVE files[<<l, k>>] # Torn
    <3>1. <<l, k>> \in A!Places \X A!Kinds
      BY DEF A!Places
    <3>2. files[<<l, k>>] = None \/ files[<<l, k>>] \in SUBSET A!Commits
      BY <1>5, <3>1
    <3>3. None # Torn /\ Torn \notin SUBSET A!Commits
      BY DEF A!AdoptionAssumption
    <3>q. QED BY <3>2, <3>3
  <2>q. QED BY <2>1 DEF Beginnings, A!Init, A!Moving
<1>12. committed \subseteq A!OnDisk
  BY DEF A!Init
<1>q. QED BY <1>7, <1>8, <1>10, <1>11, <1>12 DEF AdoptionInv, Single, Untold

\* A step that leaves the files, the connections and the moves.
LEMMA FilesStayKept ==
  ASSUME A!AdoptionAssumption, AdoptionInv, UNCHANGED <<files, attached, committed>>, A!TypeOK', Beginnings',
         ~overlapped' => ~overlapped /\ OneLaunches', ~parted' => ~parted,
         \A s \in Surfaces : step'[s] = "running" <=> step[s] = "running",
         \A s \in Surfaces : step'[s] \in A!Moving <=> step[s] \in A!Moving,
         \A s \in Surfaces : step[s] \in A!Moving => step'[s] = step[s] /\ kind'[s] = kind[s] /\ from'[s] = from[s],
         \A s \in Surfaces : step'[s] \in {"open", "running"} /\ ~told'[s] =>
                                 (step[s] \in {"open", "running"} /\ ~told[s]) \/ (~overlapped' /\ ~parted' => Emptied)
  PROVE  AdoptionInv'
<1>1. ASSUME ~overlapped' PROVE Single'
  <2>1. OpenOnWhatIsThere' /\ LogHasDatabase'
    BY <1>1 DEF AdoptionInv, Single, OpenOnWhatIsThere, LogHasDatabase, A!Database, A!Log
  <2>2. MovesAreSafe'
    BY <1>1 DEF AdoptionInv, Single, MovesAreSafe, A!Target, A!Source, A!Database, A!Log
  <2>3. A!OnDisk' = A!OnDisk
    BY DEF A!OnDisk, A!Visible, A!Content
  <2>q. QED BY <1>1, <2>1, <2>2, <2>3 DEF AdoptionInv, Single
<1>2. ASSUME ~overlapped', ~parted' PROVE Untold'
  <2>1. LegacyIsWhole /\ NoneIsLeft
    BY <1>2 DEF AdoptionInv, Untold
  <2>2. LegacyIsWhole'
    BY <2>1 DEF LegacyIsWhole
  <2>3. Emptied' = Emptied
    BY DEF Emptied
  <2>4. NoneIsLeft'
    BY <1>2, <2>1, <2>3 DEF NoneIsLeft
  <2>q. QED BY <2>2, <2>4 DEF Untold
<1>q. QED BY <1>1, <1>2 DEF AdoptionInv

LEMMA LaunchKept == ASSUME A!AdoptionAssumption, AdoptionInv, NEW s \in Surfaces, A!Launch(s) PROVE AdoptionInv'
<1>1. A!TypeOK'
  BY DEF AdoptionInv, A!TypeOK, A!Launch, A!Goto, A!Kinds
<1>2. /\ step[s] = "down" /\ step' = [step EXCEPT ![s] = "look"] /\ kind' = [kind EXCEPT ![s] = "database"]
      /\ from' = [from EXCEPT ![s] = None] /\ told' = [told EXCEPT ![s] = FALSE]
      /\ UNCHANGED <<files, attached, committed, parted, broken>>
  BY DEF A!Launch, A!Goto
<1>3. ~overlapped' => ~overlapped /\ \A t \in Surfaces \ {s} : ~A!Busy(t)
  <2>1. overlapped' = (overlapped \/ \E t \in Surfaces \ {s} : A!Busy(t))
    BY DEF A!Launch
  <2>q. QED BY <2>1 DEF AdoptionInv, A!TypeOK
<1>4. /\ step'[s] = "look" /\ kind'[s] = "database"
      /\ \A t \in Surfaces : t # s => step'[t] = step[t] /\ told'[t] = told[t] /\ kind'[t] = kind[t] /\ from'[t] = from[t]
  BY <1>2 DEF AdoptionInv, A!TypeOK
<1>5. ~overlapped' => OneLaunches'
  BY <1>3, <1>4 DEF OneLaunches, A!Busy
<1>6. Beginnings'
  BY <1>2, <1>4 DEF AdoptionInv, Beginnings, A!Moving
<1>7. "look" \notin A!Moving \cup {"open", "running"} /\ "down" \notin A!Moving \cup {"running"}
  BY DEF A!Moving
<1>q. QED BY <1>1, <1>2, <1>3, <1>4, <1>5, <1>6, <1>7, FilesStayKept

\* Where a launch adopts, nobody else does anything.
LEMMA MoverAlone ==
  ASSUME A!AdoptionAssumption, A!TypeOK, OneLaunches, OpenOnWhatIsThere, MovesAreSafe, NEW s \in Surfaces, step[s] \in A!Moving
  PROVE  \A t \in Surfaces : ~attached[t] /\ (t # s => step[t] \in {"down", "refused"})
<1>1. ASSUME NEW t \in Surfaces PROVE step[t] # "running"
  BY DEF MovesAreSafe
<1>2. ASSUME NEW t \in Surfaces, t # s PROVE ~A!Busy(t)
  <2>1. A!Busy(s)
    BY DEF A!Busy
  <2>q. QED BY <1>2, <2>1 DEF OneLaunches
<1>3. ASSUME NEW t \in Surfaces, t # s PROVE step[t] \in {"down", "refused"}
  BY <1>1, <1>2, <1>3 DEF A!Busy, A!TypeOK
<1>4. ASSUME NEW t \in Surfaces PROVE ~attached[t]
  BY <1>1 DEF OpenOnWhatIsThere
<1>q. QED BY <1>3, <1>4

\* A step of a move.
LEMMA MoveStepKept ==
  ASSUME A!AdoptionAssumption, AdoptionInv, NEW s \in Surfaces, step[s] \in A!Moving,
         UNCHANGED <<from, committed, overlapped>>, A!TypeOK', Beginnings', ~parted' => ~parted,
         \A t \in Surfaces : t # s => step'[t] = step[t],
         \A t \in Surfaces : attached'[t] => attached[t],
         step'[s] \in A!Moving \cup {"open"},
         ~overlapped =>
           /\ LogHasDatabase'
           /\ step'[s] \in A!Moving =>
                  /\ kind'[s] = "database" => files'[A!Log] = None
                  /\ kind'[s] = "log" => files'[A!Database] \notin {None, Torn}
                  /\ step'[s] = "move" => files'[<<Canonical, kind'[s]>>] = None
                  /\ step'[s] = "copying" => files'[<<Canonical, kind'[s]>>] = Torn
                  /\ step'[s] = "copied" => /\ files'[<<Canonical, kind'[s]>>] = files'[<<from[s], kind'[s]>>]
                                            /\ files'[<<from[s], kind'[s]>>] # None
           /\ \A f \in A!Places \X A!Kinds : \E g \in A!Places \X A!Kinds : A!Content(files[f]) \subseteq A!Content(files'[g]),
         ~overlapped /\ ~parted' =>
           /\ LegacyIsWhole'
           /\ step'[s] \in A!Moving => \A l \in Legacy : files'[<<l, "database">>] # None => l = from[s] /\ kind'[s] = "database"
           /\ step'[s] = "open" /\ ~told'[s] => Emptied'
  PROVE  AdoptionInv'
<1>1. ASSUME ~overlapped' PROVE Single'
  <2>1. Single
    BY <1>1 DEF AdoptionInv
  <2>2. \A t \in Surfaces : ~attached[t] /\ (t # s => step[t] \in {"down", "refused"})
    BY <2>1, MoverAlone DEF AdoptionInv, Single
  <2>3. \A t \in Surfaces : t # s => step'[t] \in {"down", "refused"} /\ ~A!Busy(t)'
    BY <2>2 DEF A!Busy, A!Moving
  <2>4. OneLaunches'
    BY <2>3 DEF OneLaunches
  <2>5. \A t \in Surfaces : step'[t] # "running" /\ ~attached'[t]
    BY <2>2, <2>3 DEF A!Moving
  <2>6. OpenOnWhatIsThere'
    BY <2>5 DEF OpenOnWhatIsThere
  <2>7. LogHasDatabase'
    BY <1>1
  <2>8. MovesAreSafe'
    <3>1. from[s] \in Legacy
      BY DEF AdoptionInv, Beginnings
    <3>2. \A t \in Surfaces : t # s => step'[t] \notin A!Moving
      BY <2>3 DEF A!Moving
    <3>q. QED BY <1>1, <2>5, <3>1, <3>2 DEF MovesAreSafe, A!Target, A!Source
  <2>9. committed' \subseteq A!OnDisk'
    BY <1>1, <2>1, OnDiskKept DEF Single
  <2>q. QED BY <2>4, <2>6, <2>7, <2>8, <2>9 DEF Single
<1>2. ASSUME ~overlapped', ~parted' PROVE Untold'
  <2>1. Single
    BY <1>2 DEF AdoptionInv
  <2>2. \A t \in Surfaces : t # s => step'[t] \in {"down", "refused"}
    BY <2>1, MoverAlone DEF AdoptionInv, Single
  <2>3. NoneIsLeft'
    BY <1>2, <2>2 DEF NoneIsLeft, A!Moving
  <2>q. QED BY <1>2, <2>3 DEF Untold
<1>q. QED BY <1>1, <1>2 DEF AdoptionInv

LEMMA CrashKept == ASSUME A!AdoptionAssumption, AdoptionInv, NEW s \in Surfaces, A!Crash(s) PROVE AdoptionInv'
<1>1. A!TypeOK'
  BY DEF AdoptionInv, A!TypeOK, A!Crash, A!Goto, A!AdoptionAssumption
<1>2. /\ step' = [step EXCEPT ![s] = "down"] /\ attached' = [attached EXCEPT ![s] = FALSE]
      /\ UNCHANGED <<files, from, kind, told, committed, overlapped>>
  BY DEF A!Crash, A!Goto
<1>3. /\ step'[s] = "down" /\ attached'[s] = FALSE
      /\ \A t \in Surfaces : t # s => step'[t] = step[t] /\ attached'[t] = attached[t]
  BY <1>2 DEF AdoptionInv, A!TypeOK
<1>4. ASSUME ~overlapped' PROVE Single'
  <2>1. Single
    BY <1>2, <1>4 DEF AdoptionInv
  <2>2. OneLaunches'
    BY <1>2, <1>3, <2>1 DEF Single, OneLaunches, A!Busy, A!Moving
  <2>3. OpenOnWhatIsThere' /\ LogHasDatabase'
    BY <1>2, <1>3, <2>1 DEF Single, OpenOnWhatIsThere, LogHasDatabase, A!Database, A!Log
  <2>4. MovesAreSafe'
    BY <1>2, <1>3, <2>1 DEF Single, MovesAreSafe, A!Target, A!Source, A!Moving, A!Database, A!Log
  <2>5. A!OnDisk' = A!OnDisk
    BY <1>2 DEF A!OnDisk, A!Visible, A!Content
  <2>q. QED BY <1>2, <2>1, <2>2, <2>3, <2>4, <2>5 DEF Single
<1>5. ASSUME ~overlapped', ~parted' PROVE Untold'
  <2>1. LegacyIsWhole /\ NoneIsLeft /\ ~(step[s] \in A!Moving /\ kind[s] = "log")
    <3>1. parted' = (parted \/ (step[s] \in A!Moving /\ kind[s] = "log"))
      BY DEF A!Crash
    <3>q. QED BY <1>2, <1>5, <3>1 DEF AdoptionInv, Untold
  <2>2. LegacyIsWhole'
    BY <1>2, <1>3, <2>1 DEF LegacyIsWhole
  <2>3. NoneIsLeft'
    BY <1>2, <1>3, <2>1 DEF NoneIsLeft, Emptied, A!Moving
  <2>q. QED BY <2>2, <2>3 DEF Untold
<1>6. Beginnings'
  BY <1>2, <1>3 DEF AdoptionInv, Beginnings, A!Moving
<1>q. QED BY <1>1, <1>4, <1>5, <1>6 DEF AdoptionInv

\* What a lone legacy workspace is.
LEMMA LookKept == ASSUME A!AdoptionAssumption, AdoptionInv, NEW s \in Surfaces, A!Look(s) PROVE AdoptionInv'
<1>1. /\ step[s] = "look" /\ UNCHANGED <<files, kind, attached, committed, parted, overlapped, broken>>
  BY DEF A!Look
<1>2. step[s] \notin A!Moving /\ A!Busy(s)
  BY <1>1 DEF A!Moving, A!Busy
<1>3. ASSUME step' = [step EXCEPT ![s] = "open"], UNCHANGED from,
             told' = told \/ told' = [told EXCEPT ![s] = TRUE],
             told'[s] \/ A!Existing = {}
      PROVE  AdoptionInv'
  <2>1. A!TypeOK'
    BY <1>1, <1>3 DEF AdoptionInv, A!TypeOK
  <2>2. /\ step'[s] = "open"
        /\ \A t \in Surfaces : t # s => step'[t] = step[t] /\ told'[t] = told[t]
    BY <1>3 DEF AdoptionInv, A!TypeOK
  <2>3. Beginnings'
    BY <1>1, <1>3, <2>2 DEF AdoptionInv, Beginnings, A!Moving
  <2>4. ~overlapped' => ~overlapped /\ OneLaunches'
    BY <1>1, <1>2, <2>2 DEF AdoptionInv, Single, OneLaunches, A!Busy, A!Moving
  <2>5. ASSUME ~overlapped', ~parted', ~told'[s] PROVE Emptied
    <3>1. \A l \in Legacy : files[<<l, "database">>] = None
      BY <1>3, <2>5 DEF A!Existing
    <3>2. OneLaunches /\ LegacyIsWhole
      BY <1>1, <2>5 DEF AdoptionInv, Single, Untold
    <3>3. \A t \in Surfaces : step[t] \notin A!Moving
      BY <1>2, <3>2 DEF OneLaunches, A!Busy
    <3>q. QED BY <3>1, <3>2, <3>3 DEF LegacyIsWhole, Emptied
  <2>6. step'[s] \notin A!Moving /\ step'[s] # "running"
    BY <2>2 DEF A!Moving
  <2>q. QED BY <1>1, <1>2, <1>3, <2>1, <2>2, <2>3, <2>4, <2>5, <2>6, FilesStayKept
<1>4. ASSUME NEW l \in Legacy, A!Adoptable(l), from' = [from EXCEPT ![s] = l],
             step' = [step EXCEPT ![s] = "move"], UNCHANGED told
      PROVE  AdoptionInv'
  <2>1. A!TypeOK'
    BY <1>1, <1>4 DEF AdoptionInv, A!TypeOK, A!Moving
  <2>2. /\ step'[s] = "move" /\ from'[s] = l /\ step'[s] \in A!Moving
        /\ \A t \in Surfaces : t # s => step'[t] = step[t] /\ from'[t] = from[t]
    BY <1>4 DEF AdoptionInv, A!TypeOK, A!Moving
  <2>3. kind[s] = "database"
    BY <1>1 DEF AdoptionInv, Beginnings
  <2>4. Beginnings'
    BY <1>1, <2>2 DEF AdoptionInv, Beginnings, A!Moving
  <2>5. files[A!Database] = None /\ \A k \in Legacy : files[<<k, "database">>] # None => k = l
    BY <1>4 DEF A!Adoptable, A!Existing
  <2>6. ASSUME ~overlapped' PROVE Single' /\ \A t \in Surfaces : t # s => step[t] \notin A!Moving
    <3>1. Single
      BY <1>1, <2>6 DEF AdoptionInv
    <3>2. OneLaunches'
      BY <1>2, <2>2, <3>1 DEF Single, OneLaunches, A!Busy, A!Moving
    <3>3. \A t \in Surfaces : t # s => step[t] \notin A!Moving
      BY <1>2, <3>1 DEF Single, OneLaunches, A!Busy
    <3>4. \A t \in Surfaces : ~attached[t] /\ step[t] # "running"
      BY <2>5, <3>1 DEF Single, OpenOnWhatIsThere
    <3>5. OpenOnWhatIsThere' /\ LogHasDatabase'
      BY <1>1, <2>2, <3>1, <3>4 DEF Single, OpenOnWhatIsThere, LogHasDatabase, A!Database, A!Log
    <3>6. files[A!Log] = None
      BY <2>5, <3>1 DEF Single, LogHasDatabase
    <3>7. MovesAreSafe'
      BY <1>1, <2>2, <2>3, <2>5, <3>3, <3>4, <3>6 DEF MovesAreSafe, A!Target, A!Database, A!Log
    <3>8. A!OnDisk' = A!OnDisk
      BY <1>1 DEF A!OnDisk, A!Visible, A!Content
    <3>q. QED BY <1>1, <3>1, <3>2, <3>3, <3>5, <3>7, <3>8 DEF Single
  <2>7. ASSUME ~overlapped', ~parted' PROVE Untold'
    <3>1. LegacyIsWhole /\ NoneIsLeft
      BY <1>1, <2>7 DEF AdoptionInv, Untold
    <3>2. LegacyIsWhole'
      BY <1>1, <1>2, <2>2, <3>1 DEF LegacyIsWhole
    <3>3. NoneIsLeft'
      BY <1>1, <1>4, <2>2, <2>3, <2>5, <2>6, <2>7, <3>1 DEF NoneIsLeft, Emptied
    <3>q. QED BY <3>2, <3>3 DEF Untold
  <2>q. QED BY <2>1, <2>4, <2>6, <2>7 DEF AdoptionInv
<1>5. told' = [told EXCEPT ![s] = TRUE] => told'[s]
  BY DEF AdoptionInv, A!TypeOK
<1>q. QED BY <1>3, <1>4, <1>5 DEF A!Look, A!Goto

\* Nothing is in the files of a move that is not there afterwards.
LEMMA AbsentKept == ASSUME A!AdoptionAssumption, AdoptionInv, NEW s \in Surfaces, A!Absent(s) PROVE AdoptionInv'
<1>1. /\ step[s] = "move" /\ step[s] \in A!Moving /\ files[A!Source(s)] = None
      /\ told' = [told EXCEPT ![s] = (@ \/ kind[s] = "database")]
      /\ step' = [step EXCEPT ![s] = "open"]
      /\ UNCHANGED <<files, from, kind, attached, committed, parted, overlapped, broken>>
  BY DEF A!Absent, A!Goto, A!Moving
<1>2. A!TypeOK'
  BY <1>1 DEF AdoptionInv, A!TypeOK
<1>3. /\ step'[s] = "open" /\ step'[s] \notin A!Moving /\ \A t \in Surfaces : t # s => step'[t] = step[t]
      /\ told'[s] = (told[s] \/ kind[s] = "database")
  BY <1>1 DEF AdoptionInv, A!TypeOK, A!Moving
<1>4. Beginnings'
  BY <1>1, <1>3 DEF AdoptionInv, Beginnings, A!Moving
<1>5. ASSUME ~overlapped PROVE LogHasDatabase'
  BY <1>1, <1>5 DEF AdoptionInv, Single, LogHasDatabase, A!Database, A!Log
<1>6. ASSUME ~overlapped, ~parted' PROVE LegacyIsWhole' /\ (~told'[s] => Emptied')
  <2>1. Single /\ LegacyIsWhole /\ NoneIsLeft
    BY <1>1, <1>6 DEF AdoptionInv, Untold
  <2>2. \A t \in Surfaces : t # s => step[t] \notin A!Moving
    BY <1>1, <2>1, MoverAlone DEF AdoptionInv, Single, A!Moving
  <2>3. \A l \in Legacy : files[<<l, "log">>] # None => files[<<l, "database">>] # None
    BY <1>1, <2>1, <2>2 DEF LegacyIsWhole, A!Source
  <2>4. LegacyIsWhole'
    BY <1>1, <2>3 DEF LegacyIsWhole
  <2>5. ASSUME ~told'[s] PROVE Emptied'
    <3>1. kind[s] # "database"
      BY <1>3, <2>5
    <3>2. \A l \in Legacy : files[<<l, "database">>] = None
      BY <1>1, <2>1, <3>1 DEF NoneIsLeft
    <3>q. QED BY <1>1, <2>3, <3>2 DEF Emptied
  <2>q. QED BY <2>4, <2>5
<1>q. QED BY <1>1, <1>2, <1>3, <1>4, <1>5, <1>6, MoveStepKept

LEMMA MoveFailsKept == ASSUME A!AdoptionAssumption, AdoptionInv, NEW s \in Surfaces, A!MoveFails(s) PROVE AdoptionInv'
<1>1. /\ step[s] \in A!Moving /\ told' = [told EXCEPT ![s] = TRUE] /\ step' = [step EXCEPT ![s] = "open"]
      /\ (broken' = broken + 1 /\ broken < MaxBroken) \/ UNCHANGED broken
      /\ parted' = (parted \/ kind[s] = "log")
      /\ UNCHANGED <<files, from, kind, attached, committed, overlapped>>
  BY DEF A!MoveFails, A!Goto
<1>2. A!TypeOK'
  BY <1>1 DEF AdoptionInv, A!TypeOK, A!AdoptionAssumption
<1>3. /\ step'[s] = "open" /\ step'[s] \notin A!Moving /\ \A t \in Surfaces : t # s => step'[t] = step[t]
      /\ told'[s]
  BY <1>1 DEF AdoptionInv, A!TypeOK, A!Moving
<1>4. Beginnings'
  BY <1>1, <1>3 DEF AdoptionInv, Beginnings, A!Moving
<1>5. ASSUME ~overlapped PROVE LogHasDatabase'
  BY <1>1, <1>5 DEF AdoptionInv, Single, LogHasDatabase, A!Database, A!Log
<1>6. ASSUME ~overlapped, ~parted' PROVE LegacyIsWhole'
  <2>1. Single /\ LegacyIsWhole /\ kind[s] # "log"
    BY <1>1, <1>6 DEF AdoptionInv, Untold
  <2>2. \A t \in Surfaces : t # s => step[t] \notin A!Moving
    BY <1>1, <2>1, MoverAlone DEF AdoptionInv, Single, A!Moving
  <2>q. QED BY <1>1, <2>1, <2>2 DEF LegacyIsWhole
<1>q. QED BY <1>1, <1>2, <1>3, <1>4, <1>5, <1>6, MoveStepKept

\* A file of a legacy place is moved or copied: what it was, and where it goes.
LEMMA InHandSafe ==
  ASSUME A!AdoptionAssumption, AdoptionInv, NEW s \in Surfaces, step[s] \in A!Moving, ~overlapped
  PROVE  /\ Single /\ A!Source(s) = <<from[s], kind[s]>> /\ A!Target(s) = <<Canonical, kind[s]>>
         /\ from[s] \in Legacy /\ kind[s] \in A!Kinds /\ files[A!Source(s)] # Torn
         /\ kind[s] = "database" => A!Target(s) = A!Database /\ files[A!Log] = None
         /\ kind[s] = "log" => A!Target(s) = A!Log /\ files[A!Database] \notin {None, Torn}
         /\ step[s] = "move" => files[A!Target(s)] = None
         /\ step[s] = "copying" => files[A!Target(s)] = Torn
         /\ step[s] = "copied" => files[A!Target(s)] = files[A!Source(s)]
<1>1. A!TypeOK /\ Beginnings /\ Single /\ MovesAreSafe
  BY DEF AdoptionInv, Single
<1>2. /\ A!Source(s) = <<from[s], kind[s]>> /\ from[s] \in Legacy /\ kind[s] \in A!Kinds
      /\ A!Target(s) = (IF kind[s] = "database" THEN A!Database ELSE A!Log)
  BY <1>1, InHand
<1>3. files[A!Source(s)] # Torn
  BY <1>2 DEF AdoptionInv, Beginnings
<1>q. QED BY <1>1, <1>2, <1>3 DEF MovesAreSafe, A!Target

\* What a move does to two files of a kind.
LEMMA FileMoved ==
  ASSUME A!AdoptionAssumption, A!TypeOK, NEW l \in Legacy, NEW k \in A!Kinds, NEW x, NEW y,
         files' = [files EXCEPT ![<<Canonical, k>>] = x, ![<<l, k>>] = y]
  PROVE  /\ files'[<<Canonical, k>>] = x /\ files'[<<l, k>>] = y
         /\ \A f \in A!Places \X A!Kinds : f # <<Canonical, k>> /\ f # <<l, k>> => files'[f] = files[f]
         /\ <<Canonical, k>> \in A!Places \X A!Kinds /\ <<l, k>> \in A!Places \X A!Kinds
         /\ <<Canonical, k>> # <<l, k>>
BY DEF A!AdoptionAssumption, A!TypeOK, A!Places

LEMMA FilePut ==
  ASSUME A!TypeOK, NEW f, NEW g, NEW x \in (SUBSET A!Commits) \cup {None, Torn},
         files' = [files EXCEPT ![f] = x] \/ files' = [files EXCEPT ![f] = x, ![g] = None]
  PROVE  files' \in [A!Places \X A!Kinds -> (SUBSET A!Commits) \cup {None, Torn}]
<1> DEFINE Sets == (SUBSET A!Commits) \cup {None, Torn}
<1>1. None \in Sets /\ x \in Sets
  OBVIOUS
<1>2. files \in [A!Places \X A!Kinds -> Sets]
  BY DEF A!TypeOK
<1> HIDE DEF Sets
<1>3. files' \in [A!Places \X A!Kinds -> Sets]
  BY <1>1, <1>2
<1>q. QED BY <1>3 DEF Sets

\* From one file to the next: the log after the database, and then the files are opened.
LEMMA AfterFileSteps ==
  ASSUME A!TypeOK, NEW s \in Surfaces, A!AfterFile(s)
  PROVE  /\ kind[s] = "database" => step'[s] = "move" /\ kind'[s] = "log"
         /\ kind[s] # "database" => step'[s] = "open" /\ kind'[s] = kind[s]
         /\ \A t \in Surfaces : t # s => step'[t] = step[t] /\ kind'[t] = kind[t]
         /\ step' \in [Surfaces -> A!Moving \cup {"down", "look", "open", "running", "refused"}]
         /\ kind' \in [Surfaces -> A!Kinds]
BY DEF A!TypeOK, A!AfterFile, A!Goto, A!Moving, A!Kinds

\* What is left at legacy places once a file of the one in hand has gone.
LEMMA HandedOver ==
  ASSUME A!AdoptionAssumption, AdoptionInv, ~overlapped, ~parted, NEW s \in Surfaces, step[s] \in A!Moving,
         A!AfterFile(s), UNCHANGED from,
         \A l \in Legacy, k \in A!Kinds : <<l, k>> # A!Source(s) => files'[<<l, k>>] = files[<<l, k>>],
         files'[A!Source(s)] = None
  PROVE  /\ LegacyIsWhole'
         /\ step'[s] \in A!Moving => \A l \in Legacy : files'[<<l, "database">>] # None => l = from[s] /\ kind'[s] = "database"
         /\ step'[s] = "open" => Emptied'
<1>1. Single /\ LegacyIsWhole /\ NoneIsLeft /\ A!TypeOK
  BY DEF AdoptionInv, Untold
<1>2. A!Source(s) = <<from[s], kind[s]>> /\ from[s] \in Legacy /\ kind[s] \in A!Kinds
  BY InHandSafe
<1>3. \A t \in Surfaces : t # s => step[t] \notin A!Moving
  BY <1>1, MoverAlone DEF Single, A!Moving
<1>4. \A l \in Legacy : files[<<l, "database">>] # None => l = from[s] /\ kind[s] = "database"
  BY <1>1 DEF NoneIsLeft
<1>5. \A l \in Legacy : files'[<<l, "database">>] = None
  <2> SUFFICES ASSUME NEW l \in Legacy PROVE files'[<<l, "database">>] = None
    OBVIOUS
  <2>1. CASE <<l, "database">> = A!Source(s)
    BY <2>1
  <2>2. CASE <<l, "database">> # A!Source(s)
    <3>1. "database" \in A!Kinds
      BY DEF A!Kinds
    <3>2. files'[<<l, "database">>] = files[<<l, "database">>]
      BY <2>2, <3>1
    <3>q. QED BY <1>2, <1>4, <2>2, <3>2
  <2>q. QED BY <2>1, <2>2
<1>6. CASE kind[s] = "database"
  <2>1. step'[s] = "move" /\ kind'[s] = "log" /\ step'[s] \in A!Moving
    BY <1>1, <1>6, AfterFileSteps DEF A!Moving
  <2>2. ASSUME NEW l \in Legacy, files'[<<l, "log">>] # None PROVE l = from[s]
    <3>1. files'[<<l, "log">>] = files[<<l, "log">>]
      <4>1. "log" \in A!Kinds /\ <<l, "log">> # A!Source(s)
        BY <1>2, <1>6 DEF A!Kinds
      <4>q. QED BY <4>1
    <3>2. files[<<l, "database">>] # None
      BY <1>1, <1>3, <1>6, <2>2, <3>1 DEF LegacyIsWhole
    <3>q. QED BY <1>4, <3>2
  <2>3. LegacyIsWhole'
    BY <2>1, <2>2 DEF LegacyIsWhole
  <2>q. QED BY <1>5, <2>1, <2>3
<1>7. CASE kind[s] = "log"
  <2>1. step'[s] = "open" /\ step'[s] \notin A!Moving
    BY <1>1, <1>7, AfterFileSteps DEF A!Moving
  <2>2. ASSUME NEW l \in Legacy PROVE files'[<<l, "log">>] = None
    <3>1. CASE <<l, "log">> = A!Source(s)
      BY <3>1
    <3>2. CASE <<l, "log">> # A!Source(s)
      <4>1. files'[<<l, "log">>] = files[<<l, "log">>] /\ l # from[s]
        BY <1>2, <1>7, <3>2 DEF A!Kinds
      <4>2. files[<<l, "database">>] = None
        BY <1>4, <1>7
      <4>q. QED BY <1>1, <1>3, <4>1, <4>2 DEF LegacyIsWhole
    <3>q. QED BY <3>1, <3>2
  <2>q. QED BY <1>5, <2>1, <2>2 DEF LegacyIsWhole, Emptied
<1>q. QED BY <1>2, <1>6, <1>7 DEF A!Kinds


\* A file in hand is typed, whoever else moves it.
LEMMA InHandTyped ==
  ASSUME A!AdoptionAssumption, AdoptionInv, NEW s \in Surfaces, step[s] \in A!Moving
  PROVE  /\ A!TypeOK /\ Beginnings
         /\ A!Source(s) = <<from[s], kind[s]>> /\ A!Target(s) = <<Canonical, kind[s]>>
         /\ from[s] \in Legacy /\ kind[s] \in A!Kinds
         /\ files[A!Source(s)] \in (SUBSET A!Commits) \cup {None, Torn}
<1>1. A!TypeOK /\ Beginnings
  BY DEF AdoptionInv
<1>2. /\ A!Source(s) \in A!Places \X A!Kinds
      /\ A!Source(s) = <<from[s], kind[s]>> /\ from[s] \in Legacy /\ kind[s] \in A!Kinds
  BY <1>1, InHand
<1>q. QED BY <1>1, <1>2 DEF A!TypeOK, A!Target

LEMMA RenameKept == ASSUME A!AdoptionAssumption, AdoptionInv, NEW s \in Surfaces, A!Rename(s) PROVE AdoptionInv'
<1> DEFINE l == from[s]
<1> DEFINE k == kind[s]
<1>1. /\ step[s] = "move" /\ step[s] \in A!Moving /\ files[A!Source(s)] # None
      /\ files' = [files EXCEPT ![A!Target(s)] = files[A!Source(s)], ![A!Source(s)] = None]
      /\ attached' = IF files[A!Target(s)] = None THEN attached ELSE [t \in Surfaces |-> FALSE]
      /\ A!AfterFile(s)
      /\ UNCHANGED <<from, told, committed, parted, overlapped, broken>>
  BY DEF A!Rename, A!Detach, A!Moving
<1>2. /\ A!TypeOK /\ Beginnings /\ l \in Legacy /\ k \in A!Kinds
      /\ A!Source(s) = <<l, k>> /\ A!Target(s) = <<Canonical, k>>
      /\ files[A!Source(s)] \in (SUBSET A!Commits) \cup {None, Torn}
  BY <1>1, InHandTyped
<1>3. files' = [files EXCEPT ![<<Canonical, k>>] = files[<<l, k>>], ![<<l, k>>] = None]
  BY <1>1, <1>2
<1> HIDE DEF l, k
<1>4. /\ files'[<<Canonical, k>>] = files[<<l, k>>] /\ files'[<<l, k>>] = None
      /\ \A f \in A!Places \X A!Kinds : f # <<Canonical, k>> /\ f # <<l, k>> => files'[f] = files[f]
      /\ <<Canonical, k>> \in A!Places \X A!Kinds /\ <<l, k>> \in A!Places \X A!Kinds
      /\ <<Canonical, k>> # <<l, k>>
  BY <1>2, <1>3, FileMoved
<1>5. /\ kind[s] = "database" => step'[s] = "move" /\ kind'[s] = "log"
      /\ kind[s] # "database" => step'[s] = "open" /\ kind'[s] = kind[s]
      /\ \A t \in Surfaces : t # s => step'[t] = step[t] /\ kind'[t] = kind[t]
      /\ step' \in [Surfaces -> A!Moving \cup {"down", "look", "open", "running", "refused"}]
      /\ kind' \in [Surfaces -> A!Kinds]
  BY <1>1, <1>2, AfterFileSteps
<1>6. A!TypeOK'
  <2>1. files' \in [A!Places \X A!Kinds -> (SUBSET A!Commits) \cup {None, Torn}]
    BY <1>2, <1>3, FilePut
  <2>2. attached' \in [Surfaces -> BOOLEAN]
    BY <1>1, <1>2 DEF A!TypeOK
  <2>q. QED BY <1>1, <1>2, <1>5, <2>1, <2>2 DEF A!TypeOK
<1>7. \A m \in Legacy, j \in A!Kinds : <<m, j>> # <<l, k>> => files'[<<m, j>>] = files[<<m, j>>]
  <2> SUFFICES ASSUME NEW m \in Legacy, NEW j \in A!Kinds, <<m, j>> # <<l, k>> PROVE files'[<<m, j>>] = files[<<m, j>>]
    OBVIOUS
  <2>1. <<m, j>> \in A!Places \X A!Kinds /\ <<m, j>> # <<Canonical, k>>
    BY Files DEF A!Places
  <2>q. QED BY <1>4, <2>1
<1>8. Beginnings'
  <2>1. ASSUME NEW m \in Legacy, NEW j \in A!Kinds PROVE files'[<<m, j>>] # Torn
    <3>1. CASE <<m, j>> = <<l, k>>
      BY <1>4, <3>1 DEF A!AdoptionAssumption
    <3>2. CASE <<m, j>> # <<l, k>>
      BY <1>2, <1>7, <3>2 DEF Beginnings
    <3>q. QED BY <3>1, <3>2
  <2>2. "move" # "look" /\ "open" \notin A!Moving /\ "open" # "look"
    BY DEF A!Moving
  <2>3. ASSUME NEW t \in Surfaces PROVE (step'[t] = "look" => kind'[t] = "database") /\ (step'[t] \in A!Moving => from'[t] \in Legacy)
    <3>1. from'[t] = from[t] /\ (step[t] \in A!Moving => from[t] \in Legacy)
      BY <1>1, <1>2 DEF Beginnings
    <3>2. CASE t = s
      BY <1>1, <1>5, <2>2, <3>1, <3>2
    <3>3. CASE t # s
      BY <1>2, <1>5, <3>1, <3>3 DEF Beginnings
    <3>q. QED BY <3>2, <3>3
  <2>4. \A m \in Legacy, j \in A!Kinds : files'[<<m, j>>] # Torn
    BY <2>1
  <2>5. \A t \in Surfaces : (step'[t] = "look" => kind'[t] = "database") /\ (step'[t] \in A!Moving => from'[t] \in Legacy)
    BY <2>3
  <2>q. QED BY <2>4, <2>5 DEF Beginnings
<1>9. \A t \in Surfaces : attached'[t] => attached[t]
  BY <1>1
<1>10. ASSUME ~overlapped
       PROVE  /\ LogHasDatabase'
              /\ kind[s] = "database" => files'[A!Log] = None /\ files'[A!Database] \notin {None, Torn}
              /\ \A f \in A!Places \X A!Kinds : \E g \in A!Places \X A!Kinds : A!Content(files[f]) \subseteq A!Content(files'[g])
  <2>1. /\ Single /\ files[<<l, k>>] # Torn
        /\ k = "database" => files[A!Log] = None
        /\ k = "log" => files[A!Database] \notin {None, Torn}
        /\ files[<<Canonical, k>>] = None
    BY <1>1, <1>2, <1>10, InHandSafe DEF k
  <2>2. ASSUME k = "database"
        PROVE  LogHasDatabase' /\ files'[A!Log] = None /\ files'[A!Database] \notin {None, Torn}
    <3>1. files'[A!Database] = files[<<l, k>>] /\ files'[A!Log] = None
      BY <1>4, <2>1, <2>2, Files DEF A!Database, A!Log, A!Places
    <3>2. files[<<l, k>>] # None
      BY <1>1, <1>2
    <3>3. files'[A!Database] \notin {None, Torn}
      BY <2>1, <3>1, <3>2
    <3>q. QED BY <3>1, <3>3 DEF LogHasDatabase
  <2>3. ASSUME k = "log"
        PROVE  LogHasDatabase'
    <3>1. files'[A!Database] = files[A!Database]
      BY <1>4, <2>3, Files DEF A!Database, A!Log, A!Places
    <3>q. QED BY <2>1, <2>3, <3>1 DEF LogHasDatabase
  <2>4. \A f \in A!Places \X A!Kinds : \E g \in A!Places \X A!Kinds : A!Content(files[f]) \subseteq A!Content(files'[g])
    <3>1. A!Content(files[<<Canonical, k>>]) = {}
      BY <2>1 DEF A!Content
    <3>q. QED BY <1>4, <3>1
  <2>q. QED BY <1>2, <2>2, <2>3, <2>4 DEF A!Kinds, k
<1>11. ASSUME ~overlapped, ~parted'
       PROVE  /\ LegacyIsWhole'
              /\ step'[s] \in A!Moving => \A m \in Legacy : files'[<<m, "database">>] # None => m = from[s] /\ kind'[s] = "database"
              /\ step'[s] = "open" => Emptied'
  <2>1. /\ \A m \in Legacy, j \in A!Kinds : <<m, j>> # A!Source(s) => files'[<<m, j>>] = files[<<m, j>>]
        /\ files'[A!Source(s)] = None
    BY <1>2, <1>4, <1>7
  <2>q. QED BY <1>1, <1>11, <2>1, HandedOver
<1>12. step'[s] \in A!Moving => step'[s] = "move" /\ kind'[s] = "log" /\ kind[s] = "database"
  BY <1>5 DEF A!Moving
<1>q. QED
  <2>1. step'[s] \in A!Moving \cup {"open"}
    BY <1>5 DEF A!Moving
  <2>2. <<Canonical, "log">> = A!Log
    BY DEF A!Log
  <2>q. QED BY <1>1, <1>5, <1>6, <1>8, <1>9, <1>10, <1>11, <1>12, <2>1, <2>2, MoveStepKept

LEMMA BeginCopyKept == ASSUME A!AdoptionAssumption, AdoptionInv, NEW s \in Surfaces, A!BeginCopy(s) PROVE AdoptionInv'
<1> DEFINE l == from[s]
<1> DEFINE k == kind[s]
<1>1. /\ step[s] = "move" /\ step[s] \in A!Moving /\ files[A!Source(s)] # None
      /\ broken' = broken + 1 /\ broken < MaxBroken
      /\ files' = [files EXCEPT ![A!Target(s)] = Torn]
      /\ attached' = IF files[A!Target(s)] = None THEN attached ELSE [t \in Surfaces |-> FALSE]
      /\ step' = [step EXCEPT ![s] = "copying"]
      /\ UNCHANGED <<from, kind, told, committed, parted, overlapped>>
  BY DEF A!BeginCopy, A!Detach, A!Goto, A!Moving
<1>2. /\ A!TypeOK /\ Beginnings /\ l \in Legacy /\ k \in A!Kinds
      /\ A!Source(s) = <<l, k>> /\ A!Target(s) = <<Canonical, k>>
  BY <1>1, InHandTyped
<1>3. files' = [files EXCEPT ![<<Canonical, k>>] = Torn]
  BY <1>1, <1>2
<1> HIDE DEF l, k
<1>4. /\ files'[<<Canonical, k>>] = Torn
      /\ \A f \in A!Places \X A!Kinds : f # <<Canonical, k>> => files'[f] = files[f]
      /\ <<Canonical, k>> \in A!Places \X A!Kinds
  BY <1>2, <1>3 DEF A!TypeOK, A!Places
<1>5. /\ step'[s] = "copying" /\ step'[s] \in A!Moving /\ step' \in [Surfaces -> A!Moving \cup {"down", "look", "open", "running", "refused"}]
      /\ \A t \in Surfaces : t # s => step'[t] = step[t]
  BY <1>1, <1>2 DEF A!TypeOK, A!Moving
<1>6. A!TypeOK'
  <2>1. files' \in [A!Places \X A!Kinds -> (SUBSET A!Commits) \cup {None, Torn}]
    BY <1>2, <1>3, FilePut
  <2>2. attached' \in [Surfaces -> BOOLEAN] /\ broken' \in 0 .. MaxBroken
    BY <1>1, <1>2 DEF A!TypeOK, A!AdoptionAssumption
  <2>q. QED BY <1>1, <1>2, <1>5, <2>1, <2>2 DEF A!TypeOK
<1>7. \A m \in Legacy, j \in A!Kinds : files'[<<m, j>>] = files[<<m, j>>]
  BY <1>4, Files DEF A!Places
<1>8. Beginnings'
  BY <1>1, <1>2, <1>5, <1>7 DEF Beginnings, l
<1>9. \A t \in Surfaces : attached'[t] => attached[t]
  BY <1>1
<1>10. ASSUME ~overlapped
       PROVE  /\ LogHasDatabase'
              /\ kind[s] = "database" => files'[A!Log] = None
              /\ kind[s] = "log" => files'[A!Database] \notin {None, Torn}
              /\ \A f \in A!Places \X A!Kinds : \E g \in A!Places \X A!Kinds : A!Content(files[f]) \subseteq A!Content(files'[g])
  <2>1. /\ Single
        /\ k = "database" => files[A!Log] = None
        /\ k = "log" => files[A!Database] \notin {None, Torn}
        /\ files[<<Canonical, k>>] = None
    BY <1>1, <1>2, <1>10, InHandSafe DEF k
  <2>2. ASSUME k = "database" PROVE LogHasDatabase' /\ files'[A!Log] = None
    BY <1>4, <2>1, <2>2, Files DEF LogHasDatabase, A!Database, A!Log
  <2>3. ASSUME k = "log" PROVE LogHasDatabase' /\ files'[A!Database] \notin {None, Torn}
    BY <1>4, <2>1, <2>3, Files DEF LogHasDatabase, A!Database, A!Log
  <2>4. \A f \in A!Places \X A!Kinds : \E g \in A!Places \X A!Kinds : A!Content(files[f]) \subseteq A!Content(files'[g])
    <3>1. A!Content(files[<<Canonical, k>>]) = {}
      BY <2>1 DEF A!Content
    <3>q. QED BY <1>4, <3>1
  <2>q. QED BY <1>2, <2>2, <2>3, <2>4 DEF A!Kinds, k
<1>11. ASSUME ~overlapped, ~parted'
       PROVE  /\ LegacyIsWhole'
              /\ step'[s] \in A!Moving => \A m \in Legacy : files'[<<m, "database">>] # None => m = from[s] /\ kind'[s] = "database"
  <2>1. LegacyIsWhole /\ NoneIsLeft
    BY <1>1, <1>11 DEF AdoptionInv, Untold
  <2>2. "database" \in A!Kinds /\ "log" \in A!Kinds
    BY DEF A!Kinds
  <2>3. ASSUME NEW t \in Surfaces PROVE step[t] \in A!Moving => step'[t] \in A!Moving
    BY <1>5
  <2>4. LegacyIsWhole'
    BY <1>1, <1>7, <2>1, <2>2, <2>3 DEF LegacyIsWhole
  <2>q. QED BY <1>1, <1>7, <2>1, <2>2, <2>4 DEF NoneIsLeft
<1>q. QED
  <2>1. <<Canonical, kind'[s]>> = <<Canonical, k>> /\ kind'[s] = kind[s]
    BY <1>1 DEF k
  <2>q. QED BY <1>1, <1>4, <1>5, <1>6, <1>8, <1>9, <1>10, <1>11, <2>1, MoveStepKept

LEMMA FinishCopyKept == ASSUME A!AdoptionAssumption, AdoptionInv, NEW s \in Surfaces, A!FinishCopy(s) PROVE AdoptionInv'
<1> DEFINE l == from[s]
<1> DEFINE k == kind[s]
<1>1. /\ step[s] = "copying" /\ step[s] \in A!Moving /\ files[A!Source(s)] # None
      /\ files' = [files EXCEPT ![A!Target(s)] = files[A!Source(s)]]
      /\ step' = [step EXCEPT ![s] = "copied"]
      /\ UNCHANGED <<from, kind, attached, told, committed, parted, overlapped, broken>>
  BY DEF A!FinishCopy, A!Goto, A!Moving
<1>2. /\ A!TypeOK /\ Beginnings /\ l \in Legacy /\ k \in A!Kinds
      /\ A!Source(s) = <<l, k>> /\ A!Target(s) = <<Canonical, k>>
      /\ files[A!Source(s)] \in (SUBSET A!Commits) \cup {None, Torn}
  BY <1>1, InHandTyped
<1>3. files' = [files EXCEPT ![<<Canonical, k>>] = files[<<l, k>>]]
  BY <1>1, <1>2
<1> HIDE DEF l, k
<1>4. /\ files'[<<Canonical, k>>] = files[<<l, k>>] /\ files'[<<l, k>>] = files[<<l, k>>]
      /\ \A f \in A!Places \X A!Kinds : f # <<Canonical, k>> => files'[f] = files[f]
      /\ <<Canonical, k>> \in A!Places \X A!Kinds
  BY <1>2, <1>3, Files DEF A!TypeOK, A!Places
<1>5. /\ step'[s] = "copied" /\ step'[s] \in A!Moving /\ step' \in [Surfaces -> A!Moving \cup {"down", "look", "open", "running", "refused"}]
      /\ \A t \in Surfaces : t # s => step'[t] = step[t]
  BY <1>1, <1>2 DEF A!TypeOK, A!Moving
<1>6. A!TypeOK'
  <2>1. files' \in [A!Places \X A!Kinds -> (SUBSET A!Commits) \cup {None, Torn}]
    BY <1>2, <1>3, FilePut
  <2>q. QED BY <1>1, <1>2, <1>5, <2>1 DEF A!TypeOK
<1>7. \A m \in Legacy, j \in A!Kinds : files'[<<m, j>>] = files[<<m, j>>]
  BY <1>4, Files DEF A!Places
<1>8. Beginnings'
  BY <1>1, <1>2, <1>5, <1>7 DEF Beginnings, l
<1>10. ASSUME ~overlapped
       PROVE  /\ LogHasDatabase'
              /\ kind[s] = "database" => files'[A!Log] = None
              /\ kind[s] = "log" => files'[A!Database] \notin {None, Torn}
              /\ \A f \in A!Places \X A!Kinds : \E g \in A!Places \X A!Kinds : A!Content(files[f]) \subseteq A!Content(files'[g])
  <2>1. /\ Single
        /\ k = "database" => files[A!Log] = None
        /\ k = "log" => files[A!Database] \notin {None, Torn}
        /\ files[<<Canonical, k>>] = Torn
    BY <1>1, <1>2, <1>10, InHandSafe DEF k
  <2>2. ASSUME k = "database" PROVE LogHasDatabase' /\ files'[A!Log] = None
    BY <1>4, <2>1, <2>2, Files DEF LogHasDatabase, A!Database, A!Log
  <2>3. ASSUME k = "log" PROVE LogHasDatabase' /\ files'[A!Database] \notin {None, Torn}
    BY <1>4, <2>1, <2>3, Files DEF LogHasDatabase, A!Database, A!Log
  <2>4. \A f \in A!Places \X A!Kinds : \E g \in A!Places \X A!Kinds : A!Content(files[f]) \subseteq A!Content(files'[g])
    <3>1. A!Content(files[<<Canonical, k>>]) = {}
      BY <2>1 DEF A!Content
    <3>q. QED BY <1>4, <3>1
  <2>q. QED BY <1>2, <2>2, <2>3, <2>4 DEF A!Kinds, k
<1>11. ASSUME ~overlapped, ~parted'
       PROVE  /\ LegacyIsWhole'
              /\ step'[s] \in A!Moving => \A m \in Legacy : files'[<<m, "database">>] # None => m = from[s] /\ kind'[s] = "database"
  <2>1. LegacyIsWhole /\ NoneIsLeft
    BY <1>1, <1>11 DEF AdoptionInv, Untold
  <2>2. "database" \in A!Kinds /\ "log" \in A!Kinds
    BY DEF A!Kinds
  <2>3. ASSUME NEW t \in Surfaces PROVE step[t] \in A!Moving => step'[t] \in A!Moving
    BY <1>5
  <2>4. LegacyIsWhole'
    BY <1>1, <1>7, <2>1, <2>2, <2>3 DEF LegacyIsWhole
  <2>q. QED BY <1>1, <1>7, <2>1, <2>2, <2>4 DEF NoneIsLeft
<1>q. QED
  <2>1. <<Canonical, kind'[s]>> = <<Canonical, k>> /\ kind'[s] = kind[s] /\ <<from[s], kind'[s]>> = <<l, k>>
    BY <1>1 DEF k, l
  <2>2. files'[<<l, k>>] # None
    BY <1>1, <1>2, <1>4
  <2>3. /\ step'[s] # "move" /\ step'[s] # "copying"
        /\ files'[<<Canonical, kind'[s]>>] = files'[<<from[s], kind'[s]>>] /\ files'[<<from[s], kind'[s]>>] # None
    BY <1>4, <1>5, <2>1, <2>2
  <2>4. kind' = kind /\ step'[s] # "open"
    BY <1>1, <1>5
  <2>q. QED BY <1>1, <1>5, <1>6, <1>8, <1>10, <1>11, <2>3, <2>4, MoveStepKept

LEMMA RemoveSourceKept == ASSUME A!AdoptionAssumption, AdoptionInv, NEW s \in Surfaces, A!RemoveSource(s) PROVE AdoptionInv'
<1> DEFINE l == from[s]
<1> DEFINE k == kind[s]
<1>1. /\ step[s] = "copied" /\ step[s] \in A!Moving /\ files[A!Source(s)] # None
      /\ files' = [files EXCEPT ![A!Source(s)] = None]
      /\ A!AfterFile(s)
      /\ UNCHANGED <<from, attached, told, committed, parted, overlapped, broken>>
  BY DEF A!RemoveSource, A!Moving
<1>2. /\ A!TypeOK /\ Beginnings /\ l \in Legacy /\ k \in A!Kinds
      /\ A!Source(s) = <<l, k>> /\ A!Target(s) = <<Canonical, k>>
  BY <1>1, InHandTyped
<1>3. files' = [files EXCEPT ![<<l, k>>] = None]
  BY <1>1, <1>2
<1> HIDE DEF l, k
<1>4. /\ files'[<<l, k>>] = None
      /\ \A f \in A!Places \X A!Kinds : f # <<l, k>> => files'[f] = files[f]
      /\ <<Canonical, k>> \in A!Places \X A!Kinds /\ <<l, k>> \in A!Places \X A!Kinds
      /\ <<Canonical, k>> # <<l, k>>
  BY <1>2, <1>3, Files DEF A!TypeOK, A!Places
<1>5. /\ kind[s] = "database" => step'[s] = "move" /\ kind'[s] = "log"
      /\ kind[s] # "database" => step'[s] = "open" /\ kind'[s] = kind[s]
      /\ \A t \in Surfaces : t # s => step'[t] = step[t] /\ kind'[t] = kind[t]
      /\ step' \in [Surfaces -> A!Moving \cup {"down", "look", "open", "running", "refused"}]
      /\ kind' \in [Surfaces -> A!Kinds]
  BY <1>1, <1>2, AfterFileSteps
<1>6. A!TypeOK'
  <2>1. None \in (SUBSET A!Commits) \cup {None, Torn}
    OBVIOUS
  <2>2. files' \in [A!Places \X A!Kinds -> (SUBSET A!Commits) \cup {None, Torn}]
    BY <1>2, <1>3, <2>1, FilePut
  <2>q. QED BY <1>1, <1>2, <1>5, <2>2 DEF A!TypeOK
<1>7. \A m \in Legacy, j \in A!Kinds : <<m, j>> # <<l, k>> => files'[<<m, j>>] = files[<<m, j>>]
  BY <1>4 DEF A!Places
<1>8. Beginnings'
  <2>1. ASSUME NEW m \in Legacy, NEW j \in A!Kinds PROVE files'[<<m, j>>] # Torn
    <3>1. CASE <<m, j>> = <<l, k>>
      BY <1>4, <3>1 DEF A!AdoptionAssumption
    <3>2. CASE <<m, j>> # <<l, k>>
      BY <1>2, <1>7, <3>2 DEF Beginnings
    <3>q. QED BY <3>1, <3>2
  <2>2. "move" # "look" /\ "open" \notin A!Moving /\ "open" # "look"
    BY DEF A!Moving
  <2>3. ASSUME NEW t \in Surfaces PROVE (step'[t] = "look" => kind'[t] = "database") /\ (step'[t] \in A!Moving => from'[t] \in Legacy)
    <3>1. from'[t] = from[t] /\ (step[t] \in A!Moving => from[t] \in Legacy)
      BY <1>1, <1>2 DEF Beginnings
    <3>2. CASE t = s
      BY <1>1, <1>5, <2>2, <3>1, <3>2
    <3>3. CASE t # s
      BY <1>2, <1>5, <3>1, <3>3 DEF Beginnings
    <3>q. QED BY <3>2, <3>3
  <2>4. \A m \in Legacy, j \in A!Kinds : files'[<<m, j>>] # Torn
    BY <2>1
  <2>5. \A t \in Surfaces : (step'[t] = "look" => kind'[t] = "database") /\ (step'[t] \in A!Moving => from'[t] \in Legacy)
    BY <2>3
  <2>q. QED BY <2>4, <2>5 DEF Beginnings
<1>10. ASSUME ~overlapped
       PROVE  /\ LogHasDatabase'
              /\ kind[s] = "database" => files'[A!Log] = None /\ files'[A!Database] \notin {None, Torn}
              /\ \A f \in A!Places \X A!Kinds : \E g \in A!Places \X A!Kinds : A!Content(files[f]) \subseteq A!Content(files'[g])
  <2>1. /\ Single /\ files[<<l, k>>] # Torn /\ files[<<l, k>>] # None
        /\ k = "database" => files[A!Log] = None
        /\ files[<<Canonical, k>>] = files[<<l, k>>]
    BY <1>1, <1>2, <1>10, InHandSafe DEF k
  <2>2. files'[A!Database] = files[A!Database] /\ files'[A!Log] = files[A!Log]
    BY <1>2, <1>4, Files DEF A!Database, A!Log
  <2>3. LogHasDatabase'
    BY <2>1, <2>2 DEF Single, LogHasDatabase
  <2>4. ASSUME k = "database" PROVE files'[A!Log] = None /\ files'[A!Database] \notin {None, Torn}
    BY <2>1, <2>2, <2>4 DEF A!Database
  <2>5. \A f \in A!Places \X A!Kinds : \E g \in A!Places \X A!Kinds : A!Content(files[f]) \subseteq A!Content(files'[g])
    BY <1>4, <2>1
  <2>q. QED BY <2>3, <2>4, <2>5 DEF k
<1>11. ASSUME ~overlapped, ~parted'
       PROVE  /\ LegacyIsWhole'
              /\ step'[s] \in A!Moving => \A m \in Legacy : files'[<<m, "database">>] # None => m = from[s] /\ kind'[s] = "database"
              /\ step'[s] = "open" => Emptied'
  <2>1. /\ \A m \in Legacy, j \in A!Kinds : <<m, j>> # A!Source(s) => files'[<<m, j>>] = files[<<m, j>>]
        /\ files'[A!Source(s)] = None
    BY <1>2, <1>4, <1>7
  <2>q. QED BY <1>1, <1>11, <2>1, HandedOver
<1>12. step'[s] \in A!Moving => step'[s] = "move" /\ kind'[s] = "log" /\ kind[s] = "database"
  BY <1>5 DEF A!Moving
<1>q. QED
  <2>1. step'[s] \in A!Moving \cup {"open"}
    BY <1>5 DEF A!Moving
  <2>2. <<Canonical, "log">> = A!Log
    BY DEF A!Log
  <2>q. QED BY <1>1, <1>5, <1>6, <1>8, <1>10, <1>11, <1>12, <2>1, <2>2, MoveStepKept

\* A workspace in use: what the files hold stays on disk, and the legacy places are left.
LEMMA InUseKept ==
  ASSUME A!AdoptionAssumption, AdoptionInv, NEW s \in Surfaces, step[s] \in {"open", "running", "refused"},
         UNCHANGED <<from, kind, told, parted, overlapped>>, A!TypeOK',
         step'[s] \in {"running", "refused", "down"}, step'[s] = "running" /\ ~told[s] => step[s] \in {"open", "running"},
         \A t \in Surfaces : t # s => step'[t] = step[t] /\ attached'[t] = attached[t],
         \A f \in A!Places \X A!Kinds : f \notin {A!Database, A!Log} => files'[f] = files[f],
         ~overlapped =>
           /\ attached'[s] <=> step'[s] = "running"
           /\ files'[A!Database] # files[A!Database] \/ files'[A!Log] # files[A!Log] => \A t \in Surfaces : step[t] \notin A!Moving
           /\ \A t \in Surfaces : attached'[t] => files'[A!Database] \notin {None, Torn} /\ files'[A!Log] # Torn
           /\ step'[s] = "running" => \A t \in Surfaces : step[t] \notin A!Moving
           /\ files'[A!Log] # None => files'[A!Database] # None
           /\ committed' \subseteq A!OnDisk'
  PROVE  AdoptionInv'
<1>1. step[s] \notin A!Moving /\ step'[s] \notin A!Moving /\ ~A!Busy(s)'
  BY DEF A!Moving, A!Busy
<1>2. \A m \in Legacy, j \in A!Kinds : files'[<<m, j>>] = files[<<m, j>>]
  BY Files DEF A!Places, A!Database, A!Log
<1>3. Beginnings'
  <2>1. ASSUME NEW t \in Surfaces PROVE (step'[t] = "look" => kind[t] = "database") /\ (step'[t] \in A!Moving => from[t] \in Legacy)
    BY <1>1 DEF AdoptionInv, Beginnings
  <2>q. QED BY <1>2, <2>1 DEF AdoptionInv, Beginnings
<1>4. \A t \in Surfaces : step'[t] \in A!Moving <=> step[t] \in A!Moving
  BY <1>1
<1>5. ASSUME ~overlapped PROVE Single'
  <2>1. Single
    BY <1>5 DEF AdoptionInv
  <2>2. OneLaunches'
    BY <1>1, <2>1 DEF Single, OneLaunches, A!Busy
  <2>3. OpenOnWhatIsThere' /\ LogHasDatabase'
    BY <1>5, <2>1 DEF Single, OpenOnWhatIsThere, LogHasDatabase
  <2>4. MovesAreSafe'
    <3> SUFFICES ASSUME NEW t \in Surfaces, step'[t] \in A!Moving
                 PROVE  /\ \A u \in Surfaces : step'[u] # "running"
                        /\ kind'[t] = "database" => files'[A!Log] = None
                        /\ kind'[t] = "log" => files'[A!Database] \notin {None, Torn}
                        /\ step'[t] = "move" => files'[A!Target(t)'] = None
                        /\ step'[t] = "copying" => files'[A!Target(t)'] = Torn
                        /\ step'[t] = "copied" => files'[A!Target(t)'] = files'[A!Source(t)'] /\ files'[A!Source(t)'] # None
      BY DEF MovesAreSafe
    <3>1. t # s /\ step[t] = step'[t] /\ step[t] \in A!Moving
      BY <1>1, <1>4
    <3>2. files'[A!Database] = files[A!Database] /\ files'[A!Log] = files[A!Log] /\ step'[s] # "running"
      BY <1>5, <3>1
    <3>3. /\ A!Target(t)' = A!Target(t) /\ A!Source(t)' = A!Source(t)
          /\ A!Target(t) \in {A!Database, A!Log} /\ A!Source(t) = <<from[t], kind[t]>> /\ from[t] \in Legacy /\ kind[t] \in A!Kinds
      BY <3>1, InHand DEF AdoptionInv, A!Target, A!Source
    <3>4. files'[A!Target(t)] = files[A!Target(t)] /\ files'[A!Source(t)] = files[A!Source(t)]
      BY <1>2, <3>2, <3>3
    <3>q. QED BY <2>1, <3>1, <3>2, <3>3, <3>4 DEF Single, MovesAreSafe
  <2>q. QED BY <1>5, <2>2, <2>3, <2>4 DEF Single
<1>6. ASSUME ~overlapped, ~parted PROVE Untold'
  <2>1. LegacyIsWhole /\ NoneIsLeft /\ "database" \in A!Kinds /\ "log" \in A!Kinds
    BY <1>6 DEF AdoptionInv, Untold, A!Kinds
  <2>2. LegacyIsWhole'
    BY <1>2, <1>4, <2>1 DEF LegacyIsWhole
  <2>3. Emptied' = Emptied
    BY <1>2, <2>1 DEF Emptied
  <2>4. ASSUME NEW t \in Surfaces
        PROVE  /\ step'[t] \in A!Moving => \A l \in Legacy : files'[<<l, "database">>] # None => l = from'[t] /\ kind'[t] = "database"
               /\ step'[t] \in {"open", "running"} /\ ~told'[t] => Emptied'
    <3>1. CASE t = s
      BY <1>1, <2>1, <2>3, <3>1 DEF NoneIsLeft
    <3>2. CASE t # s
      BY <1>2, <2>1, <2>3, <3>2 DEF NoneIsLeft
    <3>q. QED BY <3>1, <3>2
  <2>q. QED BY <2>2, <2>4 DEF Untold, NoneIsLeft
<1>q. QED BY <1>3, <1>5, <1>6 DEF AdoptionInv

LEMMA OpenKept == ASSUME A!AdoptionAssumption, AdoptionInv, NEW s \in Surfaces, A!Open(s) PROVE AdoptionInv'
<1>1. step[s] = "open" /\ UNCHANGED <<from, kind, told, committed, parted, overlapped, broken>> /\ A!TypeOK
  BY DEF A!Open, AdoptionInv
<1>2. ~overlapped => Single /\ ~attached[s] /\ \A t \in Surfaces : step[t] \notin A!Moving
  <2> SUFFICES ASSUME ~overlapped PROVE Single /\ ~attached[s] /\ \A t \in Surfaces : step[t] \notin A!Moving
    OBVIOUS
  <2>1. Single /\ A!Busy(s)
    BY <1>1 DEF AdoptionInv, A!Busy
  <2>2. step[s] \notin A!Moving /\ step[s] # "running"
    BY <1>1 DEF A!Moving
  <2>q. QED BY <2>1, <2>2 DEF Single, OneLaunches, A!Busy, OpenOnWhatIsThere
<1>3. CASE files[A!Database] = Torn
  <2>1. step' = [step EXCEPT ![s] = "refused"] /\ UNCHANGED <<files, attached>>
    BY <1>3 DEF A!Open, A!Goto
  <2>2. /\ step'[s] = "refused" /\ \A t \in Surfaces : t # s => step'[t] = step[t]
        /\ A!TypeOK'
    BY <1>1, <2>1 DEF A!TypeOK
  <2>3. ASSUME ~overlapped
        PROVE  /\ \A t \in Surfaces : attached'[t] => files'[A!Database] \notin {None, Torn} /\ files'[A!Log] # Torn
               /\ files'[A!Log] # None => files'[A!Database] # None
               /\ committed' \subseteq A!OnDisk'
    <3>1. files'[A!Database] = files[A!Database] /\ files'[A!Log] = files[A!Log] /\ A!OnDisk' = A!OnDisk
      BY <2>1 DEF A!Database, A!Log, A!OnDisk, A!Visible, A!Content
    <3>q. QED BY <1>1, <1>2, <2>1, <2>3, <3>1 DEF Single, OpenOnWhatIsThere, LogHasDatabase
  <2>4. files'[A!Database] = files[A!Database] /\ files'[A!Log] = files[A!Log]
    BY <2>1
  <2>q. QED BY <1>1, <1>2, <2>1, <2>2, <2>3, <2>4, InUseKept
<1>4. CASE files[A!Database] # Torn
  <2>1. /\ files' = [files EXCEPT ![A!Database] = A!Content(@), ![A!Log] = A!Content(@)]
        /\ attached' = [attached EXCEPT ![s] = TRUE] /\ step' = [step EXCEPT ![s] = "running"]
    BY <1>4 DEF A!Open, A!Goto
  <2>2. /\ step'[s] = "running" /\ attached'[s] = TRUE
        /\ \A t \in Surfaces : t # s => step'[t] = step[t] /\ attached'[t] = attached[t]
    BY <1>1, <2>1 DEF A!TypeOK
  <2>3. /\ files'[A!Database] = A!Content(files[A!Database]) /\ files'[A!Log] = A!Content(files[A!Log])
        /\ \A f \in A!Places \X A!Kinds : f \notin {A!Database, A!Log} => files'[f] = files[f]
        /\ A!Database \in A!Places \X A!Kinds /\ A!Log \in A!Places \X A!Kinds
    BY <1>1, <2>1, Files DEF A!TypeOK
  <2>4. ASSUME NEW f \in A!Places \X A!Kinds PROVE A!Content(files[f]) \in SUBSET A!Commits
    <3>1. files[f] \in {None, Torn} \/ files[f] \in SUBSET A!Commits
      BY <1>1 DEF A!TypeOK
    <3>q. QED BY <3>1 DEF A!Content
  <2>5. files'[A!Database] \notin {None, Torn} /\ files'[A!Log] \notin {None, Torn}
    BY <2>3, <2>4, Files
  <2>6. A!TypeOK'
    <3> DEFINE Sets == (SUBSET A!Commits) \cup {None, Torn}
    <3>1. A!Content(files[A!Database]) \in Sets /\ A!Content(files[A!Log]) \in Sets
      BY <2>3, <2>4
    <3>2. files \in [A!Places \X A!Kinds -> Sets]
      BY <1>1 DEF A!TypeOK
    <3> HIDE DEF Sets
    <3>3. A!Database # A!Log
      BY Files
    <3>4. files' \in [A!Places \X A!Kinds -> Sets]
      BY <2>1, <2>3, <3>1, <3>2, <3>3
    <3>5. files' \in [A!Places \X A!Kinds -> (SUBSET A!Commits) \cup {None, Torn}]
      BY <3>4 DEF Sets
    <3>q. QED BY <1>1, <2>1, <3>5 DEF A!TypeOK
  <2>7. ASSUME NEW f \in A!Places \X A!Kinds PROVE A!Content(files[f]) \subseteq A!Content(files'[f])
    <3>1. CASE f \in {A!Database, A!Log}
      BY <2>3, <2>5, <3>1 DEF A!Content
    <3>2. CASE f \notin {A!Database, A!Log}
      BY <2>3, <3>2 DEF A!Content
    <3>q. QED BY <3>1, <3>2
  <2>8. ~overlapped => committed' \subseteq A!OnDisk'
    BY <1>1, <1>2, <2>7, OnDiskKept DEF Single
  <2>q. QED BY <1>1, <1>2, <2>2, <2>3, <2>5, <2>6, <2>8, InUseKept
<1>q. QED BY <1>3, <1>4

LEMMA CommitKept == ASSUME A!AdoptionAssumption, AdoptionInv, NEW s \in Surfaces, A!Commit(s) PROVE AdoptionInv'
<1> DEFINE new == <<s, "new">>
<1>1. /\ step[s] = "running" /\ UNCHANGED <<step, from, kind, attached, told, parted, overlapped, broken>> /\ A!TypeOK
      /\ committed' = committed \cup {new}
      /\ files' = IF attached[s] THEN [files EXCEPT ![A!Log] = A!Content(@) \cup {new}] ELSE files
  BY DEF A!Commit, AdoptionInv
<1>2. new \in A!Commits
  BY DEF A!Commits
<1> HIDE DEF new
<1>3. /\ A!Database \in A!Places \X A!Kinds /\ A!Log \in A!Places \X A!Kinds /\ A!Database # A!Log
      /\ \A f \in A!Places \X A!Kinds : f # A!Log => files'[f] = files[f]
      /\ attached[s] => files'[A!Log] = A!Content(files[A!Log]) \cup {new}
      /\ ~attached[s] => files' = files
  BY <1>1, Files DEF A!TypeOK
<1>4. A!Content(files[A!Log]) \cup {new} \in SUBSET A!Commits
  <2>1. files[A!Log] \in {None, Torn} \/ files[A!Log] \in SUBSET A!Commits
    BY <1>1, <1>3 DEF A!TypeOK
  <2>q. QED BY <1>2, <2>1 DEF A!Content
<1>5. A!TypeOK'
  <2> DEFINE Sets == (SUBSET A!Commits) \cup {None, Torn}
  <2>1. A!Content(files[A!Log]) \cup {new} \in Sets
    BY <1>4
  <2>2. files \in [A!Places \X A!Kinds -> Sets]
    BY <1>1 DEF A!TypeOK
  <2> HIDE DEF Sets
  <2>3. files' \in [A!Places \X A!Kinds -> Sets]
    BY <1>1, <2>1, <2>2
  <2>4. files' \in [A!Places \X A!Kinds -> (SUBSET A!Commits) \cup {None, Torn}]
    BY <2>3 DEF Sets
  <2>5. committed' \subseteq A!Commits
    BY <1>1, <1>2 DEF A!TypeOK
  <2>q. QED BY <1>1, <2>4, <2>5 DEF A!TypeOK
<1>6. ASSUME ~overlapped
      PROVE  /\ attached'[s] /\ \A t \in Surfaces : step[t] \notin A!Moving
             /\ files'[A!Database] \notin {None, Torn} /\ files'[A!Log] \notin {None, Torn}
             /\ committed' \subseteq A!OnDisk'
  <2>1. Single /\ attached[s] /\ files[A!Database] \notin {None, Torn}
    BY <1>1, <1>6 DEF AdoptionInv, Single, OpenOnWhatIsThere
  <2>2. \A t \in Surfaces : step[t] \notin A!Moving
    BY <1>1, <2>1 DEF Single, MovesAreSafe
  <2>3. files'[A!Database] = files[A!Database] /\ files'[A!Log] = A!Content(files[A!Log]) \cup {new}
    BY <1>3, <2>1
  <2>4. files'[A!Log] \notin {None, Torn}
    BY <1>4, <2>3, Files
  <2>5. ASSUME NEW c \in committed' PROVE c \in A!OnDisk'
    <3>1. A!Content(files'[A!Log]) = A!Content(files[A!Log]) \cup {new}
      BY <2>3, <2>4 DEF A!Content
    <3>2. PICK g \in A!Places \X A!Kinds : c \in A!Content(files'[g])
      <4>1. CASE c = new
        BY <1>3, <3>1, <4>1
      <4>2. CASE c # new
        <5>1. PICK f \in A!Places \X A!Kinds : c \in A!Content(files[f])
          BY <1>1, <2>1, <4>2, Somewhere DEF Single
        <5>2. CASE f = A!Log
          BY <3>1, <5>1, <5>2
        <5>3. CASE f # A!Log
          BY <1>3, <5>1, <5>3
        <5>q. QED BY <5>2, <5>3
      <4>q. QED BY <4>1, <4>2
    <3>3. PICK p \in A!Places, k \in A!Kinds : g = <<p, k>>
      OBVIOUS
    <3>4. c \in A!Visible(p)'
      BY <3>2, <3>3 DEF A!Visible, A!Kinds, A!Content
    <3>q. QED BY <3>4 DEF A!OnDisk
  <2>q. QED BY <1>1, <2>1, <2>2, <2>3, <2>4, <2>5
<1>q. QED BY <1>1, <1>3, <1>5, <1>6, InUseKept

LEMMA QuitKept == ASSUME A!AdoptionAssumption, AdoptionInv, NEW s \in Surfaces, A!Quit(s) PROVE AdoptionInv'
<1> DEFINE last == attached[s] /\ \A t \in Surfaces \ {s} : ~attached[t]
<1>1. /\ step[s] \in {"running", "refused"} /\ UNCHANGED <<from, kind, told, committed, parted, overlapped, broken>> /\ A!TypeOK
      /\ files' = IF last THEN [files EXCEPT ![A!Database] = A!Visible(Canonical), ![A!Log] = None] ELSE files
      /\ attached' = [attached EXCEPT ![s] = FALSE] /\ step' = [step EXCEPT ![s] = "down"]
  BY DEF A!Quit, A!Goto, AdoptionInv
<1>2. /\ step'[s] = "down" /\ attached'[s] = FALSE
      /\ \A t \in Surfaces : t # s => step'[t] = step[t] /\ attached'[t] = attached[t]
  BY <1>1 DEF A!TypeOK
<1>3. /\ A!Database \in A!Places \X A!Kinds /\ A!Log \in A!Places \X A!Kinds /\ A!Database # A!Log
      /\ \A f \in A!Places \X A!Kinds : f \notin {A!Database, A!Log} => files'[f] = files[f]
      /\ last => files'[A!Database] = A!Visible(Canonical) /\ files'[A!Log] = None
      /\ ~last => files' = files
  BY <1>1, Files DEF A!TypeOK
<1>4. A!Visible(Canonical) = A!Content(files[A!Database]) \cup A!Content(files[A!Log])
  BY DEF A!Visible, A!Database, A!Log
<1>5. A!Visible(Canonical) \in SUBSET A!Commits
  <2>1. ASSUME NEW f \in A!Places \X A!Kinds PROVE A!Content(files[f]) \subseteq A!Commits
    <3>1. files[f] \in {None, Torn} \/ files[f] \in SUBSET A!Commits
      BY <1>1 DEF A!TypeOK
    <3>q. QED BY <3>1 DEF A!Content
  <2>q. QED BY <1>3, <1>4, <2>1
<1>6. A!TypeOK'
  <2> DEFINE Sets == (SUBSET A!Commits) \cup {None, Torn}
  <2>1. A!Visible(Canonical) \in Sets /\ None \in Sets
    BY <1>5
  <2>2. files \in [A!Places \X A!Kinds -> Sets]
    BY <1>1 DEF A!TypeOK
  <2> HIDE DEF Sets
  <2>3. files' \in [A!Places \X A!Kinds -> Sets]
    BY <1>1, <2>1, <2>2
  <2>4. files' \in [A!Places \X A!Kinds -> (SUBSET A!Commits) \cup {None, Torn}]
    BY <2>3 DEF Sets
  <2>q. QED BY <1>1, <2>4 DEF A!TypeOK
<1>7. ASSUME ~overlapped
      PROVE  /\ files'[A!Database] # files[A!Database] \/ files'[A!Log] # files[A!Log] => \A t \in Surfaces : step[t] \notin A!Moving
             /\ \A t \in Surfaces : attached'[t] => files'[A!Database] \notin {None, Torn} /\ files'[A!Log] # Torn
             /\ files'[A!Log] # None => files'[A!Database] # None
             /\ committed' \subseteq A!OnDisk'
  <2>1. Single
    BY <1>7 DEF AdoptionInv
  <2>2. CASE last
    <3>1. \A t \in Surfaces : step[t] \notin A!Moving /\ ~attached'[t]
      BY <1>2, <2>1, <2>2 DEF Single, OpenOnWhatIsThere, MovesAreSafe
    <3>2. A!Visible(Canonical) # None /\ A!Visible(Canonical) # Torn
      BY <1>5, Files
    <3>3. A!Content(files'[A!Database]) = A!Content(files[A!Database]) \cup A!Content(files[A!Log])
      BY <1>3, <1>4, <2>2, <3>2 DEF A!Content
    <3>4. ASSUME NEW f \in A!Places \X A!Kinds
          PROVE  \E g \in A!Places \X A!Kinds : A!Content(files[f]) \subseteq A!Content(files'[g])
      <4>1. CASE f \in {A!Database, A!Log}
        BY <1>3, <3>3, <4>1
      <4>2. CASE f \notin {A!Database, A!Log}
        BY <1>3, <4>2
      <4>q. QED BY <4>1, <4>2
    <3>5. committed' \subseteq A!OnDisk'
      BY <1>1, <2>1, <3>4, OnDiskKept DEF Single
    <3>q. QED BY <1>3, <2>2, <3>1, <3>5
  <2>3. CASE ~last
    <3>1. files' = files
      BY <1>3, <2>3
    <3>2. A!OnDisk' = A!OnDisk
      BY <3>1 DEF A!OnDisk, A!Visible, A!Content
    <3>q. QED BY <1>1, <1>2, <2>1, <3>1, <3>2 DEF Single, OpenOnWhatIsThere, LogHasDatabase
  <2>q. QED BY <2>2, <2>3
<1> HIDE DEF last
<1>q. QED BY <1>1, <1>2, <1>3, <1>6, <1>7, InUseKept

LEMMA AdoptionNext == ASSUME A!AdoptionAssumption, AdoptionInv, [A!Next]_(A!vars) PROVE AdoptionInv'
<1>1. CASE UNCHANGED A!vars
  <2>1. UNCHANGED <<files, step, from, kind, attached, told, committed, parted, overlapped, broken>>
    BY <1>1 DEF A!vars
  <2>2. A!TypeOK' /\ Beginnings'
    BY <2>1 DEF AdoptionInv, A!TypeOK, Beginnings
  <2>3. OneLaunches' = OneLaunches /\ OpenOnWhatIsThere' = OpenOnWhatIsThere /\ LogHasDatabase' = LogHasDatabase
    BY <2>1 DEF OneLaunches, A!Busy, OpenOnWhatIsThere, LogHasDatabase, A!Database, A!Log
  <2>4. MovesAreSafe' = MovesAreSafe
    BY <2>1 DEF MovesAreSafe, A!Source, A!Target, A!Database, A!Log
  <2>5. A!OnDisk' = A!OnDisk
    BY <2>1 DEF A!OnDisk, A!Visible, A!Content
  <2>6. LegacyIsWhole' = LegacyIsWhole /\ Emptied' = Emptied
    BY <2>1 DEF LegacyIsWhole, Emptied
  <2>7. NoneIsLeft' = NoneIsLeft
    BY <2>1, <2>6 DEF NoneIsLeft
  <2>q. QED BY <2>1, <2>2, <2>3, <2>4, <2>5, <2>6, <2>7 DEF AdoptionInv, Single, Untold
<1>2. CASE A!Next
  BY <1>2, LaunchKept, LookKept, AbsentKept, RenameKept, BeginCopyKept, FinishCopyKept, RemoveSourceKept, MoveFailsKept,
     OpenKept, CommitKept, QuitKept, CrashKept DEF A!Next
<1>q. QED BY <1>1, <1>2

LEMMA AdoptionSafe == ASSUME A!AdoptionAssumption, AdoptionInv PROVE A!NothingIsDestroyed /\ A!WhatIsMissingIsTold
<1>1. A!NothingIsDestroyed
  BY DEF AdoptionInv, Single, A!NothingIsDestroyed
<1>2. ASSUME ~overlapped, ~parted, NEW s \in Surfaces, step[s] = "running", ~told[s], NEW c \in committed
      PROVE  c \in A!Visible(Canonical)
  <2>1. Emptied /\ c \in A!OnDisk
    BY <1>2 DEF AdoptionInv, Single, Untold, NoneIsLeft
  <2>2. PICK p \in A!Places : c \in A!Visible(p)
    BY <2>1 DEF A!OnDisk
  <2>3. p = Canonical
    BY <2>1, <2>2 DEF A!Visible, A!Content, Emptied, A!Places
  <2>q. QED BY <2>2, <2>3
<1>q. QED BY <1>1, <1>2 DEF A!WhatIsMissingIsTold

-----------------------------------------------------------------------------
(* The graph: it says of the rows what the handlers said, and an action    *)
(* item becomes one ticket. What is left of a handler is a sequence of     *)
(* statements, and the argument is about the set of them: which may come   *)
(* after which, what they are about, and what a link or a row that is out  *)
(* of step waits for among them. Only the engine deletes, so a row is out  *)
(* of step with its links only while the engine's handler is to clear what *)
(* is left, or where a handler was cut short or met another's: a muddle.   *)

\* The statements of a sequence, and what a process has left of its handler.
Among(w) == {w[k] : k \in DOMAIN w}
Left(p)  == Among(work[p])

Dos == {"require", "unpromoted", "insert", "attend", "connect", "detach", "delete", "purge", "empty notes"}
AllStatements == [do : Dos, x : G!Nodes \union {Nil}, y : G!Nodes \union {Nil}]

\* What may come after a statement of a kind.
From(do) ==
  CASE do = "require" -> Dos
    [] do = "unpromoted" -> Dos \ {"require"}
    [] do = "insert" -> Dos \ {"require", "unpromoted"}
    [] do = "attend" -> {"attend", "connect", "detach", "delete", "purge", "empty notes"}
    [] do = "connect" -> {"connect", "detach", "delete", "purge", "empty notes"}
    [] do = "detach" -> {"detach", "delete", "purge", "empty notes"}
    [] do = "delete" -> {"delete", "purge", "empty notes"}
    [] do = "purge" -> {"purge", "empty notes"}
    [] OTHER -> {"empty notes"}

Distinct(w) == \A j, k \in DOMAIN w : w[j] = w[k] => j = k
Sorted(w)   == \A j, k \in DOMAIN w : j < k => w[k].do \in From(w[j].do)
Pair(w)     == \E x \in G!Nodes : w = <<G!Delete(x), G!Detach(x)>>
Orderly(w)  == Distinct(w) /\ (Sorted(w) \/ Pair(w))

Works == work \in [G!Processes -> Seq(AllStatements)] /\ \A p \in G!Processes : Orderly(work[p])

-----------------------------------------------------------------------------
(* Sequences of statements. *)

LEMMA OwnKind == \A d \in Dos : d \in From(d)
  BY DEF Dos, From

\* What is left after the head.
LEMMA Rest ==
  ASSUME NEW w \in Seq(AllStatements), w # <<>>, Orderly(w)
  PROVE  /\ Tail(w) \in Seq(AllStatements) /\ Orderly(Tail(w))
         /\ Head(w) \in Among(w) /\ Head(w) \in AllStatements
         /\ Among(Tail(w)) = Among(w) \ {Head(w)}
         /\ Tail(w) = <<>> <=> Among(Tail(w)) = {}
         /\ \/ \A t \in Among(w) : t.do \in From(Head(w).do)
            \/ \E x \in G!Nodes : Head(w) = G!Delete(x) /\ Among(w) = {G!Delete(x), G!Detach(x)}
<1>1. /\ Len(w) \in Nat /\ Len(w) >= 1 /\ DOMAIN w = 1..Len(w) /\ Head(w) = w[1]
      /\ Tail(w) \in Seq(AllStatements) /\ Len(Tail(w)) = Len(w) - 1
      /\ DOMAIN Tail(w) = 1..(Len(w) - 1)
  OBVIOUS
<1>2. \A k \in 1..(Len(w) - 1) : Tail(w)[k] = w[k+1] /\ k + 1 \in DOMAIN w
  BY <1>1
<1>3. Head(w) \in Among(w) /\ Head(w) \in AllStatements
  BY <1>1 DEF Among
<1>4. Distinct(Tail(w))
  BY <1>1, <1>2 DEF Orderly, Distinct
<1>5. Sorted(w) => Sorted(Tail(w))
  BY <1>1, <1>2 DEF Sorted
<1>6. Pair(w) => Len(w) = 2
  BY <1>1 DEF Pair
<1>7. Pair(w) => Sorted(Tail(w))
  <2>1. ASSUME Pair(w), NEW j \in DOMAIN Tail(w), NEW k \in DOMAIN Tail(w) PROVE ~(j < k)
    <3>1. j \in 1..(Len(w) - 1) /\ k \in 1..(Len(w) - 1) /\ Len(w) = 2
      BY <1>1, <1>6, <2>1
    <3>q. QED BY <3>1
  <2>q. QED BY <2>1 DEF Sorted
<1>8. Among(Tail(w)) = Among(w) \ {Head(w)}
  <2>1. ASSUME NEW t \in Among(Tail(w)) PROVE t \in Among(w) /\ t # Head(w)
    BY <1>1, <1>2 DEF Among, Orderly, Distinct
  <2>2. ASSUME NEW t \in Among(w), t # Head(w) PROVE t \in Among(Tail(w))
    <3>1. PICK j \in DOMAIN w : t = w[j]
      BY DEF Among
    <3>2. j - 1 \in 1..(Len(w) - 1) /\ (j - 1) + 1 = j
      BY <1>1, <2>2, <3>1
    <3>q. QED BY <1>1, <1>2, <3>1, <3>2 DEF Among
  <2>q. QED BY <2>1, <2>2
<1>9. Tail(w) = <<>> <=> Among(Tail(w)) = {}
  <2> DEFINE v == Tail(w)
  <2>1. v \in Seq(AllStatements) /\ Len(v) \in Nat /\ DOMAIN v = 1..Len(v)
    BY <1>1
  <2> HIDE DEF v
  <2>2. v = <<>> => Among(v) = {}
    BY DEF Among
  <2>3. v # <<>> => 1 \in DOMAIN v
    BY <2>1
  <2>4. v # <<>> => v[1] \in Among(v)
    BY <2>3 DEF Among
  <2>q. QED BY <2>2, <2>4 DEF v
<1>10. ASSUME Sorted(w), NEW t \in Among(w) PROVE t.do \in From(Head(w).do)
  <2>1. PICK j \in DOMAIN w : t = w[j]
    BY DEF Among
  <2>2. CASE j = 1
    <3>1. Head(w).do \in Dos
      BY <1>3 DEF AllStatements
    <3>q. QED BY <1>1, <2>1, <2>2, <3>1, OwnKind
  <2>3. CASE j # 1
    BY <1>1, <1>10, <2>1, <2>3 DEF Sorted
  <2>q. QED BY <2>2, <2>3
<1>11. ASSUME NEW x \in G!Nodes, w = <<G!Delete(x), G!Detach(x)>>
       PROVE  Head(w) = G!Delete(x) /\ Among(w) = {G!Delete(x), G!Detach(x)}
  <2>1. DOMAIN w = {1, 2} /\ w[1] = G!Delete(x) /\ w[2] = G!Detach(x)
    BY <1>11
  <2>q. QED BY <1>1, <2>1 DEF Among
<1>q. QED BY <1>1, <1>3, <1>4, <1>5, <1>7, <1>8, <1>9, <1>10, <1>11 DEF Orderly, Pair

LEMMA SameCardinality == \A S : G!Cardinality(S) = Cardinality(S)
  BY DEF G!Cardinality, Cardinality

\* One statement for each of a set.
LEMMA EachIs ==
  ASSUME NEW S \in SUBSET G!Nodes, IsFiniteSet(S), NEW do \in Dos
  PROVE  /\ G!Each(S, do) \in Seq(AllStatements) /\ Distinct(G!Each(S, do)) /\ Sorted(G!Each(S, do))
         /\ Among(G!Each(S, do)) = {G!Statement(do, x, Nil) : x \in S}
<1> DEFINE n == Cardinality(S)
           f == G!SetToSeq(S)
<1>1. n \in Nat
  BY FS_CardinalityType
<1>2. PICK g \in Bijection(1..n, S) : TRUE
  BY FS_CardinalityType DEF ExistsBijection
<1>3. g \in [1..n -> S] /\ G!IsInjective(g)
  BY <1>2 DEF Bijection, Injection, IsInjective, G!IsInjective
<1>4. f \in [1..n -> S] /\ G!IsInjective(f)
  BY <1>3, SameCardinality DEF G!SetToSeq
<1>5. \A a, b \in 1..n : f[a] = f[b] => a = b
  BY <1>4 DEF G!IsInjective
<1>6. f \in Injection(1..n, S)
  BY <1>4, <1>5 DEF Injection, IsInjective
<1>7. Cardinality(1..n) = n /\ IsFiniteSet(1..n)
  BY <1>1, FS_Interval
<1>8. f \in Surjection(1..n, S)
  BY <1>6, <1>7, FS_Injection
<1>9. \A x \in S : \E k \in 1..n : f[k] = x
  BY <1>8 DEF Surjection
<1> HIDE DEF f, n
<1>10. G!Each(S, do) = [k \in 1..n |-> G!Statement(do, f[k], Nil)]
  BY SameCardinality DEF G!Each, f, n
<1>11. \A k \in 1..n : G!Statement(do, f[k], Nil) \in AllStatements
  BY <1>4 DEF G!Statement, AllStatements
<1>12. G!Each(S, do) \in Seq(AllStatements)
  BY <1>1, <1>10, <1>11
<1>13. \A x, y : G!Statement(do, x, Nil) = G!Statement(do, y, Nil) => x = y
  BY DEF G!Statement
<1>14. Distinct(G!Each(S, do))
  BY <1>5, <1>10, <1>13 DEF Distinct
<1>15. Sorted(G!Each(S, do))
  <2>1. \A k \in 1..n : G!Each(S, do)[k].do = do
    BY <1>10 DEF G!Statement
  <2>2. do \in From(do) /\ DOMAIN G!Each(S, do) = 1..n
    BY <1>10, OwnKind
  <2>q. QED BY <2>1, <2>2 DEF Sorted
<1>16. Among(G!Each(S, do)) = {G!Statement(do, x, Nil) : x \in S}
  BY <1>4, <1>9, <1>10 DEF Among
<1>q. QED BY <1>12, <1>14, <1>15, <1>16

\* A sequence after another.
LEMMA Joined ==
  ASSUME NEW u \in Seq(AllStatements), NEW v \in Seq(AllStatements), Distinct(u), Distinct(v), Sorted(u), Sorted(v),
         \A s \in Among(u), t \in Among(v) : s # t /\ t.do \in From(s.do)
  PROVE  /\ u \o v \in Seq(AllStatements) /\ Distinct(u \o v) /\ Sorted(u \o v)
         /\ Among(u \o v) = Among(u) \union Among(v)
<1> DEFINE w == u \o v
<1>1. /\ Len(u) \in Nat /\ Len(v) \in Nat /\ DOMAIN u = 1..Len(u) /\ DOMAIN v = 1..Len(v)
      /\ w \in Seq(AllStatements) /\ DOMAIN w = 1..(Len(u) + Len(v))
  OBVIOUS
<1>2. \A k \in 1..Len(u) : w[k] = u[k] /\ k \in DOMAIN w
  BY <1>1
<1>3. \A k \in 1..(Len(u) + Len(v)) : k \notin 1..Len(u) => k - Len(u) \in 1..Len(v) /\ w[k] = v[k - Len(u)]
  BY <1>1
<1>4. \A k \in 1..Len(v) : w[k + Len(u)] = v[k] /\ k + Len(u) \in DOMAIN w
  BY <1>1
<1>5. \A k \in DOMAIN u : u[k] \in Among(u)
  BY DEF Among
<1>6. \A k \in DOMAIN v : v[k] \in Among(v)
  BY DEF Among
<1> HIDE DEF w
<1>7. Among(w) = Among(u) \union Among(v)
  <2>1. ASSUME NEW k \in DOMAIN w PROVE w[k] \in Among(u) \union Among(v)
    BY <1>1, <1>2, <1>3, <1>5, <1>6
  <2>2. ASSUME NEW k \in DOMAIN u PROVE u[k] \in Among(w)
    BY <1>1, <1>2 DEF Among
  <2>3. ASSUME NEW k \in DOMAIN v PROVE v[k] \in Among(w)
    BY <1>1, <1>4 DEF Among
  <2>q. QED BY <2>1, <2>2, <2>3 DEF Among
<1>8. ASSUME NEW j \in DOMAIN w, NEW k \in DOMAIN w
      PROVE  (w[j] = w[k] => j = k) /\ (j < k => w[k].do \in From(w[j].do))
  <2>1. CASE j \in 1..Len(u) /\ k \in 1..Len(u)
    BY <1>1, <1>2, <2>1 DEF Distinct, Sorted
  <2>2. CASE j \in 1..Len(u) /\ k \notin 1..Len(u)
    BY <1>1, <1>2, <1>3, <1>5, <1>6, <2>2
  <2>3. CASE j \notin 1..Len(u) /\ k \in 1..Len(u)
    <3>1. ~(j < k)
      BY <1>1, <2>3
    <3>2. w[j] # w[k]
      BY <1>1, <1>2, <1>3, <1>5, <1>6, <2>3
    <3>q. QED BY <3>1, <3>2
  <2>4. CASE j \notin 1..Len(u) /\ k \notin 1..Len(u)
    <3> DEFINE a == j - Len(u)
               b == k - Len(u)
    <3>1. a \in DOMAIN v /\ b \in DOMAIN v /\ w[j] = v[a] /\ w[k] = v[b]
      BY <1>1, <1>3, <2>4
    <3>2. (a = b => j = k) /\ (j < k => a < b)
      BY <1>1
    <3>q. QED BY <3>1, <3>2 DEF Distinct, Sorted
  <2>q. QED BY <2>1, <2>2, <2>3, <2>4
<1>q. QED BY <1>1, <1>7, <1>8 DEF w, Distinct, Sorted

-----------------------------------------------------------------------------
(* What holds of the statements that are left, and what they mean for the  *)
(* rows.                                                                   *)

Muddled(x)   == x \in muddled \/ (x \in G!Owned /\ of[x] \in muddled)
Inserting(x) == \E p \in G!Processes : G!Insert(x) \in Left(p)

\* No row of the id has been there yet.
Pending(x) == x \notin used \/ x \in awaiting.writes \/ Inserting(x)

\* The engine is about to delete the row, with its meeting or of itself.
Clears(s) == s.do \in {"detach", "delete", "purge", "empty notes"}
Doomed(x) ==
  \/ G!Delete(x) \in Left("engine")
  \/ x \in G!Owned /\ G!Delete(of[x]) \in Left("engine")
  \/ x \in trashed \intersect Notes /\ G!EmptyNotes \in Left("engine")

\* A statement before the edge's fails where the row is not there.
Supported(p, c) ==
  \E s \in Left(p) : s.do \in {"require", "insert"} /\ (c = s.x \/ (s.x \in G!Owned /\ c = of[s.x]))

Shape(s) ==
  /\ s.do # "empty notes" => s.x \in G!Nodes
  /\ s.do = "unpromoted" => s.x \in Items
  /\ s.do = "attend" => s.x \in Meetings /\ s.y \in People
  /\ s.do = "connect" => s.y \in G!Nodes \ G!Owned
  /\ s.do = "purge" => s.x \in Meetings
  /\ s.do \notin {"connect", "attend"} => s.y = Nil
  /\ s.do = "empty notes" => s.x = Nil

Handled(p, s) ==
  /\ s.do # "empty notes" => s.x \in hand[p] \/ (s.do = "detach" /\ s.x \in G!Owned /\ of[s.x] \in hand[p])
  /\ s.do \in {"connect", "attend"} => s.y \in hand[p]
  /\ s.do \in {"unpromoted", "insert", "connect"} /\ s.x \in G!Owned => of[s.x] \in hand[p]
  /\ s.x \in G!Owned => s.x \in used

Shaped(p) == \A s \in Left(p) : Shape(s) /\ Handled(p, s)

\* A handler that deletes does nothing else, one row after another.
Sweeps(p) ==
  /\ p = "mcp" => \A s \in Left(p) : ~Clears(s) /\ s.do # "attend"
  /\ \A s, t \in Left(p) : Clears(s) => Clears(t) \/ t.do = "require"
  /\ G!EmptyNotes \in Left(p) =>
       /\ trashed \intersect Notes \subseteq hand[p]
       /\ \A s, t \in Left(p) : s.do = "delete" /\ t.do = "detach" => t.x \notin Notes
  /\ \A s, t \in Left(p) : s.do = "delete" /\ t.do = "delete" => s = t
  /\ \A s, t \in Left(p) : s.do = "delete" /\ t.do = "purge" => s.x # t.x

\* A handler links an action item to one ticket, and mentions one person, who takes part.
Joins(p) ==
  /\ \A s, t \in Left(p) : s.do = "connect" /\ t.do = "connect" /\ s.x = t.x /\ s.x \in Items
                             /\ {s.y, t.y} \subseteq Tickets => s = t
  /\ \A s \in Left(p) : s.do = "connect" /\ s.x \in Meetings /\ s.y \in People =>
       /\ p = "engine"
       /\ \/ G!Attend(s.x, s.y) \in Left(p)
          \/ <<s.x, s.y>> \in attends /\ Left(p) = {s}
  /\ \A s \in Left(p) : s.do = "attend" =>
       /\ G!Connect(s.x, s.y) \in Left(p)
       /\ \A t \in Left(p) : t.do \in {"attend", "connect"} => t \in {s, G!Connect(s.x, s.y)}

Plans == \A p \in G!Processes : Shaped(p) /\ Sweeps(p) /\ Joins(p)

\* What two have in hand is muddled.
HandsApart ==
  /\ \A x \in hand["engine"] \intersect hand["mcp"] : x \in muddled
  /\ awaiting.for = "copy" /\ awaiting.about \in hand["engine"] => awaiting.about \in muddled

Ids ==
  /\ IsFiniteSet(rows)
  /\ \A x \in G!Nodes : Pending(x) => x \notin rows /\ \A e \in made : x \notin {e[1], e[2]}
  /\ \A p \in G!Processes, x \in G!Nodes : G!Insert(x) \in Left(p) =>
       x \in used /\ x \notin awaiting.writes /\ \A q \in G!Processes \ {p} : G!Insert(x) \notin Left(q)
  /\ \A x \in G!Owned \intersect rows : of[x] \in rows
  /\ \A x \in G!Owned \intersect used : of[x] \in Meetings

Waits ==
  /\ awaiting.for = "nothing" <=> awaiting = G!Nothing
  /\ awaiting # G!Nothing => awaiting.about \in Meetings /\ ~Pending(awaiting.about)
  /\ awaiting.for = "copy" => awaiting.about \in rows \union muddled
  /\ awaiting.for = "summary" => \A x \in awaiting.writes : x \in G!Owned => of[x] = awaiting.about

\* The ends of an edge to come are there, will be asked for or made first, or are muddled.
Ready(p, s, c) ==
  Supported(p, c) \/ (~Pending(c) /\ (c \in rows \/ Muddled(s.x) \/ Muddled(s.y)))
Supports == \A p \in G!Processes : \A s \in Left(p) :
  s.do = "connect" => Ready(p, s, s.x) /\ Ready(p, s, s.y)

Astray(e) == Muddled(e[1]) \/ Muddled(e[2])

\* The edges of a row that is gone or about to go are muddled, or about to go.
Cleared == \A e \in edges : \A c \in {e[1], e[2]} :
  c \notin rows \/ Doomed(c) => Astray(e) \/ G!Detach(c) \in Left("engine")

\* What was linked is there, is muddled, or is about to go.
Kept == \A e \in made : {e[1], e[2]} \subseteq rows =>
  e \in edges \/ Astray(e) \/ Doomed(e[1]) \/ Doomed(e[2])

TicketsKept == \A i \in Items \intersect rows, t \in Tickets \intersect rows : <<i, t>> \in made =>
  <<i, t>> \in edges \/ Muddled(i) \/ Doomed(i)

Mentioned == \A m \in Meetings, x \in People :
  /\ <<m, x>> \in edges => <<m, x>> \in attends \/ m \notin rows \/ x \notin rows
  /\ <<m, x>> \in attends =>
       \/ <<m, x>> \in edges \/ Muddled(m) \/ Muddled(x) \/ Doomed(m) \/ Doomed(x)
       \/ G!Connect(m, x) \in Left("engine") /\ G!Attend(m, x) \notin Left("engine")

Promoted(i) == {t \in Tickets \intersect rows : <<i, t>> \in made}
OnePromotion == \A i \in Items :
  /\ Muddled(i) \/ \A t, u \in Promoted(i) : t = u
  /\ \A p \in G!Processes, t \in Tickets : G!Connect(i, t) \in Left(p) =>
       Muddled(i) \/ G!Unpromoted(i) \in Left(p) \/ Promoted(i) = {}
  /\ \A p \in G!Processes : G!Unpromoted(i) \in Left(p) =>
       Muddled(i) \/ G!Require(i) \in Left(p) \/ i \in rows

\* The graph as it is when nothing is about to be deleted.
Clean ==
  /\ \A e \in edges : {e[1], e[2]} \subseteq rows \/ Astray(e)
  /\ \A e \in made : {e[1], e[2]} \subseteq rows => e \in edges \/ Astray(e)
  /\ \A i \in Items \intersect rows, t \in Tickets \intersect rows : <<i, t>> \in made =>
       <<i, t>> \in edges \/ Muddled(i)
  /\ \A m \in Meetings, x \in People : <<m, x>> \in attends => <<m, x>> \in edges \/ Muddled(m) \/ Muddled(x)

\* Edges go only with a row that goes, and a handler that finds no row to delete has done nothing.
Clearing ==
  /\ \A c \in G!Nodes : G!Detach(c) \in Left("engine") => Doomed(c) \/ (c \notin rows /\ ~Pending(c))
  /\ \A t \in Tickets : G!Detach(t) \in Left("engine") =>
       \/ Head(work["engine"]) = G!Delete(t)
       \/ t \notin rows /\ G!Delete(t) \notin Left("engine")
  /\ \A m \in Meetings : G!Purge(m) \in Left("engine") => G!Require(m) \in Left("engine") \/ m \in rows
  /\ (\E s \in Left("engine") : Clears(s)) /\ (\E s \in Left("engine") : s.do = "require" \/ (s.do = "delete" /\ s.x \notin rows))
       => Clean

GraphInv ==
  /\ G!TypeOK /\ Works /\ Plans /\ HandsApart /\ Ids /\ Waits /\ Supports
  /\ Cleared /\ Kept /\ TicketsKept /\ Mentioned /\ OnePromotion /\ Clearing

-----------------------------------------------------------------------------
(* What a step of a handler changes of what is left.                       *)

LEMMA Kinds ==
  /\ Meetings \intersect G!Owned = {} /\ Meetings \intersect Tickets = {} /\ Meetings \intersect Notes = {}
  /\ Meetings \intersect People = {} /\ G!Owned \intersect Tickets = {} /\ G!Owned \intersect Notes = {}
  /\ G!Owned \intersect People = {} /\ Tickets \intersect Notes = {} /\ Tickets \intersect People = {}
  /\ Notes \intersect People = {} /\ Summaries \intersect Items = {}
  /\ Nil \notin G!Nodes /\ Items \subseteq G!Owned /\ Summaries \subseteq G!Owned /\ G!Owned \subseteq G!Nodes
  /\ Meetings \subseteq G!Nodes /\ Tickets \subseteq G!Nodes /\ Notes \subseteq G!Nodes /\ People \subseteq G!Nodes
  BY Assumptions DEF G!WorkspaceAssumption, G!Nodes, G!Owned

LEMMA TwoProcesses == "engine" \in G!Processes /\ "mcp" \in G!Processes /\ \A p \in G!Processes : p = "engine" \/ p = "mcp"
  BY DEF G!Processes

LEMMA Read == \A s \in AllStatements : s = G!Statement(s.do, s.x, s.y)
  BY DEF AllStatements, G!Statement

LEMMA HeadIs ==
  ASSUME GraphInv, NEW p \in G!Processes, work[p] # <<>>
  PROVE  LET s == Head(work[p]) IN
         /\ s \in Left(p) /\ s = G!Statement(s.do, s.x, s.y) /\ s \in AllStatements
         /\ Shape(s) /\ Handled(p, s)
         /\ \/ \A t \in Left(p) : t.do \in From(s.do)
            \/ \E x \in G!Nodes : s = G!Delete(x) /\ Left(p) = {G!Delete(x), G!Detach(x)}
<1>1. work[p] \in Seq(AllStatements) /\ Orderly(work[p])
  BY DEF GraphInv, Works
<1>2. Head(work[p]) \in Left(p) /\ Head(work[p]) \in AllStatements
  BY <1>1, Rest DEF Left
<1>3. Shape(Head(work[p])) /\ Handled(p, Head(work[p]))
  BY <1>2 DEF GraphInv, Plans, Shaped
<1>q. QED BY <1>1, <1>2, <1>3, Rest, Read DEF Left

LEMMA Order ==
  ASSUME NEW d \in Dos, NEW e \in Dos, e \in From(d)
  PROVE  /\ e = "require" => d = "require"
         /\ e = "unpromoted" => d \in {"require", "unpromoted"}
         /\ e = "insert" => d \in {"require", "unpromoted", "insert"}
         /\ e = "attend" => d \notin {"connect", "detach", "delete", "purge", "empty notes"}
         /\ e = "detach" => d \notin {"delete", "purge", "empty notes"}
         /\ e = "delete" => d \notin {"purge", "empty notes"}
         /\ d = "empty notes" => e = "empty notes"
  BY DEF Dos, From

\* What is left after the head, by its kind.
LEMMA Later ==
  ASSUME GraphInv, NEW p \in G!Processes, work[p] # <<>>, NEW t \in Left(p)
  PROVE  LET s == Head(work[p]) IN
         /\ t = G!Statement(t.do, t.x, t.y)
         /\ t.do = "require" => s.do = "require"
         /\ t.do = "unpromoted" => s.do \in {"require", "unpromoted"}
         /\ t.do = "insert" => s.do \in {"require", "unpromoted", "insert"}
         /\ t.do = "attend" => s.do \notin {"connect", "detach", "delete", "purge", "empty notes"}
         /\ t.do = "detach" => s.do \notin {"purge", "empty notes"}
         /\ t.do = "detach" /\ s.do = "delete" => Left(p) = {s, G!Detach(s.x)}
         /\ t.do = "delete" => s.do \notin {"purge", "empty notes"}
         /\ s.do = "empty notes" => t.do = "empty notes"
<1> DEFINE s == Head(work[p])
<1>1. work[p] \in Seq(AllStatements)
  BY DEF GraphInv, Works
<1>2. t \in AllStatements
  BY <1>1 DEF Left, Among
<1>3. /\ s \in AllStatements
      /\ t.do \in From(s.do) \/ \E x \in G!Nodes : s = G!Delete(x) /\ Left(p) = {G!Delete(x), G!Detach(x)}
  BY HeadIs
<1> HIDE DEF s
<1>4. s.do \in Dos /\ t.do \in Dos
  BY <1>2, <1>3 DEF AllStatements
<1>5. CASE t.do \in From(s.do)
  <2>1. t.do = "detach" => s.do # "delete"
    BY <1>4, <1>5, Order
  <2>q. QED BY <1>2, <1>4, <1>5, <2>1, Order, Read DEF s
<1>6. CASE \E x \in G!Nodes : s = G!Delete(x) /\ Left(p) = {G!Delete(x), G!Detach(x)}
  <2>1. PICK x \in G!Nodes : s = G!Delete(x) /\ Left(p) = {G!Delete(x), G!Detach(x)}
    BY <1>6
  <2>2. s.do = "delete" /\ s.x = x /\ t.do \in {"delete", "detach"}
    BY <2>1 DEF G!Delete, G!Detach, G!Statement
  <2>q. QED BY <1>2, <2>1, <2>2, Read DEF s
<1>q. QED BY <1>3, <1>5, <1>6

LEMMA Goes ==
  ASSUME GraphInv, NEW p \in G!Processes, work[p] # <<>>, G!GoOn(p, Tail(work[p]))
  PROVE  /\ Works'
         /\ hand' \in [G!Processes -> SUBSET G!Nodes] /\ \A q \in G!Processes : hand'[q] = {} <=> work'[q] = <<>>
         /\ Left(p)' = Left(p) \ {Head(work[p])}
         /\ \A q \in G!Processes : Left(q)' \subseteq Left(q) /\ hand'[q] \subseteq hand[q]
         /\ \A q \in G!Processes : q # p => Left(q)' = Left(q) /\ work'[q] = work[q]
         /\ \A q \in G!Processes : Left(q)' # {} => hand'[q] = hand[q]
<1>1. work \in [G!Processes -> Seq(AllStatements)] /\ \A q \in G!Processes : Orderly(work[q])
  BY DEF GraphInv, Works
<1>2. hand \in [G!Processes -> SUBSET G!Nodes] /\ \A q \in G!Processes : hand[q] = {} <=> work[q] = <<>>
  BY DEF GraphInv, G!TypeOK
<1>3. /\ work' = [work EXCEPT ![p] = Tail(work[p])]
      /\ hand' = [hand EXCEPT ![p] = IF Tail(work[p]) = <<>> THEN {} ELSE @]
  BY DEF G!GoOn
<1>4. /\ Tail(work[p]) \in Seq(AllStatements) /\ Orderly(Tail(work[p]))
      /\ Among(Tail(work[p])) = Among(work[p]) \ {Head(work[p])}
      /\ Tail(work[p]) = <<>> <=> Among(Tail(work[p])) = {}
  BY <1>1, Rest
<1>5. work'[p] = Tail(work[p]) /\ \A q \in G!Processes : q # p => work'[q] = work[q]
  BY <1>1, <1>3
<1>6. Works'
  BY <1>1, <1>3, <1>4, <1>5 DEF Works
<1>7. hand' \in [G!Processes -> SUBSET G!Nodes] /\ \A q \in G!Processes : hand'[q] = {} <=> work'[q] = <<>>
  BY <1>2, <1>3, <1>5
<1>8. Left(p)' = Left(p) \ {Head(work[p])}
  BY <1>4, <1>5 DEF Left
<1>9. \A q \in G!Processes : q # p => Left(q)' = Left(q)
  BY <1>5 DEF Left
<1>10. Left(p)' # {} => Tail(work[p]) # <<>>
  BY <1>4, <1>5 DEF Left
<1>11. \A q \in G!Processes : hand'[q] \subseteq hand[q] /\ (Left(q)' # {} => hand'[q] = hand[q])
  BY <1>2, <1>3, <1>10
<1>q. QED BY <1>5, <1>6, <1>7, <1>8, <1>9, <1>11

\* The handler of the other process is as it was, and the rest is untouched too.
LEMMA GoesOn ==
  ASSUME GraphInv, NEW p \in G!Processes, work[p] # <<>>, G!GoOn(p, Tail(work[p]))
  PROVE  /\ awaiting' = awaiting /\ used' = used /\ muddled' = muddled /\ cuts' = cuts
         /\ \A x : Inserting(x)' => Inserting(x)
         /\ \A x : Pending(x)' => Pending(x)
         /\ \A x : Pending(x) => Pending(x)' \/ Head(work[p]) = G!Insert(x)
<1>1. awaiting' = awaiting /\ used' = used /\ muddled' = muddled /\ cuts' = cuts
  BY DEF G!GoOn
<1>2. \A q \in G!Processes : Left(q)' \subseteq Left(q)
  BY Goes
<1>3. \A q \in G!Processes : \A t \in Left(q) : t \in Left(q)' \/ t = Head(work[p])
  BY Goes
<1>4. \A x : Inserting(x)' => Inserting(x)
  BY <1>2 DEF Inserting, G!Insert, G!Statement
<1>5. \A x : Inserting(x) => Inserting(x)' \/ Head(work[p]) = G!Insert(x)
  BY <1>3 DEF Inserting, G!Insert, G!Statement
<1>q. QED BY <1>1, <1>4, <1>5 DEF Pending

LEMMA PlansKept ==
  ASSUME GraphInv, NEW p \in G!Processes, work[p] # <<>>, G!GoOn(p, Tail(work[p])), of' = of, trashed' \subseteq trashed,
         \A a \in attends : a \in attends' \/ \E t \in Left("engine") : Clears(t),
         Head(work[p]).do = "attend" => <<Head(work[p]).x, Head(work[p]).y>> \in attends'
  PROVE  Plans' /\ HandsApart'
<1> DEFINE s == Head(work[p])
<1>1. /\ s \in Left(p) /\ s = G!Statement(s.do, s.x, s.y)
      /\ (\A t \in Left(p) : t.do \in From(s.do)) \/ \E x \in G!Nodes : s = G!Delete(x) /\ Left(p) = {G!Delete(x), G!Detach(x)}
  BY HeadIs
<1>2. Left(p)' = Left(p) \ {s} /\ \A q \in G!Processes : q # p => Left(q)' = Left(q)
  BY Goes
<1>3. \A q \in G!Processes : Left(q)' \subseteq Left(q) /\ hand'[q] \subseteq hand[q] /\ (Left(q)' # {} => hand'[q] = hand[q])
  BY Goes
<1>4. awaiting' = awaiting /\ used' = used /\ muddled' = muddled
  BY GoesOn
<1> HIDE DEF s
<1>5. ASSUME NEW q \in G!Processes PROVE Shaped(q)'
  <2>1. Shaped(q)
    BY DEF GraphInv, Plans
  <2>2. ASSUME NEW t \in Left(q)' PROVE Shape(t)' /\ Handled(q, t)'
    <3>1. t \in Left(q) /\ hand'[q] = hand[q]
      BY <1>3, <2>2
    <3>2. Shape(t) /\ Handled(q, t)
      BY <2>1, <3>1 DEF Shaped
    <3>3. Handled(q, t)'
      BY <1>4, <3>1, <3>2 DEF Handled
    <3>q. QED BY <3>2, <3>3 DEF Shape
  <2>q. QED BY <2>2 DEF Shaped
<1>6. ASSUME NEW q \in G!Processes PROVE Sweeps(q)'
  <2>1. Sweeps(q)
    BY DEF GraphInv, Plans
  <2>2. \A t \in Left(q)' : t \in Left(q) /\ hand'[q] = hand[q]
    BY <1>3
  <2>q. QED BY <2>1, <2>2 DEF Sweeps, Clears, G!EmptyNotes, G!Statement
<1>7. ASSUME NEW q \in G!Processes PROVE Joins(q)'
  <2>1. Joins(q) /\ Sweeps(q)
    BY DEF GraphInv, Plans
  <2>2. \A t \in Left(q)' : t \in Left(q)
    BY <1>3
  <2>3. \A t, u \in Left(q)' : t.do = "connect" /\ u.do = "connect" /\ t.x = u.x /\ t.x \in Items
                             /\ {t.y, u.y} \subseteq Tickets => t = u
    BY <2>1, <2>2 DEF Joins
  <2>4. ASSUME NEW t \in Left(q)', t.do = "connect", t.x \in Meetings, t.y \in People
        PROVE  q = "engine" /\ (G!Attend(t.x, t.y) \in Left(q)' \/ (<<t.x, t.y>> \in attends' /\ Left(q)' = {t}))
    <3>1. q = "engine" /\ (G!Attend(t.x, t.y) \in Left(q) \/ (<<t.x, t.y>> \in attends /\ Left(q) = {t}))
      BY <2>1, <2>2, <2>4 DEF Joins
    <3>2. \A u \in Left("engine") : ~Clears(u)
      BY <2>1, <2>2, <2>4, <3>1 DEF Sweeps, Clears
    <3>3. CASE G!Attend(t.x, t.y) \in Left(q)'
      BY <3>1, <3>3
    <3>4. CASE G!Attend(t.x, t.y) \notin Left(q)' /\ G!Attend(t.x, t.y) \in Left(q)
      <4>1. q = p /\ s = G!Attend(t.x, t.y)
        BY <1>2, <3>4
      <4>2. s.do = "attend" /\ s.x = t.x /\ s.y = t.y
        BY <4>1 DEF G!Attend, G!Statement
      <4>3. <<t.x, t.y>> \in attends'
        BY <4>2 DEF s
      <4>4. ASSUME NEW u \in Left(p) PROVE u.do \in {"attend", "connect"}
        <5>1. u.do \notin {"require", "unpromoted", "insert"}
          BY <4>2, Later DEF s
        <5>2. ~Clears(u)
          BY <3>1, <3>2, <4>1
        <5>3. u.do \in Dos
          <6>1. work \in [G!Processes -> Seq(AllStatements)]
            BY DEF GraphInv, Works
          <6>2. u \in AllStatements
            BY <6>1 DEF Left, Among
          <6>q. QED BY <6>2 DEF AllStatements
        <5>q. QED BY <5>1, <5>2, <5>3 DEF Clears, Dos
      <4>5. \A u \in Left(p) : u \in {s, G!Connect(s.x, s.y)}
        BY <1>1, <2>1, <4>1, <4>2, <4>4 DEF Joins
      <4>6. t \in Left(p) /\ t # s /\ t \in Left(p)'
        BY <2>2, <2>4, <4>1, <4>2
      <4>7. Left(q)' = {t}
        BY <1>2, <4>1, <4>5, <4>6
      <4>q. QED BY <3>1, <4>3, <4>7
    <3>5. CASE G!Attend(t.x, t.y) \notin Left(q)
      <4>1. <<t.x, t.y>> \in attends /\ Left(q) = {t}
        BY <3>1, <3>5
      <4>2. <<t.x, t.y>> \in attends'
        BY <3>2, <4>1
      <4>3. Left(q)' = {t}
        BY <2>2, <2>4, <4>1
      <4>q. QED BY <3>1, <4>2, <4>3
    <3>q. QED BY <3>3, <3>4, <3>5
  <2>5. ASSUME NEW t \in Left(q)', t.do = "attend"
        PROVE  /\ G!Connect(t.x, t.y) \in Left(q)'
               /\ \A u \in Left(q)' : u.do \in {"attend", "connect"} => u \in {t, G!Connect(t.x, t.y)}
    <3>1. /\ t \in Left(q) /\ G!Connect(t.x, t.y) \in Left(q)
          /\ \A u \in Left(q) : u.do \in {"attend", "connect"} => u \in {t, G!Connect(t.x, t.y)}
      BY <2>1, <2>2, <2>5 DEF Joins
    <3>2. CASE q # p
      BY <1>2, <3>1, <3>2
    <3>3. CASE q = p
      <4>1. s # G!Connect(t.x, t.y)
        <5>1. s.do # "connect"
          BY <2>5, <3>1, <3>3, Later DEF s
        <5>q. QED BY <5>1 DEF G!Connect, G!Statement
      <4>q. QED BY <1>2, <2>2, <3>1, <3>3, <4>1
    <3>q. QED BY <3>2, <3>3
  <2>q. QED BY <2>3, <2>4, <2>5 DEF Joins
<1>8. HandsApart'
  BY <1>3, <1>4, TwoProcesses DEF GraphInv, HandsApart
<1>q. QED BY <1>5, <1>6, <1>7, <1>8 DEF Plans

LEMMA IdsKept ==
  ASSUME GraphInv, NEW p \in G!Processes, work[p] # <<>>, G!GoOn(p, Tail(work[p])), of' = of, IsFiniteSet(rows'),
         \A x \in G!Nodes : Pending(x)' => x \notin rows' /\ \A e \in made' : x \notin {e[1], e[2]},
         \A x \in G!Owned \intersect rows' : of[x] \in rows',
         awaiting.for = "copy" => awaiting.about \in rows' \union muddled
  PROVE  Ids' /\ Waits'
<1>1. awaiting' = awaiting /\ used' = used /\ muddled' = muddled /\ \A x : Pending(x)' => Pending(x)
  BY GoesOn
<1>2. \A q \in G!Processes : Left(q)' \subseteq Left(q)
  BY Goes
<1>3. \A q \in G!Processes, x \in G!Nodes : G!Insert(x) \in Left(q)' =>
        x \in used' /\ x \notin awaiting'.writes /\ \A r \in G!Processes \ {q} : G!Insert(x) \notin Left(r)'
  BY <1>1, <1>2 DEF GraphInv, Ids
<1>4. Ids'
  BY <1>1, <1>3 DEF GraphInv, Ids, G!Insert, G!Statement
<1>5. Waits'
  BY <1>1 DEF GraphInv, Waits, G!Nothing
<1>q. QED BY <1>4, <1>5

\* What a handler is about that the engine is to delete, both had in hand.
LEMMA DoomedInHand ==
  ASSUME GraphInv, NEW x, Doomed(x)
  PROVE  x \in hand["engine"] \/ (x \in G!Owned /\ of[x] \in hand["engine"])
<1>1. \A s \in Left("engine") : Handled("engine", s)
  BY TwoProcesses DEF GraphInv, Plans, Shaped
<1>2. \A y : G!Delete(y) \in Left("engine") => y \in hand["engine"]
  BY <1>1 DEF Handled, G!Delete, G!Statement
<1>3. G!EmptyNotes \in Left("engine") => trashed \intersect Notes \subseteq hand["engine"]
  BY TwoProcesses DEF GraphInv, Plans, Sweeps
<1>q. QED BY <1>2, <1>3 DEF Doomed

\* A row that a handler links or promotes, and that the engine is to delete.
LEMMA DoomedMet ==
  ASSUME GraphInv, NEW p \in G!Processes, NEW s \in Left(p), s.do \in {"connect", "unpromoted"}, NEW c, Doomed(c),
         c = s.x \/ (s.do = "connect" /\ c = s.y)
  PROVE  p # "engine" /\ Muddled(c)
<1>1. Shape(s) /\ Handled(p, s) /\ Sweeps("engine")
  BY TwoProcesses DEF GraphInv, Plans, Shaped
<1>2. p # "engine"
  <2>1. \E t \in Left("engine") : Clears(t)
    BY DEF Doomed, Clears, G!Delete, G!EmptyNotes, G!Statement
  <2>q. QED BY <1>1, <2>1 DEF Sweeps, Clears
<1>3. c \in hand["mcp"] /\ (c \in G!Owned => of[c] \in hand["mcp"])
  BY <1>1, <1>2, TwoProcesses DEF Shape, Handled
<1>4. c \in hand["engine"] \/ (c \in G!Owned /\ of[c] \in hand["engine"])
  BY DoomedInHand
<1>q. QED BY <1>2, <1>3, <1>4 DEF GraphInv, HandsApart, Muddled

\* Nothing is doomed while the engine deletes nothing.
LEMMA NoneDoomed ==
  ASSUME \A s \in Left("engine") : ~Clears(s) PROVE \A x : ~Doomed(x)
  BY DEF Doomed, Clears, G!Delete, G!EmptyNotes, G!Statement

-----------------------------------------------------------------------------
(* The statements of a handler.                                            *)

LEMMA Says ==
  ASSUME GraphInv, NEW p \in G!Processes, work[p] # <<>>, G!GoOn(p, Tail(work[p])), of' = of, trashed' \subseteq trashed
  PROVE  /\ \A x : Muddled(x)' <=> Muddled(x)
         /\ \A e : Astray(e)' <=> Astray(e)
         /\ \A x : Doomed(x)' => Doomed(x)
<1>1. muddled' = muddled
  BY GoesOn
<1>2. Left("engine")' \subseteq Left("engine")
  BY Goes, TwoProcesses
<1>3. \A x : Muddled(x)' <=> Muddled(x)
  BY <1>1 DEF Muddled
<1>4. \A x : Doomed(x)' => Doomed(x)
  BY <1>2 DEF Doomed, G!Delete, G!EmptyNotes, G!Statement
<1>q. QED BY <1>3, <1>4 DEF Astray

LEMMA SupportsKept ==
  ASSUME GraphInv, NEW p \in G!Processes, work[p] # <<>>, G!GoOn(p, Tail(work[p])), of' = of, trashed' \subseteq trashed,
         Head(work[p]).do \in {"require", "insert"} =>
           \A c : c = Head(work[p]).x \/ (Head(work[p]).x \in G!Owned /\ c = of[Head(work[p]).x])
                  => c \in rows' /\ ~Pending(c)',
         \A q \in G!Processes : \A t \in Left(q) : t.do = "connect" =>
           \A c \in {t.x, t.y} : c \in rows => c \in rows' \/ Muddled(t.x) \/ Muddled(t.y)
  PROVE  Supports'
<1> DEFINE s == Head(work[p])
<1>1. \A q \in G!Processes : \A t \in Left(q) : t \in Left(q)' \/ (q = p /\ t = s)
  BY Goes
<1>2. \A x : Muddled(x)' <=> Muddled(x)
  BY Says
<1>3. \A x : Pending(x)' => Pending(x)
  BY GoesOn
<1>4. \A q \in G!Processes : Left(q)' \subseteq Left(q)
  BY Goes
<1>5. ASSUME NEW q \in G!Processes, NEW t \in Left(q)', t.do = "connect", NEW c \in {t.x, t.y} PROVE Ready(q, t, c)'
  <2>1. t \in Left(q) /\ Ready(q, t, c)
    BY <1>4, <1>5 DEF GraphInv, Supports
  <2>2. CASE Supported(q, c)
    <3>1. PICK u \in Left(q) : u.do \in {"require", "insert"} /\ (c = u.x \/ (u.x \in G!Owned /\ c = of[u.x]))
      BY <2>2 DEF Supported
    <3>2. CASE u \in Left(q)'
      BY <3>1, <3>2 DEF Ready, Supported
    <3>3. CASE u = s
      BY <3>1, <3>3 DEF Ready
    <3>q. QED BY <1>1, <3>2, <3>3
  <2>3. CASE ~Pending(c) /\ (c \in rows \/ Muddled(t.x) \/ Muddled(t.y))
    <3>1. c \in rows' \/ Muddled(t.x) \/ Muddled(t.y)
      BY <1>5, <2>1, <2>3
    <3>q. QED BY <1>2, <1>3, <2>3, <3>1 DEF Ready
  <2>q. QED BY <2>1, <2>2, <2>3 DEF Ready
<1>q. QED BY <1>5 DEF Supports

LEMMA CheckKept == ASSUME GraphInv, NEW p \in G!Processes, G!Check(p) PROVE GraphInv'
<1> DEFINE s == Head(work[p])
<1>1. /\ work[p] # <<>> /\ s.do \in {"require", "unpromoted"} /\ G!GoOn(p, Tail(work[p]))
      /\ s.do = "require" => s.x \in rows
      /\ s.do = "unpromoted" => G!TicketsOf(s.x) = {}
  BY DEF G!Check, G!Doing
<1>2. rows' = rows /\ of' = of /\ trashed' = trashed /\ edges' = edges /\ attends' = attends /\ made' = made
  BY DEF G!Check, G!store
<1>3. /\ s \in Left(p) /\ s = G!Statement(s.do, s.x, s.y) /\ Shape(s) /\ Handled(p, s)
  BY <1>1, HeadIs
<1>4. /\ Works' /\ Left(p)' = Left(p) \ {s} /\ (\A q \in G!Processes : Left(q)' \subseteq Left(q))
      /\ hand' \in [G!Processes -> SUBSET G!Nodes] /\ \A q \in G!Processes : hand'[q] = {} <=> work'[q] = <<>>
  BY <1>1, Goes
<1>5. \A q \in G!Processes : q # p => Left(q)' = Left(q) /\ work'[q] = work[q]
  BY <1>1, Goes
<1>6. awaiting' = awaiting /\ used' = used /\ muddled' = muddled /\ cuts' = cuts /\ \A x : Pending(x)' => Pending(x)
  BY <1>1, GoesOn
<1>7. G!TypeOK'
  BY <1>2, <1>4, <1>6 DEF GraphInv, G!TypeOK
<1>8. Plans' /\ HandsApart'
  BY <1>1, <1>2, PlansKept
<1>9. \A x \in rows : ~Pending(x)
  BY DEF GraphInv, Ids, G!TypeOK
<1>10. Ids' /\ Waits'
  <2>1. /\ IsFiniteSet(rows') /\ \A x \in G!Owned \intersect rows' : of[x] \in rows'
        /\ \A x \in G!Nodes : Pending(x)' => x \notin rows' /\ \A e \in made' : x \notin {e[1], e[2]}
    BY <1>2, <1>6 DEF GraphInv, Ids
  <2>2. awaiting.for = "copy" => awaiting.about \in rows' \union muddled
    BY <1>2 DEF GraphInv, Waits
  <2>q. QED BY <1>1, <1>2, <2>1, <2>2, IdsKept
<1>11. Supports'
  <2>1. ASSUME s.do = "require", NEW c, c = s.x \/ (s.x \in G!Owned /\ c = of[s.x]) PROVE c \in rows' /\ ~Pending(c)'
    <3>1. c \in rows
      BY <1>1, <2>1 DEF GraphInv, Ids
    <3>q. QED BY <1>2, <1>6, <1>9, <3>1
  <2>q. QED BY <1>1, <1>2, <2>1, SupportsKept
<1>12. \A t : t.do \notin {"require", "unpromoted"} => \A q \in G!Processes : t \in Left(q)' <=> t \in Left(q)
  BY <1>1, <1>4, <1>5
<1>13. \A x : Muddled(x)' <=> Muddled(x)
  BY <1>1, <1>2, Says
<1>14. \A e : Astray(e)' <=> Astray(e)
  BY <1>1, <1>2, Says
<1>15. \A x : Doomed(x)' <=> Doomed(x)
  BY <1>2, <1>12, TwoProcesses DEF Doomed, G!Delete, G!EmptyNotes, G!Statement
<1>16. Cleared' /\ Kept' /\ TicketsKept'
  BY <1>2, <1>12, <1>13, <1>14, <1>15, TwoProcesses DEF GraphInv, Cleared, Kept, TicketsKept, G!Detach, G!Statement
<1>17. Mentioned'
  BY <1>2, <1>12, <1>13, <1>15, TwoProcesses DEF GraphInv, Mentioned, G!Connect, G!Attend, G!Statement
<1>18. OnePromotion'
  <2>1. ASSUME NEW i \in Items, NEW q \in G!Processes, NEW t \in Tickets, G!Connect(i, t) \in Left(q)'
        PROVE  Muddled(i)' \/ G!Unpromoted(i) \in Left(q)' \/ Promoted(i)' = {}
    <3>1. G!Connect(i, t) \in Left(q) /\ (Muddled(i) \/ G!Unpromoted(i) \in Left(q) \/ Promoted(i) = {})
      BY <1>4, <2>1 DEF GraphInv, OnePromotion
    <3>2. CASE G!Unpromoted(i) \in Left(q) /\ G!Unpromoted(i) \notin Left(q)' /\ ~Muddled(i)
      <4>1. q = p /\ s = G!Unpromoted(i)
        BY <1>4, <1>5, <3>2
      <4>2. s.do = "unpromoted" /\ s.x = i
        BY <4>1 DEF G!Unpromoted, G!Statement
      <4>3. G!Require(i) \notin Left(p)
        BY <1>1, <4>2, Later DEF G!Require, G!Statement
      <4>4. i \in rows
        BY <3>2, <4>1, <4>3 DEF GraphInv, OnePromotion
      <4>5. ASSUME NEW u \in Promoted(i) PROVE FALSE
        <5>1. <<i, u>> \notin edges
          BY <1>1, <4>2, <4>5 DEF G!TicketsOf, Promoted
        <5>2. Doomed(i)
          BY <3>2, <4>4, <4>5, <5>1 DEF GraphInv, TicketsKept, Promoted
        <5>3. Muddled(i)
          BY <1>3, <4>2, <5>2, DoomedMet
        <5>q. QED BY <3>2, <5>3
      <4>q. QED BY <1>2, <4>5 DEF Promoted
    <3>q. QED BY <1>2, <1>13, <3>1, <3>2 DEF Promoted
  <2>2. ASSUME NEW i \in Items, NEW q \in G!Processes, G!Unpromoted(i) \in Left(q)'
        PROVE  Muddled(i)' \/ G!Require(i) \in Left(q)' \/ i \in rows'
    <3>1. Muddled(i) \/ G!Require(i) \in Left(q) \/ i \in rows
      BY <1>4, <2>2 DEF GraphInv, OnePromotion
    <3>2. s = G!Require(i) => i \in rows
      BY <1>1 DEF G!Require, G!Statement
    <3>q. QED BY <1>2, <1>4, <1>5, <1>13, <3>1, <3>2
  <2>3. \A i \in Items : Muddled(i)' \/ \A t, u \in Promoted(i)' : t = u
    BY <1>2, <1>13 DEF GraphInv, OnePromotion, Promoted
  <2>q. QED BY <2>1, <2>2, <2>3 DEF OnePromotion
<1>19. Clearing'
  <2>1. \A c \in G!Nodes : G!Detach(c) \in Left("engine")' => Doomed(c)' \/ (c \notin rows' /\ ~Pending(c)')
    BY <1>2, <1>6, <1>12, <1>15, TwoProcesses DEF GraphInv, Clearing, G!Detach, G!Statement
  <2>2. ASSUME NEW t \in Tickets, G!Detach(t) \in Left("engine")'
        PROVE  Head(work'["engine"]) = G!Delete(t) \/ (t \notin rows' /\ G!Delete(t) \notin Left("engine")')
    <3>1. G!Detach(t) \in Left("engine")
      BY <1>4, <2>2, TwoProcesses
    <3>2. Head(work["engine"]) = G!Delete(t) \/ (t \notin rows /\ G!Delete(t) \notin Left("engine"))
      BY <3>1 DEF GraphInv, Clearing
    <3>3. p = "engine" => s # G!Delete(t)
      BY <1>1 DEF G!Delete, G!Statement
    <3>q. QED BY <1>2, <1>4, <1>5, <3>2, <3>3, TwoProcesses
  <2>3. ASSUME NEW m \in Meetings, G!Purge(m) \in Left("engine")' PROVE G!Require(m) \in Left("engine")' \/ m \in rows'
    <3>1. G!Require(m) \in Left("engine") \/ m \in rows
      BY <1>4, <2>3, TwoProcesses DEF GraphInv, Clearing
    <3>2. s = G!Require(m) => m \in rows
      BY <1>1 DEF G!Require, G!Statement
    <3>q. QED BY <1>2, <1>4, <1>5, <3>1, <3>2, TwoProcesses
  <2>4. Clean => Clean'
    BY <1>2, <1>13, <1>14 DEF Clean
  <2>5. (\E t \in Left("engine")' : Clears(t)) /\ (\E t \in Left("engine")' : t.do = "require" \/ (t.do = "delete" /\ t.x \notin rows'))
          => Clean'
    BY <1>2, <1>4, <2>4, TwoProcesses DEF GraphInv, Clearing
  <2>q. QED BY <2>1, <2>2, <2>3, <2>5 DEF Clearing, Clears
<1>q. QED BY <1>4, <1>7, <1>8, <1>10, <1>11, <1>16, <1>17, <1>18, <1>19 DEF GraphInv

LEMMA InsertRowKept == ASSUME GraphInv, NEW p \in G!Processes, G!InsertRow(p) PROVE GraphInv'
<1> DEFINE s == Head(work[p])
<1>0. PICK x : x = s.x
  OBVIOUS
<1>1. /\ work[p] # <<>> /\ s.do = "insert" /\ G!GoOn(p, Tail(work[p]))
      /\ x \in G!Owned => of[x] \in rows
  BY <1>0 DEF G!InsertRow, G!Doing
<1>2. /\ rows' = rows \union {x} /\ of' = of /\ trashed' = trashed /\ edges' = edges /\ attends' = attends
      /\ made' = made
  BY <1>0 DEF G!InsertRow
<1>3. s \in Left(p) /\ s = G!Insert(x) /\ x \in G!Nodes
  BY <1>0, <1>1, HeadIs DEF Shape, G!Insert, G!Statement
<1>4. /\ Works' /\ Left(p)' = Left(p) \ {s} /\ (\A q \in G!Processes : Left(q)' \subseteq Left(q))
      /\ hand' \in [G!Processes -> SUBSET G!Nodes] /\ \A q \in G!Processes : hand'[q] = {} <=> work'[q] = <<>>
  BY <1>1, Goes
<1>5. \A q \in G!Processes : q # p => Left(q)' = Left(q) /\ work'[q] = work[q]
  BY <1>1, Goes
<1>6. awaiting' = awaiting /\ used' = used /\ muddled' = muddled /\ cuts' = cuts /\ \A y : Pending(y)' => Pending(y)
  BY <1>1, GoesOn
<1> HIDE DEF s
<1>7. Pending(x) /\ x \notin rows /\ \A e \in made : x \notin {e[1], e[2]}
  <2>1. Pending(x)
    BY <1>3 DEF Pending, Inserting
  <2>q. QED BY <1>3, <2>1 DEF GraphInv, Ids
<1>8. ~Pending(x)'
  <2>1. x \in used /\ x \notin awaiting.writes /\ \A q \in G!Processes \ {p} : G!Insert(x) \notin Left(q)
    BY <1>3 DEF GraphInv, Ids
  <2>2. ~Inserting(x)'
    BY <1>3, <1>4, <1>5, <2>1 DEF Inserting, G!Insert, G!Statement
  <2>q. QED BY <1>6, <2>1, <2>2 DEF Pending
<1>9. G!TypeOK'
  BY <1>2, <1>3, <1>4, <1>6 DEF GraphInv, G!TypeOK
<1>10. Plans' /\ HandsApart'
  BY <1>1, <1>2, PlansKept DEF s
<1>11. \A y \in rows : ~Pending(y)
  BY DEF GraphInv, Ids, G!TypeOK
<1>12. Ids' /\ Waits'
  <2>1. IsFiniteSet(rows')
    BY <1>2, FS_AddElement DEF GraphInv, Ids
  <2>2. \A y \in G!Nodes : Pending(y)' => y \notin rows' /\ \A e \in made' : y \notin {e[1], e[2]}
    BY <1>2, <1>6, <1>8 DEF GraphInv, Ids
  <2>3. \A y \in G!Owned \intersect rows' : of[y] \in rows'
    BY <1>1, <1>2 DEF GraphInv, Ids
  <2>4. awaiting.for = "copy" => awaiting.about \in rows' \union muddled
    BY <1>2 DEF GraphInv, Waits
  <2>q. QED BY <1>1, <1>2, <2>1, <2>2, <2>3, <2>4, IdsKept DEF s
<1>13. Supports'
  <2>1. ASSUME NEW c, c = x \/ (x \in G!Owned /\ c = of[x]) PROVE c \in rows' /\ ~Pending(c)'
    BY <1>1, <1>2, <1>6, <1>8, <1>11, <2>1
  <2>q. QED BY <1>0, <1>1, <1>2, <2>1, SupportsKept DEF s
<1>14. \A t : t.do # "insert" => \A q \in G!Processes : t \in Left(q)' <=> t \in Left(q)
  BY <1>1, <1>4, <1>5
<1>15. \A y : Muddled(y)' <=> Muddled(y)
  BY <1>1, <1>2, Says
<1>16. \A e : Astray(e)' <=> Astray(e)
  BY <1>1, <1>2, Says
<1>17. \A y : Doomed(y)' <=> Doomed(y)
  BY <1>2, <1>14, TwoProcesses DEF Doomed, G!Delete, G!EmptyNotes, G!Statement
<1>18. \A e \in made : \A c \in {e[1], e[2]} : c \in rows' <=> c \in rows
  BY <1>2, <1>7
<1>19. edges \subseteq made
  BY DEF GraphInv, G!TypeOK
<1>20. \A y, z : <<y, z>> \in made => (y \in rows' <=> y \in rows) /\ (z \in rows' <=> z \in rows)
  BY <1>18
<1>21. Cleared'
  BY <1>2, <1>14, <1>16, <1>17, <1>18, <1>19, TwoProcesses DEF GraphInv, Cleared, G!Detach, G!Statement
<1>22. Kept' /\ TicketsKept'
  BY <1>2, <1>15, <1>16, <1>17, <1>18, <1>20 DEF GraphInv, Kept, TicketsKept
<1>23. Mentioned'
  BY <1>2, <1>14, <1>15, <1>17, <1>19, <1>20, TwoProcesses DEF GraphInv, Mentioned, G!Connect, G!Attend, G!Statement
<1>24. OnePromotion'
  <2>1. \A i : Promoted(i)' = Promoted(i)
    BY <1>2, <1>20 DEF Promoted
  <2>q. QED BY <1>2, <1>14, <1>15, <2>1 DEF GraphInv, OnePromotion, G!Connect, G!Unpromoted, G!Require, G!Statement
<1>25. Clearing'
  <2>1. ASSUME NEW c \in G!Nodes, G!Detach(c) \in Left("engine")' PROVE Doomed(c)' \/ (c \notin rows' /\ ~Pending(c)')
    <3>1. Doomed(c) \/ (c \notin rows /\ ~Pending(c))
      BY <1>4, <2>1, TwoProcesses DEF GraphInv, Clearing
    <3>q. QED BY <1>2, <1>6, <1>7, <1>17, <3>1
  <2>2. ASSUME NEW t \in Tickets, G!Detach(t) \in Left("engine")'
        PROVE  Head(work'["engine"]) = G!Delete(t) \/ (t \notin rows' /\ G!Delete(t) \notin Left("engine")')
    <3>1. G!Detach(t) \in Left("engine")
      BY <1>4, <2>2, TwoProcesses
    <3>2. Head(work["engine"]) = G!Delete(t) \/ (t \notin rows /\ G!Delete(t) \notin Left("engine"))
      BY <3>1 DEF GraphInv, Clearing
    <3>3. p = "engine" => s # G!Delete(t)
      BY <1>1 DEF G!Delete, G!Statement
    <3>4. CASE Head(work["engine"]) = G!Delete(t)
      <4>1. p # "engine"
        BY <3>3, <3>4 DEF s
      <4>q. QED BY <1>5, <3>4, <4>1, TwoProcesses
    <3>5. CASE t \notin rows /\ G!Delete(t) \notin Left("engine")
      <4>1. ~Doomed(t)
        BY <3>5, Kinds DEF Doomed
      <4>2. ~Pending(t)
        BY <3>1, <4>1, Kinds DEF GraphInv, Clearing
      <4>q. QED BY <1>2, <1>4, <1>7, <3>5, <4>2, TwoProcesses
    <3>q. QED BY <3>2, <3>4, <3>5
  <2>3. \A m \in Meetings : G!Purge(m) \in Left("engine")' => G!Require(m) \in Left("engine")' \/ m \in rows'
    BY <1>2, <1>14, TwoProcesses DEF GraphInv, Clearing, G!Purge, G!Require, G!Statement
  <2>4. Clean => Clean'
    BY <1>2, <1>15, <1>16, <1>18, <1>19, <1>20 DEF Clean
  <2>5. (\E t \in Left("engine")' : Clears(t)) /\ (\E t \in Left("engine")' : t.do = "require" \/ (t.do = "delete" /\ t.x \notin rows'))
          => Clean'
    BY <1>2, <1>4, <2>4, TwoProcesses DEF GraphInv, Clearing
  <2>q. QED BY <2>1, <2>2, <2>3, <2>5 DEF Clearing, Clears
<1>q. QED BY <1>4, <1>9, <1>10, <1>12, <1>13, <1>21, <1>22, <1>23, <1>24, <1>25 DEF GraphInv

LEMMA InsertEdgeKept == ASSUME GraphInv, NEW p \in G!Processes, G!InsertEdge(p) PROVE GraphInv'
<1> DEFINE s == Head(work[p])
<1>0. PICK a, b : a = s.x /\ b = s.y
  OBVIOUS
<1>1. work[p] # <<>> /\ s.do = "connect" /\ G!GoOn(p, Tail(work[p]))
  BY DEF G!InsertEdge, G!Doing
<1>2. /\ rows' = rows /\ of' = of /\ trashed' = trashed /\ edges' = edges \union {<<a, b>>} /\ attends' = attends
      /\ made' = made \union {<<a, b>>}
  BY <1>0 DEF G!InsertEdge
<1>3. s \in Left(p) /\ s = G!Connect(a, b) /\ a \in G!Nodes /\ b \in G!Nodes \ G!Owned
  BY <1>0, <1>1, HeadIs DEF Shape, G!Connect, G!Statement
<1>4. /\ Works' /\ Left(p)' = Left(p) \ {s} /\ (\A q \in G!Processes : Left(q)' \subseteq Left(q))
      /\ hand' \in [G!Processes -> SUBSET G!Nodes] /\ \A q \in G!Processes : hand'[q] = {} <=> work'[q] = <<>>
  BY <1>1, Goes
<1>5. \A q \in G!Processes : q # p => Left(q)' = Left(q) /\ work'[q] = work[q]
  BY <1>1, Goes
<1>6. awaiting' = awaiting /\ used' = used /\ muddled' = muddled /\ cuts' = cuts /\ \A y : Pending(y)' => Pending(y)
  BY <1>1, GoesOn
<1>7. \A t \in Left(p) : t.do \notin {"require", "unpromoted", "insert", "attend"}
  BY <1>1, Later
<1>8. \A c \in {a, b} : Doomed(c) => Muddled(c)
  BY <1>0, <1>1, <1>3, DoomedMet
<1>9. p = "engine" => \A t \in Left("engine") : ~Clears(t)
  <2>1. Sweeps(p)
    BY DEF GraphInv, Plans
  <2>q. QED BY <1>1, <1>3, <2>1 DEF Sweeps, Clears
<1> HIDE DEF s
<1>10. \A c \in {a, b} : ~Pending(c) /\ (c \in rows \/ Muddled(a) \/ Muddled(b))
  <2>1. s.x = a /\ s.y = b
    BY <1>0
  <2>2. \A c : ~Supported(p, c)
    BY <1>7 DEF Supported
  <2>q. QED BY <1>1, <1>3, <2>1, <2>2 DEF GraphInv, Supports, Ready
<1>11. G!TypeOK'
  BY <1>2, <1>3, <1>4, <1>6 DEF GraphInv, G!TypeOK
<1>12. Plans' /\ HandsApart'
  BY <1>1, <1>2, PlansKept DEF s
<1>13. Ids' /\ Waits'
  <2>1. IsFiniteSet(rows') /\ \A y \in G!Owned \intersect rows' : of[y] \in rows'
    BY <1>2 DEF GraphInv, Ids
  <2>2. ASSUME NEW y \in G!Nodes, Pending(y)' PROVE y \notin rows' /\ \A e \in made' : y \notin {e[1], e[2]}
    <3>1. Pending(y) /\ y \notin rows /\ \A e \in made : y \notin {e[1], e[2]}
      BY <1>6, <2>2 DEF GraphInv, Ids
    <3>2. y \notin {a, b}
      BY <1>10, <3>1
    <3>q. QED BY <1>2, <3>1, <3>2
  <2>3. awaiting.for = "copy" => awaiting.about \in rows' \union muddled
    BY <1>2 DEF GraphInv, Waits
  <2>q. QED BY <1>1, <1>2, <2>1, <2>2, <2>3, IdsKept
<1>14. Supports'
  BY <1>1, <1>2, SupportsKept DEF s
<1>15. \A t : t.do # "connect" => \A q \in G!Processes : t \in Left(q)' <=> t \in Left(q)
  BY <1>1, <1>4, <1>5
<1>16. \A y : Muddled(y)' <=> Muddled(y)
  BY <1>1, <1>2, Says
<1>17. \A e : Astray(e)' <=> Astray(e)
  BY <1>1, <1>2, Says
<1>18. \A y : Doomed(y)' <=> Doomed(y)
  BY <1>2, <1>15, TwoProcesses DEF Doomed, G!Delete, G!EmptyNotes, G!Statement
<1>19. Cleared'
  <2>1. ASSUME NEW e \in edges', NEW c \in {e[1], e[2]}, c \notin rows' \/ Doomed(c)'
        PROVE  Astray(e)' \/ G!Detach(c) \in Left("engine")'
    <3>1. CASE e \in edges
      <4>1. Astray(e) \/ G!Detach(c) \in Left("engine")
        BY <1>2, <1>18, <2>1, <3>1 DEF GraphInv, Cleared
      <4>q. QED BY <1>15, <1>17, <4>1, TwoProcesses DEF G!Detach, G!Statement
    <3>2. CASE e = <<a, b>>
      <4>1. Muddled(a) \/ Muddled(b)
        BY <1>2, <1>8, <1>10, <1>18, <2>1, <3>2
      <4>q. QED BY <1>17, <3>2, <4>1 DEF Astray
    <3>q. QED BY <1>2, <3>1, <3>2
  <2>q. QED BY <2>1 DEF Cleared
<1>20. Kept' /\ TicketsKept'
  BY <1>2, <1>16, <1>17, <1>18 DEF GraphInv, Kept, TicketsKept
<1>21. Mentioned'
  <2>1. ASSUME NEW m \in Meetings, NEW x \in People, <<m, x>> \in edges'
        PROVE  <<m, x>> \in attends' \/ m \notin rows' \/ x \notin rows'
    <3>1. CASE <<m, x>> \in edges
      BY <1>2, <3>1 DEF GraphInv, Mentioned
    <3>2. CASE m = a /\ x = b
      <4>1. Joins(p)
        BY DEF GraphInv, Plans
      <4>2. s.x = m /\ s.y = x
        BY <1>0, <3>2
      <4>3. G!Attend(m, x) \notin Left(p)
        BY <1>7 DEF G!Attend, G!Statement
      <4>q. QED BY <1>1, <1>2, <1>3, <4>1, <4>2, <4>3 DEF Joins
    <3>q. QED BY <1>2, <2>1, <3>1, <3>2
  <2>2. ASSUME NEW m \in Meetings, NEW x \in People, <<m, x>> \in attends'
        PROVE  \/ <<m, x>> \in edges' \/ Muddled(m)' \/ Muddled(x)' \/ Doomed(m)' \/ Doomed(x)'
               \/ (G!Connect(m, x) \in Left("engine")' /\ G!Attend(m, x) \notin Left("engine")')
    <3>1. \/ <<m, x>> \in edges \/ Muddled(m) \/ Muddled(x) \/ Doomed(m) \/ Doomed(x)
          \/ (G!Connect(m, x) \in Left("engine") /\ G!Attend(m, x) \notin Left("engine"))
      BY <1>2, <2>2 DEF GraphInv, Mentioned
    <3>2. s = G!Connect(m, x) => m = a /\ x = b
      BY <1>3 DEF G!Connect, G!Statement
    <3>q. QED BY <1>2, <1>4, <1>5, <1>16, <1>18, <3>1, <3>2, TwoProcesses
  <2>q. QED BY <2>1, <2>2 DEF Mentioned
<1>22. OnePromotion'
  <2>1. Joins(p)
    BY DEF GraphInv, Plans
  <2>2. ASSUME NEW i \in Items, ~(a = i /\ b \in Tickets) PROVE Promoted(i)' = Promoted(i)
    BY <1>2, <2>2 DEF Promoted
  <2>3. ASSUME a \in Items, b \in Tickets, ~Muddled(a)
        PROVE  /\ Promoted(a)' \subseteq {b}
               /\ \A q \in G!Processes, t \in Tickets : G!Connect(a, t) \notin Left(q)'
    <3>1. Promoted(a) = {}
      <4>1. G!Unpromoted(a) \notin Left(p)
        BY <1>7 DEF G!Unpromoted, G!Statement
      <4>2. G!Connect(a, b) \in Left(p)
        BY <1>3
      <4>q. QED BY <2>3, <4>1, <4>2 DEF GraphInv, OnePromotion
    <3>2. Promoted(a)' \subseteq {b}
      BY <1>2, <3>1 DEF Promoted
    <3>3. ASSUME NEW q \in G!Processes, NEW t \in Tickets, G!Connect(a, t) \in Left(q)' PROVE FALSE
      <4>1. G!Connect(a, t) \in Left(q)
        BY <1>4, <3>3
      <4>2. CASE q = p
        <5>1. G!Connect(a, t) = G!Connect(a, b)
          BY <1>3, <2>1, <2>3, <4>1, <4>2 DEF Joins, G!Connect, G!Statement
        <5>q. QED BY <1>3, <1>4, <3>3, <4>2, <5>1
      <4>3. CASE q # p
        <5>1. Handled(q, G!Connect(a, t)) /\ Handled(p, G!Connect(a, b))
          BY <1>3, <4>1 DEF GraphInv, Plans, Shaped
        <5>2. a \in hand[q] /\ a \in hand[p]
          BY <5>1 DEF Handled, G!Connect, G!Statement
        <5>3. a \in muddled
          BY <4>3, <5>2, TwoProcesses DEF GraphInv, HandsApart
        <5>q. QED BY <2>3, <5>3 DEF Muddled
      <4>q. QED BY <4>2, <4>3
    <3>q. QED BY <3>2, <3>3
  <2>4. \A i \in Items, q \in G!Processes : G!Unpromoted(i) \in Left(q)' =>
          Muddled(i)' \/ G!Require(i) \in Left(q)' \/ i \in rows'
    BY <1>2, <1>15, <1>16 DEF GraphInv, OnePromotion, G!Unpromoted, G!Require, G!Statement
  <2>5. ASSUME NEW i \in Items PROVE Muddled(i)' \/ \A t, u \in Promoted(i)' : t = u
    <3>1. Muddled(i) \/ \A t, u \in Promoted(i) : t = u
      BY DEF GraphInv, OnePromotion
    <3>q. QED BY <1>16, <2>2, <2>3, <3>1
  <2>6. ASSUME NEW i \in Items, NEW q \in G!Processes, NEW t \in Tickets, G!Connect(i, t) \in Left(q)'
        PROVE  Muddled(i)' \/ G!Unpromoted(i) \in Left(q)' \/ Promoted(i)' = {}
    <3>1. G!Connect(i, t) \in Left(q)
      BY <1>4, <2>6
    <3>2. Muddled(i) \/ G!Unpromoted(i) \in Left(q) \/ Promoted(i) = {}
      BY <3>1 DEF GraphInv, OnePromotion
    <3>3. G!Unpromoted(i) \in Left(q) => G!Unpromoted(i) \in Left(q)'
      BY <1>15 DEF G!Unpromoted, G!Statement
    <3>4. CASE a = i /\ b \in Tickets
      BY <1>16, <2>3, <2>6, <3>4
    <3>5. CASE ~(a = i /\ b \in Tickets)
      BY <1>16, <2>2, <3>2, <3>3, <3>5
    <3>q. QED BY <3>4, <3>5
  <2>q. QED BY <2>4, <2>5, <2>6 DEF OnePromotion
<1>23. Clearing'
  <2>1. \A c \in G!Nodes : G!Detach(c) \in Left("engine")' => Doomed(c)' \/ (c \notin rows' /\ ~Pending(c)')
    BY <1>2, <1>4, <1>6, <1>18, TwoProcesses DEF GraphInv, Clearing
  <2>2. ASSUME NEW t \in Tickets, G!Detach(t) \in Left("engine")'
        PROVE  Head(work'["engine"]) = G!Delete(t) \/ (t \notin rows' /\ G!Delete(t) \notin Left("engine")')
    <3>1. G!Detach(t) \in Left("engine")
      BY <1>4, <2>2, TwoProcesses
    <3>2. Head(work["engine"]) = G!Delete(t) \/ (t \notin rows /\ G!Delete(t) \notin Left("engine"))
      BY <3>1 DEF GraphInv, Clearing
    <3>3. p # "engine"
      BY <1>9, <3>1 DEF Clears, G!Detach, G!Statement
    <3>q. QED BY <1>2, <1>5, <3>2, <3>3, TwoProcesses
  <2>3. \A m \in Meetings : G!Purge(m) \in Left("engine")' => G!Require(m) \in Left("engine")' \/ m \in rows'
    BY <1>2, <1>15, TwoProcesses DEF GraphInv, Clearing, G!Purge, G!Require, G!Statement
  <2>4. Clean => Clean'
    <3>1. {a, b} \subseteq rows \/ Muddled(a) \/ Muddled(b)
      BY <1>10
    <3>2. Clean => \A e \in edges' : {e[1], e[2]} \subseteq rows' \/ Astray(e)'
      BY <1>2, <1>17, <3>1 DEF Clean, Astray
    <3>q. QED BY <1>2, <1>16, <1>17, <3>2 DEF Clean
  <2>5. (\E t \in Left("engine")' : Clears(t)) /\ (\E t \in Left("engine")' : t.do = "require" \/ (t.do = "delete" /\ t.x \notin rows'))
          => Clean'
    BY <1>2, <1>4, <2>4, TwoProcesses DEF GraphInv, Clearing
  <2>q. QED BY <2>1, <2>2, <2>3, <2>5 DEF Clearing, Clears
<1>q. QED BY <1>4, <1>11, <1>12, <1>13, <1>14, <1>19, <1>20, <1>21, <1>22, <1>23 DEF GraphInv

LEMMA DeleteEdgesKept == ASSUME GraphInv, NEW p \in G!Processes, G!DeleteEdges(p) PROVE GraphInv'
<1> DEFINE s == Head(work[p])
<1>0. PICK d : d = s.x
  OBVIOUS
<1>1. work[p] # <<>> /\ s.do = "detach" /\ G!GoOn(p, Tail(work[p]))
  BY DEF G!DeleteEdges, G!Doing
<1>2. /\ rows' = rows /\ of' = of /\ trashed' = trashed /\ edges' = edges \ G!Touching(d) /\ attends' = attends
      /\ made' = made
  BY <1>0 DEF G!DeleteEdges
<1>3. s \in Left(p) /\ s = G!Detach(d) /\ d \in G!Nodes
  BY <1>0, <1>1, HeadIs DEF Shape, G!Detach, G!Statement
<1>4. /\ Works' /\ Left(p)' = Left(p) \ {s} /\ (\A q \in G!Processes : Left(q)' \subseteq Left(q))
      /\ hand' \in [G!Processes -> SUBSET G!Nodes] /\ \A q \in G!Processes : hand'[q] = {} <=> work'[q] = <<>>
  BY <1>1, Goes
<1>5. \A q \in G!Processes : q # p => Left(q)' = Left(q) /\ work'[q] = work[q]
  BY <1>1, Goes
<1>6. awaiting' = awaiting /\ used' = used /\ muddled' = muddled /\ cuts' = cuts /\ \A y : Pending(y)' => Pending(y)
  BY <1>1, GoesOn
<1>7. p = "engine"
  <2>1. Sweeps(p)
    BY DEF GraphInv, Plans
  <2>q. QED BY <1>1, <1>3, <2>1, TwoProcesses DEF Sweeps, Clears
<1>8. \A t \in Left(p) : t.do # "require" /\ (t.do = "delete" => t = G!Delete(t.x))
  <2>1. \A t \in Left(p) : Shape(t) /\ t.do # "require" /\ t = G!Statement(t.do, t.x, t.y)
    BY <1>1, Later DEF GraphInv, Plans, Shaped
  <2>q. QED BY <2>1 DEF Shape, G!Delete
<1>9. \A e \in edges : d \notin {e[1], e[2]} => e \in edges'
  BY <1>2 DEF G!Touching
<1> HIDE DEF s
<1>10. G!TypeOK'
  BY <1>2, <1>3, <1>4, <1>6 DEF GraphInv, G!TypeOK
<1>11. Plans' /\ HandsApart'
  BY <1>1, <1>2, PlansKept DEF s
<1>12. Ids' /\ Waits'
  <2>1. /\ IsFiniteSet(rows') /\ \A y \in G!Owned \intersect rows' : of[y] \in rows'
        /\ \A y \in G!Nodes : Pending(y)' => y \notin rows' /\ \A e \in made' : y \notin {e[1], e[2]}
    BY <1>2, <1>6 DEF GraphInv, Ids
  <2>2. awaiting.for = "copy" => awaiting.about \in rows' \union muddled
    BY <1>2 DEF GraphInv, Waits
  <2>q. QED BY <1>1, <1>2, <2>1, <2>2, IdsKept
<1>13. Supports'
  BY <1>1, <1>2, SupportsKept DEF s
<1>14. \A t : t.do # "detach" => \A q \in G!Processes : t \in Left(q)' <=> t \in Left(q)
  BY <1>1, <1>4, <1>5
<1>15. \A y : Muddled(y)' <=> Muddled(y)
  BY <1>1, <1>2, Says
<1>16. \A e : Astray(e)' <=> Astray(e)
  BY <1>1, <1>2, Says
<1>17. \A y : Doomed(y)' <=> Doomed(y)
  BY <1>2, <1>14, TwoProcesses DEF Doomed, G!Delete, G!EmptyNotes, G!Statement
<1>18. d \in rows => Doomed(d)
  BY <1>3, <1>7 DEF GraphInv, Clearing
<1>19. Cleared'
  <2>1. ASSUME NEW e \in edges', NEW c \in {e[1], e[2]}, c \notin rows' \/ Doomed(c)'
        PROVE  Astray(e)' \/ G!Detach(c) \in Left("engine")'
    <3>1. e \in edges /\ d \notin {e[1], e[2]}
      BY <1>2, <2>1 DEF G!Touching
    <3>2. Astray(e) \/ G!Detach(c) \in Left("engine")
      BY <1>2, <1>17, <2>1, <3>1 DEF GraphInv, Cleared
    <3>3. G!Detach(c) # s
      BY <1>3, <2>1, <3>1 DEF G!Detach, G!Statement
    <3>q. QED BY <1>4, <1>7, <1>16, <3>2, <3>3
  <2>q. QED BY <2>1 DEF Cleared
<1>20. Kept'
  <2>1. ASSUME NEW e \in made, {e[1], e[2]} \subseteq rows
        PROVE  e \in edges' \/ Astray(e) \/ Doomed(e[1]) \/ Doomed(e[2])
    BY <1>9, <1>18, <2>1 DEF GraphInv, Kept
  <2>q. QED BY <1>2, <1>16, <1>17, <2>1 DEF Kept
<1>21. TicketsKept'
  <2>1. ASSUME NEW i \in Items \intersect rows, NEW t \in Tickets \intersect rows, <<i, t>> \in made
        PROVE  <<i, t>> \in edges' \/ Muddled(i) \/ Doomed(i)
    <3>1. <<i, t>> \in edges \/ Muddled(i) \/ Doomed(i)
      BY <2>1 DEF GraphInv, TicketsKept
    <3>2. d # t
      <4>1. SUFFICES ASSUME d = t PROVE FALSE
        OBVIOUS
      <4>2. Head(work["engine"]) = G!Delete(t)
        BY <1>3, <1>7, <4>1 DEF GraphInv, Clearing
      <4>q. QED BY <1>1, <1>7, <4>2 DEF s, G!Delete, G!Statement
    <3>q. QED BY <1>9, <1>18, <3>1, <3>2
  <2>q. QED BY <1>2, <1>15, <1>17, <2>1 DEF TicketsKept
<1>22. Mentioned'
  <2>1. \A m \in Meetings, x \in People : <<m, x>> \in edges' =>
          <<m, x>> \in attends' \/ m \notin rows' \/ x \notin rows'
    BY <1>2 DEF GraphInv, Mentioned
  <2>2. ASSUME NEW m \in Meetings, NEW x \in People, <<m, x>> \in attends'
        PROVE  \/ <<m, x>> \in edges' \/ Muddled(m)' \/ Muddled(x)' \/ Doomed(m)' \/ Doomed(x)'
               \/ (G!Connect(m, x) \in Left("engine")' /\ G!Attend(m, x) \notin Left("engine")')
    <3>1. \/ <<m, x>> \in edges \/ Muddled(m) \/ Muddled(x) \/ Doomed(m) \/ Doomed(x)
          \/ (G!Connect(m, x) \in Left("engine") /\ G!Attend(m, x) \notin Left("engine"))
      BY <1>2, <2>2 DEF GraphInv, Mentioned
    <3>2. m \in rows /\ x \in rows
      BY <1>2, <2>2 DEF GraphInv, G!TypeOK
    <3>3. <<m, x>> \in edges => <<m, x>> \in edges' \/ Doomed(m) \/ Doomed(x)
      BY <1>9, <1>18, <3>2
    <3>4. G!Connect(m, x) \in Left("engine") /\ G!Attend(m, x) \notin Left("engine")
            => G!Connect(m, x) \in Left("engine")' /\ G!Attend(m, x) \notin Left("engine")'
      BY <1>14, TwoProcesses DEF G!Connect, G!Attend, G!Statement
    <3>q. QED BY <1>15, <1>17, <3>1, <3>3, <3>4
  <2>q. QED BY <2>1, <2>2 DEF Mentioned
<1>23. OnePromotion'
  <2>1. \A i : Promoted(i)' = Promoted(i)
    BY <1>2 DEF Promoted
  <2>q. QED BY <1>2, <1>14, <1>15, <2>1 DEF GraphInv, OnePromotion, G!Connect, G!Unpromoted, G!Require, G!Statement
<1>24. Clearing'
  <2>1. \A c \in G!Nodes : G!Detach(c) \in Left("engine")' => Doomed(c)' \/ (c \notin rows' /\ ~Pending(c)')
    BY <1>2, <1>4, <1>6, <1>17, TwoProcesses DEF GraphInv, Clearing
  <2>2. ASSUME NEW t \in Tickets, G!Detach(t) \in Left("engine")'
        PROVE  t \notin rows' /\ G!Delete(t) \notin Left("engine")'
    <3>1. G!Detach(t) \in Left("engine")
      BY <1>4, <2>2, TwoProcesses
    <3>2. Head(work["engine"]) # G!Delete(t)
      BY <1>1, <1>7 DEF s, G!Delete, G!Statement
    <3>3. t \notin rows /\ G!Delete(t) \notin Left("engine")
      BY <3>1, <3>2 DEF GraphInv, Clearing
    <3>q. QED BY <1>2, <1>4, <3>3, TwoProcesses
  <2>3. \A m \in Meetings : G!Purge(m) \in Left("engine")' => G!Require(m) \in Left("engine")' \/ m \in rows'
    BY <1>2, <1>14, TwoProcesses DEF GraphInv, Clearing, G!Purge, G!Require, G!Statement
  <2>4. ASSUME NEW t \in Left("engine")', t.do = "require" \/ (t.do = "delete" /\ t.x \notin rows') PROVE Clean'
    <3>1. t \in Left("engine") /\ t = G!Delete(t.x) /\ t.do = "delete" /\ t.x \notin rows
      BY <1>2, <1>4, <1>7, <1>8, <2>4
    <3>2. Clean
      BY <1>1, <1>3, <1>7, <3>1 DEF GraphInv, Clearing, Clears
    <3>3. d \notin rows
      <4>1. SUFFICES ASSUME d \in rows PROVE FALSE
        OBVIOUS
      <4>2. Sweeps("engine")
        BY TwoProcesses DEF GraphInv, Plans
      <4>3. \A y : G!Delete(y) \in Left("engine") => y = t.x
        BY <3>1, <4>2 DEF Sweeps, G!Delete, G!Statement
      <4>4. CASE G!Delete(d) \in Left("engine")
        BY <3>1, <4>1, <4>3, <4>4
      <4>5. CASE d \in G!Owned /\ G!Delete(of[d]) \in Left("engine")
        BY <3>1, <4>1, <4>3, <4>5 DEF GraphInv, Ids
      <4>6. CASE d \in trashed \intersect Notes /\ G!EmptyNotes \in Left("engine")
        <5>1. s \in Left("engine") /\ s.do = "detach" /\ s.x = d
          BY <1>0, <1>1, <1>3, <1>7
        <5>q. QED BY <3>1, <4>2, <4>6, <5>1 DEF Sweeps
      <4>q. QED BY <1>18, <4>1, <4>4, <4>5, <4>6 DEF Doomed
    <3>4. \A e \in made' : {e[1], e[2]} \subseteq rows' => e \in edges' \/ Astray(e)'
      BY <1>2, <1>9, <1>16, <3>2, <3>3 DEF Clean
    <3>5. \A i \in Items \intersect rows', u \in Tickets \intersect rows' : <<i, u>> \in made' =>
            <<i, u>> \in edges' \/ Muddled(i)'
      BY <1>2, <1>9, <1>15, <3>2, <3>3 DEF Clean
    <3>6. \A m \in Meetings, x \in People : <<m, x>> \in attends' => <<m, x>> \in edges' \/ Muddled(m)' \/ Muddled(x)'
      <4>1. \A m \in Meetings, x \in People : <<m, x>> \in attends => m \in rows /\ x \in rows
        BY DEF GraphInv, G!TypeOK
      <4>q. QED BY <1>2, <1>9, <1>15, <3>2, <3>3, <4>1 DEF Clean
    <3>7. \A e \in edges' : {e[1], e[2]} \subseteq rows' \/ Astray(e)'
      BY <1>2, <1>16, <3>2 DEF Clean
    <3>q. QED BY <3>4, <3>5, <3>6, <3>7 DEF Clean
  <2>q. QED BY <2>1, <2>2, <2>3, <2>4 DEF Clearing, Clears
<1>q. QED BY <1>4, <1>10, <1>11, <1>12, <1>13, <1>19, <1>20, <1>21, <1>22, <1>23, <1>24 DEF GraphInv

LEMMA InsertParticipantKept == ASSUME GraphInv, NEW p \in G!Processes, G!InsertParticipant(p) PROVE GraphInv'
<1> DEFINE s == Head(work[p])
<1>0. PICK m, x : m = s.x /\ x = s.y
  OBVIOUS
<1>1. work[p] # <<>> /\ s.do = "attend" /\ {m, x} \subseteq rows /\ G!GoOn(p, Tail(work[p]))
  BY <1>0 DEF G!InsertParticipant, G!Doing
<1>2. /\ rows' = rows /\ of' = of /\ trashed' = trashed /\ edges' = edges /\ attends' = attends \union {<<m, x>>}
      /\ made' = made
  BY <1>0 DEF G!InsertParticipant
<1>3. s \in Left(p) /\ s = G!Attend(m, x) /\ m \in Meetings /\ x \in People
  BY <1>0, <1>1, HeadIs DEF Shape, G!Attend, G!Statement
<1>4. /\ Works' /\ Left(p)' = Left(p) \ {s} /\ (\A q \in G!Processes : Left(q)' \subseteq Left(q))
      /\ hand' \in [G!Processes -> SUBSET G!Nodes] /\ \A q \in G!Processes : hand'[q] = {} <=> work'[q] = <<>>
  BY <1>1, Goes
<1>5. \A q \in G!Processes : q # p => Left(q)' = Left(q) /\ work'[q] = work[q]
  BY <1>1, Goes
<1>6. awaiting' = awaiting /\ used' = used /\ muddled' = muddled /\ cuts' = cuts /\ \A y : Pending(y)' => Pending(y)
  BY <1>1, GoesOn
<1>7. p = "engine" /\ \A t \in Left("engine") : ~Clears(t)
  <2>1. Sweeps(p)
    BY DEF GraphInv, Plans
  <2>q. QED BY <1>1, <1>3, <2>1, TwoProcesses DEF Sweeps, Clears
<1> HIDE DEF s
<1>8. G!TypeOK'
  BY <1>1, <1>2, <1>3, <1>4, <1>6 DEF GraphInv, G!TypeOK
<1>9. Plans' /\ HandsApart'
  BY <1>0, <1>1, <1>2, PlansKept DEF s
<1>10. Ids' /\ Waits'
  <2>1. /\ IsFiniteSet(rows') /\ \A y \in G!Owned \intersect rows' : of[y] \in rows'
        /\ \A y \in G!Nodes : Pending(y)' => y \notin rows' /\ \A e \in made' : y \notin {e[1], e[2]}
    BY <1>2, <1>6 DEF GraphInv, Ids
  <2>2. awaiting.for = "copy" => awaiting.about \in rows' \union muddled
    BY <1>2 DEF GraphInv, Waits
  <2>q. QED BY <1>1, <1>2, <2>1, <2>2, IdsKept
<1>11. Supports'
  BY <1>1, <1>2, SupportsKept DEF s
<1>12. \A t : t.do # "attend" => \A q \in G!Processes : t \in Left(q)' <=> t \in Left(q)
  BY <1>1, <1>4, <1>5
<1>13. \A y : Muddled(y)' <=> Muddled(y)
  BY <1>1, <1>2, Says
<1>14. \A e : Astray(e)' <=> Astray(e)
  BY <1>1, <1>2, Says
<1>15. \A y : Doomed(y)' <=> Doomed(y)
  BY <1>2, <1>12, TwoProcesses DEF Doomed, G!Delete, G!EmptyNotes, G!Statement
<1>16. Cleared' /\ Kept' /\ TicketsKept'
  BY <1>2, <1>12, <1>13, <1>14, <1>15, TwoProcesses DEF GraphInv, Cleared, Kept, TicketsKept, G!Detach, G!Statement
<1>17. Mentioned'
  <2>1. \A n \in Meetings, y \in People : <<n, y>> \in edges' =>
          <<n, y>> \in attends' \/ n \notin rows' \/ y \notin rows'
    BY <1>2 DEF GraphInv, Mentioned
  <2>2. ASSUME NEW n \in Meetings, NEW y \in People, <<n, y>> \in attends'
        PROVE  \/ <<n, y>> \in edges' \/ Muddled(n)' \/ Muddled(y)' \/ Doomed(n)' \/ Doomed(y)'
               \/ (G!Connect(n, y) \in Left("engine")' /\ G!Attend(n, y) \notin Left("engine")')
    <3>1. CASE <<n, y>> \in attends
      <4>1. \/ <<n, y>> \in edges \/ Muddled(n) \/ Muddled(y) \/ Doomed(n) \/ Doomed(y)
            \/ (G!Connect(n, y) \in Left("engine") /\ G!Attend(n, y) \notin Left("engine"))
        BY <3>1 DEF GraphInv, Mentioned
      <4>2. G!Connect(n, y) \in Left("engine") => G!Connect(n, y) \in Left("engine")'
        BY <1>12, TwoProcesses DEF G!Connect, G!Statement
      <4>q. QED BY <1>2, <1>4, <1>13, <1>15, <4>1, <4>2, TwoProcesses
    <3>2. CASE n = m /\ y = x
      <4>1. Joins(p)
        BY DEF GraphInv, Plans
      <4>2. G!Connect(m, x) \in Left(p)
        BY <1>0, <1>1, <1>3, <4>1 DEF Joins
      <4>3. G!Connect(m, x) \in Left(p)'
        BY <1>12, <4>2 DEF G!Connect, G!Statement
      <4>4. G!Attend(m, x) \notin Left(p)'
        BY <1>3, <1>4
      <4>q. QED BY <1>7, <3>2, <4>3, <4>4
    <3>q. QED BY <1>2, <2>2, <3>1, <3>2
  <2>q. QED BY <2>1, <2>2 DEF Mentioned
<1>18. OnePromotion'
  <2>1. \A i : Promoted(i)' = Promoted(i)
    BY <1>2 DEF Promoted
  <2>q. QED BY <1>2, <1>12, <1>13, <2>1 DEF GraphInv, OnePromotion, G!Connect, G!Unpromoted, G!Require, G!Statement
<1>19. Clearing'
  BY <1>4, <1>7, TwoProcesses DEF Clearing, Clears, G!Detach, G!Purge, G!Statement
<1>q. QED BY <1>4, <1>8, <1>9, <1>10, <1>11, <1>16, <1>17, <1>18, <1>19 DEF GraphInv

\* A row that goes takes those it owns: all were doomed.
LEMMA DeleteRowKept == ASSUME GraphInv, NEW p \in G!Processes, G!DeleteRow(p) PROVE GraphInv'
<1> DEFINE s == Head(work[p])
<1>0. PICK d : d = s.x
  OBVIOUS
<1>1. work[p] # <<>> /\ s.do = "delete" /\ d \in rows /\ G!GoOn(p, Tail(work[p]))
  BY <1>0 DEF G!DeleteRow, G!Doing
<1>2. of' = of /\ edges' = edges /\ made' = made /\ G!Gone({d})
  BY <1>0 DEF G!DeleteRow
<1>3. s \in Left(p) /\ s = G!Delete(d) /\ d \in G!Nodes /\ Handled(p, s)
  BY <1>0, <1>1, HeadIs DEF Shape, G!Delete, G!Statement
<1>4. /\ Works' /\ Left(p)' = Left(p) \ {s} /\ (\A q \in G!Processes : Left(q)' \subseteq Left(q))
      /\ hand' \in [G!Processes -> SUBSET G!Nodes] /\ \A q \in G!Processes : hand'[q] = {} <=> work'[q] = <<>>
  BY <1>1, Goes
<1>5. \A q \in G!Processes : q # p => Left(q)' = Left(q) /\ work'[q] = work[q]
  BY <1>1, Goes
<1>6. awaiting' = awaiting /\ used' = used /\ muddled' = muddled /\ cuts' = cuts /\ \A y : Pending(y)' => Pending(y)
  BY <1>1, GoesOn
<1>7. Sweeps(p) /\ p = "engine"
  <2>1. Sweeps(p)
    BY DEF GraphInv, Plans
  <2>q. QED BY <1>1, <1>3, <2>1, TwoProcesses DEF Sweeps, Clears
<1>8. \A t \in Left(p) : t.do = "detach" => Left(p) = {s, G!Detach(d)}
  BY <1>0, <1>1, Later
<1>9. \A t \in Left(p) : t.do # "require" /\ (t.do = "delete" => t = s)
  BY <1>1, <1>3, <1>7, Later DEF Sweeps
<1> HIDE DEF s
<1>10. /\ rows' \subseteq rows /\ d \notin rows'
       /\ \A y \in rows : y \in rows' \/ y = d \/ (y \in G!Owned /\ d \in Meetings /\ of[y] = d)
       /\ \A y \in G!Owned : y \in rows' => of[y] # d \/ d \notin Meetings
  BY <1>2 DEF G!Gone, G!OwnedBy
<1>11. trashed' = trashed \ {d} /\ attends' = {a \in attends : a[1] # d /\ a[2] # d}
  BY <1>2 DEF G!Gone
<1>12. G!TypeOK'
  <2>1. trashed' \subseteq rows' \intersect (Meetings \union Notes)
    BY <1>10, <1>11, Kinds DEF GraphInv, G!TypeOK
  <2>2. attends' \subseteq (Meetings \intersect rows') \X (People \intersect rows')
    BY <1>10, <1>11, Kinds DEF GraphInv, G!TypeOK
  <2>3. rows' \subseteq G!Nodes
    BY <1>10 DEF GraphInv, G!TypeOK
  <2>q. QED BY <1>2, <1>4, <1>6, <2>1, <2>2, <2>3 DEF GraphInv, G!TypeOK
<1>13. trashed' \subseteq trashed /\ s.do # "attend" /\ s.do \notin {"require", "insert"} /\ \E t \in Left("engine") : Clears(t)
  BY <1>1, <1>3, <1>7, <1>11 DEF s, Clears
<1>14. Plans' /\ HandsApart'
  BY <1>1, <1>2, <1>13, PlansKept DEF s
<1>15. Ids' /\ Waits'
  <2>1. IsFiniteSet(rows')
    BY <1>10, FS_Subset DEF GraphInv, Ids
  <2>2. \A y \in G!Nodes : Pending(y)' => y \notin rows' /\ \A e \in made' : y \notin {e[1], e[2]}
    BY <1>2, <1>6, <1>10 DEF GraphInv, Ids
  <2>3. ASSUME NEW y \in G!Owned \intersect rows' PROVE of[y] \in rows'
    <3>1. y \in rows /\ y \in used
      BY <1>10, Kinds DEF GraphInv, Ids, Pending
    <3>2. of[y] \in rows /\ of[y] \in Meetings
      BY <3>1 DEF GraphInv, Ids
    <3>q. QED BY <1>10, <3>1, <3>2, Kinds
  <2>4. ASSUME awaiting.for = "copy" PROVE awaiting.about \in rows' \union muddled
    <3>1. awaiting.about \in Meetings /\ awaiting.about \in rows \union muddled
      BY <2>4 DEF GraphInv, Waits, G!Nothing
    <3>2. d \in hand["engine"]
      BY <1>3, <1>7 DEF Handled, G!Delete, G!Statement
    <3>3. awaiting.about = d => d \in muddled
      BY <2>4, <3>2 DEF GraphInv, HandsApart
    <3>q. QED BY <1>10, <3>1, <3>3, Kinds
  <2>q. QED BY <1>1, <1>2, <2>1, <2>2, <2>3, <2>4, IdsKept
<1>16. \A y \in rows : y \in rows' \/ Doomed(y)
  <2>1. G!Delete(d) \in Left("engine")
    BY <1>3, <1>7
  <2>q. QED BY <1>10, <2>1 DEF Doomed
<1>17. Supports'
  <2>1. ASSUME NEW q \in G!Processes, NEW t \in Left(q), t.do = "connect", NEW c \in {t.x, t.y}, c \in rows
        PROVE  c \in rows' \/ Muddled(t.x) \/ Muddled(t.y)
    <3>1. CASE Doomed(c)
      BY <2>1, <3>1, DoomedMet
    <3>q. QED BY <1>16, <2>1, <3>1
  <2>q. QED BY <1>1, <1>2, <1>13, <2>1, SupportsKept DEF s
<1>18. \A t : t # s => \A q \in G!Processes : t \in Left(q)' <=> t \in Left(q)
  BY <1>1, <1>4, <1>5
<1>19. \A y : Muddled(y)' <=> Muddled(y)
  BY <1>1, <1>2, <1>13, Says
<1>20. \A e : Astray(e)' <=> Astray(e)
  BY <1>1, <1>2, <1>13, Says
<1>21. \A y : Doomed(y)' => Doomed(y)
  BY <1>1, <1>2, <1>13, Says
<1>22. ASSUME NEW y \in rows', Doomed(y) PROVE Doomed(y)'
  <2>1. \A z : G!Delete(z) \in Left("engine") => z = d
    BY <1>3, <1>7, <1>9 DEF G!Delete, G!Statement
  <2>2. ~(G!Delete(y) \in Left("engine"))
    BY <1>10, <2>1
  <2>3. ~(y \in G!Owned /\ G!Delete(of[y]) \in Left("engine"))
    <3>1. SUFFICES ASSUME y \in G!Owned, of[y] = d PROVE FALSE
      BY <2>1
    <3>2. y \in used
      BY <1>10, <3>1, Kinds DEF GraphInv, Ids, Pending
    <3>3. of[y] \in Meetings
      BY <3>1, <3>2 DEF GraphInv, Ids
    <3>q. QED BY <1>10, <3>1, <3>3
  <2>4. y \in trashed \intersect Notes /\ G!EmptyNotes \in Left("engine")
    BY <1>22, <2>2, <2>3 DEF Doomed
  <2>5. G!EmptyNotes \in Left("engine")'
    BY <1>18, <1>3, <2>4, TwoProcesses DEF G!EmptyNotes, G!Delete, G!Statement
  <2>q. QED BY <1>10, <1>11, <2>4, <2>5 DEF Doomed
<1>23. Cleared'
  <2>1. ASSUME NEW e \in edges', NEW c \in {e[1], e[2]}, c \notin rows' \/ Doomed(c)'
        PROVE  Astray(e)' \/ G!Detach(c) \in Left("engine")'
    <3>1. c \notin rows \/ Doomed(c)
      BY <1>16, <1>21, <2>1
    <3>2. Astray(e) \/ G!Detach(c) \in Left("engine")
      BY <1>2, <2>1, <3>1 DEF GraphInv, Cleared
    <3>q. QED BY <1>3, <1>18, <1>20, <3>2, TwoProcesses DEF G!Detach, G!Delete, G!Statement
  <2>q. QED BY <2>1 DEF Cleared
<1>24. Kept' /\ TicketsKept'
  <2>1. ASSUME NEW e \in made, {e[1], e[2]} \subseteq rows'
        PROVE  e \in edges \/ Astray(e) \/ Doomed(e[1])' \/ Doomed(e[2])'
    BY <1>10, <1>22, <2>1 DEF GraphInv, Kept
  <2>2. ASSUME NEW i \in Items \intersect rows', NEW t \in Tickets \intersect rows', <<i, t>> \in made
        PROVE  <<i, t>> \in edges \/ Muddled(i) \/ Doomed(i)'
    BY <1>10, <1>22, <2>2 DEF GraphInv, TicketsKept
  <2>q. QED BY <1>2, <1>19, <1>20, <2>1, <2>2 DEF Kept, TicketsKept
<1>25. Mentioned'
  <2>1. ASSUME NEW m \in Meetings, NEW x \in People, <<m, x>> \in edges'
        PROVE  <<m, x>> \in attends' \/ m \notin rows' \/ x \notin rows'
    <3>1. <<m, x>> \in attends \/ m \notin rows \/ x \notin rows
      BY <1>2, <2>1 DEF GraphInv, Mentioned
    <3>2. <<m, x>> \in attends => <<m, x>> \in attends' \/ m = d \/ x = d
      BY <1>11
    <3>q. QED BY <1>10, <3>1, <3>2
  <2>2. ASSUME NEW m \in Meetings, NEW x \in People, <<m, x>> \in attends'
        PROVE  \/ <<m, x>> \in edges' \/ Muddled(m)' \/ Muddled(x)' \/ Doomed(m)' \/ Doomed(x)'
               \/ (G!Connect(m, x) \in Left("engine")' /\ G!Attend(m, x) \notin Left("engine")')
    <3>1. \/ <<m, x>> \in edges \/ Muddled(m) \/ Muddled(x) \/ Doomed(m) \/ Doomed(x)
          \/ (G!Connect(m, x) \in Left("engine") /\ G!Attend(m, x) \notin Left("engine"))
      BY <1>11, <2>2 DEF GraphInv, Mentioned
    <3>2. m \in rows' /\ x \in rows'
      BY <1>12, <2>2 DEF G!TypeOK
    <3>3. G!Connect(m, x) \in Left("engine") => G!Connect(m, x) \in Left("engine")'
      BY <1>3, <1>18, TwoProcesses DEF G!Connect, G!Delete, G!Statement
    <3>q. QED BY <1>2, <1>4, <1>19, <1>22, <3>1, <3>2, <3>3, TwoProcesses
  <2>q. QED BY <2>1, <2>2 DEF Mentioned
<1>26. OnePromotion'
  <2>1. \A i : Promoted(i)' \subseteq Promoted(i)
    BY <1>2, <1>10 DEF Promoted
  <2>2. \A i \in Items : Muddled(i)' \/ \A t, u \in Promoted(i)' : t = u
    BY <1>19, <2>1 DEF GraphInv, OnePromotion
  <2>3. ASSUME NEW i \in Items, NEW q \in G!Processes, NEW t \in Tickets, G!Connect(i, t) \in Left(q)'
        PROVE  Muddled(i)' \/ G!Unpromoted(i) \in Left(q)' \/ Promoted(i)' = {}
    <3>1. Muddled(i) \/ G!Unpromoted(i) \in Left(q) \/ Promoted(i) = {}
      BY <1>4, <2>3 DEF GraphInv, OnePromotion
    <3>q. QED BY <1>3, <1>18, <1>19, <2>1, <3>1 DEF G!Unpromoted, G!Delete, G!Statement
  <2>4. ASSUME NEW i \in Items, NEW q \in G!Processes, G!Unpromoted(i) \in Left(q)'
        PROVE  Muddled(i)' \/ G!Require(i) \in Left(q)' \/ i \in rows'
    <3>1. G!Unpromoted(i) \in Left(q) /\ (Muddled(i) \/ G!Require(i) \in Left(q) \/ i \in rows)
      BY <1>4, <2>4 DEF GraphInv, OnePromotion
    <3>2. Doomed(i) => Muddled(i)
      BY <3>1, DoomedMet DEF G!Unpromoted, G!Statement
    <3>q. QED BY <1>3, <1>16, <1>18, <1>19, <3>1, <3>2 DEF G!Require, G!Delete, G!Statement
  <2>q. QED BY <2>2, <2>3, <2>4 DEF OnePromotion
<1>27. Clearing'
  <2>1. ASSUME NEW c \in G!Nodes, G!Detach(c) \in Left("engine")'
        PROVE  c = d /\ c \notin rows' /\ ~Pending(c)' /\ G!Delete(c) \notin Left("engine")'
    <3>1. G!Detach(c) \in Left(p)
      BY <1>4, <1>7, <2>1
    <3>2. Left(p) = {s, G!Detach(d)}
      BY <1>8, <3>1 DEF G!Detach, G!Statement
    <3>3. c = d
      BY <1>3, <3>1, <3>2 DEF G!Detach, G!Delete, G!Statement
    <3>4. ~Pending(d)
      BY <1>1, <1>3 DEF GraphInv, Ids
    <3>5. G!Delete(d) \notin Left("engine")'
      BY <1>3, <1>4, <1>7
    <3>q. QED BY <1>6, <1>10, <3>3, <3>4, <3>5
  <2>2. ASSUME NEW m \in Meetings, G!Purge(m) \in Left("engine")' PROVE G!Require(m) \in Left("engine")' \/ m \in rows'
    <3>1. G!Purge(m) \in Left("engine")
      BY <1>4, <1>7, <2>2
    <3>2. G!Require(m) \in Left("engine") \/ m \in rows
      BY <3>1 DEF GraphInv, Clearing
    <3>3. m # d
      <4>1. /\ G!Purge(m).do = "purge" /\ G!Purge(m).x = m /\ s.x = d /\ s \in Left("engine")
            /\ G!Purge(m) \in Left("engine")
        BY <1>0, <1>3, <1>7, <3>1 DEF G!Purge, G!Statement
      <4>2. s.do = "delete"
        BY <1>1 DEF s
      <4>q. QED BY <1>7, <4>1, <4>2 DEF Sweeps
    <3>4. m \in rows => m \in rows'
      BY <1>10, <3>3, Kinds
    <3>5. G!Require(m) \in Left("engine") => G!Require(m) \in Left("engine")'
      BY <1>3, <1>18, TwoProcesses DEF G!Require, G!Delete, G!Statement
    <3>q. QED BY <3>2, <3>4, <3>5
  <2>3. \A t \in Left("engine")' : t.do # "require" /\ t.do # "delete"
    BY <1>4, <1>7, <1>9
  <2>q. QED BY <2>1, <2>2, <2>3, Kinds DEF Clearing, Clears
<1>q. QED BY <1>4, <1>12, <1>14, <1>15, <1>17, <1>23, <1>24, <1>25, <1>26, <1>27 DEF GraphInv

LEMMA DeleteTrashedNotesKept == ASSUME GraphInv, NEW p \in G!Processes, G!DeleteTrashedNotes(p) PROVE GraphInv'
<1> DEFINE s == Head(work[p])
           gone == trashed \intersect Notes
<1>1. work[p] # <<>> /\ s.do = "empty notes" /\ G!GoOn(p, Tail(work[p]))
  BY DEF G!DeleteTrashedNotes, G!Doing
<1>2. of' = of /\ edges' = edges /\ made' = made /\ G!Gone(gone)
  BY DEF G!DeleteTrashedNotes
<1>3. s \in Left(p) /\ s = G!EmptyNotes
  BY <1>1, HeadIs DEF Shape, G!EmptyNotes, G!Statement
<1>4. /\ Works' /\ Left(p)' = Left(p) \ {s} /\ (\A q \in G!Processes : Left(q)' \subseteq Left(q))
      /\ hand' \in [G!Processes -> SUBSET G!Nodes] /\ \A q \in G!Processes : hand'[q] = {} <=> work'[q] = <<>>
  BY <1>1, Goes
<1>5. \A q \in G!Processes : q # p => Left(q)' = Left(q) /\ work'[q] = work[q]
  BY <1>1, Goes
<1>6. awaiting' = awaiting /\ used' = used /\ muddled' = muddled /\ cuts' = cuts /\ \A y : Pending(y)' => Pending(y)
  BY <1>1, GoesOn
<1>7. Sweeps(p) /\ p = "engine"
  <2>1. Sweeps(p)
    BY DEF GraphInv, Plans
  <2>q. QED BY <1>1, <1>3, <2>1, TwoProcesses DEF Sweeps, Clears
<1>8. Left(p) = {s}
  <2>1. ASSUME NEW t \in Left(p) PROVE t = s
    <3>1. t.do = "empty notes" /\ t = G!Statement(t.do, t.x, t.y)
      BY <1>1, Later
    <3>2. Shape(t)
      BY DEF GraphInv, Plans, Shaped
    <3>q. QED BY <1>3, <3>1, <3>2 DEF Shape, G!EmptyNotes
  <2>q. QED BY <1>3, <2>1
<1>9. Left("engine")' = {}
  BY <1>4, <1>7, <1>8
<1>28. \A u \in Left("engine") : u.do = "empty notes"
  BY <1>1, <1>7, <1>8
<1>29. G!EmptyNotes.do = "empty notes" /\ G!EmptyNotes \in Left("engine")
  BY <1>3, <1>7 DEF G!EmptyNotes, G!Statement
<1> HIDE DEF s
<1>10. /\ rows' = rows \ gone /\ trashed' = trashed \ gone
       /\ attends' = {a \in attends : a[1] \notin gone /\ a[2] \notin gone}
  <2>1. gone \intersect Meetings = {}
    BY Kinds
  <2>q. QED BY <1>2, <2>1 DEF G!Gone
<1>11. \A y \in rows : y \in rows' \/ y \in Notes
  BY <1>10
<1>12. G!TypeOK'
  <2>1. trashed' \subseteq rows' \intersect (Meetings \union Notes)
    BY <1>10 DEF GraphInv, G!TypeOK
  <2>2. attends' \subseteq (Meetings \intersect rows') \X (People \intersect rows')
    BY <1>10, <1>11, Kinds DEF GraphInv, G!TypeOK
  <2>3. rows' \subseteq G!Nodes
    BY <1>10 DEF GraphInv, G!TypeOK
  <2>q. QED BY <1>2, <1>4, <1>6, <2>1, <2>2, <2>3 DEF GraphInv, G!TypeOK
<1>13. trashed' \subseteq trashed /\ s.do # "attend" /\ s.do \notin {"require", "insert"} /\ \E t \in Left("engine") : Clears(t)
  BY <1>1, <1>3, <1>7, <1>10 DEF s, Clears
<1>14. Plans' /\ HandsApart'
  BY <1>1, <1>2, <1>13, PlansKept DEF s
<1>15. Ids' /\ Waits'
  <2>1. IsFiniteSet(rows')
    BY <1>10, FS_Subset DEF GraphInv, Ids
  <2>2. \A y \in G!Nodes : Pending(y)' => y \notin rows' /\ \A e \in made' : y \notin {e[1], e[2]}
    BY <1>2, <1>6, <1>10 DEF GraphInv, Ids
  <2>3. ASSUME NEW y \in G!Owned \intersect rows' PROVE of[y] \in rows'
    <3>1. y \in rows /\ y \in used
      BY <1>10, Kinds DEF GraphInv, Ids, Pending
    <3>2. of[y] \in rows /\ of[y] \in Meetings
      BY <3>1 DEF GraphInv, Ids
    <3>q. QED BY <1>11, <3>2, Kinds
  <2>4. ASSUME awaiting.for = "copy" PROVE awaiting.about \in rows' \union muddled
    <3>1. awaiting.about \in Meetings /\ awaiting.about \in rows \union muddled
      BY <2>4 DEF GraphInv, Waits, G!Nothing
    <3>q. QED BY <1>11, <3>1, Kinds
  <2>q. QED BY <1>1, <1>2, <2>1, <2>2, <2>3, <2>4, IdsKept
<1>16. \A y \in rows : y \in rows' \/ Doomed(y)
  BY <1>3, <1>7, <1>10 DEF Doomed
<1>17. Supports'
  <2>1. ASSUME NEW q \in G!Processes, NEW t \in Left(q), t.do = "connect", NEW c \in {t.x, t.y}, c \in rows
        PROVE  c \in rows' \/ Muddled(t.x) \/ Muddled(t.y)
    <3>1. CASE Doomed(c)
      BY <2>1, <3>1, DoomedMet
    <3>q. QED BY <1>16, <2>1, <3>1
  <2>q. QED BY <1>1, <1>2, <1>13, <2>1, SupportsKept DEF s
<1>18. \A t : t # s => \A q \in G!Processes : t \in Left(q)' <=> t \in Left(q)
  BY <1>1, <1>4, <1>5
<1>19. \A y : Muddled(y)' <=> Muddled(y)
  BY <1>1, <1>2, <1>13, Says
<1>20. \A e : Astray(e)' <=> Astray(e)
  BY <1>1, <1>2, <1>13, Says
<1>21. \A y : Doomed(y)' => Doomed(y)
  BY <1>1, <1>2, <1>13, Says
<1>22. ASSUME NEW y \in rows' PROVE ~Doomed(y)
  <2>1. \A z : G!Delete(z) \notin Left("engine")
    BY <1>28 DEF G!Delete, G!Statement
  <2>q. QED BY <1>10, <2>1 DEF Doomed
<1>23. Cleared'
  <2>1. ASSUME NEW e \in edges', NEW c \in {e[1], e[2]}, c \notin rows' \/ Doomed(c)' PROVE Astray(e)'
    <3>1. c \notin rows \/ Doomed(c)
      BY <1>16, <1>21, <2>1
    <3>2. G!Detach(c) \notin Left("engine")
      BY <1>28 DEF G!Detach, G!Statement
    <3>3. Astray(e)
      BY <1>2, <2>1, <3>1, <3>2 DEF GraphInv, Cleared
    <3>q. QED BY <1>20, <3>3
  <2>q. QED BY <2>1 DEF Cleared
<1>24. Kept' /\ TicketsKept'
  <2>1. ASSUME NEW e \in made, {e[1], e[2]} \subseteq rows' PROVE e \in edges \/ Astray(e)
    BY <1>10, <1>22, <2>1 DEF GraphInv, Kept
  <2>2. ASSUME NEW i \in Items \intersect rows', NEW t \in Tickets \intersect rows', <<i, t>> \in made
        PROVE  <<i, t>> \in edges \/ Muddled(i)
    BY <1>10, <1>22, <2>2 DEF GraphInv, TicketsKept
  <2>q. QED BY <1>2, <1>19, <1>20, <2>1, <2>2 DEF Kept, TicketsKept
<1>25. Mentioned'
  <2>1. ASSUME NEW m \in Meetings, NEW x \in People, <<m, x>> \in edges'
        PROVE  <<m, x>> \in attends' \/ m \notin rows' \/ x \notin rows'
    <3>1. <<m, x>> \in attends \/ m \notin rows \/ x \notin rows
      BY <1>2, <2>1 DEF GraphInv, Mentioned
    <3>2. <<m, x>> \in attends => <<m, x>> \in attends' \/ m \in gone \/ x \in gone
      BY <1>10
    <3>q. QED BY <1>10, <3>1, <3>2
  <2>2. ASSUME NEW m \in Meetings, NEW x \in People, <<m, x>> \in attends'
        PROVE  <<m, x>> \in edges' \/ Muddled(m)' \/ Muddled(x)'
    <3>1. \/ <<m, x>> \in edges \/ Muddled(m) \/ Muddled(x) \/ Doomed(m) \/ Doomed(x)
          \/ G!Connect(m, x) \in Left("engine")
      BY <1>10, <2>2 DEF GraphInv, Mentioned
    <3>2. m \in rows' /\ x \in rows'
      BY <1>12, <2>2 DEF G!TypeOK
    <3>3. G!Connect(m, x) \notin Left("engine")
      BY <1>28 DEF G!Connect, G!Statement
    <3>q. QED BY <1>2, <1>19, <1>22, <3>1, <3>2, <3>3
  <2>q. QED BY <2>1, <2>2 DEF Mentioned
<1>26. OnePromotion'
  <2>1. \A i : Promoted(i)' \subseteq Promoted(i)
    BY <1>2, <1>10 DEF Promoted
  <2>2. \A i \in Items : i \in rows => i \in rows'
    BY <1>11, Kinds
  <2>3. \A t : t.do # "empty notes" => \A q \in G!Processes : t \in Left(q)' <=> t \in Left(q)
    BY <1>1, <1>18 DEF s
  <2>4. \A i \in Items : Muddled(i)' \/ \A t, u \in Promoted(i)' : t = u
    BY <1>19, <2>1 DEF GraphInv, OnePromotion
  <2>5. ASSUME NEW i \in Items, NEW q \in G!Processes, NEW t \in Tickets, G!Connect(i, t) \in Left(q)'
        PROVE  Muddled(i)' \/ G!Unpromoted(i) \in Left(q)' \/ Promoted(i)' = {}
    <3>1. Muddled(i) \/ G!Unpromoted(i) \in Left(q) \/ Promoted(i) = {}
      BY <1>4, <2>5 DEF GraphInv, OnePromotion
    <3>q. QED BY <1>19, <2>1, <2>3, <3>1 DEF G!Unpromoted, G!Statement
  <2>6. \A i \in Items, q \in G!Processes : G!Unpromoted(i) \in Left(q)' =>
          Muddled(i)' \/ G!Require(i) \in Left(q)' \/ i \in rows'
    BY <1>4, <1>19, <2>2, <2>3 DEF GraphInv, OnePromotion, G!Require, G!Statement
  <2>q. QED BY <2>4, <2>5, <2>6 DEF OnePromotion
<1>27. Clearing'
  BY <1>9 DEF Clearing
<1>q. QED BY <1>4, <1>12, <1>14, <1>15, <1>17, <1>23, <1>24, <1>25, <1>26, <1>27 DEF GraphInv

LEMMA FirstOfTwo == \A j, k \in {1, 2} : j < k => j = 1 /\ k = 2
  OBVIOUS

LEMMA NoneAmong == Among(<<>>) = {}
  BY DEF Among

LEMMA OfTwo ==
  ASSUME NEW x, NEW y, NEW w, w = <<x, y>>
  PROVE  DOMAIN w = {1, 2} /\ w[1] = x /\ w[2] = y
  OBVIOUS

LEMMA TwoOf == ASSUME NEW S, NEW x \in S, NEW y \in S PROVE <<x, y>> \in Seq(S)
  OBVIOUS

\* The statements that take a meeting, and what it owns, away.
LEMMA Purging ==
  ASSUME GraphInv, NEW m \in Meetings, NEW v \in Seq(AllStatements), Distinct(v), Sorted(v),
         \A t \in Among(v) : t.do \in {"purge", "empty notes"}
  PROVE  LET w == G!Each(G!OwnedBy(m), "detach") \o <<G!Detach(m), G!Delete(m)>> \o v IN
         /\ w \in Seq(AllStatements) /\ Orderly(w) /\ w # <<>>
         /\ Among(w) = {G!Detach(x) : x \in G!OwnedBy(m)} \union {G!Detach(m), G!Delete(m)} \union Among(v)
<1>a. PICK a : a = G!Each(G!OwnedBy(m), "detach")
  OBVIOUS
<1>b. PICK b : b = <<G!Detach(m), G!Delete(m)>>
  OBVIOUS
<1>c. PICK c : c = a \o b
  OBVIOUS
<1>1. G!OwnedBy(m) \in SUBSET G!Nodes /\ IsFiniteSet(G!OwnedBy(m)) /\ m \notin G!OwnedBy(m) /\ m \in G!Nodes
  <2>1. G!OwnedBy(m) \in SUBSET rows
    BY DEF G!OwnedBy
  <2>2. IsFiniteSet(G!OwnedBy(m))
    BY <2>1, FS_Subset DEF GraphInv, Ids
  <2>q. QED BY <2>2, Kinds DEF G!OwnedBy
<1>2. /\ a \in Seq(AllStatements) /\ Distinct(a) /\ Sorted(a)
      /\ Among(a) = {G!Statement("detach", x, Nil) : x \in G!OwnedBy(m)}
  BY <1>1, <1>a, EachIs DEF Dos
<1>3. Among(a) = {G!Detach(x) : x \in G!OwnedBy(m)}
  BY <1>2 DEF G!Detach
<1>4. G!Detach(m) \in AllStatements /\ G!Delete(m) \in AllStatements /\ G!Detach(m) # G!Delete(m)
  BY <1>1 DEF G!Detach, G!Delete, G!Statement, AllStatements, Dos
<1>5. b \in Seq(AllStatements) /\ DOMAIN b = {1, 2} /\ b[1] = G!Detach(m) /\ b[2] = G!Delete(m)
  <2>2. DOMAIN b = {1, 2} /\ b[1] = G!Detach(m) /\ b[2] = G!Delete(m)
    BY <1>b, OfTwo
  <2>3. b \in Seq(AllStatements)
    BY <1>4, <1>b, TwoOf
  <2>q. QED BY <2>2, <2>3
<1>6. Distinct(b) /\ Among(b) = {G!Detach(m), G!Delete(m)}
  BY <1>4, <1>5 DEF Distinct, Among
<1>7. Sorted(b)
  <2>1. \A j, k \in {1, 2} : j < k => j = 1 /\ k = 2
    BY FirstOfTwo
  <2>2. G!Delete(m).do \in From(G!Detach(m).do)
    BY DEF G!Delete, G!Detach, G!Statement, From
  <2>q. QED BY <1>5, <2>1, <2>2 DEF Sorted
<1>8. \A x : G!Detach(x).do = "detach" /\ G!Delete(x).do = "delete" /\ G!Detach(x).x = x
  BY DEF G!Detach, G!Delete, G!Statement
<1>9. /\ "detach" \in From("detach") /\ "delete" \in From("detach") /\ "purge" \in From("detach")
      /\ "empty notes" \in From("detach")
      /\ "purge" \in From("delete") /\ "empty notes" \in From("delete")
  BY DEF From
<1>10. \A s \in Among(a), t \in Among(b) : s # t /\ t.do \in From(s.do)
  <2>1. ASSUME NEW x \in G!OwnedBy(m) PROVE G!Detach(x) # G!Detach(m) /\ G!Detach(x) # G!Delete(m)
    BY <1>1, <1>8, <2>1
  <2>2. \A s \in Among(a) : s.do = "detach"
    BY <1>3, <1>8
  <2>3. \A t \in Among(b) : t.do = "detach" \/ t.do = "delete"
    BY <1>6, <1>8
  <2>4. \A s \in Among(a), t \in Among(b) : t.do \in From(s.do)
    BY <1>9, <2>2, <2>3
  <2>5. \A s \in Among(a), t \in Among(b) : s # t
    BY <1>3, <1>6, <2>1
  <2>q. QED BY <2>4, <2>5
<1>11. /\ a \o b \in Seq(AllStatements) /\ Distinct(a \o b) /\ Sorted(a \o b)
       /\ Among(a \o b) = Among(a) \union Among(b)
  BY <1>2, <1>5, <1>6, <1>7, <1>10, Joined
<1>12. /\ c \in Seq(AllStatements) /\ Distinct(c) /\ Sorted(c)
       /\ Among(c) = {G!Detach(x) : x \in G!OwnedBy(m)} \union {G!Detach(m), G!Delete(m)}
  BY <1>3, <1>6, <1>11, <1>c
<1>13. \A s \in Among(c) : s.do = "detach" \/ s.do = "delete"
  BY <1>8, <1>12
<1>14. \A s \in Among(c), t \in Among(v) : s # t /\ t.do \in From(s.do)
  BY <1>9, <1>13
<1>15. /\ c \o v \in Seq(AllStatements) /\ Distinct(c \o v) /\ Sorted(c \o v)
       /\ Among(c \o v) = Among(c) \union Among(v)
  BY <1>12, <1>14, Joined
<1>16. c \o v # <<>>
  <2>1. G!Delete(m) \in Among(c \o v)
    BY <1>12, <1>15
  <2>q. QED BY <2>1, NoneAmong
<1>17. G!Each(G!OwnedBy(m), "detach") \o <<G!Detach(m), G!Delete(m)>> \o v = c \o v
  BY <1>a, <1>b, <1>c
<1>q. QED BY <1>12, <1>15, <1>16, <1>17 DEF Orderly

LEMMA ListOwnedKept == ASSUME GraphInv, NEW p \in G!Processes, G!ListOwned(p) PROVE GraphInv'
<1> DEFINE s == Head(work[p])
<1>0. PICK m : m = s.x
  OBVIOUS
<1>1. /\ work[p] # <<>> /\ s.do = "purge"
      /\ G!GoOn(p, G!Each(G!OwnedBy(m), "detach") \o <<G!Detach(m), G!Delete(m)>> \o Tail(work[p]))
  BY <1>0 DEF G!ListOwned, G!Doing
<1>2. /\ rows' = rows /\ of' = of /\ trashed' = trashed /\ edges' = edges /\ attends' = attends /\ made' = made
  BY DEF G!ListOwned, G!store
<1>3. s \in Left(p) /\ s = G!Purge(m) /\ m \in Meetings /\ m \in hand[p] /\ m \in G!Nodes
  BY <1>0, <1>1, HeadIs, Kinds DEF Shape, Handled, G!Purge, G!Statement
<1>4. Sweeps(p) /\ p = "engine"
  <2>1. Sweeps(p)
    BY DEF GraphInv, Plans
  <2>q. QED BY <1>1, <1>3, <2>1, TwoProcesses DEF Sweeps, Clears
<1>5. \A t \in Left(p) : t.do \in {"purge", "empty notes"}
  <2>1. ASSUME NEW t \in Left(p) PROVE t.do \in {"purge", "empty notes"}
    <3>1. t.do # "require" /\ t.do # "detach" /\ t.do # "delete"
      BY <1>1, Later
    <3>2. Clears(t)
      BY <1>1, <1>3, <1>4, <3>1 DEF Sweeps, Clears
    <3>q. QED BY <3>1, <3>2 DEF Clears
  <2>q. QED BY <2>1
<1> DEFINE v == Tail(work[p])
           w == G!Each(G!OwnedBy(m), "detach") \o <<G!Detach(m), G!Delete(m)>> \o v
           fresh == {G!Detach(x) : x \in G!OwnedBy(m)} \union {G!Detach(m), G!Delete(m)}
<1>6. v \in Seq(AllStatements) /\ Orderly(v) /\ Among(v) = Left(p) \ {s}
  BY <1>1, Rest DEF GraphInv, Works, Left
<1>7. Distinct(v) /\ Sorted(v)
  <2>1. ASSUME NEW u, Among(u) \subseteq Left(p), Pair(u) PROVE FALSE
    <3>1. PICK x \in G!Nodes : u = <<G!Delete(x), G!Detach(x)>>
      BY <2>1 DEF Pair
    <3>2. DOMAIN u = {1, 2} /\ u[1] = G!Delete(x)
      BY <3>1, OfTwo
    <3>3. G!Delete(x) \in Among(u)
      BY <3>2 DEF Among
    <3>4. G!Delete(x).do = "delete"
      BY DEF G!Delete, G!Statement
    <3>q. QED BY <1>5, <2>1, <3>3, <3>4
  <2>2. ~Pair(v)
    BY <1>6, <2>1
  <2>q. QED BY <1>6, <2>2 DEF Orderly
<1> HIDE DEF s, v
<1>8. w \in Seq(AllStatements) /\ Orderly(w) /\ w # <<>> /\ Among(w) = fresh \union (Left(p) \ {s})
  BY <1>3, <1>5, <1>6, <1>7, Purging
<1>9. work' = [work EXCEPT ![p] = w] /\ hand' = [hand EXCEPT ![p] = IF w = <<>> THEN {} ELSE @]
      /\ awaiting' = awaiting /\ used' = used /\ muddled' = muddled /\ cuts' = cuts
  BY <1>1 DEF G!GoOn, v
<1> HIDE DEF w
<1>10. hand' = hand
  BY <1>8, <1>9 DEF GraphInv, G!TypeOK
<1>11. work'[p] = w /\ \A q \in G!Processes : q # p => work'[q] = work[q]
  BY <1>9 DEF GraphInv, Works
<1>12. Left(p)' = fresh \union (Left(p) \ {s}) /\ \A q \in G!Processes : q # p => Left(q)' = Left(q)
  BY <1>8, <1>11 DEF Left
<1>13. Works'
  BY <1>8, <1>9, <1>11 DEF GraphInv, Works
<1>14. G!TypeOK'
  <2>1. work[p] # <<>> /\ \A q \in G!Processes : hand'[q] = {} <=> work'[q] = <<>>
    BY <1>1, <1>8, <1>10, <1>11 DEF GraphInv, G!TypeOK
  <2>q. QED BY <1>2, <1>9, <1>10, <2>1 DEF GraphInv, G!TypeOK
<1>15. /\ G!OwnedBy(m) \subseteq G!Owned \intersect rows /\ G!OwnedBy(m) \subseteq used
       /\ G!OwnedBy(m) \subseteq G!Nodes
       /\ \A x \in G!OwnedBy(m) : of[x] = m
  BY Kinds DEF G!OwnedBy, GraphInv, Ids, Pending
<1>16. \A x \in G!OwnedBy(m) : G!Detach(x).do = "detach" /\ G!Detach(x).x = x /\ G!Detach(x).y = Nil
  BY DEF G!Detach, G!Statement
<1>17. /\ G!Detach(m).do = "detach" /\ G!Detach(m).x = m /\ G!Detach(m).y = Nil /\ G!Delete(m).do = "delete"
       /\ G!Delete(m).x = m /\ G!Delete(m).y = Nil
  BY DEF G!Detach, G!Delete, G!Statement
<1> HIDE DEF fresh
<1>18. \A t \in fresh : \/ t.do = "detach" /\ (t.x = m \/ t.x \in G!OwnedBy(m)) /\ t.y = Nil
                        \/ t = G!Delete(m) /\ t.do = "delete" /\ t.x = m /\ t.y = Nil
  BY <1>16, <1>17 DEF fresh
<1>19. \A t \in Left(p)' : t.do \in {"detach", "delete", "purge", "empty notes"}
  BY <1>5, <1>12, <1>18
<1>20. \A t : t.do \notin {"detach", "delete", "purge"} => \A q \in G!Processes : t \in Left(q)' <=> t \in Left(q)
  BY <1>1, <1>12, <1>18 DEF s
<1>21. Shaped(p)'
  <2>1. ASSUME NEW t \in fresh PROVE Shape(t)' /\ Handled(p, t)'
    <3>1. Shape(t)'
      BY <1>3, <1>15, <1>18, <2>1 DEF Shape
    <3>2. t.x = m \/ t.x \in G!OwnedBy(m)
      BY <1>18, <2>1
    <3>3. t.x = m => t.x \notin G!Owned
      BY <1>3, Kinds
    <3>4. t.x \in G!OwnedBy(m) => t.x \in G!Owned /\ of[t.x] = m /\ t.x \in used /\ t.do = "detach"
      BY <1>3, <1>15, <1>18, <2>1, Kinds
    <3>5. t.do \in {"detach", "delete"}
      BY <1>18, <2>1
    <3>q. QED BY <1>2, <1>3, <1>9, <1>10, <3>1, <3>2, <3>3, <3>4, <3>5 DEF Handled
  <2>2. ASSUME NEW t \in Left(p) PROVE Shape(t)' /\ Handled(p, t)'
    <3>1. Shape(t) /\ Handled(p, t)
      BY DEF GraphInv, Plans, Shaped
    <3>q. QED BY <1>2, <1>9, <1>10, <3>1 DEF Shape, Handled
  <2>q. QED BY <1>12, <2>1, <2>2 DEF Shaped
<1>22. Sweeps(p)'
  <2>1. G!EmptyNotes \in Left(p)' => trashed' \intersect Notes \subseteq hand'[p]
    <3>1. G!EmptyNotes \in Left(p)' => G!EmptyNotes \in Left(p)
      BY <1>20 DEF G!EmptyNotes, G!Statement
    <3>q. QED BY <1>2, <1>4, <1>10, <3>1 DEF Sweeps
  <2>2. ASSUME NEW t \in Left(p)', NEW u \in Left(p)', t.do = "delete", u.do = "detach" PROVE u.x \notin Notes
    BY <1>3, <1>5, <1>12, <1>15, <1>18, <2>2, Kinds
  <2>3. \A t, u \in Left(p)' : t.do = "delete" /\ u.do = "delete" => t = u
    BY <1>5, <1>12, <1>18
  <2>4. ASSUME NEW t \in Left(p)', NEW u \in Left(p)', t.do = "delete", u.do = "purge" PROVE t.x # u.x
    <3>1. t.x = m /\ u \in Left(p) /\ u # s
      BY <1>5, <1>12, <1>18, <2>4
    <3>2. u = G!Statement(u.do, u.x, u.y) /\ Shape(u)
      BY <1>1, <3>1, Later DEF GraphInv, Plans, Shaped
    <3>q. QED BY <1>3, <2>4, <3>1, <3>2 DEF Shape, G!Purge
  <2>q. QED BY <1>4, <1>19, <2>1, <2>2, <2>3, <2>4 DEF Sweeps, Clears
<1>23. Joins(p)'
  BY <1>19 DEF Joins
<1>24. Plans'
  <2>1. ASSUME NEW q \in G!Processes, q # p PROVE Shaped(q)' /\ Sweeps(q)' /\ Joins(q)'
    <3>1. Left(q)' = Left(q) /\ Shaped(q) /\ Sweeps(q) /\ Joins(q)
      BY <1>12, <2>1 DEF GraphInv, Plans
    <3>2. Shaped(q)'
      BY <1>2, <1>9, <1>10, <3>1 DEF Shaped, Shape, Handled
    <3>3. Sweeps(q)'
      BY <1>2, <1>10, <3>1 DEF Sweeps, Clears, G!EmptyNotes, G!Statement
    <3>4. Joins(q)'
      BY <1>2, <3>1 DEF Joins, G!Attend, G!Connect, G!Statement
    <3>q. QED BY <3>2, <3>3, <3>4
  <2>q. QED BY <1>21, <1>22, <1>23, <2>1 DEF Plans
<1>25. HandsApart'
  BY <1>9, <1>10 DEF GraphInv, HandsApart
<1>26. \A y : Pending(y)' <=> Pending(y)
  BY <1>9, <1>20 DEF Pending, Inserting, G!Insert, G!Statement
<1>27. Ids' /\ Waits'
  <2>1. Ids'
    BY <1>2, <1>9, <1>20, <1>26 DEF GraphInv, Ids, G!Insert, G!Statement
  <2>2. Waits'
    BY <1>2, <1>9, <1>26 DEF GraphInv, Waits, G!Nothing
  <2>q. QED BY <2>1, <2>2
<1>28. (\A y : Muddled(y)' <=> Muddled(y)) /\ \A e : Astray(e)' <=> Astray(e)
  BY <1>2, <1>9 DEF Muddled, Astray
<1>29. Supports'
  <2>1. ASSUME NEW q \in G!Processes, NEW t \in Left(q)', t.do = "connect", NEW c \in {t.x, t.y} PROVE Ready(q, t, c)'
    <3>1. q # p
      BY <1>19, <2>1
    <3>2. Left(q)' = Left(q)
      BY <1>12, <3>1
    <3>3. Ready(q, t, c)
      BY <2>1, <3>2 DEF GraphInv, Supports
    <3>q. QED BY <1>2, <1>26, <1>28, <3>2, <3>3 DEF Ready, Supported
  <2>q. QED BY <2>1 DEF Supports
<1>30. m \in rows
  <2>1. G!Require(m) \notin Left("engine")
    BY <1>4, <1>5 DEF G!Require, G!Statement
  <2>q. QED BY <1>3, <1>4, <2>1 DEF GraphInv, Clearing
<1>31. G!Detach(m) \in Left("engine")' /\ G!Delete(m) \in Left("engine")' /\ \A x \in G!OwnedBy(m) : G!Detach(x) \in Left("engine")'
  BY <1>4, <1>12 DEF fresh
<1>32. \A z : G!Delete(z) \in Left("engine")' => z = m
  <2>1. \A z : G!Delete(z).do = "delete" /\ G!Delete(z).x = z
    BY DEF G!Delete, G!Statement
  <2>2. \A z : G!Delete(z) \notin Left(p)
    BY <1>5, <2>1
  <2>q. QED BY <1>4, <1>12, <1>18, <2>1, <2>2
<1>33. \A y : Doomed(y)' => Doomed(y) \/ y = m \/ (y \in G!Owned /\ of[y] = m)
  <2>1. G!EmptyNotes \in Left("engine")' => G!EmptyNotes \in Left("engine")
    BY <1>20, TwoProcesses DEF G!EmptyNotes, G!Statement
  <2>q. QED BY <1>2, <1>32, <2>1 DEF Doomed
<1>34. \A y : Doomed(y) => Doomed(y)'
  <2>1. \A z : G!Delete(z) \notin Left("engine")
    BY <1>4, <1>5 DEF G!Delete, G!Statement
  <2>2. G!EmptyNotes \in Left("engine") => G!EmptyNotes \in Left("engine")'
    BY <1>20, TwoProcesses DEF G!EmptyNotes, G!Statement
  <2>q. QED BY <1>2, <2>1, <2>2 DEF Doomed
<1>35. Cleared'
  <2>1. ASSUME NEW e \in edges', NEW c \in {e[1], e[2]}, c \notin rows' \/ Doomed(c)'
        PROVE  Astray(e)' \/ G!Detach(c) \in Left("engine")'
    <3>1. \A z : G!Detach(z) \notin Left("engine")
      BY <1>4, <1>5 DEF G!Detach, G!Statement
    <3>2. CASE c \notin rows \/ Doomed(c)
      BY <1>2, <1>28, <2>1, <3>1, <3>2 DEF GraphInv, Cleared
    <3>3. CASE c \in rows /\ (c = m \/ (c \in G!Owned /\ of[c] = m))
      BY <1>31, <3>3 DEF G!OwnedBy
    <3>q. QED BY <1>2, <1>33, <2>1, <3>2, <3>3
  <2>q. QED BY <2>1 DEF Cleared
<1>36. Kept' /\ TicketsKept'
  BY <1>2, <1>28, <1>34 DEF GraphInv, Kept, TicketsKept
<1>37. Mentioned'
  <2>1. \A n, x : G!Connect(n, x).do = "connect"
    BY DEF G!Connect, G!Statement
  <2>2. \A n, x : G!Connect(n, x) \notin Left("engine")
    BY <1>4, <1>5, <2>1
  <2>q. QED BY <1>2, <1>28, <1>34, <2>2 DEF GraphInv, Mentioned
<1>38. OnePromotion'
  <2>1. \A i : Promoted(i)' = Promoted(i)
    BY <1>2 DEF Promoted
  <2>q. QED BY <1>2, <1>20, <1>28, <2>1 DEF GraphInv, OnePromotion, G!Connect, G!Unpromoted, G!Require, G!Statement
<1>39. Clearing'
  <2>1. ASSUME NEW c \in G!Nodes, G!Detach(c) \in Left("engine")' PROVE Doomed(c)' /\ c \notin Tickets
    <3>1. G!Detach(c).do = "detach" /\ G!Detach(c).x = c
      BY DEF G!Detach, G!Statement
    <3>2. G!Detach(c) \in fresh
      BY <1>4, <1>5, <1>12, <2>1, <3>1
    <3>3. c = m \/ c \in G!OwnedBy(m)
      BY <1>18, <3>1, <3>2 DEF G!Delete, G!Statement
    <3>q. QED BY <1>2, <1>3, <1>15, <1>31, <3>3, Kinds DEF Doomed
  <2>2. ASSUME NEW n \in Meetings, G!Purge(n) \in Left("engine")' PROVE n \in rows'
    <3>1. G!Purge(n) \in Left("engine")
      BY <1>4, <1>12, <1>18, <2>2 DEF G!Purge, G!Statement
    <3>2. G!Require(n) \notin Left("engine")
      BY <1>4, <1>5 DEF G!Require, G!Statement
    <3>q. QED BY <1>2, <3>1, <3>2 DEF GraphInv, Clearing
  <2>3. \A t \in Left("engine")' : t.do # "require" /\ (t.do = "delete" => t.x = m)
    BY <1>4, <1>5, <1>12, <1>18
  <2>q. QED BY <1>2, <1>30, <2>1, <2>2, <2>3, Kinds DEF Clearing
<1>q. QED BY <1>13, <1>14, <1>24, <1>25, <1>27, <1>29, <1>35, <1>36, <1>37, <1>38, <1>39 DEF GraphInv

-----------------------------------------------------------------------------
(* A handler ends, as it returns or is cut short.                          *)

\* The graph is as it should be when nothing is doomed or about to be mentioned.
LEMMA AtRest ==
  ASSUME GraphInv, \A s \in Left("engine") : ~Clears(s),
         \A m \in Meetings, x \in People : G!Connect(m, x) \in Left("engine") => G!Attend(m, x) \in Left("engine")
  PROVE  Clean
<1>1. \A x : ~Doomed(x)
  BY NoneDoomed
<1>2. \A c : G!Detach(c) \notin Left("engine")
  BY DEF Clears, G!Detach, G!Statement
<1>3. \A e \in edges : {e[1], e[2]} \subseteq rows \/ Astray(e)
  BY <1>2 DEF GraphInv, Cleared
<1>4. \A e \in made : {e[1], e[2]} \subseteq rows => e \in edges \/ Astray(e)
  BY <1>1 DEF GraphInv, Kept
<1>5. \A i \in Items \intersect rows, t \in Tickets \intersect rows : <<i, t>> \in made =>
        <<i, t>> \in edges \/ Muddled(i)
  BY <1>1 DEF GraphInv, TicketsKept
<1>6. \A m \in Meetings, x \in People : <<m, x>> \in attends => <<m, x>> \in edges \/ Muddled(m) \/ Muddled(x)
  BY <1>1 DEF GraphInv, Mentioned
<1>q. QED BY <1>3, <1>4, <1>5, <1>6 DEF Clean

LEMMA EndKept ==
  ASSUME GraphInv, NEW p \in G!Processes,
         work' = [work EXCEPT ![p] = <<>>], hand' = [hand EXCEPT ![p] = {}],
         rows' = rows, of' = of, trashed' = trashed, edges' = edges, attends' = attends, made' = made, used' = used,
         awaiting' \in {awaiting, G!Nothing}, muddled \subseteq muddled', muddled' \subseteq G!Nodes, cuts' \in 0..MaxCuts,
         p = "engine" => Clean'
  PROVE  GraphInv'
<1>1. work'[p] = <<>> /\ hand'[p] = {} /\ \A q \in G!Processes : q # p => work'[q] = work[q] /\ hand'[q] = hand[q]
  BY DEF GraphInv, Works, G!TypeOK
<1>2. Left(p)' = {} /\ \A q \in G!Processes : q # p => Left(q)' = Left(q)
  BY <1>1, NoneAmong DEF Left
<1>3. \A q \in G!Processes : Left(q)' \subseteq Left(q) /\ hand'[q] \subseteq hand[q]
  BY <1>1, <1>2
<1>4. Works'
  <2>1. <<>> \in Seq(AllStatements) /\ Orderly(<<>>)
    BY DEF Orderly, Distinct, Sorted
  <2>q. QED BY <1>1, <2>1 DEF GraphInv, Works
<1>5. awaiting'.writes \subseteq awaiting.writes /\ (awaiting' = awaiting \/ awaiting' = G!Nothing)
      /\ G!Nothing.for = "nothing" /\ G!Nothing.writes = {}
  BY DEF G!Nothing
<1>6. G!TypeOK'
  <2>1. \A q \in G!Processes : hand'[q] = {} <=> work'[q] = <<>>
    BY <1>1 DEF GraphInv, G!TypeOK
  <2>2. hand' \in [G!Processes -> SUBSET G!Nodes]
    BY DEF GraphInv, G!TypeOK
  <2>q. QED BY <1>5, <2>1, <2>2 DEF GraphInv, G!TypeOK
<1>7. Plans'
  <2>1. ASSUME NEW q \in G!Processes, q # p PROVE Shaped(q)' /\ Sweeps(q)' /\ Joins(q)'
    <3>1. Left(q)' = Left(q) /\ hand'[q] = hand[q] /\ Shaped(q) /\ Sweeps(q) /\ Joins(q)
      BY <1>1, <1>2, <2>1 DEF GraphInv, Plans
    <3>2. Shaped(q)'
      BY <3>1 DEF Shaped, Shape, Handled
    <3>3. Sweeps(q)'
      BY <3>1 DEF Sweeps, Clears, G!EmptyNotes, G!Statement
    <3>4. Joins(q)'
      BY <3>1 DEF Joins, G!Attend, G!Connect, G!Statement
    <3>q. QED BY <3>2, <3>3, <3>4
  <2>2. Shaped(p)' /\ Sweeps(p)' /\ Joins(p)'
    BY <1>2 DEF Shaped, Sweeps, Joins
  <2>q. QED BY <2>1, <2>2 DEF Plans
<1>8. HandsApart'
  BY <1>3, <1>5, TwoProcesses DEF GraphInv, HandsApart
<1>9. \A x : Pending(x)' => Pending(x)
  BY <1>3, <1>5 DEF Pending, Inserting, G!Insert, G!Statement
<1>10. Ids'
  <2>1. \A q \in G!Processes, x \in G!Nodes : G!Insert(x) \in Left(q)' =>
          x \in used' /\ x \notin awaiting'.writes /\ \A r \in G!Processes \ {q} : G!Insert(x) \notin Left(r)'
    BY <1>3, <1>5 DEF GraphInv, Ids
  <2>q. QED BY <1>9, <2>1 DEF GraphInv, Ids, G!Insert, G!Statement
<1>11. Waits'
  BY <1>5, <1>9 DEF GraphInv, Waits
<1>12. (\A x : Muddled(x) => Muddled(x)') /\ \A e : Astray(e) => Astray(e)'
  BY DEF Muddled, Astray
<1>13. Supports'
  <2>1. ASSUME NEW q \in G!Processes, NEW t \in Left(q)', t.do = "connect", NEW c \in {t.x, t.y} PROVE Ready(q, t, c)'
    <3>1. Left(q)' = Left(q)
      BY <1>2, <2>1
    <3>2. Ready(q, t, c)
      BY <2>1, <3>1 DEF GraphInv, Supports
    <3>q. QED BY <1>9, <1>12, <3>1, <3>2 DEF Ready, Supported
  <2>q. QED BY <2>1 DEF Supports
<1>14. p = "engine" => \A x : ~Doomed(x)'
  BY <1>2 DEF Doomed
<1>15. p # "engine" => Left("engine")' = Left("engine") /\ work'["engine"] = work["engine"]
  BY <1>1, <1>2, TwoProcesses
<1>16. p # "engine" => \A x : Doomed(x)' <=> Doomed(x)
  BY <1>15 DEF Doomed, G!Delete, G!EmptyNotes, G!Statement
<1>17. ASSUME p = "engine" PROVE Cleared' /\ Kept' /\ TicketsKept' /\ Mentioned' /\ Clearing'
  <2>1. Clean' /\ Left("engine")' = {}
    BY <1>2, <1>17
  <2>2. Cleared'
    BY <1>14, <1>17, <2>1 DEF Cleared, Clean
  <2>3. Kept' /\ TicketsKept'
    BY <2>1 DEF Kept, TicketsKept, Clean
  <2>4. Mentioned'
    BY <2>1 DEF GraphInv, Mentioned, Clean
  <2>5. Clearing'
    BY <2>1 DEF Clearing
  <2>q. QED BY <2>2, <2>3, <2>4, <2>5
<1>18. ASSUME p # "engine" PROVE Cleared' /\ Kept' /\ TicketsKept' /\ Mentioned' /\ Clearing'
  <2>1. Cleared'
    BY <1>12, <1>15, <1>16, <1>18 DEF GraphInv, Cleared, G!Detach, G!Statement
  <2>2. Kept' /\ TicketsKept'
    BY <1>12, <1>16, <1>18 DEF GraphInv, Kept, TicketsKept
  <2>3. Mentioned'
    BY <1>12, <1>15, <1>16, <1>18 DEF GraphInv, Mentioned, G!Connect, G!Attend, G!Statement
  <2>4. Clearing'
    <3>1. Clean => Clean'
      BY <1>12 DEF Clean
    <3>2. \A c \in G!Nodes : G!Detach(c) \in Left("engine")' => Doomed(c)' \/ (c \notin rows' /\ ~Pending(c)')
      BY <1>9, <1>15, <1>16, <1>18 DEF GraphInv, Clearing, G!Detach, G!Statement
    <3>3. \A t \in Tickets : G!Detach(t) \in Left("engine")' =>
            Head(work'["engine"]) = G!Delete(t) \/ (t \notin rows' /\ G!Delete(t) \notin Left("engine")')
      BY <1>15, <1>18 DEF GraphInv, Clearing, G!Detach, G!Delete, G!Statement
    <3>4. \A m \in Meetings : G!Purge(m) \in Left("engine")' => G!Require(m) \in Left("engine")' \/ m \in rows'
      BY <1>15, <1>18 DEF GraphInv, Clearing, G!Purge, G!Require, G!Statement
    <3>5. (\E t \in Left("engine")' : Clears(t)) /\ (\E t \in Left("engine")' : t.do = "require" \/ (t.do = "delete" /\ t.x \notin rows'))
            => Clean'
      BY <1>15, <1>18, <3>1 DEF GraphInv, Clearing
    <3>q. QED BY <3>2, <3>3, <3>4, <3>5 DEF Clearing, Clears
  <2>q. QED BY <2>1, <2>2, <2>3, <2>4
<1>19. OnePromotion'
  <2>1. \A i : Promoted(i)' = Promoted(i)
    BY DEF Promoted
  <2>2. \A i \in Items : Muddled(i)' \/ \A t, u \in Promoted(i)' : t = u
    BY <1>12, <2>1 DEF GraphInv, OnePromotion
  <2>3. ASSUME NEW i \in Items, NEW q \in G!Processes, NEW t \in Tickets, G!Connect(i, t) \in Left(q)'
        PROVE  Muddled(i)' \/ G!Unpromoted(i) \in Left(q)' \/ Promoted(i)' = {}
    <3>1. Left(q)' = Left(q)
      BY <1>2, <2>3
    <3>q. QED BY <1>12, <2>1, <2>3, <3>1 DEF GraphInv, OnePromotion
  <2>4. ASSUME NEW i \in Items, NEW q \in G!Processes, G!Unpromoted(i) \in Left(q)'
        PROVE  Muddled(i)' \/ G!Require(i) \in Left(q)' \/ i \in rows'
    <3>1. Left(q)' = Left(q)
      BY <1>2, <2>4
    <3>q. QED BY <1>12, <2>4, <3>1 DEF GraphInv, OnePromotion
  <2>q. QED BY <2>2, <2>3, <2>4 DEF OnePromotion
<1>q. QED BY <1>4, <1>6, <1>7, <1>8, <1>10, <1>11, <1>13, <1>17, <1>18, <1>19 DEF GraphInv

LEMMA ReturnKept == ASSUME GraphInv, NEW p \in G!Processes, G!Return(p) PROVE GraphInv'
<1> DEFINE s == Head(work[p])
<1>1. /\ work[p] # <<>> /\ s.do \in {"require", "delete", "insert", "attend", "unpromoted"} /\ G!GoOn(p, <<>>)
      /\ s.do = "delete" => s.x \notin rows
  BY DEF G!Return, G!Doing
<1>2. /\ rows' = rows /\ of' = of /\ trashed' = trashed /\ edges' = edges /\ attends' = attends /\ made' = made
  BY DEF G!Return, G!store
<1>3. /\ work' = [work EXCEPT ![p] = <<>>] /\ hand' = [hand EXCEPT ![p] = {}]
      /\ awaiting' = awaiting /\ used' = used /\ muddled' = muddled /\ cuts' = cuts
  BY <1>1 DEF G!GoOn
<1>4. s \in Left(p)
  BY <1>1, HeadIs
<1> HIDE DEF s
<1>5. ASSUME p = "engine" PROVE Clean'
  <2>1. Sweeps(p) /\ Joins(p)
    BY DEF GraphInv, Plans
  <2>2. CASE \E t \in Left(p) : Clears(t)
    <3>1. s.do = "require" \/ (s.do = "delete" /\ s.x \notin rows)
      BY <1>1, <1>4, <2>1, <2>2 DEF Sweeps, Clears
    <3>2. Clean
      BY <1>4, <1>5, <2>2, <3>1 DEF GraphInv, Clearing
    <3>q. QED BY <1>2, <1>3, <3>2 DEF Clean, Astray, Muddled
  <2>3. CASE \A t \in Left(p) : ~Clears(t)
    <3>1. ASSUME NEW m \in Meetings, NEW x \in People, G!Connect(m, x) \in Left(p), G!Attend(m, x) \notin Left(p)
          PROVE  FALSE
      <4>1. G!Connect(m, x).do = "connect" /\ G!Connect(m, x).x = m /\ G!Connect(m, x).y = x
        BY DEF G!Connect, G!Statement
      <4>2. PICK t \in Left(p) : t.do = "connect" /\ t.x = m /\ t.y = x
        BY <3>1, <4>1
      <4>3. G!Attend(t.x, t.y) \in Left(p) \/ Left(p) = {t}
        BY <2>1, <4>2 DEF Joins
      <4>4. Left(p) = {t}
        BY <3>1, <4>2, <4>3
      <4>q. QED BY <1>1, <1>4, <4>2, <4>4
    <3>2. Clean
      BY <1>5, <2>3, <3>1, AtRest
    <3>q. QED BY <1>2, <1>3, <3>2 DEF Clean, Astray, Muddled
  <2>q. QED BY <2>2, <2>3
<1>6. muddled' \subseteq G!Nodes /\ cuts' \in 0..MaxCuts
  BY <1>3 DEF GraphInv, G!TypeOK
<1>q. QED BY <1>2, <1>3, <1>5, <1>6, EndKept

LEMMA CutKept == ASSUME GraphInv, NEW p \in G!Processes, G!Cut(p) PROVE GraphInv'
<1>1. /\ work' = [work EXCEPT ![p] = <<>>] /\ hand' = [hand EXCEPT ![p] = {}]
      /\ muddled' = muddled \union hand[p] /\ awaiting' \in {awaiting, G!Nothing} /\ cuts < MaxCuts /\ cuts' = cuts + 1
      /\ rows' = rows /\ of' = of /\ trashed' = trashed /\ edges' = edges /\ attends' = attends /\ made' = made
      /\ used' = used
  BY DEF G!Cut, G!store
<1>2. muddled' \subseteq G!Nodes /\ cuts' \in 0..MaxCuts
  <2>1. muddled' \subseteq G!Nodes
    BY <1>1 DEF GraphInv, G!TypeOK
  <2>2. cuts \in Nat /\ MaxCuts \in Nat /\ cuts \in 0..MaxCuts
    BY Assumptions DEF GraphInv, G!TypeOK, G!WorkspaceAssumption
  <2>q. QED BY <1>1, <2>1, <2>2
<1>3. ASSUME p = "engine" PROVE Clean'
  <2>1. \A x : Muddled(x) \/ x \in hand["engine"] \/ (x \in G!Owned /\ of[x] \in hand["engine"]) => Muddled(x)'
    BY <1>1, <1>3 DEF Muddled
  <2>2. \A x : Doomed(x) => Muddled(x)'
    BY <2>1, DoomedInHand
  <2>3. \A e : Astray(e) => Astray(e)'
    BY <2>1 DEF Astray
  <2>4. \A c : G!Detach(c) \in Left("engine") => Muddled(c)'
    <3>1. \A s \in Left("engine") : Handled("engine", s)
      BY TwoProcesses DEF GraphInv, Plans, Shaped
    <3>q. QED BY <2>1, <3>1 DEF Handled, G!Detach, G!Statement
  <2>5. \A m, x : G!Connect(m, x) \in Left("engine") => Muddled(m)'
    <3>1. \A s \in Left("engine") : Handled("engine", s)
      BY TwoProcesses DEF GraphInv, Plans, Shaped
    <3>q. QED BY <2>1, <3>1 DEF Handled, G!Connect, G!Statement
  <2>6. ASSUME NEW e \in edges PROVE {e[1], e[2]} \subseteq rows \/ Astray(e)'
    BY <2>3, <2>4, <2>6 DEF GraphInv, Cleared, Astray
  <2>7. ASSUME NEW e \in made, {e[1], e[2]} \subseteq rows PROVE e \in edges \/ Astray(e)'
    BY <2>2, <2>3, <2>7 DEF GraphInv, Kept, Astray
  <2>8. \A i \in Items \intersect rows, t \in Tickets \intersect rows : <<i, t>> \in made =>
          <<i, t>> \in edges \/ Muddled(i)'
    BY <2>1, <2>2 DEF GraphInv, TicketsKept
  <2>9. \A m \in Meetings, x \in People : <<m, x>> \in attends => <<m, x>> \in edges \/ Muddled(m)' \/ Muddled(x)'
    BY <2>1, <2>2, <2>5 DEF GraphInv, Mentioned
  <2>q. QED BY <1>1, <2>6, <2>7, <2>8, <2>9 DEF Clean
<1>q. QED BY <1>1, <1>2, <1>3, EndKept

-----------------------------------------------------------------------------
(* A handler begins.                                                       *)

LEMMA BeginKept ==
  ASSUME GraphInv, NEW p \in G!Processes, NEW about \in SUBSET G!Nodes, NEW w \in Seq(AllStatements), Orderly(w), w # <<>>,
         about # {}, G!Begin(p, about, w),
         rows' = rows, trashed' = trashed, edges' = edges, attends' = attends, made' = made, cuts' = cuts,
         used \subseteq used', used' \subseteq G!Nodes, awaiting' \in {awaiting, G!Nothing},
         of' \in [G!Owned -> Meetings \union {Nil}],
         \A x \in G!Owned \intersect used : of'[x] = of[x],
         \A x \in G!Owned \intersect used' : of'[x] \in Meetings,
         Shaped(p)', Sweeps(p)', Joins(p)',
         \A x \in G!Nodes : G!Insert(x) \in Among(w) =>
           x \in used' /\ x \notin awaiting'.writes /\ (x \notin used \/ x \in awaiting.writes),
         \A s \in Among(w) : s.do = "connect" => Ready(p, s, s.x)' /\ Ready(p, s, s.y)',
         \A x \in G!Nodes : G!Delete(x) \in Among(w) => x \notin Meetings /\ G!Detach(x) \in Among(w),
         G!EmptyNotes \in Among(w) => \A n \in trashed \intersect Notes : G!Detach(n) \in Among(w),
         \A c \in G!Nodes : G!Detach(c) \in Among(w) =>
           G!Delete(c) \in Among(w) \/ (c \in trashed \intersect Notes /\ G!EmptyNotes \in Among(w)),
         \A t \in Tickets : G!Detach(t) \in Among(w) => Head(w) = G!Delete(t),
         \A m \in Meetings : G!Purge(m) \in Among(w) => G!Require(m) \in Among(w) \/ m \in rows,
         \A i \in Items, t \in Tickets : G!Connect(i, t) \in Among(w) => G!Unpromoted(i) \in Among(w),
         \A i \in Items : G!Unpromoted(i) \in Among(w) => G!Require(i) \in Among(w)
  PROVE  GraphInv'
<1>1. /\ work[p] = <<>> /\ work' = [work EXCEPT ![p] = w] /\ hand' = [hand EXCEPT ![p] = about]
      /\ muddled' = muddled \union (about \intersect (G!Looked \union UNION {hand[q] : q \in G!Processes \ {p}}))
  BY DEF G!Begin
<1>2. /\ work'[p] = w /\ hand'[p] = about
      /\ \A q \in G!Processes : q # p => work'[q] = work[q] /\ hand'[q] = hand[q]
  BY <1>1 DEF GraphInv, Works, G!TypeOK
<1>3. Left(p) = {} /\ Left(p)' = Among(w) /\ \A q \in G!Processes : q # p => Left(q)' = Left(q)
  BY <1>1, <1>2, NoneAmong DEF Left
<1>4. Works'
  BY <1>1, <1>2 DEF GraphInv, Works
<1>5. awaiting'.writes \subseteq awaiting.writes /\ (awaiting' = awaiting \/ awaiting' = G!Nothing)
      /\ G!Nothing.for = "nothing" /\ G!Nothing.writes = {}
  BY DEF G!Nothing
<1>6. G!TypeOK'
  <2>1. \A q \in G!Processes : hand'[q] = {} <=> work'[q] = <<>>
    BY <1>2 DEF GraphInv, G!TypeOK
  <2>2. hand' \in [G!Processes -> SUBSET G!Nodes] /\ muddled' \subseteq G!Nodes
    BY <1>1 DEF GraphInv, G!TypeOK
  <2>3. awaiting'.for \in {"nothing", "summary", "copy"} /\ awaiting'.writes \subseteq used'
    BY <1>5 DEF GraphInv, G!TypeOK
  <2>q. QED BY <2>1, <2>2, <2>3 DEF GraphInv, G!TypeOK
<1>7. Plans'
  <2>1. ASSUME NEW q \in G!Processes, q # p PROVE Shaped(q)' /\ Sweeps(q)' /\ Joins(q)'
    <3>1. Left(q)' = Left(q) /\ hand'[q] = hand[q] /\ Shaped(q) /\ Sweeps(q) /\ Joins(q)
      BY <1>2, <1>3, <2>1 DEF GraphInv, Plans
    <3>2. Shaped(q)'
      <4>1. ASSUME NEW t \in Left(q) PROVE Shape(t)' /\ Handled(q, t)'
        <5>1. Shape(t) /\ Handled(q, t)
          BY <3>1 DEF Shaped
        <5>2. t.x \in G!Owned => t.x \in used /\ of'[t.x] = of[t.x]
          BY <5>1 DEF Handled
        <5>q. QED BY <3>1, <5>1, <5>2 DEF Shape, Handled
      <4>q. QED BY <3>1, <4>1 DEF Shaped
    <3>3. Sweeps(q)'
      BY <3>1 DEF Sweeps, Clears, G!EmptyNotes, G!Statement
    <3>4. Joins(q)'
      BY <3>1 DEF Joins, G!Attend, G!Connect, G!Statement
    <3>q. QED BY <3>2, <3>3, <3>4
  <2>q. QED BY <2>1 DEF Plans
<1>8. muddled \subseteq muddled' /\ \A q \in G!Processes \ {p} : about \intersect hand[q] \subseteq muddled'
  BY <1>1
<1>9. HandsApart'
  <2>1. \A x \in hand'["engine"] \intersect hand'["mcp"] : x \in muddled'
    BY <1>2, <1>8, TwoProcesses DEF GraphInv, HandsApart
  <2>2. ASSUME awaiting'.for = "copy", awaiting'.about \in hand'["engine"] PROVE awaiting'.about \in muddled'
    <3>1. awaiting' = awaiting /\ awaiting.about \in G!Looked
      BY <1>5, <2>2 DEF G!Looked
    <3>2. CASE p = "engine"
      BY <1>1, <1>2, <2>2, <3>1, <3>2
    <3>3. CASE p # "engine"
      BY <1>2, <1>8, <2>2, <3>1, <3>3, TwoProcesses DEF GraphInv, HandsApart
    <3>q. QED BY <3>2, <3>3
  <2>q. QED BY <2>1, <2>2 DEF HandsApart
<1>10. \A x \in G!Nodes : Pending(x)' => Pending(x)
  <2>1. \A x \in G!Nodes : Inserting(x)' => Inserting(x) \/ G!Insert(x) \in Among(w)
    BY <1>3 DEF Inserting, G!Insert, G!Statement
  <2>q. QED BY <1>5, <2>1 DEF Pending
<1>11. \A x \in G!Nodes : ~Pending(x) => x \in used
  BY DEF Pending
<1>12. (\A x \in rows : x \in used) /\ \A e \in made : e[1] \in used /\ e[2] \in used
  BY <1>11 DEF GraphInv, Ids, G!TypeOK
<1>13. Ids'
  <2>1. ASSUME NEW q \in G!Processes, NEW x \in G!Nodes, G!Insert(x) \in Left(q)'
        PROVE  x \in used' /\ x \notin awaiting'.writes /\ \A r \in G!Processes \ {q} : G!Insert(x) \notin Left(r)'
    <3>1. CASE q = p
      <4>1. x \in used' /\ x \notin awaiting'.writes /\ (x \notin used \/ x \in awaiting.writes)
        BY <1>3, <2>1, <3>1
      <4>2. \A r \in G!Processes : G!Insert(x) \notin Left(r)
        BY <4>1 DEF GraphInv, Ids
      <4>q. QED BY <1>3, <3>1, <4>1, <4>2
    <3>2. CASE q # p
      <4>1. G!Insert(x) \in Left(q)
        BY <1>3, <2>1, <3>2
      <4>2. x \in used /\ x \notin awaiting.writes /\ \A r \in G!Processes \ {q} : G!Insert(x) \notin Left(r)
        BY <4>1 DEF GraphInv, Ids
      <4>3. G!Insert(x) \notin Among(w)
        BY <4>2
      <4>q. QED BY <1>3, <1>5, <4>2, <4>3
    <3>q. QED BY <3>1, <3>2
  <2>2. \A x \in G!Owned \intersect rows' : of'[x] \in rows'
    BY <1>12 DEF GraphInv, Ids
  <2>3. \A x \in G!Nodes : Pending(x)' => x \notin rows' /\ \A e \in made' : x \notin {e[1], e[2]}
    BY <1>10 DEF GraphInv, Ids
  <2>q. QED BY <2>1, <2>2, <2>3 DEF GraphInv, Ids, G!Insert, G!Statement
<1>14. Waits'
  <2>1. awaiting' = awaiting => Waits'
    <3>1. \A x \in awaiting.writes : x \in used
      BY DEF GraphInv, G!TypeOK
    <3>q. QED BY <1>8, <1>10, <3>1, Kinds DEF GraphInv, Waits
  <2>2. awaiting' = G!Nothing => Waits'
    BY <1>5 DEF Waits
  <2>q. QED BY <1>5, <2>1, <2>2
<1>15. \A x : (x \in G!Owned => x \in used) /\ Muddled(x) => Muddled(x)'
  BY <1>8 DEF Muddled
<1>16. \A e \in made : Astray(e) => Astray(e)'
  BY <1>12, <1>15 DEF Astray
<1>17. Supports'
  <2>1. ASSUME NEW q \in G!Processes, q # p, NEW t \in Left(q)', t.do = "connect", NEW c \in {t.x, t.y}
        PROVE  Ready(q, t, c)'
    <3>1. Left(q)' = Left(q)
      BY <1>3, <2>1
    <3>2. Ready(q, t, c) /\ Shape(t) /\ Handled(q, t)
      BY <2>1, <3>1 DEF GraphInv, Supports, Plans, Shaped
    <3>3. CASE Supported(q, c)
      <4>1. PICK u \in Left(q) : u.do \in {"require", "insert"} /\ (c = u.x \/ (u.x \in G!Owned /\ c = of[u.x]))
        BY <3>3 DEF Supported
      <4>2. Handled(q, u)
        BY DEF GraphInv, Plans, Shaped
      <4>3. u.x \in G!Owned => of'[u.x] = of[u.x]
        BY <4>2 DEF Handled
      <4>q. QED BY <3>1, <4>1, <4>3 DEF Ready, Supported
    <3>4. CASE ~Pending(c) /\ (c \in rows \/ Muddled(t.x) \/ Muddled(t.y))
      <4>1. c \in G!Nodes
        BY <2>1, <3>2 DEF Shape
      <4>2. Muddled(t.x) \/ Muddled(t.y) => Muddled(t.x)' \/ Muddled(t.y)'
        BY <1>15, <2>1, <3>2 DEF Shape, Handled
      <4>q. QED BY <1>10, <3>4, <4>1, <4>2 DEF Ready
    <3>q. QED BY <3>2, <3>3, <3>4 DEF Ready
  <2>q. QED BY <1>3, <2>1 DEF Supports
<1>18. Clean => Clean'
  <2>1. edges \subseteq made
    BY DEF GraphInv, G!TypeOK
  <2>q. QED BY <1>12, <1>15, <1>16, <2>1, Kinds DEF Clean
<1>19. ASSUME p = "engine" PROVE Cleared' /\ Kept' /\ TicketsKept' /\ Mentioned' /\ Clearing'
  <2>1. Left("engine") = {} /\ Left("engine")' = Among(w) /\ work'["engine"] = w
    BY <1>2, <1>3, <1>19
  <2>2. Clean'
    BY <1>18, <2>1, AtRest
  <2>3. ASSUME NEW x, Doomed(x)' PROVE G!Detach(x) \in Among(w)
    <3>1. ASSUME NEW y, G!Delete(y) \in Among(w) PROVE y \in G!Nodes
      <4>1. G!Delete(y).do = "delete" /\ G!Delete(y).x = y
        BY DEF G!Delete, G!Statement
      <4>2. \A s \in Left(p)' : s.do # "empty notes" => s.x \in G!Nodes
        BY DEF Shaped, Shape
      <4>q. QED BY <1>3, <3>1, <4>1, <4>2
    <3>2. CASE G!Delete(x) \in Among(w)
      BY <3>1, <3>2
    <3>3. CASE x \in G!Owned /\ G!Delete(of'[x]) \in Among(w)
      BY <3>1, <3>3, Kinds
    <3>4. CASE x \in trashed \intersect Notes /\ G!EmptyNotes \in Among(w)
      BY <3>4
    <3>5. G!Delete(x)' = G!Delete(x) /\ G!EmptyNotes' = G!EmptyNotes /\ G!Delete(of[x])' = G!Delete(of'[x])
      BY DEF G!Delete, G!EmptyNotes, G!Statement
    <3>q. QED BY <2>1, <2>3, <3>2, <3>3, <3>4, <3>5 DEF Doomed
  <2>4. Cleared'
    <3>1. ASSUME NEW e \in edges', NEW c \in {e[1], e[2]}, c \notin rows' \/ Doomed(c)'
          PROVE  Astray(e)' \/ G!Detach(c) \in Left("engine")'
      BY <2>1, <2>2, <2>3, <3>1 DEF Clean
    <3>q. QED BY <3>1 DEF Cleared
  <2>5. Kept' /\ TicketsKept'
    BY <2>2 DEF Kept, TicketsKept, Clean
  <2>6. Mentioned'
    BY <2>2 DEF GraphInv, Mentioned, Clean
  <2>7. Clearing'
    <3>1. \A c \in G!Nodes : G!Detach(c) \in Left("engine")' => Doomed(c)'
      BY <2>1 DEF Doomed, G!Delete, G!EmptyNotes, G!Statement
    <3>2. \A t \in Tickets : G!Detach(t) \in Left("engine")' => Head(work'["engine"]) = G!Delete(t)
      BY <2>1
    <3>3. \A m \in Meetings : G!Purge(m) \in Left("engine")' => G!Require(m) \in Left("engine")' \/ m \in rows'
      BY <2>1
    <3>q. QED BY <2>2, <3>1, <3>2, <3>3 DEF Clearing
  <2>q. QED BY <2>4, <2>5, <2>6, <2>7
<1>20. ASSUME p # "engine" PROVE Cleared' /\ Kept' /\ TicketsKept' /\ Mentioned' /\ Clearing'
  <2>1. Left("engine")' = Left("engine") /\ work'["engine"] = work["engine"]
    BY <1>2, <1>3, <1>20, TwoProcesses
  <2>2. \A x : (x \in G!Owned => x \in used) => (Doomed(x)' <=> Doomed(x))
    <3>1. \A x : G!Delete(x)' = G!Delete(x) /\ G!EmptyNotes' = G!EmptyNotes /\ G!Delete(of[x])' = G!Delete(of'[x])
      BY DEF G!Delete, G!EmptyNotes, G!Statement
    <3>q. QED BY <2>1, <3>1 DEF Doomed
  <2>3. Cleared'
    <3>1. ASSUME NEW e \in edges', NEW c \in {e[1], e[2]}, c \notin rows' \/ Doomed(c)'
          PROVE  Astray(e)' \/ G!Detach(c) \in Left("engine")'
      <4>1. e \in edges /\ e \in made /\ c \in used
        BY <1>12, <3>1 DEF GraphInv, G!TypeOK
      <4>2. Astray(e) \/ G!Detach(c) \in Left("engine")
        BY <2>2, <3>1, <4>1 DEF GraphInv, Cleared
      <4>q. QED BY <1>16, <2>1, <4>1, <4>2
    <3>q. QED BY <3>1 DEF Cleared
  <2>4. Kept'
    BY <1>12, <1>16, <2>2 DEF GraphInv, Kept
  <2>5. TicketsKept'
    BY <1>12, <1>15, <2>2 DEF GraphInv, TicketsKept
  <2>6. Mentioned'
    <3>1. ASSUME NEW m \in Meetings, NEW x \in People
          PROVE  /\ Muddled(m) => Muddled(m)'
                 /\ Muddled(x) => Muddled(x)'
                 /\ Doomed(m) => Doomed(m)'
                 /\ Doomed(x) => Doomed(x)'
                 /\ G!Connect(m, x) \in Left("engine")' <=> G!Connect(m, x) \in Left("engine")
                 /\ G!Attend(m, x) \in Left("engine")' <=> G!Attend(m, x) \in Left("engine")
      <4>1. m \notin G!Owned /\ x \notin G!Owned
        BY Kinds
      <4>q. QED BY <1>15, <2>1, <2>2, <4>1
    <3>2. ASSUME NEW m \in Meetings, NEW x \in People, <<m, x>> \in attends
          PROVE  \/ <<m, x>> \in edges \/ Muddled(m)' \/ Muddled(x)' \/ Doomed(m)' \/ Doomed(x)'
                 \/ (G!Connect(m, x) \in Left("engine")' /\ G!Attend(m, x) \notin Left("engine")')
      BY <3>1, <3>2 DEF GraphInv, Mentioned
    <3>3. \A m \in Meetings, x \in People : <<m, x>> \in edges => <<m, x>> \in attends \/ m \notin rows \/ x \notin rows
      BY DEF GraphInv, Mentioned
    <3>4. \A m, x : G!Connect(m, x)' = G!Connect(m, x) /\ G!Attend(m, x)' = G!Attend(m, x)
      BY DEF G!Connect, G!Attend, G!Statement
    <3>q. QED BY <3>2, <3>3, <3>4 DEF Mentioned
  <2>7. Clearing'
    <3>1. ASSUME NEW c \in G!Nodes, G!Detach(c) \in Left("engine")' PROVE Doomed(c)' \/ (c \notin rows' /\ ~Pending(c)')
      <4>1. G!Detach(c) \in Left("engine")
        BY <2>1, <3>1
      <4>2. Doomed(c) \/ (c \notin rows /\ ~Pending(c))
        BY <4>1 DEF GraphInv, Clearing
      <4>3. Handled("engine", G!Detach(c))
        BY <4>1, TwoProcesses DEF GraphInv, Plans, Shaped
      <4>4. c \in G!Owned => c \in used
        BY <4>3 DEF Handled, G!Detach, G!Statement
      <4>q. QED BY <1>10, <2>2, <4>2, <4>4
    <3>2. \A t \in Tickets : G!Detach(t) \in Left("engine")' =>
            Head(work'["engine"]) = G!Delete(t) \/ (t \notin rows' /\ G!Delete(t) \notin Left("engine")')
      BY <2>1 DEF GraphInv, Clearing, G!Detach, G!Delete, G!Statement
    <3>3. \A m \in Meetings : G!Purge(m) \in Left("engine")' => G!Require(m) \in Left("engine")' \/ m \in rows'
      BY <2>1 DEF GraphInv, Clearing, G!Purge, G!Require, G!Statement
    <3>4. (\E t \in Left("engine")' : Clears(t)) /\ (\E t \in Left("engine")' : t.do = "require" \/ (t.do = "delete" /\ t.x \notin rows'))
            => Clean'
      BY <1>18, <2>1 DEF GraphInv, Clearing
    <3>q. QED BY <3>1, <3>2, <3>3, <3>4 DEF Clearing, Clears
  <2>q. QED BY <2>3, <2>4, <2>5, <2>6, <2>7
<1>21. OnePromotion'
  <2>1. \A i : Promoted(i)' = Promoted(i)
    BY DEF Promoted
  <2>2. ASSUME NEW i \in Items PROVE Muddled(i)' \/ \A t, u \in Promoted(i)' : t = u
    <3>1. CASE i \in used
      BY <1>15, <2>1, <3>1 DEF GraphInv, OnePromotion
    <3>2. CASE i \notin used
      <4>1. Promoted(i) = {}
        BY <1>12, <3>2 DEF Promoted
      <4>q. QED BY <2>1, <4>1
    <3>q. QED BY <3>1, <3>2
  <2>3. ASSUME NEW i \in Items, NEW q \in G!Processes, NEW t \in Tickets, G!Connect(i, t) \in Left(q)'
        PROVE  Muddled(i)' \/ G!Unpromoted(i) \in Left(q)' \/ Promoted(i)' = {}
    <3>1. CASE q = p
      BY <1>3, <2>3, <3>1
    <3>2. CASE q # p
      <4>1. Left(q)' = Left(q) /\ G!Connect(i, t) \in Left(q)
        BY <1>3, <2>3, <3>2
      <4>2. Handled(q, G!Connect(i, t))
        BY <4>1 DEF GraphInv, Plans, Shaped
      <4>3. i \in used
        BY <4>2, Kinds DEF Handled, G!Connect, G!Statement
      <4>q. QED BY <1>15, <2>1, <4>1, <4>3 DEF GraphInv, OnePromotion
    <3>q. QED BY <3>1, <3>2
  <2>4. ASSUME NEW i \in Items, NEW q \in G!Processes, G!Unpromoted(i) \in Left(q)'
        PROVE  Muddled(i)' \/ G!Require(i) \in Left(q)' \/ i \in rows'
    <3>1. CASE q = p
      BY <1>3, <2>4, <3>1
    <3>2. CASE q # p
      <4>1. Left(q)' = Left(q) /\ G!Unpromoted(i) \in Left(q)
        BY <1>3, <2>4, <3>2
      <4>2. Handled(q, G!Unpromoted(i))
        BY <4>1 DEF GraphInv, Plans, Shaped
      <4>3. i \in used
        BY <4>2, Kinds DEF Handled, G!Unpromoted, G!Statement
      <4>q. QED BY <1>15, <4>1, <4>3 DEF GraphInv, OnePromotion
    <3>q. QED BY <3>1, <3>2
  <2>q. QED BY <2>2, <2>3, <2>4 DEF OnePromotion
<1>q. QED BY <1>4, <1>6, <1>7, <1>9, <1>13, <1>14, <1>17, <1>19, <1>20, <1>21 DEF GraphInv


-----------------------------------------------------------------------------
(* The statements a handler is written with.                               *)

LEMMA Fields ==
  /\ \A x : G!Require(x).do = "require" /\ G!Require(x).x = x /\ G!Require(x).y = Nil
  /\ \A x : G!Unpromoted(x).do = "unpromoted" /\ G!Unpromoted(x).x = x /\ G!Unpromoted(x).y = Nil
  /\ \A x : G!Insert(x).do = "insert" /\ G!Insert(x).x = x /\ G!Insert(x).y = Nil
  /\ \A x, y : G!Attend(x, y).do = "attend" /\ G!Attend(x, y).x = x /\ G!Attend(x, y).y = y
  /\ \A x, y : G!Connect(x, y).do = "connect" /\ G!Connect(x, y).x = x /\ G!Connect(x, y).y = y
  /\ \A x : G!Detach(x).do = "detach" /\ G!Detach(x).x = x /\ G!Detach(x).y = Nil
  /\ \A x : G!Delete(x).do = "delete" /\ G!Delete(x).x = x /\ G!Delete(x).y = Nil
  /\ \A x : G!Purge(x).do = "purge" /\ G!Purge(x).x = x /\ G!Purge(x).y = Nil
  /\ G!EmptyNotes.do = "empty notes" /\ G!EmptyNotes.x = Nil /\ G!EmptyNotes.y = Nil
  BY DEF G!Require, G!Unpromoted, G!Insert, G!Attend, G!Connect, G!Detach, G!Delete, G!Purge, G!EmptyNotes, G!Statement

LEMMA AreStatements == \A x, y \in G!Nodes :
  /\ G!Require(x) \in AllStatements /\ G!Unpromoted(x) \in AllStatements /\ G!Insert(x) \in AllStatements
  /\ G!Attend(x, y) \in AllStatements /\ G!Connect(x, y) \in AllStatements
  /\ G!Detach(x) \in AllStatements /\ G!Delete(x) \in AllStatements /\ G!Purge(x) \in AllStatements
  /\ G!EmptyNotes \in AllStatements
  BY DEF G!Require, G!Unpromoted, G!Insert, G!Attend, G!Connect, G!Detach, G!Delete, G!Purge, G!EmptyNotes,
     G!Statement, AllStatements, Dos

LEMMA OrderlyOne ==
  ASSUME NEW w, NEW a \in AllStatements, w = <<a>>
  PROVE  w \in Seq(AllStatements) /\ Orderly(w) /\ w # <<>> /\ Head(w) = a /\ Among(w) = {a}
<1>1. w \in Seq(AllStatements) /\ w # <<>> /\ DOMAIN w = {1} /\ w[1] = a /\ Head(w) = a
  OBVIOUS
<1>2. Distinct(w) /\ Sorted(w) /\ Among(w) = {a}
  BY <1>1 DEF Distinct, Sorted, Among
<1>q. QED BY <1>1, <1>2 DEF Orderly

LEMMA OfThree ==
  ASSUME NEW a, NEW b, NEW c, NEW w, w = <<a, b, c>>
  PROVE  DOMAIN w = {1, 2, 3} /\ w[1] = a /\ w[2] = b /\ w[3] = c
  OBVIOUS

LEMMA ThreeOf == ASSUME NEW S, NEW a \in S, NEW b \in S, NEW c \in S PROVE <<a, b, c>> \in Seq(S)
  OBVIOUS

LEMMA OfFour ==
  ASSUME NEW a, NEW b, NEW c, NEW d, NEW w, w = <<a, b, c, d>>
  PROVE  DOMAIN w = {1, 2, 3, 4} /\ w[1] = a /\ w[2] = b /\ w[3] = c /\ w[4] = d
  OBVIOUS

LEMMA FourOf == ASSUME NEW S, NEW a \in S, NEW b \in S, NEW c \in S, NEW d \in S PROVE <<a, b, c, d>> \in Seq(S)
  OBVIOUS

LEMMA OfFive ==
  ASSUME NEW a, NEW b, NEW c, NEW d, NEW e, NEW w, w = <<a, b, c, d, e>>
  PROVE  DOMAIN w = {1, 2, 3, 4, 5} /\ w[1] = a /\ w[2] = b /\ w[3] = c /\ w[4] = d /\ w[5] = e
  OBVIOUS

LEMMA FiveOf ==
  ASSUME NEW S, NEW a \in S, NEW b \in S, NEW c \in S, NEW d \in S, NEW e \in S PROVE <<a, b, c, d, e>> \in Seq(S)
  OBVIOUS

LEMMA HeadOf == ASSUME NEW w \in Seq(AllStatements), w # <<>> PROVE Head(w) = w[1]
  OBVIOUS

LEMMA FirstOfFive == \A j, k \in {1, 2, 3, 4, 5} : j < k =>
  \/ j = 1 /\ k \in {2, 3, 4, 5}
  \/ j = 2 /\ k \in {3, 4, 5}
  \/ j = 3 /\ k \in {4, 5}
  \/ j = 4 /\ k = 5
  OBVIOUS

LEMMA OrderlyTwo ==
  ASSUME NEW w, NEW a \in AllStatements, NEW b \in AllStatements, w = <<a, b>>, a # b, b.do \in From(a.do)
  PROVE  w \in Seq(AllStatements) /\ Orderly(w) /\ w # <<>> /\ Head(w) = a /\ Among(w) = {a, b}
<1>1. w \in Seq(AllStatements)
  BY TwoOf
<1>2. DOMAIN w = {1, 2} /\ w[1] = a /\ w[2] = b
  BY OfTwo
<1>3. Distinct(w) /\ Among(w) = {a, b}
  BY <1>2 DEF Distinct, Among
<1>4. Sorted(w)
  BY <1>2, FirstOfTwo DEF Sorted
<1>5. w # <<>>
  BY <1>3, NoneAmong
<1>q. QED BY <1>1, <1>2, <1>3, <1>4, <1>5, HeadOf DEF Orderly

LEMMA OrderlyThree ==
  ASSUME NEW w, NEW a \in AllStatements, NEW b \in AllStatements, NEW c \in AllStatements, w = <<a, b, c>>,
         a # b, a # c, b # c, b.do \in From(a.do), c.do \in From(a.do), c.do \in From(b.do)
  PROVE  w \in Seq(AllStatements) /\ Orderly(w) /\ w # <<>> /\ Head(w) = a /\ Among(w) = {a, b, c}
<1>1. w \in Seq(AllStatements)
  BY ThreeOf
<1>2. DOMAIN w = {1, 2, 3} /\ w[1] = a /\ w[2] = b /\ w[3] = c
  BY OfThree
<1>3. Distinct(w) /\ Among(w) = {a, b, c}
  BY <1>2 DEF Distinct, Among
<1>4. Sorted(w)
  BY <1>2, FirstOfFive DEF Sorted
<1>5. w # <<>>
  BY <1>3, NoneAmong
<1>q. QED BY <1>1, <1>2, <1>3, <1>4, <1>5, HeadOf DEF Orderly

LEMMA OrderlyFour ==
  ASSUME NEW w, NEW a \in AllStatements, NEW b \in AllStatements, NEW c \in AllStatements, NEW d \in AllStatements, w = <<a, b, c, d>>,
         a # b, a # c, a # d, b # c, b # d, c # d,
         b.do \in From(a.do), c.do \in From(a.do), d.do \in From(a.do),
         c.do \in From(b.do), d.do \in From(b.do), d.do \in From(c.do)
  PROVE  w \in Seq(AllStatements) /\ Orderly(w) /\ w # <<>> /\ Head(w) = a /\ Among(w) = {a, b, c, d}
<1>1. w \in Seq(AllStatements)
  BY FourOf
<1>2. DOMAIN w = {1, 2, 3, 4} /\ w[1] = a /\ w[2] = b /\ w[3] = c /\ w[4] = d
  BY OfFour
<1>3. Distinct(w) /\ Among(w) = {a, b, c, d}
  BY <1>2 DEF Distinct, Among
<1>4. Sorted(w)
  BY <1>2, FirstOfFive DEF Sorted
<1>5. w # <<>>
  BY <1>3, NoneAmong
<1>q. QED BY <1>1, <1>2, <1>3, <1>4, <1>5, HeadOf DEF Orderly

LEMMA OrderlyFive ==
  ASSUME NEW w, NEW a \in AllStatements, NEW b \in AllStatements, NEW c \in AllStatements, NEW d \in AllStatements,
         NEW e \in AllStatements, w = <<a, b, c, d, e>>,
         a # b, a # c, a # d, a # e, b # c, b # d, b # e, c # d, c # e, d # e,
         b.do \in From(a.do), c.do \in From(a.do), d.do \in From(a.do), e.do \in From(a.do),
         c.do \in From(b.do), d.do \in From(b.do), e.do \in From(b.do),
         d.do \in From(c.do), e.do \in From(c.do), e.do \in From(d.do)
  PROVE  w \in Seq(AllStatements) /\ Orderly(w) /\ w # <<>> /\ Head(w) = a /\ Among(w) = {a, b, c, d, e}
<1>1. w \in Seq(AllStatements)
  BY FiveOf
<1>2. DOMAIN w = {1, 2, 3, 4, 5} /\ w[1] = a /\ w[2] = b /\ w[3] = c /\ w[4] = d /\ w[5] = e
  BY OfFive
<1>3. Distinct(w) /\ Among(w) = {a, b, c, d, e}
  BY <1>2 DEF Distinct, Among
<1>4. Sorted(w)
  BY <1>2, FirstOfFive DEF Sorted
<1>5. w # <<>>
  BY <1>3, NoneAmong
<1>q. QED BY <1>1, <1>2, <1>3, <1>4, <1>5, HeadOf DEF Orderly

-----------------------------------------------------------------------------
(* Handlers that make rows and links.                                      *)

LEMMA MakingKept ==
  ASSUME GraphInv, NEW p \in G!Processes, NEW about \in SUBSET G!Nodes, NEW w \in Seq(AllStatements), Orderly(w), w # <<>>,
         about # {}, G!Begin(p, about, w),
         rows' = rows, trashed' = trashed, edges' = edges, attends' = attends, made' = made, cuts' = cuts,
         used \subseteq used', used' \subseteq G!Nodes, awaiting' \in {awaiting, G!Nothing},
         of' \in [G!Owned -> Meetings \union {Nil}],
         \A x \in G!Owned \intersect used : of'[x] = of[x],
         \A x \in G!Owned \intersect used' : of'[x] \in Meetings,
         \A s \in Among(w) :
           /\ s.do \in {"require", "unpromoted", "insert", "connect"} \/ (p = "engine" /\ s.do = "attend")
           /\ Shape(s) /\ s.x \in about
           /\ s.do \in {"attend", "connect"} => s.y \in about
           /\ s.do \in {"unpromoted", "insert", "connect"} /\ s.x \in G!Owned => of'[s.x] \in about
           /\ s.x \in G!Owned => s.x \in used',
         Joins(p)',
         \A x \in G!Nodes : G!Insert(x) \in Among(w) =>
           x \in used' /\ x \notin awaiting'.writes /\ (x \notin used \/ x \in awaiting.writes),
         \A s \in Among(w) : s.do = "connect" => \A c \in {s.x, s.y} :
           \/ \E u \in Among(w) : u.do \in {"require", "insert"} /\ (c = u.x \/ (u.x \in G!Owned /\ c = of'[u.x]))
           \/ Ready(p, s, c)',
         \A i \in Items, t \in Tickets : G!Connect(i, t) \in Among(w) => G!Unpromoted(i) \in Among(w),
         \A i \in Items : G!Unpromoted(i) \in Among(w) => G!Require(i) \in Among(w)
  PROVE  GraphInv'
<1>1. Left(p)' = Among(w) /\ hand'[p] = about
  BY DEF G!Begin, Left, GraphInv, Works, G!TypeOK
<1>2. \A s \in Among(w) : ~Clears(s)
  BY DEF Clears
<1>3. Shaped(p)'
  <2>1. ASSUME NEW s \in Among(w) PROVE Shape(s)' /\ Handled(p, s)'
    BY <1>1, <1>2 DEF Shape, Handled, Clears
  <2>q. QED BY <1>1, <2>1 DEF Shaped
<1>4. Sweeps(p)'
  <2>1. G!EmptyNotes \notin Among(w)
    BY <1>2, Fields DEF Clears
  <2>2. G!EmptyNotes' = G!EmptyNotes /\ \A s : Clears(s)' <=> Clears(s)
    BY DEF G!EmptyNotes, G!Statement, Clears
  <2>3. p = "mcp" => \A s \in Among(w) : s.do # "attend"
    BY DEF Clears
  <2>q. QED BY <1>1, <1>2, <2>1, <2>2, <2>3 DEF Sweeps, Clears
<1>5. \A s \in Among(w) : s.do = "connect" => Ready(p, s, s.x)' /\ Ready(p, s, s.y)'
  <2>1. ASSUME NEW s \in Among(w), s.do = "connect", NEW c \in {s.x, s.y} PROVE Ready(p, s, c)'
    BY <1>1, <2>1 DEF Ready, Supported
  <2>q. QED BY <2>1
<1>6. \A c : G!Delete(c) \notin Among(w) /\ G!Detach(c) \notin Among(w) /\ G!Purge(c) \notin Among(w) /\ G!EmptyNotes \notin Among(w)
  BY <1>2, Fields DEF Clears
<1>q. QED BY <1>3, <1>4, <1>5, <1>6, BeginKept

\* A handler that promotes nothing, and mentions nobody.
LEMMA PlainJoins ==
  ASSUME NEW p \in G!Processes, \A s \in Left(p)' : s.do # "attend" /\ (s.do = "connect" => s.x \notin Meetings \union Items)
  PROVE  Joins(p)'
  BY DEF Joins

LEMMA CreateOneKept ==
  ASSUME GraphInv, NEW p \in G!Processes, NEW x \in G!Nodes \ G!Owned, G!Making(p, x, {}, <<G!Insert(x)>>), of' = of
  PROVE  GraphInv'
<1>0. PICK w : w = <<G!Insert(x)>>
  OBVIOUS
<1>1. w \in Seq(AllStatements) /\ Orderly(w) /\ w # <<>> /\ Among(w) = {G!Insert(x)}
  BY <1>0, AreStatements, OrderlyOne
<1>2. /\ x \notin used /\ used' = used \union {x} /\ G!Begin(p, {x}, w)
      /\ rows' = rows /\ trashed' = trashed /\ edges' = edges /\ attends' = attends /\ awaiting' = awaiting
      /\ made' = made /\ cuts' = cuts
  BY <1>0 DEF G!Making
<1>3. of \in [G!Owned -> Meetings \union {Nil}] /\ used \subseteq G!Nodes /\ awaiting.writes \subseteq used
      /\ \A y \in G!Owned \intersect used : of[y] \in Meetings
  BY DEF GraphInv, G!TypeOK, Ids
<1>f. G!Insert(x).do = "insert" /\ G!Insert(x).x = x /\ G!Insert(x).y = Nil
  BY DEF G!Insert, G!Statement
<1>g. \A y : G!Insert(y).x = y
  BY DEF G!Insert, G!Statement
<1>h. \A y, t : G!Unpromoted(y).do = "unpromoted" /\ G!Connect(y, t).do = "connect"
  BY DEF G!Unpromoted, G!Connect, G!Statement
<1>4. Shape(G!Insert(x))
  BY <1>f, Kinds DEF Shape
<1>5. Left(p)' = Among(w)
  BY <1>2 DEF G!Begin, Left, GraphInv, Works
<1>6. Joins(p)'
  BY <1>1, <1>5, <1>f, PlainJoins
<1>7. \A s \in Among(w) : s.do = "insert" /\ s.x = x
  BY <1>1, <1>f
<1>8. \A y \in G!Nodes : G!Insert(y) \in Among(w) => y = x
  BY <1>1, <1>g
<1>9. \A y, t : G!Unpromoted(y) \notin Among(w) /\ G!Connect(y, t) \notin Among(w)
  BY <1>7, <1>h
<1>10. {x} \in SUBSET G!Nodes /\ {x} # {} /\ used' \subseteq G!Nodes
  BY <1>2, <1>3
<1>11. \A s \in Among(w) : Shape(s)
  BY <1>1, <1>4
<1>a. /\ rows' = rows /\ trashed' = trashed /\ edges' = edges /\ attends' = attends /\ made' = made /\ cuts' = cuts
      /\ used \subseteq used' /\ used' \subseteq G!Nodes /\ awaiting' \in {awaiting, G!Nothing}
      /\ of' \in [G!Owned -> Meetings \union {Nil}]
      /\ \A y \in G!Owned \intersect used : of'[y] = of[y]
      /\ \A y \in G!Owned \intersect used' : of'[y] \in Meetings
  BY <1>2, <1>3, <1>10
<1>b. \A s \in Among(w) :
           /\ s.do \in {"require", "unpromoted", "insert", "connect"} \/ (p = "engine" /\ s.do = "attend")
           /\ Shape(s) /\ s.x \in {x}
           /\ s.do \in {"attend", "connect"} => s.y \in {x}
           /\ s.do \in {"unpromoted", "insert", "connect"} /\ s.x \in G!Owned => of'[s.x] \in {x}
           /\ s.x \in G!Owned => s.x \in used'
  BY <1>7, <1>11
<1>c. \A y \in G!Nodes : G!Insert(y) \in Among(w) =>
        y \in used' /\ y \notin awaiting'.writes /\ (y \notin used \/ y \in awaiting.writes)
  BY <1>2, <1>3, <1>8
<1>d. \A s \in Among(w) : s.do = "connect" => \A c \in {s.x, s.y} :
           \/ \E u \in Among(w) : u.do \in {"require", "insert"} /\ (c = u.x \/ (u.x \in G!Owned /\ c = of'[u.x]))
           \/ Ready(p, s, c)'
  BY <1>7
<1>e. /\ \A i \in Items, t \in Tickets : G!Connect(i, t) \in Among(w) => G!Unpromoted(i) \in Among(w)
      /\ \A i \in Items : G!Unpromoted(i) \in Among(w) => G!Require(i) \in Among(w)
  BY <1>9
<1>q. QED BY <1>1, <1>2, <1>6, <1>10, <1>a, <1>b, <1>c, <1>d, <1>e, MakingKept

\* A note or a ticket of a meeting.
LEMMA CreateAndLinkKept ==
  ASSUME GraphInv, NEW p \in G!Processes, NEW n \in Notes \union Tickets, NEW m \in Meetings,
         G!Making(p, n, {m}, <<G!Require(m), G!Insert(n), G!Connect(n, m)>>), of' = of
  PROVE  GraphInv'
<1>0. PICK w : w = <<G!Require(m), G!Insert(n), G!Connect(n, m)>>
  OBVIOUS
<1>k. n \in G!Nodes /\ m \in G!Nodes /\ n \notin G!Owned /\ m \notin G!Owned /\ n \notin Meetings /\ n \notin Items
  BY Kinds
<1>f. /\ G!Require(m).do = "require" /\ G!Require(m).x = m /\ G!Require(m).y = Nil
      /\ G!Insert(n).do = "insert" /\ G!Insert(n).x = n /\ G!Insert(n).y = Nil
      /\ G!Connect(n, m).do = "connect" /\ G!Connect(n, m).x = n /\ G!Connect(n, m).y = m
  BY DEF G!Require, G!Insert, G!Connect, G!Statement
<1>g. \A y, t : G!Insert(y).x = y /\ G!Unpromoted(y).do = "unpromoted" /\ G!Connect(y, t).x = y /\ G!Connect(y, t).do = "connect"
  BY DEF G!Insert, G!Unpromoted, G!Connect, G!Statement
<1>h. \A y : G!Insert(y).x = y /\ G!Insert(y).do = "insert"
  BY DEF G!Insert, G!Statement
<1>1. w \in Seq(AllStatements) /\ Orderly(w) /\ w # <<>> /\ Among(w) = {G!Require(m), G!Insert(n), G!Connect(n, m)}
  <2>1. "insert" \in From("require") /\ "connect" \in From("require") /\ "connect" \in From("insert")
    BY DEF From, Dos
  <2>2. G!Require(m) # G!Insert(n) /\ G!Require(m) # G!Connect(n, m) /\ G!Insert(n) # G!Connect(n, m)
    BY <1>f
  <2>3. G!Require(m) \in AllStatements /\ G!Insert(n) \in AllStatements /\ G!Connect(n, m) \in AllStatements
    BY <1>k, AreStatements
  <2>q. QED BY <1>0, <2>1, <2>2, <2>3, <1>f, OrderlyThree
<1>2. /\ n \notin used /\ used' = used \union {n} /\ G!Begin(p, {n, m}, w)
      /\ rows' = rows /\ trashed' = trashed /\ edges' = edges /\ attends' = attends /\ awaiting' = awaiting
      /\ made' = made /\ cuts' = cuts
  <2>1. {n} \union {m} = {n, m}
    OBVIOUS
  <2>q. QED BY <1>0, <2>1 DEF G!Making
<1>3. of \in [G!Owned -> Meetings \union {Nil}] /\ used \subseteq G!Nodes /\ awaiting.writes \subseteq used
      /\ \A y \in G!Owned \intersect used : of[y] \in Meetings
  BY DEF GraphInv, G!TypeOK, Ids
<1>4. \A s \in Among(w) : Shape(s)
  BY <1>1, <1>k, <1>f DEF Shape
<1>5. Left(p)' = Among(w)
  BY <1>2 DEF G!Begin, Left, GraphInv, Works
<1>6. Joins(p)'
  BY <1>1, <1>5, <1>k, <1>f, PlainJoins
<1>7. \A s \in Among(w) : s.do \in {"require", "insert", "connect"} /\ s.x \in {n, m} /\ (s.do = "connect" => s.y \in {n, m})
  BY <1>1, <1>f
<1>8. \A y \in G!Nodes : G!Insert(y) \in Among(w) => y = n
  BY <1>1, <1>f, <1>h
<1>9. \A s \in Among(w) : s.do = "connect" =>
        \A c \in {s.x, s.y} : \E u \in Among(w) : u.do \in {"require", "insert"} /\ c = u.x
  BY <1>1, <1>f
<1>10. \A y, t : G!Unpromoted(y) \notin Among(w) /\ (G!Connect(y, t) \in Among(w) => y = n)
  BY <1>1, <1>f, <1>g
<1>11. {n, m} \in SUBSET G!Nodes /\ {n, m} # {} /\ used' \subseteq G!Nodes
  BY <1>2, <1>3, <1>k
<1>a. /\ rows' = rows /\ trashed' = trashed /\ edges' = edges /\ attends' = attends /\ made' = made /\ cuts' = cuts
      /\ used \subseteq used' /\ used' \subseteq G!Nodes /\ awaiting' \in {awaiting, G!Nothing}
      /\ of' \in [G!Owned -> Meetings \union {Nil}]
      /\ \A y \in G!Owned \intersect used : of'[y] = of[y]
      /\ \A y \in G!Owned \intersect used' : of'[y] \in Meetings
  BY <1>2, <1>3, <1>11, <1>k
<1>b. \A s \in Among(w) :
           /\ s.do \in {"require", "unpromoted", "insert", "connect"} \/ (p = "engine" /\ s.do = "attend")
           /\ Shape(s) /\ s.x \in {n, m}
           /\ s.do \in {"attend", "connect"} => s.y \in {n, m}
           /\ s.do \in {"unpromoted", "insert", "connect"} /\ s.x \in G!Owned => of'[s.x] \in {n, m}
           /\ s.x \in G!Owned => s.x \in used'
  BY <1>7, <1>4, <1>k
<1>c. \A y \in G!Nodes : G!Insert(y) \in Among(w) =>
        y \in used' /\ y \notin awaiting'.writes /\ (y \notin used \/ y \in awaiting.writes)
  BY <1>2, <1>3, <1>8
<1>d. \A s \in Among(w) : s.do = "connect" => \A c \in {s.x, s.y} :
           \/ \E u \in Among(w) : u.do \in {"require", "insert"} /\ (c = u.x \/ (u.x \in G!Owned /\ c = of'[u.x]))
           \/ Ready(p, s, c)'
  BY <1>9
<1>e. /\ \A i \in Items, t \in Tickets : G!Connect(i, t) \in Among(w) => G!Unpromoted(i) \in Among(w)
      /\ \A i \in Items : G!Unpromoted(i) \in Among(w) => G!Require(i) \in Among(w)
  BY <1>10, <1>k
<1>q. QED BY <1>1, <1>2, <1>6, <1>11, <1>a, <1>b, <1>c, <1>d, <1>e, MakingKept

LEMMA CreateActionItemAskingKept ==
  ASSUME GraphInv, NEW p \in G!Processes, NEW i \in Items, NEW m \in Meetings,
         G!Making(p, i, {m}, <<G!Require(m), G!Insert(i)>>), of' = [of EXCEPT ![i] = m]
  PROVE  GraphInv'
<1>0. PICK w : w = <<G!Require(m), G!Insert(i)>>
  OBVIOUS
<1>k. i \in G!Nodes /\ m \in G!Nodes /\ i \in G!Owned /\ m \notin G!Owned /\ i # m
  BY Kinds
<1>f. /\ G!Require(m).do = "require" /\ G!Require(m).x = m /\ G!Require(m).y = Nil
      /\ G!Insert(i).do = "insert" /\ G!Insert(i).x = i /\ G!Insert(i).y = Nil
  BY DEF G!Require, G!Insert, G!Statement
<1>g. /\ \A y : G!Insert(y).x = y /\ G!Insert(y).do = "insert"
      /\ \A y : G!Unpromoted(y).x = y /\ G!Unpromoted(y).do = "unpromoted"
      /\ \A y, u : G!Connect(y, u).x = y /\ G!Connect(y, u).y = u /\ G!Connect(y, u).do = "connect"
  BY DEF G!Insert, G!Unpromoted, G!Connect, G!Statement
<1>1. w \in Seq(AllStatements) /\ Orderly(w) /\ w # <<>> /\ Among(w) = {G!Require(m), G!Insert(i)}
  <2>1. "insert" \in From("require")
    BY DEF From, Dos
  <2>2. G!Require(m) # G!Insert(i)
    BY <1>f, <1>k
  <2>3. G!Require(m) \in AllStatements /\ G!Insert(i) \in AllStatements
    BY <1>k, AreStatements
  <2>q. QED BY <1>0, <1>f, <2>1, <2>2, <2>3, OrderlyTwo
<1>2. /\ i \notin used /\ used' = used \union {i} /\ G!Begin(p, {i, m}, w)
      /\ rows' = rows /\ trashed' = trashed /\ edges' = edges /\ attends' = attends /\ awaiting' = awaiting
      /\ made' = made /\ cuts' = cuts
  <2>1. {i} \union {m} = {i, m}
    OBVIOUS
  <2>q. QED BY <1>0, <2>1 DEF G!Making
<1>3. /\ of \in [G!Owned -> Meetings \union {Nil}] /\ used \subseteq G!Nodes /\ awaiting.writes \subseteq used
      /\ \A y \in G!Owned \intersect used : of[y] \in Meetings
  BY DEF GraphInv, G!TypeOK, Ids
<1>4. \A s \in Among(w) : Shape(s)
  BY <1>1, <1>f, <1>k DEF Shape
<1>5. Left(p)' = Among(w)
  BY <1>2 DEF G!Begin, Left, GraphInv, Works
<1>6. Joins(p)'
  BY <1>1, <1>5, <1>f, PlainJoins
<1>7. \A s \in Among(w) : s.do \in {"require", "insert"} /\ s.x \in {i, m}
  BY <1>1, <1>f
<1>8. \A y \in G!Nodes : G!Insert(y) \in Among(w) => y = i
  BY <1>1, <1>f, <1>g
<1>9. \A y, u : G!Unpromoted(y) \notin Among(w) /\ G!Connect(y, u) \notin Among(w)
  BY <1>7, <1>g
<1>10. {i, m} \in SUBSET G!Nodes /\ {i, m} # {} /\ used' \subseteq G!Nodes
  BY <1>2, <1>3, <1>k
<1>11. of' \in [G!Owned -> Meetings \union {Nil}] /\ of'[i] = m /\ \A y \in G!Owned : y # i => of'[y] = of[y]
  BY <1>3, <1>k
<1>a. /\ rows' = rows /\ trashed' = trashed /\ edges' = edges /\ attends' = attends /\ made' = made /\ cuts' = cuts
      /\ used \subseteq used' /\ used' \subseteq G!Nodes /\ awaiting' \in {awaiting, G!Nothing}
      /\ of' \in [G!Owned -> Meetings \union {Nil}]
      /\ \A y \in G!Owned \intersect used : of'[y] = of[y]
      /\ \A y \in G!Owned \intersect used' : of'[y] \in Meetings
  BY <1>2, <1>3, <1>10, <1>11
<1>b. \A s \in Among(w) :
           /\ s.do \in {"require", "unpromoted", "insert", "connect"} \/ (p = "engine" /\ s.do = "attend")
           /\ Shape(s) /\ s.x \in {i, m}
           /\ s.do \in {"attend", "connect"} => s.y \in {i, m}
           /\ s.do \in {"unpromoted", "insert", "connect"} /\ s.x \in G!Owned => of'[s.x] \in {i, m}
           /\ s.x \in G!Owned => s.x \in used'
  BY <1>2, <1>4, <1>7, <1>11, <1>k
<1>c. \A y \in G!Nodes : G!Insert(y) \in Among(w) =>
        y \in used' /\ y \notin awaiting'.writes /\ (y \notin used \/ y \in awaiting.writes)
  BY <1>2, <1>3, <1>8
<1>d. \A s \in Among(w) : s.do = "connect" => \A c \in {s.x, s.y} :
           \/ \E u \in Among(w) : u.do \in {"require", "insert"} /\ (c = u.x \/ (u.x \in G!Owned /\ c = of'[u.x]))
           \/ Ready(p, s, c)'
  BY <1>7
<1>e. /\ \A j \in Items, u \in Tickets : G!Connect(j, u) \in Among(w) => G!Unpromoted(j) \in Among(w)
      /\ \A j \in Items : G!Unpromoted(j) \in Among(w) => G!Require(j) \in Among(w)
  BY <1>9
<1>q. QED BY <1>1, <1>2, <1>6, <1>10, <1>a, <1>b, <1>c, <1>d, <1>e, MakingKept

LEMMA CreateActionItemKept ==
  ASSUME GraphInv, NEW p \in G!Processes, NEW i \in Items, NEW m \in Meetings,
         G!Making(p, i, {m}, <<G!Insert(i)>>), of' = [of EXCEPT ![i] = m]
  PROVE  GraphInv'
<1>0. PICK w : w = <<G!Insert(i)>>
  OBVIOUS
<1>k. i \in G!Nodes /\ m \in G!Nodes /\ i \in G!Owned /\ m \notin G!Owned /\ i # m
  BY Kinds
<1>f. /\ G!Insert(i).do = "insert" /\ G!Insert(i).x = i /\ G!Insert(i).y = Nil
  BY DEF G!Insert, G!Statement
<1>g. /\ \A y : G!Insert(y).x = y /\ G!Insert(y).do = "insert"
      /\ \A y : G!Unpromoted(y).x = y /\ G!Unpromoted(y).do = "unpromoted"
      /\ \A y, u : G!Connect(y, u).x = y /\ G!Connect(y, u).y = u /\ G!Connect(y, u).do = "connect"
  BY DEF G!Insert, G!Unpromoted, G!Connect, G!Statement
<1>1. w \in Seq(AllStatements) /\ Orderly(w) /\ w # <<>> /\ Among(w) = {G!Insert(i)}
  BY <1>0, <1>k, AreStatements, OrderlyOne
<1>2. /\ i \notin used /\ used' = used \union {i} /\ G!Begin(p, {i, m}, w)
      /\ rows' = rows /\ trashed' = trashed /\ edges' = edges /\ attends' = attends /\ awaiting' = awaiting
      /\ made' = made /\ cuts' = cuts
  <2>1. {i} \union {m} = {i, m}
    OBVIOUS
  <2>q. QED BY <1>0, <2>1 DEF G!Making
<1>3. /\ of \in [G!Owned -> Meetings \union {Nil}] /\ used \subseteq G!Nodes /\ awaiting.writes \subseteq used
      /\ \A y \in G!Owned \intersect used : of[y] \in Meetings
  BY DEF GraphInv, G!TypeOK, Ids
<1>4. \A s \in Among(w) : Shape(s)
  BY <1>1, <1>f, <1>k DEF Shape
<1>5. Left(p)' = Among(w)
  BY <1>2 DEF G!Begin, Left, GraphInv, Works
<1>6. Joins(p)'
  BY <1>1, <1>5, <1>f, PlainJoins
<1>7. \A s \in Among(w) : s.do \in {"require", "insert"} /\ s.x \in {i, m}
  BY <1>1, <1>f
<1>8. \A y \in G!Nodes : G!Insert(y) \in Among(w) => y = i
  BY <1>1, <1>f, <1>g
<1>9. \A y, u : G!Unpromoted(y) \notin Among(w) /\ G!Connect(y, u) \notin Among(w)
  BY <1>7, <1>g
<1>10. {i, m} \in SUBSET G!Nodes /\ {i, m} # {} /\ used' \subseteq G!Nodes
  BY <1>2, <1>3, <1>k
<1>11. of' \in [G!Owned -> Meetings \union {Nil}] /\ of'[i] = m /\ \A y \in G!Owned : y # i => of'[y] = of[y]
  BY <1>3, <1>k
<1>a. /\ rows' = rows /\ trashed' = trashed /\ edges' = edges /\ attends' = attends /\ made' = made /\ cuts' = cuts
      /\ used \subseteq used' /\ used' \subseteq G!Nodes /\ awaiting' \in {awaiting, G!Nothing}
      /\ of' \in [G!Owned -> Meetings \union {Nil}]
      /\ \A y \in G!Owned \intersect used : of'[y] = of[y]
      /\ \A y \in G!Owned \intersect used' : of'[y] \in Meetings
  BY <1>2, <1>3, <1>10, <1>11
<1>b. \A s \in Among(w) :
           /\ s.do \in {"require", "unpromoted", "insert", "connect"} \/ (p = "engine" /\ s.do = "attend")
           /\ Shape(s) /\ s.x \in {i, m}
           /\ s.do \in {"attend", "connect"} => s.y \in {i, m}
           /\ s.do \in {"unpromoted", "insert", "connect"} /\ s.x \in G!Owned => of'[s.x] \in {i, m}
           /\ s.x \in G!Owned => s.x \in used'
  BY <1>2, <1>4, <1>7, <1>11, <1>k
<1>c. \A y \in G!Nodes : G!Insert(y) \in Among(w) =>
        y \in used' /\ y \notin awaiting'.writes /\ (y \notin used \/ y \in awaiting.writes)
  BY <1>2, <1>3, <1>8
<1>d. \A s \in Among(w) : s.do = "connect" => \A c \in {s.x, s.y} :
           \/ \E u \in Among(w) : u.do \in {"require", "insert"} /\ (c = u.x \/ (u.x \in G!Owned /\ c = of'[u.x]))
           \/ Ready(p, s, c)'
  BY <1>7
<1>e. /\ \A j \in Items, u \in Tickets : G!Connect(j, u) \in Among(w) => G!Unpromoted(j) \in Among(w)
      /\ \A j \in Items : G!Unpromoted(j) \in Among(w) => G!Require(j) \in Among(w)
  BY <1>9
<1>q. QED BY <1>1, <1>2, <1>6, <1>10, <1>a, <1>b, <1>c, <1>d, <1>e, MakingKept

LEMMA PromoteKept ==
  ASSUME GraphInv, NEW p \in G!Processes, NEW i \in Items, NEW t \in Tickets, G!Promote(p, i, t)
  PROVE  GraphInv'
<1>m. PICK m : m = of[i]
  OBVIOUS
<1>0. PICK w : w = <<G!Require(i), G!Unpromoted(i), G!Insert(t), G!Connect(i, t), G!Connect(t, m)>>
  OBVIOUS
<1>3. /\ of \in [G!Owned -> Meetings \union {Nil}] /\ used \subseteq G!Nodes /\ awaiting.writes \subseteq used
      /\ \A y \in G!Owned \intersect used : of[y] \in Meetings
  BY DEF GraphInv, G!TypeOK, Ids
<1>k. /\ i \in used /\ i \in G!Nodes /\ t \in G!Nodes /\ m \in G!Nodes /\ m \in Meetings /\ i \in G!Owned
      /\ t \notin G!Owned /\ m \notin G!Owned
      /\ i # t /\ i # m /\ t # m /\ i \notin Meetings /\ t \notin Meetings /\ t \notin Items
      /\ Nil \notin G!Nodes /\ m \notin Tickets
  BY <1>3, <1>m, Kinds DEF G!Promote
<1>f. /\ G!Require(i).do = "require" /\ G!Require(i).x = i /\ G!Require(i).y = Nil
      /\ G!Unpromoted(i).do = "unpromoted" /\ G!Unpromoted(i).x = i /\ G!Unpromoted(i).y = Nil
      /\ G!Insert(t).do = "insert" /\ G!Insert(t).x = t /\ G!Insert(t).y = Nil
      /\ G!Connect(i, t).do = "connect" /\ G!Connect(i, t).x = i /\ G!Connect(i, t).y = t
      /\ G!Connect(t, m).do = "connect" /\ G!Connect(t, m).x = t /\ G!Connect(t, m).y = m
  BY DEF G!Require, G!Unpromoted, G!Insert, G!Connect, G!Statement
<1>g. /\ \A y : G!Insert(y).x = y /\ G!Insert(y).do = "insert"
      /\ \A y : G!Unpromoted(y).x = y /\ G!Unpromoted(y).do = "unpromoted"
      /\ \A y, u : G!Connect(y, u).x = y /\ G!Connect(y, u).y = u /\ G!Connect(y, u).do = "connect"
  BY DEF G!Insert, G!Unpromoted, G!Connect, G!Statement
<1>1. /\ w \in Seq(AllStatements) /\ Orderly(w) /\ w # <<>>
      /\ Among(w) = {G!Require(i), G!Unpromoted(i), G!Insert(t), G!Connect(i, t), G!Connect(t, m)}
  <2>1. /\ "unpromoted" \in From("require") /\ "insert" \in From("require") /\ "connect" \in From("require")
        /\ "insert" \in From("unpromoted") /\ "connect" \in From("unpromoted") /\ "connect" \in From("insert")
        /\ "connect" \in From("connect")
    BY DEF From, Dos
  <2>2. /\ G!Require(i) # G!Unpromoted(i) /\ G!Require(i) # G!Insert(t) /\ G!Require(i) # G!Connect(i, t)
        /\ G!Require(i) # G!Connect(t, m) /\ G!Unpromoted(i) # G!Insert(t) /\ G!Unpromoted(i) # G!Connect(i, t)
        /\ G!Unpromoted(i) # G!Connect(t, m) /\ G!Insert(t) # G!Connect(i, t) /\ G!Insert(t) # G!Connect(t, m)
        /\ G!Connect(i, t) # G!Connect(t, m)
    BY <1>f, <1>k
  <2>3. /\ G!Require(i) \in AllStatements /\ G!Unpromoted(i) \in AllStatements /\ G!Insert(t) \in AllStatements
        /\ G!Connect(i, t) \in AllStatements /\ G!Connect(t, m) \in AllStatements
    BY <1>k, AreStatements
  <2>q. QED BY <1>0, <1>f, <2>1, <2>2, <2>3, OrderlyFive
<1>2. /\ t \notin used /\ used' = used \union {t} /\ G!Begin(p, {t, i, m}, w) /\ of' = of
      /\ rows' = rows /\ trashed' = trashed /\ edges' = edges /\ attends' = attends /\ awaiting' = awaiting
      /\ made' = made /\ cuts' = cuts
  <2>1. {t} \union {i, m} = {t, i, m}
    OBVIOUS
  <2>q. QED BY <1>0, <1>m, <2>1 DEF G!Promote, G!Making
<1>4. \A s \in Among(w) : Shape(s)
  BY <1>1, <1>f, <1>k DEF Shape
<1>5. Left(p)' = Among(w)
  BY <1>2 DEF G!Begin, Left, GraphInv, Works
<1>7. \A s \in Among(w) :
        /\ s.do \in {"require", "unpromoted", "insert", "connect"} /\ s.x \in {i, t}
        /\ s.do = "connect" =>
             (s = G!Connect(i, t) /\ s.x = i /\ s.y = t) \/ (s = G!Connect(t, m) /\ s.x = t /\ s.y = m)
  BY <1>1, <1>f
<1>6. Joins(p)'
  BY <1>5, <1>7, <1>k DEF Joins
<1>8. \A y \in G!Nodes : G!Insert(y) \in Among(w) => y = t
  BY <1>1, <1>f, <1>g
<1>9. (\A y : G!Unpromoted(y) \in Among(w) => y = i) /\ (\A y, u : G!Connect(y, u) \in Among(w) => y \in {i, t})
  BY <1>7, <1>1, <1>f, <1>g
<1>10. {t, i, m} \in SUBSET G!Nodes /\ {t, i, m} # {} /\ used' \subseteq G!Nodes
  BY <1>2, <1>3, <1>k
<1>11. w \in Seq(AllStatements) /\ Orderly(w) /\ w # <<>>
  BY <1>1
<1>a. /\ rows' = rows /\ trashed' = trashed /\ edges' = edges /\ attends' = attends /\ made' = made /\ cuts' = cuts
      /\ used \subseteq used' /\ used' \subseteq G!Nodes /\ awaiting' \in {awaiting, G!Nothing}
      /\ of' \in [G!Owned -> Meetings \union {Nil}]
      /\ \A y \in G!Owned \intersect used : of'[y] = of[y]
      /\ \A y \in G!Owned \intersect used' : of'[y] \in Meetings
  BY <1>2, <1>3, <1>10, <1>k
<1>b. \A s \in Among(w) :
           /\ s.do \in {"require", "unpromoted", "insert", "connect"} \/ (p = "engine" /\ s.do = "attend")
           /\ Shape(s) /\ s.x \in {t, i, m}
           /\ s.do \in {"attend", "connect"} => s.y \in {t, i, m}
           /\ s.do \in {"unpromoted", "insert", "connect"} /\ s.x \in G!Owned => of'[s.x] \in {t, i, m}
           /\ s.x \in G!Owned => s.x \in used'
  BY <1>2, <1>4, <1>7, <1>k, <1>m
<1>c. \A y \in G!Nodes : G!Insert(y) \in Among(w) =>
        y \in used' /\ y \notin awaiting'.writes /\ (y \notin used \/ y \in awaiting.writes)
  BY <1>2, <1>3, <1>8
<1>d. \A s \in Among(w) : s.do = "connect" => \A c \in {s.x, s.y} :
           \/ \E u \in Among(w) : u.do \in {"require", "insert"} /\ (c = u.x \/ (u.x \in G!Owned /\ c = of'[u.x]))
           \/ Ready(p, s, c)'
  BY <1>1, <1>2, <1>7, <1>f, <1>k, <1>m
<1>e. /\ \A j \in Items, u \in Tickets : G!Connect(j, u) \in Among(w) => G!Unpromoted(j) \in Among(w)
      /\ \A j \in Items : G!Unpromoted(j) \in Among(w) => G!Require(j) \in Among(w)
  BY <1>1, <1>9, <1>k
<1>q. QED BY <1>2, <1>6, <1>10, <1>11, <1>a, <1>b, <1>c, <1>d, <1>e, MakingKept

LEMMA AddKnownKept ==
  ASSUME GraphInv, NEW m \in Meetings, NEW x \in People,
         x \in used, G!Alone("engine", {m, x}, <<G!Require(m), G!Require(x), G!Attend(m, x), G!Connect(m, x)>>)
  PROVE  GraphInv'
<1>0. PICK w : w = <<G!Require(m), G!Require(x), G!Attend(m, x), G!Connect(m, x)>>
  OBVIOUS
<1>k. /\ x \in G!Nodes /\ m \in G!Nodes /\ x \notin G!Owned /\ m \notin G!Owned /\ x # m /\ m \notin Items
      /\ "engine" \in G!Processes
      /\ Nil \notin G!Nodes
  BY Kinds, TwoProcesses
<1>f. /\ G!Require(m).do = "require" /\ G!Require(m).x = m /\ G!Require(m).y = Nil
      /\ G!Require(x).do = "require" /\ G!Require(x).x = x /\ G!Require(x).y = Nil
      /\ G!Attend(m, x).do = "attend" /\ G!Attend(m, x).x = m /\ G!Attend(m, x).y = x
      /\ G!Connect(m, x).do = "connect" /\ G!Connect(m, x).x = m /\ G!Connect(m, x).y = x
  BY DEF G!Require, G!Attend, G!Connect, G!Statement
<1>g. /\ \A y : G!Insert(y).x = y /\ G!Insert(y).do = "insert"
      /\ \A y : G!Unpromoted(y).x = y /\ G!Unpromoted(y).do = "unpromoted"
      /\ \A y, u : G!Connect(y, u).x = y /\ G!Connect(y, u).y = u /\ G!Connect(y, u).do = "connect"
  BY DEF G!Insert, G!Unpromoted, G!Connect, G!Statement
<1>1. /\ w \in Seq(AllStatements) /\ Orderly(w) /\ w # <<>>
      /\ Among(w) = {G!Require(m), G!Require(x), G!Attend(m, x), G!Connect(m, x)}
  <2>1. /\ "require" \in From("require") /\ "attend" \in From("require") /\ "connect" \in From("require")
        /\ "connect" \in From("attend")
    BY DEF From, Dos
  <2>2. /\ G!Require(m) # G!Require(x) /\ G!Require(m) # G!Attend(m, x) /\ G!Require(m) # G!Connect(m, x)
        /\ G!Require(x) # G!Attend(m, x) /\ G!Require(x) # G!Connect(m, x) /\ G!Attend(m, x) # G!Connect(m, x)
    BY <1>f, <1>k
  <2>3. /\ G!Require(m) \in AllStatements /\ G!Require(x) \in AllStatements /\ G!Attend(m, x) \in AllStatements
        /\ G!Connect(m, x) \in AllStatements
    BY <1>k, AreStatements
  <2>q. QED BY <1>0, <1>f, <2>1, <2>2, <2>3, OrderlyFour
<1>2. /\ x \in used /\ used' = used /\ G!Begin("engine", {m, x}, w) /\ of' = of
      /\ rows' = rows /\ trashed' = trashed /\ edges' = edges /\ attends' = attends /\ awaiting' = awaiting
      /\ made' = made /\ cuts' = cuts
  BY <1>0 DEF G!Alone, G!store
<1>3. /\ of \in [G!Owned -> Meetings \union {Nil}] /\ used \subseteq G!Nodes /\ awaiting.writes \subseteq used
      /\ \A y \in G!Owned \intersect used : of[y] \in Meetings
  BY DEF GraphInv, G!TypeOK, Ids
<1>4. \A s \in Among(w) : Shape(s)
  BY <1>1, <1>f, <1>k DEF Shape
<1>5. Left("engine")' = Among(w)
  BY <1>2, <1>k DEF G!Begin, Left, GraphInv, Works
<1>7. \A s \in Among(w) :
        /\ s.do \in {"require", "insert", "attend", "connect"} /\ s.x \in {m, x}
        /\ s.do = "connect" => s = G!Connect(m, x) /\ s.x = m /\ s.y = x
        /\ s.do = "attend" => s = G!Attend(m, x) /\ s.x = m /\ s.y = x
  BY <1>1, <1>f
<1>6. Joins("engine")'
  <2>1. /\ G!Attend(m, x) \in Among(w) /\ G!Connect(m, x) \in Among(w) /\ G!Attend(m, x)' = G!Attend(m, x)
        /\ G!Connect(m, x)' = G!Connect(m, x)
    BY <1>1 DEF G!Attend, G!Connect, G!Statement
  <2>q. QED BY <1>5, <1>7, <1>k, <2>1 DEF Joins
<1>8. \A y \in G!Nodes : G!Insert(y) \in Among(w) => y = x /\ x \notin used
  BY <1>1, <1>2, <1>f, <1>g
<1>9. \A y, u : G!Unpromoted(y) \notin Among(w) /\ (G!Connect(y, u) \in Among(w) => y = m)
  BY <1>7, <1>g
<1>10. {m, x} \in SUBSET G!Nodes /\ {m, x} # {} /\ used' \subseteq G!Nodes
  BY <1>2, <1>3, <1>k
<1>a. /\ rows' = rows /\ trashed' = trashed /\ edges' = edges /\ attends' = attends /\ made' = made /\ cuts' = cuts
      /\ used \subseteq used' /\ used' \subseteq G!Nodes /\ awaiting' \in {awaiting, G!Nothing}
      /\ of' \in [G!Owned -> Meetings \union {Nil}]
      /\ \A y \in G!Owned \intersect used : of'[y] = of[y]
      /\ \A y \in G!Owned \intersect used' : of'[y] \in Meetings
  BY <1>2, <1>3, <1>10, <1>k
<1>b. \A s \in Among(w) :
           /\ s.do \in {"require", "unpromoted", "insert", "connect"} \/ ("engine" = "engine" /\ s.do = "attend")
           /\ Shape(s) /\ s.x \in {m, x}
           /\ s.do \in {"attend", "connect"} => s.y \in {m, x}
           /\ s.do \in {"unpromoted", "insert", "connect"} /\ s.x \in G!Owned => of'[s.x] \in {m, x}
           /\ s.x \in G!Owned => s.x \in used'
  BY <1>2, <1>4, <1>7, <1>k
<1>c. \A y \in G!Nodes : G!Insert(y) \in Among(w) =>
        y \in used' /\ y \notin awaiting'.writes /\ (y \notin used \/ y \in awaiting.writes)
  BY <1>2, <1>3, <1>8
<1>d. \A s \in Among(w) : s.do = "connect" => \A c \in {s.x, s.y} :
           \/ \E u \in Among(w) : u.do \in {"require", "insert"} /\ (c = u.x \/ (u.x \in G!Owned /\ c = of'[u.x]))
           \/ Ready("engine", s, c)'
  BY <1>1, <1>7, <1>f
<1>e. /\ \A j \in Items, u \in Tickets : G!Connect(j, u) \in Among(w) => G!Unpromoted(j) \in Among(w)
      /\ \A j \in Items : G!Unpromoted(j) \in Among(w) => G!Require(j) \in Among(w)
  BY <1>9, <1>k
<1>q. QED BY <1>1, <1>2, <1>6, <1>10, <1>k, <1>a, <1>b, <1>c, <1>d, <1>e, MakingKept

LEMMA AddNewKept ==
  ASSUME GraphInv, NEW m \in Meetings, NEW x \in People,
         G!Making("engine", x, {m}, <<G!Require(m), G!Insert(x), G!Attend(m, x), G!Connect(m, x)>>), of' = of
  PROVE  GraphInv'
<1>0. PICK w : w = <<G!Require(m), G!Insert(x), G!Attend(m, x), G!Connect(m, x)>>
  OBVIOUS
<1>k. /\ x \in G!Nodes /\ m \in G!Nodes /\ x \notin G!Owned /\ m \notin G!Owned /\ x # m /\ m \notin Items
      /\ "engine" \in G!Processes
      /\ Nil \notin G!Nodes
  BY Kinds, TwoProcesses
<1>f. /\ G!Require(m).do = "require" /\ G!Require(m).x = m /\ G!Require(m).y = Nil
      /\ G!Insert(x).do = "insert" /\ G!Insert(x).x = x /\ G!Insert(x).y = Nil
      /\ G!Attend(m, x).do = "attend" /\ G!Attend(m, x).x = m /\ G!Attend(m, x).y = x
      /\ G!Connect(m, x).do = "connect" /\ G!Connect(m, x).x = m /\ G!Connect(m, x).y = x
  BY DEF G!Require, G!Insert, G!Attend, G!Connect, G!Statement
<1>g. /\ \A y : G!Insert(y).x = y /\ G!Insert(y).do = "insert"
      /\ \A y : G!Unpromoted(y).x = y /\ G!Unpromoted(y).do = "unpromoted"
      /\ \A y, u : G!Connect(y, u).x = y /\ G!Connect(y, u).y = u /\ G!Connect(y, u).do = "connect"
  BY DEF G!Insert, G!Unpromoted, G!Connect, G!Statement
<1>1. /\ w \in Seq(AllStatements) /\ Orderly(w) /\ w # <<>>
      /\ Among(w) = {G!Require(m), G!Insert(x), G!Attend(m, x), G!Connect(m, x)}
  <2>1. /\ "insert" \in From("require") /\ "attend" \in From("require") /\ "connect" \in From("require")
        /\ "attend" \in From("insert") /\ "connect" \in From("insert") /\ "connect" \in From("attend")
    BY DEF From, Dos
  <2>2. /\ G!Require(m) # G!Insert(x) /\ G!Require(m) # G!Attend(m, x) /\ G!Require(m) # G!Connect(m, x)
        /\ G!Insert(x) # G!Attend(m, x) /\ G!Insert(x) # G!Connect(m, x) /\ G!Attend(m, x) # G!Connect(m, x)
    BY <1>f, <1>k
  <2>3. /\ G!Require(m) \in AllStatements /\ G!Insert(x) \in AllStatements /\ G!Attend(m, x) \in AllStatements
        /\ G!Connect(m, x) \in AllStatements
    BY <1>k, AreStatements
  <2>q. QED BY <1>0, <1>f, <2>1, <2>2, <2>3, OrderlyFour
<1>2. /\ x \notin used /\ used' = used \union {x} /\ G!Begin("engine", {m, x}, w) /\ of' = of
      /\ rows' = rows /\ trashed' = trashed /\ edges' = edges /\ attends' = attends /\ awaiting' = awaiting
      /\ made' = made /\ cuts' = cuts
  <2>1. {x} \union {m} = {m, x}
    OBVIOUS
  <2>q. QED BY <1>0, <2>1 DEF G!Making
<1>3. /\ of \in [G!Owned -> Meetings \union {Nil}] /\ used \subseteq G!Nodes /\ awaiting.writes \subseteq used
      /\ \A y \in G!Owned \intersect used : of[y] \in Meetings
  BY DEF GraphInv, G!TypeOK, Ids
<1>4. \A s \in Among(w) : Shape(s)
  BY <1>1, <1>f, <1>k DEF Shape
<1>5. Left("engine")' = Among(w)
  BY <1>2, <1>k DEF G!Begin, Left, GraphInv, Works
<1>7. \A s \in Among(w) :
        /\ s.do \in {"require", "insert", "attend", "connect"} /\ s.x \in {m, x}
        /\ s.do = "connect" => s = G!Connect(m, x) /\ s.x = m /\ s.y = x
        /\ s.do = "attend" => s = G!Attend(m, x) /\ s.x = m /\ s.y = x
  BY <1>1, <1>f
<1>6. Joins("engine")'
  <2>1. /\ G!Attend(m, x) \in Among(w) /\ G!Connect(m, x) \in Among(w) /\ G!Attend(m, x)' = G!Attend(m, x)
        /\ G!Connect(m, x)' = G!Connect(m, x)
    BY <1>1 DEF G!Attend, G!Connect, G!Statement
  <2>q. QED BY <1>5, <1>7, <1>k, <2>1 DEF Joins
<1>8. \A y \in G!Nodes : G!Insert(y) \in Among(w) => y = x /\ x \notin used
  BY <1>1, <1>2, <1>f, <1>g
<1>9. \A y, u : G!Unpromoted(y) \notin Among(w) /\ (G!Connect(y, u) \in Among(w) => y = m)
  BY <1>7, <1>g
<1>10. {m, x} \in SUBSET G!Nodes /\ {m, x} # {} /\ used' \subseteq G!Nodes
  BY <1>2, <1>3, <1>k
<1>a. /\ rows' = rows /\ trashed' = trashed /\ edges' = edges /\ attends' = attends /\ made' = made /\ cuts' = cuts
      /\ used \subseteq used' /\ used' \subseteq G!Nodes /\ awaiting' \in {awaiting, G!Nothing}
      /\ of' \in [G!Owned -> Meetings \union {Nil}]
      /\ \A y \in G!Owned \intersect used : of'[y] = of[y]
      /\ \A y \in G!Owned \intersect used' : of'[y] \in Meetings
  BY <1>2, <1>3, <1>10, <1>k
<1>b. \A s \in Among(w) :
           /\ s.do \in {"require", "unpromoted", "insert", "connect"} \/ ("engine" = "engine" /\ s.do = "attend")
           /\ Shape(s) /\ s.x \in {m, x}
           /\ s.do \in {"attend", "connect"} => s.y \in {m, x}
           /\ s.do \in {"unpromoted", "insert", "connect"} /\ s.x \in G!Owned => of'[s.x] \in {m, x}
           /\ s.x \in G!Owned => s.x \in used'
  BY <1>2, <1>4, <1>7, <1>k
<1>c. \A y \in G!Nodes : G!Insert(y) \in Among(w) =>
        y \in used' /\ y \notin awaiting'.writes /\ (y \notin used \/ y \in awaiting.writes)
  BY <1>2, <1>3, <1>8
<1>d. \A s \in Among(w) : s.do = "connect" => \A c \in {s.x, s.y} :
           \/ \E u \in Among(w) : u.do \in {"require", "insert"} /\ (c = u.x \/ (u.x \in G!Owned /\ c = of'[u.x]))
           \/ Ready("engine", s, c)'
  BY <1>1, <1>7, <1>f
<1>e. /\ \A j \in Items, u \in Tickets : G!Connect(j, u) \in Among(w) => G!Unpromoted(j) \in Among(w)
      /\ \A j \in Items : G!Unpromoted(j) \in Among(w) => G!Require(j) \in Among(w)
  BY <1>9, <1>k
<1>q. QED BY <1>1, <1>2, <1>6, <1>10, <1>k, <1>a, <1>b, <1>c, <1>d, <1>e, MakingKept

LEMMA StoreSummaryKept == ASSUME GraphInv, NEW s \in Summaries, NEW i \in Items, G!StoreSummary(s, i) PROVE GraphInv'
<1>m. PICK m : m = awaiting.about
  OBVIOUS
<1>0. PICK w : w = <<G!Insert(s), G!Insert(i), G!Connect(s, m)>>
  OBVIOUS
<1>3. /\ of \in [G!Owned -> Meetings \union {Nil}] /\ used \subseteq G!Nodes /\ awaiting.writes \subseteq used
      /\ \A y \in G!Owned \intersect used : of[y] \in Meetings
  BY DEF GraphInv, G!TypeOK, Ids
<1>k. /\ m \in Meetings /\ s \in G!Nodes /\ i \in G!Nodes /\ m \in G!Nodes /\ i \in G!Owned /\ s \in G!Owned
      /\ m \notin G!Owned /\ s # i /\ s # m /\ i # m
      /\ s \notin Meetings /\ s \notin Items /\ Nil \notin G!Nodes /\ "engine" \in G!Processes
      /\ of[s] = m /\ of[i] = m /\ awaiting.writes = {s, i} /\ s \in used /\ i \in used
  <2>1. awaiting.for = "summary" /\ awaiting.writes = {s, i} /\ awaiting # G!Nothing
    BY DEF G!StoreSummary, G!Nothing
  <2>2. m \in Meetings /\ \A x \in awaiting.writes : x \in G!Owned => of[x] = m
    BY <1>m, <2>1 DEF GraphInv, Waits
  <2>q. QED BY <1>3, <2>1, <2>2, Kinds, TwoProcesses
<1>f. /\ G!Insert(s).do = "insert" /\ G!Insert(s).x = s /\ G!Insert(s).y = Nil
      /\ G!Insert(i).do = "insert" /\ G!Insert(i).x = i /\ G!Insert(i).y = Nil
      /\ G!Connect(s, m).do = "connect" /\ G!Connect(s, m).x = s /\ G!Connect(s, m).y = m
  BY DEF G!Insert, G!Connect, G!Statement
<1>g. /\ \A y : G!Insert(y).x = y /\ G!Insert(y).do = "insert"
      /\ \A y : G!Unpromoted(y).x = y /\ G!Unpromoted(y).do = "unpromoted"
      /\ \A y, u : G!Connect(y, u).x = y /\ G!Connect(y, u).y = u /\ G!Connect(y, u).do = "connect"
  BY DEF G!Insert, G!Unpromoted, G!Connect, G!Statement
<1>1. w \in Seq(AllStatements) /\ Orderly(w) /\ w # <<>> /\ Among(w) = {G!Insert(s), G!Insert(i), G!Connect(s, m)}
  <2>1. "insert" \in From("insert") /\ "connect" \in From("insert")
    BY DEF From, Dos
  <2>2. G!Insert(s) # G!Insert(i) /\ G!Insert(s) # G!Connect(s, m) /\ G!Insert(i) # G!Connect(s, m)
    BY <1>f, <1>k
  <2>3. G!Insert(s) \in AllStatements /\ G!Insert(i) \in AllStatements /\ G!Connect(s, m) \in AllStatements
    BY <1>k, AreStatements
  <2>q. QED BY <1>0, <1>f, <2>1, <2>2, <2>3, OrderlyThree
<1>2. /\ used' = used /\ G!Begin("engine", {s, i, m}, w) /\ of' = of
      /\ rows' = rows /\ trashed' = trashed /\ edges' = edges /\ attends' = attends /\ awaiting' = G!Nothing
      /\ made' = made /\ cuts' = cuts
  BY <1>0, <1>m DEF G!StoreSummary, G!store
<1>4. \A u \in Among(w) : Shape(u)
  BY <1>1, <1>f, <1>k DEF Shape
<1>5. Left("engine")' = Among(w)
  BY <1>2, <1>k DEF G!Begin, Left, GraphInv, Works
<1>7. \A u \in Among(w) :
        /\ u.do \in {"insert", "connect"} /\ u.x \in {s, i}
        /\ u.do = "connect" => u.x = s /\ u.y = m
  BY <1>1, <1>f
<1>6. Joins("engine")'
  BY <1>5, <1>7, <1>k, PlainJoins
<1>8. \A y \in G!Nodes : G!Insert(y) \in Among(w) => y \in {s, i}
  BY <1>1, <1>f, <1>g
<1>9. \A y, u : G!Unpromoted(y) \notin Among(w) /\ (G!Connect(y, u) \in Among(w) => y = s)
  BY <1>7, <1>g
<1>10. {s, i, m} \in SUBSET G!Nodes /\ {s, i, m} # {} /\ used' \subseteq G!Nodes /\ G!Nothing.writes = {}
  BY <1>2, <1>3, <1>k DEF G!Nothing
<1>a. /\ rows' = rows /\ trashed' = trashed /\ edges' = edges /\ attends' = attends /\ made' = made /\ cuts' = cuts
      /\ used \subseteq used' /\ used' \subseteq G!Nodes /\ awaiting' \in {awaiting, G!Nothing}
      /\ of' \in [G!Owned -> Meetings \union {Nil}]
      /\ \A y \in G!Owned \intersect used : of'[y] = of[y]
      /\ \A y \in G!Owned \intersect used' : of'[y] \in Meetings
  BY <1>2, <1>3, <1>10, <1>k
<1>b. \A v \in Among(w) :
           /\ v.do \in {"require", "unpromoted", "insert", "connect"} \/ ("engine" = "engine" /\ v.do = "attend")
           /\ Shape(v) /\ v.x \in {s, i, m}
           /\ v.do \in {"attend", "connect"} => v.y \in {s, i, m}
           /\ v.do \in {"unpromoted", "insert", "connect"} /\ v.x \in G!Owned => of'[v.x] \in {s, i, m}
           /\ v.x \in G!Owned => v.x \in used'
  BY <1>2, <1>4, <1>7, <1>k
<1>c. \A y \in G!Nodes : G!Insert(y) \in Among(w) =>
        y \in used' /\ y \notin awaiting'.writes /\ (y \notin used \/ y \in awaiting.writes)
  BY <1>2, <1>3, <1>8, <1>10, <1>k
<1>d. \A v \in Among(w) : v.do = "connect" => \A c \in {v.x, v.y} :
           \/ \E u \in Among(w) : u.do \in {"require", "insert"} /\ (c = u.x \/ (u.x \in G!Owned /\ c = of'[u.x]))
           \/ Ready("engine", v, c)'
  BY <1>1, <1>2, <1>7, <1>f, <1>k
<1>e. /\ \A j \in Items, u \in Tickets : G!Connect(j, u) \in Among(w) => G!Unpromoted(j) \in Among(w)
      /\ \A j \in Items : G!Unpromoted(j) \in Among(w) => G!Require(j) \in Among(w)
  BY <1>9, <1>k
<1>q. QED BY <1>1, <1>2, <1>6, <1>10, <1>k, <1>a, <1>b, <1>c, <1>d, <1>e, MakingKept

LEMMA CopyToNoteKept == ASSUME GraphInv, NEW n \in Notes, G!CopyToNote(n) PROVE GraphInv'
<1>m. PICK m : m = awaiting.about
  OBVIOUS
<1>0. PICK w : w = <<G!Insert(n), G!Connect(n, m)>>
  OBVIOUS
<1>3. /\ of \in [G!Owned -> Meetings \union {Nil}] /\ used \subseteq G!Nodes /\ awaiting.writes \subseteq used
      /\ \A y \in G!Owned \intersect used : of[y] \in Meetings
  BY DEF GraphInv, G!TypeOK, Ids
<1>k. /\ m \in Meetings /\ n \in G!Nodes /\ m \in G!Nodes /\ n \notin G!Owned /\ m \notin G!Owned /\ n # m
      /\ n \notin Meetings /\ n \notin Items /\ Nil \notin G!Nodes /\ "engine" \in G!Processes
      /\ awaiting.writes = {n} /\ n \in used /\ ~Pending(m) /\ m \in rows \union muddled
  <2>1. awaiting.for = "copy" /\ awaiting.writes = {n} /\ awaiting # G!Nothing
    BY DEF G!CopyToNote, G!Nothing
  <2>2. m \in Meetings /\ ~Pending(m) /\ m \in rows \union muddled
    BY <1>m, <2>1 DEF GraphInv, Waits
  <2>q. QED BY <1>3, <2>1, <2>2, Kinds, TwoProcesses
<1>f. /\ G!Insert(n).do = "insert" /\ G!Insert(n).x = n /\ G!Insert(n).y = Nil
      /\ G!Connect(n, m).do = "connect" /\ G!Connect(n, m).x = n /\ G!Connect(n, m).y = m
  BY DEF G!Insert, G!Connect, G!Statement
<1>g. /\ \A y : G!Insert(y).x = y /\ G!Insert(y).do = "insert"
      /\ \A y : G!Unpromoted(y).x = y /\ G!Unpromoted(y).do = "unpromoted"
      /\ \A y, u : G!Connect(y, u).x = y /\ G!Connect(y, u).y = u /\ G!Connect(y, u).do = "connect"
  BY DEF G!Insert, G!Unpromoted, G!Connect, G!Statement
<1>1. w \in Seq(AllStatements) /\ Orderly(w) /\ w # <<>> /\ Among(w) = {G!Insert(n), G!Connect(n, m)}
  <2>1. "connect" \in From("insert")
    BY DEF From, Dos
  <2>2. G!Insert(n) # G!Connect(n, m)
    BY <1>f, <1>k
  <2>3. G!Insert(n) \in AllStatements /\ G!Connect(n, m) \in AllStatements
    BY <1>k, AreStatements
  <2>q. QED BY <1>0, <1>f, <2>1, <2>2, <2>3, OrderlyTwo
<1>2. /\ used' = used /\ G!Begin("engine", {n, m}, w) /\ of' = of
      /\ rows' = rows /\ trashed' = trashed /\ edges' = edges /\ attends' = attends /\ awaiting' = G!Nothing
      /\ made' = made /\ cuts' = cuts
  BY <1>0, <1>m DEF G!CopyToNote, G!store
<1>4. \A u \in Among(w) : Shape(u)
  BY <1>1, <1>f, <1>k DEF Shape
<1>5. Left("engine")' = Among(w) /\ \A q \in G!Processes : q # "engine" => Left(q)' = Left(q)
  BY <1>2, <1>k DEF G!Begin, Left, GraphInv, Works
<1>7. \A u \in Among(w) :
        /\ u.do \in {"insert", "connect"} /\ u.x = n
        /\ u.do = "connect" => u.x = n /\ u.y = m
  BY <1>1, <1>f
<1>6. Joins("engine")'
  BY <1>5, <1>7, <1>k, PlainJoins
<1>8. \A y \in G!Nodes : G!Insert(y) \in Among(w) => y = n
  BY <1>1, <1>f, <1>g
<1>9. \A y, u : G!Unpromoted(y) \notin Among(w) /\ (G!Connect(y, u) \in Among(w) => y = n)
  BY <1>7, <1>g
<1>10. {n, m} \in SUBSET G!Nodes /\ {n, m} # {} /\ used' \subseteq G!Nodes /\ G!Nothing.writes = {}
  BY <1>2, <1>3, <1>k DEF G!Nothing
<1>11. ~Pending(m)'
  <2>1. G!Insert(m) \notin Among(w) /\ \A q \in G!Processes : G!Insert(m) \notin Left(q)
    BY <1>8, <1>k DEF Pending, Inserting
  <2>2. G!Insert(m)' = G!Insert(m)
    BY DEF G!Insert, G!Statement
  <2>3. ~Inserting(m)'
    BY <1>5, <2>1, <2>2 DEF Inserting
  <2>q. QED BY <1>2, <1>10, <1>k, <2>3 DEF Pending
<1>12. m \in rows \/ Muddled(m)'
  BY <1>2, <1>k DEF G!Begin, Muddled
<1>13. \A u \in Among(w) : u.do = "connect" => Ready("engine", u, m)'
  BY <1>2, <1>7, <1>11, <1>12 DEF Ready
<1>a. /\ rows' = rows /\ trashed' = trashed /\ edges' = edges /\ attends' = attends /\ made' = made /\ cuts' = cuts
      /\ used \subseteq used' /\ used' \subseteq G!Nodes /\ awaiting' \in {awaiting, G!Nothing}
      /\ of' \in [G!Owned -> Meetings \union {Nil}]
      /\ \A y \in G!Owned \intersect used : of'[y] = of[y]
      /\ \A y \in G!Owned \intersect used' : of'[y] \in Meetings
  BY <1>2, <1>3, <1>10, <1>k
<1>b. \A s \in Among(w) :
           /\ s.do \in {"require", "unpromoted", "insert", "connect"} \/ ("engine" = "engine" /\ s.do = "attend")
           /\ Shape(s) /\ s.x \in {n, m}
           /\ s.do \in {"attend", "connect"} => s.y \in {n, m}
           /\ s.do \in {"unpromoted", "insert", "connect"} /\ s.x \in G!Owned => of'[s.x] \in {n, m}
           /\ s.x \in G!Owned => s.x \in used'
  BY <1>2, <1>4, <1>7, <1>k
<1>c. \A y \in G!Nodes : G!Insert(y) \in Among(w) =>
        y \in used' /\ y \notin awaiting'.writes /\ (y \notin used \/ y \in awaiting.writes)
  BY <1>2, <1>3, <1>8, <1>10, <1>k
<1>d. \A s \in Among(w) : s.do = "connect" => \A c \in {s.x, s.y} :
           \/ \E u \in Among(w) : u.do \in {"require", "insert"} /\ (c = u.x \/ (u.x \in G!Owned /\ c = of'[u.x]))
           \/ Ready("engine", s, c)'
  BY <1>1, <1>7, <1>13, <1>f
<1>e. /\ \A j \in Items, u \in Tickets : G!Connect(j, u) \in Among(w) => G!Unpromoted(j) \in Among(w)
      /\ \A j \in Items : G!Unpromoted(j) \in Among(w) => G!Require(j) \in Among(w)
  BY <1>9, <1>k
<1>q. QED BY <1>1, <1>2, <1>6, <1>10, <1>k, <1>a, <1>b, <1>c, <1>d, <1>e, MakingKept

-----------------------------------------------------------------------------
(* Handlers that delete.                                                   *)

LEMMA SweepingKept ==
  ASSUME GraphInv, NEW about \in SUBSET G!Nodes, NEW w \in Seq(AllStatements), Orderly(w), w # <<>>, about # {},
         G!Alone("engine", about, w),
         \A s \in Among(w) :
           /\ s.do \in {"require", "detach", "delete", "purge", "empty notes"} /\ Shape(s)
           /\ s.do # "empty notes" => s.x \in about
           /\ s.x \in G!Owned => s.x \in used,
         G!EmptyNotes \in Among(w) =>
           /\ trashed \intersect Notes \subseteq about
           /\ \A s \in Among(w) : s.do # "delete"
           /\ \A n \in trashed \intersect Notes : G!Detach(n) \in Among(w),
         \A s, t \in Among(w) : s.do = "delete" => t.do # "purge" /\ (t.do = "delete" => s = t),
         \A x \in G!Nodes : G!Delete(x) \in Among(w) => x \notin Meetings /\ G!Detach(x) \in Among(w),
         \A c \in G!Nodes : G!Detach(c) \in Among(w) =>
           G!Delete(c) \in Among(w) \/ (c \in trashed \intersect Notes /\ G!EmptyNotes \in Among(w)),
         \A t \in Tickets : G!Detach(t) \in Among(w) => Head(w) = G!Delete(t),
         \A m \in Meetings : G!Purge(m) \in Among(w) => G!Require(m) \in Among(w) \/ m \in rows
  PROVE  GraphInv'
<1>1. /\ G!Begin("engine", about, w) /\ "engine" \in G!Processes
      /\ rows' = rows /\ trashed' = trashed /\ edges' = edges /\ attends' = attends /\ made' = made /\ cuts' = cuts
      /\ used' = used /\ awaiting' = awaiting /\ of' = of
  BY TwoProcesses DEF G!Alone, G!store
<1>2. Left("engine")' = Among(w) /\ hand'["engine"] = about
  BY <1>1 DEF G!Begin, Left, GraphInv, Works, G!TypeOK
<1>3. Shaped("engine")'
  <2>1. ASSUME NEW s \in Among(w) PROVE Shape(s)' /\ Handled("engine", s)'
    BY <1>1, <1>2 DEF Shape, Handled
  <2>q. QED BY <1>2, <2>1 DEF Shaped
<1>4. Sweeps("engine")'
  <2>1. G!EmptyNotes' = G!EmptyNotes /\ \A s : Clears(s)' <=> Clears(s)
    BY DEF G!EmptyNotes, G!Statement, Clears
  <2>2. \A s \in Among(w) : Clears(s) \/ s.do = "require"
    BY DEF Clears
  <2>q. QED BY <1>1, <1>2, <2>1, <2>2 DEF Sweeps
<1>5. Joins("engine")'
  <2>1. \A s \in Among(w) : s.do # "connect" /\ s.do # "attend"
    OBVIOUS
  <2>q. QED BY <1>2, <2>1 DEF Joins
<1>6. \A s \in Among(w) : s.do \notin {"connect", "insert", "unpromoted"}
  OBVIOUS
<1>7. \A y, u : G!Insert(y).do = "insert" /\ G!Connect(y, u).do = "connect"
  BY DEF G!Insert, G!Connect, G!Statement
<1>8. \A y : G!Unpromoted(y).do = "unpromoted"
  BY DEF G!Unpromoted, G!Statement
<1>9. /\ \A x \in G!Nodes : G!Insert(x) \notin Among(w)
      /\ \A i \in Items, t \in Tickets : G!Connect(i, t) \notin Among(w)
      /\ \A i \in Items : G!Unpromoted(i) \notin Among(w)
  BY <1>6, <1>7, <1>8
<1>10. /\ of' \in [G!Owned -> Meetings \union {Nil}] /\ used \subseteq used' /\ used' \subseteq G!Nodes
       /\ \A x \in G!Owned \intersect used' : of'[x] \in Meetings
  BY <1>1 DEF GraphInv, G!TypeOK, Ids
<1>11. G!EmptyNotes \in Among(w) => \A n \in trashed \intersect Notes : G!Detach(n) \in Among(w)
  OBVIOUS
<1>q. QED BY <1>1, <1>3, <1>4, <1>5, <1>6, <1>9, <1>10, <1>11, BeginKept

\* A row first, and then what touches it.
LEMMA DeleteKept ==
  ASSUME GraphInv, NEW x \in Tickets \union Items \union People, x \in used, G!Alone("engine", {x}, <<G!Delete(x), G!Detach(x)>>)
  PROVE  GraphInv'
<1>0. PICK w : w = <<G!Delete(x), G!Detach(x)>>
  OBVIOUS
<1>k. x \in G!Nodes /\ x \notin Meetings /\ x \notin Notes
  BY Kinds
<1>f. /\ G!Delete(x).do = "delete" /\ G!Delete(x).x = x /\ G!Delete(x).y = Nil
      /\ G!Detach(x).do = "detach" /\ G!Detach(x).x = x /\ G!Detach(x).y = Nil
  BY DEF G!Delete, G!Detach, G!Statement
<1>g. /\ \A y : G!Delete(y).x = y /\ G!Delete(y).do = "delete"
      /\ \A y : G!Detach(y).x = y /\ G!Detach(y).do = "detach"
      /\ \A y : G!Purge(y).do = "purge"
      /\ G!EmptyNotes.do = "empty notes"
  BY DEF G!Delete, G!Detach, G!Purge, G!EmptyNotes, G!Statement
<1>1. /\ w \in Seq(AllStatements) /\ Orderly(w) /\ w # <<>> /\ Among(w) = {G!Delete(x), G!Detach(x)}
      /\ Head(w) = G!Delete(x)
  <2>1. G!Delete(x) \in AllStatements /\ G!Detach(x) \in AllStatements
    BY <1>k, AreStatements
  <2>2. w \in Seq(AllStatements)
    BY <1>0, <2>1, TwoOf
  <2>3. DOMAIN w = {1, 2} /\ w[1] = G!Delete(x) /\ w[2] = G!Detach(x)
    BY <1>0, OfTwo
  <2>4. Distinct(w) /\ Among(w) = {G!Delete(x), G!Detach(x)}
    BY <1>f, <2>3 DEF Distinct, Among
  <2>5. w # <<>>
    BY <2>4, NoneAmong
  <2>6. Pair(w)
    BY <1>0, <1>k DEF Pair
  <2>q. QED BY <2>2, <2>3, <2>4, <2>5, <2>6, HeadOf DEF Orderly
<1>2. G!Alone("engine", {x}, w) /\ {x} \in SUBSET G!Nodes /\ {x} # {}
  BY <1>0, <1>k
<1>3. \A s \in Among(w) : s.do \in {"detach", "delete"} /\ s.x = x /\ Shape(s)
  BY <1>1, <1>f, <1>k DEF Shape
<1>4. \A s \in Among(w) :
           /\ s.do \in {"require", "detach", "delete", "purge", "empty notes"} /\ Shape(s)
           /\ s.do # "empty notes" => s.x \in {x}
           /\ s.x \in G!Owned => s.x \in used
  BY <1>3
<1>5. (\A y : G!Delete(y) \in Among(w) => y = x) /\ (\A y : G!Detach(y) \in Among(w) => y = x)
      /\ (\A y : G!Purge(y) \notin Among(w)) /\ G!EmptyNotes \notin Among(w)
  BY <1>3, <1>g
<1>6. \A s, t \in Among(w) : s.do = "delete" => t.do # "purge" /\ (t.do = "delete" => s = t)
  BY <1>1, <1>f
<1>7. /\ \A y \in G!Nodes : G!Delete(y) \in Among(w) => y \notin Meetings /\ G!Detach(y) \in Among(w)
      /\ \A c \in G!Nodes : G!Detach(c) \in Among(w) =>
           G!Delete(c) \in Among(w) \/ (c \in trashed \intersect Notes /\ G!EmptyNotes \in Among(w))
      /\ \A t \in Tickets : G!Detach(t) \in Among(w) => Head(w) = G!Delete(t)
  BY <1>1, <1>5, <1>k
<1>q. QED BY <1>1, <1>2, <1>4, <1>5, <1>6, <1>7, SweepingKept

LEMMA PurgeNoteKept == ASSUME GraphInv, NEW n \in Notes, G!PurgeNote(n) PROVE GraphInv'
<1>0. PICK w : w = <<G!Require(n), G!Detach(n), G!Delete(n)>>
  OBVIOUS
<1>k. n \in G!Nodes /\ n \notin Meetings /\ n \notin G!Owned /\ n \notin Tickets
  BY Kinds
<1>f. /\ G!Require(n).do = "require" /\ G!Require(n).x = n /\ G!Require(n).y = Nil
      /\ G!Delete(n).do = "delete" /\ G!Delete(n).x = n /\ G!Delete(n).y = Nil
      /\ G!Detach(n).do = "detach" /\ G!Detach(n).x = n /\ G!Detach(n).y = Nil
  BY DEF G!Delete, G!Detach, G!Require, G!Statement
<1>g. /\ \A y : G!Delete(y).x = y /\ G!Delete(y).do = "delete"
      /\ \A y : G!Detach(y).x = y /\ G!Detach(y).do = "detach"
      /\ \A y : G!Purge(y).do = "purge"
      /\ G!EmptyNotes.do = "empty notes"
  BY DEF G!Delete, G!Detach, G!Purge, G!EmptyNotes, G!Statement
<1>1. w \in Seq(AllStatements) /\ Orderly(w) /\ w # <<>> /\ Among(w) = {G!Require(n), G!Detach(n), G!Delete(n)}
  <2>1. "detach" \in From("require") /\ "delete" \in From("require") /\ "delete" \in From("detach")
    BY DEF From, Dos
  <2>2. G!Require(n) # G!Detach(n) /\ G!Require(n) # G!Delete(n) /\ G!Detach(n) # G!Delete(n)
    BY <1>f
  <2>3. G!Require(n) \in AllStatements /\ G!Detach(n) \in AllStatements /\ G!Delete(n) \in AllStatements
    BY <1>k, AreStatements
  <2>q. QED BY <1>0, <1>f, <2>1, <2>2, <2>3, OrderlyThree
<1>2. G!Alone("engine", {n}, w) /\ {n} \in SUBSET G!Nodes /\ {n} # {}
  BY <1>0, <1>k DEF G!PurgeNote
<1>3. \A s \in Among(w) : s.do \in {"require", "detach", "delete"} /\ s.x = n /\ Shape(s)
  BY <1>1, <1>f, <1>k DEF Shape
<1>4. \A s \in Among(w) :
           /\ s.do \in {"require", "detach", "delete", "purge", "empty notes"} /\ Shape(s)
           /\ s.do # "empty notes" => s.x \in {n}
           /\ s.x \in G!Owned => s.x \in used
  BY <1>3, <1>k
<1>5. (\A y : G!Delete(y) \in Among(w) => y = n) /\ (\A y : G!Detach(y) \in Among(w) => y = n)
      /\ (\A y : G!Purge(y) \notin Among(w)) /\ G!EmptyNotes \notin Among(w)
  BY <1>3, <1>g
<1>6. \A s, t \in Among(w) : s.do = "delete" => t.do # "purge" /\ (t.do = "delete" => s = t)
  BY <1>1, <1>f
<1>7. /\ \A y \in G!Nodes : G!Delete(y) \in Among(w) => y \notin Meetings /\ G!Detach(y) \in Among(w)
      /\ \A c \in G!Nodes : G!Detach(c) \in Among(w) =>
           G!Delete(c) \in Among(w) \/ (c \in trashed \intersect Notes /\ G!EmptyNotes \in Among(w))
      /\ \A t \in Tickets : G!Detach(t) \in Among(w) => Head(w) = G!Delete(t)
  BY <1>1, <1>5, <1>k
<1>q. QED BY <1>1, <1>2, <1>4, <1>5, <1>6, <1>7, SweepingKept

LEMMA PurgeMeetingKept == ASSUME GraphInv, NEW m \in Meetings, G!PurgeMeeting(m) PROVE GraphInv'
<1>0. PICK w : w = <<G!Require(m), G!Purge(m)>>
  OBVIOUS
<1>b. PICK about : about = {m} \union G!OwnedBy(m)
  OBVIOUS
<1>k. m \in G!Nodes /\ m \notin G!Owned /\ G!OwnedBy(m) \subseteq G!Nodes
  BY Kinds DEF G!OwnedBy
<1>f. /\ G!Require(m).do = "require" /\ G!Require(m).x = m /\ G!Require(m).y = Nil
      /\ G!Purge(m).do = "purge" /\ G!Purge(m).x = m /\ G!Purge(m).y = Nil
  BY DEF G!Purge, G!Require, G!Statement
<1>g. /\ \A y : G!Delete(y).do = "delete"
      /\ \A y : G!Detach(y).do = "detach"
      /\ \A y : G!Purge(y).x = y
      /\ G!EmptyNotes.do = "empty notes"
  BY DEF G!Delete, G!Detach, G!Purge, G!EmptyNotes, G!Statement
<1>1. w \in Seq(AllStatements) /\ Orderly(w) /\ w # <<>> /\ Among(w) = {G!Require(m), G!Purge(m)}
  <2>1. "purge" \in From("require")
    BY DEF From, Dos
  <2>2. G!Require(m) # G!Purge(m)
    BY <1>f
  <2>3. G!Require(m) \in AllStatements /\ G!Purge(m) \in AllStatements
    BY <1>k, AreStatements
  <2>q. QED BY <1>0, <1>f, <2>1, <2>2, <2>3, OrderlyTwo
<1>2. G!Alone("engine", about, w) /\ about \in SUBSET G!Nodes /\ about # {} /\ m \in about
  BY <1>0, <1>b, <1>k DEF G!PurgeMeeting
<1>3. \A s \in Among(w) : s.do \in {"require", "purge"} /\ s.x = m /\ Shape(s)
  BY <1>1, <1>f, <1>k DEF Shape
<1>4. \A s \in Among(w) :
           /\ s.do \in {"require", "detach", "delete", "purge", "empty notes"} /\ Shape(s)
           /\ s.do # "empty notes" => s.x \in about
           /\ s.x \in G!Owned => s.x \in used
  BY <1>2, <1>3, <1>k
<1>5. (\A y : G!Delete(y) \notin Among(w)) /\ (\A y : G!Detach(y) \notin Among(w))
      /\ (\A y : G!Purge(y) \in Among(w) => y = m) /\ G!EmptyNotes \notin Among(w)
  BY <1>3, <1>g
<1>6. \A s, t \in Among(w) : s.do = "delete" => t.do # "purge" /\ (t.do = "delete" => s = t)
  BY <1>3
<1>7. \A n \in Meetings : G!Purge(n) \in Among(w) => G!Require(n) \in Among(w) \/ n \in rows
  BY <1>1, <1>5
<1>q. QED BY <1>1, <1>2, <1>4, <1>5, <1>6, <1>7, SweepingKept

LEMMA EmptyTrashKept == ASSUME GraphInv, G!EmptyTrash PROVE GraphInv'
<1>n. PICK memos : memos = trashed \intersect Notes
  OBVIOUS
<1>m. PICK talks : talks = trashed \intersect Meetings
  OBVIOUS
<1>a. PICK a : a = G!Each(memos, "detach")
  OBVIOUS
<1>b. PICK b : b = G!Each(talks, "purge")
  OBVIOUS
<1>c. PICK c : c = <<G!EmptyNotes>>
  OBVIOUS
<1>w. PICK w : w = a \o b \o c
  OBVIOUS
<1>o. PICK about : about = trashed \union UNION {G!OwnedBy(x) : x \in talks}
  OBVIOUS
<1>0. trashed # {} /\ G!Alone("engine", about, w)
  BY <1>n, <1>m, <1>a, <1>b, <1>c, <1>w, <1>o DEF G!EmptyTrash
<1>k. /\ trashed \subseteq rows /\ memos \subseteq G!Nodes /\ talks \subseteq G!Nodes /\ memos \subseteq Notes
      /\ talks \subseteq Meetings
      /\ memos \intersect G!Owned = {} /\ talks \intersect G!Owned = {} /\ talks \subseteq rows
      /\ memos \intersect Tickets = {} /\ trashed \subseteq G!Nodes
      /\ memos \in SUBSET rows /\ talks \in SUBSET rows
  BY <1>n, <1>m, Kinds DEF GraphInv, G!TypeOK
<1>s. IsFiniteSet(memos) /\ IsFiniteSet(talks)
  BY <1>k, FS_Subset DEF GraphInv, Ids
<1>1. a \in Seq(AllStatements) /\ Distinct(a) /\ Sorted(a) /\ Among(a) = {G!Detach(x) : x \in memos}
  BY <1>a, <1>k, <1>s, EachIs DEF Dos, G!Detach
<1>2. b \in Seq(AllStatements) /\ Distinct(b) /\ Sorted(b) /\ Among(b) = {G!Purge(x) : x \in talks}
  BY <1>b, <1>k, <1>s, EachIs DEF Dos, G!Purge
<1>3. c \in Seq(AllStatements) /\ Distinct(c) /\ Sorted(c) /\ Among(c) = {G!EmptyNotes}
  <2>1. G!EmptyNotes \in AllStatements
    BY DEF G!EmptyNotes, G!Statement, AllStatements, Dos
  <2>2. c \in Seq(AllStatements) /\ DOMAIN c = {1} /\ c[1] = G!EmptyNotes
    BY <1>c, <2>1
  <2>q. QED BY <2>2 DEF Distinct, Sorted, Among
<1>f. /\ \A y : G!Detach(y).x = y /\ G!Detach(y).do = "detach" /\ G!Detach(y).y = Nil
      /\ \A y : G!Purge(y).x = y /\ G!Purge(y).do = "purge" /\ G!Purge(y).y = Nil
      /\ \A y : G!Delete(y).do = "delete"
      /\ \A y : G!Require(y).do = "require"
      /\ G!EmptyNotes.do = "empty notes" /\ G!EmptyNotes.x = Nil /\ G!EmptyNotes.y = Nil
  BY DEF G!Delete, G!Detach, G!Purge, G!Require, G!EmptyNotes, G!Statement
<1>4. (\A s \in Among(a) : s.do = "detach") /\ (\A s \in Among(b) : s.do = "purge") /\ (\A s \in Among(c) : s.do = "empty notes")
  <2>1. ASSUME NEW s \in Among(a) PROVE s.do = "detach"
    <3>1. PICK x \in memos : s = G!Detach(x)
      BY <1>1
    <3>q. QED BY <3>1, <1>f
  <2>2. ASSUME NEW s \in Among(b) PROVE s.do = "purge"
    <3>1. PICK x \in talks : s = G!Purge(x)
      BY <1>2
    <3>q. QED BY <3>1, <1>f
  <2>q. QED BY <1>3, <1>f, <2>1, <2>2
<1>5. "purge" \in From("detach") /\ "empty notes" \in From("detach") /\ "empty notes" \in From("purge")
  BY DEF From
<1>6. a \o b \in Seq(AllStatements) /\ Distinct(a \o b) /\ Sorted(a \o b) /\ Among(a \o b) = Among(a) \union Among(b)
  <2>1. \A s \in Among(a), t \in Among(b) : s # t /\ t.do \in From(s.do)
    BY <1>4, <1>5
  <2>q. QED BY <1>1, <1>2, <2>1, Joined
<1>d. PICK d : d = a \o b
  OBVIOUS
<1>7. d \o c \in Seq(AllStatements) /\ Distinct(d \o c) /\ Sorted(d \o c) /\ Among(d \o c) = Among(d) \union Among(c)
  <2>1. \A s \in Among(d), t \in Among(c) : s # t /\ t.do \in From(s.do)
    BY <1>4, <1>5, <1>6, <1>d
  <2>2. d \in Seq(AllStatements) /\ Distinct(d) /\ Sorted(d)
    BY <1>6, <1>d
  <2>q. QED BY <1>3, <2>1, <2>2, Joined
<1>e. w = d \o c
  BY <1>1, <1>2, <1>3, <1>d, <1>w
<1>8. /\ w \in Seq(AllStatements) /\ Orderly(w) /\ w # <<>>
      /\ Among(w) = {G!Detach(x) : x \in memos} \union {G!Purge(x) : x \in talks} \union {G!EmptyNotes}
  <2>1. Among(w) = {G!Detach(x) : x \in memos} \union {G!Purge(x) : x \in talks} \union {G!EmptyNotes}
    BY <1>1, <1>2, <1>3, <1>6, <1>7, <1>d, <1>e
  <2>2. w # <<>>
    BY <2>1, NoneAmong
  <2>q. QED BY <1>7, <1>e, <2>1, <2>2 DEF Orderly
<1>9. /\ about \in SUBSET G!Nodes /\ about # {} /\ trashed \subseteq about /\ memos \subseteq about
      /\ talks \subseteq about
  <2>1. \A x : G!OwnedBy(x) \subseteq G!Nodes
    BY Kinds DEF G!OwnedBy
  <2>q. QED BY <1>0, <1>k, <1>m, <1>n, <1>o, <2>1
<1>10. \A s \in Among(w) :
         \/ s.do = "detach" /\ s.x \in memos /\ s.y = Nil
         \/ s.do = "purge" /\ s.x \in talks /\ s.y = Nil
         \/ s.do = "empty notes" /\ s.x = Nil /\ s.y = Nil
  <2>1. ASSUME NEW x \in memos, NEW s, s = G!Detach(x) PROVE s.do = "detach" /\ s.x \in memos /\ s.y = Nil
    BY <1>f, <2>1
  <2>2. ASSUME NEW x \in talks, NEW s, s = G!Purge(x) PROVE s.do = "purge" /\ s.x \in talks /\ s.y = Nil
    BY <1>f, <2>2
  <2>q. QED BY <1>8, <1>f, <2>1, <2>2
<1>11. \A s \in Among(w) : Shape(s)
  BY <1>10, <1>k, Kinds DEF Shape
<1>12. \A s \in Among(w) :
           /\ s.do \in {"require", "detach", "delete", "purge", "empty notes"} /\ Shape(s)
           /\ s.do # "empty notes" => s.x \in about
           /\ s.x \in G!Owned => s.x \in used
  BY <1>9, <1>10, <1>11, <1>k, Kinds
<1>13. G!EmptyNotes \in Among(w) /\ \A n \in memos : G!Detach(n) \in Among(w)
  BY <1>8
<1>14. \A s, t \in Among(w) : s.do # "delete"
  BY <1>10
<1>15. \A y : G!Delete(y) \notin Among(w)
  BY <1>10, <1>f
<1>16. \A y : G!Detach(y) \in Among(w) => y \in memos
  BY <1>10, <1>f
<1>17. \A y : G!Purge(y) \in Among(w) => y \in talks
  BY <1>10, <1>f
<1>18. /\ G!EmptyNotes \in Among(w) =>
            /\ trashed \intersect Notes \subseteq about
            /\ \A s \in Among(w) : s.do # "delete"
            /\ \A n \in trashed \intersect Notes : G!Detach(n) \in Among(w)
       /\ \A y \in G!Nodes : G!Detach(y) \in Among(w) =>
            G!Delete(y) \in Among(w) \/ (y \in trashed \intersect Notes /\ G!EmptyNotes \in Among(w))
       /\ \A t \in Tickets : G!Detach(t) \in Among(w) => Head(w) = G!Delete(t)
       /\ \A x \in Meetings : G!Purge(x) \in Among(w) => G!Require(x) \in Among(w) \/ x \in rows
  BY <1>9, <1>13, <1>14, <1>16, <1>17, <1>k, <1>n
<1>q. QED BY <1>0, <1>8, <1>9, <1>12, <1>14, <1>15, <1>18, SweepingKept

-----------------------------------------------------------------------------
(* What happens between the handlers.                                      *)

LEMMA AsideKept ==
  ASSUME GraphInv, work' = work, hand' = hand, rows' = rows, edges' = edges, attends' = attends, made' = made,
         muddled' = muddled, cuts' = cuts,
         trashed' \subseteq rows \intersect (Meetings \union Notes), trashed' = trashed \/ work["engine"] = <<>>,
         used \subseteq used', used' \subseteq G!Nodes, of' \in [G!Owned -> Meetings \union {Nil}],
         \A x \in G!Owned \intersect used : of'[x] = of[x],
         \A x \in G!Owned \intersect used' : of'[x] \in Meetings,
         awaiting'.for \in {"nothing", "summary", "copy"}, awaiting'.writes \subseteq used',
         \A x \in awaiting'.writes : x \in awaiting.writes \/ x \notin used,
         awaiting'.for = "copy" /\ awaiting'.about \in hand["engine"] => awaiting'.about \in muddled,
         awaiting'.for = "nothing" <=> awaiting' = G!Nothing,
         awaiting' # G!Nothing => awaiting'.about \in Meetings /\ ~Pending(awaiting'.about),
         awaiting'.for = "copy" => awaiting'.about \in rows \union muddled,
         awaiting'.for = "summary" => \A x \in awaiting'.writes : x \in G!Owned => of'[x] = awaiting'.about
  PROVE  GraphInv'
<1>1. \A q : Left(q)' = Left(q)
  BY DEF Left, Among
<1>2. Works' /\ G!TypeOK'
  BY DEF GraphInv, Works, G!TypeOK
<1>3. \A x : (G!Insert(x)' = G!Insert(x) /\ G!Delete(x)' = G!Delete(x) /\ G!Detach(x)' = G!Detach(x)) /\ G!EmptyNotes' = G!EmptyNotes
  BY DEF G!Insert, G!Delete, G!Detach, G!EmptyNotes, G!Statement
<1>4. \A x \in G!Nodes : Pending(x)' => Pending(x)
  BY <1>1, <1>3 DEF Pending, Inserting
<1>5. (\A x \in rows : x \in used) /\ \A e \in made : e[1] \in used /\ e[2] \in used
  BY DEF GraphInv, Ids, G!TypeOK, Pending
<1>6. \A x : (x \in G!Owned => x \in used) => (Muddled(x)' <=> Muddled(x))
  BY DEF Muddled
<1>7. \A e \in made : Astray(e)' <=> Astray(e)
  BY <1>5, <1>6 DEF Astray
<1>8. trashed' = trashed \/ Left("engine") = {}
  BY NoneAmong DEF Left
<1>9. \A x : (x \in G!Owned => x \in used) => (Doomed(x)' <=> Doomed(x))
  <2>1. \A x : G!Delete(of[x])' = G!Delete(of'[x])
    BY DEF G!Delete, G!Statement
  <2>2. ASSUME NEW x, x \in G!Owned => x \in used, trashed' = trashed PROVE Doomed(x)' <=> Doomed(x)
    BY <1>1, <1>3, <2>1, <2>2 DEF Doomed
  <2>3. ASSUME NEW x, Left("engine") = {} PROVE Doomed(x)' <=> Doomed(x)
    BY <1>1, <2>3 DEF Doomed
  <2>q. QED BY <1>8, <2>2, <2>3
<1>10. Plans'
  <2>1. ASSUME NEW q \in G!Processes PROVE Shaped(q)' /\ Sweeps(q)' /\ Joins(q)'
    <3>1. Shaped(q) /\ Sweeps(q) /\ Joins(q)
      BY DEF GraphInv, Plans
    <3>2. Shaped(q)'
      <4>1. ASSUME NEW t \in Left(q) PROVE Shape(t)' /\ Handled(q, t)'
        <5>1. Shape(t) /\ Handled(q, t)
          BY <3>1 DEF Shaped
        <5>2. t.x \in G!Owned => t.x \in used /\ of'[t.x] = of[t.x]
          BY <5>1 DEF Handled
        <5>q. QED BY <5>1, <5>2 DEF Shape, Handled
      <4>q. QED BY <1>1, <4>1 DEF Shaped
    <3>3. Sweeps(q)'
      <4>1. G!EmptyNotes \in Left(q) => trashed' = trashed
        <5>1. G!EmptyNotes.do = "empty notes"
          BY DEF G!EmptyNotes, G!Statement
        <5>2. q = "mcp" => G!EmptyNotes \notin Left(q)
          BY <3>1, <5>1 DEF Sweeps, Clears
        <5>q. QED BY <1>8, <5>2, TwoProcesses
      <4>q. QED BY <1>1, <1>3, <3>1, <4>1 DEF Sweeps, Clears
    <3>4. Joins(q)'
      BY <1>1, <3>1 DEF Joins, G!Attend, G!Connect, G!Statement
    <3>q. QED BY <3>2, <3>3, <3>4
  <2>q. QED BY <2>1 DEF Plans
<1>11. HandsApart'
  BY DEF GraphInv, HandsApart
<1>12. Ids'
  <2>1. \A q \in G!Processes, x \in G!Nodes : G!Insert(x) \in Left(q) =>
          x \in used' /\ x \notin awaiting'.writes /\ \A r \in G!Processes \ {q} : G!Insert(x) \notin Left(r)
    BY DEF GraphInv, Ids
  <2>2. \A q \in G!Processes, x \in G!Nodes : G!Insert(x)' \in Left(q)' =>
          x \in used' /\ x \notin awaiting'.writes /\ \A r \in G!Processes \ {q} : G!Insert(x)' \notin Left(r)'
    BY <1>1, <1>3, <2>1
  <2>3. \A x \in G!Nodes : Pending(x)' => x \notin rows' /\ \A e \in made' : x \notin {e[1], e[2]}
    BY <1>4 DEF GraphInv, Ids
  <2>4. \A x \in G!Owned \intersect rows' : of'[x] \in rows'
    BY <1>5 DEF GraphInv, Ids
  <2>q. QED BY <2>2, <2>3, <2>4 DEF GraphInv, Ids
<1>13. Waits'
  <2>1. G!Nothing' = G!Nothing
    BY DEF G!Nothing
  <2>2. awaiting' # G!Nothing => ~Pending(awaiting.about)'
    <3>1. ASSUME NEW m, m = awaiting', m # G!Nothing PROVE ~Pending(m.about)'
      <4>1. m.about \in G!Nodes /\ ~Pending(m.about)
        BY <3>1, Kinds
      <4>2. PICK a : a = m.about
        OBVIOUS
      <4>3. ~Pending(a)'
        BY <1>4, <4>1, <4>2
      <4>q. QED BY <4>2, <4>3
    <3>2. PICK m : m = awaiting'
      OBVIOUS
    <3>3. m # G!Nothing => ~Pending(m.about)'
      BY <3>1, <3>2
    <3>4. Pending(m.about)' <=> Pending(awaiting.about)'
      BY <3>2 DEF Pending, Inserting, G!Insert, G!Statement
    <3>q. QED BY <3>2, <3>3, <3>4
  <2>q. QED BY <2>1, <2>2 DEF Waits
<1>14. Supports'
  <2>1. ASSUME NEW q \in G!Processes, NEW t \in Left(q), t.do = "connect", NEW c \in {t.x, t.y} PROVE Ready(q, t, c)'
    <3>2. Ready(q, t, c) /\ Shape(t) /\ Handled(q, t)
      BY <2>1 DEF GraphInv, Supports, Plans, Shaped
    <3>3. CASE Supported(q, c)
      <4>1. PICK u \in Left(q) : u.do \in {"require", "insert"} /\ (c = u.x \/ (u.x \in G!Owned /\ c = of[u.x]))
        BY <3>3 DEF Supported
      <4>2. Handled(q, u)
        BY DEF GraphInv, Plans, Shaped
      <4>3. u.x \in G!Owned => of'[u.x] = of[u.x]
        BY <4>2 DEF Handled
      <4>q. QED BY <1>1, <4>1, <4>3 DEF Ready, Supported
    <3>4. CASE ~Pending(c) /\ (c \in rows \/ Muddled(t.x) \/ Muddled(t.y))
      <4>1. c \in G!Nodes
        BY <2>1, <3>2 DEF Shape
      <4>2. Muddled(t.x) \/ Muddled(t.y) => Muddled(t.x)' \/ Muddled(t.y)'
        BY <1>6, <2>1, <3>2 DEF Shape, Handled
      <4>q. QED BY <1>4, <3>4, <4>1, <4>2 DEF Ready
    <3>q. QED BY <3>2, <3>3, <3>4 DEF Ready
  <2>q. QED BY <1>1, <2>1 DEF Supports
<1>15. edges \subseteq made
  BY DEF GraphInv, G!TypeOK
<1>16. Clean => Clean'
  BY <1>5, <1>6, <1>7, <1>15, Kinds DEF Clean
<1>17. Cleared'
  <2>1. ASSUME NEW e \in edges, NEW c \in {e[1], e[2]}, c \notin rows \/ Doomed(c)'
        PROVE  Astray(e)' \/ G!Detach(c) \in Left("engine")
    <3>1. e \in made /\ c \in used
      BY <1>5, <1>15, <2>1
    <3>2. Astray(e) \/ G!Detach(c) \in Left("engine")
      BY <1>9, <2>1, <3>1 DEF GraphInv, Cleared
    <3>q. QED BY <1>7, <3>1, <3>2
  <2>q. QED BY <1>1, <1>3, <2>1 DEF Cleared
<1>18. Kept'
  BY <1>5, <1>7, <1>9 DEF GraphInv, Kept
<1>19. TicketsKept'
  BY <1>5, <1>6, <1>9 DEF GraphInv, TicketsKept
<1>20. Mentioned'
  <2>1. ASSUME NEW m \in Meetings, NEW x \in People
        PROVE  (Muddled(m) => Muddled(m)') /\ (Muddled(x) => Muddled(x)') /\ (Doomed(m) => Doomed(m)') /\ (Doomed(x) => Doomed(x)')
    <3>1. m \notin G!Owned /\ x \notin G!Owned
      BY Kinds
    <3>q. QED BY <1>6, <1>9, <3>1
  <2>2. ASSUME NEW m \in Meetings, NEW x \in People, <<m, x>> \in attends
        PROVE  \/ <<m, x>> \in edges \/ Muddled(m)' \/ Muddled(x)' \/ Doomed(m)' \/ Doomed(x)'
               \/ (G!Connect(m, x) \in Left("engine")' /\ G!Attend(m, x) \notin Left("engine")')
    BY <1>1, <2>1, <2>2 DEF GraphInv, Mentioned
  <2>3. \A m \in Meetings, x \in People : <<m, x>> \in edges => <<m, x>> \in attends \/ m \notin rows \/ x \notin rows
    BY DEF GraphInv, Mentioned
  <2>4. \A m, x : G!Connect(m, x)' = G!Connect(m, x) /\ G!Attend(m, x)' = G!Attend(m, x)
    BY DEF G!Connect, G!Attend, G!Statement
  <2>q. QED BY <2>2, <2>3, <2>4 DEF Mentioned
<1>21. OnePromotion'
  <2>1. \A i : Promoted(i)' = Promoted(i)
    BY DEF Promoted
  <2>2. ASSUME NEW i \in Items PROVE Muddled(i)' \/ \A t, u \in Promoted(i) : t = u
    <3>1. CASE i \in used
      BY <1>6, <3>1 DEF GraphInv, OnePromotion
    <3>2. CASE i \notin used
      <4>1. Promoted(i) = {}
        BY <1>5, <3>2 DEF Promoted
      <4>q. QED BY <4>1
    <3>q. QED BY <3>1, <3>2
  <2>3. ASSUME NEW i \in Items, NEW q \in G!Processes, NEW t \in Tickets, G!Connect(i, t) \in Left(q)
        PROVE  Muddled(i)' \/ G!Unpromoted(i) \in Left(q) \/ Promoted(i) = {}
    <3>1. Handled(q, G!Connect(i, t))
      BY <2>3 DEF GraphInv, Plans, Shaped
    <3>2. i \in used
      BY <3>1, Kinds DEF Handled, G!Connect, G!Statement
    <3>q. QED BY <1>6, <2>3, <3>2 DEF GraphInv, OnePromotion
  <2>4. ASSUME NEW i \in Items, NEW q \in G!Processes, G!Unpromoted(i) \in Left(q)
        PROVE  Muddled(i)' \/ G!Require(i) \in Left(q) \/ i \in rows
    <3>1. Handled(q, G!Unpromoted(i))
      BY <2>4 DEF GraphInv, Plans, Shaped
    <3>2. i \in used
      BY <3>1, Kinds DEF Handled, G!Unpromoted, G!Statement
    <3>q. QED BY <1>6, <2>4, <3>2 DEF GraphInv, OnePromotion
  <2>5. \A i, t : G!Connect(i, t)' = G!Connect(i, t) /\ G!Unpromoted(i)' = G!Unpromoted(i) /\ G!Require(i)' = G!Require(i)
    BY DEF G!Connect, G!Unpromoted, G!Require, G!Statement
  <2>q. QED BY <1>1, <2>1, <2>2, <2>3, <2>4, <2>5 DEF OnePromotion
<1>22. Clearing'
  <2>1. ASSUME NEW c \in G!Nodes, G!Detach(c) \in Left("engine") PROVE Doomed(c)' \/ (c \notin rows /\ ~Pending(c)')
    <3>1. Handled("engine", G!Detach(c))
      BY <2>1, TwoProcesses DEF GraphInv, Plans, Shaped
    <3>2. c \in G!Owned => c \in used
      BY <3>1 DEF Handled, G!Detach, G!Statement
    <3>q. QED BY <1>4, <1>9, <2>1, <3>2 DEF GraphInv, Clearing
  <2>2. \A t \in Tickets : G!Detach(t) \in Left("engine") =>
          Head(work["engine"]) = G!Delete(t) \/ (t \notin rows /\ G!Delete(t) \notin Left("engine"))
    BY DEF GraphInv, Clearing
  <2>3. \A m \in Meetings : G!Purge(m)' \in Left("engine")' => G!Require(m)' \in Left("engine")' \/ m \in rows
    BY <1>1 DEF GraphInv, Clearing, G!Purge, G!Require, G!Statement
  <2>4. (\E s \in Left("engine") : Clears(s)) /\ (\E s \in Left("engine") : s.do = "require" \/ (s.do = "delete" /\ s.x \notin rows))
          => Clean'
    BY <1>16 DEF GraphInv, Clearing
  <2>5. \A s : Clears(s)' <=> Clears(s)
    BY DEF Clears
  <2>q. QED BY <1>1, <1>3, <2>1, <2>2, <2>3, <2>4, <2>5 DEF Clearing
<1>q. QED BY <1>2, <1>10, <1>11, <1>12, <1>13, <1>14, <1>17, <1>18, <1>19, <1>20, <1>21, <1>22 DEF GraphInv

LEMMA TrashKept == ASSUME GraphInv, NEW x \in Meetings \union Notes, G!Trash(x) \/ G!Restore(x) PROVE GraphInv'
<1>1. /\ work["engine"] = <<>>
      /\ UNCHANGED <<rows, of, edges, attends, work, hand, awaiting, used, made, muddled, cuts>>
      /\ trashed' \subseteq trashed \union (rows \intersect {x})
  BY DEF G!Trash, G!Restore
<1>2. /\ trashed' \subseteq rows \intersect (Meetings \union Notes) /\ used \subseteq G!Nodes
      /\ of \in [G!Owned -> Meetings \union {Nil}]
      /\ awaiting.for \in {"nothing", "summary", "copy"} /\ awaiting.writes \subseteq used
  BY <1>1 DEF GraphInv, G!TypeOK
<1>3. \A y \in G!Owned \intersect used : of[y] \in Meetings
  BY DEF GraphInv, Ids
<1>q. QED BY <1>1, <1>2, <1>3, AsideKept DEF GraphInv, HandsApart, Waits

LEMMA GiveUpKept == ASSUME GraphInv, G!GiveUp PROVE GraphInv'
<1>1. awaiting' = G!Nothing /\ UNCHANGED <<rows, trashed, of, edges, attends, work, hand, used, made, muddled, cuts>>
  BY DEF G!GiveUp, G!store
<1>2. /\ trashed \subseteq rows \intersect (Meetings \union Notes) /\ used \subseteq G!Nodes
      /\ of \in [G!Owned -> Meetings \union {Nil}]
  BY DEF GraphInv, G!TypeOK
<1>3. G!Nothing.for = "nothing" /\ G!Nothing.writes = {}
  BY DEF G!Nothing
<1>4. \A y \in G!Owned \intersect used : of[y] \in Meetings
  BY DEF GraphInv, Ids
<1>q. QED BY <1>1, <1>2, <1>3, <1>4, AsideKept

LEMMA AskForSummaryKept ==
  ASSUME GraphInv, NEW m \in Meetings, NEW s \in Summaries, NEW i \in Items, G!AskForSummary(m, s, i) PROVE GraphInv'
<1>1. /\ m \in rows /\ s \notin used /\ i \notin used /\ used' = used \union {s, i}
      /\ of' = [of EXCEPT ![s] = m, ![i] = m]
      /\ awaiting' = [for |-> "summary", about |-> m, writes |-> {s, i}]
      /\ UNCHANGED <<rows, trashed, edges, attends, work, hand, made, muddled, cuts>>
  BY DEF G!AskForSummary
<1>2. /\ trashed \subseteq rows \intersect (Meetings \union Notes) /\ used \subseteq G!Nodes
      /\ of \in [G!Owned -> Meetings \union {Nil}]
  BY DEF GraphInv, G!TypeOK
<1>3. s \in G!Owned /\ i \in G!Owned /\ s # i /\ s \in G!Nodes /\ i \in G!Nodes /\ m \in G!Nodes
  BY Kinds
<1>4. /\ of' \in [G!Owned -> Meetings \union {Nil}] /\ of'[s] = m /\ of'[i] = m
      /\ \A y \in G!Owned : y \notin {s, i} => of'[y] = of[y]
  BY <1>1, <1>2, <1>3
<1>5. \A y \in G!Owned \intersect used : of[y] \in Meetings
  BY DEF GraphInv, Ids
<1>6. ~Pending(m)
  BY <1>1, <1>3 DEF GraphInv, Ids
<1>7. awaiting'.for = "summary" /\ awaiting'.about = m /\ awaiting'.writes = {s, i} /\ awaiting' # G!Nothing
  BY <1>1 DEF G!Nothing
<1>8. \A y \in G!Owned \intersect used : of'[y] = of[y]
  BY <1>1, <1>4
<1>9. \A y \in G!Owned \intersect used' : of'[y] \in Meetings
  BY <1>1, <1>4, <1>5
<1>10. ~Pending(awaiting'.about)
  BY <1>6, <1>7
<1>11. used \subseteq used' /\ used' \subseteq G!Nodes /\ awaiting'.writes \subseteq used'
  BY <1>1, <1>2, <1>3, <1>7
<1>12. \A y \in awaiting'.writes : y \notin used /\ (y \in G!Owned => of'[y] = awaiting'.about)
  BY <1>1, <1>4, <1>7
<1>q. QED BY <1>1, <1>2, <1>4, <1>7, <1>8, <1>9, <1>10, <1>11, <1>12, AsideKept

LEMMA ReadForCopyKept == ASSUME GraphInv, NEW m \in Meetings, NEW n \in Notes, G!ReadForCopy(m, n) PROVE GraphInv'
<1>1. /\ m \in rows /\ n \notin used /\ used' = used \union {n} /\ work["engine"] = <<>>
      /\ awaiting' = [for |-> "copy", about |-> m, writes |-> {n}]
      /\ UNCHANGED <<rows, trashed, of, edges, attends, work, hand, made, muddled, cuts>>
  BY DEF G!ReadForCopy, G!store
<1>2. /\ trashed \subseteq rows \intersect (Meetings \union Notes) /\ used \subseteq G!Nodes
      /\ of \in [G!Owned -> Meetings \union {Nil}]
      /\ hand["engine"] = {}
  BY <1>1, TwoProcesses DEF GraphInv, G!TypeOK
<1>3. n \notin G!Owned /\ n \in G!Nodes /\ m \in G!Nodes
  BY Kinds
<1>5. \A y \in G!Owned \intersect used : of[y] \in Meetings
  BY DEF GraphInv, Ids
<1>6. ~Pending(m)
  BY <1>1, <1>3 DEF GraphInv, Ids
<1>7. awaiting'.for = "copy" /\ awaiting'.about = m /\ awaiting'.writes = {n} /\ awaiting' # G!Nothing
  BY <1>1 DEF G!Nothing
<1>9. \A y \in G!Owned \intersect used' : of'[y] \in Meetings
  BY <1>1, <1>3, <1>5
<1>10. ~Pending(awaiting'.about)
  BY <1>6, <1>7
<1>11. used \subseteq used' /\ used' \subseteq G!Nodes /\ awaiting'.writes \subseteq used'
  BY <1>1, <1>2, <1>3, <1>7
<1>q. QED BY <1>1, <1>2, <1>7, <1>9, <1>10, <1>11, AsideKept

-----------------------------------------------------------------------------
(* The invariant, and what it says of the rows and the links.              *)

LEMMA GraphInit == G!Init => GraphInv
<1> SUFFICES ASSUME G!Init PROVE GraphInv
  OBVIOUS
<1>1. /\ rows = {} /\ trashed = {} /\ edges = {} /\ attends = {} /\ of = [x \in G!Owned |-> Nil]
      /\ awaiting = G!Nothing /\ used = {} /\ made = {} /\ muddled = {} /\ cuts = 0
      /\ \A p \in G!Processes : work[p] = <<>> /\ hand[p] = {}
      /\ work = [p \in G!Processes |-> <<>>] /\ hand = [p \in G!Processes |-> {}]
  BY DEF G!Init
<1>2. G!Nothing.for = "nothing" /\ G!Nothing.writes = {}
  BY DEF G!Nothing
<1>3. \A p \in G!Processes : Left(p) = {}
  BY <1>1, NoneAmong DEF Left
<1>4. Left("engine") = {}
  BY <1>3, TwoProcesses
<1>5. G!TypeOK
  BY <1>1, <1>2, Assumptions DEF G!TypeOK, G!WorkspaceAssumption
<1>6. Works
  <2>1. <<>> \in Seq(AllStatements) /\ Orderly(<<>>)
    BY DEF Orderly, Distinct, Sorted
  <2>q. QED BY <1>1, <2>1 DEF Works
<1>7. Plans
  BY <1>3 DEF Plans, Shaped, Sweeps, Joins
<1>8. HandsApart
  BY <1>1, <1>2, TwoProcesses DEF HandsApart
<1>9. Ids
  BY <1>1, <1>3, FS_EmptySet DEF Ids
<1>10. Waits
  BY <1>1, <1>2 DEF Waits
<1>11. Supports
  BY <1>3 DEF Supports
<1>12. Cleared /\ Kept /\ TicketsKept /\ Mentioned
  BY <1>1 DEF Cleared, Kept, TicketsKept, Mentioned
<1>13. OnePromotion
  BY <1>1, <1>3 DEF OnePromotion, Promoted
<1>14. Clearing
  BY <1>4 DEF Clearing
<1>q. QED BY <1>5, <1>6, <1>7, <1>8, <1>9, <1>10, <1>11, <1>12, <1>13, <1>14 DEF GraphInv

LEMMA MakeKept == ASSUME GraphInv, NEW p \in G!Processes, G!Make(p) \/ G!Cut(p) PROVE GraphInv'
<1>1. CASE G!Return(p)
  BY <1>1, ReturnKept
<1>2. CASE G!Check(p)
  BY <1>2, CheckKept
<1>3. CASE G!InsertRow(p)
  BY <1>3, InsertRowKept
<1>4. CASE G!InsertEdge(p)
  BY <1>4, InsertEdgeKept
<1>5. CASE G!DeleteEdges(p)
  BY <1>5, DeleteEdgesKept
<1>6. CASE G!ListOwned(p)
  BY <1>6, ListOwnedKept
<1>7. CASE G!DeleteRow(p)
  BY <1>7, DeleteRowKept
<1>8. CASE G!DeleteTrashedNotes(p)
  BY <1>8, DeleteTrashedNotesKept
<1>9. CASE G!InsertParticipant(p)
  BY <1>9, InsertParticipantKept
<1>10. CASE G!Cut(p)
  BY <1>10, CutKept
<1>q. QED BY <1>1, <1>2, <1>3, <1>4, <1>5, <1>6, <1>7, <1>8, <1>9, <1>10 DEF G!Make

LEMMA GraphNext == GraphInv /\ [G!Next]_(G!vars) => GraphInv'
<1> SUFFICES ASSUME GraphInv, [G!Next]_(G!vars) PROVE GraphInv'
  OBVIOUS
<1>1. ASSUME NEW m \in Meetings, G!CreateMeeting(m) PROVE GraphInv'
  <2>1. m \in G!Nodes \ G!Owned
    BY Kinds
  <2>q. QED BY <1>1, <2>1, TwoProcesses, CreateOneKept DEF G!CreateMeeting
<1>2. ASSUME NEW m \in Meetings, G!PurgeMeeting(m) PROVE GraphInv'
  BY <1>2, PurgeMeetingKept
<1>3. ASSUME NEW x \in People, G!CreatePerson(x) PROVE GraphInv'
  <2>1. x \in G!Nodes \ G!Owned
    BY Kinds
  <2>q. QED BY <1>3, <2>1, TwoProcesses, CreateOneKept DEF G!CreatePerson
<1>4. ASSUME NEW x \in People, G!DeletePerson(x) PROVE GraphInv'
  BY <1>4, DeleteKept DEF G!DeletePerson
<1>5. ASSUME NEW x \in People, NEW m \in Meetings, G!AddParticipant(m, x) PROVE GraphInv'
  <2>1. CASE x \in used /\ G!Alone("engine", {m, x}, <<G!Require(m), G!Require(x), G!Attend(m, x), G!Connect(m, x)>>)
    BY <2>1, AddKnownKept
  <2>2. CASE G!Making("engine", x, {m}, <<G!Require(m), G!Insert(x), G!Attend(m, x), G!Connect(m, x)>>)
    BY <1>5, <2>2, AddNewKept DEF G!AddParticipant
  <2>q. QED BY <1>5, <2>1, <2>2 DEF G!AddParticipant
<1>6. ASSUME NEW n \in Notes, G!CreateNote(n) PROVE GraphInv'
  <2>1. ASSUME NEW p \in G!Processes, G!Making(p, n, {}, <<G!Insert(n)>>) PROVE GraphInv'
    <3>1. n \in G!Nodes \ G!Owned /\ of' = of
      BY <1>6, Kinds DEF G!CreateNote
    <3>q. QED BY <2>1, <3>1, CreateOneKept
  <2>2. ASSUME NEW m \in Meetings, G!Making("engine", n, {m}, <<G!Require(m), G!Insert(n), G!Connect(n, m)>>)
        PROVE  GraphInv'
    <3>1. of' = of
      BY <1>6 DEF G!CreateNote
    <3>q. QED BY <2>2, <3>1, TwoProcesses, CreateAndLinkKept
  <2>q. QED BY <1>6, <2>1, <2>2 DEF G!CreateNote
<1>7. ASSUME NEW n \in Notes, G!PurgeNote(n) \/ G!CopyToNote(n) PROVE GraphInv'
  BY <1>7, PurgeNoteKept, CopyToNoteKept
<1>8. ASSUME NEW n \in Notes, NEW m \in Meetings, G!ReadForCopy(m, n) PROVE GraphInv'
  BY <1>8, ReadForCopyKept
<1>9. ASSUME NEW p \in G!Processes, NEW t \in Tickets, NEW m \in Meetings, G!CreateTicket(p, t, m) PROVE GraphInv'
  BY <1>9, CreateAndLinkKept DEF G!CreateTicket
<1>10. ASSUME NEW p \in G!Processes, NEW t \in Tickets, NEW i \in Items, G!Promote(p, i, t) PROVE GraphInv'
  BY <1>10, PromoteKept
<1>11. ASSUME NEW p \in G!Processes, NEW i \in Items, NEW m \in Meetings, G!CreateActionItem(p, i, m) PROVE GraphInv'
  <2>1. CASE p = "engine"
    BY <1>11, <2>1, CreateActionItemAskingKept DEF G!CreateActionItem
  <2>2. CASE p # "engine"
    BY <1>11, <2>2, CreateActionItemKept DEF G!CreateActionItem
  <2>q. QED BY <2>1, <2>2
<1>12. ASSUME NEW t \in Tickets, G!DeleteTicket(t) PROVE GraphInv'
  BY <1>12, DeleteKept DEF G!DeleteTicket
<1>13. ASSUME NEW i \in Items, G!DeleteActionItem(i) PROVE GraphInv'
  BY <1>13, DeleteKept DEF G!DeleteActionItem
<1>14. CASE G!EmptyTrash
  BY <1>14, EmptyTrashKept
<1>15. ASSUME NEW x \in Meetings \union Notes, G!Trash(x) \/ G!Restore(x) PROVE GraphInv'
  BY <1>15, TrashKept
<1>16. ASSUME NEW s \in Summaries, NEW i \in Items, G!StoreSummary(s, i) PROVE GraphInv'
  BY <1>16, StoreSummaryKept
<1>17. ASSUME NEW s \in Summaries, NEW i \in Items, NEW m \in Meetings, G!AskForSummary(m, s, i) PROVE GraphInv'
  BY <1>17, AskForSummaryKept
<1>18. CASE G!GiveUp
  BY <1>18, GiveUpKept
<1>19. ASSUME NEW p \in G!Processes, G!Make(p) \/ G!Cut(p) PROVE GraphInv'
  BY <1>19, MakeKept
<1>20. CASE UNCHANGED G!vars
  <2>1. UNCHANGED <<rows, trashed, of, edges, attends, work, hand, awaiting, used, made, muddled, cuts>>
    BY <1>20 DEF G!vars, G!store
  <2>2. /\ trashed \subseteq rows \intersect (Meetings \union Notes) /\ used \subseteq G!Nodes
        /\ of \in [G!Owned -> Meetings \union {Nil}]
        /\ awaiting.for \in {"nothing", "summary", "copy"} /\ awaiting.writes \subseteq used
    BY DEF GraphInv, G!TypeOK
  <2>3. \A y \in G!Owned \intersect used : of[y] \in Meetings
    BY DEF GraphInv, Ids
  <2>q. QED BY <2>1, <2>2, <2>3, AsideKept DEF GraphInv, HandsApart, Waits
<1>21. CASE G!Next
  BY <1>1, <1>2, <1>3, <1>4, <1>5, <1>6, <1>7, <1>8, <1>9, <1>10, <1>11, <1>12, <1>13, <1>14, <1>15, <1>16, <1>17,
     <1>18, <1>19, <1>21
     DEF G!Next
<1>q. QED BY <1>20, <1>21

LEMMA LinksHold == GraphInv => G!LinksAreTrue
<1> SUFFICES ASSUME GraphInv PROVE G!LinksAreTrue
  OBVIOUS
<1>1. \A x : Muddled(x) => G!Excused(x)
  BY DEF Muddled, G!Excused
<1>2. ASSUME NEW x \in G!Nodes, x \in hand["engine"] \/ (x \in G!Owned /\ of[x] \in hand["engine"]) PROVE G!Excused(x)
  BY <1>2, TwoProcesses DEF G!Excused
<1>3. \A s \in Left("engine") : Handled("engine", s)
  BY TwoProcesses DEF GraphInv, Plans, Shaped
<1>4. ASSUME NEW c \in G!Nodes, G!Detach(c) \in Left("engine") PROVE G!Excused(c)
  <2>1. Handled("engine", G!Detach(c))
    BY <1>3, <1>4
  <2>2. c \in hand["engine"] \/ (c \in G!Owned /\ of[c] \in hand["engine"])
    BY <2>1 DEF Handled, G!Detach, G!Statement
  <2>q. QED BY <1>2, <2>2
<1>5. \A c \in G!Nodes : Doomed(c) => G!Excused(c)
  BY <1>2, DoomedInHand
<1>6. \A e \in made : e[1] \in G!Nodes /\ e[2] \in G!Nodes
  BY DEF GraphInv, G!TypeOK
<1>7. edges \subseteq made
  BY DEF GraphInv, G!TypeOK
<1>8. G!EdgesJoinRows
  <2>1. ASSUME NEW e \in edges, NEW c \in {e[1], e[2]}, c \notin rows PROVE G!Excused(e[1]) \/ G!Excused(e[2])
    <3>1. Astray(e) \/ G!Detach(c) \in Left("engine")
      BY <2>1 DEF GraphInv, Cleared
    <3>q. QED BY <1>1, <1>4, <1>6, <1>7, <2>1, <3>1 DEF Astray
  <2>q. QED BY <2>1 DEF G!EdgesJoinRows
<1>9. G!LinksAreKept
  BY <1>1, <1>5, <1>6 DEF GraphInv, Kept, G!LinksAreKept, Astray
<1>10. G!ParticipantsAreMentioned
  <2>1. ASSUME NEW m \in Meetings, NEW x \in People
        PROVE  (<<m, x>> \in attends) # (<<m, x>> \in edges) => G!Excused(m) \/ G!Excused(x)
    <3>1. m \in G!Nodes /\ x \in G!Nodes /\ <<m, x>>[1] = m /\ <<m, x>>[2] = x
      BY Kinds
    <3>2. ASSUME <<m, x>> \in edges, <<m, x>> \notin attends PROVE G!Excused(m) \/ G!Excused(x)
      <4>1. m \notin rows \/ x \notin rows
        BY <3>2 DEF GraphInv, Mentioned
      <4>2. PICK e : e = <<m, x>>
        OBVIOUS
      <4>3. e \in edges /\ e[1] = m /\ e[2] = x
        BY <3>1, <3>2, <4>2
      <4>q. QED BY <1>8, <4>1, <4>3 DEF G!EdgesJoinRows
    <3>3. ASSUME <<m, x>> \in attends, <<m, x>> \notin edges PROVE G!Excused(m) \/ G!Excused(x)
      <4>1. Muddled(m) \/ Muddled(x) \/ Doomed(m) \/ Doomed(x) \/ G!Connect(m, x) \in Left("engine")
        BY <3>3 DEF GraphInv, Mentioned
      <4>2. G!Connect(m, x) \in Left("engine") => m \in hand["engine"]
        BY <1>3 DEF Handled, G!Connect, G!Statement
      <4>q. QED BY <1>1, <1>2, <1>5, <3>1, <4>1, <4>2
    <3>q. QED BY <3>2, <3>3
  <2>q. QED BY <2>1 DEF G!ParticipantsAreMentioned
<1>q. QED BY <1>8, <1>9, <1>10 DEF G!LinksAreTrue

LEMMA OnceHolds == GraphInv => G!PromotedOnce
<1> SUFFICES ASSUME GraphInv, NEW i \in Items PROVE Cardinality(Promoted(i)) <= 1 \/ G!Excused(i)
  BY SameCardinality DEF G!PromotedOnce, Promoted
<1>1. CASE Muddled(i)
  BY <1>1 DEF Muddled, G!Excused
<1>2. CASE \A t, u \in Promoted(i) : t = u
  <2>1. CASE Promoted(i) = {}
    BY <2>1, FS_EmptySet
  <2>2. CASE Promoted(i) # {}
    <3>1. PICK S : S = Promoted(i)
      OBVIOUS
    <3>2. PICK t : t \in S
      BY <2>2, <3>1
    <3>3. \A u \in S : u = t
      BY <1>2, <3>1, <3>2
    <3>4. S = {t}
      BY <3>2, <3>3
    <3>q. QED BY <3>1, <3>4, FS_Singleton
  <2>q. QED BY <2>1, <2>2
<1>q. QED BY <1>1, <1>2 DEF GraphInv, OnePromotion

-----------------------------------------------------------------------------
(* The parts beside each other: a step of one leaves the others' variables. *)

LEMMA AdoptionInvariance == StoresSpec => []AdoptionInv
<1>1. StoresInit => AdoptionInv
  BY Assumptions, AdoptionInit DEF StoresInit
<1>2. AdoptionInv /\ [StoresNext]_storesVars => AdoptionInv'
  <2>1. StoresNext => [A!Next]_(A!vars)
    BY DEF StoresNext, adoption, A!vars
  <2>2. UNCHANGED storesVars => [A!Next]_(A!vars)
    BY DEF storesVars, adoption, A!vars
  <2>q. QED BY <2>1, <2>2, Assumptions, AdoptionNext
<1>q. QED BY <1>1, <1>2, PTL DEF StoresSpec

\* However moves fail, are copied, or are cut short by crashes, no commit is destroyed unless two
\* launches went on at once, and a surface that was not warned sees every commit unless a launch
\* stopped between the database and its log.
THEOREM StoresCommitsAreSafe == StoresSpec => []CommitsAreSafe
<1>1. AdoptionInv => CommitsAreSafe
  BY Assumptions, AdoptionSafe DEF CommitsAreSafe
<1>q. QED BY <1>1, AdoptionInvariance, PTL

LEMMA GraphInvariance == StoresSpec => []GraphInv
<1>1. StoresInit => GraphInv
  BY GraphInit DEF StoresInit
<1>2. GraphInv /\ [StoresNext]_storesVars => GraphInv'
  <2>1. StoresNext => [G!Next]_(G!vars)
    BY DEF StoresNext, graph, G!vars, G!store
  <2>2. UNCHANGED storesVars => [G!Next]_(G!vars)
    BY DEF storesVars, graph, G!vars, G!store
  <2>q. QED BY <2>1, <2>2, GraphNext
<1>q. QED BY <1>1, <1>2, PTL DEF StoresSpec

\* Whatever the handlers of the two processes do between each other's statements, no edge leads to
\* a row that is gone, no link between rows is lost, who took part is mentioned, and an action item
\* has one ticket, but about rows that are in hand or were muddled.
THEOREM StoresLinksAreTrue == StoresSpec => []LinksAreTrue
<1>1. GraphInv => LinksAreTrue
  BY LinksHold, OnceHolds DEF LinksAreTrue
<1>q. QED BY <1>1, GraphInvariance, PTL

\* Types, of every reachable state of every part.
THEOREM StoresTypeCorrect == StoresSpec => []StoresTypeOK
<1>1. AdoptionInv => A!TypeOK
  BY DEF AdoptionInv
<1>2. GraphInv => G!TypeOK
  BY DEF GraphInv
<1>3. TypeOK /\ AdoptionInv /\ GraphInv => StoresTypeOK
  BY <1>1, <1>2 DEF StoresTypeOK
<1>q. QED BY <1>3, VaultOfStores, VaultTypeCorrect, AdoptionInvariance, GraphInvariance, PTL
=============================================================================
