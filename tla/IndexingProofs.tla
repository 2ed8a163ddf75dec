--------------------------- MODULE IndexingProofs ---------------------------
(***************************************************************************)
(* What Indexing promises, for any entities, passes and edits.             *)
(*                                                                         *)
(* A vector is judged by the stamp it carries, so two facts carry the      *)
(* argument: no stamp is ahead of the clock, and a copy in the hands of a  *)
(* pass still says what its entity says unless an edit that overtook the   *)
(* pass was noted.                                                         *)
(***************************************************************************)
EXTENDS Indexing, TLAPS

PassStates == [step : {"away", "checked", "begun", "writing"}, todo : SUBSET Copies]

StampsPast == \A e \in Entities : stamp[e] <= now

\* A copy is still true, or its entity is among those the next pass need not notice.
CopyIsTrue(c) == c.entity \in unseen \/ (life[c.entity] # "purged" /\ c.text = text[c.entity])
CopiesAreTrue == \A r \in Passes : \A c \in pass[r].todo : CopyIsTrue(c)

IInv == TypeOK /\ StampsPast /\ CopiesAreTrue /\ VectorsAreCurrent

\* One entity's part of VectorsAreCurrent, with the judgement spelt out.
Told(e) ==
  vector[e] # None =>
    \/ e \in unseen
    \/ life[e] # "purged" /\ vector[e].text = text[e]
    \/ life[e] # "purged" /\ vector[e].stamp + Slack < stamp[e]

LEMMA ToldIsCurrent == TypeOK => (VectorsAreCurrent <=> \A e \in Entities : Told(e))
BY IndexingAssumption DEF TypeOK, Stored, VectorsAreCurrent, IsCurrent, Told

LEMMA ToldIsCurrentNext == TypeOK' => (VectorsAreCurrent' <=> \A e \in Entities : Told(e)')
BY IndexingAssumption DEF TypeOK, Stored, VectorsAreCurrent, IsCurrent, Told

LEMMA TypeInit == Init => TypeOK
BY IndexingAssumption DEF Init, TypeOK, Away, Copies, Stored

\* The edits of one entity.
EntityStep(e) ==
  \/ UpdateNote(e) \/ Correct(e) \/ SetTitle(e) \/ Append(e) \/ End(e)
  \/ Trash(e) \/ Restore(e) \/ Purge(e)

LEMMA TouchTyped == ASSUME TypeOK, Touch PROVE timer' \in 0..(MaxNow + Quiet) \union {None}
BY IndexingAssumption DEF TypeOK, Touch

LEMMA EntityType == ASSUME TypeOK, StampsPast, NEW e \in Entities, EntityStep(e) PROVE TypeOK' /\ StampsPast'
<1>0. pass' = pass /\ faults' = faults /\ status' = status /\ now' = now /\ meetings' = meetings
  BY DEF EntityStep, UpdateNote, Correct, SetTitle, Append, End, Trash, Restore, Purge
<1>1. timer' \in 0..(MaxNow + Quiet) \union {None}
  <2>1. Touch \/ timer' = timer
    BY DEF EntityStep, UpdateNote, Correct, SetTitle, Append, End, Trash, Restore, Purge
  <2> QED
    BY <2>1, TouchTyped DEF TypeOK
<1>2. unseen' \subseteq Entities
  BY DEF TypeOK, EntityStep, UpdateNote, Correct, SetTitle, Append, End, Trash, Restore, Purge, Overtakes, OvertakesOrTooSoon
<1>3. text' \in [Entities -> 0..MaxEdits]
  <2>1. text' = text \/ Edited(e)
    BY DEF EntityStep, UpdateNote, Correct, SetTitle, Append, End, Trash, Restore, Purge
  <2> QED
    BY <2>1, IndexingAssumption DEF TypeOK, Edited
<1>4. stamp' \in [Entities -> 0..MaxNow] /\ StampsPast'
  <2>1. stamp' = stamp \/ stamp' = [stamp EXCEPT ![e] = now]
    BY DEF TypeOK, EntityStep, UpdateNote, Correct, SetTitle, Append, End, Trash, Restore, Purge
  <2> QED
    BY <1>0, <2>1, IndexingAssumption DEF TypeOK, StampsPast
<1>5. vector' \in [Entities -> Stored \union {None}]
  <2>1. vector' = vector \/ vector' = [vector EXCEPT ![e] = None]
    BY DEF EntityStep, UpdateNote, Correct, SetTitle, Append, End, Trash, Restore, Purge
  <2> QED
    BY <2>1 DEF TypeOK
<1>6. life' \in [Entities -> {"live", "trashed", "purged"}]
  BY DEF TypeOK, EntityStep, UpdateNote, Correct, SetTitle, Append, End, Trash, Restore, Purge
<1>7. ended' \subseteq meetings
  BY DEF TypeOK, EntityStep, UpdateNote, Correct, SetTitle, Append, End, Trash, Restore, Purge
<1> QED
  BY <1>0, <1>1, <1>2, <1>3, <1>4, <1>5, <1>6, <1>7 DEF TypeOK

\* What the passes and the process do, and what is done to all entities at once.
PassAction(r) == Build(r) \/ Fire(r) \/ PassStep(r) \/ Fail(r)

LEMMA CallTyped == ASSUME TypeOK, NEW r \in Passes, Call(r)
                   PROVE  pass' \in [Passes -> PassStates] /\ \A q \in Passes : pass'[q].todo = pass[q].todo
                                                         /\ (pass[q].step = "writing" => pass'[q].step = "writing")
<1>1. CASE pass' = pass
  BY <1>1 DEF TypeOK, PassStates
<1>2. CASE pass' = [pass EXCEPT ![r].step = "checked"]
  BY <1>2 DEF TypeOK, PassStates, Call
<1> QED
  BY <1>1, <1>2 DEF Call

LEMMA CollectTyped == ASSUME TypeOK PROVE {CopyOf(e) : e \in {e \in Entities : Pending(e)}} \in SUBSET Copies
BY DEF TypeOK, CopyOf, Copies

LEMMA PassType == ASSUME TypeOK, StampsPast, NEW r \in Passes, PassAction(r) PROVE TypeOK' /\ StampsPast'
<1>0. now' = now /\ content' = content /\ unseen' = unseen
  BY DEF PassAction, PassStep, Build, Fire, Begin, Collect, Write, Finish, Fail
<1>1. StampsPast'
  BY <1>0 DEF StampsPast, content
<1>2. timer' \in 0..(MaxNow + Quiet) \union {None} /\ status' \in {"idle", "running", "done", "failed"}
  BY DEF TypeOK, PassAction, PassStep, Build, Fire, Begin, Collect, Write, Finish, Fail
<1>3. faults' \in 0..MaxFaults
  <2>1. faults' = faults \/ (faults < MaxFaults /\ faults' = faults + 1)
    BY DEF PassAction, PassStep, Build, Fire, Begin, Collect, Write, Finish, Fail
  <2> QED
    BY <2>1, IndexingAssumption DEF TypeOK
<1>4. vector' \in [Entities -> Stored \union {None}]
  <2>1. CASE Write(r)
    <3>1. PICK c \in pass[r].todo : vector' = [vector EXCEPT ![c.entity] = [text |-> c.text, stamp |-> c.stamp]]
      BY <2>1 DEF Write
    <3>2. c \in Copies
      BY <3>1 DEF TypeOK
    <3> QED
      BY <3>1, <3>2 DEF TypeOK, Copies, Stored
  <2>2. CASE ~Write(r)
    BY <2>2 DEF TypeOK, PassAction, PassStep, Build, Fire, Begin, Collect, Finish, Fail
  <2> QED
    BY <2>1, <2>2
<1>5. pass' \in [Passes -> PassStates] /\ \A q \in Passes : pass'[q].todo # {} => pass'[q].step = "writing"
  <2>1. CASE pass' = pass \/ Call(r)
    BY <2>1, CallTyped DEF TypeOK, PassStates
  <2>2. CASE Begin(r)
    BY <2>2 DEF TypeOK, PassStates, Begin
  <2>3. CASE Collect(r)
    BY <2>3, CollectTyped DEF TypeOK, PassStates, Collect
  <2>4. CASE Write(r)
    BY <2>4 DEF TypeOK, PassStates, Write
  <2>5. CASE Finish(r) \/ Fail(r)
    BY <2>5 DEF TypeOK, PassStates, Finish, Fail, Away
  <2> QED
    BY <2>1, <2>2, <2>3, <2>4, <2>5 DEF PassAction, PassStep, Build, Fire
<1> QED
  BY <1>0, <1>1, <1>2, <1>3, <1>4, <1>5 DEF TypeOK, PassStates, content

LEMMA WholeType == ASSUME TypeOK, StampsPast, EmptyTrash \/ Clear \/ Crash \/ Tick PROVE TypeOK' /\ StampsPast'
<1>1. CASE EmptyTrash
  BY <1>1 DEF TypeOK, StampsPast, EmptyTrash
<1>2. CASE Clear
  BY <1>2 DEF TypeOK, StampsPast, Clear, content
<1>3. CASE Crash
  BY <1>3, IndexingAssumption DEF TypeOK, StampsPast, Crash, content, Away, Copies
<1>4. CASE Tick
  BY <1>4, IndexingAssumption DEF TypeOK, StampsPast, Tick, content
<1> QED
  BY <1>1, <1>2, <1>3, <1>4

\* What an entity's step leaves alone: every other entity, and what is noted already.
LEMMA OthersAlone ==
  ASSUME TypeOK, NEW e \in Entities, EntityStep(e), NEW f \in Entities \ {e}
  PROVE  /\ text'[f] = text[f] /\ stamp'[f] = stamp[f] /\ life'[f] = life[f] /\ vector'[f] = vector[f]
         /\ f \in unseen => f \in unseen'
<1>1. text'[f] = text[f]
  BY DEF TypeOK, EntityStep, UpdateNote, Correct, SetTitle, Append, End, Trash, Restore, Purge, Edited
<1>2. stamp'[f] = stamp[f]
  BY DEF TypeOK, EntityStep, UpdateNote, Correct, SetTitle, Append, End, Trash, Restore, Purge
<1>3. life'[f] = life[f]
  BY DEF TypeOK, EntityStep, UpdateNote, Correct, SetTitle, Append, End, Trash, Restore, Purge
<1>4. vector'[f] = vector[f]
  BY DEF TypeOK, EntityStep, UpdateNote, Correct, SetTitle, Append, End, Trash, Restore, Purge
<1>5. f \in unseen => f \in unseen'
  BY DEF EntityStep, UpdateNote, Correct, SetTitle, Append, End, Trash, Restore, Purge, Overtakes, OvertakesOrTooSoon
<1> QED
  BY <1>1, <1>2, <1>3, <1>4, <1>5

\* A step that changes what e says, or purges it, while a pass holds a copy of it is noted.
LEMMA OvertakenIsNoted ==
  ASSUME TypeOK, NEW e \in Entities, EntityStep(e), Held(e)
  PROVE  e \in unseen' \/ (text'[e] = text[e] /\ life'[e] # "purged")
<1>1. CASE UpdateNote(e)
  BY <1>1 DEF UpdateNote, OvertakesOrTooSoon
<1>2. CASE Correct(e) \/ SetTitle(e) \/ Append(e) \/ Purge(e)
  BY <1>2 DEF Correct, SetTitle, Append, Purge, Overtakes
<1>3. CASE End(e) \/ Trash(e) \/ Restore(e)
  BY <1>3 DEF TypeOK, End, Trash, Restore
<1> QED
  BY <1>1, <1>2, <1>3 DEF EntityStep

LEMMA NotedStays == ASSUME NEW e \in Entities, EntityStep(e), e \in unseen PROVE e \in unseen'
BY DEF EntityStep, UpdateNote, Correct, SetTitle, Append, End, Trash, Restore, Purge, Overtakes, OvertakesOrTooSoon

LEMMA EntityCopies == ASSUME TypeOK, CopiesAreTrue, NEW e \in Entities, EntityStep(e) PROVE CopiesAreTrue'
<1>1. pass' = pass
  BY DEF EntityStep, UpdateNote, Correct, SetTitle, Append, End, Trash, Restore, Purge
<1>2. SUFFICES ASSUME NEW r \in Passes, NEW c \in pass[r].todo PROVE CopyIsTrue(c)'
  BY <1>1 DEF CopiesAreTrue
<1>3. c.entity \in Entities
  BY DEF TypeOK, Copies
<1>4. CopyIsTrue(c)
  BY DEF CopiesAreTrue
<1>5. CASE c.entity # e
  BY <1>3, <1>4, <1>5, OthersAlone DEF CopyIsTrue
<1>6. CASE c.entity = e
  <2>1. Held(e)
    BY <1>6 DEF Held
  <2> QED
    BY <1>4, <1>6, <2>1, OvertakenIsNoted, NotedStays DEF CopyIsTrue
<1> QED
  BY <1>5, <1>6

LEMMA EntityTold ==
  ASSUME TypeOK, StampsPast, NEW e \in Entities, EntityStep(e), \A f \in Entities : Told(f)
  PROVE  \A f \in Entities : Told(f)'
<1>1. ASSUME NEW f \in Entities, f # e PROVE Told(f)'
  BY <1>1, OthersAlone DEF Told
<1>2. Told(e)'
  <2>0. Told(e) /\ stamp[e] <= now /\ stamp[e] \in Int /\ now \in Int
    BY IndexingAssumption DEF StampsPast, TypeOK
  <2>1. vector[e] # None => vector[e].stamp \in Int
    BY IndexingAssumption DEF TypeOK, Stored
  <2>2. CASE UpdateNote(e)
    <3>1. /\ vector' = vector /\ stamp'[e] = now /\ life' = life
          /\ life[e] # "purged"
      BY <2>2 DEF UpdateNote, TypeOK
    <3>2. CASE vector[e] # None /\ vector[e].stamp + Slack >= now
      BY <2>2, <3>2 DEF UpdateNote, OvertakesOrTooSoon, Told
    <3>3. CASE vector[e] # None /\ vector[e].stamp + Slack < now
      BY <3>1, <3>3 DEF Told
    <3>4. CASE vector[e] = None
      BY <3>1, <3>4 DEF Told
    <3> QED
      BY <2>0, <2>1, <3>2, <3>3, <3>4, IndexingAssumption
  <2>3. CASE Correct(e) \/ SetTitle(e) \/ Purge(e)
    BY <2>3 DEF TypeOK, Correct, SetTitle, Purge, Told
  <2>4. CASE Append(e)
    BY <2>4 DEF Append, Told
  <2>5. CASE End(e) \/ Trash(e) \/ Restore(e)
    <3>1. /\ text' = text /\ unseen' = unseen
          /\ life[e] # "purged" /\ life'[e] # "purged"
      BY <2>5 DEF TypeOK, End, Trash, Restore
    <3>2. stamp'[e] \in {stamp[e], now}
      BY <2>5 DEF TypeOK, End, Trash, Restore
    <3>3. vector'[e] \in {vector[e], None}
      BY <2>5 DEF TypeOK, End, Trash, Restore
    <3>4. vector[e] # None => (vector[e].stamp + Slack < stamp[e] => vector[e].stamp + Slack < stamp'[e])
      BY <2>0, <2>1, <3>2, IndexingAssumption
    <3> QED
      BY <2>0, <3>1, <3>3, <3>4 DEF Told
  <2> QED
    BY <2>2, <2>3, <2>4, <2>5 DEF EntityStep
<1> QED
  BY <1>1, <1>2

LEMMA PassHolds ==
  ASSUME TypeOK, CopiesAreTrue, NEW r \in Passes, PassAction(r), \A f \in Entities : Told(f)
  PROVE  CopiesAreTrue' /\ \A f \in Entities : Told(f)'
<1>0. content' = content /\ unseen' = unseen
  BY DEF PassAction, PassStep, Build, Fire, Begin, Collect, Write, Finish, Fail
<1>1. \A c \in Copies : CopyIsTrue(c) => CopyIsTrue(c)'
  BY <1>0 DEF CopyIsTrue, content
<1>2. CopiesAreTrue'
  <2>1. CASE Collect(r)
    <3>1. SUFFICES ASSUME NEW q \in Passes, NEW c \in pass'[q].todo PROVE CopyIsTrue(c)'
      BY DEF CopiesAreTrue
    <3>2. CASE q # r
      BY <1>1, <2>1, <3>2 DEF Collect, CopiesAreTrue, TypeOK
    <3>3. CASE q = r
      <4>1. c \in {CopyOf(e) : e \in {e \in Entities : Pending(e)}}
        BY <2>1, <3>3 DEF Collect, TypeOK
      <4>2. PICK e \in Entities : Pending(e) /\ c = CopyOf(e)
        BY <4>1
      <4> QED
        BY <1>0, <4>2 DEF CopyOf, Pending, CopyIsTrue, content
    <3> QED
      BY <3>2, <3>3
  <2>2. CASE ~Collect(r)
    <3>1. \A q \in Passes : pass'[q].todo \subseteq pass[q].todo
      <4>1. CASE pass' = pass
        BY <4>1
      <4>2. CASE Call(r)
        BY <4>2, CallTyped
      <4>3. CASE Begin(r) \/ Finish(r) \/ Fail(r)
        BY <4>3 DEF TypeOK, Begin, Finish, Fail, Away
      <4>5. CASE Write(r)
        BY <4>5 DEF TypeOK, Write
      <4>4. pass' = pass \/ Call(r) \/ Begin(r) \/ Write(r) \/ Finish(r) \/ Fail(r)
        BY <2>2 DEF PassAction, PassStep, Build, Fire
      <4> QED
        BY <4>1, <4>2, <4>3, <4>4, <4>5
    <3> QED
      BY <1>1, <3>1 DEF CopiesAreTrue, TypeOK
  <2> QED
    BY <2>1, <2>2
<1>3. \A f \in Entities : Told(f)'
  <2>1. CASE Write(r)
    <3>1. PICK c \in pass[r].todo : vector' = [vector EXCEPT ![c.entity] = [text |-> c.text, stamp |-> c.stamp]]
      BY <2>1 DEF Write
    <3>2. c \in Copies /\ CopyIsTrue(c)
      BY <3>1 DEF TypeOK, CopiesAreTrue
    <3>3. ASSUME NEW f \in Entities, f # c.entity PROVE Told(f)'
      BY <1>0, <3>1, <3>3 DEF Told, TypeOK, content
    <3>4. ASSUME NEW f \in Entities, f = c.entity PROVE Told(f)'
      <4>1. vector'[f].text = c.text
        BY <3>1, <3>4 DEF TypeOK
      <4> QED
        BY <1>0, <3>2, <3>4, <4>1 DEF Told, CopyIsTrue, content
    <3> QED
      BY <3>3, <3>4
  <2>2. CASE ~Write(r)
    <3>1. vector' = vector
      BY <2>2 DEF PassAction, PassStep, Build, Fire, Begin, Collect, Finish, Fail
    <3> QED
      BY <1>0, <3>1 DEF Told, content
  <2> QED
    BY <2>1, <2>2
<1> QED
  BY <1>2, <1>3

LEMMA WholeHolds ==
  ASSUME TypeOK, CopiesAreTrue, EmptyTrash \/ Clear \/ Crash \/ Tick, \A f \in Entities : Told(f)
  PROVE  CopiesAreTrue' /\ \A f \in Entities : Told(f)'
<1>1. CASE EmptyTrash
  <2>1. CopiesAreTrue'
    <3>1. SUFFICES ASSUME NEW r \in Passes, NEW c \in pass[r].todo PROVE CopyIsTrue(c)'
      BY <1>1 DEF EmptyTrash, CopiesAreTrue
    <3>2. c.entity \in Entities /\ CopyIsTrue(c) /\ Held(c.entity)
      BY DEF TypeOK, Copies, CopiesAreTrue, Held
    <3>3. life[c.entity] = "trashed" => c.entity \in unseen'
      BY <1>1, <3>2 DEF EmptyTrash
    <3>4. life[c.entity] # "trashed" => life'[c.entity] = life[c.entity]
      BY <1>1, <3>2 DEF EmptyTrash
    <3>5. text' = text /\ (c.entity \in unseen => c.entity \in unseen')
      BY <1>1 DEF EmptyTrash
    <3> QED
      BY <3>2, <3>3, <3>4, <3>5 DEF CopyIsTrue
  <2>2. ASSUME NEW f \in Entities PROVE Told(f)'
    BY <1>1 DEF EmptyTrash, Told
  <2> QED
    BY <2>1, <2>2
<1>2. CASE Clear
  BY <1>2 DEF Clear, CopiesAreTrue, CopyIsTrue, Told, content
<1>3. CASE Crash
  BY <1>3 DEF Crash, CopiesAreTrue, CopyIsTrue, Told, content, Away
<1>4. CASE Tick
  BY <1>4 DEF Tick, CopiesAreTrue, CopyIsTrue, Told, content
<1> QED
  BY <1>1, <1>2, <1>3, <1>4

LEMMA IInvInit == Init => IInv
<1> SUFFICES ASSUME Init PROVE IInv
  OBVIOUS
<1>1. TypeOK
  BY TypeInit
<1>2. StampsPast
  BY DEF Init, StampsPast
<1>3. CopiesAreTrue
  BY DEF Init, CopiesAreTrue, Away
<1>4. VectorsAreCurrent
  BY DEF Init, VectorsAreCurrent
<1> QED
  BY <1>1, <1>2, <1>3, <1>4 DEF IInv

LEMMA IInvNext == IInv /\ [Next]_vars => IInv'
<1> SUFFICES ASSUME IInv, [Next]_vars PROVE IInv'
  OBVIOUS
<1>0. TypeOK /\ StampsPast /\ CopiesAreTrue /\ (\A f \in Entities : Told(f))
  BY ToldIsCurrent DEF IInv
<1>1. CASE \E e \in Entities : EntityStep(e)
  <2>1. TypeOK' /\ StampsPast' /\ CopiesAreTrue' /\ (\A f \in Entities : Told(f)')
    BY <1>0, <1>1, EntityType, EntityCopies, EntityTold
  <2> QED
    BY <2>1, ToldIsCurrentNext DEF IInv
<1>2. CASE EmptyTrash \/ Clear \/ Crash \/ Tick
  <2>1. TypeOK' /\ StampsPast' /\ CopiesAreTrue' /\ (\A f \in Entities : Told(f)')
    BY <1>0, <1>2, WholeType, WholeHolds
  <2> QED
    BY <2>1, ToldIsCurrentNext DEF IInv
<1>3. CASE \E r \in Passes : PassAction(r)
  <2>1. TypeOK' /\ StampsPast' /\ CopiesAreTrue' /\ (\A f \in Entities : Told(f)')
    BY <1>0, <1>3, PassType, PassHolds
  <2> QED
    BY <2>1, ToldIsCurrentNext DEF IInv
<1>4. CASE UNCHANGED vars
  BY <1>4 DEF IInv, vars, content, TypeOK, StampsPast, CopiesAreTrue, CopyIsTrue, VectorsAreCurrent, IsCurrent
<1>5. Next => \/ \E e \in Entities : EntityStep(e)
              \/ EmptyTrash \/ Clear \/ Crash \/ Tick
              \/ \E r \in Passes : PassAction(r)
  BY DEF Next, EntityStep, PassAction
<1> QED
  BY <1>1, <1>2, <1>3, <1>4, <1>5

\* The index keeps to its types: a pass has something left to write only while it is writing, and no
\* stored stamp or copy is outside what the clock has read.
THEOREM IndexingTypeCorrect == Spec => []TypeOK
<1>1. IInv => TypeOK
  BY DEF IInv
<1> QED
  BY <1>1, IInvInit, IInvNext, PTL DEF Spec

\* Whatever is edited, trashed, restored and purged while any number of passes are under way, a
\* stored vector says what its entity says, or the next pass will find it old, or the change was one
\* of those the code is known to pass over (collect_pending, is_current, replace_for_entity).
THEOREM IndexingVectorsAreCurrent == Spec => []VectorsAreCurrent
<1>1. IInv => VectorsAreCurrent
  BY DEF IInv
<1> QED
  BY <1>1, IInvInit, IInvNext, PTL DEF Spec
=============================================================================
