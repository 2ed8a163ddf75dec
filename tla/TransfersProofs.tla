--------------------------- MODULE TransfersProofs ---------------------------
(***************************************************************************)
(* Safety of what carries something over a network, for any keys, tasks,   *)
(* accounts and bounds: the outbound queue as long as drains end before    *)
(* their leases, downloads, and connected accounts with their mail drafts. *)
(*                                                                         *)
(* The invariants the runs check are not inductive. Each part's proof      *)
(* starts with what makes them so.                                         *)
(***************************************************************************)
EXTENDS Transfers, TLAPS

-----------------------------------------------------------------------------
(* The outbound queue. A row in some drain's batch is in flight under an   *)
(* unexpired lease with the attempts that drain read, and a drain about to *)
(* create a draft found its node unlinked and still is the only one to     *)
(* touch it.                                                               *)


\* A row some drain has is leased to it, and is as the claim left it.
HeldRows ==
  \A d \in Dispatchers : \A k \in batch[d] :
    /\ status[k] = "in_flight"
    /\ leaseIn[k] > 0
    /\ seen[d][k] = attempts[k]

\* A drain past its claim has the row it is working on.
CurrentRow ==
  \A d \in Dispatchers :
    /\ pc[d] = "idle" => batch[d] = {}
    /\ pc[d] \notin {"idle", "next"} => cur[d] \in batch[d]

\* What a drain has recorded of the current row's draft. Drafts are numbered from 1.
Progress ==
  \A d \in Dispatchers :
    /\ pc[d] = "pushing" /\ known[d] = 0 => Existing(cur[d]) = {}
    /\ pc[d] \in {"pushed", "linking", "completing"} => ref[d] # 0
    /\ pc[d] = "linking" => ref[d] \in items[cur[d]]
    /\ pc[d] = "completing" => Existing(cur[d]) # {}

DraftsNumbered == \A k \in Keys : 0 \notin Existing(k)

InHand(k) == \E d \in Dispatchers : cur[d] = k /\ pc[d] \in {"pushed", "linking"}

\* A draft neither linked nor about to be was paid for with a fault.
DraftsAccounted ==
  \A k \in Keys : \/ drafts[k] <= faults
                  \/ /\ drafts[k] <= faults + 1
                     /\ Existing(k) # {} \/ InHand(k)

RowInv   == LeaseExclusive /\ HeldRows /\ CurrentRow /\ AttemptsBounded
GraphInv == CompleteIsLinked /\ Progress /\ DraftsNumbered /\ DraftsAccounted
IInv     == TypeOK /\ RowInv /\ GraphInv

LEMMA InitIInv == Init => IInv
  BY OutboxAssumption DEF Init, IInv, TypeOK, RowInv, GraphInv, LeaseExclusive, HeldRows, CurrentRow,
     AttemptsBounded, CompleteIsLinked, Progress, DraftsNumbered, DraftsAccounted, Existing,
     Statuses, Phases, Errors
-----------------------------------------------------------------------------
(* Types. *)

LEMMA StepTypeOK == TypeOK /\ [Next]_vars => TypeOK'
<1> SUFFICES ASSUME TypeOK, [Next]_vars PROVE TypeOK'
  OBVIOUS
<1> USE OutboxAssumption DEF TypeOK, rowVars, graphVars, drainVars, Statuses, Phases, Errors
<1>1. ASSUME NEW k \in Keys, Enqueue(k) PROVE TypeOK'
  BY <1>1 DEF Enqueue
<1>2. ASSUME NEW d \in Dispatchers, Claim(d) PROVE TypeOK'
  BY <1>2 DEF Claim, Claims, Ready
<1>3. ASSUME NEW d \in Dispatchers, Begin(d) PROVE TypeOK'
  <2>1. PICK k \in batch[d] :
          /\ cur' = [cur EXCEPT ![d] = k]
          /\ known' = [known EXCEPT ![d] = IF Existing(k) = {} THEN 0
                                          ELSE CHOOSE r \in Existing(k) : TRUE]
    BY <1>3 DEF Begin
  <2>2. k \in Keys /\ Existing(k) \in SUBSET Nat
    BY DEF Existing
  <2>3. known' \in [Dispatchers -> Nat] /\ cur' \in [Dispatchers -> Keys]
    BY <2>1, <2>2
  <2> QED
    BY <1>3, <2>3 DEF Begin, FailWith
<1>4. ASSUME NEW d \in Dispatchers, Push(d) PROVE TypeOK'
  BY <1>4 DEF Push
<1>5. ASSUME NEW d \in Dispatchers, PushRefused(d) PROVE TypeOK'
  BY <1>5 DEF PushRefused, FailWith
<1>6. ASSUME NEW d \in Dispatchers, PushReplyLost(d) PROVE TypeOK'
  BY <1>6 DEF PushReplyLost, FailWith
<1>7. ASSUME NEW d \in Dispatchers, RecordItem(d) PROVE TypeOK'
  BY <1>7 DEF RecordItem
<1>8. ASSUME NEW d \in Dispatchers, Link(d) PROVE TypeOK'
  BY <1>8 DEF Link
<1>9. ASSUME NEW d \in Dispatchers, Complete(d) PROVE TypeOK'
  BY <1>9 DEF Complete, Advance
<1>10. ASSUME NEW d \in Dispatchers, StatementFails(d) PROVE TypeOK'
  BY <1>10 DEF StatementFails, FailWith
<1>11. ASSUME NEW d \in Dispatchers, DeadLetter(d) PROVE TypeOK'
  BY <1>11 DEF DeadLetter, Advance
<1>12. ASSUME NEW d \in Dispatchers, RetryLater(d) PROVE TypeOK'
  <2>1. seen[d][cur[d]] \in Nat /\ (~GivesUp(d) => seen[d][cur[d]] \in 0..MaxAttempts)
    BY DEF GivesUp
  <2>2. ~GivesUp(d) => DelayFor(seen[d][cur[d]]) \in Nat
    BY <2>1, BackoffAssumption DEF DelayFor
  <2> QED
    BY <1>12, <2>2 DEF RetryLater, Advance
<1>13. ASSUME NEW d \in Dispatchers, Abandon(d) PROVE TypeOK'
  BY <1>13 DEF Abandon
<1>14. ASSUME Tick PROVE TypeOK'
  BY <1>14 DEF Tick
<1>15. CASE UNCHANGED vars
  BY <1>15 DEF vars
<1> QED
  BY <1>1, <1>2, <1>3, <1>4, <1>5, <1>6, <1>7, <1>8, <1>9, <1>10, <1>11, <1>12, <1>13, <1>14, <1>15
  DEF Next, Deliver
-----------------------------------------------------------------------------
(* Rows and the drains that hold them. *)

\* Finishing with the current row, whatever becomes of it, disturbs no other row's holder.
LEMMA Release ==
  ASSUME TypeOK, RowInv, NEW d \in Dispatchers, cur[d] \in batch[d], Advance(d),
         \A k \in Keys \ {cur[d]} : /\ status'[k] = status[k]
                                    /\ leaseIn'[k] = leaseIn[k]
                                    /\ attempts'[k] = attempts[k]
  PROVE  LeaseExclusive' /\ HeldRows' /\ CurrentRow'
<1> USE DEF TypeOK, RowInv, LeaseExclusive, HeldRows, CurrentRow, Advance
<1>1. \A e \in Dispatchers : cur[d] \notin batch'[e] /\ batch'[e] \subseteq batch[e]
  OBVIOUS
<1>2. LeaseExclusive'
  BY <1>1
<1>3. \A e \in Dispatchers : \A k \in batch'[e] : seen'[e][k] = seen[e][k]
  BY <1>1
<1>4. HeldRows'
  BY <1>1, <1>3
<1>5. CurrentRow'
  OBVIOUS
<1> QED
  BY <1>2, <1>4, <1>5

LEMMA StepRowInv ==
  ASSUME LeaseCovers PROVE TypeOK /\ RowInv /\ [Next]_vars => RowInv'
<1> SUFFICES ASSUME TypeOK, RowInv, [Next]_vars PROVE RowInv'
  OBVIOUS
<1> USE OutboxAssumption DEF TypeOK, RowInv, LeaseExclusive, HeldRows, CurrentRow, AttemptsBounded,
  rowVars, graphVars, drainVars, Statuses, Phases, Errors
<1>1. ASSUME NEW k \in Keys, Enqueue(k) PROVE RowInv'
  BY <1>1 DEF Enqueue
<1>2. ASSUME NEW d \in Dispatchers, Claim(d) PROVE RowInv'
  BY <1>2 DEF Claim, Claims, Ready
<1>3. ASSUME NEW d \in Dispatchers, Begin(d) PROVE RowInv'
  BY <1>3 DEF Begin, FailWith
<1>4. ASSUME NEW d \in Dispatchers, Push(d) PROVE RowInv'
  BY <1>4 DEF Push
<1>5. ASSUME NEW d \in Dispatchers, PushRefused(d) PROVE RowInv'
  BY <1>5 DEF PushRefused, FailWith
<1>6. ASSUME NEW d \in Dispatchers, PushReplyLost(d) PROVE RowInv'
  BY <1>6 DEF PushReplyLost, FailWith
<1>7. ASSUME NEW d \in Dispatchers, RecordItem(d) PROVE RowInv'
  BY <1>7 DEF RecordItem
<1>8. ASSUME NEW d \in Dispatchers, Link(d) PROVE RowInv'
  BY <1>8 DEF Link
<1>9. ASSUME NEW d \in Dispatchers, Complete(d) PROVE RowInv'
  <2>1. cur[d] \in batch[d] /\ Advance(d)
    BY <1>9 DEF Complete
  <2>2. \A k \in Keys \ {cur[d]} : /\ status'[k] = status[k]
                                     /\ leaseIn'[k] = leaseIn[k]
                                     /\ attempts'[k] = attempts[k]
    BY <1>9 DEF Complete
  <2>3. AttemptsBounded'
    BY <1>9, <2>1 DEF Complete
  <2> HIDE DEF TypeOK, LeaseExclusive, HeldRows, CurrentRow, AttemptsBounded
  <2>4. RowInv
    BY DEF RowInv
  <2> HIDE DEF RowInv
  <2>5. LeaseExclusive' /\ HeldRows' /\ CurrentRow'
    BY <2>1, <2>2, <2>4, Release
  <2> QED
    BY <2>3, <2>5 DEF RowInv
<1>10. ASSUME NEW d \in Dispatchers, StatementFails(d) PROVE RowInv'
  BY <1>10 DEF StatementFails, FailWith
<1>11. ASSUME NEW d \in Dispatchers, DeadLetter(d) PROVE RowInv'
  <2>1. cur[d] \in batch[d] /\ Advance(d)
    BY <1>11 DEF DeadLetter
  <2>2. \A k \in Keys \ {cur[d]} : /\ status'[k] = status[k]
                                     /\ leaseIn'[k] = leaseIn[k]
                                     /\ attempts'[k] = attempts[k]
    BY <1>11 DEF DeadLetter
  <2>3. AttemptsBounded'
    BY <1>11, <2>1 DEF DeadLetter
  <2> HIDE DEF TypeOK, LeaseExclusive, HeldRows, CurrentRow, AttemptsBounded
  <2>4. RowInv
    BY DEF RowInv
  <2> HIDE DEF RowInv
  <2>5. LeaseExclusive' /\ HeldRows' /\ CurrentRow'
    BY <2>1, <2>2, <2>4, Release
  <2> QED
    BY <2>3, <2>5 DEF RowInv
<1>12. ASSUME NEW d \in Dispatchers, RetryLater(d) PROVE RowInv'
  <2>1. cur[d] \in batch[d] /\ Advance(d)
    BY <1>12 DEF RetryLater
  <2>2. \A k \in Keys \ {cur[d]} : /\ status'[k] = status[k]
                                     /\ leaseIn'[k] = leaseIn[k]
                                     /\ attempts'[k] = attempts[k]
    BY <1>12 DEF RetryLater
  <2>3. AttemptsBounded'
    BY <1>12, <2>1 DEF RetryLater, GivesUp
  <2> HIDE DEF TypeOK, LeaseExclusive, HeldRows, CurrentRow, AttemptsBounded
  <2>4. RowInv
    BY DEF RowInv
  <2> HIDE DEF RowInv
  <2>5. LeaseExclusive' /\ HeldRows' /\ CurrentRow'
    BY <2>1, <2>2, <2>4, Release
  <2> QED
    BY <2>3, <2>5 DEF RowInv
<1>13. ASSUME NEW d \in Dispatchers, Abandon(d) PROVE RowInv'
  BY <1>13 DEF Abandon
<1>14. ASSUME Tick PROVE RowInv'
  BY <1>14 DEF Tick
<1>15. CASE UNCHANGED vars
  BY <1>15 DEF vars
<1> QED
  BY <1>1, <1>2, <1>3, <1>4, <1>5, <1>6, <1>7, <1>8, <1>9, <1>10, <1>11, <1>12, <1>13, <1>14, <1>15
  DEF Next, Deliver
-----------------------------------------------------------------------------
(* Drafts and the graph. *)

Busy(d) == pc[d] \notin {"idle", "next"}

\* No two drains work on one row.
LEMMA SoleOwner ==
  ASSUME TypeOK, RowInv, NEW d \in Dispatchers, Busy(d), NEW e \in Dispatchers, Busy(e), d # e
  PROVE  cur[d] # cur[e]
  BY DEF RowInv, LeaseExclusive, CurrentRow, Busy

LEMMA StepGraphInv == TypeOK /\ RowInv /\ GraphInv /\ [Next]_vars => GraphInv'
<1> SUFFICES ASSUME TypeOK, RowInv, GraphInv, [Next]_vars PROVE GraphInv'
  OBVIOUS
<1> USE DEF TypeOK, GraphInv, rowVars, graphVars, drainVars, Statuses, Phases, Errors
<1>1. ASSUME NEW k \in Keys, Enqueue(k) PROVE GraphInv'
  BY <1>1 DEF Enqueue, CompleteIsLinked, Progress, DraftsNumbered, DraftsAccounted, Existing, InHand
<1>2. ASSUME NEW d \in Dispatchers, Claim(d) PROVE GraphInv'
  <2> USE <1>2 DEF Claim, Claims, Ready
  <2>0. cur[d] \in Keys /\ \A e \in Dispatchers : Busy(e) /\ Busy(d) /\ e # d => cur[e] # cur[d]
    BY SoleOwner
  <2>1. CompleteIsLinked' /\ DraftsNumbered'
    BY <2>0 DEF Progress, CompleteIsLinked, DraftsNumbered, Existing
  <2>2. Progress'
    BY <2>0 DEF Progress, DraftsNumbered, Existing, Busy
  <2>3. DraftsAccounted'
    BY <2>0 DEF Progress, DraftsAccounted, InHand, Existing, Busy
  <2> QED
    BY <2>1, <2>2, <2>3
<1>3. ASSUME NEW d \in Dispatchers, Begin(d) PROVE GraphInv'
  <2>1. PICK k \in batch[d] :
          /\ cur' = [cur EXCEPT ![d] = k]
          /\ known' = [known EXCEPT ![d] = IF Existing(k) = {} THEN 0
                                          ELSE CHOOSE r \in Existing(k) : TRUE]
    BY <1>3 DEF Begin
  <2>2. k \in Keys /\ (known'[d] = 0 => Existing(k) = {})
    BY <2>1 DEF DraftsNumbered
  <2>3. CompleteIsLinked' /\ DraftsNumbered'
    BY <1>3 DEF Begin, CompleteIsLinked, DraftsNumbered, Existing
  <2>4. Progress'
    BY <1>3, <2>1, <2>2 DEF Begin, FailWith, Progress, Existing
  <2>5. \A j \in Keys : InHand(j) => InHand(j)'
    BY <1>3, <2>1 DEF Begin, FailWith, InHand
  <2>6. DraftsAccounted'
    BY <1>3, <2>5 DEF Begin, DraftsAccounted, Existing
  <2> QED
    BY <2>3, <2>4, <2>6
<1>4. ASSUME NEW d \in Dispatchers, Push(d) PROVE GraphInv'
  <2> USE <1>4 DEF Push
  <2>0. cur[d] \in Keys /\ \A e \in Dispatchers : Busy(e) /\ Busy(d) /\ e # d => cur[e] # cur[d]
    BY SoleOwner
  <2>1. CompleteIsLinked' /\ DraftsNumbered'
    BY <2>0 DEF Progress, CompleteIsLinked, DraftsNumbered, Existing
  <2>2. Progress'
    BY <2>0 DEF Progress, DraftsNumbered, Existing, Busy
  <2>3. ~InHand(cur[d]) /\ \A k \in Keys \ {cur[d]} : InHand(k) => InHand(k)'
    BY <2>0 DEF InHand, Busy
  <2>4. known[d] = 0 => drafts[cur[d]] <= faults
    BY <2>0, <2>3 DEF Progress, DraftsAccounted
  <2>5. \A k \in Keys : Existing(k)' = Existing(k)
    BY DEF Existing
  <2>6. InHand(cur[d])'
    BY <2>0, <2>3 DEF InHand, Progress, DraftsAccounted
  <2> QED
    BY <2>0, <2>1, <2>2, <2>3, <2>4, <2>5, <2>6 DEF DraftsAccounted
<1>5. ASSUME NEW d \in Dispatchers, PushRefused(d) PROVE GraphInv'
  <2> USE <1>5 DEF PushRefused, FailWith
  <2>0. cur[d] \in Keys /\ \A e \in Dispatchers : Busy(e) /\ Busy(d) /\ e # d => cur[e] # cur[d]
    BY SoleOwner
  <2>1. CompleteIsLinked' /\ DraftsNumbered'
    BY <2>0 DEF Progress, CompleteIsLinked, DraftsNumbered, Existing
  <2>2. Progress'
    BY <2>0 DEF Progress, DraftsNumbered, Existing, Busy
  <2>3. DraftsAccounted'
    BY <2>0, SMTT(30) DEF Progress, DraftsAccounted, InHand, Existing, Busy
  <2> QED
    BY <2>1, <2>2, <2>3
<1>6. ASSUME NEW d \in Dispatchers, PushReplyLost(d) PROVE GraphInv'
  <2> USE <1>6 DEF PushReplyLost, FailWith
  <2>0. cur[d] \in Keys /\ \A e \in Dispatchers : Busy(e) /\ Busy(d) /\ e # d => cur[e] # cur[d]
    BY SoleOwner
  <2>1. CompleteIsLinked' /\ DraftsNumbered'
    BY <2>0 DEF Progress, CompleteIsLinked, DraftsNumbered, Existing
  <2>2. Progress'
    BY <2>0 DEF Progress, DraftsNumbered, Existing, Busy
  <2>3. ~InHand(cur[d]) /\ \A k \in Keys \ {cur[d]} : InHand(k) => InHand(k)'
    BY <2>0 DEF InHand, Busy
  <2>4. known[d] = 0 => drafts[cur[d]] <= faults
    BY <2>0, <2>3 DEF Progress, DraftsAccounted
  <2>5. \A k \in Keys : Existing(k)' = Existing(k)
    BY DEF Existing
  <2>6. faults' = faults + 1
    BY <2>0, <2>3 DEF InHand, Progress, DraftsAccounted
  <2> QED
    BY <2>0, <2>1, <2>2, <2>3, <2>4, <2>5, <2>6 DEF DraftsAccounted
<1>7. ASSUME NEW d \in Dispatchers, RecordItem(d) PROVE GraphInv'
  <2> USE <1>7 DEF RecordItem
  <2>0. cur[d] \in Keys /\ \A e \in Dispatchers : Busy(e) /\ Busy(d) /\ e # d => cur[e] # cur[d]
    BY SoleOwner
  <2>1. CompleteIsLinked' /\ DraftsNumbered'
    BY <2>0 DEF Progress, CompleteIsLinked, DraftsNumbered, Existing
  <2>2. Progress'
    BY <2>0 DEF Progress, DraftsNumbered, Existing, Busy
  <2>3. DraftsAccounted'
    BY <2>0 DEF Progress, DraftsAccounted, InHand, Existing, Busy
  <2> QED
    BY <2>1, <2>2, <2>3
<1>8. ASSUME NEW d \in Dispatchers, Link(d) PROVE GraphInv'
  <2> USE <1>8 DEF Link
  <2>0. cur[d] \in Keys /\ \A e \in Dispatchers : Busy(e) /\ Busy(d) /\ e # d => cur[e] # cur[d]
    BY SoleOwner
  <2>1. CompleteIsLinked' /\ DraftsNumbered'
    BY <2>0 DEF Progress, CompleteIsLinked, DraftsNumbered, Existing
  <2>2. Progress'
    BY <2>0 DEF Progress, DraftsNumbered, Existing, Busy
  <2>3. DraftsAccounted'
    BY <2>0 DEF Progress, DraftsAccounted, InHand, Existing, Busy
  <2> QED
    BY <2>1, <2>2, <2>3
<1>9. ASSUME NEW d \in Dispatchers, Complete(d) PROVE GraphInv'
  <2> USE <1>9 DEF Complete, Advance
  <2>0. cur[d] \in Keys /\ \A e \in Dispatchers : Busy(e) /\ Busy(d) /\ e # d => cur[e] # cur[d]
    BY SoleOwner
  <2>1. CompleteIsLinked' /\ DraftsNumbered'
    BY <2>0 DEF Progress, CompleteIsLinked, DraftsNumbered, Existing
  <2>2. Progress'
    BY <2>0 DEF Progress, DraftsNumbered, Existing, Busy
  <2>3. DraftsAccounted'
    BY <2>0 DEF Progress, DraftsAccounted, InHand, Existing, Busy
  <2> QED
    BY <2>1, <2>2, <2>3
<1>10. ASSUME NEW d \in Dispatchers, StatementFails(d) PROVE GraphInv'
  <2> USE <1>10 DEF StatementFails, FailWith
  <2>0. cur[d] \in Keys /\ \A e \in Dispatchers : Busy(e) /\ Busy(d) /\ e # d => cur[e] # cur[d]
    BY SoleOwner
  <2>1. CompleteIsLinked' /\ DraftsNumbered'
    BY <2>0 DEF Progress, CompleteIsLinked, DraftsNumbered, Existing
  <2>2. Progress'
    BY <2>0 DEF Progress, DraftsNumbered, Existing, Busy
  <2>3. DraftsAccounted'
    BY <2>0 DEF Progress, DraftsAccounted, InHand, Existing, Busy
  <2> QED
    BY <2>1, <2>2, <2>3
<1>11. ASSUME NEW d \in Dispatchers, DeadLetter(d) PROVE GraphInv'
  <2> USE <1>11 DEF DeadLetter, Advance
  <2>0. cur[d] \in Keys /\ \A e \in Dispatchers : Busy(e) /\ Busy(d) /\ e # d => cur[e] # cur[d]
    BY SoleOwner
  <2>1. CompleteIsLinked' /\ DraftsNumbered'
    BY <2>0 DEF Progress, CompleteIsLinked, DraftsNumbered, Existing
  <2>2. Progress'
    BY <2>0 DEF Progress, DraftsNumbered, Existing, Busy
  <2>3. DraftsAccounted'
    BY <2>0 DEF Progress, DraftsAccounted, InHand, Existing, Busy
  <2> QED
    BY <2>1, <2>2, <2>3
<1>12. ASSUME NEW d \in Dispatchers, RetryLater(d) PROVE GraphInv'
  <2> USE <1>12 DEF RetryLater, Advance, GivesUp
  <2>0. cur[d] \in Keys /\ \A e \in Dispatchers : Busy(e) /\ Busy(d) /\ e # d => cur[e] # cur[d]
    BY SoleOwner
  <2>1. CompleteIsLinked' /\ DraftsNumbered'
    BY <2>0 DEF Progress, CompleteIsLinked, DraftsNumbered, Existing
  <2>2. Progress'
    BY <2>0 DEF Progress, DraftsNumbered, Existing, Busy
  <2>3. DraftsAccounted'
    BY <2>0 DEF Progress, DraftsAccounted, InHand, Existing, Busy
  <2> QED
    BY <2>1, <2>2, <2>3
<1>13. ASSUME NEW d \in Dispatchers, Abandon(d) PROVE GraphInv'
  <2> USE <1>13 DEF Abandon
  <2>0. cur[d] \in Keys /\ \A e \in Dispatchers : Busy(e) /\ Busy(d) /\ e # d => cur[e] # cur[d]
    BY SoleOwner
  <2>1. CompleteIsLinked' /\ DraftsNumbered'
    BY <2>0 DEF Progress, CompleteIsLinked, DraftsNumbered, Existing
  <2>2. Progress'
    BY <2>0 DEF Progress, DraftsNumbered, Existing, Busy
  <2>3. DraftsAccounted'
    BY <2>0 DEF Progress, DraftsAccounted, InHand, Existing, Busy
  <2> QED
    BY <2>1, <2>2, <2>3
<1>14. ASSUME Tick PROVE GraphInv'
  BY <1>14 DEF Tick, CompleteIsLinked, Progress, DraftsNumbered, DraftsAccounted, Existing, InHand
<1>15. CASE UNCHANGED vars
  BY <1>15 DEF vars, CompleteIsLinked, Progress, DraftsNumbered, DraftsAccounted, Existing, InHand
<1> QED
  BY <1>1, <1>2, <1>3, <1>4, <1>5, <1>6, <1>7, <1>8, <1>9, <1>10, <1>11, <1>12, <1>13, <1>14, <1>15
  DEF Next, Deliver
-----------------------------------------------------------------------------
(* The theorems. *)

LEMMA Invariance == ASSUME LeaseCovers PROVE Spec => []IInv
<1>1. IInv /\ [Next]_vars => IInv'
  BY StepTypeOK, StepRowInv, StepGraphInv DEF IInv
<1> QED
  BY InitIInv, <1>1, PTL DEF Spec

\* The queue among the parts is the queue alone.
LEMMA OutboxOfTransfers == TransfersSpec => Spec
<1>1. TransfersInit => Init
  BY DEF TransfersInit
<1>2. [TransfersNext]_allVars => [Next]_vars
  BY DEF TransfersNext, OutboxStep, DownloadsStep, AccountsStep, allVars, outbox, vars
<1> QED
  BY <1>1, <1>2, PTL DEF TransfersSpec, Spec

\* The variables keep their types whatever the drains do, leases overrun or not.
THEOREM OutboxTypeCorrect == TransfersSpec => []TypeOK
<1>1. Init => TypeOK
  BY InitIInv DEF IInv
<1> QED
  BY <1>1, StepTypeOK, OutboxOfTransfers, PTL DEF Spec

\* Claiming in one statement and honouring leases keeps every row in at most one drain's hands,
\* bounds the attempts, and leaves no complete row without its artifact, whatever crashes.
THEOREM OutboxSafe ==
  ASSUME LeaseCovers
  PROVE  TransfersSpec => [](LeaseExclusive /\ AttemptsBounded /\ CompleteIsLinked)
<1>1. IInv => LeaseExclusive /\ AttemptsBounded /\ CompleteIsLinked
  BY DEF IInv, RowInv, GraphInv
<1> QED
  BY <1>1, Invariance, OutboxOfTransfers, PTL

\* Every draft beyond a key's first was paid for with a fault: without faults there is one.
THEOREM ExtraDraftsAreFaults == ASSUME LeaseCovers PROVE TransfersSpec => []ExtraDraftsCostFaults
<1>1. IInv => ExtraDraftsCostFaults
  BY OutboxAssumption DEF IInv, GraphInv, DraftsAccounted, ExtraDraftsCostFaults, TypeOK
<1> QED
  BY <1>1, Invariance, OutboxOfTransfers, PTL

\* A settled row stays as it is, though no statement that writes rows checks who holds them.
THEOREM SettledStays == ASSUME LeaseCovers PROVE TransfersSpec => SettledIsFinal
<1>1. IInv /\ [Next]_vars => [\A k \in Keys : status[k] \in Settled => status'[k] = status[k]]_vars
  <2> SUFFICES ASSUME IInv, Next, NEW k \in Keys, status[k] \in Settled
               PROVE  status'[k] = status[k]
    OBVIOUS
  <2>1. \A d \in Dispatchers : Busy(d) => cur[d] \in Keys /\ cur[d] # k
    BY DEF IInv, TypeOK, RowInv, HeldRows, CurrentRow, Busy, Settled
  <2>2. status[k] \notin {"absent", "pending", "in_flight"}
    BY DEF Settled
  <2>3. CASE \E j \in Keys : Enqueue(j)
    BY <2>2, <2>3 DEF Enqueue, IInv, TypeOK
  <2>4. ASSUME NEW d \in Dispatchers, Claim(d) PROVE status'[k] = status[k]
    BY <2>2, <2>4 DEF Claim, Claims, Ready, IInv, TypeOK
  <2>5. ASSUME NEW d \in Dispatchers, Deliver(d) PROVE status'[k] = status[k]
    BY <2>1, <2>5 DEF Deliver, Begin, Push, PushRefused, PushReplyLost, RecordItem, Link, Complete,
       StatementFails, DeadLetter, RetryLater, rowVars, Busy, IInv, TypeOK
  <2>6. ASSUME NEW d \in Dispatchers, Abandon(d) PROVE status'[k] = status[k]
    BY <2>6 DEF Abandon, rowVars
  <2>7. CASE Tick
    BY <2>7 DEF Tick
  <2> QED
    BY <2>3, <2>4, <2>5, <2>6, <2>7 DEF Next
<1> QED
  BY <1>1, Invariance, OutboxOfTransfers, PTL DEF Spec, SettledIsFinal

\* A push made for a node already joined to its draft never creates a second one.
THEOREM SyncedStaysSingle == ASSUME LeaseCovers PROVE TransfersSpec => SyncedNeverRecreated
<1>1. IInv /\ [Next]_vars => [\A k \in Keys : Existing(k) # {} => drafts'[k] = drafts[k]]_vars
  <2> SUFFICES ASSUME IInv, Next, NEW k \in Keys, Existing(k) # {}
               PROVE  drafts'[k] = drafts[k]
    OBVIOUS
  <2>1. ASSUME NEW d \in Dispatchers, Push(d) \/ PushReplyLost(d) PROVE drafts'[k] = drafts[k]
    BY <2>1 DEF Push, PushReplyLost, IInv, TypeOK, GraphInv, Progress
  <2>2. CASE UNCHANGED drafts
    BY <2>2
  <2> QED
    BY <2>1, <2>2 DEF Next, Enqueue, Claim, Deliver, Begin, PushRefused, RecordItem, Link, Complete,
       StatementFails, DeadLetter, RetryLater, Abandon, Tick
<1> QED
  BY <1>1, Invariance, OutboxOfTransfers, PTL DEF Spec, SyncedNeverRecreated
-----------------------------------------------------------------------------
(* Refinement of Delivery. *)

LEMMA OutcomeInit == Init => Contract!Init
  BY DEF Init, Contract!Init, Outcome, Synced, Existing

\* A step that gives no row another outcome and links no node is a stutter of the contract.
LEMMA OutcomeStutter ==
  ASSUME \A k \in Keys : status'[k] = status[k], items' = items, edges' = edges
  PROVE  UNCHANGED <<Outcome, Synced>>
  BY DEF Outcome, Synced, Existing

LEMMA OutcomeStep ==
  ASSUME LeaseCovers, IInv, Next
  PROVE  [Contract!Next]_<<Outcome, Synced>>
<1> DEFINE Goal == [Contract!Next]_<<Outcome, Synced>>
<1> USE DEF IInv, TypeOK, rowVars, graphVars, drainVars
<1>1. ASSUME NEW k \in Keys, Enqueue(k) PROVE Goal
  <2>1. Contract!Submit(k)
    BY <1>1 DEF Enqueue, Contract!Submit, Outcome, Synced, Existing
  <2> QED
    BY <2>1 DEF Contract!Next
<1>2. ASSUME NEW d \in Dispatchers, Claim(d) PROVE Goal
  <2>1. \A k \in Keys : Outcome'[k] = Outcome[k]
    BY <1>2, ZenonT(30) DEF Claim, Claims, Ready, Outcome
  <2>2. Outcome' = Outcome
    BY <2>1 DEF Outcome
  <2>3. Synced' = Synced
    BY <1>2 DEF Claim, Synced, Existing
  <2> QED
    BY <2>2, <2>3
<1>3. ASSUME NEW d \in Dispatchers, RecordItem(d) \/ Link(d) PROVE Goal
  <2>1. cur[d] \in Keys /\ status[cur[d]] = "in_flight"
    BY <1>3 DEF RecordItem, Link, RowInv, HeldRows, CurrentRow
  <2>2. Outcome' = Outcome /\ Outcome[cur[d]] = "queued"
    BY <1>3, <2>1 DEF RecordItem, Link, Outcome
  <2>3. \A k \in Keys : /\ Existing(k) \subseteq Existing(k)'
                        /\ k # cur[d] => Existing(k)' = Existing(k)
    BY <1>3, <2>1 DEF RecordItem, Link, Existing
  <2>4. Synced \subseteq Synced' /\ Synced' \subseteq Synced \union {cur[d]}
    BY <2>3 DEF Synced
  <2>5. Synced' = Synced \/ Synced' = Synced \union {cur[d]}
    BY <2>4
  <2> QED
    BY <2>1, <2>2, <2>5 DEF Contract!Next, Contract!Sync
<1>4. ASSUME NEW d \in Dispatchers, Complete(d) PROVE Goal
  <2>1. cur[d] \in Keys /\ status[cur[d]] = "in_flight" /\ Existing(cur[d]) # {}
    BY <1>4 DEF Complete, RowInv, HeldRows, CurrentRow, GraphInv, Progress
  <2>2. Outcome[cur[d]] = "queued" /\ cur[d] \in Synced /\ Synced' = Synced
    BY <1>4, <2>1 DEF Complete, Outcome, Synced, Existing
  <2>3. Outcome' = [Outcome EXCEPT ![cur[d]] = "delivered"]
    BY <1>4, <2>1 DEF Complete, Outcome
  <2>4. Contract!Settle(cur[d])
    BY <2>2, <2>3 DEF Contract!Settle
  <2> QED
    BY <2>1, <2>4 DEF Contract!Next
<1>5. ASSUME NEW d \in Dispatchers, DeadLetter(d) PROVE Goal
  <2>1. cur[d] \in Keys /\ status[cur[d]] = "in_flight"
    BY <1>5 DEF DeadLetter, RowInv, HeldRows, CurrentRow
  <2>2. Outcome[cur[d]] = "queued" /\ Synced' = Synced
    BY <1>5, <2>1 DEF DeadLetter, Outcome, Synced, Existing
  <2>3. Outcome' = [Outcome EXCEPT ![cur[d]] = "abandoned"]
    BY <1>5, <2>1 DEF DeadLetter, Outcome
  <2>4. Contract!Settle(cur[d])
    BY <2>2, <2>3 DEF Contract!Settle
  <2> QED
    BY <2>1, <2>4 DEF Contract!Next
<1>6. ASSUME NEW d \in Dispatchers, RetryLater(d) PROVE Goal
  <2>1. cur[d] \in Keys /\ status[cur[d]] = "in_flight"
    BY <1>6 DEF RetryLater, RowInv, HeldRows, CurrentRow
  <2>2. Outcome' = Outcome /\ Synced' = Synced
    BY <1>6, <2>1 DEF RetryLater, Outcome, Synced, Existing
  <2> QED
    BY <2>2
<1>7. ASSUME NEW d \in Dispatchers,
             \/ Begin(d) \/ Push(d) \/ PushRefused(d) \/ PushReplyLost(d)
             \/ StatementFails(d) \/ Abandon(d)
      PROVE  Goal
  <2>1. UNCHANGED <<status, items, edges>>
    BY <1>7 DEF Begin, Push, PushRefused, PushReplyLost, StatementFails, Abandon
  <2> QED
    BY <2>1, OutcomeStutter
<1>8. CASE Tick
  BY <1>8, OutcomeStutter DEF Tick
<1> QED
  BY <1>1, <1>2, <1>3, <1>4, <1>5, <1>6, <1>7, <1>8 DEF Next, Deliver

\* The queue implements its contract: every step of the rows, drains and graph is a step of
\* Delivery or none.
THEOREM OutboxImplementsDelivery == ASSUME LeaseCovers PROVE TransfersSpec => ImplementsDelivery
<1>1. IInv /\ [Next]_vars => [Contract!Next]_<<Outcome, Synced>>
  <2>1. UNCHANGED vars => UNCHANGED <<Outcome, Synced>>
    BY DEF vars, rowVars, graphVars, Outcome, Synced, Existing
  <2> QED
    BY <2>1, OutcomeStep
<1> QED
  BY <1>1, OutcomeInit, Invariance, OutboxOfTransfers, PTL DEF Spec, ImplementsDelivery, Contract!Spec, Contract!contract
-----------------------------------------------------------------------------
(* Downloads. *)
Prefix(n) == [i \in 1..n |-> i]

Active(f) == fetch[f].step \notin {"away", "over"}

\* One task of the manager runs at a time, the one whose channel the entry holds.
OneTask == \A t \in Tasks : Active(t) => entry = t /\ state = "downloading"

\* What is at a place is what the place counts.
PathsInUse == \A f \in D!Fetchers : fetch[f].step = "writing" =>
                /\ fetch[f].fd \in used
                /\ IF fetch[f].append THEN fetch[f].at = 0 ELSE fetch[f].at = fetch[f].next - 1

OneBusy == \A f, g \in D!Fetchers : D!Busy(f) /\ D!Busy(g) => f = g

PartialIsPrefix == partial # NoFile => bytes[partial] = Prefix(Len(bytes[partial]))

Asked(f) ==
  fetch[f].step = "asking" =>
    /\ partial = NoFile => fetch[f].resume = 0
    /\ partial # NoFile => fetch[f].resume = Len(bytes[partial])
    /\ fetch[f].resume < Size

Writes(f) ==
  fetch[f].step = "writing" =>
    /\ partial # NoFile /\ fetch[f].fd = partial
    /\ bytes[partial] = Prefix(fetch[f].next - 1)

FinalIsWhole == final # NoFile => bytes[final] = Prefix(Size)

Whole == /\ OneBusy /\ PartialIsPrefix /\ FinalIsWhole
         /\ \A f \in D!Fetchers : Asked(f) /\ Writes(f)

DownloadsInv == D!TypeOK /\ OneTask /\ PathsInUse /\ (~clashed => Whole)

LEMMA PrefixLen == ASSUME NEW n \in Nat PROVE Prefix(n) \in Seq(Nat) /\ Len(Prefix(n)) = n
  BY DEF Prefix

LEMMA PrefixAppend == ASSUME NEW n \in Nat PROVE Append(Prefix(n), n + 1) = Prefix(n + 1)
  BY DEF Prefix

LEMMA PrefixPut == ASSUME NEW n \in Nat PROVE D!Put(Prefix(n), n + 1, n + 1) = Prefix(n + 1)
  BY PrefixLen DEF Prefix, D!Put

LEMMA EmptyPrefix == <<>> = Prefix(0)
  BY DEF Prefix

LEMMA PutType == ASSUME NEW s \in Seq(0..Size), NEW at \in 0..Size, NEW b \in 0..Size, Size \in Nat
                 PROVE  D!Put(s, at, b) \in Seq(0..Size)
<1> DEFINE n == IF at > Len(s) THEN at ELSE Len(s)
<1>1. n \in Nat OBVIOUS
<1>2. \A i \in 1..n : (IF i = at THEN b ELSE IF i <= Len(s) THEN s[i] ELSE 0) \in 0..Size
  OBVIOUS
<1>3. [i \in 1..n |-> IF i = at THEN b ELSE IF i <= Len(s) THEN s[i] ELSE 0] \in [1..n -> 0..Size]
  BY <1>2
<1> HIDE DEF n
<1>q. QED BY <1>1, <1>3 DEF D!Put, n

Records == [step : D!Steps, resume : 0..Size, fd : Inodes \union {NoFile},
            append : BOOLEAN, at : 0..Size, next : 1..(Size + 1)]

LEMMA SetStep == ASSUME NEW r \in Records, NEW x \in D!Steps
                 PROVE  [r EXCEPT !.step = x] \in Records /\ [r EXCEPT !.step = x].step = x
  BY DEF Records

LEMMA AwayType == ASSUME D!DownloadsAssumption
                  PROVE  /\ D!Away \in Records /\ D!Away.step = "away"
                         /\ D!Over \in Records /\ D!Over.step = "over"
<1>1. D!Away \in Records /\ D!Away.step = "away"
  BY DEF D!DownloadsAssumption, D!Away, Records, D!Steps
<1>2. "over" \in D!Steps
  BY DEF D!Steps
<1>q. QED BY <1>1, <1>2, SetStep, Zenon DEF D!Over

LEMMA DownloadsInit == D!DownloadsAssumption /\ D!Init => DownloadsInv
<1> SUFFICES ASSUME D!DownloadsAssumption, D!Init PROVE DownloadsInv OBVIOUS
<1> USE DEF D!DownloadsAssumption
<1>1. <<>> \in Seq(0..Size) OBVIOUS
<1>2. D!TypeOK
  <2>1. bytes \in [Inodes -> Seq(0..Size)]
    BY <1>1 DEF D!Init
  <2>2. fetch \in [D!Fetchers -> Records]
    BY AwayType DEF D!Init
  <2>3. /\ entry = NoFile /\ state = "done" /\ final = NoFile /\ partial = NoFile /\ used = {}
        /\ clashed = FALSE /\ broken = 0
    BY DEF D!Init
  <2>4. broken \in 0..MaxBreaks
    BY <2>3
  <2>5. entry \in Tasks \union {NoFile} /\ state \in {"downloading", "done", "failed"} /\ clashed \in BOOLEAN
    BY <2>3
  <2>6. final \in used \union {NoFile} /\ partial \in used \union {NoFile} /\ used \subseteq Inodes
    BY <2>3
  <2>7. final = NoFile \/ final # partial
    BY <2>3
  <2>q. QED BY <2>1, <2>2, <2>4, <2>5, <2>6, <2>7 DEF D!TypeOK, Records
<1>a. \A f \in D!Fetchers : fetch[f].step = "away"
  <2>1. \A f \in D!Fetchers : fetch[f] = D!Away
    BY DEF D!Init
  <2>2. D!Away.step = "away"
    BY DEF D!Away
  <2>q. QED BY <2>1, <2>2
<1>b. Tasks \subseteq D!Fetchers
  BY DEF D!Fetchers
<1>3. OneTask /\ PathsInUse /\ OneBusy /\ \A f \in D!Fetchers : Asked(f) /\ Writes(f)
  BY <1>a, <1>b DEF OneTask, PathsInUse, OneBusy, Asked, Writes, D!Busy, Active
<1>4. PartialIsPrefix /\ FinalIsWhole
  BY DEF D!Init, PartialIsPrefix, FinalIsWhole
<1>q. QED BY <1>2, <1>3, <1>4 DEF DownloadsInv, Whole


LEMMA DownloadsTyped == ASSUME D!DownloadsAssumption, D!TypeOK, NEW f \in D!Fetchers
                        PROVE  /\ fetch[f] \in Records
                               /\ Size \in Nat /\ Size > 0
  BY DEF D!DownloadsAssumption, D!TypeOK, Records

LEMMA TellType == ASSUME D!DownloadsAssumption, D!TypeOK, NEW f \in D!Fetchers, NEW o \in {"done", "failed"}, D!Tell(f, o)
                  PROVE  /\ fetch' \in [D!Fetchers -> Records]
                         /\ entry' \in Tasks \union {NoFile}
                         /\ state' \in {"downloading", "done", "failed"}
  BY AwayType DEF D!Tell, D!TypeOK, Records

\* What a transfer's record is after a step, and that the others are as they were.
LEMMA Asking == ASSUME fetch \in [D!Fetchers -> Records], NEW f \in D!Fetchers, NEW k \in 0..Size,
                       fetch' = [fetch EXCEPT ![f] = [@ EXCEPT !.step = "asking", !.resume = k]]
                PROVE  /\ fetch' \in [D!Fetchers -> Records]
                       /\ fetch'[f].step = "asking" /\ fetch'[f].resume = k
                       /\ \A g \in D!Fetchers \ {f} : fetch'[g] = fetch[g]
  BY ZenonT(30) DEF Records, D!Steps

LEMMA Wrote == ASSUME fetch \in [D!Fetchers -> Records], NEW f \in D!Fetchers, NEW n \in 1..(Size + 1),
                      NEW k \in 0..Size,
                      fetch' = [fetch EXCEPT ![f] = [fetch[f] EXCEPT !.next = n, !.at = k]]
               PROVE  /\ fetch' \in [D!Fetchers -> Records]
                      /\ fetch'[f].next = n /\ fetch'[f].at = k
                      /\ fetch'[f].step = fetch[f].step /\ fetch'[f].fd = fetch[f].fd
                      /\ fetch'[f].append = fetch[f].append
                      /\ \A g \in D!Fetchers \ {f} : fetch'[g] = fetch[g]
  BY DEF Records

LEMMA Checking == ASSUME fetch \in [D!Fetchers -> Records], NEW f \in D!Fetchers,
                         fetch' = [fetch EXCEPT ![f].step = "checking"]
                  PROVE  /\ fetch' \in [D!Fetchers -> Records]
                         /\ fetch'[f].step = "checking"
                         /\ \A g \in D!Fetchers \ {f} : fetch'[g] = fetch[g]
  BY DEF Records, D!Steps

\* A step of one transfer changes the type of nothing.
LEMMA StepType == ASSUME D!DownloadsAssumption, D!TypeOK, PathsInUse, NEW f \in D!Fetchers, D!Step(f)
                  PROVE  D!TypeOK'
<1> USE DEF D!DownloadsAssumption
<1>0. fetch \in [D!Fetchers -> Records]
  BY DEF D!TypeOK, Records
<1>1. CASE D!Look(f)
  <2>1. CASE D!Trusted
    BY <1>1, <2>1, TellType DEF D!Look, D!TypeOK, Records
  <2>2. CASE ~D!Trusted
    <3> DEFINE n == IF partial = NoFile THEN 0 ELSE Len(bytes[partial])
               kept == 0 < n /\ n < Size
    <3>1. n \in Nat
      BY DEF D!TypeOK
    <3> HIDE DEF n
    <3>2. /\ partial' = IF kept THEN partial ELSE NoFile
          /\ fetch' = [fetch EXCEPT ![f] = [@ EXCEPT !.step = "asking", !.resume = IF kept THEN n ELSE 0]]
          /\ clashed' \in BOOLEAN
      BY <1>1, <2>2 DEF D!Look, n, D!TypeOK
    <3>3. fetch' \in [D!Fetchers -> Records]
      <4> DEFINE k == IF kept THEN n ELSE 0
      <4>1. k \in 0..Size
        BY <3>1
      <4>2. fetch' = [fetch EXCEPT ![f] = [@ EXCEPT !.step = "asking", !.resume = k]]
        BY <3>2
      <4> HIDE DEF k
      <4>q. QED BY <1>0, <4>1, <4>2, Asking
    <3>4. UNCHANGED <<D!manager, final, bytes, used, broken>>
      BY <1>1, <2>2 DEF D!Look
    <3>q. QED BY <3>2, <3>3, <3>4 DEF D!TypeOK, Records, D!manager
  <2>q. QED BY <2>1, <2>2
<1>2. CASE D!WriteChunk(f)
  <2>1. fetch[f].next \in 1..Size /\ fetch[f].fd \in Inodes /\ fetch[f].at + 1 \in 0..Size
    BY <1>2, DownloadsTyped DEF D!WriteChunk, PathsInUse, Records, D!TypeOK
  <2>2. bytes[fetch[f].fd] \in Seq(0..Size)
    BY <2>1 DEF D!TypeOK
  <2>3. Append(bytes[fetch[f].fd], fetch[f].next) \in Seq(0..Size)
    BY <2>1, <2>2
  <2>4. D!Put(bytes[fetch[f].fd], fetch[f].at + 1, fetch[f].next) \in Seq(0..Size)
    <3>1. fetch[f].next \in 0..Size /\ Size \in Nat
      BY <2>1
    <3>q. QED BY <2>1, <2>2, <3>1, PutType
  <2>5. bytes' \in [Inodes -> Seq(0..Size)]
    BY <1>2, <2>1, <2>3, <2>4 DEF D!WriteChunk, D!TypeOK
  <2>6. fetch' \in [D!Fetchers -> Records]
    <3>0. fetch[f].next + 1 \in 1..(Size + 1)
      BY <2>1
    <3> DEFINE at == IF fetch[f].append THEN 0 ELSE fetch[f].at + 1
    <3>1. at \in 0..Size
      BY <2>1, DownloadsTyped
    <3>2. fetch' = [fetch EXCEPT ![f] = [fetch[f] EXCEPT !.next = fetch[f].next + 1, !.at = at]]
      BY <1>2, DownloadsTyped DEF D!WriteChunk, Records
    <3> HIDE DEF at
    <3>q. QED BY <3>0, <3>1, <3>2, <1>0, Wrote
  <2>q. QED BY <1>2, <2>5, <2>6 DEF D!WriteChunk, D!TypeOK, Records, D!manager, D!paths
<1>3. CASE D!Rename(f)
  <2>1. CASE partial = NoFile
    BY <1>3, <2>1, TellType DEF D!Rename, D!TypeOK, Records, D!paths
  <2>2. CASE partial # NoFile
    <3>1. fetch' \in [D!Fetchers -> Records]
      BY <1>3, <2>2, <1>0 DEF D!Rename, Records, D!Steps
    <3>q. QED BY <1>3, <2>2, <3>1 DEF D!Rename, D!TypeOK, Records, D!manager
  <2>q. QED BY <2>1, <2>2
<1>4. CASE D!Verify(f)
  BY <1>4, TellType DEF D!Verify, D!TypeOK, Records, D!manager
<1>5. ASSUME NEW honoured \in BOOLEAN, D!OpenPartial(f, honoured)
      PROVE  D!TypeOK'
  <2> PICK i \in Inodes :
       /\ IF partial = NoFile THEN i \notin used ELSE i = partial
       /\ partial' = i
       /\ used' = used \union {i}
       /\ bytes' = IF honoured THEN bytes ELSE [bytes EXCEPT ![i] = <<>>]
       /\ fetch' = [fetch EXCEPT ![f] = [step |-> "writing", resume |-> 0, fd |-> i, append |-> honoured, at |-> 0,
                                         next |-> IF honoured THEN fetch[f].resume + 1 ELSE 1]]
    BY <1>5 DEF D!OpenPartial
  <2> DEFINE next == IF honoured THEN fetch[f].resume + 1 ELSE 1
  <2>1. next \in 1..(Size + 1) /\ 0 \in 0..Size
    BY DownloadsTyped DEF Records
  <2>2. fetch' \in [D!Fetchers -> Records]
    BY <2>1, <1>0 DEF Records, D!Steps
  <2>3. bytes' \in [Inodes -> Seq(0..Size)]
    <3>1. <<>> \in Seq(0..Size) OBVIOUS
    <3>q. QED BY <3>1 DEF D!TypeOK
  <2>q. QED BY <1>5, <2>2, <2>3 DEF D!OpenPartial, D!TypeOK, Records, D!manager
<1>q. QED BY <1>1, <1>2, <1>3, <1>4, <1>5 DEF D!Step


\* A transfer that is told its end leaves the others as they were.
LEMMA Told == ASSUME D!DownloadsAssumption, D!TypeOK, NEW f \in D!Fetchers, NEW o \in {"done", "failed"}, D!Tell(f, o)
              PROVE  /\ fetch'[f].step = "over"
                     /\ \A g \in D!Fetchers \ {f} : fetch'[g] = fetch[g]
                     /\ entry' = entry
                     /\ entry # f => state' = state
  BY AwayType DEF D!Tell, D!TypeOK, Records

\* A transfer that ends, or does not start, touches no file.
LEMMA EndKeeps == ASSUME D!DownloadsAssumption, DownloadsInv, NEW f \in D!Fetchers, NEW o \in {"done", "failed"}, D!Tell(f, o)
                  PROVE  OneTask'
<1>1. Tasks \subseteq D!Fetchers
  BY DEF D!Fetchers
<1>2. ASSUME NEW t \in Tasks, Active(t)' PROVE entry' = t /\ state' = "downloading"
  <2>1. t # f
    BY <1>2, Told DEF DownloadsInv, Active
  <2>2. Active(t)
    BY <1>1, <1>2, <2>1, Told DEF DownloadsInv, Active
  <2>q. QED BY <2>1, <2>2, Told DEF DownloadsInv, OneTask
<1>q. QED BY <1>2 DEF OneTask

\* Steps of a transfer that was under way and goes on.
LEMMA GoesOn == ASSUME DownloadsInv, NEW f \in D!Fetchers, Active(f),
                       \A g \in D!Fetchers \ {f} : fetch'[g] = fetch[g], UNCHANGED D!manager
                PROVE  OneTask'
<1>1. Tasks \subseteq D!Fetchers
  BY DEF D!Fetchers
<1>2. ASSUME NEW t \in Tasks, Active(t)' PROVE entry' = t /\ state' = "downloading"
  <2>1. Active(t)
    BY <1>1, <1>2 DEF Active
  <2>q. QED BY <2>1 DEF DownloadsInv, OneTask, D!manager
<1>q. QED BY <1>2 DEF OneTask

\* A transfer that ends or starts leaves what is true of the files.
LEMMA FilesKept == ASSUME DownloadsInv, NEW f \in D!Fetchers, fetch'[f].step \in {"away", "looking", "silent", "over"},
                          \A g \in D!Fetchers \ {f} : fetch'[g] = fetch[g],
                          UNCHANGED <<partial, bytes, used, clashed>>, final' \in {final, NoFile}
                   PROVE  PathsInUse' /\ (~clashed' => Whole')
<1>1. PathsInUse'
  BY DEF DownloadsInv, PathsInUse
<1>2. ASSUME ~clashed PROVE Whole'
  <2>1. OneBusy'
    BY <1>2 DEF DownloadsInv, Whole, OneBusy, D!Busy
  <2>2. PartialIsPrefix' /\ FinalIsWhole'
    BY <1>2 DEF DownloadsInv, Whole, PartialIsPrefix, FinalIsWhole
  <2>3. \A g \in D!Fetchers : Asked(g)' /\ Writes(g)'
    BY <1>2 DEF DownloadsInv, Whole, Asked, Writes
  <2>q. QED BY <2>1, <2>2, <2>3 DEF Whole
<1>q. QED BY <1>1, <1>2

LEMMA StartKeeps ==
  ASSUME D!DownloadsAssumption, DownloadsInv, NEW f \in D!Fetchers, fetch[f].step = "away",
         fetch' = [fetch EXCEPT ![f].step = "looking"], UNCHANGED <<D!disk, clashed, broken>>
  PROVE  /\ fetch' \in [D!Fetchers -> Records] /\ fetch'[f].step = "looking"
         /\ \A g \in D!Fetchers \ {f} : fetch'[g] = fetch[g]
         /\ PathsInUse' /\ (~clashed' => Whole')
<1>0. fetch \in [D!Fetchers -> Records]
  BY DEF DownloadsInv, D!TypeOK, Records
<1>1. /\ fetch' \in [D!Fetchers -> Records] /\ fetch'[f].step = "looking"
      /\ \A g \in D!Fetchers \ {f} : fetch'[g] = fetch[g]
  BY <1>0 DEF Records, D!Steps
<1>q. QED BY <1>1, FilesKept DEF D!disk, D!paths

LEMMA PressKept == ASSUME D!DownloadsAssumption, DownloadsInv, NEW t \in Tasks, D!Press(t) PROVE DownloadsInv'
<1>1. t \in D!Fetchers
  BY DEF D!Fetchers
<1>2. /\ fetch' \in [D!Fetchers -> Records] /\ \A g \in D!Fetchers \ {t} : fetch'[g] = fetch[g]
      /\ PathsInUse' /\ (~clashed' => Whole')
  BY <1>1, StartKeeps DEF D!Press
<1>3. D!TypeOK'
  BY <1>2 DEF DownloadsInv, D!TypeOK, D!Press, Records, D!disk, D!paths
<1>4. ASSUME NEW u \in Tasks, Active(u)' PROVE u = t
  <2>1. ASSUME u # t PROVE FALSE
    <3>1. Active(u)
      BY <1>2, <1>4, <2>1 DEF Active, D!Fetchers
    <3>2. entry = u /\ state = "downloading"
      BY <3>1 DEF DownloadsInv, OneTask
    <3>q. QED BY <3>2 DEF D!Press, D!DownloadsAssumption, D!Fetchers
  <2>q. QED BY <2>1
<1>5. OneTask'
  BY <1>4 DEF OneTask, D!Press
<1>q. QED BY <1>2, <1>3, <1>5 DEF DownloadsInv

LEMMA ElsewhereKept == ASSUME D!DownloadsAssumption, DownloadsInv, NEW f \in D!Fetchers, D!FetchElsewhere(f) PROVE DownloadsInv'
<1>2. /\ fetch' \in [D!Fetchers -> Records] /\ \A g \in D!Fetchers \ {f} : fetch'[g] = fetch[g]
      /\ PathsInUse' /\ (~clashed' => Whole')
  BY StartKeeps DEF D!FetchElsewhere
<1>3. D!TypeOK'
  BY <1>2 DEF DownloadsInv, D!TypeOK, D!FetchElsewhere, Records, D!disk, D!paths, D!manager
<1>4. OneTask'
  <2>1. ASSUME NEW u \in Tasks, Active(u)' PROVE Active(u)
    BY <1>2, <2>1 DEF Active, D!Fetchers, D!FetchElsewhere, D!DownloadsAssumption
  <2>q. QED BY <2>1 DEF DownloadsInv, OneTask, D!FetchElsewhere, D!manager
<1>q. QED BY <1>2, <1>3, <1>4 DEF DownloadsInv

LEMMA VerifyKept == ASSUME D!DownloadsAssumption, DownloadsInv, NEW f \in D!Fetchers, D!Verify(f) PROVE DownloadsInv'
<1>1. D!TypeOK'
  BY StepType DEF DownloadsInv, D!Step
<1>2. PICK o \in {"done", "failed"} : D!Tell(f, o)
  BY DEF D!Verify
<1>3. OneTask'
  BY <1>2, EndKeeps
<1>4. PathsInUse' /\ (~clashed' => Whole')
  BY <1>2, Told, FilesKept DEF D!Verify, DownloadsInv
<1>q. QED BY <1>1, <1>3, <1>4 DEF DownloadsInv

LEMMA BreakKept == ASSUME D!DownloadsAssumption, DownloadsInv, NEW f \in D!Fetchers, D!Break(f) PROVE DownloadsInv'
<1>1. D!TypeOK'
  BY TellType DEF DownloadsInv, D!TypeOK, D!Break, D!Fault, D!disk, D!paths, Records, D!DownloadsAssumption
<1>2. D!Tell(f, "failed")
  BY DEF D!Break
<1>3. OneTask'
  BY <1>2, EndKeeps
<1>4. PathsInUse' /\ (~clashed' => Whole')
  BY <1>2, Told, FilesKept DEF D!Break, DownloadsInv, D!disk, D!paths
<1>q. QED BY <1>1, <1>3, <1>4 DEF DownloadsInv

LEMMA StallKept == ASSUME D!DownloadsAssumption, DownloadsInv, NEW f \in D!Fetchers, D!Stall(f) PROVE DownloadsInv'
<1>1. fetch' = [fetch EXCEPT ![f] = [D!Away EXCEPT !.step = "silent"]] /\ UNCHANGED <<D!manager, D!disk, clashed>>
  BY DEF D!Stall
<1>2. fetch \in [D!Fetchers -> Records] /\ fetch[f].step \in {"asking", "writing"}
  BY DEF DownloadsInv, D!TypeOK, Records, D!Stall
<1>3. [D!Away EXCEPT !.step = "silent"] \in Records /\ [D!Away EXCEPT !.step = "silent"].step = "silent"
  <2>1. "silent" \in D!Steps
    BY DEF D!Steps
  <2>q. QED BY <2>1, AwayType, SetStep
<1>4. /\ fetch' \in [D!Fetchers -> Records] /\ fetch'[f].step = "silent"
      /\ \A g \in D!Fetchers \ {f} : fetch'[g] = fetch[g]
  BY <1>1, <1>2, <1>3
<1>5. broken' \in 0..MaxBreaks
  BY DEF DownloadsInv, D!TypeOK, D!Stall, D!Fault, D!DownloadsAssumption
<1>6. D!TypeOK'
  BY <1>1, <1>4, <1>5 DEF DownloadsInv, D!TypeOK, D!manager, D!disk, D!paths, Records
<1>7. OneTask'
  BY <1>1, <1>2, <1>4, GoesOn DEF Active
<1>8. PathsInUse' /\ (~clashed' => Whole')
  BY <1>1, <1>4, FilesKept DEF D!disk, D!paths
<1>q. QED BY <1>6, <1>7, <1>8 DEF DownloadsInv

LEMMA RemoveKept == ASSUME D!DownloadsAssumption, DownloadsInv, D!Remove PROVE DownloadsInv'
<1>1. D!TypeOK'
  BY DEF DownloadsInv, D!TypeOK, D!Remove, D!Fault, D!manager, D!DownloadsAssumption
<1>2. OneTask' /\ PathsInUse'
  BY DEF DownloadsInv, OneTask, PathsInUse, Active, D!Remove, D!manager
<1>3. ASSUME ~clashed' PROVE Whole'
  BY <1>3 DEF DownloadsInv, Whole, OneBusy, D!Busy, PartialIsPrefix, FinalIsWhole, Asked, Writes, D!Remove
<1>q. QED BY <1>1, <1>2, <1>3 DEF DownloadsInv

LEMMA CrashKept == ASSUME D!DownloadsAssumption, DownloadsInv, D!Crash PROVE DownloadsInv'
<1>0. ASSUME NEW f \in D!Fetchers
      PROVE  /\ fetch'[f] \in {fetch[f], D!Over}
             /\ f \in Tasks => fetch'[f].step \in {"away", "over"}
  BY <1>0, AwayType DEF D!Crash
<1>1. D!TypeOK'
  <2>1. fetch' \in [D!Fetchers -> Records]
    BY <1>0, AwayType DEF D!Crash, DownloadsInv, D!TypeOK, Records
  <2>q. QED BY <2>1 DEF DownloadsInv, D!TypeOK, D!Crash, D!Fault, D!DownloadsAssumption, D!disk, D!paths, Records
<1>2. OneTask'
  BY <1>0 DEF OneTask, Active, D!Fetchers
<1>3. PathsInUse'
  BY <1>0, AwayType DEF DownloadsInv, PathsInUse, D!Crash, D!disk
<1>4. ASSUME ~clashed' PROVE Whole'
  <2>1. OneBusy' /\ \A f \in D!Fetchers : Asked(f)' /\ Writes(f)'
    BY <1>0, <1>4, AwayType DEF DownloadsInv, Whole, OneBusy, D!Busy, Asked, Writes, D!Crash, D!disk, D!paths
  <2>2. PartialIsPrefix' /\ FinalIsWhole'
    BY <1>4 DEF DownloadsInv, Whole, PartialIsPrefix, FinalIsWhole, D!Crash, D!disk, D!paths
  <2>q. QED BY <2>1, <2>2 DEF Whole
<1>q. QED BY <1>1, <1>2, <1>3, <1>4 DEF DownloadsInv

LEMMA LookKept == ASSUME D!DownloadsAssumption, DownloadsInv, NEW f \in D!Fetchers, D!Look(f) PROVE DownloadsInv'
<1>1. D!TypeOK'
  BY StepType DEF DownloadsInv, D!Step
<1>2. CASE D!Trusted
  <2>1. D!Tell(f, "done")
    BY <1>2 DEF D!Look
  <2>2. OneTask'
    BY <2>1, EndKeeps
  <2>3. PathsInUse' /\ (~clashed' => Whole')
    BY <1>2, <2>1, Told, FilesKept DEF D!Look, DownloadsInv
  <2>q. QED BY <1>1, <2>2, <2>3 DEF DownloadsInv
<1>3. CASE ~D!Trusted
  <2> DEFINE n == IF partial = NoFile THEN 0 ELSE Len(bytes[partial])
             kept == 0 < n /\ n < Size
             k == IF kept THEN n ELSE 0
  <2>1. fetch \in [D!Fetchers -> Records] /\ n \in Nat /\ k \in 0..Size
    BY DEF DownloadsInv, D!TypeOK, Records, D!DownloadsAssumption
  <2>2. fetch' = [fetch EXCEPT ![f] = [@ EXCEPT !.step = "asking", !.resume = k]]
    BY <1>3 DEF D!Look
  <2>3. /\ partial' = IF kept THEN partial ELSE NoFile
        /\ clashed' = (clashed \/ \E g \in D!Fetchers : D!Busy(g) /\ {f, g} \intersect Strangers # {})
        /\ UNCHANGED D!manager /\ UNCHANGED <<final, bytes, used>> /\ fetch[f].step = "looking"
    BY <1>3 DEF D!Look
  <2>4. /\ fetch'[f].step = "asking" /\ fetch'[f].resume = k
        /\ \A g \in D!Fetchers \ {f} : fetch'[g] = fetch[g]
    <3> HIDE DEF k
    <3>q. QED BY <2>1, <2>2, Asking
  <2>5. OneTask'
    BY <2>3, <2>4, GoesOn DEF Active
  <2>6. PathsInUse'
    BY <2>3, <2>4 DEF DownloadsInv, PathsInUse
  <2>7. ASSUME ~clashed' PROVE Whole'
    <3>1. ~clashed /\ \A g \in D!Fetchers : ~D!Busy(g)
      <4>1. ~clashed /\ \A g \in D!Fetchers : D!Busy(g) => f \notin Strangers /\ g \notin Strangers
        BY <2>3, <2>7
      <4>2. ASSUME NEW g \in D!Fetchers, D!Busy(g) PROVE FALSE
        <5>1. f \in Tasks /\ g \in Tasks
          BY <4>1, <4>2 DEF D!Fetchers
        <5>2. entry = f /\ entry = g
          BY <5>1, <4>2, <2>3 DEF DownloadsInv, OneTask, Active, D!Busy
        <5>q. QED BY <5>2, <4>2, <2>3 DEF D!Busy
      <4>q. QED BY <4>1, <4>2
    <3>2. OneBusy'
      BY <2>4, <3>1 DEF OneBusy, D!Busy
    <3>3. PartialIsPrefix' /\ FinalIsWhole'
      BY <2>3, <3>1 DEF DownloadsInv, Whole, PartialIsPrefix, FinalIsWhole
    <3>4. \A g \in D!Fetchers \ {f} : Asked(g)' /\ Writes(g)'
      BY <2>4, <3>1 DEF Asked, Writes, D!Busy
    <3>5. Asked(f)' /\ Writes(f)'
      <4>1. partial' = NoFile => k = 0
        BY <2>1, <2>3
      <4>2. partial' # NoFile => k = Len(bytes'[partial'])
        BY <2>1, <2>3
      <4>3. k < Size
        BY <2>1 DEF D!DownloadsAssumption
      <4> HIDE DEF k
      <4>q. QED BY <2>4, <4>1, <4>2, <4>3 DEF Asked, Writes
    <3>q. QED BY <3>2, <3>3, <3>4, <3>5 DEF Whole
  <2>q. QED BY <1>1, <2>5, <2>6, <2>7 DEF DownloadsInv
<1>q. QED BY <1>2, <1>3

LEMMA OpenKept == ASSUME D!DownloadsAssumption, DownloadsInv, NEW f \in D!Fetchers, NEW honoured \in BOOLEAN,
                         D!OpenPartial(f, honoured)
                  PROVE  DownloadsInv'
<1>1. D!TypeOK'
  BY StepType DEF DownloadsInv, D!Step
<1>2. PICK i \in Inodes :
       /\ IF partial = NoFile THEN i \notin used ELSE i = partial
       /\ partial' = i
       /\ used' = used \union {i}
       /\ bytes' = IF honoured THEN bytes ELSE [bytes EXCEPT ![i] = <<>>]
       /\ fetch' = [fetch EXCEPT ![f] = [step |-> "writing", resume |-> 0, fd |-> i, append |-> honoured, at |-> 0,
                                         next |-> IF honoured THEN fetch[f].resume + 1 ELSE 1]]
  BY DEF D!OpenPartial
<1>3. /\ fetch[f].step = "asking" /\ (honoured => fetch[f].resume > 0)
      /\ UNCHANGED <<D!manager, final, clashed, broken>>
  BY DEF D!OpenPartial
<1>4. fetch \in [D!Fetchers -> Records] /\ bytes \in [Inodes -> Seq(0..Size)]
  BY DEF DownloadsInv, D!TypeOK, Records
<1>5. /\ fetch'[f].step = "writing" /\ fetch'[f].fd = i /\ fetch'[f].append = honoured /\ fetch'[f].at = 0
      /\ fetch'[f].next = IF honoured THEN fetch[f].resume + 1 ELSE 1
      /\ \A g \in D!Fetchers \ {f} : fetch'[g] = fetch[g]
  BY <1>2, <1>4
<1>6. i # NoFile
  BY DEF D!DownloadsAssumption
<1>7. OneTask'
  BY <1>3, <1>5, GoesOn DEF Active
<1>8. fetch[f].resume \in Nat
  BY <1>4 DEF Records
<1>9. PathsInUse'
  BY <1>2, <1>5, <1>8 DEF DownloadsInv, PathsInUse
<1>10. ASSUME ~clashed PROVE Whole'
  <2>1. \A g \in D!Fetchers \ {f} : ~D!Busy(g)
    BY <1>3, <1>10 DEF DownloadsInv, Whole, OneBusy, D!Busy
  <2>2. OneBusy'
    BY <1>5, <2>1 DEF OneBusy, D!Busy
  <2>3. FinalIsWhole'
    <3>1. final # NoFile => final # i
      BY <1>2, <1>6 DEF DownloadsInv, D!TypeOK
    <3>2. final # NoFile => final \in Inodes
      BY DEF DownloadsInv, D!TypeOK
    <3>q. QED BY <1>2, <1>3, <1>4, <1>10, <3>1, <3>2 DEF DownloadsInv, Whole, FinalIsWhole
  <2>4. bytes'[i] = Prefix(fetch'[f].next - 1) /\ fetch'[f].next - 1 \in Nat
    <3>1. CASE honoured
      BY <3>1, <1>2, <1>3, <1>5, <1>6, <1>8, <1>10 DEF DownloadsInv, Whole, Asked, PartialIsPrefix
    <3>2. CASE ~honoured
      BY <3>2, <1>2, <1>4, <1>5, EmptyPrefix
    <3>q. QED BY <3>1, <3>2
  <2>5. PartialIsPrefix'
    BY <1>2, <2>4, PrefixLen DEF PartialIsPrefix
  <2>6. \A g \in D!Fetchers \ {f} : Asked(g)' /\ Writes(g)'
    BY <1>5, <2>1 DEF Asked, Writes, D!Busy
  <2>7. Asked(f)' /\ Writes(f)'
    BY <1>2, <1>5, <1>6, <2>4 DEF Asked, Writes
  <2>q. QED BY <2>2, <2>3, <2>5, <2>6, <2>7 DEF Whole
<1>q. QED BY <1>1, <1>3, <1>7, <1>9, <1>10 DEF DownloadsInv

LEMMA WriteKept == ASSUME D!DownloadsAssumption, DownloadsInv, NEW f \in D!Fetchers, D!WriteChunk(f) PROVE DownloadsInv'
<1>1. D!TypeOK'
  BY StepType DEF DownloadsInv, D!Step
<1> DEFINE t == fetch[f]
           at == IF t.append THEN 0 ELSE t.at + 1
<1>2. /\ t.step = "writing" /\ t.next <= Size
      /\ bytes' = [bytes EXCEPT ![t.fd] = IF t.append THEN Append(bytes[t.fd], t.next)
                                          ELSE D!Put(bytes[t.fd], t.at + 1, t.next)]
      /\ fetch' = [fetch EXCEPT ![f] = [fetch[f] EXCEPT !.next = fetch[f].next + 1, !.at = at]]
      /\ UNCHANGED <<D!manager, D!paths, used, clashed, broken>>
  BY DEF D!WriteChunk
<1>3. fetch \in [D!Fetchers -> Records] /\ bytes \in [Inodes -> Seq(0..Size)] /\ Size \in Nat /\ used \subseteq Inodes
  BY DEF DownloadsInv, D!TypeOK, Records, D!DownloadsAssumption
<1>4. /\ t.next \in 1..Size /\ t.next + 1 \in 1..(Size + 1) /\ t.append \in BOOLEAN /\ t.at \in 0..Size
      /\ t.fd \in used /\ (IF t.append THEN t.at = 0 ELSE t.at = t.next - 1)
  BY <1>2, <1>3 DEF Records, DownloadsInv, PathsInUse
<1>5. at \in 0..Size
  BY <1>3, <1>4
<1>6. /\ fetch'[f].next = t.next + 1 /\ fetch'[f].at = at
      /\ fetch'[f].step = t.step /\ fetch'[f].fd = t.fd /\ fetch'[f].append = t.append
      /\ \A g \in D!Fetchers \ {f} : fetch'[g] = fetch[g]
  <2>1. t.next + 1 \in 1..(Size + 1) /\ at \in 0..Size
    BY <1>4, <1>5
  <2>2. fetch \in [D!Fetchers -> Records]
    BY <1>3
  <2>3. fetch' = [fetch EXCEPT ![f] = [fetch[f] EXCEPT !.next = fetch[f].next + 1, !.at = at]]
    BY <1>2
  <2> HIDE DEF at
  <2>q. QED BY <2>1, <2>2, <2>3 DEF Records
<1>7. OneTask'
  BY <1>2, <1>6, GoesOn DEF Active
<1>8. PathsInUse'
  BY <1>2, <1>4, <1>6 DEF DownloadsInv, PathsInUse
<1>9. ASSUME ~clashed PROVE Whole'
  <2>1. \A g \in D!Fetchers \ {f} : ~D!Busy(g)
    BY <1>2, <1>9 DEF DownloadsInv, Whole, OneBusy, D!Busy
  <2>2. OneBusy'
    BY <1>6, <2>1 DEF OneBusy, D!Busy
  <2>3. partial # NoFile /\ t.fd = partial /\ bytes[partial] = Prefix(t.next - 1) /\ partial \in Inodes
    BY <1>2, <1>3, <1>4, <1>9 DEF DownloadsInv, Whole, Writes
  <2>4. t.next - 1 \in Nat /\ t.next = (t.next - 1) + 1
    BY <1>4
  <2>5. bytes'[partial] = Prefix(t.next)
    <3>1. CASE t.append
      BY <3>1, <1>2, <1>3, <2>3, <2>4, PrefixAppend
    <3>2. CASE ~t.append
      <4>1. t.at + 1 = t.next
        BY <3>2, <1>4
      <4>q. QED BY <3>2, <4>1, <1>2, <1>3, <2>3, <2>4, PrefixPut
    <3>q. QED BY <3>1, <3>2
  <2>6. PartialIsPrefix'
    <3>1. t.next \in Nat
      BY <1>4
    <3>2. Len(Prefix(t.next)) = t.next
      BY <3>1, PrefixLen
    <3>q. QED BY <1>2, <2>5, <3>2 DEF PartialIsPrefix, D!paths
  <2>7. FinalIsWhole'
    <3>1. final # NoFile => final \in Inodes /\ final # partial
      BY DEF DownloadsInv, D!TypeOK
    <3>q. QED BY <1>2, <1>3, <1>9, <2>3, <3>1 DEF DownloadsInv, Whole, FinalIsWhole, D!paths
  <2>8. \A g \in D!Fetchers \ {f} : Asked(g)' /\ Writes(g)'
    BY <1>6, <2>1 DEF Asked, Writes, D!Busy
  <2>9. Asked(f)' /\ Writes(f)'
    BY <1>2, <1>4, <1>6, <2>3, <2>5 DEF Asked, Writes, D!paths
  <2>q. QED BY <2>2, <2>6, <2>7, <2>8, <2>9 DEF Whole
<1>q. QED BY <1>1, <1>2, <1>7, <1>8, <1>9 DEF DownloadsInv

LEMMA RenameKept == ASSUME D!DownloadsAssumption, DownloadsInv, NEW f \in D!Fetchers, D!Rename(f) PROVE DownloadsInv'
<1>1. D!TypeOK'
  BY StepType DEF DownloadsInv, D!Step
<1>2. CASE partial = NoFile
  <2>1. D!Tell(f, "failed")
    BY <1>2 DEF D!Rename
  <2>2. OneTask'
    BY <2>1, EndKeeps
  <2>3. PathsInUse' /\ (~clashed' => Whole')
    BY <1>2, <2>1, Told, FilesKept DEF D!Rename, DownloadsInv, D!paths
  <2>q. QED BY <1>1, <2>2, <2>3 DEF DownloadsInv
<1>3. CASE partial # NoFile
  <2>1. /\ fetch[f].step = "writing" /\ fetch[f].next = Size + 1
        /\ final' = partial /\ partial' = NoFile
        /\ fetch' = [fetch EXCEPT ![f].step = "checking"]
        /\ UNCHANGED <<D!manager, bytes, used, clashed, broken>>
    BY <1>3 DEF D!Rename
  <2>2. fetch \in [D!Fetchers -> Records] /\ Size \in Nat
    BY DEF DownloadsInv, D!TypeOK, Records, D!DownloadsAssumption
  <2>3. fetch'[f].step = "checking" /\ \A g \in D!Fetchers \ {f} : fetch'[g] = fetch[g]
    BY <2>1, <2>2, Checking
  <2>4. OneTask'
    BY <2>1, <2>3, GoesOn DEF Active
  <2>5. PathsInUse'
    BY <2>1, <2>3 DEF DownloadsInv, PathsInUse
  <2>6. ASSUME ~clashed PROVE Whole'
    <3>1. \A g \in D!Fetchers \ {f} : ~D!Busy(g)
      BY <2>1, <2>6 DEF DownloadsInv, Whole, OneBusy, D!Busy
    <3>2. OneBusy'
      BY <2>3, <3>1 DEF OneBusy, D!Busy
    <3>3. bytes[partial] = Prefix(Size)
      BY <2>1, <2>2, <2>6 DEF DownloadsInv, Whole, Writes
    <3>4. PartialIsPrefix' /\ FinalIsWhole'
      BY <2>1, <3>3 DEF PartialIsPrefix, FinalIsWhole
    <3>5. \A g \in D!Fetchers : Asked(g)' /\ Writes(g)'
      BY <2>3, <3>1 DEF Asked, Writes, D!Busy
    <3>q. QED BY <3>2, <3>4, <3>5 DEF Whole
  <2>q. QED BY <1>1, <2>1, <2>4, <2>5, <2>6 DEF DownloadsInv
<1>q. QED BY <1>2, <1>3

LEMMA DownloadsNext == ASSUME D!DownloadsAssumption, DownloadsInv, [D!Next]_(D!vars) PROVE DownloadsInv'
<1>1. CASE UNCHANGED D!vars
  BY <1>1 DEF DownloadsInv, D!TypeOK, OneTask, PathsInUse, Whole, OneBusy, PartialIsPrefix, FinalIsWhole, Asked, Writes,
              Active, D!Busy, D!vars, D!manager, D!disk, D!paths
<1>2. CASE D!Next
  BY <1>2, PressKept, ElsewhereKept, LookKept, OpenKept, WriteKept, RenameKept, VerifyKept, StallKept, BreakKept,
     RemoveKept, CrashKept DEF D!Next, D!Step
<1>q. QED BY <1>1, <1>2

-----------------------------------------------------------------------------
(* Accounts. *)
SignInStates == [step : {"away", "waiting", "stored", "built"}, client : Targets \union {None}, mail : BOOLEAN,
                 held : C!Registries, crossed : BOOLEAN]
WorkerStates == [step : {"away", "picking", "taking", "queueing", "claiming", "delivering"},
                 draft : Drafts \union {None}, on : Connectors \union {None}, reg : C!Registries,
                 todo : SUBSET C!Deliveries]

\* A token that is stored is the key, until another is stored over it.
TokenIsKey ==
  \A s \in SignIns :
    /\ signin[s].step # "away" => signin[s].client \in Targets /\ "microsoft" \in Connectors
    /\ signin[s].step = "stored" /\ ~signin[s].crossed => key["microsoft"] = signin[s].client

NoneStored == \A s \in SignIns : signin[s].step # "stored"

\* A registry that was built is of what there is, but for a token that has no row yet.
HeldIsOf(s) ==
  signin[s].step = "built" /\ ~signin[s].crossed /\ NoneStored => signin[s].held = C!Build(account, key)

InForce == C!Settled /\ behind = "no" => registry = C!Build(account, key)

\* Row and key of a connector agree, while no token is without its row.
KeysFit ==
  /\ "microsoft" \in Connectors \ torn /\ account["microsoft"] # None /\ NoneStored =>
       key["microsoft"] = account["microsoft"].target
  /\ "google" \in Connectors \ torn /\ account["google"] # None => key["google"] = account["google"].target
  /\ "webhook" \in Connectors => /\ account["webhook"] # None => key["webhook"] # None
                                 /\ "webhook" \notin torn /\ key["webhook"] # None => key["webhook"] \in shown

AccountInv == TokenIsKey /\ (\A s \in SignIns : HeldIsOf(s)) /\ InForce /\ KeysFit

\* Who holds a draft, to put it on its one row.
Holds(w, d) == worker[w].step \in {"picking", "taking", "queueing"} /\ worker[w].draft = d

QueuedOnce ==
  \A d \in Drafts :
    /\ \A w, u \in Workers : Holds(w, d) /\ Holds(u, d) => w = u
    /\ (\E w \in Workers : Holds(w, d)) => \A c \in Connectors : row[<<c, d>>] = "none"
    /\ \A b, c \in Connectors : row[<<b, d>>] # "none" /\ row[<<c, d>>] # "none" => b = c
    /\ draft[d] = "draft" => /\ \A w \in Workers : ~Holds(w, d)
                             /\ \A c \in Connectors : row[<<c, d>>] = "none"

WorkerInv ==
  \A w \in Workers :
    /\ worker[w].step \in {"picking", "taking", "queueing"} => worker[w].draft \in Drafts
    /\ worker[w].step \in {"taking", "queueing"} => worker[w].on \in Connectors
    /\ worker[w].step = "delivering" \/ worker[w].todo = {}
    /\ \A x \in worker[w].todo : row[x] # "none"

MailInv == QueuedOnce /\ WorkerInv /\ \A x \in mailbox : row[x] # "none"

AccountsInv == C!TypeOK /\ AccountInv /\ MailInv

LEMMA AccountsNumbers == ASSUME C!AccountsAssumption
                         PROVE  /\ None \notin Targets /\ None \notin Nat /\ None \notin Connectors
                                /\ MaxKeys \in Nat /\ MaxFailures \in Nat /\ Mailing \subseteq BOOLEAN
                                /\ SignIns # {} => "microsoft" \in Connectors
BY DEF C!AccountsAssumption

LEMMA OneMore == ASSUME NEW m \in Nat, NEW n \in 0..m, n < m
                 PROVE  n + 1 \in 0..m /\ n + 1 \in 1..(n + 1) /\ 1..n \subseteq 1..(n + 1)
OBVIOUS

LEMMA AbsentTyped == C!Absent \in C!Registries /\ C!Absent \in [Connectors -> C!Rows \union {None}]
BY DEF C!Absent, C!Registries

LEMMA BuildTyped == ASSUME NEW a \in [Connectors -> C!Rows \union {None}],
                           NEW k \in [Connectors -> C!Secrets \union {None}]
                    PROVE  C!Build(a, k) \in C!Registries
BY DEF C!Build, C!Registries, C!Rows

LEMMA RestingTyped == C!Away \in SignInStates /\ C!Idle \in WorkerStates
BY AbsentTyped DEF C!Away, C!SignIn, SignInStates, C!Idle, C!Work, WorkerStates

LEMMA TypesSo == ASSUME C!TypeOK PROVE signin \in [SignIns -> SignInStates] /\ worker \in [Workers -> WorkerStates]
BY DEF C!TypeOK, SignInStates, WorkerStates

LEMMA AccountsInit == ASSUME C!AccountsAssumption, C!Init PROVE AccountsInv
<1>1. C!TypeOK
  BY AccountsNumbers, AbsentTyped, RestingTyped DEF C!Init, C!TypeOK, SignInStates, WorkerStates, C!Absent
<1>2. C!Build(account, key) = C!Absent
  BY DEF C!Init, C!Build, C!Absent
<1>3. AccountInv
  BY <1>2 DEF C!Init, AccountInv, TokenIsKey, HeldIsOf, InForce, KeysFit, C!Away, C!SignIn, C!Absent
<1>4. MailInv
  BY DEF C!Init, MailInv, QueuedOnce, WorkerInv, Holds, C!Idle, C!Work, C!Deliveries
<1>q. QED BY <1>1, <1>3, <1>4 DEF AccountsInv
-----------------------------------------------------------------------------
(* Requests. *)

\* What a change to an account does to the sign-ins beside it.
LEMMA OutdatedSo == ASSUME C!TypeOK
                    PROVE  /\ C!Outdated \in [SignIns -> SignInStates]
                           /\ \A s \in SignIns : /\ C!Outdated[s].step = signin[s].step
                                                 /\ C!Outdated[s].client = signin[s].client
                                                 /\ C!Outdated[s].mail = signin[s].mail
                                                 /\ C!Outdated[s].crossed = (signin[s].crossed \/ signin[s].step = "built")
<1>1. ASSUME NEW s \in SignIns
      PROVE  LET o == [signin[s] EXCEPT !.crossed = @ \/ signin[s].step = "built"] IN
             /\ o \in SignInStates /\ o.step = signin[s].step /\ o.client = signin[s].client
             /\ o.mail = signin[s].mail /\ o.crossed = (signin[s].crossed \/ signin[s].step = "built")
  BY <1>1, TypesSo DEF SignInStates
<1>q. QED BY <1>1 DEF C!Outdated

LEMMA FaultyTyped == ASSUME C!AccountsAssumption, C!TypeOK, NEW how, C!Faulty(how) PROVE failed' \in 0..MaxFailures
BY AccountsNumbers DEF C!TypeOK, C!Faulty

LEMMA MailKept == ASSUME MailInv, UNCHANGED C!mail PROVE MailInv'
BY DEF MailInv, QueuedOnce, WorkerInv, Holds, C!mail

LEMMA AccountsKept == ASSUME AccountInv, UNCHANGED C!accounts PROVE AccountInv'
BY DEF AccountInv, TokenIsKey, HeldIsOf, NoneStored, InForce, C!Settled, KeysFit, C!accounts, C!stored, C!Build

LEMMA KeyForSo == ASSUME C!AccountsAssumption, C!TypeOK, NEW c \in Connectors, NEW t \in Targets,
                         C!Generates(c) => made < MaxKeys, c = "microsoft" => key[c] # None
                  PROVE  /\ C!KeyFor(c, t) \in C!Secrets \union {None}
                         /\ c = "google" => C!KeyFor(c, t) = t
                         /\ c # "google" /\ ~C!Generates(c) => C!KeyFor(c, t) = key[c]
                         /\ C!Generates(c) => c = "webhook" /\ key[c] = None /\ C!KeyFor(c, t) = made + 1
                         /\ c = "webhook" => C!KeyFor(c, t) # None
                         /\ made \in Nat /\ made + 1 # None
BY AccountsNumbers DEF C!KeyFor, C!Generates, C!Secrets, C!TypeOK

LEMMA ConnectKept == ASSUME C!AccountsAssumption, AccountsInv, NEW c \in Connectors, NEW t \in Targets, NEW mails \in Mailing,
                            NEW how \in {"done", "no row", "no registry"}, C!Connect(c, t, mails, how)
                     PROVE  AccountsInv'
<1> DEFINE new == [target |-> t, mail |-> mails]
<1>0. C!TypeOK /\ AccountInv /\ MailInv
  BY DEF AccountsInv
<1>1. /\ c = "microsoft" => key[c] # None
      /\ C!Generates(c) => made < MaxKeys
      /\ how = "no row" => C!KeyFor(c, t) # key[c]
      /\ key' = [key EXCEPT ![c] = C!KeyFor(c, t)]
      /\ made' = IF C!Generates(c) THEN made + 1 ELSE made
      /\ account' = IF how = "no row" THEN account ELSE [account EXCEPT ![c] = new]
      /\ shown' = IF how = "done" /\ C!Generates(c) THEN shown \union {made + 1} ELSE shown
      /\ torn' = IF c = "webhook" THEN IF C!Generates(c) /\ how # "done" THEN torn \union {c} ELSE torn
                 ELSE IF how = "no row" \/ (c = "microsoft" /\ key[c] # t) THEN torn \union {c}
                 ELSE torn \ {c}
      /\ signin' = C!Outdated
      /\ UNCHANGED C!mail
  BY DEF C!Connect
<1>2. /\ how = "done" => registry' = C!Build(account', key') /\ behind' = "no"
      /\ how # "done" => registry' = registry /\ behind' = "stale"
  BY DEF C!Connect, C!Rebuild, C!Leave
<1>3. new \in C!Rows /\ new.target = t
  BY AccountsNumbers DEF C!Rows
<1> HIDE DEF new
<1>4. /\ key \in [Connectors -> C!Secrets \union {None}] /\ account \in [Connectors -> C!Rows \union {None}]
      /\ key' \in [Connectors -> C!Secrets \union {None}] /\ account' \in [Connectors -> C!Rows \union {None}]
  BY <1>0, <1>1, <1>3, KeyForSo DEF C!TypeOK
<1>5. C!TypeOK'
  <2>1. registry' \in C!Registries /\ behind' \in {"no", "stale", "restarted"}
    <3>1. C!Build(account', key') \in C!Registries
      BY <1>4, BuildTyped
    <3>2. registry \in C!Registries /\ how \in {"done"} \union {"no row", "key kept", "no registry"}
      BY <1>0 DEF C!TypeOK
    <3>q. QED BY <1>2, <3>1, <3>2
  <2>2. shown' \subseteq 1..made' /\ made' \in 0..MaxKeys
    <3>1. shown \subseteq 1..made /\ made \in 0..MaxKeys /\ MaxKeys \in Nat
      BY <1>0, AccountsNumbers DEF C!TypeOK
    <3>2. \/ made' = made /\ shown' = shown
          \/ made < MaxKeys /\ made' = made + 1 /\ (shown' = shown \/ shown' = shown \union {made + 1})
      <4>1. CASE C!Generates(c)
        BY <1>1, <4>1
      <4>2. CASE ~C!Generates(c)
        BY <1>1, <4>2
      <4>q. QED BY <4>1, <4>2
    <3>3. CASE made' = made /\ shown' = shown
      BY <3>1, <3>3
    <3>4. CASE made < MaxKeys /\ made' = made + 1 /\ (shown' = shown \/ shown' = shown \union {made + 1})
      <4>1. made + 1 \in 0..MaxKeys /\ made + 1 \in 1..(made + 1) /\ 1..made \subseteq 1..(made + 1)
        BY <3>1, <3>4, OneMore
      <4>q. QED BY <3>1, <3>4, <4>1
    <3>q. QED BY <3>2, <3>3, <3>4
  <2>3. signin' \in [SignIns -> SignInStates]
    BY <1>0, <1>1, OutdatedSo
  <2>4. torn' \subseteq Connectors
    BY <1>0, <1>1 DEF C!TypeOK
  <2>5. failed' \in 0..MaxFailures
    BY <1>0, FaultyTyped DEF C!Connect
  <2>q. QED BY <1>0, <1>1, <1>4, <2>1, <2>2, <2>3, <2>4, <2>5 DEF C!TypeOK, SignInStates, C!mail
<1>6. /\ \A s \in SignIns : /\ signin'[s].step = signin[s].step /\ signin'[s].client = signin[s].client
                            /\ signin'[s].crossed = (signin[s].crossed \/ signin[s].step = "built")
      /\ NoneStored' <=> NoneStored
  BY <1>0, <1>1, OutdatedSo DEF NoneStored
<1>7. \A b \in Connectors : /\ b # c => key'[b] = key[b] /\ account'[b] = account[b]
                            /\ b = c => key'[b] = C!KeyFor(c, t) /\ account'[b] = IF how = "no row" THEN account[b] ELSE new
  BY <1>1, <1>4
<1>8. c = "microsoft" => C!KeyFor(c, t) = key[c]
  BY <1>0, KeyForSo, <1>1 DEF C!Generates
<1>9. TokenIsKey'
  BY <1>0, <1>6, <1>7, <1>8 DEF AccountInv, TokenIsKey
<1>10. \A s \in SignIns : HeldIsOf(s)'
  BY <1>6 DEF HeldIsOf
<1>11. InForce'
  BY <1>2 DEF InForce
<1>12. KeysFit'
  <2>1. ASSUME "microsoft" \in Connectors \ torn', account'["microsoft"] # None, NoneStored'
        PROVE  key'["microsoft"] = account'["microsoft"].target
    <3>1. NoneStored /\ "microsoft" \in Connectors
      BY <1>6, <2>1
    <3>2. CASE c = "microsoft"
      <4>1. key'[c] = key[c] /\ account'[c] = new /\ key[c] = t
        <5>1. how = "no row" \/ key[c] # t => torn' = torn \union {c}
          BY <1>1, <3>2
        <5>2. how # "no row" /\ key[c] = t
          BY <2>1, <3>2, <5>1
        <5>q. QED BY <1>7, <1>8, <3>2, <5>2
      <4>q. QED BY <1>3, <3>2, <4>1
    <3>3. CASE c # "microsoft"
      <4>1. key'["microsoft"] = key["microsoft"] /\ account'["microsoft"] = account["microsoft"]
        BY <1>7, <3>1, <3>3
      <4>2. "microsoft" \notin torn
        BY <1>1, <2>1, <3>3
      <4>q. QED BY <1>0, <2>1, <3>1, <4>1, <4>2 DEF AccountInv, KeysFit
    <3>q. QED BY <3>2, <3>3
  <2>2. ASSUME "google" \in Connectors \ torn', account'["google"] # None
        PROVE  key'["google"] = account'["google"].target
    <3>2. CASE c = "google"
      <4>1. C!KeyFor(c, t) = t
        BY <1>0, <1>1, <3>2, KeyForSo
      <4>2. how # "no row"
        <5>1. how = "no row" => torn' = torn \union {c}
          BY <1>1, <3>2
        <5>q. QED BY <2>2, <3>2, <5>1
      <4>3. key'[c] = t /\ account'[c] = new
        BY <1>7, <4>1, <4>2
      <4>q. QED BY <1>3, <3>2, <4>3
    <3>3. CASE c # "google"
      <4>1. key'["google"] = key["google"] /\ account'["google"] = account["google"]
        BY <1>7, <2>2, <3>3
      <4>2. "google" \notin torn
        BY <1>1, <2>2, <3>3
      <4>q. QED BY <1>0, <2>2, <4>1, <4>2 DEF AccountInv, KeysFit
    <3>q. QED BY <3>2, <3>3
  <2>3. ASSUME "webhook" \in Connectors, c = "webhook"
        PROVE  /\ key'["webhook"] # None
               /\ "webhook" \notin torn' => key'["webhook"] \in shown'
    <3>1. C!KeyFor(c, t) # None /\ (C!Generates(c) => C!KeyFor(c, t) = made + 1) /\ (~C!Generates(c) => C!KeyFor(c, t) = key[c])
      BY <1>0, <1>1, <2>3, KeyForSo
    <3>2. key'[c] = C!KeyFor(c, t)
      BY <1>7
    <3>3. CASE C!Generates(c)
      <4>1. c \notin torn' => shown' = shown \union {made + 1}
        BY <1>1, <2>3, <3>3
      <4>q. QED BY <2>3, <3>1, <3>2, <3>3, <4>1
    <3>4. CASE ~C!Generates(c)
      <4>1. torn' = torn /\ shown' = shown
        BY <1>1, <2>3, <3>4
      <4>2. "webhook" \notin torn /\ key["webhook"] # None => key["webhook"] \in shown
        BY <1>0, <2>3 DEF AccountInv, KeysFit
      <4>q. QED BY <2>3, <3>1, <3>2, <3>4, <4>1, <4>2
    <3>q. QED BY <3>3, <3>4
  <2>4. ASSUME "webhook" \in Connectors, c # "webhook"
        PROVE  shown' = shown /\ ("webhook" \in torn' <=> "webhook" \in torn)
    BY <1>1, <2>4 DEF C!Generates
  <2>q. QED BY <1>0, <1>7, <2>1, <2>2, <2>3, <2>4 DEF AccountInv, KeysFit
<1>q. QED BY <1>0, <1>1, <1>5, <1>9, <1>10, <1>11, <1>12, MailKept DEF AccountsInv, AccountInv

LEMMA DisconnectKept == ASSUME C!AccountsAssumption, AccountsInv, NEW c \in Connectors,
                               NEW how \in {"done", "key kept", "no registry"}, C!Disconnect(c, how)
                        PROVE  AccountsInv'
<1>0. C!TypeOK /\ AccountInv /\ MailInv
  BY DEF AccountsInv
<1>1. /\ account' = [account EXCEPT ![c] = None]
      /\ key' = (IF c = "webhook" /\ how # "key kept" THEN [key EXCEPT ![c] = None] ELSE key)
      /\ torn' = (IF c = "webhook" /\ how # "key kept" THEN torn \ {c} ELSE torn)
      /\ signin' = C!Outdated
      /\ UNCHANGED <<shown, made, C!mail>>
  BY DEF C!Disconnect
<1>2. /\ how = "done" => registry' = C!Build(account', key') /\ behind' = "no"
      /\ how # "done" => registry' = registry /\ behind' = "stale"
  BY DEF C!Disconnect, C!Rebuild, C!Leave
<1>4. /\ key \in [Connectors -> C!Secrets \union {None}] /\ account \in [Connectors -> C!Rows \union {None}]
      /\ key' \in [Connectors -> C!Secrets \union {None}] /\ account' \in [Connectors -> C!Rows \union {None}]
  BY <1>0, <1>1 DEF C!TypeOK
<1>5. C!TypeOK'
  <2>1. registry' \in C!Registries /\ behind' \in {"no", "stale", "restarted"}
    <3>1. C!Build(account', key') \in C!Registries
      BY <1>4, BuildTyped
    <3>2. registry \in C!Registries /\ how \in {"done"} \union {"no row", "key kept", "no registry"}
      BY <1>0 DEF C!TypeOK
    <3>q. QED BY <1>2, <3>1, <3>2
  <2>3. signin' \in [SignIns -> SignInStates]
    BY <1>0, <1>1, OutdatedSo
  <2>4. torn' \subseteq Connectors
    BY <1>0, <1>1 DEF C!TypeOK
  <2>5. failed' \in 0..MaxFailures
    BY <1>0, FaultyTyped DEF C!Disconnect
  <2>q. QED BY <1>0, <1>1, <1>4, <2>1, <2>3, <2>4, <2>5 DEF C!TypeOK, SignInStates, C!mail
<1>6. /\ \A s \in SignIns : /\ signin'[s].step = signin[s].step /\ signin'[s].client = signin[s].client
                            /\ signin'[s].crossed = (signin[s].crossed \/ signin[s].step = "built")
      /\ NoneStored' <=> NoneStored
  BY <1>0, <1>1, OutdatedSo DEF NoneStored
<1>7. \A b \in Connectors : /\ b # "webhook" => key'[b] = key[b] /\ (b \in torn' <=> b \in torn)
                            /\ account'[b] = IF b = c THEN None ELSE account[b]
                            /\ b = "webhook" => /\ b # c => key'[b] = key[b]
                                                /\ key'[b] # None => key'[b] = key[b] /\ (b \in torn' <=> b \in torn)
  BY <1>1, <1>4
<1>9. TokenIsKey'
  BY <1>0, <1>6, <1>7 DEF AccountInv, TokenIsKey
<1>10. \A s \in SignIns : HeldIsOf(s)'
  BY <1>6 DEF HeldIsOf
<1>11. InForce'
  BY <1>2 DEF InForce
<1>12. KeysFit'
  <2>1. KeysFit /\ UNCHANGED shown
    BY <1>0, <1>1 DEF AccountInv
  <2>2. ASSUME "microsoft" \in Connectors \ torn', account'["microsoft"] # None, NoneStored'
        PROVE  key'["microsoft"] = account'["microsoft"].target
    BY <1>6, <1>7, <2>1, <2>2 DEF KeysFit
  <2>3. ASSUME "google" \in Connectors \ torn', account'["google"] # None
        PROVE  key'["google"] = account'["google"].target
    BY <1>7, <2>1, <2>3 DEF KeysFit
  <2>4. ASSUME "webhook" \in Connectors
        PROVE  /\ account'["webhook"] # None => key'["webhook"] # None
               /\ "webhook" \notin torn' /\ key'["webhook"] # None => key'["webhook"] \in shown'
    BY <1>7, <2>1, <2>4 DEF KeysFit
  <2>q. QED BY <2>2, <2>3, <2>4 DEF KeysFit
<1>q. QED BY <1>0, <1>1, <1>5, <1>9, <1>10, <1>11, <1>12, MailKept DEF AccountsInv, AccountInv
-----------------------------------------------------------------------------
(* Sign-ins. *)

LEMMA SignInTyped == ASSUME C!AccountsAssumption, C!TypeOK, NEW s \in SignIns
                     PROVE  /\ signin[s] \in SignInStates /\ signin[s].held \in C!Registries
                            /\ signin[s].step \in {"away", "waiting", "stored", "built"} /\ signin[s].mail \in BOOLEAN
                            /\ "microsoft" \in Connectors
BY TypesSo, AccountsNumbers DEF SignInStates

\* A sign-in that comes or goes while nothing is stored, and holds nothing that was built.
LEMMA BeginKept ==
  ASSUME C!AccountsAssumption, AccountsInv, NEW s \in SignIns, signin[s].step \in {"away", "waiting"}, NEW new \in SignInStates,
         signin' = [signin EXCEPT ![s] = new],
         new.step = "away" \/ (new.step = "waiting" /\ new.client \in Targets),
         UNCHANGED <<C!stored, registry, behind, C!mail, failed>>
  PROVE  AccountsInv'
<1>0. C!TypeOK /\ AccountInv /\ MailInv
  BY DEF AccountsInv
<1>1. signin' \in [SignIns -> SignInStates] /\ \A u \in SignIns : signin'[u] = IF u = s THEN new ELSE signin[u]
  BY <1>0, TypesSo
<1>2. C!TypeOK'
  BY <1>0, <1>1 DEF C!TypeOK, SignInStates, C!stored, C!mail
<1>3. /\ NoneStored' <=> NoneStored
      /\ C!Settled' <=> C!Settled
  BY <1>1 DEF NoneStored, C!Settled
<1>4. C!Build(account, key)' = C!Build(account, key)
  BY DEF C!Build, C!stored
<1>5. TokenIsKey'
  BY <1>0, <1>1, AccountsNumbers DEF AccountInv, TokenIsKey, C!stored
<1>6. \A u \in SignIns : HeldIsOf(u)'
  BY <1>0, <1>1, <1>3, <1>4 DEF AccountInv, HeldIsOf
<1>7. InForce' /\ KeysFit'
  BY <1>0, <1>3, <1>4 DEF AccountInv, InForce, KeysFit, C!stored
<1>q. QED BY <1>0, <1>2, <1>5, <1>6, <1>7, MailKept DEF AccountsInv, AccountInv

LEMMA StartSignInKept == ASSUME C!AccountsAssumption, AccountsInv, NEW s \in SignIns, NEW t \in Targets, NEW mails \in Mailing,
                                C!StartSignIn(s, t, mails)
                         PROVE  AccountsInv'
<1>1. C!SignIn("waiting", t, mails) \in SignInStates
  BY AccountsNumbers, AbsentTyped DEF C!SignIn, SignInStates
<1>2. C!SignIn("waiting", t, mails).step = "waiting" /\ C!SignIn("waiting", t, mails).client = t
  BY DEF C!SignIn
<1>q. QED BY <1>1, <1>2, BeginKept DEF C!StartSignIn

LEMMA GiveUpKept == ASSUME C!AccountsAssumption, AccountsInv, NEW s \in SignIns, C!GiveUp(s) PROVE AccountsInv'
<1>1. C!Away \in SignInStates /\ C!Away.step = "away"
  BY RestingTyped DEF C!Away, C!SignIn
<1>q. QED BY <1>1, BeginKept DEF C!GiveUp

LEMMA StoreTokenKept == ASSUME C!AccountsAssumption, AccountsInv, NEW s \in SignIns, C!StoreToken(s) PROVE AccountsInv'
<1>0. C!TypeOK /\ AccountInv /\ MailInv
  BY DEF AccountsInv
<1>1. /\ signin[s].step = "waiting"
      /\ key' = [key EXCEPT !["microsoft"] = signin[s].client]
      /\ UNCHANGED <<account, shown, made, torn, registry, behind, C!mail, failed>>
  BY DEF C!StoreToken
<1>2. "microsoft" \in Connectors /\ signin[s].client \in Targets
  BY <1>0, <1>1, SignInTyped DEF AccountInv, TokenIsKey
<1>3. /\ key' \in [Connectors -> C!Secrets \union {None}] /\ key'["microsoft"] = signin[s].client
      /\ \A c \in Connectors : c # "microsoft" => key'[c] = key[c]
  BY <1>0, <1>1, <1>2 DEF C!TypeOK, C!Secrets
<1>4. ASSUME NEW u \in SignIns
      PROVE  /\ signin'[u] \in SignInStates /\ signin'[u].client = signin[u].client
             /\ u = s => signin'[u].step = "stored"
             /\ u # s => /\ signin'[u].step = signin[u].step
                         /\ signin[u].step = "stored" => signin'[u].crossed
  <2>1. signin[u] \in SignInStates
    BY <1>0, SignInTyped
  <2>2. CASE u = s
    <3>1. signin'[u] = [signin[u] EXCEPT !.step = "stored", !.crossed = FALSE]
      BY <1>4, <2>2 DEF C!StoreToken
    <3>q. QED BY <2>1, <2>2, <3>1 DEF SignInStates
  <2>3. CASE u # s
    <3>1. signin'[u] = [signin[u] EXCEPT !.crossed = @ \/ signin[u].step = "stored"]
      BY <1>4, <2>3 DEF C!StoreToken
    <3>q. QED BY <2>1, <2>3, <3>1 DEF SignInStates
  <2>q. QED BY <2>2, <2>3
<1>5. signin' \in [SignIns -> SignInStates]
  BY <1>4 DEF C!StoreToken
<1>6. ~NoneStored' /\ ~C!Settled'
  BY <1>4 DEF NoneStored, C!Settled
<1>7. C!TypeOK'
  BY <1>0, <1>1, <1>3, <1>5 DEF C!TypeOK, SignInStates, C!mail
<1>8. TokenIsKey'
  BY <1>0, <1>1, <1>2, <1>3, <1>4 DEF AccountInv, TokenIsKey
<1>9. (\A u \in SignIns : HeldIsOf(u)') /\ InForce'
  BY <1>6 DEF HeldIsOf, InForce
<1>10. KeysFit'
  BY <1>0, <1>1, <1>3, <1>6 DEF AccountInv, KeysFit
<1>q. QED BY <1>0, <1>1, <1>7, <1>8, <1>9, <1>10, MailKept DEF AccountsInv, AccountInv

\* The row is written, or not; what was built meanwhile is crossed.
LEMMA RowWritten ==
  ASSUME C!AccountsAssumption, AccountsInv, NEW s \in SignIns, signin[s].step = "stored", NEW new \in SignInStates,
         signin' = [C!Outdated EXCEPT ![s] = new], new.step \in {"away", "built"}, new.client = signin[s].client \/ new.step = "away",
         account' \in {account, [account EXCEPT !["microsoft"] = [target |-> signin[s].client, mail |-> signin[s].mail]]},
         torn' \subseteq Connectors, torn' \ {"microsoft"} = torn \ {"microsoft"},
         "microsoft" \notin torn' /\ NoneStored' /\ account'["microsoft"] # None =>
            key["microsoft"] = account'["microsoft"].target,
         new.step = "built" => UNCHANGED <<registry, behind, failed>> /\ (new.crossed \/ new.held = C!Build(account', key)),
         new.step = "away" => behind' = "stale" /\ registry' = registry,
         failed' \in 0..MaxFailures, UNCHANGED <<key, shown, made, C!mail>>
  PROVE  AccountsInv'
<1>0. C!TypeOK /\ AccountInv /\ MailInv
  BY DEF AccountsInv
<1>1. /\ "microsoft" \in Connectors /\ signin[s].client \in Targets /\ signin[s].mail \in BOOLEAN
  BY <1>0, SignInTyped DEF AccountInv, TokenIsKey
<1>2. C!Outdated \in [SignIns -> SignInStates]
  BY <1>0, OutdatedSo
<1>3. /\ signin' \in [SignIns -> SignInStates] /\ signin'[s] = new
      /\ \A u \in SignIns : u # s => signin'[u] = C!Outdated[u]
  BY <1>2
<1>4. \A u \in SignIns : u # s => /\ signin'[u].step = signin[u].step /\ signin'[u].client = signin[u].client
                                  /\ signin'[u].crossed = (signin[u].crossed \/ signin[u].step = "built")
  BY <1>0, <1>3, OutdatedSo
<1>5. [target |-> signin[s].client, mail |-> signin[s].mail] \in C!Rows
  BY <1>1 DEF C!Rows
<1>6. /\ account \in [Connectors -> C!Rows \union {None}] /\ account' \in [Connectors -> C!Rows \union {None}]
      /\ \A c \in Connectors : c # "microsoft" => account'[c] = account[c]
  BY <1>0, <1>5 DEF C!TypeOK
<1>7. C!TypeOK'
  <2>1. registry' = registry /\ behind' \in {"no", "stale", "restarted"}
    BY <1>0 DEF C!TypeOK
  <2>q. QED BY <1>0, <1>3, <1>6, <2>1 DEF C!TypeOK, SignInStates, C!mail
<1>8. TokenIsKey'
  BY <1>0, <1>1, <1>3, <1>4, ZenonT(30) DEF AccountInv, TokenIsKey
<1>9. \A u \in SignIns : HeldIsOf(u)'
  <2>1. HeldIsOf(s)'
    BY <1>3 DEF HeldIsOf
  <2>2. ASSUME NEW u \in SignIns, u # s PROVE HeldIsOf(u)'
    BY <1>4, <2>2 DEF HeldIsOf
  <2>q. QED BY <2>1, <2>2
<1>10. InForce'
  <2>1. new.step = "built" => ~C!Settled'
    BY <1>3 DEF C!Settled
  <2>q. QED BY <2>1 DEF InForce
<1>11. KeysFit'
  <2>1. KeysFit
    BY <1>0 DEF AccountInv
  <2>2. \A c \in {"google", "webhook"} : c \in torn' <=> c \in torn
    OBVIOUS
  <2>q. QED BY <1>6, <2>1, <2>2 DEF KeysFit
<1>q. QED BY <1>0, <1>7, <1>8, <1>9, <1>10, <1>11, MailKept DEF AccountsInv, AccountInv

LEMMA CannotRegisterKept == ASSUME C!AccountsAssumption, AccountsInv, NEW s \in SignIns, C!CannotRegister(s) PROVE AccountsInv'
<1>1. C!Away \in SignInStates /\ C!Away.step = "away"
  BY RestingTyped DEF C!Away, C!SignIn
<1>2. C!TypeOK /\ "microsoft" \in Connectors
  BY SignInTyped DEF AccountsInv
<1>3. failed' \in 0..MaxFailures /\ torn' \subseteq Connectors /\ torn' \ {"microsoft"} = torn \ {"microsoft"}
      /\ "microsoft" \in torn'
  BY <1>2, AccountsNumbers DEF C!CannotRegister, C!TypeOK
<1>4. registry' = registry /\ behind' = "stale"
  BY DEF C!CannotRegister, C!Leave
<1>q. QED BY <1>1, <1>3, <1>4, RowWritten DEF C!CannotRegister

LEMMA RegisterKept == ASSUME C!AccountsAssumption, AccountsInv, NEW s \in SignIns, C!Register(s) PROVE AccountsInv'
<1> DEFINE new == [C!Outdated[s] EXCEPT !.step = "built", !.held = C!Build(account', key), !.crossed = FALSE]
<1>0. C!TypeOK /\ AccountInv
  BY DEF AccountsInv
<1>1. /\ signin[s].step = "stored" /\ signin[s].client \in Targets /\ signin[s].mail \in BOOLEAN
      /\ "microsoft" \in Connectors
  BY <1>0, SignInTyped DEF C!Register, AccountInv, TokenIsKey
<1>2. C!Outdated \in [SignIns -> SignInStates] /\ C!Outdated[s].client = signin[s].client
  BY <1>0, OutdatedSo
<1>3. account' = [account EXCEPT !["microsoft"] = [target |-> signin[s].client, mail |-> signin[s].mail]]
  BY DEF C!Register
<1>4. [target |-> signin[s].client, mail |-> signin[s].mail] \in C!Rows
  BY <1>1 DEF C!Rows
<1>5. /\ account' \in [Connectors -> C!Rows \union {None}] /\ key \in [Connectors -> C!Secrets \union {None}]
      /\ account'["microsoft"].target = signin[s].client
  BY <1>0, <1>1, <1>3, <1>4 DEF C!TypeOK
<1>6. C!Build(account', key) \in C!Registries
  BY <1>5, BuildTyped
<1>7. /\ new \in SignInStates /\ new.step = "built" /\ new.client = signin[s].client
      /\ new.held = C!Build(account', key)
  BY <1>2, <1>6 DEF SignInStates
<1>8. signin' = [C!Outdated EXCEPT ![s] = new]
  BY <1>2 DEF C!Register
<1>9. /\ torn' = IF signin[s].crossed THEN torn \union {"microsoft"} ELSE torn \ {"microsoft"}
      /\ UNCHANGED <<key, shown, made, registry, behind, C!mail, failed>>
  BY DEF C!Register
<1>10. torn' \subseteq Connectors /\ torn' \ {"microsoft"} = torn \ {"microsoft"}
  BY <1>0, <1>1, <1>9 DEF C!TypeOK
<1>11. "microsoft" \notin torn' => key["microsoft"] = account'["microsoft"].target
  BY <1>0, <1>1, <1>5, <1>9 DEF AccountInv, TokenIsKey
<1>12. failed' \in 0..MaxFailures
  BY <1>0, <1>9 DEF C!TypeOK
<1> HIDE DEF new
<1>q. QED BY <1>1, <1>3, <1>7, <1>8, <1>9, <1>10, <1>11, <1>12, RowWritten

LEMMA PutInForceKept == ASSUME C!AccountsAssumption, AccountsInv, NEW s \in SignIns, C!PutInForce(s) PROVE AccountsInv'
<1>0. C!TypeOK /\ AccountInv /\ MailInv
  BY DEF AccountsInv
<1>1. /\ signin[s].step = "built" /\ registry' = signin[s].held
      /\ behind' = (IF signin[s].crossed THEN "stale" ELSE "no")
      /\ signin' = [signin EXCEPT ![s] = C!Away] /\ UNCHANGED <<C!stored, C!mail, failed>>
  BY DEF C!PutInForce
<1>2. /\ signin' \in [SignIns -> SignInStates] /\ signin'[s].step = "away"
      /\ \A u \in SignIns : u # s => signin'[u] = signin[u]
  BY <1>0, <1>1, TypesSo, RestingTyped DEF C!Away, C!SignIn
<1>3. NoneStored' <=> NoneStored
  BY <1>1, <1>2 DEF NoneStored
<1>4. C!Build(account, key)' = C!Build(account, key)
  BY <1>1 DEF C!Build, C!stored
<1>5. C!TypeOK'
  <2>1. registry' \in C!Registries
    BY <1>0, <1>1, SignInTyped
  <2>q. QED BY <1>0, <1>1, <1>2, <2>1 DEF C!TypeOK, SignInStates, C!stored, C!mail
<1>6. TokenIsKey' /\ KeysFit'
  BY <1>0, <1>1, <1>2, <1>3 DEF AccountInv, TokenIsKey, KeysFit, C!stored
<1>7. \A u \in SignIns : HeldIsOf(u)'
  <2>1. ASSUME NEW u \in SignIns PROVE HeldIsOf(u)'
    BY <1>0, <1>2, <1>3, <1>4 DEF AccountInv, HeldIsOf
  <2>q. QED BY <2>1
<1>8. InForce'
  <2>1. C!Settled' => NoneStored
    BY <1>3 DEF C!Settled, NoneStored
  <2>2. NoneStored /\ ~signin[s].crossed => signin[s].held = C!Build(account, key)
    BY <1>0, <1>1 DEF AccountInv, HeldIsOf
  <2>q. QED BY <1>1, <1>4, <2>1, <2>2 DEF InForce
<1>q. QED BY <1>0, <1>1, <1>5, <1>6, <1>7, <1>8, MailKept DEF AccountsInv, AccountInv
-----------------------------------------------------------------------------
(* Mail. *)

RowStates == {"none", "pending", "in_flight", "complete", "failed"}

LEMMA WorkerTyped == ASSUME C!TypeOK, NEW w \in Workers
                     PROVE  /\ worker[w] \in WorkerStates /\ worker[w].reg \in C!Registries
                            /\ worker[w].todo \subseteq C!Deliveries
                            /\ worker[w].draft \in Drafts \union {None} /\ worker[w].on \in Connectors \union {None}
BY TypesSo DEF WorkerStates

\* A worker that holds what it held or less, and leaves drafts and rows alone.
LEMMA WorkerMoved ==
  ASSUME C!AccountsAssumption, AccountsInv, NEW w \in Workers, NEW new \in WorkerStates, worker' = [worker EXCEPT ![w] = new],
         UNCHANGED <<C!accounts, draft, row, mailbox>>, failed' \in 0..MaxFailures,
         \/ new.step \in {"away", "claiming"} /\ new.todo = {}
         \/ new.step = "delivering" /\ new.todo \subseteq worker[w].todo
         \/ /\ new.step = "taking" /\ worker[w].step = "picking" /\ new.draft = worker[w].draft
            /\ new.on \in Connectors /\ new.todo = {}
         \/ /\ new.step = "queueing" /\ worker[w].step = "taking" /\ new.draft = worker[w].draft
            /\ new.on = worker[w].on /\ new.todo = {}
  PROVE  AccountsInv'
<1>0. C!TypeOK /\ AccountInv /\ MailInv
  BY DEF AccountsInv
<1>1. worker' \in [Workers -> WorkerStates] /\ \A u \in Workers : worker'[u] = IF u = w THEN new ELSE worker[u]
  BY <1>0, TypesSo
<1>2. C!TypeOK'
  BY <1>0, <1>1 DEF C!TypeOK, WorkerStates, C!accounts, C!stored
<1>3. \A u \in Workers, d \in Drafts : Holds(u, d)' => Holds(u, d)
  BY <1>1 DEF Holds
<1>4. QueuedOnce'
  BY <1>0, <1>3 DEF MailInv, QueuedOnce
<1>5. WorkerInv'
  BY <1>0, <1>1 DEF MailInv, WorkerInv
<1>q. QED BY <1>0, <1>2, <1>4, <1>5, AccountsKept DEF AccountsInv, MailInv

LEMMA ApproveKept == ASSUME C!AccountsAssumption, AccountsInv, NEW w \in Workers, NEW d \in Drafts, C!Approve(w, d) PROVE AccountsInv'
<1> DEFINE new == C!Work("picking", d, C!Absent)
<1>0. C!TypeOK /\ AccountInv /\ MailInv
  BY DEF AccountsInv
<1>1. new \in WorkerStates /\ new.step = "picking" /\ new.draft = d /\ new.todo = {}
  BY AbsentTyped DEF C!Work, WorkerStates
<1>2. /\ worker' = [worker EXCEPT ![w] = new] /\ draft[d] = "draft"
      /\ draft' = [draft EXCEPT ![d] = "approved"] /\ UNCHANGED <<C!accounts, row, mailbox, failed>>
  BY DEF C!Approve, C!SetWorker
<1> HIDE DEF new
<1>3. worker' \in [Workers -> WorkerStates] /\ \A u \in Workers : worker'[u] = IF u = w THEN new ELSE worker[u]
  BY <1>0, <1>1, <1>2, TypesSo
<1>4. /\ draft' \in [Drafts -> {"draft", "approved", "discarded"}]
      /\ draft'[d] = "approved" /\ \A e \in Drafts : e # d => draft'[e] = draft[e]
  BY <1>0, <1>2 DEF C!TypeOK
<1>5. C!TypeOK'
  BY <1>0, <1>2, <1>3, <1>4 DEF C!TypeOK, WorkerStates, C!accounts, C!stored
<1>6. \A u \in Workers, e \in Drafts : Holds(u, e)' => (u = w /\ e = d) \/ Holds(u, e)
  BY <1>1, <1>3 DEF Holds
<1>7. (\A u \in Workers : ~Holds(u, d)) /\ \A c \in Connectors : row[<<c, d>>] = "none"
  BY <1>0, <1>2 DEF MailInv, QueuedOnce
<1>8. QueuedOnce'
  <2> SUFFICES ASSUME NEW e \in Drafts
               PROVE  (/\ \A u, v \in Workers : Holds(u, e) /\ Holds(v, e) => u = v
                       /\ (\E u \in Workers : Holds(u, e)) => \A c \in Connectors : row[<<c, e>>] = "none"
                       /\ \A b, c \in Connectors : row[<<b, e>>] # "none" /\ row[<<c, e>>] # "none" => b = c
                       /\ draft[e] = "draft" => /\ \A u \in Workers : ~Holds(u, e)
                                                /\ \A c \in Connectors : row[<<c, e>>] = "none")'
    BY DEF QueuedOnce
  <2>1. CASE e = d
    BY <1>2, <1>4, <1>6, <1>7, <2>1
  <2>2. CASE e # d
    BY <1>0, <1>2, <1>4, <1>6, <2>2 DEF MailInv, QueuedOnce
  <2>q. QED BY <2>1, <2>2
<1>9. WorkerInv'
  BY <1>0, <1>1, <1>2, <1>3 DEF MailInv, WorkerInv
<1>q. QED BY <1>0, <1>2, <1>5, <1>8, <1>9, AccountsKept DEF AccountsInv, MailInv

LEMMA DiscardKept == ASSUME C!AccountsAssumption, AccountsInv, NEW d \in Drafts, C!Discard(d) PROVE AccountsInv'
<1>0. C!TypeOK /\ AccountInv /\ MailInv
  BY DEF AccountsInv
<1>1. UNCHANGED <<C!accounts, row, mailbox, worker, failed>> /\ draft' = [draft EXCEPT ![d] = "discarded"]
  BY DEF C!Discard
<1>2. /\ draft' \in [Drafts -> {"draft", "approved", "discarded"}]
      /\ \A e \in Drafts : draft'[e] = "draft" => draft[e] = "draft"
  BY <1>0, <1>1 DEF C!TypeOK
<1>3. C!TypeOK'
  BY <1>0, <1>1, <1>2 DEF C!TypeOK, C!accounts, C!stored
<1>4. MailInv'
  BY <1>0, <1>1, <1>2 DEF MailInv, QueuedOnce, WorkerInv, Holds
<1>q. QED BY <1>0, <1>1, <1>3, <1>4, AccountsKept DEF AccountsInv

LEMMA PickKept == ASSUME C!AccountsAssumption, AccountsInv, NEW w \in Workers, C!Pick(w) PROVE AccountsInv'
<1>0. C!TypeOK /\ MailInv /\ worker[w] \in WorkerStates /\ C!Idle \in WorkerStates /\ C!Idle.step = "away" /\ C!Idle.todo = {}
  BY WorkerTyped, RestingTyped DEF AccountsInv, C!Idle, C!Work
<1>1. worker[w].step = "picking" /\ UNCHANGED <<C!accounts, draft, row, mailbox, failed>> /\ failed \in 0..MaxFailures
  BY <1>0 DEF C!Pick, C!TypeOK
<1>2. CASE worker' = [worker EXCEPT ![w] = C!Idle]
  BY <1>0, <1>1, <1>2, WorkerMoved
<1>3. ASSUME NEW i \in DOMAIN C!Vendors, C!MayWrite(C!Vendors[i]), C!SetWorker(w, [worker[w] EXCEPT !.step = "taking", !.on = C!Vendors[i]])
      PROVE  AccountsInv'
  <2> DEFINE new == [worker[w] EXCEPT !.step = "taking", !.on = C!Vendors[i]]
  <2>1. C!Vendors[i] \in Connectors
    BY <1>3 DEF C!MayWrite
  <2>2. worker[w].todo = {}
    BY <1>0, <1>1 DEF MailInv, WorkerInv
  <2>3. new \in WorkerStates /\ new.step = "taking" /\ new.draft = worker[w].draft /\ new.on \in Connectors /\ new.todo = {}
    BY <1>0, <2>1, <2>2 DEF WorkerStates
  <2>4. worker' = [worker EXCEPT ![w] = new]
    BY <1>3 DEF C!SetWorker
  <2> HIDE DEF new
  <2>q. QED BY <1>1, <2>3, <2>4, WorkerMoved
<1>q. QED BY <1>2, <1>3 DEF C!Pick, C!SetWorker

LEMMA TakeRegistryKept == ASSUME C!AccountsAssumption, AccountsInv, NEW w \in Workers, C!TakeRegistry(w) PROVE AccountsInv'
<1> DEFINE new == [worker[w] EXCEPT !.step = "queueing", !.reg = registry]
<1>0. C!TypeOK /\ MailInv /\ worker[w] \in WorkerStates /\ registry \in C!Registries
  BY WorkerTyped DEF AccountsInv, C!TypeOK
<1>1. worker[w].step = "taking" /\ UNCHANGED <<C!accounts, draft, row, mailbox, failed>> /\ failed \in 0..MaxFailures
  BY <1>0 DEF C!TakeRegistry, C!TypeOK
<1>2. worker[w].todo = {}
  BY <1>0, <1>1 DEF MailInv, WorkerInv
<1>3. /\ new \in WorkerStates /\ new.step = "queueing" /\ new.draft = worker[w].draft /\ new.on = worker[w].on
      /\ new.todo = {}
  BY <1>0, <1>2 DEF WorkerStates
<1>4. worker' = [worker EXCEPT ![w] = new]
  BY DEF C!TakeRegistry, C!SetWorker
<1> HIDE DEF new
<1>q. QED BY <1>1, <1>3, <1>4, WorkerMoved

LEMMA BeginPassKept == ASSUME C!AccountsAssumption, AccountsInv, NEW w \in Workers, C!BeginPass(w) PROVE AccountsInv'
<1> DEFINE new == C!Work("claiming", None, registry)
<1>1. new \in WorkerStates /\ new.step = "claiming" /\ new.todo = {}
  BY DEF C!Work, WorkerStates, AccountsInv, C!TypeOK
<1>2. /\ worker' = [worker EXCEPT ![w] = new] /\ UNCHANGED <<C!accounts, draft, row, mailbox, failed>>
      /\ failed \in 0..MaxFailures
  BY DEF C!BeginPass, C!SetWorker, AccountsInv, C!TypeOK
<1> HIDE DEF new
<1>q. QED BY <1>1, <1>2, WorkerMoved

LEMMA EnqueueKept == ASSUME C!AccountsAssumption, AccountsInv, NEW w \in Workers, C!Enqueue(w) PROVE AccountsInv'
<1> DEFINE new == C!Work("claiming", None, worker[w].reg)
<1>0. C!TypeOK /\ AccountInv /\ MailInv
  BY DEF AccountsInv
<1>p. PICK c \in Connectors, d \in Drafts : c = worker[w].on /\ d = worker[w].draft
  BY <1>0 DEF C!Enqueue, MailInv, WorkerInv
<1>1. worker[w].step = "queueing" /\ Holds(w, d)
  BY <1>p DEF C!Enqueue, Holds
<1>2. new \in WorkerStates /\ new.step = "claiming" /\ new.todo = {}
  BY <1>0, WorkerTyped DEF C!Work, WorkerStates
<1>3. \A b \in Connectors : row[<<b, d>>] = "none"
  BY <1>0, <1>1 DEF MailInv, QueuedOnce
<1>4. /\ row' = [row EXCEPT ![<<c, d>>] = "pending"] /\ worker' = [worker EXCEPT ![w] = new]
      /\ UNCHANGED <<C!accounts, draft, mailbox, failed>>
  BY <1>p, <1>1, <1>3 DEF C!Enqueue, C!SetWorker
<1> HIDE DEF new
<1>5. worker' \in [Workers -> WorkerStates] /\ \A u \in Workers : worker'[u] = IF u = w THEN new ELSE worker[u]
  BY <1>0, <1>2, <1>4, TypesSo
<1>6. row' \in [C!Deliveries -> RowStates] /\ \A x \in C!Deliveries : row'[x] = IF x = <<c, d>> THEN "pending" ELSE row[x]
  BY <1>0, <1>1, <1>4 DEF C!TypeOK, RowStates, C!Deliveries
<1>7. C!TypeOK'
  BY <1>0, <1>4, <1>5, <1>6 DEF C!TypeOK, WorkerStates, RowStates, C!accounts, C!stored
<1>8. \A u \in Workers, e \in Drafts : Holds(u, e)' => u # w /\ Holds(u, e)
  BY <1>2, <1>5 DEF Holds
<1>9. \A b \in Connectors, e \in Drafts : row'[<<b, e>>] # "none" => (b = c /\ e = d) \/ row[<<b, e>>] # "none"
  BY <1>6 DEF C!Deliveries
<1>10. draft[d] # "draft"
  BY <1>0, <1>1 DEF MailInv, QueuedOnce
<1>11. QueuedOnce'
  <2> SUFFICES ASSUME NEW e \in Drafts
               PROVE  (/\ \A u, v \in Workers : Holds(u, e) /\ Holds(v, e) => u = v
                       /\ (\E u \in Workers : Holds(u, e)) => \A b \in Connectors : row[<<b, e>>] = "none"
                       /\ \A a, b \in Connectors : row[<<a, e>>] # "none" /\ row[<<b, e>>] # "none" => a = b
                       /\ draft[e] = "draft" => /\ \A u \in Workers : ~Holds(u, e)
                                                /\ \A b \in Connectors : row[<<b, e>>] = "none")'
    BY DEF QueuedOnce
  <2>1. CASE e = d
    <3>1. \A u \in Workers : ~Holds(u, d)'
      BY <1>0, <1>1, <1>8 DEF MailInv, QueuedOnce
    <3>q. QED BY <1>3, <1>4, <1>9, <1>10, <2>1, <3>1
  <2>2. CASE e # d
    BY <1>0, <1>4, <1>8, <1>9, <2>2 DEF MailInv, QueuedOnce
  <2>q. QED BY <2>1, <2>2
<1>12. WorkerInv' /\ \A x \in mailbox' : row'[x] # "none"
  <2>1. \A x \in C!Deliveries : row[x] # "none" => row'[x] # "none"
    BY <1>6
  <2>2. mailbox' \subseteq C!Deliveries /\ mailbox' = mailbox /\ \A u \in Workers : worker[u].todo \subseteq C!Deliveries
    BY <1>0, <1>4, WorkerTyped DEF C!TypeOK
  <2>q. QED BY <1>0, <1>2, <1>5, <2>1, <2>2 DEF MailInv, WorkerInv
<1>q. QED BY <1>0, <1>4, <1>7, <1>11, <1>12, AccountsKept DEF AccountsInv, MailInv

\* Rows that exist change, and none begins to.
LEMMA RowsMoved ==
  ASSUME C!AccountsAssumption, AccountsInv, row' \in [C!Deliveries -> RowStates],
         \A x \in C!Deliveries : row'[x] = "none" <=> row[x] = "none",
         worker' \in [Workers -> WorkerStates], \A u \in Workers, e \in Drafts : Holds(u, e)' => Holds(u, e),
         WorkerInv', mailbox' \subseteq C!Deliveries, \A x \in mailbox' : row'[x] # "none",
         draft' = draft, C!TypeOK', AccountInv'
  PROVE  AccountsInv'
<1>0. MailInv
  BY DEF AccountsInv
<1>1. \A c \in Connectors, d \in Drafts : row'[<<c, d>>] = "none" <=> row[<<c, d>>] = "none"
  BY DEF C!Deliveries
<1>2. QueuedOnce'
  BY <1>0, <1>1 DEF MailInv, QueuedOnce
<1>q. QED BY <1>2 DEF AccountsInv, MailInv

LEMMA ClaimKept == ASSUME C!AccountsAssumption, AccountsInv, NEW w \in Workers, C!Claim(w) PROVE AccountsInv'
<1> DEFINE due == {x \in C!Deliveries : row[x] = "pending"}
           new == IF due = {} THEN C!Idle ELSE [worker[w] EXCEPT !.step = "delivering", !.todo = due]
<1>0. C!TypeOK /\ AccountInv /\ MailInv
  BY DEF AccountsInv
<1>1. /\ row' = [x \in C!Deliveries |-> IF x \in due THEN "in_flight" ELSE row[x]]
      /\ worker' = [worker EXCEPT ![w] = new] /\ UNCHANGED <<C!accounts, draft, mailbox, failed>>
  BY DEF C!Claim, C!SetWorker
<1>2. /\ new \in WorkerStates /\ new.step \in {"away", "delivering"} /\ new.todo \subseteq due
      /\ new.step = "away" => new.todo = {}
  <2>1. CASE due = {}
    BY <2>1, RestingTyped DEF C!Idle, C!Work
  <2>2. CASE due # {}
    BY <1>0, <2>2, WorkerTyped DEF WorkerStates
  <2>q. QED BY <2>1, <2>2
<1>3. row' \in [C!Deliveries -> RowStates] /\ \A x \in C!Deliveries : row'[x] = IF row[x] = "pending" THEN "in_flight" ELSE row[x]
  BY <1>0, <1>1 DEF C!TypeOK, RowStates
<1>4. \A x \in due : x \in C!Deliveries /\ row'[x] # "none"
  BY <1>1
<1> HIDE DEF new, due
<1>5. worker' \in [Workers -> WorkerStates] /\ \A u \in Workers : worker'[u] = IF u = w THEN new ELSE worker[u]
  BY <1>0, <1>1, <1>2, TypesSo
<1>6. C!TypeOK'
  BY <1>0, <1>1, <1>3, <1>5 DEF C!TypeOK, WorkerStates, RowStates, C!accounts, C!stored
<1>7. \A u \in Workers, e \in Drafts : Holds(u, e)' => Holds(u, e)
  BY <1>2, <1>5 DEF Holds
<1>8. \A x \in C!Deliveries : row'[x] = "none" <=> row[x] = "none"
  BY <1>3
<1>9. WorkerInv'
  <2> SUFFICES ASSUME NEW u \in Workers
               PROVE  (/\ worker[u].step \in {"picking", "taking", "queueing"} => worker[u].draft \in Drafts
                       /\ worker[u].step \in {"taking", "queueing"} => worker[u].on \in Connectors
                       /\ worker[u].step = "delivering" \/ worker[u].todo = {}
                       /\ \A x \in worker[u].todo : row[x] # "none")'
    BY DEF WorkerInv
  <2>1. CASE u = w
    BY <1>2, <1>4, <1>5, <2>1
  <2>2. CASE u # w
    <3>1. worker'[u] = worker[u] /\ worker[u].todo \subseteq C!Deliveries
      BY <1>0, <1>5, <2>2, WorkerTyped
    <3>q. QED BY <1>0, <1>8, <3>1 DEF MailInv, WorkerInv
  <2>q. QED BY <2>1, <2>2
<1>10. mailbox' \subseteq C!Deliveries /\ \A x \in mailbox' : row'[x] # "none"
  BY <1>0, <1>1, <1>8 DEF MailInv, C!TypeOK
<1>q. QED BY <1>0, <1>1, <1>3, <1>5, <1>6, <1>7, <1>8, <1>9, <1>10, RowsMoved, AccountsKept

LEMMA DeliverKept == ASSUME C!AccountsAssumption, AccountsInv, NEW w \in Workers, NEW x \in worker[w].todo, C!Deliver(w, x) PROVE AccountsInv'
<1> DEFINE new == IF worker[w].todo = {x} THEN C!Idle ELSE [worker[w] EXCEPT !.todo = @ \ {x}]
<1>0. C!TypeOK /\ AccountInv /\ MailInv /\ x \in C!Deliveries /\ worker[w].step = "delivering" /\ row[x] # "none"
  BY WorkerTyped DEF AccountsInv, C!Deliver, MailInv, WorkerInv
<1>1. PICK to \in {"complete", "failed", "pending"} :
        /\ row' = [row EXCEPT ![x] = to]
        /\ mailbox' = IF to = "complete" THEN mailbox \union {x} ELSE mailbox
  BY DEF C!Deliver
<1>2. worker' = [worker EXCEPT ![w] = new] /\ UNCHANGED <<C!accounts, draft, failed>>
  BY DEF C!Deliver, C!SetWorker
<1>3. /\ new \in WorkerStates /\ new.step \in {"away", "delivering"} /\ new.todo \subseteq worker[w].todo
      /\ new.step = "away" => new.todo = {}
  <2>1. CASE worker[w].todo = {x}
    BY <2>1, RestingTyped DEF C!Idle, C!Work
  <2>2. CASE worker[w].todo # {x}
    BY <1>0, <2>2, WorkerTyped DEF WorkerStates
  <2>q. QED BY <2>1, <2>2
<1> HIDE DEF new
<1>4. /\ row' \in [C!Deliveries -> RowStates] /\ row'[x] # "none"
      /\ \A y \in C!Deliveries : y # x => row'[y] = row[y]
  BY <1>0, <1>1 DEF C!TypeOK, RowStates
<1>5. worker' \in [Workers -> WorkerStates] /\ \A u \in Workers : worker'[u] = IF u = w THEN new ELSE worker[u]
  BY <1>0, <1>2, <1>3, TypesSo
<1>6. mailbox' \subseteq C!Deliveries
  BY <1>0, <1>1 DEF C!TypeOK
<1>7. C!TypeOK'
  BY <1>0, <1>2, <1>4, <1>5, <1>6 DEF C!TypeOK, WorkerStates, RowStates, C!accounts, C!stored
<1>8. \A u \in Workers, e \in Drafts : Holds(u, e)' => Holds(u, e)
  BY <1>3, <1>5 DEF Holds
<1>9. \A y \in C!Deliveries : row'[y] = "none" <=> row[y] = "none"
  BY <1>0, <1>4
<1>10. \A u \in Workers : worker'[u].todo \subseteq worker[u].todo /\ worker[u].todo \subseteq C!Deliveries
  BY <1>0, <1>3, <1>5, WorkerTyped
<1>11. WorkerInv'
  BY <1>0, <1>3, <1>5, <1>9, <1>10 DEF MailInv, WorkerInv
<1>12. \A y \in mailbox' : row'[y] # "none"
  BY <1>0, <1>1, <1>4, <1>6, <1>9 DEF MailInv
<1>q. QED BY <1>0, <1>2, <1>4, <1>5, <1>6, <1>7, <1>8, <1>9, <1>11, <1>12, RowsMoved, AccountsKept

LEMMA ReturnedSo == ASSUME C!TypeOK, NEW xs \in SUBSET C!Deliveries, \A x \in xs : row[x] # "none"
                    PROVE  /\ C!Returned(xs) \in [C!Deliveries -> RowStates]
                           /\ \A x \in C!Deliveries : C!Returned(xs)[x] = "none" <=> row[x] = "none"
BY DEF C!Returned, C!TypeOK, RowStates

LEMMA AbandonKept == ASSUME C!AccountsAssumption, AccountsInv, NEW w \in Workers, C!Abandon(w) PROVE AccountsInv'
<1>0. C!TypeOK /\ AccountInv /\ MailInv
  BY DEF AccountsInv
<1>1. /\ row' = C!Returned(worker[w].todo) /\ worker' = [worker EXCEPT ![w] = C!Idle]
      /\ UNCHANGED <<C!accounts, draft, mailbox>> /\ failed' \in 0..MaxFailures
  BY <1>0, AccountsNumbers DEF C!Abandon, C!SetWorker, C!TypeOK
<1>2. /\ row' \in [C!Deliveries -> RowStates] /\ \A x \in C!Deliveries : row'[x] = "none" <=> row[x] = "none"
  <2>1. worker[w].todo \in SUBSET C!Deliveries /\ \A x \in worker[w].todo : row[x] # "none"
    BY <1>0, WorkerTyped DEF MailInv, WorkerInv
  <2>q. QED BY <1>0, <1>1, <2>1, ReturnedSo
<1>3. worker' \in [Workers -> WorkerStates] /\ \A u \in Workers : worker'[u] = IF u = w THEN C!Idle ELSE worker[u]
  BY <1>0, <1>1, RestingTyped, TypesSo
<1>4. C!TypeOK'
  BY <1>0, <1>1, <1>2, <1>3 DEF C!TypeOK, WorkerStates, RowStates, C!accounts, C!stored
<1>5. C!Idle.step = "away" /\ C!Idle.todo = {}
  BY DEF C!Idle, C!Work
<1>6. \A u \in Workers, e \in Drafts : Holds(u, e)' => Holds(u, e)
  BY <1>3, <1>5 DEF Holds
<1>7. WorkerInv'
  BY <1>0, <1>2, <1>3, <1>5, WorkerTyped DEF MailInv, WorkerInv
<1>8. mailbox' \subseteq C!Deliveries /\ \A x \in mailbox' : row'[x] # "none"
  BY <1>0, <1>1, <1>2 DEF MailInv, C!TypeOK
<1>q. QED BY <1>0, <1>1, <1>2, <1>3, <1>4, <1>6, <1>7, <1>8, RowsMoved, AccountsKept

LEMMA RestartKept == ASSUME C!AccountsAssumption, AccountsInv, C!Restart PROVE AccountsInv'
<1>0. C!TypeOK /\ AccountInv /\ MailInv
  BY DEF AccountsInv
<1>1. /\ registry' = C!Absent /\ behind' = "restarted" /\ failed' \in 0..MaxFailures
      /\ torn' = (IF \E s \in SignIns : signin[s].step = "stored" THEN torn \union {"microsoft"} ELSE torn)
      /\ signin' = [s \in SignIns |-> C!Away]
      /\ row' = C!Returned({x \in C!Deliveries : row[x] = "in_flight"})
      /\ worker' = [w \in Workers |-> C!Idle]
      /\ UNCHANGED <<account, key, shown, made, draft, mailbox>>
  BY <1>0, AccountsNumbers DEF C!Restart, C!TypeOK
<1>2. /\ row' \in [C!Deliveries -> RowStates] /\ \A x \in C!Deliveries : row'[x] = "none" <=> row[x] = "none"
  BY <1>0, <1>1, ReturnedSo
<1>3. worker' \in [Workers -> WorkerStates] /\ signin' \in [SignIns -> SignInStates]
  BY <1>1, RestingTyped
<1>4. (\A u \in Workers : worker'[u] = C!Idle) /\ (\A s \in SignIns : signin'[s] = C!Away)
  BY <1>1
<1>5. C!Idle.step = "away" /\ C!Idle.todo = {} /\ C!Away.step = "away"
  BY DEF C!Idle, C!Work, C!Away, C!SignIn
<1>6. torn' \subseteq Connectors
  BY <1>0, <1>1, AccountsNumbers DEF C!TypeOK
<1>7. C!TypeOK'
  BY <1>0, <1>1, <1>2, <1>3, <1>6, AbsentTyped DEF C!TypeOK, WorkerStates, SignInStates, RowStates
<1>8. AccountInv'
  <2>1. TokenIsKey' /\ (\A s \in SignIns : HeldIsOf(s)') /\ InForce'
    BY <1>1, <1>4, <1>5 DEF TokenIsKey, HeldIsOf, InForce
  <2>2. "microsoft" \notin torn' => NoneStored
    BY <1>1 DEF NoneStored
  <2>3. KeysFit'
    BY <1>0, <1>1, <2>2 DEF AccountInv, KeysFit
  <2>q. QED BY <2>1, <2>3 DEF AccountInv
<1>9. \A u \in Workers, e \in Drafts : Holds(u, e)' => Holds(u, e)
  BY <1>4, <1>5 DEF Holds
<1>10. WorkerInv'
  BY <1>4, <1>5 DEF WorkerInv
<1>11. mailbox' \subseteq C!Deliveries /\ \A x \in mailbox' : row'[x] # "none"
  BY <1>0, <1>1, <1>2 DEF MailInv, C!TypeOK
<1>q. QED BY <1>0, <1>1, <1>2, <1>3, <1>7, <1>8, <1>9, <1>10, <1>11, RowsMoved
-----------------------------------------------------------------------------
LEMMA AccountsNext == ASSUME C!AccountsAssumption, AccountsInv, C!Next PROVE AccountsInv'
<1>1. ASSUME NEW c \in Connectors, NEW t \in Targets, NEW mails \in Mailing, NEW how \in {"done", "no row", "no registry"},
             C!Connect(c, t, mails, how)
      PROVE  AccountsInv'
  BY <1>1, ConnectKept
<1>2. ASSUME NEW c \in Connectors, NEW how \in {"done", "key kept", "no registry"}, C!Disconnect(c, how) PROVE AccountsInv'
  BY <1>2, DisconnectKept
<1>3. ASSUME NEW s \in SignIns, NEW t \in Targets, NEW mails \in Mailing, C!StartSignIn(s, t, mails) PROVE AccountsInv'
  BY <1>3, StartSignInKept
<1>4. ASSUME NEW s \in SignIns, C!GiveUp(s) \/ C!StoreToken(s) \/ C!CannotRegister(s) \/ C!Register(s) \/ C!PutInForce(s) PROVE AccountsInv'
  BY <1>4, GiveUpKept, StoreTokenKept, CannotRegisterKept, RegisterKept, PutInForceKept
<1>5. ASSUME NEW w \in Workers, NEW d \in Drafts, C!Approve(w, d) PROVE AccountsInv'
  BY <1>5, ApproveKept
<1>6. ASSUME NEW w \in Workers, C!Pick(w) \/ C!TakeRegistry(w) \/ C!Enqueue(w) \/ C!BeginPass(w) \/ C!Claim(w) \/ C!Abandon(w) PROVE AccountsInv'
  BY <1>6, PickKept, TakeRegistryKept, EnqueueKept, BeginPassKept, ClaimKept, AbandonKept
<1>7. ASSUME NEW w \in Workers, NEW x \in worker[w].todo, C!Deliver(w, x) PROVE AccountsInv'
  BY <1>7, DeliverKept
<1>8. ASSUME NEW d \in Drafts, C!Discard(d) PROVE AccountsInv'
  BY <1>8, DiscardKept
<1>9. CASE C!Restart
  BY <1>9, RestartKept
<1>q. QED BY <1>1, <1>2, <1>3, <1>4, <1>5, <1>6, <1>7, <1>8, <1>9 DEF C!Next

LEMMA AccountsStutter == ASSUME AccountsInv, UNCHANGED C!vars PROVE AccountsInv'
<1>1. UNCHANGED <<account, key, shown, made, torn, registry, behind, signin, draft, row, mailbox, worker, failed>>
  BY DEF C!vars, C!stored, C!mail
<1>2. C!TypeOK'
  BY <1>1 DEF AccountsInv, C!TypeOK
<1>3. AccountInv'
  BY <1>1, AccountsKept DEF AccountsInv, C!accounts, C!stored
<1>4. MailInv'
  BY <1>1, MailKept DEF AccountsInv, C!mail
<1>q. QED BY <1>2, <1>3, <1>4 DEF AccountsInv

LEMMA AccountsSafe == ASSUME C!AccountsAssumption, AccountsInv PROVE C!TypeOK /\ C!ConnectedWorks /\ C!OneMailbox
<1>1. C!TypeOK /\ AccountInv /\ MailInv
  BY DEF AccountsInv
<1>2. C!ConnectedWorks
  <2> SUFFICES ASSUME C!Settled PROVE /\ behind = "no" => registry = C!Build(account, key)
                                      /\ \A c \in Connectors \ torn : account[c] # None => C!Fits(c)
    BY DEF C!ConnectedWorks
  <2>1. NoneStored
    BY DEF C!Settled, NoneStored
  <2>2. \A c \in Connectors : c \in {"google", "microsoft", "webhook", "vault"}
    BY DEF C!AccountsAssumption
  <2>q. QED BY <1>1, <2>1, <2>2 DEF AccountInv, InForce, KeysFit, C!Fits
<1>3. C!OneMailbox
  <2> SUFFICES ASSUME NEW x \in mailbox, NEW y \in mailbox PROVE draft[x[2]] # "draft" /\ (x[2] = y[2] => x = y)
    BY DEF C!OneMailbox
  <2>1. PICK c \in Connectors, d \in Drafts : x = <<c, d>>
    BY <1>1 DEF C!TypeOK, C!Deliveries
  <2>2. PICK b \in Connectors, e \in Drafts : y = <<b, e>>
    BY <1>1 DEF C!TypeOK, C!Deliveries
  <2>3. row[<<c, d>>] # "none" /\ row[<<b, e>>] # "none"
    BY <1>1, <2>1, <2>2 DEF MailInv
  <2>q. QED BY <1>1, <2>1, <2>2, <2>3 DEF MailInv, QueuedOnce
<1>q. QED BY <1>1, <1>2, <1>3-----------------------------------------------------------------------------
(* The parts beside each other: a step of one leaves the others' variables. *)

LEMMA DownloadsInvariance == TransfersSpec => []DownloadsInv
<1>1. TransfersInit => DownloadsInv
  BY Assumptions, DownloadsInit DEF TransfersInit
<1>2. DownloadsInv /\ [TransfersNext]_allVars => DownloadsInv'
  <2>1. TransfersNext => [D!Next]_(D!vars)
    BY DEF TransfersNext, OutboxStep, DownloadsStep, AccountsStep, downloads, D!vars, D!manager, D!disk, D!paths
  <2>2. UNCHANGED allVars => [D!Next]_(D!vars)
    BY DEF allVars, downloads, D!vars, D!manager, D!disk, D!paths
  <2>q. QED BY <2>1, <2>2, Assumptions, DownloadsNext
<1>q. QED BY <1>1, <1>2, PTL DEF TransfersSpec

LEMMA AccountsInvariance == TransfersSpec => []AccountsInv
<1>1. TransfersInit => AccountsInv
  BY Assumptions, AccountsInit DEF TransfersInit
<1>2. AccountsInv /\ [TransfersNext]_allVars => AccountsInv'
  <2>1. TransfersNext => C!Next \/ UNCHANGED C!vars
    BY DEF TransfersNext, OutboxStep, DownloadsStep, AccountsStep, accounts, C!vars, C!stored, C!mail
  <2>2. UNCHANGED allVars => UNCHANGED C!vars
    BY DEF allVars, accounts, C!vars, C!stored, C!mail
  <2>q. QED BY <2>1, <2>2, Assumptions, AccountsNext, AccountsStutter
<1>q. QED BY <1>1, <1>2, PTL DEF TransfersSpec

\* What is taken for a downloaded artifact is the artifact: through transfers that are cut, resumed and
\* started over, a server that sends the whole, files that are removed or replaced beside them, and crashes,
\* unless two processes wrote one partial file.
THEOREM TransfersTrustedIsWhole == TransfersSpec => []TrustedIsWhole
<1>1. DownloadsInv => TrustedIsWhole
  BY DEF DownloadsInv, Whole, FinalIsWhole, Prefix, TrustedIsWhole, D!TrustedIsWhole, D!Trusted
<1>q. QED BY <1>1, DownloadsInvariance, PTL

\* What delivers is what is connected, and with a key that fits, though row, key and registry change in
\* three places and sign-ins put their tokens down without the lock.
THEOREM TransfersConnectedWorks == TransfersSpec => []ConnectedWorks
<1>1. AccountsInv => ConnectedWorks
  BY Assumptions, AccountsSafe DEF ConnectedWorks
<1>q. QED BY <1>1, AccountsInvariance, PTL

\* A draft is in the mailbox of one vendor, and was approved, whichever accounts come and go.
THEOREM TransfersOneMailbox == TransfersSpec => []OneMailbox
<1>1. AccountsInv => OneMailbox
  BY Assumptions, AccountsSafe DEF OneMailbox
<1>q. QED BY <1>1, AccountsInvariance, PTL
=============================================================================
