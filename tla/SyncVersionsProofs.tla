------------------------- MODULE SyncVersionsProofs -------------------------
(***************************************************************************)
(* What SyncVersions promises, for any devices, policies and edits.        *)
(*                                                                         *)
(* The inductive invariant says that a version counts exactly the edits    *)
(* its copy descends from: the counts are the history, and everything that *)
(* comparing and merging do to the first they do to the second.            *)
(***************************************************************************)
EXTENDS SyncVersions, TLAPS

\* The edits a version counts.
Counted(v) == {e \in Edits : e[2] <= v[e[1]]}

HistoryIsCounted == \A c \in AllCopies : c.history = Counted(c.version)

IInv == TypeOK /\ HistoryIsCounted

\* One version counts the edits of another exactly when it is ahead of it nowhere.
LEMMA CountedSubset ==
  ASSUME NEW v \in Versions, NEW w \in Versions
  PROVE  Counted(v) \subseteq Counted(w) <=> ~Ahead(v, w)
<1>1. ASSUME NEW d \in Devices, v[d] > w[d]
      PROVE  ~(Counted(v) \subseteq Counted(w))
  <2>1. v[d] \in Nat /\ w[d] \in Nat /\ v[d] \in Nat \ {0}
    BY <1>1 DEF Versions
  <2>2. <<d, v[d]>> \in Edits
    BY <2>1 DEF Edits
  <2>3. <<d, v[d]>> \in Counted(v) /\ <<d, v[d]>> \notin Counted(w)
    BY <1>1, <2>1, <2>2 DEF Counted
  <2> QED
    BY <2>3
<1>2. ASSUME ~Ahead(v, w), NEW e \in Counted(v)
      PROVE  e \in Counted(w)
  <2>1. e[1] \in Devices /\ e[2] \in Nat /\ e \in Edits /\ e[2] <= v[e[1]]
    BY <1>2 DEF Counted, Edits
  <2>2. v[e[1]] \in Nat /\ w[e[1]] \in Nat /\ ~(v[e[1]] > w[e[1]])
    BY <1>2, <2>1 DEF Versions, Ahead
  <2> QED
    BY <2>1, <2>2 DEF Counted
<1> QED
  BY <1>1, <1>2 DEF Ahead

\* A merge is a version, is behind neither side, and counts what either counts.
LEMMA MergedCounts ==
  ASSUME NEW v \in Versions, NEW w \in Versions
  PROVE  /\ Merged(v, w) \in Versions
         /\ ~Ahead(v, Merged(v, w)) /\ ~Ahead(w, Merged(v, w))
         /\ Counted(Merged(v, w)) = Counted(v) \union Counted(w)
<1>1. Merged(v, w) \in Versions
  BY DEF Versions, Merged
<1>2. ~Ahead(v, Merged(v, w)) /\ ~Ahead(w, Merged(v, w))
  BY DEF Versions, Merged, Ahead
<1>3. Counted(v) \union Counted(w) \subseteq Counted(Merged(v, w))
  BY <1>1, <1>2, CountedSubset
<1>4. ASSUME NEW e \in Counted(Merged(v, w))
      PROVE  e \in Counted(v) \union Counted(w)
  <2>1. e[1] \in Devices /\ e \in Edits
    BY <1>4 DEF Counted, Edits
  <2> QED
    BY <1>4, <2>1 DEF Counted, Merged
<1> QED
  BY <1>1, <1>2, <1>3, <1>4

\* Advancing a version counts one edit more, and no other.
LEMMA IncrementCounts ==
  ASSUME NEW v \in Versions, NEW d \in Devices
  PROVE  /\ Increment(v, d) \in Versions
         /\ ~Ahead(v, Increment(v, d))
         /\ Counted(Increment(v, d)) = Counted(v) \union {<<d, v[d] + 1>>}
<1>1. Increment(v, d) \in Versions /\ v[d] \in Nat
  BY DEF Versions, Increment
<1>2. \A x \in Devices : Increment(v, d)[x] = IF x = d THEN v[d] + 1 ELSE v[x]
  BY DEF Versions, Increment
<1>3. ~Ahead(v, Increment(v, d))
  BY <1>1, <1>2 DEF Versions, Ahead
<1>4. <<d, v[d] + 1>> \in Counted(Increment(v, d))
  BY <1>1, <1>2 DEF Counted, Edits
<1>5. ASSUME NEW e \in Counted(Increment(v, d)), e \notin Counted(v)
      PROVE  e = <<d, v[d] + 1>>
  <2>1. e \in Edits /\ e = <<e[1], e[2]>> /\ e[1] \in Devices /\ e[2] \in Nat
        /\ e[2] <= Increment(v, d)[e[1]] /\ ~(e[2] <= v[e[1]])
    BY <1>5 DEF Counted, Edits
  <2>2. e[1] = d
    BY <1>2, <2>1
  <2>3. e[2] = v[d] + 1
    BY <1>1, <1>2, <2>1, <2>2
  <2> QED
    BY <2>1, <2>2, <2>3
<1>6. Counted(v) \subseteq Counted(Increment(v, d))
  BY <1>1, <1>3, CountedSubset
<1> QED
  BY <1>1, <1>3, <1>4, <1>5, <1>6
-----------------------------------------------------------------------------
\* What a receiver does, in the terms the proofs need: the copy it ends with descends from the one
\* it had and the one it got, and counts what they count.
LEMMA ReceiveJoins ==
  ASSUME IInv, NEW d \in Devices, NEW remote \in sent, Receive(d, remote)
  PROVE  /\ copy' = [copy EXCEPT ![d] = copy'[d]]
         /\ copy'[d] \in Copies
         /\ copy'[d].history = Counted(copy'[d].version)
         /\ copy'[d].version = Merged(copy[d].version, remote.version)
         /\ ~Ahead(copy[d].version, copy'[d].version)
         /\ ~Ahead(remote.version, copy'[d].version)
         /\ copy[d].history \subseteq copy'[d].history
         /\ met' = [met EXCEPT ![d] = @ \union {remote.version}]
         /\ UNCHANGED <<policy, sent>>
<1> DEFINE v == copy[d].version
           w == remote.version
<1>1. copy[d] \in Copies /\ remote \in Copies /\ v \in Versions /\ w \in Versions
  BY DEF IInv, TypeOK, Copies
<1>2. copy[d].history = Counted(v) /\ remote.history = Counted(w)
  BY DEF IInv, HistoryIsCounted, AllCopies
<1>3. CASE TakeRemote(d, remote)
  <2>1. copy' = [copy EXCEPT ![d] = remote] /\ copy'[d] = remote
    BY <1>3 DEF TakeRemote, IInv, TypeOK
  <2>2. ~Ahead(v, w)
    BY <1>1, <1>3 DEF TakeRemote, Compare
  <2>3. w = Merged(v, w)
    BY <1>1, <2>2 DEF Merged, Ahead, Versions
  <2>4. ~Ahead(w, w)
    BY <1>1 DEF Ahead, Versions
  <2>5. copy[d].history \subseteq remote.history
    BY <1>1, <1>2, <2>2, CountedSubset
  <2> QED
    BY <1>1, <1>2, <1>3, <2>1, <2>2, <2>3, <2>4, <2>5 DEF TakeRemote
<1>4. CASE ResolveConflict(d, remote)
  <2> DEFINE kept == Kept(policy[d], copy[d], remote)
             new  == [version |-> Merged(v, w), history |-> copy[d].history \union remote.history,
                      content |-> kept]
  <2>1. copy' = [copy EXCEPT ![d] = new] /\ copy'[d] = new
    BY <1>4 DEF ResolveConflict, IInv, TypeOK
  <2>2. policy[d] \in {"keep_both", "prefer_local", "prefer_remote"}
    BY <1>4 DEF ResolveConflict, IInv, TypeOK, Policies
  <2>3. kept \in SUBSET Edits
    BY <1>1, <2>2 DEF Kept, Copies
  <2>4. new \in Copies
    BY <1>1, <2>3, MergedCounts DEF Copies
  <2>5. new.history = Counted(new.version)
    BY <1>1, <1>2, MergedCounts
  <2>6. ~Ahead(v, new.version) /\ ~Ahead(w, new.version)
    BY <1>1, MergedCounts
  <2>7. met' = [met EXCEPT ![d] = @ \union {w}] /\ UNCHANGED <<policy, sent>>
    BY <1>4 DEF ResolveConflict
  <2>8. new.version = Merged(v, w) /\ copy[d].history \subseteq new.history
    OBVIOUS
  <2> HIDE DEF new
  <2> QED
    BY <2>1, <2>4, <2>5, <2>6, <2>7, <2>8
<1> QED
  BY <1>3, <1>4 DEF Receive

\* An edit in the same terms.
LEMMA EditCounts ==
  ASSUME IInv, NEW d \in Devices, Edit(d)
  PROVE  /\ copy' = [copy EXCEPT ![d] = copy'[d]]
         /\ copy'[d] \in Copies
         /\ copy'[d].history = Counted(copy'[d].version)
         /\ copy'[d].version = Increment(copy[d].version, d)
         /\ ~Ahead(copy[d].version, copy'[d].version)
         /\ copy[d].history \subseteq copy'[d].history
         /\ copy'[d].history \ copy'[d].content \subseteq copy[d].history \ copy[d].content
         /\ UNCHANGED <<policy, sent, met, told>>
<1> DEFINE v    == copy[d].version
           edit == <<d, v[d] + 1>>
           new  == [version |-> Increment(v, d), history |-> copy[d].history \union {edit},
                    content |-> copy[d].content \union {edit}]
<1>1. copy[d] \in Copies /\ v \in Versions /\ v[d] \in Nat
  BY DEF IInv, TypeOK, Copies, Versions
<1>2. copy[d].history = Counted(v)
  BY DEF IInv, HistoryIsCounted, AllCopies
<1>3. edit \in Edits
  BY <1>1 DEF Edits
<1>4. copy' = [copy EXCEPT ![d] = new] /\ copy'[d] = new
  BY DEF Edit, IInv, TypeOK
<1>5. new \in Copies
  BY <1>1, <1>3, IncrementCounts DEF Copies
<1>6. new.history = Counted(new.version)
  BY <1>1, <1>2, IncrementCounts
<1>7. ~Ahead(v, new.version)
  BY <1>1, IncrementCounts
<1>8. UNCHANGED <<policy, sent, met, told>>
  BY DEF Edit
<1>9. /\ new.version = Increment(v, d)
      /\ copy[d].history \subseteq new.history
      /\ new.history \ new.content \subseteq copy[d].history \ copy[d].content
  OBVIOUS
<1> HIDE DEF new
<1> QED
  BY <1>4, <1>5, <1>6, <1>7, <1>8, <1>9
-----------------------------------------------------------------------------
LEMMA InitIInv == Init => IInv
<1> SUFFICES ASSUME Init PROVE IInv
  OBVIOUS
<1>1. Blank \in Copies /\ Blank.version \in Versions
  BY DEF Blank, Copies, Versions
<1>2. AllCopies \subseteq {Blank}
  BY DEF Init, AllCopies
<1>3. Counted(Blank.version) = {}
  BY DEF Counted, Blank, Edits
<1>4. TypeOK
  BY <1>1, <1>2 DEF Init, TypeOK, Versions
<1>5. HistoryIsCounted
  BY <1>2, <1>3 DEF HistoryIsCounted, Blank
<1> QED
  BY <1>4, <1>5 DEF IInv

\* When one device's copy moves forward and keeps its counts in order, every copy still has
\* history and version in step, and nobody gets ahead of the device an edit is from.
LEMMA ForwardKeepsIInv ==
  ASSUME IInv, NEW d \in Devices,
         copy' = [copy EXCEPT ![d] = copy'[d]],
         copy'[d] \in Copies,
         copy'[d].history = Counted(copy'[d].version),
         ~Ahead(copy[d].version, copy'[d].version),
         \A x \in Devices \ {d} : copy'[d].version[x] <= copy[x].version[x],
         UNCHANGED <<policy, sent>>,
         met' \in [Devices -> SUBSET Versions], told' \in SUBSET Edits
  PROVE  IInv'
<1>1. \A c \in AllCopies' : c \in AllCopies \/ c = copy'[d]
  BY DEF AllCopies, IInv, TypeOK
<1>2. \A x \in Devices : /\ copy[x].version \in Versions /\ copy'[x].version \in Versions
                         /\ copy[x].version[x] <= copy'[x].version[x]
  <2> TAKE x \in Devices
  <2>1. copy[x] \in Copies /\ copy[x].version \in Versions
    BY DEF IInv, TypeOK, Copies
  <2>2. CASE x = d
    <3>1. copy'[d].version \in Versions
      BY DEF Copies
    <3> QED
      BY <2>1, <2>2, <3>1 DEF Ahead, Versions
  <2>3. CASE x # d
    <3>1. copy'[x] = copy[x]
      BY <2>3 DEF IInv, TypeOK
    <3> QED
      BY <2>1, <3>1 DEF Versions
  <2> QED
    BY <2>2, <2>3
<1>3. \A c \in AllCopies' : \A x \in Devices : c.version[x] <= copy'[x].version[x]
  <2> TAKE c \in AllCopies'
  <2> TAKE x \in Devices
  <2>1. CASE c \in AllCopies
    <3>1. c \in Copies /\ c.version \in Versions /\ c.version[x] <= copy[x].version[x]
      BY <2>1 DEF IInv, TypeOK, AllCopies, Copies
    <3> QED
      BY <1>2, <3>1 DEF Versions
  <2>2. CASE c = copy'[d] /\ x # d
    <3>1. copy'[x] = copy[x]
      BY <2>2 DEF IInv, TypeOK
    <3> QED
      BY <2>2, <3>1
  <2>3. CASE c = copy'[d] /\ x = d
    BY <1>2, <2>3 DEF Versions
  <2> QED
    BY <1>1, <2>1, <2>2, <2>3
<1>4. copy' \in [Devices -> Copies]
  BY DEF IInv, TypeOK
<1>5. TypeOK'
  BY <1>3, <1>4 DEF IInv, TypeOK
<1>6. HistoryIsCounted'
  <2> SUFFICES ASSUME NEW c \in AllCopies' PROVE c.history = Counted(c.version)
    BY DEF HistoryIsCounted
  <2> QED
    BY <1>1 DEF IInv, HistoryIsCounted
<1> QED
  BY <1>5, <1>6 DEF IInv

LEMMA NextIInv == IInv /\ [Next]_vars => IInv'
<1> SUFFICES ASSUME IInv, [Next]_vars PROVE IInv'
  OBVIOUS
<1>1. ASSUME NEW d \in Devices, Edit(d) PROVE IInv'
  <2>1. copy[d].version \in Versions
    BY DEF IInv, TypeOK, Copies
  <2>2. \A x \in Devices \ {d} : copy'[d].version[x] <= copy[x].version[x]
    <3> TAKE x \in Devices \ {d}
    <3>1. copy'[d].version[x] = copy[d].version[x]
      BY <1>1, <2>1, EditCounts DEF Increment, Versions
    <3> QED
      BY <3>1 DEF IInv, TypeOK, AllCopies
  <2>3. met' \in [Devices -> SUBSET Versions] /\ told' \in SUBSET Edits
    BY <1>1 DEF Edit, IInv, TypeOK
  <2> QED
    BY <1>1, <2>2, <2>3, EditCounts, ForwardKeepsIInv
<1>2. ASSUME NEW d \in Devices, Send(d) PROVE IInv'
  <2>1. AllCopies' = AllCopies /\ copy' = copy
    BY <1>2 DEF Send, AllCopies
  <2>2. copy[d] \in Copies
    BY DEF IInv, TypeOK
  <2>3. TypeOK'
    BY <1>2, <2>1, <2>2 DEF Send, IInv, TypeOK
  <2> QED
    BY <2>1, <2>3 DEF IInv, HistoryIsCounted
<1>3. ASSUME NEW d \in Devices, NEW remote \in sent, Receive(d, remote) PROVE IInv'
  <2>1. /\ copy[d].version \in Versions /\ remote.version \in Versions
        /\ copy[d].content \in SUBSET Edits /\ remote.content \in SUBSET Edits
    BY DEF IInv, TypeOK, Copies
  <2>2. \A x \in Devices \ {d} : copy'[d].version[x] <= copy[x].version[x]
    <3> TAKE x \in Devices \ {d}
    <3>1. copy'[d].version = Merged(copy[d].version, remote.version)
      BY <1>3, ReceiveJoins
    <3>2. Merged(copy[d].version, remote.version)[x] \in {copy[d].version[x], remote.version[x]}
      BY DEF Merged
    <3> QED
      BY <3>1, <3>2 DEF IInv, TypeOK, AllCopies
  <2>3. met' \in [Devices -> SUBSET Versions]
    BY <1>3, <2>1, ReceiveJoins DEF IInv, TypeOK
  <2>4. told' \in SUBSET Edits
    BY <1>3, <2>1 DEF Receive, TakeRemote, ResolveConflict, IInv, TypeOK
  <2> QED
    BY <1>3, <2>2, <2>3, <2>4, ReceiveJoins, ForwardKeepsIInv
<1>4. CASE UNCHANGED vars
  BY <1>4 DEF vars, IInv, TypeOK, HistoryIsCounted, AllCopies
<1> QED
  BY <1>1, <1>2, <1>3, <1>4 DEF Next

\* The variables keep their types and no copy counts more of a device's edits than the device.
THEOREM SyncTypeCorrect == Spec => []TypeOK
<1>1. IInv => TypeOK
  BY DEF IInv
<1> QED
  BY <1>1, InitIInv, NextIInv, PTL DEF Spec

\* Comparing versions tells whether copies descend from one another or were edited independently.
THEOREM SyncVersionsTellHistory == Spec => []VersionTellsHistory
<1>1. IInv => VersionTellsHistory
  <2> SUFFICES ASSUME IInv, NEW a \in AllCopies, NEW b \in AllCopies
               PROVE  LET older == b.history \subseteq a.history
                          newer == a.history \subseteq b.history
                      IN  /\ Compare(a.version, b.version) = "equal"    <=> older /\ newer
                          /\ Compare(a.version, b.version) = "descends" <=> older /\ ~newer
                          /\ Compare(a.version, b.version) = "precedes" <=> ~older /\ newer
                          /\ Compare(a.version, b.version) = "diverged" <=> ~older /\ ~newer
    BY DEF VersionTellsHistory
  <2>1. a.version \in Versions /\ b.version \in Versions
    BY DEF IInv, TypeOK, AllCopies, Copies
  <2>2. a.history = Counted(a.version) /\ b.history = Counted(b.version)
    BY DEF IInv, HistoryIsCounted
  <2>3. a.history \subseteq b.history <=> ~Ahead(a.version, b.version)
    BY <2>1, <2>2, CountedSubset
  <2>4. b.history \subseteq a.history <=> ~Ahead(b.version, a.version)
    BY <2>1, <2>2, CountedSubset
  <2> QED
    BY <2>3, <2>4 DEF Compare
<1> QED
  BY <1>1, InitIInv, NextIInv, PTL DEF Spec

\* No step takes history back from a device's copy.
THEOREM SyncHistoryGrows == Spec => HistoryGrows
<1>1. IInv /\ [Next]_vars => [\A d \in Devices : copy[d].history \subseteq copy'[d].history]_vars
  <2> SUFFICES ASSUME IInv, Next, NEW x \in Devices
               PROVE  copy[x].history \subseteq copy'[x].history
    OBVIOUS
  <2>1. ASSUME NEW d \in Devices, Edit(d) PROVE copy[x].history \subseteq copy'[x].history
    <3>1. copy' = [copy EXCEPT ![d] = copy'[d]] /\ copy[d].history \subseteq copy'[d].history
      BY <2>1, EditCounts
    <3> QED
      BY <3>1 DEF IInv, TypeOK
  <2>2. ASSUME NEW d \in Devices, Send(d) PROVE copy[x].history \subseteq copy'[x].history
    BY <2>2 DEF Send
  <2>3. ASSUME NEW d \in Devices, NEW remote \in sent, Receive(d, remote)
        PROVE  copy[x].history \subseteq copy'[x].history
    <3>1. copy' = [copy EXCEPT ![d] = copy'[d]] /\ copy[d].history \subseteq copy'[d].history
      BY <2>3, ReceiveJoins
    <3> QED
      BY <3>1 DEF IInv, TypeOK
  <2> QED
    BY <2>1, <2>2, <2>3 DEF Next
<1> QED
  BY <1>1, InitIInv, NextIInv, PTL DEF Spec, HistoryGrows
-----------------------------------------------------------------------------
\* Being ahead of nothing a version is ahead of nothing of is transitive.
LEMMA AheadTransitive ==
  ASSUME NEW u \in Versions, NEW v \in Versions, NEW w \in Versions, ~Ahead(u, v), ~Ahead(v, w)
  PROVE  ~Ahead(u, w)
BY DEF Ahead, Versions

\* What a device met stays behind its copy.
MetBehind == \A d \in Devices : \A v \in met[d] : ~Ahead(v, copy[d].version)

LEMMA NextMetBehind == IInv /\ MetBehind /\ [Next]_vars => MetBehind'
<1> SUFFICES ASSUME IInv, MetBehind, [Next]_vars, NEW x \in Devices, NEW v \in met'[x]
             PROVE  ~Ahead(v, copy'[x].version)
  BY DEF MetBehind
<1>0. copy[x].version \in Versions /\ met[x] \in SUBSET Versions
  BY DEF IInv, TypeOK, Copies
<1>1. ASSUME NEW d \in Devices, Edit(d) PROVE ~Ahead(v, copy'[x].version)
  <2>1. v \in met[x] /\ ~Ahead(v, copy[x].version)
    BY <1>1 DEF Edit, MetBehind
  <2>2. copy'[d].version \in Versions /\ ~Ahead(copy[d].version, copy'[d].version)
    BY <1>1, EditCounts DEF Copies
  <2>3. CASE x = d
    BY <1>0, <2>1, <2>2, <2>3, AheadTransitive
  <2>4. CASE x # d
    BY <1>1, <2>1, <2>4, EditCounts DEF IInv, TypeOK
  <2> QED
    BY <2>3, <2>4
<1>2. ASSUME NEW d \in Devices, Send(d) PROVE ~Ahead(v, copy'[x].version)
  BY <1>2 DEF Send, MetBehind
<1>3. ASSUME NEW d \in Devices, NEW remote \in sent, Receive(d, remote)
      PROVE  ~Ahead(v, copy'[x].version)
  <2>1. /\ copy' = [copy EXCEPT ![d] = copy'[d]] /\ copy'[d].version \in Versions
        /\ ~Ahead(copy[d].version, copy'[d].version) /\ ~Ahead(remote.version, copy'[d].version)
        /\ met' = [met EXCEPT ![d] = @ \union {remote.version}]
    BY <1>3, ReceiveJoins DEF Copies
  <2>2. CASE x # d
    <3>1. copy'[x] = copy[x] /\ v \in met[x]
      BY <2>1, <2>2 DEF IInv, TypeOK
    <3> QED
      BY <3>1 DEF MetBehind
  <2>3. CASE x = d /\ v = remote.version
    BY <2>1, <2>3
  <2>4. CASE x = d /\ v \in met[x]
    <3>1. ~Ahead(v, copy[x].version) /\ v \in Versions
      BY <1>0, <2>4 DEF MetBehind
    <3> QED
      BY <1>0, <2>1, <2>4, <3>1, AheadTransitive
  <2>5. v \in met[d] \/ v = remote.version \/ x # d
    BY <2>1 DEF IInv, TypeOK
  <2> QED
    BY <2>2, <2>3, <2>4, <2>5
<1>4. CASE UNCHANGED vars
  BY <1>4 DEF vars, MetBehind
<1> QED
  BY <1>1, <1>2, <1>3, <1>4 DEF Next

\* A conflict once resolved is never seen again.
THEOREM SyncNotRediscovered == Spec => []NotRediscovered
<1>1. Init => MetBehind
  BY DEF Init, MetBehind
<1>2. MetBehind => NotRediscovered
  BY DEF MetBehind, NotRediscovered, Compare
<1> QED
  BY <1>1, <1>2, InitIInv, NextIInv, NextMetBehind, PTL DEF Spec
-----------------------------------------------------------------------------
LEMMA NextLossIsReported == IInv /\ LossIsReported /\ [Next]_vars => LossIsReported'
<1> SUFFICES ASSUME IInv, LossIsReported, [Next]_vars PROVE LossIsReported'
  OBVIOUS
<1>0. \A c \in AllCopies : c.history \ c.content \subseteq told
  BY DEF LossIsReported
<1>1. ASSUME NEW d \in Devices, Edit(d) PROVE LossIsReported'
  <2>1. \A c \in AllCopies' : c \in AllCopies \/ c = copy'[d]
    BY <1>1, EditCounts DEF AllCopies, IInv, TypeOK
  <2>2. copy[d] \in AllCopies
    BY DEF AllCopies
  <2> QED
    BY <1>0, <1>1, <2>1, <2>2, EditCounts DEF LossIsReported
<1>2. ASSUME NEW d \in Devices, Send(d) PROVE LossIsReported'
  BY <1>2 DEF Send, LossIsReported, AllCopies
<1>3. ASSUME NEW d \in Devices, NEW remote \in sent, Receive(d, remote) PROVE LossIsReported'
  <2>1. \A c \in AllCopies' : c \in AllCopies \/ c = copy'[d]
    BY <1>3, ReceiveJoins DEF AllCopies, IInv, TypeOK
  <2>2. copy[d] \in AllCopies /\ remote \in AllCopies
    BY DEF AllCopies
  <2>3. told \subseteq told' /\ copy'[d].history \ copy'[d].content \subseteq told'
    <3>1. CASE TakeRemote(d, remote)
      BY <1>0, <2>2, <3>1 DEF TakeRemote, IInv, TypeOK
    <3>2. CASE ResolveConflict(d, remote)
      <4> DEFINE kept == Kept(policy[d], copy[d], remote)
      <4>1. policy[d] \in {"keep_both", "prefer_local", "prefer_remote"}
        BY <3>2 DEF ResolveConflict, IInv, TypeOK, Policies
      <4>2. copy'[d].history = copy[d].history \union remote.history /\ copy'[d].content = kept
        BY <3>2 DEF ResolveConflict, IInv, TypeOK
      <4>3. \/ kept = copy[d].content \union remote.content /\ told' = told
            \/ told' = told \union ((copy[d].content \union remote.content) \ kept)
        BY <3>2, <4>1 DEF ResolveConflict, Kept, CanLoseData
      <4> QED
        BY <1>0, <2>2, <4>2, <4>3
    <3> QED
      BY <1>3, <3>1, <3>2 DEF Receive
  <2>4. (\A x \in Devices : ~CanLoseData(policy[x])) => told' = told
    BY <1>3 DEF Receive, TakeRemote, ResolveConflict
  <2>5. policy' = policy
    BY <1>3, ReceiveJoins
  <2> QED
    BY <1>0, <2>1, <2>3, <2>4, <2>5 DEF LossIsReported
<1>4. CASE UNCHANGED vars
  BY <1>4 DEF vars, LossIsReported, AllCopies
<1> QED
  BY <1>1, <1>2, <1>3, <1>4 DEF Next

\* No edit is lost unreported, and none at all without a destructive policy.
THEOREM SyncLossIsReported == Spec => []LossIsReported
<1>1. Init => LossIsReported
  BY DEF Init, LossIsReported, AllCopies, Blank
<1> QED
  BY <1>1, InitIInv, NextIInv, NextLossIsReported, PTL DEF Spec
=============================================================================
