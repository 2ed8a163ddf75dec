---------------------------- MODULE SyncVersions ----------------------------
(***************************************************************************)
(* Version vectors and conflict resolution: one record, a copy of it on    *)
(* every device, each device with a policy of its own.                     *)
(*                                                                         *)
(* There is no transport in the repository. A copy that was sent stays in  *)
(* the set sent for good, so that it may arrive late, twice, out of order  *)
(* or never, and what applies a resolution is what its documentation says. *)
(*                                                                         *)
(* A version is a count for each device. What the counts stand for, the    *)
(* edits behind a copy and those still to be read in it, is kept beside it *)
(* so that the two can be compared.                                        *)
(***************************************************************************)
EXTENDS Integers, FiniteSets

CONSTANTS
  Devices,
  MaxEdits   \* bound: how many edits are made in all

ASSUME SyncAssumption == MaxEdits \in Nat

VARIABLES
  policy,  \* the ConflictPolicy of each device's engine
  copy,    \* each device's copy of the record
  sent,    \* copies ever sent
  met,     \* versions each device has merged or taken
  told     \* edits some device discarded and reported

vars == <<policy, copy, sent, met, told>>

Policies == {"keep_both", "prefer_local", "prefer_remote", "ask_user"}

\* The nth edit of a device.
Edits == Devices \X (Nat \ {0})

\* A device absent from the map counts as 0.
Versions == [Devices -> Nat]

\* history and content are of the model: the edits a copy descends from, and those it still shows.
Copies == [version : Versions, history : SUBSET Edits, content : SUBSET Edits]

AllCopies == sent \union {copy[d] : d \in Devices}

\* Types, and nobody counts more edits of a device than it made.
TypeOK ==
  /\ policy \in [Devices -> Policies]
  /\ copy \in [Devices -> Copies]
  /\ sent \in SUBSET Copies
  /\ met \in [Devices -> SUBSET Versions]
  /\ told \in SUBSET Edits
  /\ \A c \in AllCopies : \A d \in Devices : c.version[d] <= copy[d].version[d]

Blank == [version |-> [d \in Devices |-> 0], history |-> {}, content |-> {}]

Init ==
  /\ policy \in [Devices -> Policies]
  /\ copy = [d \in Devices |-> Blank]
  /\ sent = {}
  /\ met = [d \in Devices |-> {}]
  /\ told = {}
-----------------------------------------------------------------------------
(* Versions. *)

Ahead(v, w) == \E d \in Devices : v[d] > w[d]

\* A comparison that looks only at the devices of its own map.
CompareOwn(v, w) ==
  LET mine   == \E d \in Devices : v[d] > 0 /\ v[d] > w[d]
      theirs == \E d \in Devices : v[d] > 0 /\ w[d] > v[d]
  IN  IF mine THEN IF theirs THEN "diverged" ELSE "descends"
              ELSE IF theirs THEN "precedes" ELSE "equal"

Compare(v, w) ==
  IF Ahead(v, w) THEN IF Ahead(w, v) THEN "diverged" ELSE "descends"
                 ELSE IF Ahead(w, v) THEN "precedes" ELSE "equal"

\* A merge that keeps the local counts of devices both sides know.
MergedLocal(v, w) == [d \in Devices |-> IF v[d] > 0 THEN v[d] ELSE w[d]]

Merged(v, w) == [d \in Devices |-> IF v[d] >= w[d] THEN v[d] ELSE w[d]]

Increment(v, d) == [v EXCEPT ![d] = @ + 1]
-----------------------------------------------------------------------------
(* Devices. *)

CanLoseData(p) == p \in {"prefer_local", "prefer_remote"}

\* SyncEngine::edit, and the edit itself.
Edit(d) ==
  /\ Cardinality(UNION {copy[e].history : e \in Devices}) < MaxEdits
  /\ LET edit == <<d, copy[d].version[d] + 1>> IN
       copy' = [copy EXCEPT ![d] = [version |-> Increment(@.version, d),
                                    history |-> @.history \union {edit},
                                    content |-> @.content \union {edit}]]
  /\ UNCHANGED <<policy, sent, met, told>>

\* A copy leaves the device.
Send(d) ==
  /\ sent' = sent \union {copy[d]}
  /\ UNCHANGED <<policy, copy, met, told>>

\* The content a policy leaves of two sides that diverged, when keeping both only keeps one.
KeptOne(p, local, remote) ==
  IF p = "prefer_remote" THEN remote.content ELSE local.content

\* The content a policy leaves of two sides that diverged.
Kept(p, local, remote) ==
  (IF p = "prefer_remote" THEN {} ELSE local.content)
    \union (IF p = "prefer_local" THEN {} ELSE remote.content)

\* The remote descends from the local copy: take it.
TakeRemote(d, remote) ==
  /\ Compare(copy[d].version, remote.version) = "precedes"
  /\ copy' = [copy EXCEPT ![d] = remote]
  /\ met' = [met EXCEPT ![d] = @ \union {remote.version}]
  /\ UNCHANGED <<policy, sent, told>>

\* A conflict the policy resolves. discarded_an_edit is what puts the lost edits in told.
ResolveConflict(d, remote) ==
  LET p == policy[d]
      kept == Kept(p, copy[d], remote)
  IN  /\ Compare(copy[d].version, remote.version) = "diverged"
      /\ p # "ask_user"
      /\ copy' = [copy EXCEPT ![d] =
                    [version |-> Merged(@.version, remote.version),
                     history |-> @.history \union remote.history,
                     content |-> kept]]
      /\ told' = IF CanLoseData(p)
                 THEN told \union ((copy[d].content \union remote.content) \ kept) ELSE told
      /\ met' = [met EXCEPT ![d] = @ \union {remote.version}]
      /\ UNCHANGED <<policy, sent>>

\* resolve, on a copy that arrives. Unchanged, KeepLocal and NeedsUser write nothing.
Receive(d, remote) == TakeRemote(d, remote) \/ ResolveConflict(d, remote)

Next ==
  \/ \E d \in Devices : Edit(d) \/ Send(d)
  \/ \E d \in Devices, remote \in sent : Receive(d, remote)

Spec == Init /\ [][Next]_vars
-----------------------------------------------------------------------------
(* Properties. *)

\* Comparing versions answers whether one copy descends from the other or both were edited
\* independently, whatever was merged, delayed or repeated on the way.
VersionTellsHistory ==
  \A a, b \in AllCopies :
    LET older == b.history \subseteq a.history
        newer == a.history \subseteq b.history
    IN  /\ Compare(a.version, b.version) = "equal"    <=> older /\ newer
        /\ Compare(a.version, b.version) = "descends" <=> older /\ ~newer
        /\ Compare(a.version, b.version) = "precedes" <=> ~older /\ newer
        /\ Compare(a.version, b.version) = "diverged" <=> ~older /\ ~newer

\* A conflict once resolved is not rediscovered: the device's copy descends from what it met.
NotRediscovered ==
  \A d \in Devices : \A v \in met[d] : Compare(copy[d].version, v) \in {"equal", "descends"}

\* No edit is silently discarded: one a copy descends from and no longer shows was reported, and
\* with no destructive policy about there is none.
LossIsReported ==
  /\ \A c \in AllCopies : c.history \ c.content \subseteq told
  /\ (\A d \in Devices : ~CanLoseData(policy[d])) => told = {}

\* A device's copy only gains history: a stale or repeated copy never takes it back.
HistoryGrows ==
  [][\A d \in Devices : copy[d].history \subseteq copy'[d].history]_vars
=============================================================================
