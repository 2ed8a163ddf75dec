------------------------------ MODULE Downloads ------------------------------
(***************************************************************************)
(* One artifact's download: the manager that starts a transfer and joins   *)
(* later presses to it, and the files a transfer goes through. What is     *)
(* fetched is appended to a partial file, which a broken transfer leaves   *)
(* for the next one to resume, and which is renamed when it is whole. The  *)
(* artifact is trusted for its length alone.                               *)
(*                                                                         *)
(* A file is an inode with the bytes in it; a path names one or none.      *)
(* Transfers of other processes share the files and not the manager.       *)
(***************************************************************************)
EXTENDS Integers, Sequences, FiniteSets

CONSTANTS
  Tasks,      \* transfers the manager may start
  Strangers,  \* transfers of another process
  Inodes,     \* bound: the files that are ever created
  None,
  Size,       \* bytes of the artifact
  MaxFaults   \* bound: transfers that stall or break, removals, and crashes

Fetchers == Tasks \union Strangers

DownloadsAssumption ==
  /\ Tasks \intersect Strangers = {}
  /\ None \notin Inodes \union Fetchers
  /\ Size \in Nat \ {0} /\ MaxFaults \in Nat

VARIABLES
  entry,   \* the manager's entry: the task whose channel it is, or None
  state,   \* what that channel says: "downloading", "done" or "failed"
  final,   \* the inode the artifact's path names, or None
  partial, \* the inode the partial file's path names, or None
  bytes,   \* what each inode holds; byte i of the artifact is i, and 0 is a hole
  used,    \* inodes that were created
  fetch,   \* how far each transfer is
  clashed, \* ghost: two processes had transfers under way at once
  faults

manager == <<entry, state>>
paths   == <<final, partial>>
disk    == <<paths, bytes, used>>
vars    == <<manager, disk, fetch, clashed, faults>>

Steps == {"away", "looking", "asking", "writing", "silent", "checking", "over"}

TypeOK ==
  /\ entry \in Tasks \union {None}
  /\ state \in {"downloading", "done", "failed"}
  /\ final \in used \union {None} /\ partial \in used \union {None}
  /\ final = None \/ final # partial
  /\ bytes \in [Inodes -> Seq(0..Size)]
  /\ used \subseteq Inodes
  /\ fetch \in [Fetchers -> [step : Steps, resume : 0..Size, fd : Inodes \union {None},
                             append : BOOLEAN, at : 0..Size, next : 1..(Size + 1)]]
  /\ clashed \in BOOLEAN /\ faults \in 0..MaxFaults

Away == [step |-> "away", resume |-> 0, fd |-> None, append |-> FALSE, at |-> 0, next |-> 1]
Over == [Away EXCEPT !.step = "over"]

Init ==
  /\ entry = None /\ state = "done"
  /\ final = None /\ partial = None
  /\ bytes = [i \in Inodes |-> <<>>] /\ used = {}
  /\ fetch = [f \in Fetchers |-> Away]
  /\ clashed = FALSE /\ faults = 0

Fault == faults < MaxFaults /\ faults' = faults + 1

\* has_artifact: there, and as long as it should be.
Trusted == final # None /\ Len(bytes[final]) = Size

Busy(g) == fetch[g].step \in {"asking", "writing", "checking"}

\* A write at a place, past the end of a file that was cut off meanwhile included.
Put(s, at, b) ==
  [i \in 1..(IF at > Len(s) THEN at ELSE Len(s)) |->
     IF i = at THEN b ELSE IF i <= Len(s) THEN s[i] ELSE 0]

\* The task is over: what it tells its channel is what the manager shows, if it is the entry's.
Tell(f, outcome) ==
  /\ fetch' = [fetch EXCEPT ![f] = Over]
  /\ state' = IF entry = f THEN outcome ELSE state
  /\ UNCHANGED entry
-----------------------------------------------------------------------------
(* The manager. *)

\* A press that does not ask what is under way.
PressAgain(t) ==
  /\ fetch[t].step = "away" /\ ~Trusted
  /\ entry' = t /\ state' = "downloading"
  /\ fetch' = [fetch EXCEPT ![t].step = "looking"]
  /\ UNCHANGED <<disk, clashed, faults>>

\* download_model and start_artifact: an installed model is not fetched, and a transfer whose
\* state is not terminal is joined. The entry of one that is over is replaced.
Press(t) ==
  /\ fetch[t].step = "away" /\ ~Trusted
  /\ entry # None => state # "downloading"
  /\ entry' = t /\ state' = "downloading"
  /\ fetch' = [fetch EXCEPT ![t].step = "looking"]
  /\ UNCHANGED <<disk, clashed, faults>>

\* The command line fetches the model itself.
FetchElsewhere(f) ==
  /\ f \in Strangers /\ fetch[f].step = "away" /\ ~Trusted
  /\ fetch' = [fetch EXCEPT ![f].step = "looking"]
  /\ UNCHANGED <<manager, disk, clashed, faults>>
-----------------------------------------------------------------------------
(* ModelStore::fetch. *)

\* It may have been fetched meanwhile. A partial file that is empty or too long is removed, and one
\* with something to resume is kept.
Look(f) ==
  /\ fetch[f].step = "looking"
  /\ IF Trusted
     THEN Tell(f, "done") /\ UNCHANGED <<partial, clashed>>
     ELSE LET n == IF partial = None THEN 0 ELSE Len(bytes[partial])
              kept == 0 < n /\ n < Size
          IN /\ partial' = IF kept THEN partial ELSE None
             /\ fetch' = [fetch EXCEPT ![f] = [@ EXCEPT !.step = "asking", !.resume = IF kept THEN n ELSE 0]]
             /\ clashed' = (clashed \/ \E g \in Fetchers : Busy(g) /\ {f, g} \intersect Strangers # {})
             /\ UNCHANGED manager
  /\ UNCHANGED <<final, bytes, used, faults>>

\* The partial file is opened when the answer has come: to append where the server honours the
\* range, and from its start, cut off, where it does not or none was asked for.
OpenPartial(f, honoured) ==
  /\ fetch[f].step = "asking"
  /\ honoured => fetch[f].resume > 0
  /\ \E i \in Inodes :
       /\ IF partial = None THEN i \notin used ELSE i = partial
       /\ partial' = i
       /\ used' = used \union {i}
       /\ bytes' = IF honoured THEN bytes ELSE [bytes EXCEPT ![i] = <<>>]
       /\ fetch' = [fetch EXCEPT ![f] = [step |-> "writing", resume |-> 0, fd |-> i, append |-> honoured, at |-> 0,
                                         next |-> IF honoured THEN fetch[f].resume + 1 ELSE 1]]
  /\ UNCHANGED <<manager, final, clashed, faults>>

\* A chunk of the body.
WriteChunk(f) ==
  LET t == fetch[f] IN
  /\ t.step = "writing" /\ t.next <= Size
  /\ bytes' = [bytes EXCEPT ![t.fd] = IF t.append THEN Append(@, t.next) ELSE Put(@, t.at + 1, t.next)]
  /\ fetch' = [fetch EXCEPT ![f] = [t EXCEPT !.next = t.next + 1, !.at = IF t.append THEN 0 ELSE t.at + 1]]
  /\ UNCHANGED <<manager, paths, used, clashed, faults>>

\* The end of the body: whatever the path of the partial file names now becomes the artifact.
Rename(f) ==
  /\ fetch[f].step = "writing" /\ fetch[f].next = Size + 1
  /\ IF partial = None
     THEN Tell(f, "failed") /\ UNCHANGED paths
     ELSE /\ final' = partial /\ partial' = None
          /\ fetch' = [fetch EXCEPT ![f].step = "checking"]
          /\ UNCHANGED manager
  /\ UNCHANGED <<bytes, used, clashed, faults>>

\* verify_artifact, after the rename: one of the wrong length is removed.
Verify(f) ==
  /\ fetch[f].step = "checking"
  /\ IF Trusted THEN Tell(f, "done") /\ UNCHANGED final
                ELSE Tell(f, "failed") /\ final' = None
  /\ UNCHANGED <<partial, bytes, used, clashed, faults>>

\* The connection goes silent: no answer and no further chunk comes, and the client sets no timeout
\* after which it would give up.
Stall(f) ==
  /\ fetch[f].step \in {"asking", "writing"}
  /\ Fault
  /\ fetch' = [fetch EXCEPT ![f] = [Away EXCEPT !.step = "silent"]]
  /\ UNCHANGED <<manager, disk, clashed>>

\* A state that is only sent to those who listen, and nobody does.
BreakUnheard(f) ==
  /\ fetch[f].step \in {"asking", "writing", "silent"}
  /\ Fault
  /\ fetch' = [fetch EXCEPT ![f] = Over]
  /\ UNCHANGED <<manager, disk, clashed>>

\* A connection that is refused or breaks off, a silent one too: the partial file stays.
Break(f) ==
  /\ fetch[f].step \in {"asking", "writing", "silent"}
  /\ Fault
  /\ Tell(f, "failed")
  /\ UNCHANGED <<disk, clashed>>

-----------------------------------------------------------------------------
\* remove_artifact, by a person.
Remove ==
  /\ final # None
  /\ Fault
  /\ final' = None
  /\ UNCHANGED <<manager, partial, bytes, used, fetch, clashed>>

\* The engine dies, and its transfers with it. The files stay.
Crash ==
  /\ Fault
  /\ entry' = None /\ state' = "done"
  /\ fetch' = [f \in Fetchers |-> IF f \in Tasks /\ fetch[f].step # "away"
                                  THEN Over ELSE fetch[f]]
  /\ UNCHANGED <<disk, clashed>>

Step(f) ==
  \/ Look(f) \/ WriteChunk(f) \/ Rename(f) \/ Verify(f)
  \/ \E honoured \in BOOLEAN : OpenPartial(f, honoured)

Next ==
  \/ \E t \in Tasks : Press(t)
  \/ \E f \in Fetchers : FetchElsewhere(f) \/ Step(f) \/ Stall(f) \/ Break(f)
  \/ Remove \/ Crash

Spec == Init /\ [][Next]_vars

\* A transfer whose connection is neither silent nor broken goes on until it is over. A silent one is
\* promised nothing, not even that it breaks.
FairSpec == Spec /\ \A f \in Fetchers : WF_vars(Step(f))
-----------------------------------------------------------------------------
(* Properties. *)

\* What is taken for the artifact, for its length, is the artifact: through transfers that break,
\* resume, and are asked for again, unless two processes fetched it at once.
TrustedIsWhole == Trusted => bytes[final] = [i \in 1..Size |-> i] \/ clashed

\* Who watches a transfer is told its end, or would wait for ever and bar the next press: as happens
\* where the entry's connection has gone silent, and nowhere else.
WatcherIsTold ==
  state = "downloading" ~> state # "downloading" \/ (entry # None /\ fetch[entry].step = "silent")
=============================================================================
