------------------------------- MODULE Importer -------------------------------
(***************************************************************************)
(* The importer on a watched folder. A pull reads the account's cursor,    *)
(* walks the folder, reads the files that are newer than it, stores them,  *)
(* and writes the newest time it saw as the next cursor: the one memory of *)
(* what was read. A walk sees one file at a time, and no more than the     *)
(* first MAX_FILES. The timer and a person pull at the same time, folders  *)
(* are connected and disconnected under them, and files change and move.   *)
(*                                                                         *)
(* A file's content is the time of its last edit; no two edits have one    *)
(* time. A file moved into the folder keeps the time it had.               *)
(***************************************************************************)
EXTENDS Integers, FiniteSets

CONSTANTS
  Files,     \* of the kinds and sizes that are read
  Folders,
  FolderOf,  \* the folder of each file
  Deep,      \* files deeper in theirs than MAX_DEPTH
  MaxFiles,  \* MAX_FILES: how many a walk finds at most
  Pulls,     \* pulls at a time
  None,
  MaxNow,    \* bound: edits
  MaxFaults  \* bound: items not stored, files and folders not read, pulls that fail, and crashes

ImporterAssumption ==
  /\ FolderOf \in [Files -> Folders] /\ None \notin Folders
  /\ Deep \subseteq Files /\ MaxFiles \in Nat \ {0}
  /\ MaxNow \in Nat /\ MaxFaults \in Nat

VARIABLES
  now,    \* the time of the newest edit
  at,     \* when the file was last modified; 0 where it is not in its folder
  stored, \* the edit whose text the file's document has; 0 where there is none
  target, \* the folder connected, in the account's row
  registered, \* the folder that pulls read, in the registry
  cursor, \* the account's; 0 for none
  pull,   \* how far each pull is, and what it holds
  lost,   \* ghost: files that something told apart below has made the cursor pass over
  overlooked, \* ghost: and those a walk passed over because it was full, or changed behind it
  faults

account == <<target, registered, cursor>>
disk    == <<now, at>>
ghosts  == <<lost, overlooked>>
vars    == <<disk, stored, account, pull, ghosts, faults>>

Times == 0..MaxNow
Fresh(s, d) == [step |-> s, root |-> d, since |-> 0, newest |-> 0,
                left |-> {}, seen |-> {}, todo |-> {}, batch |-> {}]
Away == Fresh("away", None)

TypeOK ==
  /\ now \in Times /\ at \in [Files -> 0..now] /\ stored \in [Files -> 0..now]
  /\ {target, registered} \subseteq Folders \union {None} /\ cursor \in 0..now
  /\ pull \in [Pulls -> [step : {"away", "begun", "asking", "walking", "reading", "storing"},
                         root : Folders \union {None}, since : 0..now, newest : 0..now,
                         left : SUBSET Files, seen : SUBSET Files, todo : SUBSET Files,
                         batch : SUBSET [file : Files, body : 0..now]]]
  /\ \A p \in Pulls : pull[p].since <= pull[p].newest
  /\ lost \subseteq Files /\ overlooked \subseteq Files /\ faults \in 0..MaxFaults

Init ==
  /\ now = 0
  /\ at = [f \in Files |-> 0] /\ stored = [f \in Files |-> 0]
  /\ target = None /\ registered = None /\ cursor = 0
  /\ pull = [p \in Pulls |-> Away]
  /\ lost = {} /\ overlooked = {} /\ faults = 0

Fault == faults < MaxFaults /\ faults' = faults + 1

In(d) == {f \in Files : FolderOf[f] = d /\ at[f] > 0}

\* Files of d that a scan from c would skip, and whose text is not what is stored.
Missed(d, c) == {f \in In(d) : at[f] <= c /\ stored[f] # at[f]}

\* A walk of f's folder is under way that will not come to f, and has not found it new.
Behind(f) ==
  \E p \in Pulls : /\ pull[p].step = "walking" /\ pull[p].root = FolderOf[f]
                   /\ f \notin pull[p].left \union pull[p].todo
-----------------------------------------------------------------------------
(* The folder. *)

\* A file is written, or edited.
Edit(f) ==
  /\ now < MaxNow
  /\ now' = now + 1
  /\ at' = [at EXCEPT ![f] = now + 1]
  /\ lost' = lost \ {f}
  /\ overlooked' = IF Behind(f) THEN overlooked \union {f} ELSE overlooked \ {f}
  /\ UNCHANGED <<stored, account, pull, faults>>

\* One is moved in, with the time it had. It may be older than what a walk asks for.
MoveIn(f) ==
  /\ at[f] = 0
  /\ \E t \in 1..now :
       /\ at' = [at EXCEPT ![f] = t]
       /\ lost' = IF t # stored[f] /\ (t <= cursor \/ \E p \in Pulls : t <= pull[p].newest)
                  THEN lost \union {f} ELSE lost
  /\ overlooked' = IF Behind(f) THEN overlooked \union {f} ELSE overlooked
  /\ UNCHANGED <<now, stored, account, pull, faults>>

\* One is moved out, or deleted. Its document stays.
MoveOut(f) ==
  /\ at[f] > 0
  /\ at' = [at EXCEPT ![f] = 0]
  /\ lost' = lost \ {f} /\ overlooked' = overlooked \ {f}
  /\ UNCHANGED <<now, stored, account, pull, faults>>
-----------------------------------------------------------------------------
(* The account. *)

\* connect_connector, under one taking of the lock; what it leaves when it fails half way is module
\* Accounts's. The row is replaced and its cursor is not, so another folder goes on from the time
\* this one was at.
Connect(d) ==
  /\ target' = d /\ registered' = d
  /\ lost' = IF d = target THEN lost ELSE lost \union Missed(d, cursor)
  /\ UNCHANGED <<disk, stored, cursor, pull, overlooked, faults>>

\* disconnect_connector: the row goes, and its cursor with it.
Disconnect ==
  /\ target # None
  /\ target' = None /\ registered' = None /\ cursor' = 0
  /\ UNCHANGED <<disk, stored, pull, ghosts, faults>>

\* Another account is connected or disconnected, and the registry rebuilt with this one in it.
CatchUp ==
  /\ registered # target
  /\ registered' = target
  /\ UNCHANGED <<disk, stored, target, cursor, pull, ghosts, faults>>
-----------------------------------------------------------------------------
(* A pull. *)

\* pull_once: the registry of this moment, on a worker with a connection of its own.
Begin(p) ==
  /\ pull[p].step = "away" /\ registered # None
  /\ pull' = [pull EXCEPT ![p] = Fresh("begun", registered)]
  /\ UNCHANGED <<disk, stored, account, ghosts, faults>>

\* pull_one: the cursor of this moment, which may be another folder's by now.
ReadCursor(p) ==
  /\ pull[p].step = "begun"
  /\ pull' = [pull EXCEPT ![p] = [@ EXCEPT !.step = "asking", !.since = cursor, !.newest = cursor]]
  /\ lost' = IF pull[p].root = target THEN lost ELSE lost \union Missed(pull[p].root, cursor)
  /\ UNCHANGED <<disk, stored, account, overlooked, faults>>

\* Documents::pull begins to walk: these are the files there are. One that comes in while it walks
\* may be found as well.
Scan(p) ==
  /\ pull[p].step = "asking"
  /\ pull' = [pull EXCEPT ![p].step = "walking", ![p].left = In(pull[p].root)]
  /\ UNCHANGED <<disk, stored, account, ghosts, faults>>

\* A walk stops at MAX_FILES, old ones included.
Full(p) == Cardinality(pull[p].seen) >= MaxFiles

\* scan comes to a file, and pull to what is newer than the cursor among those it found.
Look(p) ==
  /\ pull[p].step = "walking" /\ ~ Full(p)
  /\ \E f \in In(pull[p].root) \ (pull[p].seen \union Deep) :
       LET q == pull[p]
       IN pull' = [pull EXCEPT ![p] =
            [q EXCEPT !.left = q.left \ {f}, !.seen = q.seen \union {f},
                      !.todo = IF at[f] > q.since THEN q.todo \union {f} ELSE q.todo,
                      !.newest = IF at[f] > q.newest THEN at[f] ELSE q.newest]]
  /\ UNCHANGED <<disk, stored, account, ghosts, faults>>

\* A folder in it cannot be listed, or a file not be asked for its time: skipped without a word.
CannotLook(p) ==
  /\ pull[p].step = "walking"
  /\ Fault
  /\ \E some \in SUBSET pull[p].left :
       /\ pull' = [pull EXCEPT ![p].left = @ \ some]
       /\ lost' = lost \union some
  /\ UNCHANGED <<disk, stored, account, overlooked>>

\* The walk is over. What it has not come to is gone, too deep, or one too many: and of those the
\* ones that the newest time found has passed are not come back to.
Scanned(p) ==
  /\ pull[p].step = "walking"
  /\ Full(p) \/ pull[p].left \intersect In(pull[p].root) \subseteq Deep
  /\ pull' = [pull EXCEPT ![p] = [@ EXCEPT !.step = "reading", !.left = {}, !.seen = {}]]
  /\ overlooked' = overlooked \union (pull[p].left \intersect Missed(pull[p].root, pull[p].newest))
  /\ UNCHANGED <<disk, stored, account, lost, faults>>

\* read_document, one after another. What cannot be read is skipped, and its time counts.
Read(p) ==
  /\ pull[p].step = "reading"
  /\ \E f \in pull[p].todo :
       LET read == IF at[f] = 0 THEN {} ELSE {[file |-> f, body |-> at[f]]}
       IN pull' = [pull EXCEPT ![p] = [@ EXCEPT !.todo = pull[p].todo \ {f}, !.batch = pull[p].batch \union read]]
  /\ UNCHANGED <<disk, stored, account, ghosts, faults>>

CannotRead(p) ==
  /\ pull[p].step = "reading"
  /\ Fault
  /\ \E f \in pull[p].todo :
       /\ pull' = [pull EXCEPT ![p].todo = @ \ {f}]
       /\ lost' = lost \union {f}
  /\ UNCHANGED <<disk, stored, account, overlooked>>

\* The cursor is written before what it stands for is stored.
BatchReadyCursorFirst(p) ==
  /\ pull[p].step = "reading" /\ pull[p].todo = {}
  /\ cursor' = IF target = None THEN cursor ELSE pull[p].newest
  /\ pull' = [pull EXCEPT ![p].step = "storing"]
  /\ UNCHANGED <<disk, stored, target, registered, ghosts, faults>>

BatchReady(p) ==
  /\ pull[p].step = "reading" /\ pull[p].todo = {}
  /\ pull' = [pull EXCEPT ![p].step = "storing"]
  /\ UNCHANGED <<disk, stored, account, ghosts, faults>>

\* persist: what is stored is replaced, older or newer. A text that a slow pull writes over what the
\* file says now stays, for the cursor may have passed it.
Persist(p) ==
  /\ pull[p].step = "storing"
  /\ \E i \in pull[p].batch :
       /\ pull' = [pull EXCEPT ![p].batch = @ \ {i}]
       /\ stored' = [stored EXCEPT ![i.file] = i.body]
       /\ IF i.body = at[i.file]
          THEN lost' = lost \ {i.file} /\ overlooked' = overlooked \ {i.file}
          ELSE /\ lost' = IF stored[i.file] = at[i.file] THEN lost \union {i.file} ELSE lost
               /\ UNCHANGED overlooked
  /\ UNCHANGED <<disk, account, faults>>

\* An item that cannot be stored is skipped, whatever the reason.
CannotPersist(p) ==
  /\ pull[p].step = "storing"
  /\ Fault
  /\ \E i \in pull[p].batch :
       /\ pull' = [pull EXCEPT ![p].batch = @ \ {i}]
       /\ lost' = lost \union {i.file}
  /\ UNCHANGED <<disk, stored, account, overlooked>>

\* set_cursor, last. It addresses the row by the connector alone, whatever folder it has by now.
SetCursor(p) ==
  /\ pull[p].step = "storing" /\ pull[p].batch = {}
  /\ IF target = None
     THEN UNCHANGED <<cursor, lost>>
     ELSE /\ cursor' = pull[p].newest
          /\ lost' = IF pull[p].root = target THEN lost ELSE lost \union Missed(target, pull[p].newest)
  /\ pull' = [pull EXCEPT ![p] = Away]
  /\ UNCHANGED <<disk, stored, target, registered, overlooked, faults>>

\* The folder is gone, or a statement fails: the cursor stays.
FailPull(p) ==
  /\ pull[p].step # "away"
  /\ Fault
  /\ pull' = [pull EXCEPT ![p] = Away]
  /\ UNCHANGED <<disk, stored, account, ghosts>>

\* The process ends under its pulls and starts again, with a registry of nothing.
Crash ==
  /\ Fault
  /\ pull' = [p \in Pulls |-> Away]
  /\ registered' = None
  /\ UNCHANGED <<disk, stored, target, cursor, ghosts>>

Next ==
  \/ \E f \in Files : Edit(f) \/ MoveIn(f) \/ MoveOut(f)
  \/ \E d \in Folders : Connect(d)
  \/ \E p \in Pulls : \/ Begin(p) \/ ReadCursor(p) \/ Scan(p) \/ Look(p) \/ CannotLook(p)
                      \/ Scanned(p) \/ Read(p) \/ CannotRead(p)
                      \/ BatchReady(p) \/ Persist(p) \/ CannotPersist(p) \/ SetCursor(p) \/ FailPull(p)
  \/ Disconnect \/ CatchUp \/ Crash

Spec == Init /\ [][Next]_vars
-----------------------------------------------------------------------------
(* Properties. *)

\* A file that the cursor has passed is stored as it is now, through pulls that overlap, fail and
\* die: but for one that could not be listed, read or stored, one moved in with an old time, one that
\* two pulls wrote in the wrong order, a cursor used for another folder than its own, one that a
\* walk had no room for or that changed behind it, and one too deep to be come to at all.
NothingIsPassedOver ==
  target # None => Missed(target, cursor) \subseteq lost \union overlooked \union Deep
=============================================================================
