------------------------------ MODULE Adoption ------------------------------
(***************************************************************************)
(* Where the workspace lives (storage/src/location.rs), and the launches   *)
(* of the desktop app and the command line that call it.                   *)
(*                                                                         *)
(* A workspace is two files: the database, and the log beside it (SQLite's *)
(* -wal) with the recent commits.  A workspace an earlier build left at a  *)
(* legacy place is moved to the canonical one file by file, by a rename    *)
(* or, where that fails, by a copy and a removal.  Nothing stops a crash   *)
(* in between, and nothing keeps two surfaces from launching at once.      *)
(***************************************************************************)
EXTENDS Naturals, FiniteSets

CONSTANTS
  Legacy,     \* places where earlier builds kept a workspace
  Canonical,  \* the place every surface opens
  Surfaces,   \* what can be launched: the desktop app, the command line
  None,       \* no file
  Torn,       \* a file whose copy is not finished
  MaxFaults   \* bound on crashes and failing file operations

Places  == Legacy \cup {Canonical}
Kinds   == {"database", "log"}
Commits == (Places \X {"old", "recent"}) \cup (Surfaces \X {"new"})

AdoptionAssumption ==
  /\ Canonical \notin Legacy
  /\ MaxFaults \in Nat
  /\ None # Torn /\ None \notin Legacy /\ \A c \in SUBSET Commits : c \notin {None, Torn}

VARIABLES
  file,        \* the files: a set of commits, Torn, or None
  pc,          \* where each surface is
  from,        \* the legacy place it adopts
  kind,        \* which file of it is in hand
  attached,    \* its connection is to the files that are at the place now
  told,        \* its launch warned of a workspace that is not being read
  committed,   \* every commit ever made
  parted,      \* ghost: a launch stopped between the two files
  overlapped,  \* ghost: two launches went on at once
  faults

vars == <<file, pc, from, kind, attached, told, committed, parted, overlapped, faults>>

Database == <<Canonical, "database">>
Log      == <<Canonical, "log">>

Content(f) == IF f \in {None, Torn} THEN {} ELSE f
Visible(p) == Content(file[<<p, "database">>]) \cup Content(file[<<p, "log">>])
OnDisk     == UNION {Visible(p) : p \in Places}

Moving == {"move", "copying", "copied"}
Busy(s) == pc[s] \in Moving \cup {"look", "open"}

TypeOK ==
  /\ file \in [Places \X Kinds -> (SUBSET Commits) \cup {None, Torn}]
  /\ pc \in [Surfaces -> Moving \cup {"down", "look", "open", "running", "refused"}]
  /\ from \in [Surfaces -> Legacy \cup {None}]
  /\ kind \in [Surfaces -> Kinds]
  /\ attached \in [Surfaces -> BOOLEAN] /\ told \in [Surfaces -> BOOLEAN]
  /\ committed \subseteq Commits
  /\ parted \in BOOLEAN /\ overlapped \in BOOLEAN
  /\ faults \in 0 .. MaxFaults

-----------------------------------------------------------------------------
(* The files *)

\* Any of the places may hold a workspace, and its last commits may be in its log.
Init ==
  /\ \E present \in SUBSET Places : \E logged \in SUBSET present :
       file = [f \in Places \X Kinds |->
                 CASE f[2] = "database" /\ f[1] \in present -> {<<f[1], "old">>}
                   [] f[2] = "log" /\ f[1] \in logged -> {<<f[1], "recent">>}
                   [] OTHER -> None]
  /\ pc = [s \in Surfaces |-> "down"]
  /\ from = [s \in Surfaces |-> None]
  /\ kind = [s \in Surfaces |-> "database"]
  /\ attached = [s \in Surfaces |-> FALSE]
  /\ told = [s \in Surfaces |-> FALSE]
  /\ committed = OnDisk
  /\ parted = FALSE /\ overlapped = FALSE
  /\ faults = 0

Source(s) == <<from[s], kind[s]>>
Target(s) == <<Canonical, kind[s]>>
Goto(s, there) == pc' = [pc EXCEPT ![s] = there]

\* A file put where one was: a connection that was open keeps the old one.
Detach(s) ==
  attached' = IF file[Target(s)] = None THEN attached ELSE [t \in Surfaces |-> FALSE]

\* The database alone is moved.
AfterFileNoLog(s) == Goto(s, "open") /\ UNCHANGED kind

\* The database goes first, then its log.
AfterFile(s) ==
  IF kind[s] = "database"
    THEN kind' = [kind EXCEPT ![s] = "log"] /\ Goto(s, "move")
    ELSE Goto(s, "open") /\ UNCHANGED kind

-----------------------------------------------------------------------------
(* A launch *)

Launch(s) ==
  /\ pc[s] = "down"
  /\ Goto(s, "look")
  /\ told' = [told EXCEPT ![s] = FALSE]
  /\ kind' = [kind EXCEPT ![s] = "database"]
  /\ from' = [from EXCEPT ![s] = None]
  /\ overlapped' = (overlapped \/ \E t \in Surfaces \ {s} : Busy(t))
  /\ UNCHANGED <<file, attached, committed, parted, faults>>

Existing == {l \in Legacy : file[<<l, "database">>] # None}

\* Whatever is at the canonical place.
AdoptableAnyway(l) == Existing = {l}

\* A lone legacy workspace is adopted when there is no canonical one.
Adoptable(l) == Existing = {l} /\ file[Database] = None

\* adopt_from: nothing to do, a split to warn of, or a workspace to move.
Look(s) ==
  /\ pc[s] = "look"
  /\ \/ /\ Existing = {}
        /\ Goto(s, "open") /\ UNCHANGED <<from, told>>
     \/ /\ Existing # {}
        /\ \A l \in Legacy : ~Adoptable(l)
        /\ told' = [told EXCEPT ![s] = TRUE]
        /\ Goto(s, "open") /\ UNCHANGED from
     \/ \E l \in Legacy :
          /\ Adoptable(l)
          /\ from' = [from EXCEPT ![s] = l]
          /\ Goto(s, "move") /\ UNCHANGED told
  /\ UNCHANGED <<file, kind, attached, committed, parted, overlapped, faults>>

\* There may be no log.  A database that is gone was moved by another launch: an error.
Absent(s) ==
  /\ pc[s] = "move"
  /\ file[Source(s)] = None
  /\ told' = [told EXCEPT ![s] = (@ \/ kind[s] = "database")]
  /\ Goto(s, "open")
  /\ UNCHANGED <<file, from, kind, attached, committed, parted, overlapped, faults>>

Rename(s) ==
  /\ pc[s] = "move"
  /\ file[Source(s)] # None
  /\ file' = [file EXCEPT ![Target(s)] = file[Source(s)], ![Source(s)] = None]
  /\ Detach(s)
  /\ AfterFile(s)
  /\ UNCHANGED <<from, told, committed, parted, overlapped, faults>>

\* The rename failed: another file system.
BeginCopy(s) ==
  /\ pc[s] = "move"
  /\ file[Source(s)] # None
  /\ faults < MaxFaults
  /\ faults' = faults + 1
  /\ file' = [file EXCEPT ![Target(s)] = Torn]
  /\ Detach(s)
  /\ Goto(s, "copying")
  /\ UNCHANGED <<from, kind, told, committed, parted, overlapped>>

FinishCopy(s) ==
  /\ pc[s] = "copying"
  /\ file[Source(s)] # None
  /\ file' = [file EXCEPT ![Target(s)] = file[Source(s)]]
  /\ Goto(s, "copied")
  /\ UNCHANGED <<from, kind, attached, told, committed, parted, overlapped, faults>>

RemoveSource(s) ==
  /\ pc[s] = "copied"
  /\ file[Source(s)] # None
  /\ file' = [file EXCEPT ![Source(s)] = None]
  /\ AfterFile(s)
  /\ UNCHANGED <<from, attached, told, committed, parted, overlapped, faults>>

\* An error is logged, and the canonical place is opened as it is.
MoveFails(s) ==
  /\ pc[s] \in Moving
  /\ \/ faults < MaxFaults /\ faults' = faults + 1
     \/ pc[s] # "move" /\ file[Source(s)] = None /\ UNCHANGED faults
  /\ told' = [told EXCEPT ![s] = TRUE]
  /\ parted' = (parted \/ kind[s] = "log")
  /\ Goto(s, "open")
  /\ UNCHANGED <<file, from, kind, attached, committed, overlapped>>

\* Database::open creates what is missing and refuses what is no database.
Open(s) ==
  /\ pc[s] = "open"
  /\ IF file[Database] = Torn
       THEN Goto(s, "refused") /\ UNCHANGED <<file, attached>>
       ELSE /\ file' = [file EXCEPT ![Database] = Content(@),
                                    ![Log] = Content(@)]
            /\ attached' = [attached EXCEPT ![s] = TRUE]
            /\ Goto(s, "running")
  /\ UNCHANGED <<from, kind, told, committed, parted, overlapped, faults>>

-----------------------------------------------------------------------------
(* A workspace in use *)

Commit(s) ==
  /\ pc[s] = "running"
  /\ <<s, "new">> \notin committed
  /\ committed' = committed \cup {<<s, "new">>}
  /\ file' = IF attached[s] THEN [file EXCEPT ![Log] = Content(@) \cup {<<s, "new">>}] ELSE file
  /\ UNCHANGED <<pc, from, kind, attached, told, parted, overlapped, faults>>

\* The last connection to close folds the log into the database.
Quit(s) ==
  /\ pc[s] \in {"running", "refused"}
  /\ file' = IF attached[s] /\ \A t \in Surfaces \ {s} : ~attached[t]
               THEN [file EXCEPT ![Database] = Visible(Canonical), ![Log] = None]
               ELSE file
  /\ attached' = [attached EXCEPT ![s] = FALSE]
  /\ Goto(s, "down")
  /\ UNCHANGED <<from, kind, told, committed, parted, overlapped, faults>>

Crash(s) ==
  /\ pc[s] # "down"
  /\ faults < MaxFaults
  /\ faults' = faults + 1
  /\ parted' = (parted \/ (pc[s] \in Moving /\ kind[s] = "log"))
  /\ attached' = [attached EXCEPT ![s] = FALSE]
  /\ Goto(s, "down")
  /\ UNCHANGED <<file, from, kind, told, committed, overlapped>>

Next ==
  \E s \in Surfaces :
    \/ Launch(s) \/ Look(s) \/ Absent(s) \/ Rename(s) \/ BeginCopy(s) \/ FinishCopy(s)
    \/ RemoveSource(s) \/ MoveFails(s) \/ Open(s) \/ Commit(s) \/ Quit(s) \/ Crash(s)

Spec == Init /\ [][Next]_vars

-----------------------------------------------------------------------------
(* Properties *)

\* A commit is in some file for good, whatever breaks while workspaces are moved, as long as no
\* two surfaces launch at once.  What is moved away is moved whole before its source goes, and a
\* workspace that is there is never written over (adopt_from, move_file).
NothingIsDestroyed == overlapped \/ committed \subseteq OnDisk

\* A surface that was not warned of another workspace sees every commit, unless a launch once
\* stopped between the database and its log: then the database is found in place, the log is
\* never looked for again, and nobody is told (adopt_from, move_workspace).
WhatIsMissingIsTold ==
  overlapped \/ parted \/
  \A s \in Surfaces : pc[s] = "running" /\ ~told[s] => committed \subseteq Visible(Canonical)
=============================================================================
