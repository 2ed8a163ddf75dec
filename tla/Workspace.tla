------------------------------ MODULE Workspace ------------------------------
(***************************************************************************)
(* The rows of the workspace and the graph of edges between them. A row    *)
(* goes with what it owns by foreign key; an edge has no foreign key, so   *)
(* every handler keeps the edges in step by statements of its own.         *)
(*                                                                         *)
(* A handler is the sequence of statements it makes. The engine's run one  *)
(* handler at a time, under the lock of its connection; the MCP server is  *)
(* another process with a connection of its own, and its statements fall   *)
(* between the engine's. No transaction spans a handler: an error or the   *)
(* end of the process leaves the statements it had left unmade.            *)
(***************************************************************************)
EXTENDS Naturals, Sequences, FiniteSets, SequencesExt

CONSTANTS
  Meetings, Summaries, Items, Tickets, Notes, People,  \* the ids there may be
  None,
  MaxFaults  \* bound: handlers cut short

Owned == Summaries \union Items
Nodes == Meetings \union Owned \union Tickets \union Notes \union People

\* An id is of one kind.
WorkspaceAssumption ==
  /\ Meetings \intersect (Owned \union Tickets \union Notes \union People) = {}
  /\ Owned \intersect (Tickets \union Notes \union People) = {}
  /\ Summaries \intersect Items = {}
  /\ Tickets \intersect (Notes \union People) = {} /\ Notes \intersect People = {}
  /\ None \notin Nodes /\ MaxFaults \in Nat

VARIABLES
  rows,     \* ids that have a row
  of,       \* the meeting a summary or an action item was written for
  trashed,  \* meetings and notes in the trash
  edges,    \* the edges table; what an edge says follows from what it joins
  attends,  \* the meeting_participants table
  work,     \* the statements each process has left to make in its handler
  hand,     \* the rows that handler is about
  awaiting, \* handlers of the engine that wait, without the lock, and what they will write
  used,     \* ids that were given
  linked,   \* ghost: every link that was made
  muddled,  \* ghost: rows that two handlers were about at once, or one that was cut short
  faults

store == <<rows, of, trashed, edges, attends>>
vars  == <<store, work, hand, awaiting, used, linked, muddled, faults>>

Processes == {"engine", "mcp"}
Nothing   == [for |-> "nothing", about |-> None, writes |-> {}]

OwnedBy(m)  == {x \in Owned \intersect rows : of[x] = m}
Touching(x) == {e \in edges : x \in {e[1], e[2]}}

\* Statements.
Statement(do, x, y) == [do |-> do, x |-> x, y |-> y]
Require(x)    == Statement("require", x, None)   \* get, which fails where there is no row
Insert(x)     == Statement("insert", x, None)
Connect(x, y) == Statement("connect", x, y)
Detach(x)     == Statement("detach", x, None)
Delete(x)     == Statement("delete", x, None)
Attend(m, p)  == Statement("attend", m, p)
Unpromoted(i) == Statement("unpromoted", i, None)
Purge(m)      == Statement("purge", m, None)
EmptyNotes    == Statement("empty notes", None, None)

\* One statement for each of them, in some order.
Each(S, do) == LET each == SetToSeq(S) IN [k \in 1..Cardinality(S) |-> Statement(do, each[k], None)]

TypeOK ==
  /\ rows \subseteq Nodes /\ used \subseteq Nodes /\ muddled \subseteq Nodes
  /\ of \in [Owned -> Meetings \union {None}]
  /\ trashed \subseteq rows \intersect (Meetings \union Notes)
  /\ edges \subseteq linked /\ linked \subseteq Nodes \X Nodes
  /\ attends \subseteq (Meetings \intersect rows) \X (People \intersect rows)
  /\ hand \in [Processes -> SUBSET Nodes]
  /\ \A p \in Processes : hand[p] = {} <=> work[p] = <<>>
  /\ awaiting.for \in {"nothing", "summary", "copy"} /\ awaiting.writes \subseteq used
  /\ faults \in 0..MaxFaults

Init ==
  /\ rows = {} /\ trashed = {} /\ edges = {} /\ attends = {}
  /\ of = [x \in Owned |-> None]
  /\ work = [p \in Processes |-> <<>>] /\ hand = [p \in Processes |-> {}]
  /\ awaiting = Nothing
  /\ used = {} /\ linked = {} /\ muddled = {} /\ faults = 0
-----------------------------------------------------------------------------
(* Handlers. *)

\* What a handler that waits without the lock has looked up, and will not look up again.
Looked == IF awaiting.for = "copy" THEN {awaiting.about} ELSE {}

\* A handler begins: the engine's takes the lock. What another has in hand is muddled.
Begin(p, about, statements) ==
  /\ work[p] = <<>>
  /\ work' = [work EXCEPT ![p] = statements]
  /\ hand' = [hand EXCEPT ![p] = about]
  /\ muddled' = muddled \union (about \intersect (Looked \union UNION {hand[q] : q \in Processes \ {p}}))

Alone(p, about, statements) == Begin(p, about, statements) /\ UNCHANGED <<store, awaiting, used, linked, faults>>

\* The same, with a row of a new id.
Making(p, x, about, statements) ==
  /\ x \notin used /\ used' = used \union {x}
  /\ Begin(p, {x} \union about, statements)
  /\ UNCHANGED <<rows, trashed, edges, attends, awaiting, linked, faults>>

CreateMeeting(m) == Making("engine", m, {}, <<Insert(m)>>) /\ UNCHANGED of
CreatePerson(x)  == Making("engine", x, {}, <<Insert(x)>>) /\ UNCHANGED of

\* Of either process. The MCP server's notes are not against a meeting.
CreateNote(n) ==
  /\ UNCHANGED of
  /\ \/ \E p \in Processes : Making(p, n, {}, <<Insert(n)>>)
     \/ \E m \in Meetings : Making("engine", n, {m}, <<Require(m), Insert(n), Connect(n, m)>>)

CreateTicket(p, t, m) ==
  Making(p, t, {m}, <<Require(m), Insert(t), Connect(t, m)>>) /\ UNCHANGED of

\* The engine asks for the meeting first, and the MCP server leaves it to the foreign key.
CreateActionItem(p, i, m) ==
  /\ of' = [of EXCEPT ![i] = m]
  /\ Making(p, i, {m}, IF p = "engine" THEN <<Require(m), Insert(i)>> ELSE <<Insert(i)>>)

\* Promote again what is promoted.
PromoteAgain(p, i, t) ==
  /\ i \in used
  /\ Making(p, t, {i, of[i]}, <<Require(i), Insert(t), Connect(i, t), Connect(t, of[i])>>)
  /\ UNCHANGED of

\* One handler's code in the engine and in the MCP server.
Promote(p, i, t) ==
  /\ i \in used
  /\ Making(p, t, {i, of[i]},
       <<Require(i), Unpromoted(i), Insert(t), Connect(i, t), Connect(t, of[i])>>)
  /\ UNCHANGED of

\* A person is known, or new.
AddParticipant(m, x) ==
  /\ UNCHANGED of
  /\ \/ x \in used /\ Alone("engine", {m, x}, <<Require(m), Require(x), Attend(m, x), Connect(m, x)>>)
     \/ Making("engine", x, {m}, <<Require(m), Insert(x), Attend(m, x), Connect(m, x)>>)

DeleteTicket(t)     == t \in used /\ Alone("engine", {t}, <<Delete(t), Detach(t)>>)
DeleteActionItem(i) == i \in used /\ Alone("engine", {i}, <<Delete(i), Detach(i)>>)
DeletePerson(x)     == x \in used /\ Alone("engine", {x}, <<Delete(x), Detach(x)>>)
PurgeNote(n)        == n \in used /\ Alone("engine", {n}, <<Require(n), Detach(n), Delete(n)>>)

\* The edges of what goes with the meeting are left.
PurgeMeetingAlone(m) ==
  m \in used /\ Alone("engine", {m} \union OwnedBy(m), <<Require(m), Detach(m), Delete(m)>>)

PurgeMeeting(m) ==
  /\ m \in used
  /\ Alone("engine", {m} \union OwnedBy(m), <<Require(m), Purge(m)>>)

\* Every meeting and note in the trash, which only the engine fills.
EmptyTrash ==
  LET notes    == trashed \intersect Notes
      meetings == trashed \intersect Meetings
  IN  /\ trashed # {}
      /\ Alone("engine", trashed \union UNION {OwnedBy(m) : m \in meetings},
           Each(notes, "detach") \o Each(meetings, "purge") \o <<EmptyNotes>>)

\* One statement each; a row that is gone is not found.
Trash(x) ==
  /\ work["engine"] = <<>> /\ x \in rows /\ x \notin trashed
  /\ trashed' = trashed \union {x}
  /\ UNCHANGED <<rows, of, edges, attends, work, hand, awaiting, used, linked, muddled, faults>>

Restore(x) ==
  /\ work["engine"] = <<>> /\ x \in trashed
  /\ trashed' = trashed \ {x}
  /\ UNCHANGED <<rows, of, edges, attends, work, hand, awaiting, used, linked, muddled, faults>>
-----------------------------------------------------------------------------
(* Handlers that wait in the middle, with the lock let go. *)

\* summarize_meeting reads a meeting, and asks a model three times.
AskForSummary(m, s, i) ==
  /\ awaiting = Nothing /\ work["engine"] = <<>>
  /\ m \in rows /\ {s, i} \intersect used = {}
  /\ used' = used \union {s, i}
  /\ of' = [of EXCEPT ![s] = m, ![i] = m]
  /\ awaiting' = [for |-> "summary", about |-> m, writes |-> {s, i}]
  /\ UNCHANGED <<rows, trashed, edges, attends, work, hand, linked, muddled, faults>>

StoreSummary(s, i) ==
  /\ awaiting.for = "summary" /\ awaiting.writes = {s, i}
  /\ Begin("engine", {s, i, awaiting.about}, <<Insert(s), Insert(i), Connect(s, awaiting.about)>>)
  /\ awaiting' = Nothing
  /\ UNCHANGED <<store, used, linked, faults>>

\* resolve of a divergence reads the meeting of a file, and then the file.
ReadForCopy(m, n) ==
  /\ awaiting = Nothing /\ work["engine"] = <<>>
  /\ m \in rows /\ n \notin used
  /\ used' = used \union {n}
  /\ awaiting' = [for |-> "copy", about |-> m, writes |-> {n}]
  /\ UNCHANGED <<store, work, hand, linked, muddled, faults>>

CopyToNote(n) ==
  /\ awaiting.for = "copy" /\ awaiting.writes = {n}
  /\ Begin("engine", {n, awaiting.about}, <<Insert(n), Connect(n, awaiting.about)>>)
  /\ awaiting' = Nothing
  /\ UNCHANGED <<store, used, linked, faults>>

\* The model fails, the file is not read, or the client goes away.
GiveUp ==
  /\ awaiting # Nothing
  /\ awaiting' = Nothing
  /\ UNCHANGED <<store, work, hand, used, linked, muddled, faults>>
-----------------------------------------------------------------------------
(* Statements, each atomic. *)

\* The handler goes on with the statements that are left, and ends with the last.
GoOn(p, left) ==
  /\ work' = [work EXCEPT ![p] = left]
  /\ hand' = [hand EXCEPT ![p] = IF left = <<>> THEN {} ELSE @]
  /\ UNCHANGED <<awaiting, used, muddled, faults>>

Doing(p, do) == work[p] # <<>> /\ Head(work[p]).do = do

\* The tickets an action item became, as related finds them by its edges.
TicketsOf(i) == {t \in Tickets : <<i, t>> \in edges}

\* The row is not there, the owner of a new one is gone, or there is nothing left to do: the
\* handler returns. Nothing is undone.
Return(p) ==
  /\ \/ \E do \in {"require", "delete"} : Doing(p, do) /\ Head(work[p]).x \notin rows
     \/ Doing(p, "insert") /\ Head(work[p]).x \in Owned /\ of[Head(work[p]).x] \notin rows
     \/ Doing(p, "attend") /\ ~({Head(work[p]).x, Head(work[p]).y} \subseteq rows)
     \/ Doing(p, "unpromoted") /\ TicketsOf(Head(work[p]).x) # {}
  /\ GoOn(p, <<>>) /\ UNCHANGED <<store, linked>>

Check(p) ==
  /\ \/ Doing(p, "require") /\ Head(work[p]).x \in rows
     \/ Doing(p, "unpromoted") /\ TicketsOf(Head(work[p]).x) = {}
  /\ GoOn(p, Tail(work[p])) /\ UNCHANGED <<store, linked>>

InsertRow(p) ==
  LET x == Head(work[p]).x IN
  /\ Doing(p, "insert") /\ (x \in Owned => of[x] \in rows)
  /\ rows' = rows \union {x}
  /\ GoOn(p, Tail(work[p])) /\ UNCHANGED <<of, trashed, edges, attends, linked>>

\* EdgeRepository::create: the edge that is there is left, and its ends need not be.
InsertEdge(p) ==
  LET s == Head(work[p]) IN
  /\ Doing(p, "connect")
  /\ edges' = edges \union {<<s.x, s.y>>} /\ linked' = linked \union {<<s.x, s.y>>}
  /\ GoOn(p, Tail(work[p])) /\ UNCHANGED <<rows, of, trashed, attends>>

\* EdgeRepository::delete_touching.
DeleteEdges(p) ==
  /\ Doing(p, "detach")
  /\ edges' = edges \ Touching(Head(work[p]).x)
  /\ GoOn(p, Tail(work[p])) /\ UNCHANGED <<rows, of, trashed, attends, linked>>

\* A meeting's summaries and action items are listed, each is to be detached, the meeting too, and
\* then deleted.
ListOwned(p) ==
  LET m == Head(work[p]).x IN
  /\ Doing(p, "purge")
  /\ GoOn(p, Each(OwnedBy(m), "detach") \o <<Detach(m), Delete(m)>> \o Tail(work[p]))
  /\ UNCHANGED <<store, linked>>

\* Rows are deleted, and those they own with them.
Gone(gone) ==
  /\ rows' = rows \ (gone \union UNION {OwnedBy(m) : m \in gone \intersect Meetings})
  /\ trashed' = trashed \ gone
  /\ attends' = {a \in attends : a[1] \notin gone /\ a[2] \notin gone}

DeleteRow(p) ==
  LET x == Head(work[p]).x IN
  /\ Doing(p, "delete") /\ x \in rows
  /\ Gone({x})
  /\ GoOn(p, Tail(work[p])) /\ UNCHANGED <<of, edges, linked>>

DeleteTrashedNotes(p) ==
  /\ Doing(p, "empty notes")
  /\ Gone(trashed \intersect Notes)
  /\ GoOn(p, Tail(work[p])) /\ UNCHANGED <<of, edges, linked>>

InsertParticipant(p) ==
  LET s == Head(work[p]) IN
  /\ Doing(p, "attend") /\ {s.x, s.y} \subseteq rows
  /\ attends' = attends \union {<<s.x, s.y>>}
  /\ GoOn(p, Tail(work[p])) /\ UNCHANGED <<rows, of, trashed, edges, linked>>

\* A statement fails, or the process dies, in the middle of a handler.
Cut(p) ==
  /\ work[p] # <<>> /\ faults < MaxFaults
  /\ work' = [work EXCEPT ![p] = <<>>] /\ hand' = [hand EXCEPT ![p] = {}]
  /\ muddled' = muddled \union hand[p]
  /\ awaiting' \in {awaiting} \union (IF p = "engine" THEN {Nothing} ELSE {})
  /\ faults' = faults + 1
  /\ UNCHANGED <<store, used, linked>>

Make(p) ==
  \/ Return(p) \/ Check(p) \/ InsertRow(p) \/ InsertEdge(p) \/ DeleteEdges(p) \/ ListOwned(p)
  \/ DeleteRow(p) \/ DeleteTrashedNotes(p) \/ InsertParticipant(p)

Next ==
  \/ \E m \in Meetings : CreateMeeting(m) \/ PurgeMeeting(m)
  \/ \E x \in People : CreatePerson(x) \/ DeletePerson(x) \/ \E m \in Meetings : AddParticipant(m, x)
  \/ \E n \in Notes : CreateNote(n) \/ PurgeNote(n) \/ CopyToNote(n) \/ \E m \in Meetings : ReadForCopy(m, n)
  \/ \E p \in Processes, t \in Tickets :
       (\E m \in Meetings : CreateTicket(p, t, m)) \/ (\E i \in Items : Promote(p, i, t))
  \/ \E p \in Processes, i \in Items, m \in Meetings : CreateActionItem(p, i, m)
  \/ \E t \in Tickets : DeleteTicket(t)
  \/ \E i \in Items : DeleteActionItem(i)
  \/ EmptyTrash
  \/ \E x \in Meetings \union Notes : Trash(x) \/ Restore(x)
  \/ \E s \in Summaries, i \in Items : StoreSummary(s, i) \/ \E m \in Meetings : AskForSummary(m, s, i)
  \/ GiveUp
  \/ \E p \in Processes : Make(p) \/ Cut(p)

Spec == Init /\ [][Next]_vars
-----------------------------------------------------------------------------
(* Properties. *)

\* A handler has the row in hand now, or it was muddled, or the meeting that owns it was.
Excused(x) ==
  LET about == {x} \union (IF x \in Owned THEN {of[x]} ELSE {}) IN
  about \intersect (muddled \union UNION {hand[p] : p \in Processes}) # {}

\* No edge leads to a row that is gone.
EdgesJoinRows == \A e \in edges : {e[1], e[2]} \subseteq rows \/ Excused(e[1]) \/ Excused(e[2])

\* What was linked stays linked as long as both are there, in the trash or out of it.
LinksAreKept ==
  \A e \in linked : {e[1], e[2]} \subseteq rows => e \in edges \/ Excused(e[1]) \/ Excused(e[2])

\* Who took part in a meeting is mentioned by it, and who is mentioned took part.
ParticipantsAreMentioned ==
  \A m \in Meetings, x \in People :
    (<<m, x>> \in attends) # (<<m, x>> \in edges) => Excused(m) \/ Excused(x)

\* The graph says of the rows what the handlers said, though no foreign key and no transaction
\* ties the two, and though rows go with a meeting, wait in its trash, or are written after a
\* model has answered: but where a handler was cut short, or two processes' handlers met.
LinksAreTrue == EdgesJoinRows /\ LinksAreKept /\ ParticipantsAreMentioned

\* An action item becomes one ticket, however often and by whichever process it is promoted.
PromotedOnce ==
  \A i \in Items : Cardinality({t \in Tickets \intersect rows : <<i, t>> \in linked}) <= 1 \/ Excused(i)
=============================================================================
