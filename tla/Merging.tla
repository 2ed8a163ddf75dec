------------------------------- MODULE Merging -------------------------------
(***************************************************************************)
(* Folding one workspace into another (storage/src/merge.rs), by the       *)
(* engine's endpoint or the command line, and the edits people make in     *)
(* both before, between and after merges.                                  *)
(*                                                                         *)
(* Ids are UUIDs: a row is made in one workspace and reaches another only  *)
(* by a merge.  Rows that nothing tells apart from a meeting (segments,    *)
(* notes, tickets) are taken with it.                                      *)
(***************************************************************************)
EXTENDS Naturals, FiniteSets

CONSTANTS
  Workspaces,  \* the one in use, and one left elsewhere
  People,      \* ids of people
  Addresses,   \* mail addresses as they are typed
  Fold(_),     \* an address without its case
  Meetings,    \* ids of meetings
  Templates,   \* ids of summary templates users wrote
  NoMail,      \* a person without an address
  Absent       \* no row of that id

MergingAssumption == NoMail \notin Addresses /\ Absent \notin Addresses \cup {NoMail}

VARIABLES
  mail,       \* the people of each workspace, by their addresses
  meetings,   \* its meetings
  attends,    \* its meeting_participants rows
  mentions,   \* its edges from meetings to people
  templates,  \* its templates
  summaries,  \* its summaries, with the template that made them
  made,       \* ghost: the ids that were given
  merged,     \* ghost: the last merge, into and from, while nothing has changed since
  matched     \* ghost: people a merge took for another by their address

store == <<mail, meetings, attends, mentions, templates, summaries>>
vars == <<store, made, merged, matched>>

Ids == People \cup Meetings \cup Templates
Here(w, p) == mail[w][p] # Absent

TypeOK ==
  /\ mail \in [Workspaces -> [People -> Addresses \cup {NoMail, Absent}]]
  /\ meetings \in [Workspaces -> SUBSET Meetings]
  /\ attends \in [Workspaces -> SUBSET (Meetings \X People)]
  /\ mentions \in [Workspaces -> SUBSET (Meetings \X People)]
  /\ templates \in [Workspaces -> SUBSET Templates]
  /\ summaries \in [Workspaces -> SUBSET (Meetings \X Templates)]
  /\ made \subseteq Ids
  /\ merged \subseteq Workspaces \X Workspaces
  /\ matched \subseteq People

Init ==
  /\ mail = [w \in Workspaces |-> [p \in People |-> Absent]]
  /\ meetings = [w \in Workspaces |-> {}]
  /\ attends = [w \in Workspaces |-> {}]
  /\ mentions = [w \in Workspaces |-> {}]
  /\ templates = [w \in Workspaces |-> {}]
  /\ summaries = [w \in Workspaces |-> {}]
  /\ made = {} /\ merged = {} /\ matched = {}

-----------------------------------------------------------------------------
(* What people do in a workspace *)

Make(id) == id \notin made /\ made' = made \cup {id}
Edited   == merged' = {} /\ UNCHANGED matched

\* PersonRepository::create: an address already on file is refused, whatever its case.
Free(w, a) == a = NoMail \/ \A p \in People : mail[w][p] \in Addresses => Fold(mail[w][p]) # Fold(a)

CreatePerson(w, p, a) ==
  /\ Make(p)
  /\ Free(w, a)
  /\ mail' = [mail EXCEPT ![w][p] = a]
  /\ Edited
  /\ UNCHANGED <<meetings, attends, mentions, templates, summaries>>

\* Participation cascades, and the edges are detached.
DeletePerson(w, p) ==
  /\ Here(w, p)
  /\ mail' = [mail EXCEPT ![w][p] = Absent]
  /\ attends' = [attends EXCEPT ![w] = {a \in @ : a[2] # p}]
  /\ mentions' = [mentions EXCEPT ![w] = {e \in @ : e[2] # p}]
  /\ Edited
  /\ UNCHANGED <<meetings, templates, summaries, made>>

CreateMeeting(w, m) ==
  /\ Make(m)
  /\ meetings' = [meetings EXCEPT ![w] = @ \cup {m}]
  /\ Edited
  /\ UNCHANGED <<mail, attends, mentions, templates, summaries>>

\* The row and the edge, under one lock.
AddParticipant(w, m, p) ==
  /\ m \in meetings[w] /\ Here(w, p)
  /\ attends' = [attends EXCEPT ![w] = @ \cup {<<m, p>>}]
  /\ mentions' = [mentions EXCEPT ![w] = @ \cup {<<m, p>>}]
  /\ Edited
  /\ UNCHANGED <<mail, meetings, templates, summaries, made>>

CreateTemplate(w, t) ==
  /\ Make(t)
  /\ templates' = [templates EXCEPT ![w] = @ \cup {t}]
  /\ Edited
  /\ UNCHANGED <<mail, meetings, attends, mentions, summaries>>

\* A summary under a template of the user's; those under a built-in refer to what every workspace has.
Summarize(w, m, t) ==
  /\ m \in meetings[w] /\ t \in templates[w]
  /\ summaries' = [summaries EXCEPT ![w] = @ \cup {<<m, t>>}]
  /\ Edited
  /\ UNCHANGED <<mail, meetings, attends, mentions, templates, made>>

\* Refused once a summary was made under it.
DeleteTemplate(w, t) ==
  /\ t \in templates[w]
  /\ \A s \in summaries[w] : s[2] # t
  /\ templates' = [templates EXCEPT ![w] = @ \ {t}]
  /\ Edited
  /\ UNCHANGED <<mail, meetings, attends, mentions, summaries, made>>

-----------------------------------------------------------------------------
(* A merge of v into w: one transaction *)

\* merge_people: the same address, byte for byte, under another id.
Matches(w, v, i, p) == i # p /\ mail[v][i] \in Addresses /\ mail[w][p] = mail[v][i]
Matched(w, v) == {i \in People : \E p \in People : Matches(w, v, i, p)}

\* person_remap
Kept(w, v, i) == IF i \in Matched(w, v) THEN CHOOSE p \in People : Matches(w, v, i, p) ELSE i

\* INSERT OR IGNORE: a row that is here stays as it is.
MergedPeople(w, v) ==
  [p \in People |-> IF ~Here(w, p) /\ p \notin Matched(w, v) THEN mail[v][p] ELSE mail[w][p]]

\* A row that names a discarded person is ignored.
MergedAttendsOfNew(w, v) == attends[w] \cup {a \in attends[v] : a[2] \notin Matched(w, v)}

\* Participants are remapped; edges are not.
MergedAttends(w, v)  == attends[w] \cup {<<a[1], Kept(w, v, a[2])>> : a \in attends[v]}
MergedMentions(w, v) == mentions[w] \cup mentions[v]

\* Templates stay behind, and a summary must find the one it refers to: IGNORE does not cover that.
Accepted(w, v) == \A s \in summaries[v] \ summaries[w] : s[2] \in templates[w]

\* merge_from with MergeMode::Apply.  A preview is the same transaction rolled back, and so is a
\* merge that is not accepted: neither leaves anything.
Merge(w, v) ==
  /\ w # v
  /\ Accepted(w, v)
  /\ mail' = [mail EXCEPT ![w] = MergedPeople(w, v)]
  /\ meetings' = [meetings EXCEPT ![w] = @ \cup meetings[v]]
  /\ attends' = [attends EXCEPT ![w] = MergedAttends(w, v)]
  /\ mentions' = [mentions EXCEPT ![w] = MergedMentions(w, v)]
  /\ summaries' = [summaries EXCEPT ![w] = @ \cup summaries[v]]
  /\ matched' = matched \cup Matched(w, v)
  /\ merged' = {<<w, v>>}
  /\ UNCHANGED <<templates, made>>

Next ==
  \E w \in Workspaces :
    \/ \E p \in People : DeletePerson(w, p) \/ \E a \in Addresses \cup {NoMail} : CreatePerson(w, p, a)
    \/ \E m \in Meetings : CreateMeeting(w, m) \/ \E p \in People : AddParticipant(w, m, p)
    \/ \E t \in Templates : CreateTemplate(w, t) \/ DeleteTemplate(w, t) \/ \E m \in Meetings : Summarize(w, m, t)
    \/ \E v \in Workspaces : Merge(w, v)

Spec == Init /\ [][Next]_vars

-----------------------------------------------------------------------------
(* Properties *)

\* Two ids stand for one person: one id, or one address.
Same(w, p, v, q) == p = q \/ (mail[w][p] \in Addresses /\ mail[w][p] = mail[v][q])

\* Once one workspace was folded into another, everyone who attended a meeting in the one is in
\* it in the other, until either is edited: the remapping loses nobody, however ids and addresses
\* met before (merge_people, insert_remapping_person).
AttendanceIsKept ==
  \A m \in merged : LET w == m[1] v == m[2] IN
    \A a \in attends[v] : \E b \in attends[w] : a[1] = b[1] /\ Same(w, b[2], v, a[2])

\* Who attended is someone the workspace has.  An edge may point at nobody, but only where a merge
\* took its person for another: merge_attached rewrites the participants and copies the edges as
\* they are (insert_all), though what points at the discarded row was to point at the kept one.
LooseEdgesWereMatched ==
  \A w \in Workspaces :
    /\ \A a \in attends[w] : Here(w, a[2])
    /\ \A e \in mentions[w] : Here(w, e[2]) \/ e[2] \in matched
=============================================================================
