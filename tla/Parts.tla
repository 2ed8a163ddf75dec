--------------------------------- MODULE Parts ---------------------------------
(***************************************************************************)
(* Six parts that share no state, beside each other in one specification:  *)
(* a behaviour is one of one part, chosen at the start, and the others     *)
(* stay as they began.                                                     *)
(***************************************************************************)
EXTENDS Router, Integers, FiniteSets

CONSTANTS
  Subjects,  \* bound: the parts that are looked at
  Together,  \* bound: the files in play up to which pulls may overlap
  Meetings, Tabs, Posts, Happening, MaxAttempts, Grace, Window, Ttl, MaxOffers, MaxNow, MaxFaults, \* join detection
  Files, Folders, FolderOf, Deep, MaxFiles, Pulls, MaxEdits, MaxFailures,                     \* the importer
  Workspaces, People, Addresses, Fold(_), Talks, Templates, NoMail, Absent,                   \* merging
  Frames, EndpointSilence, MaxUtterance, CutSearch, MinSpeech, Preroll, MaxSilence, MaxPushed, \* utterances
  Frame, Allowance, Delay, Stall, Lead, MaxElapsed                                            \* pacing

VARIABLES
  part,
  clock, tab, post, poll, pending, notified, offers, told, losses,
  now, at, stored, target, registered, cursor, pull, passed, overlooked, failed,
  mail, meetings, attends, mentions, templates, summaries, made, merged, matched,
  buffer, chunks, offset, speech, silence, pushed, cut, dropped, ended,
  elapsed, flight, waiting, emitted, out, behind, stopped

router     == vars
join       == <<clock, tab, post, poll, pending, notified, offers, told, losses>>
importer   == <<now, at, stored, target, registered, cursor, pull, passed, overlooked, failed>>
merging    == <<mail, meetings, attends, mentions, templates, summaries, made, merged, matched>>
utterances == <<buffer, chunks, offset, speech, silence, pushed, cut, dropped, ended>>
pacing     == <<elapsed, flight, waiting, emitted, out, behind, stopped>>

J == INSTANCE JoinDetection
I == INSTANCE Importer WITH MaxNow <- MaxEdits, MaxFaults <- MaxFailures, lost <- passed, faults <- failed
M == INSTANCE Merging WITH Meetings <- Talks
U == INSTANCE Utterances WITH out <- cut, lost <- dropped
P == INSTANCE Pacing WITH MaxNow <- MaxElapsed, pending <- waiting

\* The files there is anything to be said of.
InPlay ==
  LET held(q) == q.left \union q.seen \union q.todo \union {i.file : i \in q.batch}
  IN passed \union overlooked \union UNION {held(pull[p]) : p \in Pulls}
       \union {f \in Files : at[f] + stored[f] > 0}

\* Pulls overlap where no more than Together files are in play, and a pull is alone where more are.
Uncrowded ==
  \/ Cardinality(InPlay) <= Together
  \/ Cardinality({p \in Pulls : pull[p].step # "away"}) <= 1

ASSUME Assumptions ==
  /\ J!JoinAssumption /\ I!ImporterAssumption /\ M!MergingAssumption
  /\ U!UtterancesAssumption /\ P!PacingAssumption

\* A source may open after its clock began, where pacing is what is looked at.
PartsInit ==
  /\ part \in Subjects
  /\ Init /\ J!Init /\ I!Init /\ M!Init /\ U!Init /\ P!Init
  /\ part # "pacing" => elapsed = 0

PartsNext ==
  \/ part = "router" /\ Next /\ UNCHANGED <<part, join, importer, merging, utterances, pacing>>
  \/ part = "join" /\ J!Next /\ UNCHANGED <<part, router, importer, merging, utterances, pacing>>
  \/ part = "importer" /\ I!Next /\ UNCHANGED <<part, router, join, merging, utterances, pacing>> /\ Uncrowded'
  \/ part = "merging" /\ M!Next /\ UNCHANGED <<part, router, join, importer, utterances, pacing>>
  \/ part = "utterances" /\ U!Next /\ UNCHANGED <<part, router, join, importer, merging, pacing>>
  \/ part = "pacing" /\ P!Next /\ UNCHANGED <<part, router, join, importer, merging, utterances>>

partsVars == <<part, router, join, importer, merging, utterances, pacing>>

PartsSpec == PartsInit /\ [][PartsNext]_partsVars

\* The types of the six parts.
PartsTypeOK ==
  /\ part = "router" => TypeOK
  /\ part = "join" => J!TypeOK
  /\ part = "importer" => I!TypeOK
  /\ part = "merging" => M!TypeOK
  /\ part = "utterances" => U!TypeOK
  /\ part = "pacing" => P!TypeOK

\* One meeting is told once in a window by each source (JoinDetection).
ToldOnce == part = "join" => J!ToldOnce

\* A file the cursor has passed is stored as it is, or is one of those Importer names.
NothingIsPassedOver == part = "importer" => I!NothingIsPassedOver

\* A merge loses nobody who attended, and an edge to nobody comes of a person a merge took for
\* another (Merging).
MergedIsKnown == part = "merging" => M!AttendanceIsKept /\ M!LooseEdgesWereMatched

\* The clock and the counts describe the audio that is held; what is decoded is speech, and what
\* is dropped is not (Utterances).
SpeechIsCounted == part = "utterances" => U!CountsAgree /\ U!SpeechDecides

\* System audio is stamped near the time it was heard (Pacing).
StampedNearItsTime == part = "pacing" => P!StampedNearItsTime
=============================================================================
