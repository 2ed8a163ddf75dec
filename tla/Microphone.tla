------------------------------ MODULE Microphone ------------------------------
(***************************************************************************)
(* Two parts that hold the microphone in a thread of their own, and share  *)
(* no state: recordings and dictation, beside each other in one            *)
(* specification. A behaviour is one of one part, chosen at the start, and *)
(* the other stays as it began. Of dictation it is one within bounds that  *)
(* its part names.                                                         *)
(***************************************************************************)
EXTENDS Recording

CONSTANTS
  Sessions, Acts, Copies, Rich, Nothing, MaxFailures,  \* dictation
  Scopes  \* bound: of what a part of dictation makes use

VARIABLES
  part,
  live, boxed, listener, stopping, late, step, clipboard, snap, flag, press,
  copied, mixed, warned, amiss, broken

recording == vars
dictation == <<live, boxed, listener, stopping, late, step, clipboard, snap, flag, press,
               copied, mixed, warned, amiss, broken>>
allVars   == <<part, recording, dictation>>

A == INSTANCE Dictation WITH None <- Nothing, MaxFaults <- MaxFailures, thread <- listener, faults <- broken

ASSUME Assumptions == A!DictationAssumption

OfDictation == part \in DOMAIN Scopes

\* Only what the scope has is dictated, replaced, copied and fails.
Within(scope) ==
  /\ \A s \in Sessions : listener[s] # "none" => s \in scope.sessions
  /\ \A x \in Acts : step[x] # "none" => x \in scope.acts
  /\ copied \in scope.copies \union {Nothing}
  /\ broken <= scope.faults

\* What the policy is at first is a question of recording's alone.
MicrophoneInit ==
  /\ part \in {"recording"} \union DOMAIN Scopes
  /\ Init /\ A!Init
  /\ part # "recording" => policy = "off"

RecordingStep(act) == part = "recording" /\ act /\ UNCHANGED <<part, dictation>>
DictationStep(act) == OfDictation /\ act /\ UNCHANGED <<part, recording>> /\ Within(Scopes[part])'

MicrophoneNext == RecordingStep(Next) \/ DictationStep(A!Next)

\* The fairness of Recording and of Dictation, each where its part is the one that runs.
MicrophoneSpec ==
  /\ MicrophoneInit /\ [][MicrophoneNext]_allVars
  /\ \A m \in M : WF_allVars(RecordingStep(ThreadStep(m)))
  /\ WF_allVars(RecordingStep(SweepHourly))
  /\ \A s \in Sweeps : WF_allVars(RecordingStep(SweepStep(s)))
  /\ WF_allVars(RecordingStep(PurgeRow)) /\ WF_allVars(RecordingStep(PurgeFile))
  /\ \A s \in Sessions : WF_allVars(DictationStep(A!Expire(s))) /\ WF_allVars(DictationStep(A!End(s)))

\* Placing words disturbs nothing else of the user's, and says so where it does (Dictation).
NothingElseIsTouched == OfDictation => A!NothingElseIsTouched

\* The hotkey's flag and the engine agree but for what else drove dictation (Dictation).
FlagIsRight == OfDictation => A!FlagIsRight

\* The thread of a dictation lets the microphone go, beside a replacement and beside another
\* dictation (Dictation).
MicrophoneIsReleased == A!MicrophoneIsReleased
=============================================================================
