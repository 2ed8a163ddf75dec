------------------------------ MODULE Recording ------------------------------
(***************************************************************************)
(* Recording and importing meetings, and the audio that is kept of them.   *)
(*                                                                         *)
(* Four things that change at different times describe one recording: the  *)
(* engine's slot, the thread that captures, the meeting's row, and the     *)
(* audio file the row points at. People stop, end, trash and purge while   *)
(* the thread still flushes; a sweep deletes what the retention policy no  *)
(* longer covers; the process may die between any two steps.               *)
(*                                                                         *)
(* Frames of sound are counted: what a source delivered, what the pipeline *)
(* took, and what is stored as transcript.                                 *)
(***************************************************************************)
EXTENDS Integers, FiniteSets

CONSTANTS
  M,          \* the meetings there may be
  None,
  MaxFrames,  \* bound: frames a source delivers
  MaxTail,    \* MAX_TAIL_MS, in frames: how much is read once the stop was seen
  MaxFaults,  \* bound: pipeline errors, panics, failed statements and unlinks
  MaxCrashes  \* bound: how often the process dies

ASSUME RecordingAssumption ==
  /\ None \notin M
  /\ MaxFrames \in Nat /\ MaxTail \in Nat \ {0}
  /\ MaxFaults \in Nat /\ MaxCrashes \in Nat

VARIABLES
  row,     \* the meeting's row: "none", "open", "ended", or "purged"
  source,  \* where the meeting's sound comes from: "microphone" or "import"
  named,   \* meetings whose row has an audio_path
  file,    \* the meeting's audio file: "none", "partial" or "whole"
  thread,  \* how far the thread of the meeting is
  keeping, \* meetings whose pipeline holds a writer, or hands over the file it wrote
  heard,   \* frames the source has delivered
  taken,   \* frames the pipeline has read
  stored,  \* frames whose words are in the transcript
  tail,    \* of the frames read, those read since the stop was seen
  slot,    \* the recording the manager has, or None
  told,    \* recordings whose stop flag is set
  policy,  \* the retention policy: "off", "days" or "until_deleted"
  sweep,   \* the two sweeps, the hourly one and the one that switching off makes
  purge,   \* the meeting being purged under the database lock, or None
  path,    \* whether the purge read a path
  faults,
  crashes

rows  == <<row, source>>
audio == <<named, file>>
sound == <<heard, taken, stored, tail>>
calls == <<slot, told>>
trash == <<purge, path>>
vars  == <<rows, audio, thread, keeping, sound, calls, policy, sweep, trash, faults, crashes>>

Sweeps  == {"hourly", "switch"}
Running == {"opening", "capturing", "draining", "flushed", "filed", "attached", "failed"}
Over    == {"done", "marred", "dead"}
Idle    == [step |-> "idle", under |-> "off", todo |-> {}, unlinked |-> None]

TypeOK ==
  /\ row \in [M -> {"none", "open", "ended", "purged"}]
  /\ source \in [M -> {"microphone", "import"}]
  /\ named \subseteq M /\ keeping \subseteq M
  /\ file \in [M -> {"none", "partial", "whole"}]
  /\ thread \in [M -> {"none"} \union Running \union Over]
  /\ heard \in [M -> 0..MaxFrames]
  /\ taken \in [M -> 0..MaxFrames]
  /\ stored \in [M -> 0..MaxFrames]
  /\ tail \in [M -> 0..MaxTail]
  /\ \A m \in M : stored[m] <= taken[m] /\ taken[m] <= heard[m]
  /\ slot \in M \union {None}
  /\ told \subseteq M
  /\ policy \in {"off", "days", "until_deleted"}
  /\ sweep \in [Sweeps -> [step : {"idle", "reading", "sweeping"},
                           under : {"off", "days", "until_deleted"},
                           todo : SUBSET M, unlinked : M \union {None}]]
  /\ purge \in M \union {None} /\ path \in BOOLEAN
  /\ faults \in 0..MaxFaults /\ crashes \in 0..MaxCrashes

Init ==
  /\ row = [m \in M |-> "none"] /\ source = [m \in M |-> "microphone"]
  /\ named = {} /\ file = [m \in M |-> "none"]
  /\ thread = [m \in M |-> "none"] /\ keeping = {}
  /\ heard = [m \in M |-> 0] /\ taken = [m \in M |-> 0] /\ stored = [m \in M |-> 0]
  /\ tail = [m \in M |-> 0]
  /\ slot = None /\ told = {}
  /\ policy \in {"off", "until_deleted"}
  /\ sweep = [s \in Sweeps |-> Idle]
  /\ purge = None /\ path = FALSE
  /\ faults = 0 /\ crashes = 0

Fault   == faults < MaxFaults /\ faults' = faults + 1
NoFault == UNCHANGED faults

HasRow(m) == row[m] \in {"open", "ended"}

\* The engine's own connection is free: a purge, and the sweep of a switch-off, hold it throughout.
LockFree == purge = None /\ sweep["switch"].step = "idle"
-----------------------------------------------------------------------------
(* The manager. *)

\* start: under the slot's lock from the check to the end. The device is opened before the meeting
\* exists, so a refusal leaves nothing. The thread is running when the call returns.
Start(m) ==
  /\ row[m] = "none"
  /\ slot = None
  /\ slot' = m
  /\ row' = [row EXCEPT ![m] = "open"]
  /\ thread' = [thread EXCEPT ![m] = "opening"]
  /\ UNCHANGED <<source, audio, keeping, sound, told, policy, sweep, trash, faults, crashes>>

\* The thread cannot be spawned, or dies before its pipeline: the meeting stays.
StartFails(m) ==
  /\ row[m] = "none" /\ slot = None
  /\ Fault
  /\ row' = [row EXCEPT ![m] = "open"]
  /\ thread' = [thread EXCEPT ![m] = "dead"]
  /\ UNCHANGED <<source, audio, keeping, sound, calls, policy, sweep, trash, crashes>>

\* import: a thread of its own, which no slot knows of. The whole file is there to be read.
Import(m) ==
  /\ row[m] = "none"
  /\ row' = [row EXCEPT ![m] = "open"]
  /\ source' = [source EXCEPT ![m] = "import"]
  /\ heard' = [heard EXCEPT ![m] = MaxFrames]
  /\ thread' = [thread EXCEPT ![m] = "opening"]
  /\ UNCHANGED <<audio, keeping, taken, stored, tail, calls, policy, sweep, trash, faults, crashes>>

\* stop: the slot is emptied first, then the flag is set. The call then waits, for its answer alone:
\* nothing is undone when the thread dies or STOP_TIMEOUT passes.
Stop ==
  /\ slot # None
  /\ slot' = None
  /\ told' = told \union {slot}
  /\ UNCHANGED <<rows, audio, thread, keeping, sound, policy, sweep, trash, faults, crashes>>
-----------------------------------------------------------------------------
(* The thread. *)

\* retain_if_asked: the policy of this moment decides. Two channels are never kept, and a file that
\* cannot be opened costs the recording its audio and nothing else.
OpenFile(m) ==
  /\ thread[m] = "opening"
  /\ thread' = [thread EXCEPT ![m] = "capturing"]
  /\ \/ UNCHANGED <<file, keeping>>
     \/ /\ policy # "off"
        /\ file' = [file EXCEPT ![m] = "partial"]
        /\ keeping' = keeping \union {m}
  /\ UNCHANGED <<rows, named, sound, calls, policy, sweep, trash, faults, crashes>>

\* The microphone delivers until the pipeline tells it to stop, whatever the pipeline is doing.
Hear(m) ==
  /\ source[m] = "microphone" /\ thread[m] \in {"opening", "capturing"}
  /\ heard[m] < MaxFrames
  /\ heard' = [heard EXCEPT ![m] = @ + 1]
  /\ UNCHANGED <<rows, audio, thread, keeping, taken, stored, tail, calls, policy, sweep, trash, faults, crashes>>

\* A reader that leaves the loop when it is told to stop.
SeeStopAtOnce(m) ==
  /\ m \in told /\ thread[m] = "capturing"
  /\ thread' = [thread EXCEPT ![m] = "flushed"]
  /\ UNCHANGED <<rows, audio, keeping, sound, calls, policy, sweep, trash, faults, crashes>>

\* CaptureReader::next_frame: the first stop it sees stops the source, whose tail is still read.
SeeStop(m) ==
  /\ m \in told /\ thread[m] = "capturing"
  /\ thread' = [thread EXCEPT ![m] = "draining"]
  /\ UNCHANGED <<rows, audio, keeping, sound, calls, policy, sweep, trash, faults, crashes>>

\* Words for a meeting that is gone: the foreign key refuses them.
Stores(m, n) == n > stored[m] => HasRow(m)

\* What next_frame has left to give: of a stopped source, no more than MAX_TAIL_MS of it.
More(m) == taken[m] < heard[m] /\ tail[m] < MaxTail

\* One turn of run's loop: a frame is taken, written to the kept file, fed to the engine, and what
\* the engine has ready is stored.
TakeFrame(m) ==
  /\ thread[m] \in {"capturing", "draining"} /\ More(m)
  /\ taken' = [taken EXCEPT ![m] = @ + 1]
  /\ tail' = [tail EXCEPT ![m] = IF thread[m] = "draining" THEN @ + 1 ELSE @]
  /\ \E n \in stored[m]..taken'[m] : Stores(m, n) /\ stored' = [stored EXCEPT ![m] = n]
  /\ UNCHANGED <<rows, audio, thread, keeping, heard, calls, policy, sweep, trash, faults, crashes>>

\* abandon_retention: a write that fails costs the meeting its audio, and the part written goes.
AbandonRetention(m) ==
  /\ thread[m] \in {"capturing", "draining"} /\ m \in keeping /\ More(m)
  /\ Fault
  /\ keeping' = keeping \ {m}
  /\ file' = [file EXCEPT ![m] = "none"]
  /\ UNCHANGED <<rows, named, thread, sound, calls, policy, sweep, trash, crashes>>

\* The reader gives nothing more, because the source has nothing more or because the tail is cut,
\* which is only warned of: the engine is flushed, and what it had left is stored and attributed.
Finish(m) ==
  /\ \/ thread[m] = "draining"
     \/ source[m] = "import" /\ thread[m] = "capturing"
  /\ ~ More(m)
  /\ Stores(m, taken[m])
  /\ stored' = [stored EXCEPT ![m] = taken[m]]
  /\ thread' = [thread EXCEPT ![m] = "flushed"]
  /\ UNCHANGED <<rows, audio, keeping, heard, taken, tail, calls, policy, sweep, trash, faults, crashes>>

\* The end of run: the writer is taken and its header patched. If that fails the file stays.
FinishFile(m) ==
  /\ thread[m] = "flushed"
  /\ thread' = [thread EXCEPT ![m] = "filed"]
  /\ \/ /\ m \in keeping /\ NoFault
        /\ file' = [file EXCEPT ![m] = "whole"]
        /\ UNCHANGED keeping
     \/ /\ m \in keeping /\ Fault
        /\ keeping' = keeping \ {m}
        /\ UNCHANGED file
     \/ /\ m \notin keeping /\ NoFault
        /\ UNCHANGED <<file, keeping>>
  /\ UNCHANGED <<rows, named, sound, calls, policy, sweep, trash, crashes>>

\* attach_retained, before the meeting is ended. An update that fails is only warned of.
Attach(m) ==
  /\ thread[m] = "filed"
  /\ \/ /\ NoFault
        /\ named' = IF m \in keeping /\ HasRow(m) THEN named \union {m} ELSE named
        /\ thread' = [thread EXCEPT ![m] = "attached"]
     \/ /\ m \in keeping /\ Fault
        /\ UNCHANGED named
        /\ thread' = [thread EXCEPT ![m] = "failed"]
  /\ UNCHANGED <<rows, file, keeping, sound, calls, policy, sweep, trash, crashes>>

\* An error that leaves the thread like an import's.
FailUnended(m) ==
  /\ thread[m] \in {"capturing", "draining", "flushed"}
  /\ IF row[m] = "purged" THEN NoFault ELSE Fault
  /\ thread' = [thread EXCEPT ![m] = "marred"]
  /\ keeping' = keeping \ {m}
  /\ UNCHANGED <<rows, audio, sound, calls, policy, sweep, trash, crashes>>

\* The pipeline returns an error: always when its words have no meeting to go to, and by a fault
\* anywhere. A recording still ends its meeting; an import returns without.
Fail(m) ==
  /\ thread[m] \in {"capturing", "draining", "flushed"}
  /\ IF row[m] = "purged" THEN NoFault ELSE Fault
  /\ thread' = [thread EXCEPT ![m] = IF source[m] = "microphone" THEN "failed" ELSE "marred"]
  /\ keeping' = keeping \ {m}
  /\ UNCHANGED <<rows, audio, sound, calls, policy, sweep, trash, crashes>>

\* MeetingRepository::end, only of a meeting that has not ended, and the report to the stop. An
\* update that fails is logged, and the meeting stays open.
EndByThread(m) ==
  /\ thread[m] \in {"attached", "failed"}
  /\ \/ /\ NoFault
        /\ row' = [row EXCEPT ![m] = IF @ = "open" THEN "ended" ELSE @]
        /\ thread' = [thread EXCEPT ![m] = IF @ = "attached" THEN "done" ELSE "marred"]
     \/ /\ Fault /\ UNCHANGED row
        /\ thread' = [thread EXCEPT ![m] = "dead"]
  /\ keeping' = keeping \ {m}
  /\ UNCHANGED <<source, audio, sound, calls, policy, sweep, trash, crashes>>

\* A panic in the pipeline: nothing is ended and nothing reported.
Panic(m) ==
  /\ thread[m] \in {"opening", "capturing", "draining", "flushed"}
  /\ Fault
  /\ thread' = [thread EXCEPT ![m] = "dead"]
  /\ keeping' = keeping \ {m}
  /\ UNCHANGED <<rows, audio, sound, calls, policy, sweep, trash, crashes>>
-----------------------------------------------------------------------------
(* People. *)

\* end_meeting: nothing asks whether it is being recorded.
EndByHand(m) ==
  /\ LockFree /\ row[m] = "open"
  /\ row' = [row EXCEPT ![m] = "ended"]
  /\ UNCHANGED <<source, audio, thread, keeping, sound, calls, policy, sweep, trash, faults, crashes>>

\* MeetingRepository::delete: the path is read, the row deleted, the file unlinked. The thread has a
\* connection of its own and may write in between. Only the recording in the slot is refused; one in
\* the trash left the slot before it was put there.
PurgeBegin(m) ==
  /\ LockFree /\ HasRow(m)
  /\ m # slot
  /\ purge' = m
  /\ path' = (m \in named)
  /\ UNCHANGED <<rows, audio, thread, keeping, sound, calls, policy, sweep, faults, crashes>>

PurgeRow ==
  /\ purge # None /\ HasRow(purge)
  /\ row' = [row EXCEPT ![purge] = "purged"]
  /\ named' = named \ {purge}
  /\ UNCHANGED <<source, file, thread, keeping, sound, calls, policy, sweep, trash, faults, crashes>>

PurgeFile ==
  /\ purge # None /\ row[purge] = "purged"
  /\ \/ NoFault /\ file' = IF path THEN [file EXCEPT ![purge] = "none"] ELSE file
     \/ path /\ Fault /\ UNCHANGED file
  /\ purge' = None
  /\ path' = FALSE
  /\ UNCHANGED <<rows, named, thread, keeping, sound, calls, policy, sweep, crashes>>

\* put_retention: to off, and a sweep begins before the lock is let go.
SetPolicy(p) ==
  /\ LockFree
  /\ policy' = p
  /\ sweep' = IF p = "off" THEN [sweep EXCEPT !["switch"] = [Idle EXCEPT !.step = "reading"]]
              ELSE sweep
  /\ UNCHANGED <<rows, audio, thread, keeping, sound, calls, trash, faults, crashes>>
-----------------------------------------------------------------------------
(* The sweeps. *)

\* sweep_once, each hour on a connection of its own: the policy is read first.
SweepHourly ==
  /\ sweep["hourly"].step = "idle"
  /\ sweep' = [sweep EXCEPT !["hourly"] = [Idle EXCEPT !.step = "reading", !.under = policy]]
  /\ UNCHANGED <<rows, audio, thread, keeping, sound, calls, policy, trash, faults, crashes>>

\* A list that reads what has ended whatever the policy.
SweepListEnded(s) ==
  /\ sweep[s].step = "reading"
  /\ \E old \in SUBSET {m \in named : row[m] = "ended"} :
       /\ sweep[s].under = "until_deleted" => old = {}
       /\ sweep' = [sweep EXCEPT ![s].step = "sweeping", ![s].todo = old]
  /\ UNCHANGED <<rows, audio, thread, keeping, sound, calls, policy, trash, faults, crashes>>

\* expired: everything when off, nothing until deleted, and by days what ended long enough ago.
SweepList(s) ==
  /\ sweep[s].step = "reading"
  /\ \E old \in SUBSET {m \in named : row[m] = "ended"} :
       /\ sweep[s].under # "days" => old = {}
       /\ sweep' = [sweep EXCEPT ![s].step = "sweeping",
                                 ![s].todo = IF sweep[s].under = "off" THEN named ELSE old]
  /\ UNCHANGED <<rows, audio, thread, keeping, sound, calls, policy, trash, faults, crashes>>

\* A sweep that goes on to the pointer when the file would not go.
SweepUnlinkAnyway(s, m) ==
  /\ sweep[s].step = "sweeping" /\ sweep[s].unlinked = None /\ m \in sweep[s].todo
  /\ \/ NoFault /\ file' = [file EXCEPT ![m] = "none"]
     \/ Fault /\ UNCHANGED file
  /\ sweep' = [sweep EXCEPT ![s].unlinked = m]
  /\ UNCHANGED <<rows, named, thread, keeping, sound, calls, policy, trash, crashes>>

\* sweep: the file is unlinked before the pointer is cleared. A file that will not go keeps its
\* pointer and waits for a later sweep.
SweepUnlink(s, m) ==
  /\ sweep[s].step = "sweeping" /\ sweep[s].unlinked = None /\ m \in sweep[s].todo
  /\ \/ /\ NoFault
        /\ file' = [file EXCEPT ![m] = "none"]
        /\ sweep' = [sweep EXCEPT ![s].unlinked = m]
     \/ /\ Fault /\ UNCHANGED file
        /\ sweep' = [sweep EXCEPT ![s].todo = @ \ {m}]
  /\ UNCHANGED <<rows, named, thread, keeping, sound, calls, policy, trash, crashes>>

SweepClear(s) ==
  /\ sweep[s].unlinked # None
  /\ \/ /\ NoFault
        /\ named' = named \ {sweep[s].unlinked}
        /\ sweep' = [sweep EXCEPT ![s].unlinked = None, ![s].todo = @ \ {sweep[s].unlinked}]
     \/ /\ Fault /\ UNCHANGED named
        /\ sweep' = [sweep EXCEPT ![s] = Idle]
  /\ UNCHANGED <<rows, file, thread, keeping, sound, calls, policy, trash, crashes>>

SweepEnd(s) ==
  /\ sweep[s].step = "sweeping" /\ sweep[s].todo = {}
  /\ sweep' = [sweep EXCEPT ![s] = Idle]
  /\ UNCHANGED <<rows, audio, thread, keeping, sound, calls, policy, trash, faults, crashes>>
-----------------------------------------------------------------------------
\* The process dies. Rows and files stay as they are; nothing looks at them when it starts again.
Crash ==
  /\ crashes < MaxCrashes
  /\ crashes' = crashes + 1
  /\ thread' = [m \in M |-> IF thread[m] \in Running THEN "dead" ELSE thread[m]]
  /\ keeping' = {} /\ slot' = None
  /\ sweep' = [s \in Sweeps |-> Idle]
  /\ purge' = None /\ path' = FALSE
  /\ UNCHANGED <<rows, audio, sound, told, policy, faults>>

ThreadStep(m) ==
  \/ OpenFile(m) \/ SeeStop(m) \/ TakeFrame(m) \/ Finish(m) \/ FinishFile(m) \/ Attach(m)
  \/ EndByThread(m) \/ Fail(m)

SweepStep(s) ==
  SweepList(s) \/ SweepClear(s) \/ SweepEnd(s) \/ \E m \in M : SweepUnlink(s, m)

Next ==
  \/ \E m \in M : \/ Start(m) \/ StartFails(m) \/ Import(m)
                  \/ Hear(m) \/ ThreadStep(m) \/ AbandonRetention(m) \/ Panic(m)
                  \/ EndByHand(m) \/ PurgeBegin(m)
  \/ Stop \/ PurgeRow \/ PurgeFile
  \/ \E p \in {"off", "days", "until_deleted"} : SetPolicy(p)
  \/ SweepHourly
  \/ \E s \in Sweeps : SweepStep(s)
  \/ Crash

Spec == Init /\ [][Next]_vars

\* A thread runs on, the hourly sweep comes round, and a sweep or a purge that began is carried
\* through. Nothing is assumed of people, of sound, or of faults.
FairSpec ==
  /\ Spec
  /\ \A m \in M : WF_vars(ThreadStep(m))
  /\ WF_vars(SweepHourly) /\ \A s \in Sweeps : WF_vars(SweepStep(s))
  /\ WF_vars(PurgeRow) /\ WF_vars(PurgeFile)
-----------------------------------------------------------------------------
(* Properties. *)

\* Audio a run has kept is named by its meeting for as long as there is one, or no sweep and no
\* purge would ever find it: through sweeps that stop half way, failed unlinks and crashes.
AudioIsNamed ==
  \A m \in M : file[m] = "whole" /\ thread[m] = "done" /\ HasRow(m) => m \in named

\* The last thing said before a stop is in the transcript: a run that ends well has stored all it
\* read, and has left unread only what a source had beyond a whole MAX_TAIL_MS read since the stop.
NothingHeardIsLost ==
  \A m \in M : thread[m] = "done" =>
    stored[m] = taken[m] /\ (taken[m] < heard[m] => tail[m] = MaxTail)

\* With retention off the recordings go, those attached after the switch by a thread that began
\* before it included.
OffClearsAudio ==
  \A m \in M : policy = "off" /\ m \in named ~> policy # "off" \/ m \notin named

\* A recording told to stop becomes a meeting that has ended, whether its pipeline fails or not;
\* only a panic, a crash or a refused statement leaves it open.
StoppedMeetingEnds ==
  \A m \in M : m \in told ~> row[m] \in {"ended", "purged"} \/ thread[m] = "dead"

\* At most one recording has the microphone.
OneCapture ==
  \A m, n \in {k \in M : source[k] = "microphone"} : thread[m] = "capturing" /\ thread[n] = "capturing" => m = n

\* A purged meeting leaves no recording of it on disk.
PurgeTakesAudio ==
  \A m \in M : row[m] = "purged" /\ purge # m /\ thread[m] \in Over => file[m] = "none"
=============================================================================
