-------------------------------- MODULE Jobs --------------------------------
(***************************************************************************)
(* Scheduled jobs: the scheduler's pass over every job, the runs it or a   *)
(* person starts, and the bounded history each run writes itself into.     *)
(*                                                                         *)
(* The history is also the scheduler's memory: when a job last started and *)
(* whether it is running are both read from its rows, so what a prune, a   *)
(* crash or a failed statement does to the rows changes what the next pass *)
(* decides.                                                                *)
(*                                                                         *)
(* The decision counts cron occurrences since the last start and tells 0,  *)
(* 1 and more apart, so that count is kept capped at 2 in place of a clock.*)
(***************************************************************************)
EXTENDS Integers, Sequences, FiniteSets

CONSTANTS
  N,              \* how many jobs there are; listed by name, so 1..N is their order
  CatchUp,        \* the jobs with catch_up set
  EverRun,        \* the jobs whose history starts with a completed run
  MaxConcurrent,  \* MAX_CONCURRENT
  RunsKept,       \* RUNS_KEPT
  RunIds,         \* identities for runs; bounds how many one job has at a time
  MaxFaults,      \* bound: how often the process dies or a statement fails
  ManualRuns,     \* TRUE when people press "run now" too
  RunsTimeOut     \* TRUE when a run's timeout is shorter than RunsKept passes

J == 1..N

ASSUME JobsAssumption ==
  /\ N \in Nat \ {0}
  /\ CatchUp \subseteq J /\ EverRun \subseteq J
  /\ MaxConcurrent \in Nat \ {0}
  /\ RunsKept \in Nat \ {0}
  /\ RunIds \subseteq Nat \ {0} /\ IsFiniteSet(RunIds)
  /\ MaxFaults \in Nat
  /\ ManualRuns \in BOOLEAN /\ RunsTimeOut \in BOOLEAN

VARIABLES
  job,      \* "none" before it is created, then "enabled", "disabled" or "deleted"
  runs,     \* job_runs of each job, oldest first
  owed,     \* occurrences since the job last started: 0, 1, or 2 for more
  unserved, \* an occurrence fell since the scheduler last started the job
  live,     \* runs being driven by this process, as <<job, run id>>
  stranded, \* runs whose row says running and will not be written again
  chosen,   \* jobs this pass will start and has not yet
  pressed,  \* jobs whose "run now" has passed its check and not started yet
  faults

vars == <<job, runs, owed, unserved, live, stranded, chosen, pressed, faults>>

\* A row of the history. Completed, failed and timed out are one here, for all that timing asks,
\* and only a running row needs its id.
RunRows  == [status : {"running"}, id : RunIds] \union [status : {"ended", "skipped"}, id : {0}]
Skip     == [status |-> "skipped", id |-> 0]
Ended    == [status |-> "ended", id |-> 0]
Running(id) == [status |-> "running", id |-> id]

TypeOK ==
  /\ job \in [J -> {"none", "enabled", "disabled", "deleted"}]
  /\ \A j \in J : runs[j] \in Seq(RunRows) /\ Len(runs[j]) <= RunsKept + faults
  /\ owed \in [J -> 0..2]
  /\ unserved \in [J -> BOOLEAN]
  /\ live \subseteq J \X RunIds /\ stranded \subseteq J \X RunIds
  /\ chosen \subseteq J /\ pressed \subseteq J
  /\ faults \in 0..MaxFaults

Init ==
  /\ job = [j \in J |-> IF j \in EverRun THEN "enabled" ELSE "none"]
  /\ runs = [j \in J |-> IF j \in EverRun THEN <<Ended>> ELSE <<>>]
  /\ owed = [j \in J |-> 0]
  /\ unserved = [j \in J |-> FALSE]
  /\ live = {} /\ stranded = {} /\ chosen = {} /\ pressed = {}
  /\ faults = 0

\* The process dies or a statement fails.
Fault == faults < MaxFaults /\ faults' = faults + 1
-----------------------------------------------------------------------------
(* The run history. *)

\* prune: the newest RunsKept rows stay, whatever their status.
Prune(rows) == IF Len(rows) <= RunsKept THEN rows
               ELSE SubSeq(rows, Len(rows) - RunsKept + 1, Len(rows))

\* The newest row alone decides whether a run is in flight.
IsRunningNewest(j) == runs[j] # <<>> /\ runs[j][Len(runs[j])].status = "running"

\* timing: a row that is not a skip dates the last start, and one that is running is in flight.
EverStarted(j) == \E i \in DOMAIN runs[j] : runs[j][i].status # "skipped"
IsRunning(j)   == \E i \in DOMAIN runs[j] : runs[j][i].status = "running"

\* A prune after one more row would drop a run being driven. Only a run that outlasts RunsKept later
\* rows, one a minute, gets that far: a timeout of 50 minutes or more.
NoRoom(j) ==
  /\ RunsTimeOut
  /\ \E i \in DOMAIN runs[j] : i <= Len(runs[j]) + 1 - RunsKept /\ <<j, runs[j][i].id>> \in live

\* An id no live run and no row of the job has. Ids are random in the code; taking the least
\* spares TLC the permutations.
Fresh(j, id) ==
  LET used == {r[2] : r \in {q \in live : q[1] = j}} \union {runs[j][i].id : i \in DOMAIN runs[j]}
  IN  id \notin used /\ \A k \in RunIds : k < id => k \in used

\* A start that forgets to reset the reckoning, as when timing reads only completed runs.
StartRunUndated(j) ==
  \E id \in RunIds :
    /\ Fresh(j, id) /\ ~NoRoom(j)
    /\ runs' = [runs EXCEPT ![j] = Prune(Append(@, Running(id)))]
    /\ live' = live \union {<<j, id>>} /\ stranded' = stranded \ {<<j, id>>}
    /\ UNCHANGED owed

\* start_run, and the task spawned to drive it.
StartRun(j) ==
  \E id \in RunIds :
    /\ Fresh(j, id) /\ ~NoRoom(j)
    /\ runs' = [runs EXCEPT ![j] = Prune(Append(@, Running(id)))]
    /\ live' = live \union {<<j, id>>} /\ stranded' = stranded \ {<<j, id>>}
    /\ owed' = [owed EXCEPT ![j] = 0]

\* start_run fails before the task is spawned: at the insert, or at the prune that follows it, and
\* then the row stays.
StartRunFails(j) ==
  /\ UNCHANGED live
  /\ \/ UNCHANGED <<runs, owed, stranded>>
     \/ \E id \in RunIds :
          /\ Fresh(j, id)
          /\ runs' = [runs EXCEPT ![j] = Append(@, Running(id))]
          /\ stranded' = stranded \union {<<j, id>>}
          /\ owed' = [owed EXCEPT ![j] = 0]

Exists(j) == job[j] \in {"enabled", "disabled"}
-----------------------------------------------------------------------------
(* People. *)

Create(j) ==
  /\ job[j] = "none"
  /\ job' = [job EXCEPT ![j] = "enabled"]
  /\ UNCHANGED <<runs, owed, unserved, live, stranded, chosen, pressed, faults>>

SetEnabled(j) ==
  /\ Exists(j)
  /\ job' = [job EXCEPT ![j] = IF @ = "enabled" THEN "disabled" ELSE "enabled"]
  /\ UNCHANGED <<runs, owed, unserved, live, stranded, chosen, pressed, faults>>

\* The rows go with the job; a run in progress does not notice.
Delete(j) ==
  /\ Exists(j)
  /\ job' = [job EXCEPT ![j] = "deleted"]
  /\ runs' = [runs EXCEPT ![j] = <<>>]
  /\ stranded' = {r \in stranded : r[1] # j}
  /\ UNCHANGED <<owed, unserved, live, chosen, pressed, faults>>

\* run_now refuses while a run is in flight, then lets go of the database before it starts one.
PressRunNow(j) ==
  /\ ManualRuns /\ Exists(j) /\ ~IsRunning(j) /\ j \notin pressed
  /\ pressed' = pressed \union {j}
  /\ UNCHANGED <<job, runs, owed, unserved, live, stranded, chosen, faults>>

RunNow(j) ==
  /\ j \in pressed
  /\ pressed' = pressed \ {j}
  /\ IF Exists(j) THEN StartRun(j) ELSE UNCHANGED <<runs, live, stranded, owed>>
  /\ UNCHANGED <<job, unserved, chosen, faults>>

RunNowFails(j) ==
  /\ Fault
  /\ j \in pressed /\ Exists(j)
  /\ pressed' = pressed \ {j}
  /\ StartRunFails(j)
  /\ UNCHANGED <<job, unserved, chosen>>
-----------------------------------------------------------------------------
(* The scheduler. *)

\* An occurrence of the job's cron expression falls.
Occur(j) ==
  /\ Exists(j)
  /\ unserved' = [unserved EXCEPT ![j] = TRUE]
  /\ owed' = IF EverStarted(j) THEN [owed EXCEPT ![j] = IF @ = 2 THEN 2 ELSE @ + 1] ELSE owed
  /\ UNCHANGED <<job, runs, live, stranded, chosen, pressed, faults>>

\* A reading of catch_up that never catches up.
DueNoCatchUp(j) ==
  IF job[j] # "enabled" \/ ~EverStarted(j) \/ owed[j] = 0 THEN "not_due"
  ELSE IF IsRunning(j) THEN "already_running"
  ELSE IF owed[j] > 1 THEN "missed" ELSE "run"

\* schedule::due. The cron expression and timezone were validated when the job was saved.
Due(j) ==
  IF job[j] # "enabled" \/ ~EverStarted(j) \/ owed[j] = 0 THEN "not_due"
  ELSE IF IsRunning(j) THEN "already_running"
  ELSE IF owed[j] > 1 /\ j \notin CatchUp THEN "missed" ELSE "run"

\* What a pass records for a job it does not run.
Skipped(j) == Due(j) \in {"already_running", "missed"}

RecordSkips ==
  [j \in J |-> IF Skipped(j) THEN Prune(Append(runs[j], Skip)) ELSE runs[j]]

\* The first MaxConcurrent due jobs by name; what is running already is not counted.
Candidates ==
  LET due == {j \in J : Due(j) = "run"} IN
    {j \in due : Cardinality({i \in due : i < j}) < MaxConcurrent}

\* tick, first half: one pass over every job under the database lock.
Scan ==
  /\ chosen = {}
  /\ \A j \in J : Skipped(j) => ~NoRoom(j)
  /\ chosen' = Candidates
  /\ runs' = RecordSkips
  /\ UNCHANGED <<job, owed, unserved, live, stranded, pressed, faults>>

\* A statement of the pass fails. At the timing of a job, or at the list, the pass ends there and
\* starts nothing; a skip that is not written, or not pruned, is passed over.
ScanFails ==
  /\ Fault
  /\ chosen = {}
  /\ \A j \in J : Skipped(j) => ~NoRoom(j)
  /\ \E k \in J :
       \/ /\ chosen' = {}
          /\ runs' = [j \in J |-> IF j < k THEN RecordSkips[j] ELSE runs[j]]
       \/ /\ Skipped(k)
          /\ chosen' = Candidates
          /\ \E rows \in {runs[k], Append(runs[k], Skip)} : runs' = [RecordSkips EXCEPT ![k] = rows]
  /\ UNCHANGED <<job, owed, unserved, live, stranded, pressed>>

\* The chosen jobs are started in the order of their names.
NextChosen(j) == j \in chosen /\ \A k \in chosen : j <= k

\* tick, second half: each chosen job is started in turn, its switch not read again. The foreign
\* key refuses a job deleted in between.
StartChosen ==
  /\ \E j \in chosen :
       /\ NextChosen(j)
       /\ chosen' = chosen \ {j}
       /\ IF Exists(j) THEN StartRun(j) /\ unserved' = [unserved EXCEPT ![j] = FALSE]
                       ELSE UNCHANGED <<runs, live, stranded, owed, unserved>>
  /\ UNCHANGED <<job, pressed, faults>>

\* A start that fails is passed over, and the pass goes on.
StartChosenFails ==
  /\ Fault
  /\ \E j \in chosen :
       /\ NextChosen(j) /\ Exists(j)
       /\ chosen' = chosen \ {j}
       /\ StartRunFails(j)
  /\ UNCHANGED <<job, unserved, pressed>>

\* A finish that ends the job's newest row in place of its own.
FinishNewest(j, id) ==
  /\ <<j, id>> \in live
  /\ live' = live \ {<<j, id>>}
  /\ runs' = [runs EXCEPT ![j] = [i \in DOMAIN @ |-> IF i = Len(@) THEN Ended ELSE @[i]]]
  /\ UNCHANGED <<job, owed, unserved, stranded, chosen, pressed, faults>>

\* The agent ends, fails or times out, and finish_run writes it on the row, if there still is one.
Finish(j, id) ==
  /\ <<j, id>> \in live
  /\ live' = live \ {<<j, id>>}
  /\ runs' = [runs EXCEPT ![j] = [i \in DOMAIN @ |-> IF @[i].id = id THEN Ended ELSE @[i]]]
  /\ UNCHANGED <<job, owed, unserved, stranded, chosen, pressed, faults>>

\* Runs that leave their rows running, where the job still has rows.
Strand(rs) == stranded' = stranded \union {r \in rs : Exists(r[1])}

\* The task ends and finish_run fails: a warning, and the row says running for good.
FinishFails(j, id) ==
  /\ Fault
  /\ <<j, id>> \in live
  /\ live' = live \ {<<j, id>>}
  /\ Strand({<<j, id>>})
  /\ UNCHANGED <<job, runs, owed, unserved, chosen, pressed>>

\* The process dies and starts again: the rows are as they were, and nothing mends them.
Crash ==
  /\ Fault
  /\ Strand(live)
  /\ live' = {} /\ chosen' = {} /\ pressed' = {}
  /\ UNCHANGED <<job, runs, owed, unserved>>

Next ==
  \/ \E j \in J : \/ Create(j) \/ SetEnabled(j) \/ Delete(j)
                  \/ PressRunNow(j) \/ RunNow(j) \/ RunNowFails(j) \/ Occur(j)
                  \/ \E id \in RunIds : Finish(j, id) \/ FinishFails(j, id)
  \/ Scan \/ ScanFails \/ StartChosen \/ StartChosenFails \/ Crash

Spec == Init /\ [][Next]_vars

\* The loop wakes every minute, whatever its last pass came to, a pass is carried through, and every
\* run ends or times out. That what they write succeeds is not promised: MaxFaults bounds how often
\* it does not.
FairSpec ==
  /\ Spec
  /\ WF_vars(Scan) /\ WF_vars(StartChosen)
  /\ \A j \in J : \A id \in RunIds : WF_vars(Finish(j, id))
-----------------------------------------------------------------------------
(* Properties. *)

\* Two runs of one job would both write a note: a pass picks no job that has a run in flight.
PassSeesRuns ==
  [][\A j \in chosen' \ chosen : \A r \in live : r[1] # j]_vars

\* A run being driven is one the history shows as running, so the next pass will see it. Deleting
\* the job is the one way to lose the row under it.
LiveIsRecorded ==
  \A r \in live : \/ job[r[1]] = "deleted"
                  \/ \E i \in DOMAIN runs[r[1]] : runs[r[1]][i] = Running(r[2])

\* A row says running only of a run this process drives, or of one that a crash or a failed statement
\* stranded: its own finish or the prune after its own insert, never that of another run.
RunningIsTold ==
  \A j \in J : \A i \in DOMAIN runs[j] :
    runs[j][i].status = "running" => <<j, runs[j][i].id>> \in live \union stranded

\* No run is stranded while nothing has gone wrong.
StrandedNeedsFault == faults = 0 => stranded = {}

\* A deleted job has no history, not even from a start or a finish that raced the deletion.
DeletedLeavesNoRuns ==
  \A j \in J : job[j] = "deleted" => runs[j] = <<>>

\* The history and the process agree, so what a pass reads of the one is true of the other: in both
\* directions but for the runs a crash or a failed statement strands, and with nothing left of a job
\* that was deleted under its run.
HistoryIsTrue == LiveIsRecorded /\ RunningIsTold /\ StrandedNeedsFault /\ DeletedLeavesNoRuns

\* Never the whole backlog: the scheduler starts a job at most once per occurrence that fell,
\* however many were missed and whatever crashed or was pruned in between.
OccurrenceServedOnce ==
  [][\A j \in J : j \in chosen /\ j \notin chosen' /\ ~(live' \subseteq live) => unserved[j]]_vars

\* A pass starts MaxConcurrent jobs named before this one, and so leaves it out.
Crowded(j) == Cardinality({i \in chosen : i < j}) = MaxConcurrent

\* A catch-up job that ran before and owes an occurrence is started, by the scheduler or by hand, as
\* long as it stays enabled, no run of it was ever stranded, and passes do not start others before it.
CatchUpServed ==
  \A j \in CatchUp :
    owed[j] > 0 ~> \/ owed[j] = 0 \/ job[j] # "enabled"
                   \/ Crowded(j) \/ \E r \in stranded : r[1] = j

\* Every occurrence of an enabled job is served in the end, or a later one in its place.
EveryJobServed ==
  \A j \in J : unserved[j] ~> ~unserved[j] \/ job[j] # "enabled"
=============================================================================
