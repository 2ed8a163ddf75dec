----------------------------- MODULE JobsProofs -----------------------------
(***************************************************************************)
(* What Jobs promises, for any number of jobs, runs kept and faults.       *)
(*                                                                         *)
(* The history is the scheduler's memory and is pruned under it. The       *)
(* argument is what a prune after an append may drop: the oldest rows, and *)
(* only those, which are no runs in progress when runs time out in time.   *)
(***************************************************************************)
EXTENDS Jobs, SequenceTheorems, TLAPS

RunsShape        == runs \in [J -> Seq(RunRows)]
OwedIsUnserved   == \A j \in J : owed[j] > 0 => unserved[j]
ChosenIsUnserved == \A j \in chosen : unserved[j]

NoJobNoRuns      == \A j \in J : ~Exists(j) => runs[j] = <<>>

\* What holds of the timing by itself.
Timing == TypeOK /\ RunsShape /\ OwedIsUnserved /\ ChosenIsUnserved

\* What holds of the history besides; that it shows every live run needs runs to time out.
Rows == NoJobNoRuns /\ RunningIsTold /\ StrandedNeedsFault /\ (RunsTimeOut => LiveIsRecorded)

JInv == Timing /\ Rows

-----------------------------------------------------------------------------
(* What an append that is pruned does to a history. *)

LEMMA RowTypes ==
  /\ Skip \in RunRows /\ Ended \in RunRows
  /\ \A id \in RunIds : Running(id) \in RunRows
  /\ Skip.status # "running" /\ Ended.status # "running"
  /\ \A id \in RunIds : id # 0 /\ Running(id).id = id /\ Running(id) # Ended
  /\ \A row \in RunRows : row.status = "running" => row.id \in RunIds
  /\ \A row \in RunRows : row.id \in RunIds => row = Running(row.id)
<1>1. /\ Skip \in RunRows /\ Ended \in RunRows
      /\ \A id \in RunIds : Running(id) \in RunRows
      /\ Skip.status # "running" /\ Ended.status # "running"
  BY DEF RunRows, Skip, Ended, Running
<1>2. \A id \in RunIds : id # 0 /\ Running(id).id = id /\ Running(id) # Ended
  BY JobsAssumption DEF Ended, Running
<1>3. ASSUME NEW row \in RunRows PROVE row.status = "running" => row.id \in RunIds
  BY DEF RunRows
<1>4. ASSUME NEW row \in RunRows, row.id \in RunIds PROVE row = Running(row.id)
  <2>1. row \in [status : {"running"}, id : RunIds]
    BY <1>2, <1>4 DEF RunRows
  <2> QED
    BY <2>1 DEF Running
<1> QED
  BY <1>1, <1>2, <1>3, <1>4

LEMMA PrunedAppend ==
  ASSUME NEW rows \in Seq(RunRows), NEW row \in RunRows, NEW kept, kept = Prune(Append(rows, row))
  PROVE  /\ kept \in Seq(RunRows)
         /\ Len(kept) <= RunsKept
         /\ \A i \in DOMAIN kept : kept[i] = row \/ \E k \in DOMAIN rows : kept[i] = rows[k]
         /\ \E i \in DOMAIN kept : kept[i] = row
         /\ \A k \in DOMAIN rows : ~(k <= Len(rows) + 1 - RunsKept) => \E i \in DOMAIN kept : kept[i] = rows[k]
<1> DEFINE all == Append(rows, row)
           n == Len(rows)
           cut == n + 1 - RunsKept
<1>0. n \in Nat /\ DOMAIN rows = 1..n /\ RunsKept \in Nat \ {0}
  BY LenProperties, JobsAssumption
<1>1. /\ all \in Seq(RunRows) /\ Len(all) = n + 1 /\ DOMAIN all = 1..(n + 1)
      /\ \A i \in 1..n : all[i] = rows[i]
      /\ all[n + 1] = row
  BY AppendProperties, LenProperties
<1>2. kept = Prune(all)
  OBVIOUS
<1> HIDE DEF all, n
<1>3. CASE n + 1 <= RunsKept
  <2>1. kept = all
    BY <1>1, <1>2, <1>3 DEF Prune
  <2>2. \A k \in DOMAIN rows : k \in DOMAIN kept /\ kept[k] = rows[k]
    BY <1>0, <1>1, <2>1
  <2>3. n + 1 \in DOMAIN kept /\ kept[n + 1] = row
    BY <1>0, <1>1, <2>1
  <2>4. \A i \in DOMAIN kept : i # n + 1 => i \in DOMAIN rows /\ kept[i] = rows[i]
    BY <1>0, <1>1, <2>1
  <2>5. kept \in Seq(RunRows) /\ Len(kept) <= RunsKept
    BY <1>1, <1>3, <2>1
  <2> QED
    BY <2>2, <2>3, <2>4, <2>5
<1>4. CASE ~(n + 1 <= RunsKept)
  <2>0. cut \in Nat \ {0} /\ cut <= n
    BY <1>0, <1>4
  <2>1. kept = SubSeq(all, cut + 1, n + 1)
    <3>1. Len(all) - RunsKept + 1 = cut + 1 /\ ~(Len(all) <= RunsKept)
      BY <1>0, <1>1, <1>4
    <3> QED
      BY <1>1, <1>2, <3>1 DEF Prune
  <2>2. \A i \in (cut + 1)..(n + 1) : all[i] \in RunRows
    BY <1>0, <1>1, <2>0, ElementOfSeq
  <2>3. /\ kept \in Seq(RunRows) /\ Len(kept) = RunsKept
        /\ \A i \in 1..RunsKept : kept[i] = all[i + cut]
    <3>1. cut + 1 \in Int /\ n + 1 \in Int /\ cut + 1 <= n + 1 /\ (n + 1) - (cut + 1) + 1 = RunsKept
      BY <1>0, <2>0
    <3>2. /\ kept \in Seq(RunRows)
          /\ Len(kept) = IF cut + 1 <= n + 1 THEN (n + 1) - (cut + 1) + 1 ELSE 0
          /\ \A i \in 1..((n + 1) - (cut + 1) + 1) : kept[i] = all[(cut + 1) + i - 1]
      BY <2>1, <2>2, <3>1, SubSeqProperties
    <3>3. \A i \in 1..RunsKept : (cut + 1) + i - 1 = i + cut
      BY <1>0, <2>0
    <3> QED
      BY <3>1, <3>2, <3>3
  <2>4. DOMAIN kept = 1..RunsKept
    BY <2>3, LenProperties
  <2>5. RunsKept \in DOMAIN kept /\ kept[RunsKept] = row
    BY <1>0, <1>1, <2>3, <2>4
  <2>6. \A i \in DOMAIN kept : i # RunsKept => i + cut \in DOMAIN rows /\ kept[i] = rows[i + cut]
    <3>1. ASSUME NEW i \in 1..RunsKept, i # RunsKept PROVE i + cut \in 1..n
      BY <1>0, <2>0, <3>1
    <3>2. \A i \in 1..RunsKept : i # RunsKept => kept[i] = all[i + cut] /\ all[i + cut] = rows[i + cut]
      BY <1>1, <2>3, <3>1
    <3> QED
      BY <1>0, <2>4, <3>1, <3>2
  <2>7. \A k \in DOMAIN rows : ~(k <= cut) => k - cut \in DOMAIN kept /\ kept[k - cut] = rows[k]
    <3>1. ASSUME NEW k \in 1..n, ~(k <= cut) PROVE k - cut \in 1..RunsKept /\ (k - cut) + cut = k
      BY <1>0, <2>0, <3>1
    <3>2. \A k \in 1..n : ~(k <= cut) => kept[k - cut] = all[k] /\ all[k] = rows[k]
      BY <1>1, <2>3, <3>1
    <3> QED
      BY <1>0, <2>4, <3>1, <3>2
  <2>8. \A i \in DOMAIN kept : kept[i] = row \/ \E k \in DOMAIN rows : kept[i] = rows[k]
    BY <2>5, <2>6
  <2>9. \A k \in DOMAIN rows : ~(k <= cut) => \E i \in DOMAIN kept : kept[i] = rows[k]
    BY <2>7
  <2>10. Len(kept) <= RunsKept
    BY <1>0, <2>3
  <2> QED
    BY <2>3, <2>5, <2>8, <2>9, <2>10 DEF n
<1> QED
  BY <1>3, <1>4

\* What an append that is not pruned does.
LEMMA Appended ==
  ASSUME NEW rows \in Seq(RunRows), NEW row \in RunRows, NEW more, more = Append(rows, row)
  PROVE  /\ more \in Seq(RunRows) /\ Len(more) = Len(rows) + 1
         /\ \A i \in DOMAIN more : more[i] = row \/ \E k \in DOMAIN rows : more[i] = rows[k]
         /\ \A k \in DOMAIN rows : \E i \in DOMAIN more : more[i] = rows[k]
<1>1. /\ Len(rows) \in Nat /\ DOMAIN rows = 1..Len(rows)
      /\ more \in Seq(RunRows) /\ Len(more) = Len(rows) + 1 /\ DOMAIN more = 1..(Len(rows) + 1)
      /\ \A i \in 1..Len(rows) : more[i] = rows[i]
      /\ more[Len(rows) + 1] = row
  BY AppendProperties, LenProperties
<1>2. \A i \in DOMAIN more : i = Len(rows) + 1 \/ i \in DOMAIN rows
  BY <1>1
<1>3. \A k \in DOMAIN rows : k \in DOMAIN more
  BY <1>1
<1> QED
  BY <1>1, <1>2, <1>3

\* What is dropped by it is no run in progress, as far as there is room.
LEMMA AppendKeepsRuns ==
  ASSUME RunsShape, NEW j \in J, ~NoRoom(j), NEW row \in RunRows,
         NEW kept, kept = Prune(Append(runs[j], row)), RunsTimeOut,
         NEW id \in RunIds, <<j, id>> \in live, NEW i \in DOMAIN runs[j], runs[j][i] = Running(id)
  PROVE  \E k \in DOMAIN kept : kept[k] = Running(id)
<1>1. runs[j] \in Seq(RunRows)
  BY DEF RunsShape
<1>2. ~(i <= Len(runs[j]) + 1 - RunsKept)
  <2>1. runs[j][i].id = id
    BY RowTypes
  <2> QED
    BY <2>1 DEF NoRoom
<1> QED
  BY <1>1, <1>2, PrunedAppend

-----------------------------------------------------------------------------
(* A step, history by history. *)

\* Every row of a history that says running is of a known run, and every live run of the job has one.
Told(j, rows, known) == \A i \in DOMAIN rows : rows[i].status = "running" => <<j, rows[i].id>> \in known
Shown(j, rows, driven) ==
  \A id \in RunIds : <<j, id>> \in driven => \E i \in DOMAIN rows : rows[i] = Running(id)

LEMMA RowsBefore ==
  ASSUME JInv, NEW j \in J
  PROVE  /\ runs[j] \in Seq(RunRows) /\ Len(runs[j]) <= RunsKept + faults /\ Len(runs[j]) \in Nat
         /\ faults \in Nat /\ RunsKept \in Nat \ {0}
         /\ Told(j, runs[j], live \union stranded)
         /\ RunsTimeOut /\ job[j] # "deleted" => Shown(j, runs[j], live)
<1>1. /\ runs[j] \in Seq(RunRows) /\ Len(runs[j]) <= RunsKept + faults
      /\ faults \in Nat /\ RunsKept \in Nat \ {0}
  BY JobsAssumption DEF JInv, Timing, TypeOK, RunsShape
<1>2. Told(j, runs[j], live \union stranded)
  BY DEF JInv, Rows, RunningIsTold, Told
<1>3. ASSUME RunsTimeOut, job[j] # "deleted" PROVE Shown(j, runs[j], live)
  BY <1>3 DEF JInv, Rows, LiveIsRecorded, Shown
<1> QED
  BY <1>1, <1>2, <1>3, LenProperties

\* What a step must do to each history for the histories to stay true.
LEMMA RowsKept ==
  ASSUME JInv, job' = job, live' \subseteq J \X RunIds,
         faults' # 0 \/ (faults' = faults /\ stranded' \subseteq stranded),
         \A j \in J : /\ ~Exists(j) => runs'[j] = runs[j]
                      /\ Told(j, runs'[j], live' \union stranded')
                      /\ RunsTimeOut /\ job[j] # "deleted" => Shown(j, runs'[j], live')
  PROVE  Rows'
<1>1. NoJobNoRuns'
  BY DEF JInv, Rows, NoJobNoRuns, Exists
<1>2. RunningIsTold'
  BY DEF RunningIsTold, Told
<1>3. StrandedNeedsFault'
  BY DEF JInv, Rows, StrandedNeedsFault
<1>4. ASSUME RunsTimeOut PROVE LiveIsRecorded'
  <2>1. SUFFICES ASSUME NEW r \in live', job[r[1]] # "deleted"
                 PROVE  \E i \in DOMAIN runs'[r[1]] : runs'[r[1]][i] = Running(r[2])
    BY DEF LiveIsRecorded
  <2>2. r[1] \in J /\ r[2] \in RunIds /\ r = <<r[1], r[2]>>
    OBVIOUS
  <2> QED
    BY <1>4, <2>1, <2>2 DEF Shown
<1> QED
  BY <1>1, <1>2, <1>3, <1>4 DEF Rows

\* What a skip that is written and pruned, or only written, does to a history.
LEMMA SkipKept ==
  ASSUME JInv, NEW j \in J, ~NoRoom(j), NEW rows,
         rows = Prune(Append(runs[j], Skip)) \/ rows = Append(runs[j], Skip)
  PROVE  /\ rows \in Seq(RunRows) /\ Len(rows) <= RunsKept + faults + 1
         /\ rows = Prune(Append(runs[j], Skip)) => Len(rows) <= RunsKept + faults
         /\ Told(j, rows, live \union stranded)
         /\ RunsTimeOut /\ job[j] # "deleted" => Shown(j, rows, live)
<1>1. /\ runs[j] \in Seq(RunRows) /\ Len(runs[j]) <= RunsKept + faults /\ Len(runs[j]) \in Nat
      /\ faults \in Nat /\ RunsKept \in Nat \ {0}
      /\ Told(j, runs[j], live \union stranded)
      /\ RunsTimeOut /\ job[j] # "deleted" => Shown(j, runs[j], live)
  BY RowsBefore
<1>2. Skip \in RunRows /\ Skip.status # "running"
  BY RowTypes
<1>3. CASE rows = Prune(Append(runs[j], Skip))
  <2>1. /\ rows \in Seq(RunRows) /\ Len(rows) <= RunsKept
        /\ \A i \in DOMAIN rows : rows[i] = Skip \/ \E k \in DOMAIN runs[j] : rows[i] = runs[j][k]
    BY <1>1, <1>2, <1>3, PrunedAppend
  <2>2. Len(rows) <= RunsKept + faults /\ Len(rows) <= RunsKept + faults + 1
    <3>1. Len(rows) \in Nat
      BY <2>1, LenProperties
    <3> QED
      BY <1>1, <2>1, <3>1
  <2>3. Told(j, rows, live \union stranded)
    BY <1>1, <1>2, <2>1 DEF Told
  <2>4. ASSUME RunsTimeOut, job[j] # "deleted" PROVE Shown(j, rows, live)
    <3>1. SUFFICES ASSUME NEW id \in RunIds, <<j, id>> \in live PROVE \E k \in DOMAIN rows : rows[k] = Running(id)
      BY DEF Shown
    <3>2. PICK i \in DOMAIN runs[j] : runs[j][i] = Running(id)
      BY <1>1, <2>4, <3>1 DEF Shown
    <3> QED
      BY <1>2, <1>3, <2>4, <3>1, <3>2, AppendKeepsRuns DEF JInv, Timing
  <2> QED
    BY <2>1, <2>2, <2>3, <2>4
<1>4. CASE rows = Append(runs[j], Skip) /\ rows # Prune(Append(runs[j], Skip))
  <2>1. /\ rows \in Seq(RunRows) /\ Len(rows) = Len(runs[j]) + 1
        /\ \A i \in DOMAIN rows : rows[i] = Skip \/ \E k \in DOMAIN runs[j] : rows[i] = runs[j][k]
        /\ \A k \in DOMAIN runs[j] : \E i \in DOMAIN rows : rows[i] = runs[j][k]
    <3>1. PICK old \in Seq(RunRows) : old = runs[j]
      BY <1>1
    <3>2. Skip \in RunRows /\ rows = Append(old, Skip)
      BY <1>2, <1>4, <3>1
    <3>3. /\ rows \in Seq(RunRows) /\ Len(rows) = Len(old) + 1
          /\ \A i \in DOMAIN rows : rows[i] = Skip \/ \E k \in DOMAIN old : rows[i] = old[k]
          /\ \A k \in DOMAIN old : \E i \in DOMAIN rows : rows[i] = old[k]
      BY <3>2, Appended
    <3> QED
      BY <3>1, <3>3
  <2>2. Len(rows) <= RunsKept + faults + 1
    BY <1>1, <2>1
  <2>3. Told(j, rows, live \union stranded)
    BY <1>1, <1>2, <2>1 DEF Told
  <2>4. ASSUME RunsTimeOut, job[j] # "deleted" PROVE Shown(j, rows, live)
    <3>1. SUFFICES ASSUME NEW id \in RunIds, <<j, id>> \in live PROVE \E k \in DOMAIN rows : rows[k] = Running(id)
      BY DEF Shown
    <3>2. PICK i \in DOMAIN runs[j] : runs[j][i] = Running(id)
      BY <1>1, <2>4, <3>1 DEF Shown
    <3> QED
      BY <2>1, <3>2
  <2> QED
    BY <1>4, <2>1, <2>2, <2>3, <2>4
<1> QED
  BY <1>3, <1>4

-----------------------------------------------------------------------------
(* A start. *)

\* A start that succeeds, and all it changes.
LEMMA StartKept ==
  ASSUME JInv, NEW j \in J, Exists(j), StartRun(j), job' = job, faults' = faults
  PROVE  /\ runs' \in [J -> Seq(RunRows)] /\ \A k \in J : Len(runs'[k]) <= RunsKept + faults'
         /\ owed' \in [J -> 0..2] /\ \A k \in J : owed'[k] = IF k = j THEN 0 ELSE owed[k]
         /\ live' \subseteq J \X RunIds /\ stranded' \subseteq J \X RunIds
         /\ Rows'
<1>1. PICK id \in RunIds :
        /\ Fresh(j, id) /\ ~NoRoom(j)
        /\ runs' = [runs EXCEPT ![j] = Prune(Append(runs[j], Running(id)))]
        /\ live' = live \union {<<j, id>>} /\ stranded' = stranded \ {<<j, id>>}
        /\ owed' = [owed EXCEPT ![j] = 0]
  BY DEF StartRun
<1>2. PICK kept : kept = Prune(Append(runs[j], Running(id)))
  OBVIOUS
<1>3. Running(id) \in RunRows /\ Running(id).id = id
  BY RowTypes
<1>4. /\ kept \in Seq(RunRows) /\ Len(kept) <= RunsKept
      /\ \A i \in DOMAIN kept : kept[i] = Running(id) \/ \E k \in DOMAIN runs[j] : kept[i] = runs[j][k]
      /\ \E i \in DOMAIN kept : kept[i] = Running(id)
  <2>1. runs[j] \in Seq(RunRows)
    BY RowsBefore
  <2>2. kept \in Seq(RunRows) /\ Len(kept) <= RunsKept
    BY <1>2, <1>3, <2>1, PrunedAppend
  <2>3. \A i \in DOMAIN kept : kept[i] = Running(id) \/ \E k \in DOMAIN runs[j] : kept[i] = runs[j][k]
    BY <1>2, <1>3, <2>1, PrunedAppend
  <2>4. \E i \in DOMAIN kept : kept[i] = Running(id)
    BY <1>2, <1>3, <2>1, PrunedAppend
  <2> QED
    BY <2>2, <2>3, <2>4
<1>5. runs'[j] = kept /\ \A k \in J : k # j => runs'[k] = runs[k]
  BY <1>1, <1>2 DEF JInv, Timing, RunsShape
<1>6. runs' \in [J -> Seq(RunRows)] /\ \A k \in J : Len(runs'[k]) <= RunsKept + faults'
  <2>1. Len(kept) <= RunsKept + faults
    <3>1. Len(kept) \in Nat
      BY <1>4, LenProperties
    <3>2. faults \in Nat /\ RunsKept \in Nat
      BY JobsAssumption DEF JInv, Timing, TypeOK
    <3> QED
      BY <1>4, <3>1, <3>2
  <2>2. runs' \in [J -> Seq(RunRows)]
    BY <1>1, <1>2, <1>4 DEF JInv, Timing, RunsShape
  <2> QED
    BY <1>5, <2>1, <2>2, RowsBefore
<1>7. owed' \in [J -> 0..2] /\ \A k \in J : owed'[k] = IF k = j THEN 0 ELSE owed[k]
  BY <1>1 DEF JInv, Timing, TypeOK
<1>8. live' \subseteq J \X RunIds /\ stranded' \subseteq J \X RunIds
  BY <1>1 DEF JInv, Timing, TypeOK
<1>9. ASSUME NEW k \in J
      PROVE  /\ ~Exists(k) => runs'[k] = runs[k]
             /\ Told(k, runs'[k], live' \union stranded')
             /\ RunsTimeOut /\ job[k] # "deleted" => Shown(k, runs'[k], live')
  <2>1. /\ Told(k, runs[k], live \union stranded)
        /\ RunsTimeOut /\ job[k] # "deleted" => Shown(k, runs[k], live)
    BY RowsBefore
  <2>2. CASE k # j
    BY <1>1, <1>5, <2>1, <2>2 DEF Told, Shown
  <2>3. CASE k = j
    <3>1. live \union stranded \subseteq live' \union stranded' /\ <<j, id>> \in live'
      BY <1>1
    <3>2. Told(j, kept, live' \union stranded')
      BY <1>3, <1>4, <2>1, <2>3, <3>1 DEF Told
    <3>3. ASSUME RunsTimeOut, job[j] # "deleted" PROVE Shown(j, kept, live')
      <4>1. SUFFICES ASSUME NEW h \in RunIds, <<j, h>> \in live' PROVE \E i \in DOMAIN kept : kept[i] = Running(h)
        BY DEF Shown
      <4>2. CASE h = id
        BY <1>4, <4>2
      <4>3. CASE h # id
        <5>1. <<j, h>> \in live
          BY <1>1, <4>1, <4>3
        <5>2. PICK i \in DOMAIN runs[j] : runs[j][i] = Running(h)
          BY <2>1, <2>3, <3>3, <5>1 DEF Shown
        <5> QED
          BY <1>1, <1>2, <1>3, <3>3, <5>1, <5>2, AppendKeepsRuns DEF JInv, Timing
      <4> QED
        BY <4>2, <4>3
    <3> QED
      BY <1>5, <2>3, <3>2, <3>3
  <2> QED
    BY <2>2, <2>3
<1>10. Rows'
  BY <1>8, <1>9, <1>1, RowsKept
<1> QED
  BY <1>6, <1>7, <1>8, <1>10

\* A start that fails, and what it may leave.
LEMMA StartFailsKept ==
  ASSUME JInv, NEW j \in J, Exists(j), StartRunFails(j), job' = job, Fault
  PROVE  /\ runs' \in [J -> Seq(RunRows)] /\ \A k \in J : Len(runs'[k]) <= RunsKept + faults'
         /\ owed' \in [J -> 0..2] /\ \A k \in J : owed'[k] > 0 => owed[k] > 0
         /\ live' \subseteq J \X RunIds /\ stranded' \subseteq J \X RunIds
         /\ Rows'
<1>0. faults' = faults + 1 /\ faults \in Nat /\ faults' # 0 /\ RunsKept \in Nat
  BY JobsAssumption DEF Fault, JInv, Timing, TypeOK
<1>1. live' = live
  BY DEF StartRunFails
<1>2. CASE UNCHANGED <<runs, owed, stranded>>
  <2>1. runs' \in [J -> Seq(RunRows)] /\ \A k \in J : Len(runs'[k]) <= RunsKept + faults'
    <3>1. \A k \in J : Len(runs[k]) \in Nat /\ Len(runs[k]) <= RunsKept + faults
      BY RowsBefore
    <3>2. \A k \in J : Len(runs[k]) <= RunsKept + faults'
      BY <1>0, <3>1
    <3> QED
      BY <1>2, <3>2 DEF JInv, Timing, RunsShape
  <2>2. Rows'
    <3>1. \A k \in J : /\ ~Exists(k) => runs'[k] = runs[k]
                       /\ Told(k, runs'[k], live' \union stranded')
                       /\ RunsTimeOut /\ job[k] # "deleted" => Shown(k, runs'[k], live')
      BY <1>1, <1>2, RowsBefore
    <3> QED
      BY <1>0, <1>1, <3>1, RowsKept DEF JInv, Timing, TypeOK
  <2> QED
    BY <1>1, <1>2, <2>1, <2>2 DEF JInv, Timing, TypeOK
<1>3. CASE \E id \in RunIds :
             /\ Fresh(j, id)
             /\ runs' = [runs EXCEPT ![j] = Append(runs[j], Running(id))]
             /\ stranded' = stranded \union {<<j, id>>}
             /\ owed' = [owed EXCEPT ![j] = 0]
  <2>1. PICK id \in RunIds :
          /\ runs' = [runs EXCEPT ![j] = Append(runs[j], Running(id))]
          /\ stranded' = stranded \union {<<j, id>>}
          /\ owed' = [owed EXCEPT ![j] = 0]
    BY <1>3
  <2>2. PICK more : more = Append(runs[j], Running(id))
    OBVIOUS
  <2>3. Running(id) \in RunRows /\ Running(id).id = id
    BY RowTypes
  <2>4. /\ more \in Seq(RunRows) /\ Len(more) = Len(runs[j]) + 1
        /\ \A i \in DOMAIN more : more[i] = Running(id) \/ \E k \in DOMAIN runs[j] : more[i] = runs[j][k]
        /\ \A k \in DOMAIN runs[j] : \E i \in DOMAIN more : more[i] = runs[j][k]
    <3>1. runs[j] \in Seq(RunRows)
      BY RowsBefore
    <3> QED
      BY <2>2, <2>3, <3>1, Appended
  <2>5. runs'[j] = more /\ \A k \in J : k # j => runs'[k] = runs[k]
    BY <2>1, <2>2 DEF JInv, Timing, RunsShape
  <2>6. runs' \in [J -> Seq(RunRows)] /\ \A k \in J : Len(runs'[k]) <= RunsKept + faults'
    <3>1. \A k \in J : Len(runs[k]) \in Nat /\ Len(runs[k]) <= RunsKept + faults
      BY RowsBefore
    <3>2. \A k \in J : Len(runs[k]) <= RunsKept + faults'
      BY <1>0, <3>1
    <3>3. Len(more) <= RunsKept + faults'
      BY <1>0, <2>4, <3>1
    <3>4. runs' \in [J -> Seq(RunRows)]
      BY <2>1, <2>2, <2>4 DEF JInv, Timing, RunsShape
    <3> QED
      BY <2>5, <3>2, <3>3, <3>4
  <2>7. owed' \in [J -> 0..2] /\ \A k \in J : owed'[k] > 0 => owed[k] > 0
    BY <2>1 DEF JInv, Timing, TypeOK
  <2>8. live' \subseteq J \X RunIds /\ stranded' \subseteq J \X RunIds
    BY <1>1, <2>1 DEF JInv, Timing, TypeOK
  <2>9. ASSUME NEW k \in J
        PROVE  /\ ~Exists(k) => runs'[k] = runs[k]
               /\ Told(k, runs'[k], live' \union stranded')
               /\ RunsTimeOut /\ job[k] # "deleted" => Shown(k, runs'[k], live')
    <3>1. /\ Told(k, runs[k], live \union stranded)
          /\ RunsTimeOut /\ job[k] # "deleted" => Shown(k, runs[k], live)
      BY RowsBefore
    <3>2. CASE k # j
      BY <1>1, <2>1, <2>5, <3>1, <3>2 DEF Told, Shown
    <3>3. CASE k = j
      <4>1. Told(j, more, live' \union stranded')
        BY <1>1, <2>1, <2>3, <2>4, <3>1, <3>3 DEF Told
      <4>2. ASSUME RunsTimeOut, job[j] # "deleted" PROVE Shown(j, more, live')
        BY <1>1, <2>4, <3>1, <3>3, <4>2 DEF Shown
      <4> QED
        BY <2>5, <3>3, <4>1, <4>2
    <3> QED
      BY <3>2, <3>3
  <2>10. Rows'
    BY <1>0, <2>8, <2>9, RowsKept
  <2> QED
    BY <2>6, <2>7, <2>8, <2>10
<1> QED
  BY <1>2, <1>3 DEF StartRunFails

-----------------------------------------------------------------------------
(* A finish, and a pass. *)

LEMMA Overwritten ==
  ASSUME NEW rows \in Seq(RunRows), NEW id \in RunIds,
         NEW over, over = [i \in DOMAIN rows |-> IF rows[i].id = id THEN Ended ELSE rows[i]]
  PROVE  /\ over \in Seq(RunRows) /\ Len(over) = Len(rows) /\ DOMAIN over = DOMAIN rows
         /\ rows = <<>> => over = <<>>
         /\ \A i \in DOMAIN rows : over[i] = IF rows[i].id = id THEN Ended ELSE rows[i]
<1>1. DOMAIN rows = 1..Len(rows) /\ Len(rows) \in Nat /\ \A i \in DOMAIN rows : rows[i] \in RunRows
  BY LenProperties
<1>2. \A i \in DOMAIN rows : over[i] = IF rows[i].id = id THEN Ended ELSE rows[i]
  OBVIOUS
<1>3. over \in [1..Len(rows) -> RunRows]
  BY <1>1, RowTypes
<1>4. over \in Seq(RunRows) /\ Len(over) = Len(rows)
  BY <1>1, <1>3
<1>5. rows = <<>> => over = <<>>
  BY <1>4, EmptySeq
<1> QED
  BY <1>1, <1>2, <1>3, <1>4, <1>5

LEMMA FinishKept == ASSUME JInv, NEW j \in J, NEW id \in RunIds, Finish(j, id) PROVE JInv'
<1>1. PICK over : over = [i \in DOMAIN runs[j] |-> IF runs[j][i].id = id THEN Ended ELSE runs[j][i]]
  OBVIOUS
<1>2. runs[j] \in Seq(RunRows) /\ Len(runs[j]) <= RunsKept + faults /\ runs \in [J -> Seq(RunRows)]
  BY DEF JInv, Timing, TypeOK, RunsShape
<1>3. /\ over \in Seq(RunRows) /\ Len(over) = Len(runs[j]) /\ DOMAIN over = DOMAIN runs[j]
      /\ runs[j] = <<>> => over = <<>>
      /\ \A i \in DOMAIN over : over[i] = IF runs[j][i].id = id THEN Ended ELSE runs[j][i]
  BY <1>1, <1>2, Overwritten
<1>4. /\ runs' = [runs EXCEPT ![j] = over]
      /\ live' = live \ {<<j, id>>}
      /\ UNCHANGED <<job, owed, unserved, stranded, chosen, pressed, faults>>
  BY <1>1, <1>2 DEF Finish
<1>5. runs'[j] = over /\ \A k \in J : k # j => runs'[k] = runs[k]
  BY <1>2, <1>4
<1>6. Timing'
  BY <1>2, <1>3, <1>4 DEF JInv, Timing, TypeOK, RunsShape, OwedIsUnserved, ChosenIsUnserved
<1>7. ASSUME NEW k \in J
      PROVE  /\ ~Exists(k) => runs'[k] = runs[k]
             /\ Told(k, runs'[k], live' \union stranded')
             /\ RunsTimeOut /\ job[k] # "deleted" => Shown(k, runs'[k], live')
  <2>1. /\ Told(k, runs[k], live \union stranded)
        /\ RunsTimeOut /\ job[k] # "deleted" => Shown(k, runs[k], live)
    BY RowsBefore
  <2>2. CASE k # j
    BY <1>4, <1>5, <2>1, <2>2 DEF Told, Shown
  <2>3. CASE k = j
    <3>1. ~Exists(j) => over = runs[j]
      BY <1>3 DEF JInv, Rows, NoJobNoRuns
    <3>2. Told(j, over, live' \union stranded')
      <4>1. SUFFICES ASSUME NEW i \in DOMAIN over, over[i].status = "running"
                     PROVE  <<j, over[i].id>> \in live' \union stranded'
        BY DEF Told
      <4>2. runs[j][i].id # id /\ over[i] = runs[j][i] /\ i \in DOMAIN runs[j]
        BY <1>3, <4>1, RowTypes
      <4> QED
        BY <1>4, <2>1, <2>3, <4>1, <4>2 DEF Told
    <3>3. ASSUME RunsTimeOut, job[j] # "deleted" PROVE Shown(j, over, live')
      <4>1. SUFFICES ASSUME NEW h \in RunIds, <<j, h>> \in live' PROVE \E i \in DOMAIN over : over[i] = Running(h)
        BY DEF Shown
      <4>2. <<j, h>> \in live /\ h # id
        BY <1>4, <4>1
      <4>3. PICK i \in DOMAIN runs[j] : runs[j][i] = Running(h)
        BY <2>1, <2>3, <3>3, <4>2 DEF Shown
      <4>4. runs[j][i].id # id
        BY <4>2, <4>3, RowTypes
      <4> QED
        BY <1>3, <4>3, <4>4
    <3> QED
      BY <1>5, <2>3, <3>1, <3>2, <3>3
  <2> QED
    BY <2>2, <2>3
<1>8. Rows'
  <2>1. live' \subseteq J \X RunIds
    BY <1>4 DEF JInv, Timing, TypeOK
  <2> QED
    BY <1>4, <1>7, <2>1, RowsKept
<1> QED
  BY <1>6, <1>8 DEF JInv

\* What a run that is left behind does to what is known of it: a job that is gone has no rows for it.
LEMMA StrandKept ==
  ASSUME JInv, NEW rs, rs \subseteq live, Fault, live' = live \ rs, Strand(rs), runs' = runs, job' = job
  PROVE  Rows' /\ live' \subseteq J \X RunIds /\ stranded' \subseteq J \X RunIds
<1>0. faults' # 0
  BY DEF Fault, JInv, Timing, TypeOK
<1>1. live' \subseteq J \X RunIds /\ stranded' \subseteq J \X RunIds
  BY DEF Strand, JInv, Timing, TypeOK
<1>2. ASSUME NEW k \in J
      PROVE  /\ ~Exists(k) => runs'[k] = runs[k]
             /\ Told(k, runs'[k], live' \union stranded')
             /\ RunsTimeOut /\ job[k] # "deleted" => Shown(k, runs'[k], live')
  <2>1. /\ Told(k, runs[k], live \union stranded)
        /\ RunsTimeOut /\ job[k] # "deleted" => Shown(k, runs[k], live)
    BY RowsBefore
  <2>2. Told(k, runs[k], live' \union stranded')
    <3>1. CASE Exists(k)
      <4>1. \A h : <<k, h>> \in live \union stranded => <<k, h>> \in live' \union stranded'
        BY <3>1 DEF Strand
      <4> QED
        BY <2>1, <4>1 DEF Told
    <3>2. CASE ~Exists(k)
      <4>1. runs[k] = <<>>
        BY <3>2 DEF JInv, Rows, NoJobNoRuns
      <4>2. DOMAIN runs[k] = {}
        BY <4>1
      <4> QED
        BY <4>2 DEF Told
    <3> QED
      BY <3>1, <3>2
  <2>3. RunsTimeOut /\ job[k] # "deleted" => Shown(k, runs[k], live')
    BY <2>1 DEF Shown
  <2> QED
    BY <2>2, <2>3
<1> QED
  BY <1>0, <1>1, <1>2, RowsKept

LEMMA StrandingKept ==
  ASSUME JInv, Crash \/ \E j \in J : \E id \in RunIds : FinishFails(j, id)
  PROVE  JInv'
<1>1. PICK rs : rs \subseteq live /\ live' = live \ rs /\ Strand(rs)
  <2>1. CASE Crash
    BY <2>1 DEF Crash
  <2>2. ASSUME NEW j \in J, NEW id \in RunIds, FinishFails(j, id)
        PROVE  {<<j, id>>} \subseteq live /\ live' = live \ {<<j, id>>} /\ Strand({<<j, id>>})
    BY <2>2 DEF FinishFails
  <2> QED
    BY <2>1, <2>2
<1>2. /\ Fault /\ UNCHANGED <<job, runs, owed, unserved>>
      /\ chosen' \subseteq chosen /\ pressed' \subseteq pressed
  BY DEF Crash, FinishFails
<1>3. Rows' /\ live' \subseteq J \X RunIds /\ stranded' \subseteq J \X RunIds
  BY <1>1, <1>2, StrandKept
<1>4. faults' \in 0..MaxFaults /\ faults' = faults + 1 /\ faults \in Nat /\ RunsKept \in Nat
  BY <1>2, JobsAssumption DEF Fault, JInv, Timing, TypeOK
<1>5. \A k \in J : runs[k] \in Seq(RunRows) /\ Len(runs[k]) <= RunsKept + faults'
  <2>1. \A k \in J : runs[k] \in Seq(RunRows) /\ Len(runs[k]) \in Nat /\ Len(runs[k]) <= RunsKept + faults
    BY RowsBefore
  <2> QED
    BY <1>4, <2>1
<1> QED
  BY <1>2, <1>3, <1>4, <1>5 DEF JInv, Timing, TypeOK, RunsShape, OwedIsUnserved, ChosenIsUnserved

\* What a pass does to one job's history.
LEMMA DueMeans ==
  ASSUME NEW j \in J
  PROVE  /\ Skipped(j) => job[j] = "enabled"
         /\ Due(j) = "run" => job[j] = "enabled" /\ owed[j] # 0 /\ ~IsRunning(j)
BY DEF Due, Skipped

\* A pass that succeeds and one a statement of which fails: each history stays as it was, or takes a
\* skip that is pruned, or, at a fault, one that is not.
LEMMA PassKept == ASSUME JInv, Scan \/ ScanFails PROVE JInv'
<1>1. /\ \A j \in J : Skipped(j) => ~NoRoom(j)
      /\ UNCHANGED <<job, owed, unserved, live, stranded, pressed>>
      /\ faults' = faults \/ Fault
  BY DEF Scan, ScanFails
<1>2. \A j \in chosen' : j \in J /\ Due(j) = "run"
  <2>1. Candidates \subseteq {j \in J : Due(j) = "run"}
    BY DEF Candidates
  <2> QED
    BY <2>1 DEF Scan, ScanFails
<1>3. /\ runs' = [j \in J |-> runs'[j]]
      /\ \A j \in J : \/ runs'[j] = runs[j]
                      \/ Skipped(j) /\ runs'[j] = Prune(Append(runs[j], Skip))
                      \/ Skipped(j) /\ runs'[j] = Append(runs[j], Skip) /\ Fault
  <2>1. CASE Scan
    BY <2>1 DEF Scan, RecordSkips
  <2>2. CASE ScanFails
    <3>1. PICK k \in J :
            \/ runs' = [j \in J |-> IF j < k THEN RecordSkips[j] ELSE runs[j]]
            \/ /\ Skipped(k)
               /\ \E rows \in {runs[k], Append(runs[k], Skip)} : runs' = [RecordSkips EXCEPT ![k] = rows]
      BY <2>2 DEF ScanFails
    <3>2. \A j \in J : RecordSkips[j] = IF Skipped(j) THEN Prune(Append(runs[j], Skip)) ELSE runs[j]
      BY DEF RecordSkips
    <3>3. CASE runs' = [j \in J |-> IF j < k THEN RecordSkips[j] ELSE runs[j]]
      BY <3>2, <3>3
    <3>4. CASE /\ Skipped(k)
               /\ \E rows \in {runs[k], Append(runs[k], Skip)} : runs' = [RecordSkips EXCEPT ![k] = rows]
      <4>1. PICK rows \in {runs[k], Append(runs[k], Skip)} : runs' = [RecordSkips EXCEPT ![k] = rows]
        BY <3>4
      <4>2. runs' = [j \in J |-> IF j = k THEN rows ELSE RecordSkips[j]]
        BY <4>1 DEF RecordSkips
      <4>3. runs' = [j \in J |-> runs'[j]]
        BY <4>2
      <4>4. \A j \in J : runs'[j] = IF j = k THEN rows ELSE RecordSkips[j]
        BY <4>2
      <4>5. Fault
        BY <2>2 DEF ScanFails
      <4> QED
        BY <3>2, <3>4, <4>3, <4>4, <4>5
    <3> QED
      BY <3>1, <3>3, <3>4
  <2> QED
    BY <2>1, <2>2
<1>4. /\ faults \in Nat /\ faults' \in 0..MaxFaults /\ faults <= faults' /\ RunsKept \in Nat
      /\ Fault => faults' = faults + 1
  BY <1>1, JobsAssumption DEF Fault, JInv, Timing, TypeOK
<1>5. ASSUME NEW j \in J
      PROVE  /\ runs'[j] \in Seq(RunRows) /\ Len(runs'[j]) <= RunsKept + faults'
             /\ ~Exists(j) => runs'[j] = runs[j]
             /\ Told(j, runs'[j], live' \union stranded')
             /\ RunsTimeOut /\ job[j] # "deleted" => Shown(j, runs'[j], live')
  <2>1. CASE runs'[j] = runs[j]
    <3>1. /\ runs[j] \in Seq(RunRows) /\ Len(runs[j]) <= RunsKept + faults /\ Len(runs[j]) \in Nat
          /\ Told(j, runs[j], live \union stranded)
          /\ RunsTimeOut /\ job[j] # "deleted" => Shown(j, runs[j], live)
      BY RowsBefore
    <3>2. Len(runs[j]) <= RunsKept + faults'
      BY <1>4, <3>1
    <3> QED
      BY <1>1, <2>1, <3>1, <3>2
  <2>2. CASE Skipped(j) /\ \/ runs'[j] = Prune(Append(runs[j], Skip))
                           \/ runs'[j] = Append(runs[j], Skip) /\ Fault
    <3>1. ~NoRoom(j) /\ Exists(j)
      BY <1>1, <2>2, DueMeans DEF Exists
    <3>2. PICK rows : rows = runs'[j]
      OBVIOUS
    <3>3. rows = Prune(Append(runs[j], Skip)) \/ rows = Append(runs[j], Skip)
      BY <2>2, <3>2
    <3>4. /\ rows \in Seq(RunRows) /\ Len(rows) <= RunsKept + faults + 1
          /\ rows = Prune(Append(runs[j], Skip)) => Len(rows) <= RunsKept + faults
          /\ Told(j, rows, live \union stranded)
          /\ RunsTimeOut /\ job[j] # "deleted" => Shown(j, rows, live)
      BY <3>1, <3>3, SkipKept
    <3>5. Len(rows) <= RunsKept + faults'
      <4>1. Len(rows) \in Nat
        BY <3>4, LenProperties
      <4>2. CASE Fault
        BY <1>4, <3>4, <4>1, <4>2
      <4>3. CASE rows = Prune(Append(runs[j], Skip))
        BY <1>4, <3>4, <4>1, <4>3
      <4> QED
        BY <2>2, <3>2, <4>2, <4>3
    <3> QED
      BY <1>1, <3>1, <3>2, <3>4, <3>5
  <2> QED
    BY <1>3, <2>1, <2>2
<1>6. TypeOK' /\ RunsShape'
  <2>1. runs' \in [J -> Seq(RunRows)]
    BY <1>3, <1>5
  <2> QED
    BY <1>1, <1>2, <1>4, <1>5, <2>1 DEF JInv, Timing, TypeOK, RunsShape
<1>7. OwedIsUnserved' /\ ChosenIsUnserved'
  <2>1. \A j \in J : owed[j] # 0 => unserved[j]
    BY DEF JInv, Timing, TypeOK, OwedIsUnserved
  <2> QED
    BY <1>1, <1>2, <2>1, DueMeans DEF JInv, Timing, OwedIsUnserved, ChosenIsUnserved
<1>8. Rows'
  <2>1. live' \subseteq J \X RunIds /\ (faults' # 0 \/ (faults' = faults /\ stranded' \subseteq stranded))
    BY <1>1, <1>4 DEF JInv, Timing, TypeOK
  <2> QED
    BY <1>1, <1>5, <2>1, RowsKept
<1> QED
  BY <1>6, <1>7, <1>8 DEF JInv, Timing

-----------------------------------------------------------------------------
(* The invariant. *)

LEMMA JInvInit == Init => JInv
<1> SUFFICES ASSUME Init PROVE JInv
  OBVIOUS
<1>1. RunsShape /\ \A j \in J : runs[j] \in Seq(RunRows) /\ Len(runs[j]) <= RunsKept
  <2>1. ASSUME NEW j \in J PROVE runs[j] \in Seq(RunRows) /\ Len(runs[j]) <= RunsKept
    BY RowTypes, JobsAssumption DEF Init
  <2> QED
    BY <2>1 DEF Init, RunsShape
<1>2. TypeOK
  <2>1. faults = 0 /\ RunsKept + faults = RunsKept
    BY JobsAssumption DEF Init
  <2> QED
    BY <1>1, <2>1, JobsAssumption DEF Init, TypeOK
<1>3. OwedIsUnserved /\ ChosenIsUnserved
  BY DEF Init, OwedIsUnserved, ChosenIsUnserved
<1>4. NoJobNoRuns /\ LiveIsRecorded /\ StrandedNeedsFault
  BY DEF Init, NoJobNoRuns, LiveIsRecorded, StrandedNeedsFault, Exists
<1>5. RunningIsTold
  BY RowTypes DEF Init, RunningIsTold
<1> QED
  BY <1>1, <1>2, <1>3, <1>4, <1>5 DEF JInv, Timing, Rows

\* Creating, switching, pressing and an occurrence touch no history.
LEMMA QuietKept ==
  ASSUME JInv, NEW j \in J, Create(j) \/ SetEnabled(j) \/ PressRunNow(j) \/ Occur(j)
  PROVE  JInv'
<1>1. runs' = runs /\ live' = live /\ stranded' = stranded /\ chosen' = chosen /\ faults' = faults
  BY DEF Create, SetEnabled, PressRunNow, Occur
<1>2. /\ job' \in [J -> {"none", "enabled", "disabled", "deleted"}]
      /\ \A k \in J : job'[k] = "deleted" <=> job[k] = "deleted"
      /\ \A k \in J : Exists(k) => job'[k] \in {"enabled", "disabled"}
  BY DEF JInv, Timing, TypeOK, Create, SetEnabled, PressRunNow, Occur, Exists
<1>3. /\ owed' \in [J -> 0..2] /\ unserved' \in [J -> BOOLEAN]
      /\ \A k \in J : unserved[k] => unserved'[k]
      /\ \A k \in J : owed'[k] > 0 => owed'[k] = owed[k] \/ unserved'[k]
  <2>1. CASE Occur(j)
    <3>1. unserved' = [unserved EXCEPT ![j] = TRUE] /\ unserved \in [J -> BOOLEAN] /\ owed \in [J -> 0..2]
      BY <2>1 DEF JInv, Timing, TypeOK, Occur
    <3>2. unserved' \in [J -> BOOLEAN] /\ unserved'[j] /\ \A k \in J : unserved[k] => unserved'[k]
      BY <3>1
    <3>3. CASE owed' = owed
      BY <3>1, <3>2, <3>3
    <3>4. CASE owed' = [owed EXCEPT ![j] = IF @ = 2 THEN 2 ELSE @ + 1]
      <4>1. (IF owed[j] = 2 THEN 2 ELSE owed[j] + 1) \in 0..2
        BY <3>1
      <4>2. owed' \in [J -> 0..2] /\ \A k \in J : k # j => owed'[k] = owed[k]
        BY <3>1, <3>4, <4>1
      <4> QED
        BY <3>2, <4>2
    <3> QED
      BY <2>1, <3>3, <3>4 DEF Occur
  <2>2. CASE Create(j) \/ SetEnabled(j) \/ PressRunNow(j)
    BY <2>2 DEF JInv, Timing, TypeOK, Create, SetEnabled, PressRunNow
  <2> QED
    BY <2>1, <2>2
<1>4. pressed' \subseteq J
  BY DEF JInv, Timing, TypeOK, Create, SetEnabled, PressRunNow, Occur
<1>5. Timing'
  BY <1>1, <1>2, <1>3, <1>4 DEF JInv, Timing, TypeOK, RunsShape, OwedIsUnserved, ChosenIsUnserved
<1>6. Rows'
  <2>1. NoJobNoRuns' /\ RunningIsTold' /\ StrandedNeedsFault'
    BY <1>1, <1>2 DEF JInv, Rows, NoJobNoRuns, Exists, RunningIsTold, StrandedNeedsFault
  <2>2. ASSUME RunsTimeOut PROVE LiveIsRecorded'
    <3>1. \A r \in live : r[1] \in J
      BY DEF JInv, Timing, TypeOK
    <3> QED
      BY <1>1, <1>2, <2>2, <3>1 DEF JInv, Rows, LiveIsRecorded
  <2> QED
    BY <2>1, <2>2 DEF Rows
<1> QED
  BY <1>5, <1>6 DEF JInv

LEMMA DeleteKept == ASSUME JInv, NEW j \in J, Delete(j) PROVE JInv'
<1>1. /\ job' = [job EXCEPT ![j] = "deleted"] /\ runs' = [runs EXCEPT ![j] = <<>>]
      /\ stranded' = {r \in stranded : r[1] # j}
      /\ UNCHANGED <<owed, unserved, live, chosen, pressed, faults>>
  BY DEF Delete
<1>2. /\ runs' \in [J -> Seq(RunRows)] /\ runs'[j] = <<>> /\ Len(runs'[j]) = 0
      /\ \A k \in J : k # j => runs'[k] = runs[k]
  BY <1>1, EmptySeq DEF JInv, Timing, RunsShape
<1>3. Timing'
  <2>1. \A k \in J : runs'[k] \in Seq(RunRows) /\ Len(runs'[k]) <= RunsKept + faults
    <3>1. ASSUME NEW k \in J, k # j PROVE runs'[k] \in Seq(RunRows) /\ Len(runs'[k]) <= RunsKept + faults
      BY <1>2, <3>1 DEF JInv, Timing, TypeOK
    <3>2. runs'[j] \in Seq(RunRows) /\ Len(runs'[j]) <= RunsKept + faults
      BY <1>2, JobsAssumption DEF JInv, Timing, TypeOK
    <3> QED
      BY <3>1, <3>2
  <2> QED
    BY <1>1, <1>2, <2>1 DEF JInv, Timing, TypeOK, RunsShape, OwedIsUnserved, ChosenIsUnserved
<1>4. NoJobNoRuns' /\ RunningIsTold' /\ StrandedNeedsFault'
  <2>1. \A k \in J : k # j => job'[k] = job[k]
    BY <1>1 DEF JInv, Timing, TypeOK
  <2>2. NoJobNoRuns'
    BY <1>2, <2>1 DEF JInv, Rows, NoJobNoRuns, Exists
  <2>3. RunningIsTold'
    <3>1. SUFFICES ASSUME NEW k \in J, NEW i \in DOMAIN runs'[k], runs'[k][i].status = "running"
                   PROVE  <<k, runs'[k][i].id>> \in live' \union stranded'
      BY DEF RunningIsTold
    <3>2. k # j
      BY <1>2, <3>1
    <3> QED
      BY <1>1, <1>2, <3>1, <3>2 DEF JInv, Rows, RunningIsTold
  <2>4. StrandedNeedsFault'
    BY <1>1 DEF JInv, Rows, StrandedNeedsFault
  <2> QED
    BY <2>2, <2>3, <2>4
<1>5. ASSUME RunsTimeOut PROVE LiveIsRecorded'
  <2>1. \A r \in live : r[1] \in J
    BY DEF JInv, Timing, TypeOK
  <2> QED
    BY <1>1, <1>2, <1>5, <2>1 DEF JInv, Timing, TypeOK, Rows, LiveIsRecorded
<1> QED
  BY <1>3, <1>4, <1>5 DEF JInv, Rows

\* A press that goes on to start a run, or fails to.
LEMMA RunNowKept == ASSUME JInv, NEW j \in J, RunNow(j) \/ RunNowFails(j) PROVE JInv'
<1>1. pressed' = pressed \ {j} /\ UNCHANGED <<job, unserved, chosen>>
  BY DEF RunNow, RunNowFails
<1>2. CASE Exists(j) /\ StartRun(j) /\ faults' = faults
  <2>1. /\ runs' \in [J -> Seq(RunRows)] /\ \A k \in J : Len(runs'[k]) <= RunsKept + faults'
        /\ owed' \in [J -> 0..2] /\ \A k \in J : owed'[k] = IF k = j THEN 0 ELSE owed[k]
        /\ live' \subseteq J \X RunIds /\ stranded' \subseteq J \X RunIds
        /\ Rows'
    BY <1>1, <1>2, StartKept
  <2>2. \A k \in J : owed'[k] > 0 => owed[k] > 0
    BY <2>1
  <2> QED
    BY <1>1, <1>2, <2>1, <2>2 DEF JInv, Timing, TypeOK, RunsShape, OwedIsUnserved, ChosenIsUnserved
<1>3. CASE Exists(j) /\ StartRunFails(j) /\ Fault
  <2>1. /\ runs' \in [J -> Seq(RunRows)] /\ \A k \in J : Len(runs'[k]) <= RunsKept + faults'
        /\ owed' \in [J -> 0..2] /\ \A k \in J : owed'[k] > 0 => owed[k] > 0
        /\ live' \subseteq J \X RunIds /\ stranded' \subseteq J \X RunIds
        /\ Rows'
    BY <1>1, <1>3, StartFailsKept
  <2>2. faults' \in 0..MaxFaults
    BY <1>3, JobsAssumption DEF Fault, JInv, Timing, TypeOK
  <2> QED
    BY <1>1, <2>1, <2>2 DEF JInv, Timing, TypeOK, RunsShape, OwedIsUnserved, ChosenIsUnserved
<1>4. CASE UNCHANGED <<runs, live, stranded, owed, faults>>
  BY <1>1, <1>4 DEF JInv, Timing, TypeOK, RunsShape, OwedIsUnserved, ChosenIsUnserved,
                    Rows, NoJobNoRuns, Exists, RunningIsTold, StrandedNeedsFault, LiveIsRecorded
<1> QED
  BY <1>2, <1>3, <1>4 DEF RunNow, RunNowFails

\* The same of a pass, which besides serves the occurrence.
LEMMA StartChosenKept == ASSUME JInv, StartChosen \/ StartChosenFails PROVE JInv'
<1>1. PICK j \in chosen :
        /\ chosen' = chosen \ {j}
        /\ \/ Exists(j) /\ StartRun(j) /\ unserved' = [unserved EXCEPT ![j] = FALSE] /\ faults' = faults
           \/ Exists(j) /\ StartRunFails(j) /\ UNCHANGED unserved /\ Fault
           \/ UNCHANGED <<runs, live, stranded, owed, unserved, faults>>
  BY DEF StartChosen, StartChosenFails
<1>2. j \in J /\ UNCHANGED <<job, pressed>>
  BY DEF JInv, Timing, TypeOK, StartChosen, StartChosenFails
<1>3. CASE Exists(j) /\ StartRun(j) /\ unserved' = [unserved EXCEPT ![j] = FALSE] /\ faults' = faults
  <2>1. /\ runs' \in [J -> Seq(RunRows)] /\ \A k \in J : Len(runs'[k]) <= RunsKept + faults'
        /\ owed' \in [J -> 0..2] /\ \A k \in J : owed'[k] = IF k = j THEN 0 ELSE owed[k]
        /\ live' \subseteq J \X RunIds /\ stranded' \subseteq J \X RunIds
        /\ Rows'
    BY <1>2, <1>3, StartKept
  <2>2. unserved' \in [J -> BOOLEAN] /\ \A k \in J : k # j => unserved'[k] = unserved[k]
    BY <1>2, <1>3 DEF JInv, Timing, TypeOK
  <2>3. TypeOK' /\ RunsShape'
    BY <1>1, <1>2, <1>3, <2>1, <2>2 DEF JInv, Timing, TypeOK, RunsShape
  <2>4. OwedIsUnserved' /\ ChosenIsUnserved'
    <3>1. \A k \in J : owed'[k] > 0 => k # j /\ owed[k] > 0
      BY <2>1
    <3>2. OwedIsUnserved'
      BY <2>2, <3>1 DEF JInv, Timing, OwedIsUnserved
    <3>3. ChosenIsUnserved'
      BY <1>1, <2>2 DEF JInv, Timing, TypeOK, ChosenIsUnserved
    <3> QED
      BY <3>2, <3>3
  <2> QED
    BY <2>1, <2>3, <2>4 DEF JInv, Timing
<1>4. CASE Exists(j) /\ StartRunFails(j) /\ UNCHANGED unserved /\ Fault
  <2>1. /\ runs' \in [J -> Seq(RunRows)] /\ \A k \in J : Len(runs'[k]) <= RunsKept + faults'
        /\ owed' \in [J -> 0..2] /\ \A k \in J : owed'[k] > 0 => owed[k] > 0
        /\ live' \subseteq J \X RunIds /\ stranded' \subseteq J \X RunIds
        /\ Rows'
    BY <1>2, <1>4, StartFailsKept
  <2>2. faults' \in 0..MaxFaults
    BY <1>4, JobsAssumption DEF Fault, JInv, Timing, TypeOK
  <2> QED
    BY <1>1, <1>2, <1>4, <2>1, <2>2 DEF JInv, Timing, TypeOK, RunsShape, OwedIsUnserved, ChosenIsUnserved
<1>5. CASE UNCHANGED <<runs, live, stranded, owed, unserved, faults>>
  BY <1>1, <1>2, <1>5 DEF JInv, Timing, TypeOK, RunsShape, OwedIsUnserved, ChosenIsUnserved,
                          Rows, NoJobNoRuns, Exists, RunningIsTold, StrandedNeedsFault, LiveIsRecorded
<1> QED
  BY <1>1, <1>3, <1>4, <1>5

LEMMA JInvNext == JInv /\ [Next]_vars => JInv'
<1> SUFFICES ASSUME JInv, [Next]_vars PROVE JInv'
  OBVIOUS
<1>1. ASSUME NEW j \in J, Create(j) \/ SetEnabled(j) \/ Delete(j) \/ PressRunNow(j) \/ Occur(j)
      PROVE  JInv'
  BY <1>1, QuietKept, DeleteKept
<1>2. ASSUME NEW j \in J, RunNow(j) \/ RunNowFails(j) PROVE JInv'
  BY <1>2, RunNowKept
<1>3. ASSUME NEW j \in J, NEW id \in RunIds, Finish(j, id) PROVE JInv'
  BY <1>3, FinishKept
<1>4. CASE Crash \/ \E j \in J : \E id \in RunIds : FinishFails(j, id)
  BY <1>4, StrandingKept
<1>5. CASE Scan \/ ScanFails \/ StartChosen \/ StartChosenFails
  BY <1>5, PassKept, StartChosenKept
<1>6. CASE UNCHANGED vars
  BY <1>6 DEF vars, JInv, Timing, TypeOK, RunsShape, OwedIsUnserved, ChosenIsUnserved,
              Rows, NoJobNoRuns, Exists, RunningIsTold, StrandedNeedsFault, LiveIsRecorded
<1> QED
  BY <1>1, <1>2, <1>3, <1>4, <1>5, <1>6 DEF Next

\* Jobs keeps to its types: no history outgrows RunsKept by more than the prunes that failed, however
\* its starts, skips and finishes interleave.
THEOREM JobsTypeCorrect == Spec => []TypeOK
<1>1. JInv => TypeOK
  BY DEF JInv, Timing
<1> QED
  BY <1>1, JInvInit, JInvNext, PTL DEF Spec

\* When a run times out before RunsKept later rows push its own out, the history shows every run
\* this process drives; it shows no other as running but those a crash or a failed statement left so;
\* and nothing is left of a job that was deleted under its run.
THEOREM JobsHistoryIsTrue == RunsTimeOut => (Spec => []HistoryIsTrue)
<1> SUFFICES ASSUME RunsTimeOut PROVE Spec => []HistoryIsTrue
  OBVIOUS
<1>1. JInv => HistoryIsTrue
  BY DEF JInv, Rows, HistoryIsTrue, NoJobNoRuns, Exists, DeletedLeavesNoRuns
<1> QED
  BY <1>1, JInvInit, JInvNext, PTL DEF Spec

-----------------------------------------------------------------------------
(* What a step may not do. *)

LEMMA OnlyScanChooses == ASSUME JInv, Next, ~Scan, ~ScanFails PROVE chosen' \subseteq chosen
BY DEF Next, Create, SetEnabled, Delete, PressRunNow, RunNow, RunNowFails, Occur, Finish, FinishFails,
       StartChosen, StartChosenFails, Crash

LEMMA PassSeesRunsStep ==
  ASSUME JInv, RunsTimeOut, [Next]_vars
  PROVE  \A j \in chosen' \ chosen : \A r \in live : r[1] # j
<1>1. CASE Scan \/ ScanFails
  <2>1. SUFFICES ASSUME NEW j \in chosen', NEW r \in live, r[1] = j PROVE FALSE
    OBVIOUS
  <2>2. j \in J /\ Due(j) = "run"
    BY <1>1 DEF Scan, ScanFails, Candidates
  <2>3. job[j] # "deleted" /\ ~IsRunning(j)
    BY <2>2, DueMeans
  <2>4. PICK i \in DOMAIN runs[j] : runs[j][i] = Running(r[2])
    BY <2>1, <2>3 DEF JInv, Rows, LiveIsRecorded
  <2> QED
    BY <2>3, <2>4 DEF IsRunning, Running
<1>2. CASE Next /\ ~Scan /\ ~ScanFails
  BY <1>2, OnlyScanChooses
<1>3. CASE UNCHANGED vars
  BY <1>3 DEF vars
<1> QED
  BY <1>1, <1>2, <1>3

\* A pass picks no job that has a run in flight: two runs of one job would both write a note. What a
\* pass reads is the history, so this rests on the history being true.
THEOREM JobsPassSeesRuns == RunsTimeOut => (Spec => PassSeesRuns)
<1> SUFFICES ASSUME RunsTimeOut PROVE Spec => PassSeesRuns
  OBVIOUS
<1>1. JInv /\ [Next]_vars => [\A j \in chosen' \ chosen : \A r \in live : r[1] # j]_vars
  BY PassSeesRunsStep
<1>2. Spec => []JInv /\ [][Next]_vars
  BY JInvInit, JInvNext, PTL DEF Spec
<1> QED
  BY <1>1, <1>2, PTL DEF PassSeesRuns

\* Never the whole backlog: each start by the scheduler answers an occurrence that fell since its
\* last one, whatever was missed, pruned or stranded by a crash in between.
THEOREM JobsOccurrenceServedOnce == Spec => OccurrenceServedOnce
<1>1. ASSUME JInv, [Next]_vars
      PROVE  \A j \in J : j \in chosen /\ j \notin chosen' /\ ~(live' \subseteq live) => unserved[j]
  BY <1>1 DEF JInv, Timing, ChosenIsUnserved
<1>2. JInv /\ [Next]_vars =>
        [\A j \in J : j \in chosen /\ j \notin chosen' /\ ~(live' \subseteq live) => unserved[j]]_vars
  BY <1>1
<1>3. Spec => []JInv /\ [][Next]_vars
  BY JInvInit, JInvNext, PTL DEF Spec
<1> QED
  BY <1>2, <1>3, PTL DEF OccurrenceServedOnce
=============================================================================
