--------------------------- MODULE MicrophoneProofs ---------------------------
(***************************************************************************)
(* Safety of the two parts that hold the microphone, for any meetings,     *)
(* frames, dictations, copies, faults and crashes.                         *)
(***************************************************************************)
EXTENDS Microphone, TLAPS

-----------------------------------------------------------------------------
(* Recording. A file and the name of it are written and removed by actors  *)
(* that do not wait for one another. The argument is that each may touch a *)
(* meeting only once its thread is past the file: a name is given after    *)
(* the file is whole, and a sweep takes up only what has a name.           *)

\* The thread has done all it will do to the file, and to the name of it.
Past == {"attached", "failed"} \union Over

NoRowNoThread   == \A m \in M : row[m] = "none" => thread[m] = "none"
WholeIsFiled    == \A m \in M : file[m] = "whole" => thread[m] \in {"filed"} \union Past
FiledIsKept     == \A m \in M : thread[m] = "filed" /\ file[m] = "whole" => m \in keeping
NamedIsPast     == \A m \in named : thread[m] \in Past
SweptIsPast     == \A s \in Sweeps : \A m \in sweep[s].todo : thread[m] \in Past
UnlinkedIsGone  == \A s \in Sweeps : sweep[s].unlinked # None =>
                     thread[sweep[s].unlinked] \in Past /\ file[sweep[s].unlinked] = "none"
AttachedIsNamed == \A m \in M : thread[m] \in {"attached", "done"} /\ file[m] = "whole" /\ HasRow(m) => m \in named
FlushedIsStored == \A m \in M : thread[m] \in {"flushed", "filed", "attached", "done"} =>
                     stored[m] = taken[m] /\ (taken[m] < heard[m] => tail[m] = MaxTail)

Parts == /\ NoRowNoThread /\ WholeIsFiled /\ FiledIsKept /\ NamedIsPast
         /\ SweptIsPast /\ UnlinkedIsGone /\ AttachedIsNamed /\ FlushedIsStored

RInv == TypeOK /\ Parts

SweepStates == [step : {"idle", "reading", "sweeping"}, under : {"off", "days", "until_deleted"},
                todo : SUBSET M, unlinked : M \union {None}]

LEMMA StartKept == ASSUME RInv, NEW m \in M, Start(m) PROVE RInv'
<1>1. TypeOK'
  BY RecordingAssumption DEF RInv, TypeOK, Start, audio, sound, trash, Running, Over
<1>2. NoRowNoThread'
  BY DEF RInv, Parts, TypeOK, Start, NoRowNoThread
<1>3. WholeIsFiled'
  BY DEF RInv, Parts, TypeOK, Start, WholeIsFiled, NoRowNoThread, Past, Over, audio
<1>4. FiledIsKept'
  BY DEF RInv, Parts, TypeOK, Start, FiledIsKept, WholeIsFiled, Past, Over, audio
<1>5. NamedIsPast'
  BY DEF RInv, Parts, TypeOK, Start, NamedIsPast, NoRowNoThread, Past, Over, audio
<1>6. SweptIsPast'
  BY DEF RInv, Parts, TypeOK, Start, SweptIsPast, NamedIsPast, NoRowNoThread, Past, Over
<1>7. UnlinkedIsGone'
  BY DEF RInv, Parts, TypeOK, Start, UnlinkedIsGone, SweptIsPast, WholeIsFiled, NoRowNoThread, Past,
           Over, audio
<1>8. AttachedIsNamed'
  BY DEF RInv, Parts, TypeOK, Start, AttachedIsNamed, UnlinkedIsGone, FiledIsKept, WholeIsFiled,
           NoRowNoThread, Past, Over, audio, HasRow
<1>9. FlushedIsStored'
  BY DEF RInv, Parts, TypeOK, Start, FlushedIsStored, NoRowNoThread, sound
<1> QED
  BY <1>1, <1>2, <1>3, <1>4, <1>5, <1>6, <1>7, <1>8, <1>9 DEF RInv, Parts

LEMMA StartFailsKept == ASSUME RInv, NEW m \in M, StartFails(m) PROVE RInv'
<1>1. TypeOK'
  BY RecordingAssumption DEF RInv, TypeOK, StartFails, audio, sound, calls, trash, Fault, Running, Over
<1>2. NoRowNoThread'
  BY DEF RInv, Parts, TypeOK, StartFails, NoRowNoThread
<1>3. WholeIsFiled'
  BY DEF RInv, Parts, TypeOK, StartFails, WholeIsFiled, NoRowNoThread, Past, Over, audio
<1>4. FiledIsKept'
  BY DEF RInv, Parts, TypeOK, StartFails, FiledIsKept, WholeIsFiled, Past, Over, audio
<1>5. NamedIsPast'
  BY DEF RInv, Parts, TypeOK, StartFails, NamedIsPast, NoRowNoThread, Past, Over, audio
<1>6. SweptIsPast'
  BY DEF RInv, Parts, TypeOK, StartFails, SweptIsPast, NamedIsPast, NoRowNoThread, Past, Over
<1>7. UnlinkedIsGone'
  BY DEF RInv, Parts, TypeOK, StartFails, UnlinkedIsGone, SweptIsPast, WholeIsFiled, NoRowNoThread, Past,
           Over, audio
<1>8. AttachedIsNamed'
  BY DEF RInv, Parts, TypeOK, StartFails, AttachedIsNamed, UnlinkedIsGone, FiledIsKept, WholeIsFiled,
           NoRowNoThread, Past, Over, audio, HasRow
<1>9. FlushedIsStored'
  BY DEF RInv, Parts, TypeOK, StartFails, FlushedIsStored, NoRowNoThread, sound
<1> QED
  BY <1>1, <1>2, <1>3, <1>4, <1>5, <1>6, <1>7, <1>8, <1>9 DEF RInv, Parts

LEMMA ImportKept == ASSUME RInv, NEW m \in M, Import(m) PROVE RInv'
<1>1. TypeOK'
  BY RecordingAssumption DEF RInv, TypeOK, Import, audio, calls, trash, Running, Over
<1>2. NoRowNoThread'
  BY DEF RInv, Parts, TypeOK, Import, NoRowNoThread
<1>3. WholeIsFiled'
  BY DEF RInv, Parts, TypeOK, Import, WholeIsFiled, NoRowNoThread, Past, Over, audio
<1>4. FiledIsKept'
  BY DEF RInv, Parts, TypeOK, Import, FiledIsKept, WholeIsFiled, Past, Over, audio
<1>5. NamedIsPast'
  BY DEF RInv, Parts, TypeOK, Import, NamedIsPast, NoRowNoThread, Past, Over, audio
<1>6. SweptIsPast'
  BY DEF RInv, Parts, TypeOK, Import, SweptIsPast, NamedIsPast, NoRowNoThread, Past, Over
<1>7. UnlinkedIsGone'
  BY DEF RInv, Parts, TypeOK, Import, UnlinkedIsGone, SweptIsPast, WholeIsFiled, NoRowNoThread, Past,
           Over, audio
<1>8. AttachedIsNamed'
  BY DEF RInv, Parts, TypeOK, Import, AttachedIsNamed, UnlinkedIsGone, FiledIsKept, WholeIsFiled,
           NoRowNoThread, Past, Over, audio, HasRow
<1>9. FlushedIsStored'
  BY DEF RInv, Parts, TypeOK, Import, FlushedIsStored, NoRowNoThread
<1> QED
  BY <1>1, <1>2, <1>3, <1>4, <1>5, <1>6, <1>7, <1>8, <1>9 DEF RInv, Parts

LEMMA HearKept == ASSUME RInv, NEW m \in M, Hear(m) PROVE RInv'
<1>1. TypeOK'
  BY RecordingAssumption DEF RInv, TypeOK, Hear, rows, audio, calls, trash
<1>2. FlushedIsStored'
  BY DEF RInv, Parts, TypeOK, Hear, FlushedIsStored
<1>3. NoRowNoThread' /\ WholeIsFiled' /\ FiledIsKept' /\ NamedIsPast' /\ SweptIsPast' /\ UnlinkedIsGone'
      /\ AttachedIsNamed'
  BY DEF RInv, Parts, Hear, NoRowNoThread, WholeIsFiled, FiledIsKept, NamedIsPast, SweptIsPast,
           UnlinkedIsGone, AttachedIsNamed, rows, audio, HasRow
<1> QED
  BY <1>1, <1>2, <1>3 DEF RInv, Parts

LEMMA OpenFileKept == ASSUME RInv, NEW m \in M, OpenFile(m) PROVE RInv'
<1>1. TypeOK'
  BY DEF RInv, TypeOK, OpenFile, rows, sound, calls, trash, Running, Over
<1>2. NoRowNoThread'
  BY DEF RInv, Parts, TypeOK, OpenFile, NoRowNoThread, rows
<1>3. WholeIsFiled'
  BY DEF RInv, Parts, TypeOK, OpenFile, WholeIsFiled, Past, Over
<1>4. FiledIsKept'
  BY DEF RInv, Parts, TypeOK, OpenFile, FiledIsKept, WholeIsFiled, Past, Over
<1>5. NamedIsPast'
  BY DEF RInv, Parts, TypeOK, OpenFile, NamedIsPast, Past, Over
<1>6. SweptIsPast'
  BY DEF RInv, Parts, TypeOK, OpenFile, SweptIsPast, NamedIsPast, Past, Over
<1>7. UnlinkedIsGone'
  BY DEF RInv, Parts, TypeOK, OpenFile, UnlinkedIsGone, SweptIsPast, WholeIsFiled, Past, Over
<1>8. AttachedIsNamed'
  BY DEF RInv, Parts, TypeOK, OpenFile, AttachedIsNamed, UnlinkedIsGone, FiledIsKept, WholeIsFiled, Past,
           Over, rows, HasRow
<1>9. FlushedIsStored'
  BY DEF RInv, Parts, TypeOK, OpenFile, FlushedIsStored, sound
<1> QED
  BY <1>1, <1>2, <1>3, <1>4, <1>5, <1>6, <1>7, <1>8, <1>9 DEF RInv, Parts

LEMMA SeeStopKept == ASSUME RInv, NEW m \in M, SeeStop(m) PROVE RInv'
<1>1. TypeOK'
  BY DEF RInv, TypeOK, SeeStop, rows, audio, sound, calls, trash, Running, Over
<1>2. NoRowNoThread'
  BY DEF RInv, Parts, TypeOK, SeeStop, NoRowNoThread, rows
<1>3. WholeIsFiled'
  BY DEF RInv, Parts, TypeOK, SeeStop, WholeIsFiled, Past, Over, audio
<1>4. FiledIsKept'
  BY DEF RInv, Parts, TypeOK, SeeStop, FiledIsKept, WholeIsFiled, Past, Over, audio
<1>5. NamedIsPast'
  BY DEF RInv, Parts, TypeOK, SeeStop, NamedIsPast, Past, Over, audio
<1>6. SweptIsPast'
  BY DEF RInv, Parts, TypeOK, SeeStop, SweptIsPast, NamedIsPast, Past, Over
<1>7. UnlinkedIsGone'
  BY DEF RInv, Parts, TypeOK, SeeStop, UnlinkedIsGone, SweptIsPast, WholeIsFiled, Past, Over, audio
<1>8. AttachedIsNamed'
  BY DEF RInv, Parts, TypeOK, SeeStop, AttachedIsNamed, UnlinkedIsGone, FiledIsKept, WholeIsFiled, Past,
           Over, rows, audio, HasRow
<1>9. FlushedIsStored'
  BY DEF RInv, Parts, TypeOK, SeeStop, FlushedIsStored, sound
<1> QED
  BY <1>1, <1>2, <1>3, <1>4, <1>5, <1>6, <1>7, <1>8, <1>9 DEF RInv, Parts

LEMMA TakeFrameKept == ASSUME RInv, NEW m \in M, TakeFrame(m) PROVE RInv'
<1>1. TypeOK'
  BY RecordingAssumption DEF RInv, TypeOK, TakeFrame, More, rows, audio, calls, trash
<1>2. FlushedIsStored'
  BY DEF RInv, Parts, TypeOK, TakeFrame, More, FlushedIsStored
<1>3. NoRowNoThread' /\ WholeIsFiled' /\ FiledIsKept' /\ NamedIsPast' /\ SweptIsPast' /\ UnlinkedIsGone'
      /\ AttachedIsNamed'
  BY DEF RInv, Parts, TakeFrame, NoRowNoThread, WholeIsFiled, FiledIsKept, NamedIsPast, SweptIsPast,
           UnlinkedIsGone, AttachedIsNamed, rows, audio, HasRow
<1> QED
  BY <1>1, <1>2, <1>3 DEF RInv, Parts

LEMMA FinishKept == ASSUME RInv, NEW m \in M, Finish(m) PROVE RInv'
<1>1. TypeOK'
  BY RecordingAssumption DEF RInv, TypeOK, Finish, rows, audio, calls, trash, Running, Over
<1>2. NoRowNoThread'
  BY DEF RInv, Parts, TypeOK, Finish, NoRowNoThread, rows
<1>3. WholeIsFiled'
  BY DEF RInv, Parts, TypeOK, Finish, WholeIsFiled, Past, Over, audio
<1>4. FiledIsKept'
  BY DEF RInv, Parts, TypeOK, Finish, FiledIsKept, WholeIsFiled, Past, Over, audio
<1>5. NamedIsPast'
  BY DEF RInv, Parts, TypeOK, Finish, NamedIsPast, Past, Over, audio
<1>6. SweptIsPast'
  BY DEF RInv, Parts, TypeOK, Finish, SweptIsPast, NamedIsPast, Past, Over
<1>7. UnlinkedIsGone'
  BY DEF RInv, Parts, TypeOK, Finish, UnlinkedIsGone, SweptIsPast, WholeIsFiled, Past, Over, audio
<1>8. AttachedIsNamed'
  BY DEF RInv, Parts, TypeOK, Finish, AttachedIsNamed, UnlinkedIsGone, FiledIsKept, WholeIsFiled, Past,
           Over, rows, audio, HasRow
<1>9. FlushedIsStored'
  <2>1. taken[m] < heard[m] => tail[m] = MaxTail
    <3>1. tail[m] \in 0..MaxTail /\ MaxTail \in Nat
      BY RecordingAssumption DEF RInv, TypeOK
    <3> QED
      BY <3>1 DEF Finish, More
  <2>2. stored'[m] = taken[m] /\ UNCHANGED <<taken, heard, tail>>
    BY DEF RInv, TypeOK, Finish
  <2>3. ASSUME NEW k \in M, k # m PROVE thread'[k] = thread[k] /\ stored'[k] = stored[k]
    BY <2>3 DEF RInv, TypeOK, Finish
  <2> QED
    BY <2>1, <2>2, <2>3 DEF RInv, Parts, FlushedIsStored
<1> QED
  BY <1>1, <1>2, <1>3, <1>4, <1>5, <1>6, <1>7, <1>8, <1>9 DEF RInv, Parts

LEMMA FinishFileKept == ASSUME RInv, NEW m \in M, FinishFile(m) PROVE RInv'
<1>1. TypeOK'
  BY RecordingAssumption DEF RInv, TypeOK, FinishFile, rows, sound, calls, trash, NoFault, Fault,
           Running, Over
<1>2. NoRowNoThread'
  BY DEF RInv, Parts, TypeOK, FinishFile, NoRowNoThread, rows
<1>3. WholeIsFiled'
  BY DEF RInv, Parts, TypeOK, FinishFile, WholeIsFiled, Past, Over
<1>4. FiledIsKept'
  BY DEF RInv, Parts, TypeOK, FinishFile, FiledIsKept, WholeIsFiled, Past, Over
<1>5. NamedIsPast'
  BY DEF RInv, Parts, TypeOK, FinishFile, NamedIsPast, Past, Over
<1>6. SweptIsPast'
  BY DEF RInv, Parts, TypeOK, FinishFile, SweptIsPast, NamedIsPast, Past, Over
<1>7. UnlinkedIsGone'
  BY DEF RInv, Parts, TypeOK, FinishFile, UnlinkedIsGone, SweptIsPast, WholeIsFiled, Past, Over
<1>8. AttachedIsNamed'
  BY DEF RInv, Parts, TypeOK, FinishFile, AttachedIsNamed, UnlinkedIsGone, FiledIsKept, WholeIsFiled,
           Past, Over, rows, HasRow
<1>9. FlushedIsStored'
  BY DEF RInv, Parts, TypeOK, FinishFile, FlushedIsStored, sound
<1> QED
  BY <1>1, <1>2, <1>3, <1>4, <1>5, <1>6, <1>7, <1>8, <1>9 DEF RInv, Parts

LEMMA AttachKept == ASSUME RInv, NEW m \in M, Attach(m) PROVE RInv'
<1>1. TypeOK'
  <2>1. named' \subseteq M /\ thread' \in [M -> {"none"} \union Running \union Over]
    BY DEF RInv, TypeOK, Attach, Running, Over
  <2>2. faults' \in 0..MaxFaults
    BY RecordingAssumption DEF RInv, TypeOK, Attach, NoFault, Fault
  <2> QED
    BY <2>1, <2>2 DEF RInv, TypeOK, Attach, rows, sound, calls, trash
<1>2. NoRowNoThread'
  BY DEF RInv, Parts, TypeOK, Attach, NoRowNoThread, rows
<1>3. WholeIsFiled'
  BY DEF RInv, Parts, TypeOK, Attach, WholeIsFiled, Past, Over
<1>4. FiledIsKept'
  BY DEF RInv, Parts, TypeOK, Attach, FiledIsKept, WholeIsFiled, Past, Over
<1>5. NamedIsPast'
  BY DEF RInv, Parts, TypeOK, Attach, NamedIsPast, Past, Over
<1>6. SweptIsPast'
  BY DEF RInv, Parts, TypeOK, Attach, SweptIsPast, NamedIsPast, Past, Over
<1>7. UnlinkedIsGone'
  BY DEF RInv, Parts, TypeOK, Attach, UnlinkedIsGone, SweptIsPast, WholeIsFiled, Past, Over
<1>8. AttachedIsNamed'
  BY DEF RInv, Parts, TypeOK, Attach, AttachedIsNamed, UnlinkedIsGone, FiledIsKept, WholeIsFiled, Past,
           Over, rows, HasRow
<1>9. FlushedIsStored'
  BY DEF RInv, Parts, TypeOK, Attach, FlushedIsStored, sound
<1> QED
  BY <1>1, <1>2, <1>3, <1>4, <1>5, <1>6, <1>7, <1>8, <1>9 DEF RInv, Parts

LEMMA EndByThreadKept == ASSUME RInv, NEW m \in M, EndByThread(m) PROVE RInv'
<1>1. TypeOK'
  BY RecordingAssumption DEF RInv, TypeOK, EndByThread, audio, sound, calls, trash, NoFault, Fault,
           Running, Over
<1>2. NoRowNoThread'
  BY DEF RInv, Parts, TypeOK, EndByThread, NoRowNoThread
<1>3. WholeIsFiled'
  BY DEF RInv, Parts, TypeOK, EndByThread, WholeIsFiled, Past, Over, audio
<1>4. FiledIsKept'
  BY DEF RInv, Parts, TypeOK, EndByThread, FiledIsKept, WholeIsFiled, Past, Over, audio
<1>5. NamedIsPast'
  BY DEF RInv, Parts, TypeOK, EndByThread, NamedIsPast, Past, Over, audio
<1>6. SweptIsPast'
  BY DEF RInv, Parts, TypeOK, EndByThread, SweptIsPast, NamedIsPast, Past, Over
<1>7. UnlinkedIsGone'
  BY DEF RInv, Parts, TypeOK, EndByThread, UnlinkedIsGone, SweptIsPast, WholeIsFiled, Past, Over, audio
<1>8. AttachedIsNamed'
  BY DEF RInv, Parts, TypeOK, EndByThread, AttachedIsNamed, UnlinkedIsGone, FiledIsKept, WholeIsFiled,
           Past, Over, audio, HasRow
<1>9. FlushedIsStored'
  BY DEF RInv, Parts, TypeOK, EndByThread, FlushedIsStored, sound
<1> QED
  BY <1>1, <1>2, <1>3, <1>4, <1>5, <1>6, <1>7, <1>8, <1>9 DEF RInv, Parts

LEMMA FailKept == ASSUME RInv, NEW m \in M, Fail(m) PROVE RInv'
<1>1. TypeOK'
  BY RecordingAssumption DEF RInv, TypeOK, Fail, rows, audio, sound, calls, trash, NoFault, Fault,
           Running, Over
<1>2. NoRowNoThread'
  BY DEF RInv, Parts, TypeOK, Fail, NoRowNoThread, rows
<1>3. WholeIsFiled'
  BY DEF RInv, Parts, TypeOK, Fail, WholeIsFiled, Past, Over, audio
<1>4. FiledIsKept'
  BY DEF RInv, Parts, TypeOK, Fail, FiledIsKept, WholeIsFiled, Past, Over, audio
<1>5. NamedIsPast'
  BY DEF RInv, Parts, TypeOK, Fail, NamedIsPast, Past, Over, audio
<1>6. SweptIsPast'
  BY DEF RInv, Parts, TypeOK, Fail, SweptIsPast, NamedIsPast, Past, Over
<1>7. UnlinkedIsGone'
  BY DEF RInv, Parts, TypeOK, Fail, UnlinkedIsGone, SweptIsPast, WholeIsFiled, Past, Over, audio
<1>8. AttachedIsNamed'
  BY DEF RInv, Parts, TypeOK, Fail, AttachedIsNamed, UnlinkedIsGone, FiledIsKept, WholeIsFiled, Past,
           Over, rows, audio, HasRow
<1>9. FlushedIsStored'
  BY DEF RInv, Parts, TypeOK, Fail, FlushedIsStored, sound
<1> QED
  BY <1>1, <1>2, <1>3, <1>4, <1>5, <1>6, <1>7, <1>8, <1>9 DEF RInv, Parts

LEMMA AbandonRetentionKept == ASSUME RInv, NEW m \in M, AbandonRetention(m) PROVE RInv'
<1>1. TypeOK'
  BY RecordingAssumption DEF RInv, TypeOK, AbandonRetention, rows, sound, calls, trash, Fault
<1>2. WholeIsFiled'
  BY DEF RInv, Parts, TypeOK, AbandonRetention, WholeIsFiled
<1>3. FiledIsKept'
  BY DEF RInv, Parts, TypeOK, AbandonRetention, FiledIsKept, WholeIsFiled
<1>4. UnlinkedIsGone'
  BY DEF RInv, Parts, TypeOK, AbandonRetention, UnlinkedIsGone, SweptIsPast, WholeIsFiled
<1>5. AttachedIsNamed'
  BY DEF RInv, Parts, TypeOK, AbandonRetention, AttachedIsNamed, UnlinkedIsGone, FiledIsKept,
           WholeIsFiled, rows, HasRow
<1>6. NoRowNoThread' /\ NamedIsPast' /\ SweptIsPast' /\ FlushedIsStored'
  BY DEF RInv, Parts, AbandonRetention, NoRowNoThread, NamedIsPast, SweptIsPast, FlushedIsStored, rows, sound
<1> QED
  BY <1>1, <1>2, <1>3, <1>4, <1>5, <1>6 DEF RInv, Parts

LEMMA PanicKept == ASSUME RInv, NEW m \in M, Panic(m) PROVE RInv'
<1>1. TypeOK'
  BY RecordingAssumption DEF RInv, TypeOK, Panic, rows, audio, sound, calls, trash, Fault, Running, Over
<1>2. NoRowNoThread'
  BY DEF RInv, Parts, TypeOK, Panic, NoRowNoThread, rows
<1>3. WholeIsFiled'
  BY DEF RInv, Parts, TypeOK, Panic, WholeIsFiled, Past, Over, audio
<1>4. FiledIsKept'
  BY DEF RInv, Parts, TypeOK, Panic, FiledIsKept, WholeIsFiled, Past, Over, audio
<1>5. NamedIsPast'
  BY DEF RInv, Parts, TypeOK, Panic, NamedIsPast, Past, Over, audio
<1>6. SweptIsPast'
  BY DEF RInv, Parts, TypeOK, Panic, SweptIsPast, NamedIsPast, Past, Over
<1>7. UnlinkedIsGone'
  BY DEF RInv, Parts, TypeOK, Panic, UnlinkedIsGone, SweptIsPast, WholeIsFiled, Past, Over, audio
<1>8. AttachedIsNamed'
  BY DEF RInv, Parts, TypeOK, Panic, AttachedIsNamed, UnlinkedIsGone, FiledIsKept, WholeIsFiled, Past,
           Over, rows, audio, HasRow
<1>9. FlushedIsStored'
  BY DEF RInv, Parts, TypeOK, Panic, FlushedIsStored, sound
<1> QED
  BY <1>1, <1>2, <1>3, <1>4, <1>5, <1>6, <1>7, <1>8, <1>9 DEF RInv, Parts

LEMMA EndByHandKept == ASSUME RInv, NEW m \in M, EndByHand(m) PROVE RInv'
<1>1. TypeOK'
  BY DEF RInv, TypeOK, EndByHand, audio, sound, calls, trash
<1>2. NoRowNoThread'
  BY DEF RInv, Parts, TypeOK, EndByHand, NoRowNoThread
<1>3. AttachedIsNamed'
  BY DEF RInv, Parts, TypeOK, EndByHand, AttachedIsNamed, UnlinkedIsGone, FiledIsKept, WholeIsFiled,
           audio, HasRow
<1>4. WholeIsFiled' /\ FiledIsKept' /\ NamedIsPast' /\ SweptIsPast' /\ UnlinkedIsGone' /\ FlushedIsStored'
  BY DEF RInv, Parts, EndByHand, WholeIsFiled, FiledIsKept, NamedIsPast, SweptIsPast, UnlinkedIsGone,
           FlushedIsStored, audio, sound
<1> QED
  BY <1>1, <1>2, <1>3, <1>4 DEF RInv, Parts

LEMMA PurgeBeginKept == ASSUME RInv, NEW m \in M, PurgeBegin(m) PROVE RInv'
<1>1. TypeOK'
  BY RecordingAssumption DEF RInv, TypeOK, PurgeBegin, rows, audio, sound, calls
<1>2. Parts'
  BY DEF RInv, Parts, PurgeBegin, NoRowNoThread, WholeIsFiled, FiledIsKept, NamedIsPast, SweptIsPast,
           UnlinkedIsGone, AttachedIsNamed, FlushedIsStored, rows, audio, sound, HasRow
<1> QED
  BY <1>1, <1>2 DEF RInv, Parts

LEMMA StopKept == ASSUME RInv, Stop PROVE RInv'
<1>1. TypeOK'
  BY RecordingAssumption DEF RInv, TypeOK, Stop, rows, audio, sound, trash
<1>2. Parts'
  BY DEF RInv, Parts, Stop, NoRowNoThread, WholeIsFiled, FiledIsKept, NamedIsPast, SweptIsPast,
           UnlinkedIsGone, AttachedIsNamed, FlushedIsStored, rows, audio, sound, HasRow
<1> QED
  BY <1>1, <1>2 DEF RInv, Parts

LEMMA PurgeRowKept == ASSUME RInv, PurgeRow PROVE RInv'
<1>1. TypeOK'
  BY DEF RInv, TypeOK, PurgeRow, sound, calls, trash
<1>2. NoRowNoThread'
  BY DEF RInv, Parts, TypeOK, PurgeRow, NoRowNoThread
<1>3. NamedIsPast'
  BY DEF RInv, Parts, TypeOK, PurgeRow, NamedIsPast, Past, Over
<1>4. AttachedIsNamed'
  BY DEF RInv, Parts, TypeOK, PurgeRow, AttachedIsNamed, UnlinkedIsGone, FiledIsKept, WholeIsFiled, Past,
           Over, HasRow
<1>5. WholeIsFiled' /\ FiledIsKept' /\ SweptIsPast' /\ UnlinkedIsGone' /\ FlushedIsStored'
  BY DEF RInv, Parts, PurgeRow, WholeIsFiled, FiledIsKept, SweptIsPast, UnlinkedIsGone, FlushedIsStored, sound
<1> QED
  BY <1>1, <1>2, <1>3, <1>4, <1>5 DEF RInv, Parts

LEMMA PurgeFileKept == ASSUME RInv, PurgeFile PROVE RInv'
<1>1. TypeOK'
  <2>1. file' \in [M -> {"none", "partial", "whole"}]
    BY DEF RInv, TypeOK, PurgeFile
  <2>2. faults' \in 0..MaxFaults
    BY RecordingAssumption DEF RInv, TypeOK, PurgeFile, NoFault, Fault
  <2> QED
    BY <2>1, <2>2 DEF RInv, TypeOK, PurgeFile, rows, sound, calls
<1>2. WholeIsFiled'
  BY DEF RInv, Parts, TypeOK, PurgeFile, WholeIsFiled
<1>3. FiledIsKept'
  BY DEF RInv, Parts, TypeOK, PurgeFile, FiledIsKept, WholeIsFiled
<1>4. UnlinkedIsGone'
  BY DEF RInv, Parts, TypeOK, PurgeFile, UnlinkedIsGone, SweptIsPast, WholeIsFiled
<1>5. AttachedIsNamed'
  BY DEF RInv, Parts, TypeOK, PurgeFile, AttachedIsNamed, UnlinkedIsGone, FiledIsKept, WholeIsFiled,
           rows, HasRow
<1>6. NoRowNoThread' /\ NamedIsPast' /\ SweptIsPast' /\ FlushedIsStored'
  BY DEF RInv, Parts, PurgeFile, NoRowNoThread, NamedIsPast, SweptIsPast, FlushedIsStored, rows, sound
<1> QED
  BY <1>1, <1>2, <1>3, <1>4, <1>5, <1>6 DEF RInv, Parts

LEMMA SetPolicyKept == ASSUME RInv, NEW p \in {"off", "days", "until_deleted"}, SetPolicy(p) PROVE RInv'
<1>1. TypeOK'
  BY RecordingAssumption DEF RInv, TypeOK, SetPolicy, rows, audio, sound, calls, trash, Idle
<1>2. SweptIsPast'
  BY DEF RInv, Parts, TypeOK, SetPolicy, SweptIsPast, NamedIsPast, Past, Over, Idle
<1>3. UnlinkedIsGone'
  BY DEF RInv, Parts, TypeOK, SetPolicy, UnlinkedIsGone, SweptIsPast, WholeIsFiled, Past, Over, audio, Idle
<1>4. NoRowNoThread' /\ WholeIsFiled' /\ FiledIsKept' /\ NamedIsPast' /\ AttachedIsNamed' /\ FlushedIsStored'
  BY DEF RInv, Parts, SetPolicy, NoRowNoThread, WholeIsFiled, FiledIsKept, NamedIsPast, AttachedIsNamed,
           FlushedIsStored, rows, audio, sound, HasRow
<1> QED
  BY <1>1, <1>2, <1>3, <1>4 DEF RInv, Parts

LEMMA SweepHourlyKept == ASSUME RInv, SweepHourly PROVE RInv'
<1>1. TypeOK'
  BY RecordingAssumption DEF RInv, TypeOK, SweepHourly, rows, audio, sound, calls, trash, Idle
<1>2. SweptIsPast'
  BY DEF RInv, Parts, TypeOK, SweepHourly, SweptIsPast, NamedIsPast, Past, Over, Idle
<1>3. UnlinkedIsGone'
  BY DEF RInv, Parts, TypeOK, SweepHourly, UnlinkedIsGone, SweptIsPast, WholeIsFiled, Past, Over, audio, Idle
<1>4. NoRowNoThread' /\ WholeIsFiled' /\ FiledIsKept' /\ NamedIsPast' /\ AttachedIsNamed' /\ FlushedIsStored'
  BY DEF RInv, Parts, SweepHourly, NoRowNoThread, WholeIsFiled, FiledIsKept, NamedIsPast,
           AttachedIsNamed, FlushedIsStored, rows, audio, sound, HasRow
<1> QED
  BY <1>1, <1>2, <1>3, <1>4 DEF RInv, Parts

LEMMA SweepListKept == ASSUME RInv, NEW s \in Sweeps, SweepList(s) PROVE RInv'
<1>1. TypeOK'
  <2>1. sweep' \in [Sweeps -> SweepStates]
    <3>1. PICK left \in SUBSET M : sweep' = [sweep EXCEPT ![s].step = "sweeping", ![s].todo = left]
      BY DEF RInv, TypeOK, SweepList
    <3>2. sweep \in [Sweeps -> SweepStates]
      BY DEF RInv, TypeOK, SweepStates
    <3>3. sweep' = [sweep EXCEPT ![s] = [sweep[s] EXCEPT !.step = "sweeping", !.todo = left]]
      BY <3>1, <3>2 DEF SweepStates
    <3>4. [sweep[s] EXCEPT !.step = "sweeping", !.todo = left] \in SweepStates
      BY <3>2 DEF SweepStates
    <3> QED
      BY <3>2, <3>3, <3>4
  <2> QED
    BY <2>1 DEF RInv, TypeOK, SweepList, SweepStates, rows, audio, sound, calls, trash
<1>2. SweptIsPast'
  BY DEF RInv, Parts, TypeOK, SweepList, SweptIsPast, NamedIsPast, Past, Over
<1>3. UnlinkedIsGone'
  BY DEF RInv, Parts, TypeOK, SweepList, UnlinkedIsGone, SweptIsPast, WholeIsFiled, Past, Over, audio
<1>4. NoRowNoThread' /\ WholeIsFiled' /\ FiledIsKept' /\ NamedIsPast' /\ AttachedIsNamed' /\ FlushedIsStored'
  BY DEF RInv, Parts, SweepList, NoRowNoThread, WholeIsFiled, FiledIsKept, NamedIsPast, AttachedIsNamed,
           FlushedIsStored, rows, audio, sound, HasRow
<1> QED
  BY <1>1, <1>2, <1>3, <1>4 DEF RInv, Parts

LEMMA SweepClearKept == ASSUME RInv, NEW s \in Sweeps, SweepClear(s) PROVE RInv'
<1>1. TypeOK'
  <2>1. sweep' \in [Sweeps -> SweepStates]
    <3>1. sweep \in [Sweeps -> SweepStates]
      BY DEF RInv, TypeOK, SweepStates
    <3>2. Idle \in SweepStates
      BY DEF Idle, SweepStates
    <3>3. ASSUME NEW w \in SweepStates
          PROVE  [w EXCEPT !.unlinked = None, !.todo = @ \ {w.unlinked}] \in SweepStates
      BY DEF SweepStates
    <3>4. \/ sweep' = [sweep EXCEPT ![s] = [sweep[s] EXCEPT !.unlinked = None, !.todo = @ \ {sweep[s].unlinked}]]
          \/ sweep' = [sweep EXCEPT ![s] = Idle]
      BY <3>1 DEF SweepClear
    <3> QED
      BY <3>1, <3>2, <3>3, <3>4
  <2>2. named' \subseteq M
    BY DEF RInv, TypeOK, SweepClear
  <2>3. faults' \in 0..MaxFaults
    BY RecordingAssumption DEF RInv, TypeOK, SweepClear, NoFault, Fault
  <2> QED
    BY <2>1, <2>2, <2>3 DEF RInv, TypeOK, SweepClear, SweepStates, rows, sound, calls, trash
<1>2. NamedIsPast'
  BY DEF RInv, Parts, TypeOK, SweepClear, NamedIsPast, Past, Over
<1>3. SweptIsPast'
  BY DEF RInv, Parts, TypeOK, SweepClear, SweptIsPast, NamedIsPast, Past, Over, Idle
<1>4. UnlinkedIsGone'
  <2>1. \A t \in Sweeps : sweep'[t].unlinked # None => sweep'[t].unlinked = sweep[t].unlinked
    BY DEF RInv, TypeOK, SweepClear, Idle
  <2> QED
    BY <2>1 DEF RInv, Parts, SweepClear, UnlinkedIsGone
<1>5. AttachedIsNamed'
  BY DEF RInv, Parts, TypeOK, SweepClear, AttachedIsNamed, UnlinkedIsGone, FiledIsKept, WholeIsFiled,
           Past, Over, rows, HasRow
<1>6. NoRowNoThread' /\ WholeIsFiled' /\ FiledIsKept' /\ FlushedIsStored'
  BY DEF RInv, Parts, SweepClear, NoRowNoThread, WholeIsFiled, FiledIsKept, FlushedIsStored, rows, sound
<1> QED
  BY <1>1, <1>2, <1>3, <1>4, <1>5, <1>6 DEF RInv, Parts

LEMMA SweepEndKept == ASSUME RInv, NEW s \in Sweeps, SweepEnd(s) PROVE RInv'
<1>1. TypeOK'
  BY RecordingAssumption DEF RInv, TypeOK, SweepEnd, rows, audio, sound, calls, trash, Idle
<1>2. SweptIsPast'
  BY DEF RInv, Parts, TypeOK, SweepEnd, SweptIsPast, NamedIsPast, Past, Over, Idle
<1>3. UnlinkedIsGone'
  BY DEF RInv, Parts, TypeOK, SweepEnd, UnlinkedIsGone, SweptIsPast, WholeIsFiled, Past, Over, audio, Idle
<1>4. NoRowNoThread' /\ WholeIsFiled' /\ FiledIsKept' /\ NamedIsPast' /\ AttachedIsNamed' /\ FlushedIsStored'
  BY DEF RInv, Parts, SweepEnd, NoRowNoThread, WholeIsFiled, FiledIsKept, NamedIsPast, AttachedIsNamed,
           FlushedIsStored, rows, audio, sound, HasRow
<1> QED
  BY <1>1, <1>2, <1>3, <1>4 DEF RInv, Parts

LEMMA SweepUnlinkKept == ASSUME RInv, NEW s \in Sweeps, NEW m \in M, SweepUnlink(s, m) PROVE RInv'
<1>1. TypeOK'
  <2>1. sweep' \in [Sweeps -> SweepStates]
    <3>1. sweep \in [Sweeps -> SweepStates]
      BY DEF RInv, TypeOK, SweepStates
    <3>2. [sweep[s] EXCEPT !.unlinked = m] \in SweepStates /\ [sweep[s] EXCEPT !.todo = @ \ {m}] \in SweepStates
      BY <3>1, SMTT(30) DEF SweepStates
    <3> QED
      BY <3>1, <3>2, SMTT(30) DEF SweepUnlink
  <2>2. file' \in [M -> {"none", "partial", "whole"}]
    BY DEF RInv, TypeOK, SweepUnlink
  <2>3. faults' \in 0..MaxFaults
    BY RecordingAssumption DEF RInv, TypeOK, SweepUnlink, NoFault, Fault
  <2> QED
    BY <2>1, <2>2, <2>3 DEF RInv, TypeOK, SweepUnlink, SweepStates, rows, sound, calls, trash
<1>2. WholeIsFiled'
  BY DEF RInv, Parts, TypeOK, SweepUnlink, WholeIsFiled, Past, Over
<1>3. FiledIsKept'
  BY DEF RInv, Parts, TypeOK, SweepUnlink, FiledIsKept, WholeIsFiled, Past, Over
<1>4. SweptIsPast'
  BY DEF RInv, Parts, TypeOK, SweepUnlink, SweptIsPast, NamedIsPast, Past, Over
<1>5. UnlinkedIsGone'
  BY DEF RInv, Parts, TypeOK, SweepUnlink, UnlinkedIsGone, SweptIsPast, WholeIsFiled, Past, Over
<1>6. AttachedIsNamed'
  BY DEF RInv, Parts, TypeOK, SweepUnlink, AttachedIsNamed, UnlinkedIsGone, FiledIsKept, WholeIsFiled,
           Past, Over, rows, HasRow
<1>7. NoRowNoThread' /\ NamedIsPast' /\ FlushedIsStored'
  BY DEF RInv, Parts, SweepUnlink, NoRowNoThread, NamedIsPast, FlushedIsStored, rows, sound
<1> QED
  BY <1>1, <1>2, <1>3, <1>4, <1>5, <1>6, <1>7 DEF RInv, Parts

LEMMA CrashKept == ASSUME RInv, Crash PROVE RInv'
<1>1. TypeOK'
  <2>1. sweep' \in [Sweeps -> SweepStates]
    BY DEF Crash, Idle, SweepStates
  <2>2. thread' \in [M -> {"none"} \union Running \union Over]
    BY DEF RInv, TypeOK, Crash, Running, Over
  <2>3. crashes' \in 0..MaxCrashes
    BY RecordingAssumption DEF RInv, TypeOK, Crash
  <2> QED
    BY <2>1, <2>2, <2>3 DEF RInv, TypeOK, Crash, SweepStates, rows, audio, sound
<1>2. NoRowNoThread'
  BY DEF RInv, Parts, TypeOK, Crash, NoRowNoThread, Running, rows
<1>3. WholeIsFiled'
  BY DEF RInv, Parts, TypeOK, Crash, WholeIsFiled, Past, Over, Running, audio
<1>4. FiledIsKept'
  BY DEF RInv, Parts, TypeOK, Crash, FiledIsKept, WholeIsFiled, Past, Over, Running, audio
<1>5. NamedIsPast'
  BY DEF RInv, Parts, TypeOK, Crash, NamedIsPast, Past, Over, Running, audio
<1>6. SweptIsPast'
  BY DEF RInv, Parts, TypeOK, Crash, SweptIsPast, NamedIsPast, Past, Over, Running, Idle
<1>7. UnlinkedIsGone'
  BY DEF RInv, Parts, TypeOK, Crash, UnlinkedIsGone, SweptIsPast, WholeIsFiled, Past, Over, Running,
           audio, Idle
<1>8. AttachedIsNamed'
  BY DEF RInv, Parts, TypeOK, Crash, AttachedIsNamed, UnlinkedIsGone, FiledIsKept, WholeIsFiled, Past,
           Over, Running, rows, audio, HasRow
<1>9. FlushedIsStored'
  BY DEF RInv, Parts, TypeOK, Crash, FlushedIsStored, Running, sound
<1> QED
  BY <1>1, <1>2, <1>3, <1>4, <1>5, <1>6, <1>7, <1>8, <1>9 DEF RInv, Parts

LEMMA RInvInit == Init => RInv
<1> SUFFICES ASSUME Init PROVE RInv
  OBVIOUS
<1>1. TypeOK
  <2>1. sweep \in [Sweeps -> SweepStates]
    BY DEF Init, Idle, SweepStates
  <2>2. thread \in [M -> {"none"} \union Running \union Over]
    BY DEF Init, Running, Over
  <2>3. /\ heard \in [M -> 0..MaxFrames] /\ taken \in [M -> 0..MaxFrames] /\ stored \in [M -> 0..MaxFrames]
        /\ tail \in [M -> 0..MaxTail] /\ \A m \in M : stored[m] <= taken[m] /\ taken[m] <= heard[m]
    BY RecordingAssumption DEF Init
  <2>4. /\ row \in [M -> {"none", "open", "ended", "purged"}] /\ source \in [M -> {"microphone", "import"}]
        /\ file \in [M -> {"none", "partial", "whole"}]
    BY DEF Init
  <2>5. faults \in 0..MaxFaults /\ crashes \in 0..MaxCrashes
    BY RecordingAssumption DEF Init
  <2>6. /\ named \subseteq M /\ keeping \subseteq M /\ told \subseteq M
        /\ slot \in M \union {None} /\ purge \in M \union {None} /\ path \in BOOLEAN
        /\ policy \in {"off", "days", "until_deleted"}
    BY DEF Init
  <2> QED
    BY <2>1, <2>2, <2>3, <2>4, <2>5, <2>6 DEF TypeOK, SweepStates
<1>2. Parts
  BY DEF Init, Parts, NoRowNoThread, WholeIsFiled, FiledIsKept, NamedIsPast, SweptIsPast, UnlinkedIsGone,
         AttachedIsNamed, FlushedIsStored, Idle
<1> QED
  BY <1>1, <1>2 DEF RInv

LEMMA RInvNext == RInv /\ [Next]_vars => RInv'
<1> SUFFICES ASSUME RInv, [Next]_vars PROVE RInv'
  OBVIOUS
<1>1. ASSUME NEW m \in M,
             \/ Start(m) \/ StartFails(m) \/ Import(m) \/ Hear(m)
             \/ AbandonRetention(m) \/ Panic(m) \/ EndByHand(m) \/ PurgeBegin(m)
      PROVE  RInv'
  BY <1>1, StartKept, StartFailsKept, ImportKept, HearKept, AbandonRetentionKept,
     PanicKept, EndByHandKept, PurgeBeginKept
<1>2. ASSUME NEW m \in M, ThreadStep(m) PROVE RInv'
  BY <1>2, OpenFileKept, SeeStopKept, TakeFrameKept, FinishKept, FinishFileKept, AttachKept,
     EndByThreadKept, FailKept DEF ThreadStep
<1>3. CASE Stop \/ PurgeRow \/ PurgeFile \/ SweepHourly \/ Crash
  BY <1>3, StopKept, PurgeRowKept, PurgeFileKept, SweepHourlyKept, CrashKept
<1>4. ASSUME NEW p \in {"off", "days", "until_deleted"}, SetPolicy(p) PROVE RInv'
  BY <1>4, SetPolicyKept
<1>5. ASSUME NEW s \in Sweeps, SweepStep(s) PROVE RInv'
  BY <1>5, SweepListKept, SweepClearKept, SweepEndKept, SweepUnlinkKept DEF SweepStep
<1>6. CASE UNCHANGED vars
  BY <1>6 DEF RInv, TypeOK, Parts, NoRowNoThread, WholeIsFiled, FiledIsKept, NamedIsPast, SweptIsPast,
              UnlinkedIsGone, AttachedIsNamed, FlushedIsStored, HasRow, vars, rows, audio, sound, calls, trash
<1> QED
  BY <1>1, <1>2, <1>3, <1>4, <1>5, <1>6 DEF Next

\* Recording beside dictation is recording alone.
LEMMA RecordingOfMicrophone == MicrophoneSpec => Spec
<1>1. MicrophoneInit => Init
  BY DEF MicrophoneInit
<1>2. [MicrophoneNext]_allVars => [Next]_vars
  BY DEF MicrophoneNext, RecordingStep, DictationStep, allVars, recording
<1> QED
  BY <1>1, <1>2, PTL DEF MicrophoneSpec, Spec

\* A recording keeps to its types; in particular no more is taken than was heard and no more stored
\* than was taken.
THEOREM RecordingTypeCorrect == MicrophoneSpec => []TypeOK
<1>1. RInv => TypeOK
  BY DEF RInv
<1> QED
  BY <1>1, RInvInit, RInvNext, RecordingOfMicrophone, PTL DEF Spec

\* Audio that a run has kept is named by its meeting as long as the meeting is there, whatever
\* sweeps, purges, faults and crashes come between the file, its name and the end of the meeting.
THEOREM RecordingAudioIsNamed == MicrophoneSpec => []AudioIsNamed
<1>1. RInv => AudioIsNamed
  BY DEF RInv, Parts, AttachedIsNamed, AudioIsNamed
<1> QED
  BY <1>1, RInvInit, RInvNext, RecordingOfMicrophone, PTL DEF Spec

\* A run that ends well has stored all it read, what came after the stop included, and what it left
\* unread lies beyond a whole MAX_TAIL_MS of sound read since the stop: however far behind it was.
THEOREM RecordingNothingHeardIsLost == MicrophoneSpec => []NothingHeardIsLost
<1>1. RInv => NothingHeardIsLost
  BY DEF RInv, Parts, FlushedIsStored, NothingHeardIsLost
<1> QED
  BY <1>1, RInvInit, RInvNext, RecordingOfMicrophone, PTL DEF Spec

-----------------------------------------------------------------------------
(* Dictation. Insertions that meet are noted with both of them, and the    *)
(* one that meets no other has the copy it took away from the clipboard.   *)

\* A session in the slot has a thread and no handler; one whose thread never ran has none either, and is
\* of no box.
Slot ==
  /\ \A s \in Sessions : live = s => listener[s] # "none" /\ step[s] = "none"
  /\ \A s \in Sessions : listener[s] = "none" => step[s] = "none" /\ s \notin boxed

\* Only an insertion in hand holds a snapshot, and two in hand have met.
Insertions ==
  /\ \A x \in A!Texts : x \notin A!Borrowers => snap[x] = Nothing
  /\ \A x, y \in A!Borrowers : x # y => x \in mixed

\* What the user copied last is on the clipboard or with the one insertion that has it, while nobody was
\* told otherwise.
CopyIsKept ==
  mixed = {} /\ ~warned =>
    /\ A!Borrowers = {} => clipboard = A!Whole(copied)
    /\ \A x \in A!Borrowers : /\ snap[x] = Nothing \/ snap[x] = A!Whole(copied)
                              /\ step[x] = "snapped" => clipboard = A!Whole(copied)

\* While a press waits, what its answer will make of the flag is right.
PressIsRight ==
  /\ press = "failed" => amiss
  /\ ~amiss => (flag = (live # Nothing)) = (press = Nothing)

DictationInv == A!TypeOK /\ Slot /\ A!BoxKeepsItsWords /\ Insertions /\ A!WordsLandAsSaid /\ CopyIsKept /\ PressIsRight

LEMMA DictationInit == ASSUME A!DictationAssumption, A!Init PROVE DictationInv
<1>1. \A x \in A!Texts : step[x] = "none" /\ snap[x] = Nothing
  BY DEF A!Init
<1>2. A!Borrowers = {}
  BY <1>1 DEF A!Borrowers, A!Borrowing
<1>3. A!TypeOK
  <2>1. A!Empty \in A!Contents /\ 0 \in 0..MaxFailures
    BY DEF A!DictationAssumption, A!Contents, A!Empty, A!Whole
  <2>2. /\ listener \in [Sessions -> {"none", "capturing", "ended", "failed"}]
        /\ step \in [A!Texts -> {"none", "awaiting", "cancelling", "ready"} \union A!Borrowing \union A!Replies]
        /\ snap \in [A!Texts -> A!Contents \union {Nothing}]
    BY DEF A!Init
  <2>q. QED BY <2>1, <2>2 DEF A!Init, A!TypeOK
<1>4. Slot /\ A!BoxKeepsItsWords /\ A!WordsLandAsSaid
  <2>1. \A s \in Sessions : s \in A!Texts /\ s # Nothing
    BY DEF A!DictationAssumption, A!Texts
  <2>q. QED BY <1>1, <2>1 DEF A!Init, Slot, A!BoxKeepsItsWords, A!WordsLandAsSaid
<1>5. Insertions /\ CopyIsKept
  BY <1>1, <1>2 DEF A!Init, Insertions, CopyIsKept, A!Empty
<1>6. PressIsRight
  BY DEF A!DictationAssumption, A!Init, PressIsRight
<1>q. QED BY <1>3, <1>4, <1>5, <1>6 DEF DictationInv

\* What is said of the engine, of the clipboard and of the hotkey, each of what it is about.
LEMMA EngineKept ==
  ASSUME DictationInv, A!TypeOK', Slot', A!BoxKeepsItsWords', PressIsRight',
         A!Borrowers' = A!Borrowers, \A x \in A!Borrowers : step'[x] = step[x],
         UNCHANGED <<A!placing, A!ghosts>>
  PROVE  DictationInv'
<1>1. Insertions'
  BY DEF DictationInv, Insertions, A!placing, A!ghosts
<1>2. A!WordsLandAsSaid'
  <2> SUFFICES ASSUME NEW x \in A!Texts, step'[x] = "written"
               PROVE  clipboard' = A!Whole(x) \/ x \in mixed'
    BY DEF A!WordsLandAsSaid, A!Whole
  <2>1. x \in A!Borrowers'
    BY DEF A!Borrowers, A!Borrowing
  <2>q. QED BY <2>1 DEF DictationInv, A!WordsLandAsSaid, A!placing, A!ghosts
<1>3. CopyIsKept'
  BY DEF DictationInv, CopyIsKept, A!placing, A!ghosts, A!Whole
<1>q. QED BY <1>1, <1>2, <1>3 DEF DictationInv

\* A step of a handler that is not at an insertion.
LEMMA HandlerKept ==
  ASSUME DictationInv, NEW x \in A!Texts, NEW how \in {"none", "awaiting", "cancelling", "ready", "done", "error", "left"},
         x \notin A!Borrowers, step' = [step EXCEPT ![x] = how]
  PROVE  /\ A!Borrowers' = A!Borrowers /\ \A y \in A!Borrowers : step'[y] = step[y]
         /\ step' \in [A!Texts -> {"none", "awaiting", "cancelling", "ready"} \union A!Borrowing \union A!Replies]
BY DEF DictationInv, A!TypeOK, A!Borrowers, A!Borrowing, A!Replies

LEMMA SlotFree == ASSUME A!DictationAssumption, DictationInv, NEW s \in Sessions
                  PROVE  /\ s \in A!Texts /\ s # Nothing /\ s \notin {"ok", "conflict", "failed"} /\ s \notin Acts
                         /\ live = s \/ listener[s] = "none" => step[s] = "none" /\ s \notin A!Borrowers
BY DEF A!DictationAssumption, DictationInv, Slot, A!Texts, A!Borrowers, A!Borrowing

LEMMA ThreadKept ==
  ASSUME A!DictationAssumption, DictationInv, NEW s \in Sessions, A!Expire(s) \/ A!End(s) \/ A!Break(s)
  PROVE  DictationInv'
<1>1. /\ UNCHANGED <<live, boxed, stopping, step, A!placing, A!hotkey, A!ghosts, amiss>>
      /\ \/ listener' = listener
         \/ listener[s] = "capturing" /\ \E how \in {"ended", "failed"} : listener' = [listener EXCEPT ![s] = how]
  BY DEF A!Expire, A!End, A!Break
<1>2. A!TypeOK'
  BY <1>1 DEF DictationInv, A!TypeOK, A!Expire, A!End, A!Break, A!Fault, A!placing, A!hotkey, A!ghosts, A!DictationAssumption
<1>3. Slot' /\ A!BoxKeepsItsWords' /\ PressIsRight'
  BY <1>1 DEF DictationInv, A!TypeOK, Slot, A!BoxKeepsItsWords, PressIsRight, A!hotkey
<1>4. A!Borrowers' = A!Borrowers /\ \A x \in A!Borrowers : step'[x] = step[x]
  BY <1>1 DEF A!Borrowers
<1>q. QED BY <1>1, <1>2, <1>3, <1>4, EngineKept

LEMMA HandKept == ASSUME A!DictationAssumption, DictationInv, NEW s \in Sessions, A!Hand(s) PROVE DictationInv'
<1>0. s \in A!Texts /\ s \notin A!Borrowers /\ step[s] # "none" /\ listener[s] # "none"
  BY SlotFree DEF A!Hand, A!Borrowers, A!Borrowing
<1>1. PICK how \in {"error", "done", "ready"} :
        step' = [step EXCEPT ![s] = how] /\ (how = "ready" => s \notin boxed)
  BY DEF A!Hand
<1>2. UNCHANGED <<A!engine, A!placing, A!hotkey, A!ghosts, amiss, broken>>
  BY DEF A!Hand
<1>3. /\ A!Borrowers' = A!Borrowers /\ \A y \in A!Borrowers : step'[y] = step[y]
      /\ step' \in [A!Texts -> {"none", "awaiting", "cancelling", "ready"} \union A!Borrowing \union A!Replies]
  BY <1>0, <1>1, HandlerKept
<1>4. A!TypeOK'
  BY <1>2, <1>3 DEF DictationInv, A!TypeOK, A!engine, A!placing, A!hotkey, A!ghosts
<1>5. Slot' /\ A!BoxKeepsItsWords' /\ PressIsRight'
  BY <1>0, <1>1, <1>2 DEF DictationInv, A!TypeOK, Slot, A!BoxKeepsItsWords, PressIsRight, A!engine, A!hotkey, A!Borrowing, A!Texts
<1>q. QED BY <1>2, <1>3, <1>4, <1>5, EngineKept

LEMMA ActKept == ASSUME A!DictationAssumption, DictationInv, NEW x \in A!Texts, A!Act(x) PROVE DictationInv'
<1>0. x \notin A!Borrowers /\ x \notin Sessions
  BY DEF A!Act, A!Borrowers, A!Borrowing, A!DictationAssumption
<1>2. step' = [step EXCEPT ![x] = "ready"] /\ UNCHANGED <<A!engine, A!placing, A!hotkey, A!ghosts, amiss, broken>>
  BY DEF A!Act
<1>3. /\ A!Borrowers' = A!Borrowers /\ \A y \in A!Borrowers : step'[y] = step[y]
      /\ step' \in [A!Texts -> {"none", "awaiting", "cancelling", "ready"} \union A!Borrowing \union A!Replies]
  BY <1>0, <1>2, HandlerKept
<1>4. A!TypeOK'
  BY <1>2, <1>3 DEF DictationInv, A!TypeOK, A!engine, A!placing, A!hotkey, A!ghosts
<1>5. Slot' /\ A!BoxKeepsItsWords' /\ PressIsRight'
  BY <1>0, <1>2 DEF DictationInv, A!TypeOK, Slot, A!BoxKeepsItsWords, PressIsRight, A!engine, A!hotkey, A!Texts
<1>q. QED BY <1>2, <1>3, <1>4, <1>5, EngineKept

\* A session begins: it has no handler, and the slot was empty.
LEMMA SessionStartKept ==
  ASSUME A!DictationAssumption, DictationInv, NEW s \in Sessions, A!Start(s), boxed' \in {boxed, boxed \union {s}},
         UNCHANGED <<step, A!placing, A!ghosts, flag>>, press' \in {press, "ok"}, amiss' \in BOOLEAN,
         broken' \in 0..MaxFailures, PressIsRight'
  PROVE  DictationInv'
<1>1. s \in A!Texts /\ s # Nothing /\ live' = s /\ listener' = [listener EXCEPT ![s] = "capturing"] /\ listener[s] = "none"
  BY SlotFree DEF A!Start
<1>2. A!TypeOK'
  BY <1>1 DEF DictationInv, A!TypeOK, A!Start, A!placing, A!ghosts
<1>3. step[s] = "none" /\ live = Nothing
  BY <1>1, SlotFree DEF A!Start
<1>4. Slot' /\ A!BoxKeepsItsWords'
  BY <1>1, <1>3 DEF DictationInv, A!TypeOK, Slot, A!BoxKeepsItsWords, A!Borrowing
<1>5. A!Borrowers' = A!Borrowers /\ \A x \in A!Borrowers : step'[x] = step[x]
  BY DEF A!Borrowers
<1>q. QED BY <1>2, <1>4, <1>5, EngineKept

LEMMA TakeKept ==
  ASSUME A!DictationAssumption, DictationInv, NEW s \in Sessions, NEW as \in {"awaiting", "cancelling"}, A!TakeSession(s, as),
         UNCHANGED <<A!placing, A!ghosts, flag, broken>>, press' \in {press, s}, amiss' \in BOOLEAN, PressIsRight'
  PROVE  DictationInv'
<1>1. /\ s \in A!Texts /\ s # Nothing /\ s \notin A!Borrowers /\ live = s /\ live' = Nothing
      /\ step' = [step EXCEPT ![s] = as] /\ UNCHANGED <<boxed, listener, late>> /\ stopping' = stopping \union {s}
  BY SlotFree DEF A!TakeSession
<1>2. /\ A!Borrowers' = A!Borrowers /\ \A y \in A!Borrowers : step'[y] = step[y]
      /\ step' \in [A!Texts -> {"none", "awaiting", "cancelling", "ready"} \union A!Borrowing \union A!Replies]
  BY <1>1, HandlerKept
<1>3. A!TypeOK'
  BY <1>1, <1>2 DEF DictationInv, A!TypeOK, A!placing, A!ghosts
<1>4. Slot' /\ A!BoxKeepsItsWords'
  <2>1. \A r \in Sessions : r # Nothing /\ r \in A!Texts
    BY SlotFree
  <2>2. listener[s] # "none"
    BY <1>1 DEF DictationInv, Slot
  <2>q. QED BY <1>1, <2>1, <2>2 DEF DictationInv, A!TypeOK, Slot, A!BoxKeepsItsWords, A!Borrowing
<1>q. QED BY <1>1, <1>2, <1>3, <1>4, EngineKept

LEMMA PressToStartKept == ASSUME A!DictationAssumption, DictationInv, A!PressToStart PROVE DictationInv'
<1>1. press = Nothing /\ flag = FALSE /\ UNCHANGED <<boxed, step, A!placing, flag, A!ghosts>> /\ Nothing # "ok" /\ Nothing # "conflict"
  BY DEF A!PressToStart, DictationInv, A!TypeOK, A!DictationAssumption
<1>2. ASSUME NEW s \in Sessions, A!Start(s), press' = "ok", amiss' = FALSE, A!NoFault PROVE DictationInv'
  <2>1. live' # Nothing
    BY <1>2, SlotFree DEF A!Start
  <2>2. PressIsRight'
    BY <1>1, <1>2, <2>1 DEF PressIsRight
  <2>q. QED BY <1>1, <1>2, <2>2, SessionStartKept DEF A!NoFault, DictationInv, A!TypeOK
<1>3. ASSUME press' \in {"conflict", "failed"}, amiss' \in BOOLEAN, amiss' \/ (live # Nothing /\ press' = "conflict"),
             broken' \in 0..MaxFailures, UNCHANGED <<live, listener, stopping, late>>
      PROVE  DictationInv'
  <2>1. A!TypeOK'
    BY <1>1, <1>3 DEF DictationInv, A!TypeOK, A!placing, A!ghosts
  <2>2. Slot' /\ A!BoxKeepsItsWords'
    BY <1>1, <1>3 DEF DictationInv, Slot, A!BoxKeepsItsWords
  <2>3. PressIsRight'
    BY <1>1, <1>3 DEF PressIsRight
  <2>4. A!Borrowers' = A!Borrowers /\ \A x \in A!Borrowers : step'[x] = step[x]
    BY <1>1 DEF A!Borrowers
  <2>q. QED BY <1>1, <2>1, <2>2, <2>3, <2>4, EngineKept
<1>4. A!Fault \/ A!NoFault => broken' \in 0..MaxFailures
  BY DEF A!Fault, A!NoFault, DictationInv, A!TypeOK, A!DictationAssumption
<1>5. CASE \E s \in Sessions : A!Start(s) /\ press' = "ok" /\ amiss' = FALSE /\ A!NoFault
  BY <1>2, <1>5
<1>6. CASE live # Nothing /\ press' = "conflict" /\ amiss' = FALSE /\ A!NoFault /\ UNCHANGED <<live, listener, stopping, late>>
  BY <1>3, <1>4, <1>6
<1>7. CASE \E how \in {"conflict", "failed"} :
             live = Nothing /\ press' = how /\ amiss' = TRUE /\ A!Fault /\ UNCHANGED <<live, listener, stopping, late>>
  BY <1>3, <1>4, <1>7
<1>q. QED BY <1>5, <1>6, <1>7 DEF A!PressToStart

LEMMA PressToStopKept == ASSUME A!DictationAssumption, DictationInv, A!PressToStop PROVE DictationInv'
<1>1. press = Nothing /\ flag = TRUE /\ UNCHANGED <<A!placing, flag, A!ghosts, broken>> /\ amiss' = FALSE /\ Nothing # "failed" /\ Nothing # "conflict"
  BY DEF A!PressToStop, DictationInv, A!TypeOK, A!DictationAssumption
<1>2. ASSUME NEW s \in Sessions, A!TakeSession(s, "awaiting"), press' = s PROVE DictationInv'
  <2>1. live' = Nothing /\ s # Nothing /\ s # "failed"
    BY <1>2, SlotFree DEF A!TakeSession
  <2>2. PressIsRight'
    BY <1>1, <1>2, <2>1 DEF PressIsRight
  <2>q. QED BY <1>1, <1>2, <2>2, TakeKept
<1>3. CASE live = Nothing /\ press' = "conflict" /\ UNCHANGED <<A!engine, step>>
  <2>1. A!TypeOK'
    BY <1>1, <1>3 DEF DictationInv, A!TypeOK, A!placing, A!ghosts, A!engine
  <2>2. Slot' /\ A!BoxKeepsItsWords'
    BY <1>1, <1>3 DEF DictationInv, Slot, A!BoxKeepsItsWords, A!engine
  <2>3. PressIsRight'
    BY <1>1, <1>3 DEF PressIsRight, A!engine
  <2>4. A!Borrowers' = A!Borrowers /\ \A x \in A!Borrowers : step'[x] = step[x]
    BY <1>3 DEF A!Borrowers
  <2>q. QED BY <1>1, <2>1, <2>2, <2>3, <2>4, EngineKept
<1>q. QED BY <1>2, <1>3 DEF A!PressToStop

LEMMA SettleKept == ASSUME A!DictationAssumption, DictationInv, A!Settle PROVE DictationInv'
<1>1. UNCHANGED <<A!engine, step, A!placing, A!ghosts, amiss, broken>> /\ press' = Nothing
  BY DEF A!Settle
<1>2. CASE press = "failed"
  <2>1. flag' = flag
    BY <1>2 DEF A!Settle, DictationInv, A!TypeOK
  <2>q. QED
    <3>1. amiss'
      BY <1>1, <1>2 DEF DictationInv, PressIsRight
    <3>2. PressIsRight'
      BY <1>1, <3>1 DEF PressIsRight, A!DictationAssumption
    <3>3. A!TypeOK' /\ Slot' /\ A!BoxKeepsItsWords' /\ A!Borrowers' = A!Borrowers /\ \A x \in A!Borrowers : step'[x] = step[x]
      BY <1>1, <2>1 DEF DictationInv, A!TypeOK, Slot, A!BoxKeepsItsWords, A!engine, A!placing, A!ghosts, A!Borrowers
    <3>q. QED BY <1>1, <3>2, <3>3, EngineKept
<1>3. CASE press \in {"ok", "conflict"}
  <2>1. flag' = ~flag
    BY <1>3 DEF A!Settle, DictationInv, A!TypeOK
  <2>2. press # Nothing /\ Nothing # "failed"
    BY <1>3 DEF A!DictationAssumption
  <2>3. PressIsRight'
    BY <1>1, <2>1, <2>2 DEF DictationInv, A!TypeOK, PressIsRight, A!engine
  <2>4. A!TypeOK' /\ Slot' /\ A!BoxKeepsItsWords' /\ A!Borrowers' = A!Borrowers /\ \A x \in A!Borrowers : step'[x] = step[x]
    BY <1>1, <2>1 DEF DictationInv, A!TypeOK, Slot, A!BoxKeepsItsWords, A!engine, A!placing, A!ghosts, A!Borrowers
  <2>q. QED BY <1>1, <2>3, <2>4, EngineKept
<1>q. QED BY <1>2, <1>3 DEF A!Settle

LEMMA AnsweredKept == ASSUME A!DictationAssumption, DictationInv, NEW s \in Sessions, A!Answered(s) PROVE DictationInv'
<1>1. /\ UNCHANGED <<A!engine, step, A!placing, flag, A!ghosts, broken>> /\ press = s /\ s # Nothing /\ Nothing # "ok" /\ Nothing # "failed"
      /\ press' \in {"ok", "failed"} /\ amiss' \in BOOLEAN
      /\ press' = "failed" => amiss'
      /\ ~amiss' => ~amiss
  BY SlotFree DEF A!Answered, DictationInv, A!TypeOK, A!DictationAssumption
<1>2. PressIsRight'
  BY <1>1 DEF DictationInv, PressIsRight, A!engine
<1>3. A!TypeOK' /\ Slot' /\ A!BoxKeepsItsWords' /\ A!Borrowers' = A!Borrowers /\ \A x \in A!Borrowers : step'[x] = step[x]
  BY <1>1 DEF DictationInv, A!TypeOK, Slot, A!BoxKeepsItsWords, A!engine, A!placing, A!ghosts, A!Borrowers
<1>q. QED BY <1>1, <1>2, <1>3, EngineKept

LEMMA LeaveKept == ASSUME A!DictationAssumption, DictationInv, NEW s \in Sessions, A!Leave(s) PROVE DictationInv'
<1>1. /\ UNCHANGED <<A!engine, A!placing, flag, A!ghosts>> /\ press' = Nothing /\ amiss' = TRUE /\ broken' \in 0..MaxFailures
      /\ s \in A!Texts /\ step[s] \in {"awaiting", "ready"} /\ Nothing # "failed"
  BY SlotFree DEF A!Leave, A!Fault, DictationInv, A!TypeOK, A!DictationAssumption
<1>2. PICK how \in {step[s], "left"} : step' = [step EXCEPT ![s] = how]
  BY DEF A!Leave
<1>3. s \notin A!Borrowers
  BY <1>1 DEF A!Borrowers, A!Borrowing
<1>4. /\ A!Borrowers' = A!Borrowers /\ \A y \in A!Borrowers : step'[y] = step[y]
      /\ step' \in [A!Texts -> {"none", "awaiting", "cancelling", "ready"} \union A!Borrowing \union A!Replies]
  BY <1>1, <1>2, <1>3, HandlerKept
<1>5. A!TypeOK' /\ PressIsRight'
  BY <1>1, <1>4 DEF DictationInv, A!TypeOK, A!engine, A!placing, A!ghosts, PressIsRight
<1>6. Slot' /\ A!BoxKeepsItsWords'
  BY <1>1, <1>2 DEF DictationInv, A!TypeOK, Slot, A!BoxKeepsItsWords, A!engine, A!Borrowing, A!Texts
<1>q. QED BY <1>1, <1>4, <1>5, <1>6, EngineKept

LEMMA BoxKept == ASSUME A!DictationAssumption, DictationInv, NEW s \in Sessions, A!BoxStarts(s) \/ A!BoxEnds(s) PROVE DictationInv'
<1>1. amiss' = TRUE /\ UNCHANGED <<A!placing, A!hotkey, A!ghosts, broken>>
  BY DEF A!BoxStarts, A!BoxEnds
<1>2. PressIsRight'
  BY <1>1 DEF PressIsRight
<1>3. CASE A!BoxStarts(s)
  BY <1>1, <1>2, <1>3, SessionStartKept DEF A!BoxStarts, A!hotkey, DictationInv, A!TypeOK
<1>4. CASE A!BoxEnds(s)
  BY <1>1, <1>2, <1>4, TakeKept DEF A!BoxEnds, A!hotkey
<1>q. QED BY <1>3, <1>4
-----------------------------------------------------------------------------
(* Insertions. *)

\* A step of an insertion, or the user copying, leaves what is said of the engine and the hotkey.
LEMMA PlacingKept ==
  ASSUME DictationInv, UNCHANGED <<A!engine, A!hotkey, amiss>>, A!TypeOK',
         \A s \in Sessions : step[s] = "none" <=> step'[s] = "none",
         \A s \in Sessions : step'[s] \in {"ready"} \union A!Borrowing => step[s] \in {"ready"} \union A!Borrowing
  PROVE  Slot' /\ A!BoxKeepsItsWords' /\ PressIsRight'
<1>1. Slot'
  BY DEF DictationInv, Slot, A!engine
<1>2. A!BoxKeepsItsWords'
  BY DEF DictationInv, A!TypeOK, A!BoxKeepsItsWords, A!engine
<1>3. PressIsRight'
  BY DEF DictationInv, PressIsRight, A!engine, A!hotkey
<1>q. QED BY <1>1, <1>2, <1>3

LEMMA WithoutClipboardKept ==
  ASSUME A!DictationAssumption, DictationInv, NEW x \in A!Texts, A!WithoutClipboard(x)
  PROVE  DictationInv'
<1>1. /\ step[x] = "ready" /\ step' = [step EXCEPT ![x] = "done"]
      /\ UNCHANGED <<A!engine, A!hotkey, copied, amiss, A!placing, mixed, warned, broken>> /\ x \notin A!Borrowers
  BY DEF A!WithoutClipboard, A!Becomes, A!Borrowers, A!Borrowing
<1>2. /\ A!Borrowers' = A!Borrowers /\ \A y \in A!Borrowers : step'[y] = step[y]
      /\ step' \in [A!Texts -> {"none", "awaiting", "cancelling", "ready"} \union A!Borrowing \union A!Replies]
  BY <1>1, HandlerKept
<1>3. A!TypeOK'
  BY <1>1, <1>2 DEF DictationInv, A!TypeOK, A!engine, A!placing, A!hotkey
<1>4. Slot' /\ A!BoxKeepsItsWords' /\ PressIsRight'
  <2>1. \A s \in Sessions : s \in A!Texts
    BY DEF A!Texts
  <2>q. QED BY <1>1, <1>3, <2>1, PlacingKept DEF DictationInv, A!TypeOK, A!Borrowing
<1>q. QED BY <1>1, <1>2, <1>3, <1>4, EngineKept DEF A!ghosts

LEMMA SnapshotKept == ASSUME A!DictationAssumption, DictationInv, NEW x \in A!Texts, A!Snapshot(x) PROVE DictationInv'
<1>1. /\ step[x] = "ready" /\ step' = [step EXCEPT ![x] = "snapped"]
      /\ UNCHANGED <<A!engine, A!hotkey, copied, amiss, clipboard, warned>> /\ x \notin A!Borrowers
      /\ broken' \in 0..MaxFailures
      /\ mixed' = mixed \union (IF A!Borrowers = {} THEN {} ELSE {x} \union A!Borrowers)
  BY DEF A!Snapshot, A!Becomes, A!Borrowers, A!Borrowing, A!Fault, A!NoFault, DictationInv, A!TypeOK, A!DictationAssumption
<1>2. /\ \A y \in A!Texts : y # x => snap'[y] = snap[y]
      /\ snap'[x] \in {clipboard, Nothing} /\ snap' \in [A!Texts -> A!Contents \union {Nothing}]
  <2>1. snap[x] = Nothing
    BY <1>1 DEF DictationInv, Insertions
  <2>q. QED BY <2>1 DEF A!Snapshot, DictationInv, A!TypeOK
<1>3. A!Borrowers' = A!Borrowers \union {x} /\ \A y \in A!Texts : y # x => step'[y] = step[y]
  BY <1>1 DEF A!Borrowers, A!Borrowing, DictationInv, A!TypeOK
<1>4. A!TypeOK'
  BY <1>1, <1>2 DEF DictationInv, A!TypeOK, A!engine, A!hotkey, A!Borrowing, A!Borrowers
<1>5. Slot' /\ A!BoxKeepsItsWords' /\ PressIsRight'
  <2>1. \A s \in Sessions : s \in A!Texts
    BY DEF A!Texts
  <2>q. QED BY <1>1, <1>4, <2>1, PlacingKept DEF DictationInv, A!TypeOK, A!Borrowing
<1>6. Insertions'
  <2>1. \A y \in A!Texts : y \notin A!Borrowers' => snap'[y] = Nothing
    BY <1>2, <1>3 DEF DictationInv, Insertions
  <2>2. \A y, z \in A!Borrowers' : y # z => y \in mixed'
    <3> SUFFICES ASSUME NEW y \in A!Borrowers', NEW z \in A!Borrowers', y # z PROVE y \in mixed'
      OBVIOUS
    <3>1. A!Borrowers # {}
      BY <1>3
    <3>q. QED BY <1>1, <1>3, <3>1
  <2>q. QED BY <2>1, <2>2 DEF Insertions
<1>7. A!WordsLandAsSaid'
  <2> SUFFICES ASSUME NEW y \in A!Texts, step'[y] = "written" PROVE clipboard' = A!Whole(y) \/ y \in mixed'
    BY DEF A!WordsLandAsSaid, A!Whole
  <2>1. y # x
    BY <1>1 DEF DictationInv, A!TypeOK
  <2>q. QED BY <1>1, <1>3, <2>1 DEF DictationInv, A!WordsLandAsSaid
<1>8. CopyIsKept'
  <2> SUFFICES ASSUME mixed' = {}, ~warned'
               PROVE  /\ A!Borrowers' = {} => clipboard' = A!Whole(copied')
                      /\ \A y \in A!Borrowers' : /\ snap'[y] = Nothing \/ snap'[y] = A!Whole(copied')
                                                 /\ step'[y] = "snapped" => clipboard' = A!Whole(copied')
    BY DEF CopyIsKept, A!Whole
  <2>1. mixed = {} /\ A!Borrowers = {}
    BY <1>1
  <2>2. clipboard = A!Whole(copied)
    BY <1>1, <2>1 DEF DictationInv, CopyIsKept
  <2>3. A!Whole(copied') = A!Whole(copied)
    BY <1>1 DEF A!Whole
  <2>q. QED BY <1>1, <1>2, <1>3, <2>1, <2>2, <2>3
<1>q. QED BY <1>4, <1>5, <1>6, <1>7, <1>8 DEF DictationInv

\* An insertion goes on, and still has the clipboard.
LEMMA GoesOnKept ==
  ASSUME A!DictationAssumption, DictationInv, NEW x \in A!Texts, A!Write(x) \/ A!Paste(x)
  PROVE  DictationInv'
<1>1. PICK how \in {"written", "pasted"} :
        /\ step' = [step EXCEPT ![x] = how] /\ step[x] \in A!Borrowing
        /\ how = "written" => clipboard' = A!Whole(x)
        /\ how = "pasted" => clipboard' = clipboard
        /\ UNCHANGED <<A!engine, A!hotkey, copied, amiss, snap, mixed, warned, broken>>
  BY DEF A!Write, A!Paste, A!Becomes, A!Borrowing, A!placing
<1>2. A!Whole(x) \in A!Contents
  BY DEF A!Whole, A!Contents
<1>3. x \in A!Borrowers /\ A!Borrowers' = A!Borrowers /\ \A y \in A!Texts : y # x => step'[y] = step[y]
  BY <1>1 DEF A!Borrowers, A!Borrowing, DictationInv, A!TypeOK
<1>4. A!TypeOK'
  BY <1>1, <1>2 DEF DictationInv, A!TypeOK, A!engine, A!hotkey, A!Borrowing
<1>5. Slot' /\ A!BoxKeepsItsWords' /\ PressIsRight'
  <2>1. \A s \in Sessions : s \in A!Texts
    BY DEF A!Texts
  <2>q. QED BY <1>1, <1>4, <2>1, PlacingKept DEF DictationInv, A!TypeOK, A!Borrowing
<1>6. Insertions'
  BY <1>1, <1>3 DEF DictationInv, Insertions
<1>7. A!WordsLandAsSaid'
  <2> SUFFICES ASSUME NEW y \in A!Texts, step'[y] = "written" PROVE clipboard' = A!Whole(y) \/ y \in mixed'
    BY DEF A!WordsLandAsSaid, A!Whole
  <2>1. CASE y = x
    BY <1>1, <2>1 DEF DictationInv, A!TypeOK
  <2>2. CASE y # x
    <3>1. y \in A!Borrowers
      BY <1>3, <2>2 DEF A!Borrowers, A!Borrowing
    <3>q. QED BY <1>1, <1>3, <2>2, <3>1 DEF DictationInv, Insertions
  <2>q. QED BY <2>1, <2>2
<1>8. CopyIsKept'
  <2> SUFFICES ASSUME mixed' = {}, ~warned'
               PROVE  /\ A!Borrowers' = {} => clipboard' = A!Whole(copied')
                      /\ \A y \in A!Borrowers' : /\ snap'[y] = Nothing \/ snap'[y] = A!Whole(copied')
                                                 /\ step'[y] = "snapped" => clipboard' = A!Whole(copied')
    BY DEF CopyIsKept, A!Whole
  <2>1. \A y \in A!Borrowers : y = x
    BY <1>1, <1>3 DEF DictationInv, Insertions
  <2>2. step'[x] # "snapped"
    BY <1>1 DEF DictationInv, A!TypeOK
  <2>3. A!Whole(copied') = A!Whole(copied)
    BY <1>1 DEF A!Whole
  <2>q. QED BY <1>1, <1>3, <2>1, <2>2, <2>3 DEF DictationInv, CopyIsKept
<1>q. QED BY <1>4, <1>5, <1>6, <1>7, <1>8 DEF DictationInv

LEMMA CopyHeld == ASSUME CopyIsKept, mixed = {}, ~warned, NEW x \in A!Borrowers, snap[x] # Nothing
                  PROVE  snap[x] = A!Whole(copied)
BY DEF CopyIsKept

\* An insertion ends: it gives back what it found, or the user is told.
LEMMA EndsKept ==
  ASSUME A!DictationAssumption, DictationInv, NEW x \in A!Texts, step[x] \in A!Borrowing, A!Becomes(x, "done"),
         snap' = [snap EXCEPT ![x] = Nothing], mixed' = mixed, warned' \in BOOLEAN, warned => warned',
         clipboard' \in A!Contents, broken' \in 0..MaxFailures,
         ~warned' => snap[x] # Nothing /\ clipboard' = snap[x]
  PROVE  DictationInv'
<1>1. step' = [step EXCEPT ![x] = "done"] /\ UNCHANGED <<A!engine, A!hotkey, copied, amiss>>
  BY DEF A!Becomes
<1>3. x \in A!Borrowers /\ A!Borrowers' = A!Borrowers \ {x} /\ \A y \in A!Texts : y # x => step'[y] = step[y]
  BY <1>1 DEF A!Borrowers, A!Borrowing, DictationInv, A!TypeOK
<1>4. A!TypeOK'
  BY <1>1 DEF DictationInv, A!TypeOK, A!engine, A!hotkey, A!Borrowing, A!Replies
<1>5. Slot' /\ A!BoxKeepsItsWords' /\ PressIsRight'
  <2>1. \A s \in Sessions : s \in A!Texts
    BY DEF A!Texts
  <2>q. QED BY <1>1, <1>4, <2>1, PlacingKept DEF DictationInv, A!TypeOK, A!Borrowing
<1>6. Insertions'
  BY <1>1, <1>3 DEF DictationInv, A!TypeOK, Insertions
<1>7. A!WordsLandAsSaid'
  <2> SUFFICES ASSUME NEW y \in A!Texts, step'[y] = "written" PROVE clipboard' = A!Whole(y) \/ y \in mixed'
    BY DEF A!WordsLandAsSaid, A!Whole
  <2>1. y # x
    BY <1>1 DEF DictationInv, A!TypeOK
  <2>2. y \in A!Borrowers
    BY <1>3, <2>1 DEF A!Borrowers, A!Borrowing
  <2>q. QED BY <1>3, <2>1, <2>2 DEF DictationInv, Insertions
<1>8. CopyIsKept'
  <2> SUFFICES ASSUME mixed' = {}, ~warned'
               PROVE  /\ A!Borrowers' = {} => clipboard' = A!Whole(copied')
                      /\ \A y \in A!Borrowers' : /\ snap'[y] = Nothing \/ snap'[y] = A!Whole(copied')
                                                 /\ step'[y] = "snapped" => clipboard' = A!Whole(copied')
    BY DEF CopyIsKept, A!Whole
  <2>1. A!Borrowers' = {}
    BY <1>3 DEF DictationInv, Insertions
  <2>0. mixed = {} /\ ~warned /\ snap[x] # Nothing
    OBVIOUS
  <2>2. snap[x] = A!Whole(copied)
    <3>1. x \in A!Borrowers /\ CopyIsKept
      BY <1>3 DEF DictationInv
    <3>q. QED BY <2>0, <3>1, CopyHeld
  <2>3. A!Whole(copied') = A!Whole(copied)
    BY <1>1 DEF A!Whole
  <2>q. QED BY <2>1, <2>2, <2>3
<1>q. QED BY <1>4, <1>5, <1>6, <1>7, <1>8 DEF DictationInv

LEMMA PutBackTyped == ASSUME NEW c \in A!Contents PROVE A!PutBack(c) \in A!Contents
BY DEF A!PutBack, A!Contents

LEMMA EndingsKept ==
  ASSUME A!DictationAssumption, DictationInv, NEW x \in A!Texts, A!WriteFails(x) \/ A!Restore(x) \/ A!Keep(x)
  PROVE  DictationInv'
<1>1. A!Empty \in A!Contents /\ clipboard \in A!Contents /\ snap[x] \in A!Contents \union {Nothing}
  BY DEF DictationInv, A!TypeOK, A!Empty, A!Whole, A!Contents
<1>2. A!Fault \/ A!NoFault \/ UNCHANGED broken => broken' \in 0..MaxFailures
  BY DEF A!Fault, A!NoFault, DictationInv, A!TypeOK, A!DictationAssumption
<1>3. CASE A!WriteFails(x)
  BY <1>1, <1>2, <1>3, EndsKept DEF A!WriteFails, A!Borrowing
<1>4. CASE A!Keep(x)
  <2>1. clipboard' \in A!Contents /\ broken' \in 0..MaxFailures
    BY <1>1, <1>2, <1>4 DEF A!Keep
  <2>q. QED BY <1>4, <2>1, EndsKept DEF A!Keep, A!Borrowing
<1>5. CASE A!Restore(x)
  <2>1. clipboard' = A!PutBack(snap[x]) /\ warned' = (warned \/ A!PutBack(snap[x]) # snap[x]) /\ snap[x] # Nothing
    BY <1>5 DEF A!Restore
  <2>2. clipboard' \in A!Contents /\ broken' \in 0..MaxFailures
    BY <1>1, <1>2, <1>5, <2>1, PutBackTyped DEF A!Restore
  <2>3. warned' \in BOOLEAN /\ (warned => warned') /\ (~warned' => clipboard' = snap[x])
    BY <2>1 DEF DictationInv, A!TypeOK
  <2>q. QED BY <1>5, <2>1, <2>2, <2>3, EndsKept DEF A!Restore, A!Borrowing
<1>q. QED BY <1>3, <1>4, <1>5

LEMMA CopyKept == ASSUME A!DictationAssumption, DictationInv, NEW c \in Copies, A!Copy(c) PROVE DictationInv'
<1>1. /\ copied' = c /\ clipboard' = A!Whole(c) /\ warned' = FALSE
      /\ mixed' = IF A!Borrowers = {} THEN {} ELSE mixed \union A!Borrowers
      /\ UNCHANGED <<A!engine, step, snap, A!hotkey, amiss, broken>>
  BY DEF A!Copy
<1>2. A!Whole(c) \in A!Contents /\ A!Borrowers \subseteq A!Texts /\ A!Borrowers' = A!Borrowers
  BY <1>1 DEF A!Whole, A!Contents, A!Borrowers
<1>3. A!TypeOK'
  BY <1>1, <1>2 DEF DictationInv, A!TypeOK, A!engine, A!hotkey
<1>4. Slot' /\ A!BoxKeepsItsWords' /\ PressIsRight'
  BY <1>1, <1>3, PlacingKept
<1>5. Insertions'
  BY <1>1, <1>2 DEF DictationInv, Insertions
<1>6. A!WordsLandAsSaid'
  <2> SUFFICES ASSUME NEW y \in A!Texts, step'[y] = "written" PROVE y \in mixed'
    BY DEF A!WordsLandAsSaid
  <2>1. y \in A!Borrowers
    BY <1>1 DEF A!Borrowers, A!Borrowing
  <2>q. QED BY <1>1, <2>1
<1>7. CopyIsKept'
  <2>1. CASE A!Borrowers = {}
    BY <1>1, <1>2, <2>1 DEF CopyIsKept, A!Whole
  <2>2. CASE A!Borrowers # {}
    BY <1>1, <2>2 DEF CopyIsKept
  <2>q. QED BY <2>1, <2>2
<1>q. QED BY <1>3, <1>4, <1>5, <1>6, <1>7 DEF DictationInv

LEMMA DictationNext == ASSUME A!DictationAssumption, DictationInv, [A!Next]_(A!vars) PROVE DictationInv'
<1>1. CASE UNCHANGED A!vars
  BY <1>1 DEF A!vars, A!engine, A!placing, A!hotkey, A!ghosts, DictationInv, A!TypeOK, Slot, A!BoxKeepsItsWords, Insertions,
              A!WordsLandAsSaid, CopyIsKept, PressIsRight, A!Borrowers, A!Whole
<1>2. ASSUME NEW s \in Sessions,
             A!Expire(s) \/ A!End(s) \/ A!Break(s) \/ A!Hand(s) \/ A!Answered(s) \/ A!Leave(s) \/ A!BoxStarts(s) \/ A!BoxEnds(s)
      PROVE  DictationInv'
  BY <1>2, ThreadKept, HandKept, AnsweredKept, LeaveKept, BoxKept
<1>3. ASSUME NEW x \in A!Texts, A!Act(x) \/ A!Place(x) PROVE DictationInv'
  BY <1>3, ActKept, WithoutClipboardKept, SnapshotKept, GoesOnKept, EndingsKept DEF A!Place
<1>q. QED BY <1>1, <1>2, <1>3, CopyKept, PressToStartKept, PressToStopKept, SettleKept DEF A!Next

LEMMA DictationSafe == ASSUME A!DictationAssumption, DictationInv PROVE A!NothingElseIsTouched /\ A!FlagIsRight
<1>1. A!ClipboardComesBack
  BY DEF DictationInv, CopyIsKept, A!ClipboardComesBack
<1>q. QED BY <1>1 DEF DictationInv, A!TypeOK, A!NothingElseIsTouched, A!FlagIsRight, PressIsRight

-----------------------------------------------------------------------------
(* The parts beside each other: a step of one leaves the other's variables. *)

LEMMA DictationInvariance == MicrophoneSpec => []DictationInv
<1>1. MicrophoneInit => DictationInv
  BY Assumptions, DictationInit DEF MicrophoneInit
<1>2. DictationInv /\ [MicrophoneNext]_allVars => DictationInv'
  <2>1. MicrophoneNext => [A!Next]_(A!vars)
    BY DEF MicrophoneNext, RecordingStep, DictationStep, dictation, A!vars, A!engine, A!placing, A!hotkey, A!ghosts
  <2>2. UNCHANGED allVars => [A!Next]_(A!vars)
    BY DEF allVars, dictation, A!vars, A!engine, A!placing, A!hotkey, A!ghosts
  <2>q. QED BY <2>1, <2>2, Assumptions, DictationNext
<1>q. QED BY <1>1, <1>2, PTL DEF MicrophoneSpec

\* A box's words are never typed, what is pasted is what was said, and the clipboard comes back or the
\* user is told, however insertions, copies and failures come between, but where insertions met.
THEOREM MicrophoneNothingElseIsTouched == MicrophoneSpec => []NothingElseIsTouched
<1>1. DictationInv => NothingElseIsTouched
  BY Assumptions, DictationSafe DEF NothingElseIsTouched
<1>q. QED BY <1>1, DictationInvariance, PTL

\* The hotkey's flag is right between presses, however answers, refusals and failures come, unless
\* something else drove dictation since.
THEOREM MicrophoneFlagIsRight == MicrophoneSpec => []FlagIsRight
<1>1. DictationInv => FlagIsRight
  BY Assumptions, DictationSafe DEF FlagIsRight
<1>q. QED BY <1>1, DictationInvariance, PTL
=============================================================================
