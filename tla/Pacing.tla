-------------------------------- MODULE Pacing --------------------------------
(***************************************************************************)
(* System audio on the wall clock: PacedStream (audio-capture/src/         *)
(* pacing.rs) and the source that reads it (system_audio.rs).  The         *)
(* platform delivers what is playing, some time after, and nothing at all  *)
(* while the machine is silent; the stream fills what is overdue.          *)
(*                                                                         *)
(* A tick is the source's poll, 10 ms, and a sample is what is captured in *)
(* one.  A captured sample is the tick it was captured in.                 *)
(***************************************************************************)
EXTENDS Integers, Sequences

CONSTANTS
  Frame,      \* samples to a frame
  Allowance,  \* how late audio may be before silence takes its place
  Delay,      \* how late the platform delivers at most
  Stall,      \* how long the reader is kept from catching up at most
  Lead,       \* how long after the clock's origin the source opens at most
  MaxNow      \* bound: the length of a recording

PacingAssumption ==
  /\ Frame \in Nat \ {0} /\ {Allowance, Delay, Stall, Lead, MaxNow} \subseteq Nat /\ Stall > 0
  /\ Lead <= MaxNow

VARIABLES
  elapsed,  \* since the clock's origin
  flight,   \* captured, and not yet with the reader
  pending,  \* arrived, and not yet handed out
  emitted,  \* samples handed out: the stream's own clock
  out,      \* what was handed out last: where it begins, and the real audio in it
  behind,   \* how long ago the reader had caught up
  stopped

vars == <<elapsed, flight, pending, emitted, out, behind, stopped>>

Lesser(x, y) == IF x < y THEN x ELSE y

Ticks == 0 .. MaxNow

TypeOK ==
  /\ elapsed \in Ticks
  /\ flight \in Seq(Ticks) /\ pending \in Seq(Ticks)
  /\ emitted \in Nat
  /\ out \in [at : Nat, samples : Seq(Ticks)] /\ Len(out.samples) <= Frame
  /\ behind \in 0 .. Stall
  /\ stopped \in BOOLEAN

Init ==
  /\ elapsed \in 0 .. Lead
  /\ behind = 0
  /\ flight = <<>> /\ pending = <<>>
  /\ emitted = 0 /\ out = [at |-> 0, samples |-> <<>>]
  /\ stopped = FALSE

\* Time passes, and the machine plays something or is silent.
Tick ==
  /\ ~stopped
  /\ elapsed < MaxNow /\ behind < Stall
  /\ elapsed' = elapsed + 1
  /\ behind' = behind + 1
  /\ \/ flight' = Append(flight, elapsed)
     \/ UNCHANGED flight
  /\ UNCHANGED <<pending, emitted, out, stopped>>

\* drain: what was delivered, in order, and nothing that is overdue is still on its way.
Delivered == {n \in 0 .. Len(flight) : \A i \in n + 1 .. Len(flight) : flight[i] + Delay > elapsed}
Arrived(n) == pending \o SubSeq(flight, 1, n)
Drain(n)   == flight' = SubSeq(flight, n + 1, Len(flight))

\* take: a frame of what arrived, and silence after it where that is too little.
Take(samples, len) ==
  LET real == Lesser(len, Len(samples))
  IN /\ pending' = SubSeq(samples, real + 1, Len(samples))
     /\ emitted' = emitted + len
     /\ out' = [at |-> emitted, samples |-> SubSeq(samples, 1, real)]

\* Silence takes the place of audio that is merely on its way.
OverdueAtOnce == elapsed >= emitted + Frame

\* The next whole frame lies further back than the allowance.
Overdue == elapsed - Allowance >= emitted + Frame

\* next_frame: real audio when there is a frame of it, else whatever came once it is overdue, and
\* else the reader waits, with nothing left to hand out.
Read ==
  /\ ~stopped
  /\ UNCHANGED <<elapsed, stopped>>
  /\ \E n \in Delivered :
       /\ Drain(n)
       /\ \/ /\ (Len(Arrived(n)) >= Frame \/ Overdue)
             /\ Take(Arrived(n), Frame)
             /\ UNCHANGED behind
          \/ /\ Len(Arrived(n)) < Frame /\ ~Overdue
             /\ pending' = Arrived(n)
             /\ behind' = 0
             /\ UNCHANGED <<emitted, out>>

Stop ==
  /\ ~stopped
  /\ stopped' = TRUE
  /\ UNCHANGED <<elapsed, flight, pending, emitted, out, behind>>

\* rest: real audio alone, a frame at a time. What was not delivered by then is not waited for.
ReadRest ==
  /\ stopped
  /\ \E n \in 0 .. Len(flight) :
       /\ Arrived(n) # <<>>
       /\ Drain(n)
       /\ Take(Arrived(n), Lesser(Frame, Len(Arrived(n))))
  /\ UNCHANGED <<elapsed, behind, stopped>>

Next == Tick \/ Read \/ Stop \/ ReadRest

Spec == Init /\ [][Next]_vars
-----------------------------------------------------------------------------
(* Properties. *)

Larger(x, y) == IF x > y THEN x ELSE y

\* What is heard is stamped near the time it was heard, through silences, late deliveries and a
\* reader that is held up, and the error does not add up: it is late by no more than the platform
\* exceeds the allowance, and early by no more than one frame, the allowance and one hold-up, for
\* sound that begins after a silence is put before the fill that is still to come.
StampedNearItsTime ==
  \A i \in DOMAIN out.samples :
    (out.at + i - 1) - out.samples[i] \in
      1 - (Stall + Larger(Allowance + Frame, Lead)) .. Larger(0, Delay - Allowance - 1)
=============================================================================
