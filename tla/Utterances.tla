----------------------------- MODULE Utterances -----------------------------
(***************************************************************************)
(* How streaming audio is cut into buffers worth decoding: UtteranceBuffer *)
(* of transcription/src/stream.rs, fed frame by frame by an engine and     *)
(* flushed at the end (transcription/src/engine.rs).                       *)
(*                                                                         *)
(* The unit is half a sub-frame of the speech gate, 10 ms: 160 samples at  *)
(* the one rate engines use, so that milliseconds and samples convert      *)
(* exactly.  Which sub-frames the gate takes for speech, and where in the  *)
(* searched stretch it is quietest, is any choice.                         *)
(***************************************************************************)
EXTENDS Integers, Sequences

CONSTANTS
  Frames,           \* lengths of the frames that are pushed, in sub-frames
  EndpointSilence,  \* the settings of UtteranceConfig, in units
  MaxUtterance,
  CutSearch,
  MinSpeech,
  Preroll,
  MaxSilence,
  MaxPushed         \* bound on the recording's length

UtterancesAssumption ==
  /\ Frames \subseteq Nat \ {0} /\ \E longest \in Frames : \A frame \in Frames : frame <= longest
  /\ {EndpointSilence, MaxUtterance, CutSearch, MinSpeech, Preroll, MaxSilence, MaxPushed} \subseteq Nat

VARIABLES
  buffer,   \* what is held: for each unit, whether it is part of speech
  chunks,   \* the pushed chunks still in it, as lengths and speech
  offset,   \* what was consumed before it
  speech,   \* speech_ms
  silence,  \* silence_ms
  pushed,   \* everything pushed so far
  out,      \* ghost: the last buffer handed out
  lost,     \* ghost: the speech in what was dropped last
  ended

vars == <<buffer, chunks, offset, speech, silence, pushed, out, lost, ended>>

SubFrame == 2

\* What the first k of a sequence of numbers come to.
SumTo(seq) ==
  LET upTo[k \in 0 .. Len(seq)] == IF k = 0 THEN 0 ELSE upTo[k - 1] + seq[k] IN upTo
Sum(seq) == SumTo(seq)[Len(seq)]

Ones(units)   == [k \in DOMAIN units |-> IF units[k] THEN 1 ELSE 0]
Spoken(units) == Sum(Ones(units))
Lens(cs)      == [i \in DOMAIN cs |-> cs[i].len]
Speeches(cs)  == [i \in DOMAIN cs |-> cs[i].speech]

Lesser(x, y)  == IF x < y THEN x ELSE y
Greater(x, y) == IF x > y THEN x ELSE y

Nothing == [at |-> 0, units |-> <<>>, how |-> "none"]

TypeOK ==
  /\ buffer \in Seq(BOOLEAN) /\ Len(buffer) <= MaxPushed
  /\ chunks \in Seq([len : Nat, speech : Nat])
  /\ {offset, speech, silence, pushed, lost} \subseteq Nat
  /\ out \in [at : Nat, units : Seq(BOOLEAN), how : {"none", "pause", "cap", "end"}]
  /\ ended \in BOOLEAN

Init ==
  /\ buffer = <<>> /\ chunks = <<>>
  /\ offset = 0 /\ speech = 0 /\ silence = 0 /\ pushed = 0
  /\ out = Nothing /\ lost = 0 /\ ended = FALSE

-----------------------------------------------------------------------------
(* Cutting *)

\* What is left of chunk i once n units are consumed.
Left(cs, n, i) == Lesser(cs[i].len, SumTo(Lens(cs))[i] - n)

\* The chunk the cut falls inside keeps its speech in proportion to what is left of it.
ShareAll(chunk, left) == chunk.speech
Share(chunk, left)    == (chunk.speech * left) \div chunk.len

\* The chunks that are consumed whole are gone, and the next is cut.
After(cs, n) ==
  LET gone == CHOOSE g \in 0 .. Len(cs) : \A i \in DOMAIN cs : i <= g <=> SumTo(Lens(cs))[i] <= n
  IN [i \in 1 .. Len(cs) - gone |->
        LET left == Left(cs, n, gone + i)
        IN [len |-> left, speech |-> Share(cs[gone + i], left)]]

\* take_until: hand out what is before the cut, and keep the rest with its speech recounted.
TakeUntil(all, cs, quiet, cut, how) ==
  LET kept == After(cs, cut) IN
  /\ out' = [at |-> offset, units |-> SubSeq(all, 1, cut), how |-> how]
  /\ buffer' = SubSeq(all, cut + 1, Len(all))
  /\ chunks' = kept
  /\ offset' = offset + cut
  /\ speech' = Sum(Speeches(kept))
  /\ silence' = Lesser(quiet, Len(all) - cut)
  /\ lost' = 0

\* quietest_cut: the middle of a window of one sub-frame in the last CutSearch units, never before
\* half way.
Cuts(len) ==
  LET from == Greater(len - CutSearch, len \div 2)
      starts == {s \in from .. len : s + SubFrame <= len}
  IN IF starts = {} THEN {len} ELSE {s + SubFrame \div 2 : s \in starts}

\* discard: keep the pre-roll, counted as silence.
Discard(all, cs, heard, quiet) ==
  LET keep == Lesser(Preroll, Len(all))
      drop == Len(all) - keep
  IN IF drop = 0
       THEN /\ buffer' = all /\ chunks' = cs /\ speech' = heard /\ silence' = quiet
            /\ UNCHANGED <<offset, lost>>
       ELSE /\ buffer' = SubSeq(all, drop + 1, Len(all))
            /\ chunks' = IF keep = 0 THEN <<>> ELSE <<[len |-> keep, speech |-> 0]>>
            /\ offset' = offset + drop
            /\ speech' = 0
            /\ silence' = keep
            /\ lost' = Spoken(SubSeq(all, 1, drop))

-----------------------------------------------------------------------------
(* The operations *)

\* A frame of which the gate takes these sub-frames for speech.
Push(frame) ==
  LET units == [i \in 1 .. SubFrame * Len(frame) |-> frame[(i + 1) \div SubFrame]]
      all == buffer \o units
      cs == Append(chunks, [len |-> Len(units), speech |-> Spoken(units)])
      heard == speech + Spoken(units)
      quiet == IF Spoken(units) > 0 THEN 0 ELSE silence + Len(units)
      enough == heard >= MinSpeech
  IN
  /\ ~ended
  /\ pushed + Len(units) <= MaxPushed
  /\ pushed' = pushed + Len(units)
  /\ UNCHANGED ended
  /\ \/ /\ enough /\ quiet >= EndpointSilence
        /\ TakeUntil(all, cs, quiet, Len(all), "pause")
     \/ /\ enough /\ quiet < EndpointSilence /\ Len(all) >= MaxUtterance
        /\ \E cut \in Cuts(Len(all)) : TakeUntil(all, cs, quiet, cut, "cap")
     \/ /\ ~enough /\ (Len(all) >= MaxUtterance \/ quiet >= MaxSilence)
        /\ Discard(all, cs, heard, quiet)
        /\ UNCHANGED out
     \/ /\ Len(all) < MaxUtterance
        /\ IF enough THEN quiet < EndpointSilence ELSE quiet < MaxSilence
        /\ buffer' = all /\ chunks' = cs /\ speech' = heard /\ silence' = quiet
        /\ UNCHANGED <<offset, out, lost>>

\* The recording stops.
Flush ==
  /\ ~ended
  /\ ended' = TRUE
  /\ UNCHANGED pushed
  /\ IF buffer # <<>> /\ speech >= MinSpeech
       THEN TakeUntil(buffer, chunks, silence, Len(buffer), "end")
       ELSE /\ offset' = offset + Len(buffer)
            /\ lost' = Spoken(buffer)
            /\ buffer' = <<>> /\ chunks' = <<>> /\ speech' = 0 /\ silence' = 0
            /\ UNCHANGED out

Next ==
  \/ \E n \in Frames : \E frame \in [1 .. n -> BOOLEAN] : Push(frame)
  \/ Flush

Spec == Init /\ [][Next]_vars

-----------------------------------------------------------------------------
(* Properties *)

\* The clock and the counts describe what is held, after every cut at any place and every discard:
\* offset_ms places a segment where it was said (take_until, discard).
CountsAgree ==
  /\ offset + Len(buffer) = pushed
  /\ Sum(Lens(chunks)) = Len(buffer)
  /\ Sum(Speeches(chunks)) = speech
  /\ silence <= Len(buffer)

\* A cut inside a pushed frame shares its speech evenly, and is wrong by a quarter of it at most.
Longest  == CHOOSE longest \in Frames : \A frame \in Frames : frame <= longest
CutError == 1 + (SubFrame * Longest) \div 4

\* What is decoded because somebody paused or the recording ended holds the least speech worth
\* decoding, but for the error of the last cut; and what is dropped holds less than that, but for
\* that error or the pre-roll, whose speech is forgotten. The errors of cuts and discards do not
\* add up. A buffer cut at the length cap may hold less: the cut can fall before the speech that
\* filled it (push, flush, take_until).
SpeechDecides ==
  /\ out.how \in {"pause", "end"} => Spoken(out.units) + CutError > MinSpeech
  /\ lost < MinSpeech + Greater(Preroll, CutError)
=============================================================================
