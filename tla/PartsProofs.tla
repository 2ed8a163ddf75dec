----------------------------- MODULE PartsProofs -----------------------------
(***************************************************************************)
(* Safety of six parts that stand beside each other, for any values of     *)
(* their constants: what the model router promises of requests and         *)
(* settings, a meeting told once, an import whose cursor passes nothing    *)
(* by, merges that lose nobody who attended, speech that is counted        *)
(* through every cut, and audio stamped near the time it was heard.        *)
(*                                                                         *)
(* The invariants the runs check are not inductive. Each part's proof      *)
(* starts with what makes them so.                                         *)
(***************************************************************************)
EXTENDS Parts, FiniteSetTheorems, WellFoundedInduction, TLAPS

-----------------------------------------------------------------------------
(* Induction. The library's theorems of induction take a predicate; that a *)
(* set which holds 0 and every successor holds the numbers says as much.   *)

Below == {ss \in Nat \X Nat : ss[1] < ss[2]}

LEMMA LeastOfSet ==
  ASSUME NEW T, T \subseteq Nat, T # {}
  PROVE  \E x \in T : \A y \in T : x <= y
<1>1. IsWellFoundedOn(Below, Nat)
  BY NatLessThanWellFounded DEF OpToRel, Below
<1>2. PICK x \in T : \A y \in T : ~ (<<y, x>> \in Below)
  BY <1>1, WFMin
<1>3. ASSUME NEW y \in T PROVE x <= y
  <2>1. x \in Nat /\ y \in Nat /\ <<y, x>> \in Nat \X Nat /\ <<y, x>> \notin Below
    BY <1>2
  <2>2. ~ (y < x)
    BY <2>1 DEF Below
  <2>q. QED BY <2>1, <2>2
<1>q. QED BY <1>3

LEMMA InductionOnSet ==
  ASSUME NEW S, 0 \in S, \A n \in Nat : n \in S => n + 1 \in S
  PROVE  Nat \subseteq S
<1>1. SUFFICES ASSUME Nat \ S # {} PROVE FALSE
  OBVIOUS
<1>2. PICK x \in Nat \ S : \A y \in Nat \ S : x <= y
  BY <1>1, LeastOfSet
<1>3. x # 0 /\ x - 1 \in Nat /\ x - 1 \notin S
  BY <1>2
<1>q. QED BY <1>3, <1>2

\* What is chosen of a sequence is a sequence of such elements.
LEMMA ChosenTyped == ASSUME NEW T, NEW seq \in Seq(T), NEW places PROVE Chosen(seq, places) \in Seq(T)
<1> DEFINE Longer(s, k) == IF k \in places THEN Append(s, seq[k]) ELSE s
           Steps(s, n) == s[0] = <<>> /\ \A k \in 1..n : s[k] = Longer(s[k - 1], k)
           S == {n \in Nat : n <= Len(seq) => \E s \in [0..n -> Seq(T)] : Steps(s, n)}
           Is(s) == s = [n \in 0..Len(seq) |->
                           IF n = 0 THEN <<>> ELSE IF n \in places THEN Append(s[n - 1], seq[n]) ELSE s[n - 1]]
<1>0. Len(seq) \in Nat /\ \A k \in 1..Len(seq) : seq[k] \in T
  OBVIOUS
<1>a. \A s \in Seq(T), k \in 1..Len(seq) : Longer(s, k) \in Seq(T)
  BY <1>0
<1> HIDE DEF Longer
<1>1. 0 \in S
  <2>1. [k \in 0..0 |-> <<>>] \in [0..0 -> Seq(T)] /\ Steps([k \in 0..0 |-> <<>>], 0)
    OBVIOUS
  <2>q. QED BY <2>1
<1>2. ASSUME NEW n \in Nat, n \in S PROVE n + 1 \in S
  <2>1. SUFFICES ASSUME n + 1 <= Len(seq) PROVE \E s \in [0..(n + 1) -> Seq(T)] : Steps(s, n + 1)
    <3> HIDE DEF Steps
    <3>q. QED OBVIOUS
  <2>2. PICK s \in [0..n -> Seq(T)] : Steps(s, n)
    <3> HIDE DEF Steps
    <3>q. QED BY <1>0, <1>2, <2>1
  <2> DEFINE t == [k \in 0..(n + 1) |-> IF k = n + 1 THEN Longer(s[n], n + 1) ELSE s[k]]
  <2>3. s[0] = <<>> /\ \A k \in 1..n : s[k] = Longer(s[k - 1], k)
    BY <2>2
  <2>4. Longer(s[n], n + 1) \in Seq(T)
    <3>1. n + 1 \in 1..Len(seq) /\ s[n] \in Seq(T)
      BY <1>0, <2>1
    <3>q. QED BY <1>a, <3>1
  <2>5. t \in [0..(n + 1) -> Seq(T)]
    BY <2>4
  <2>6. t[0] = <<>>
    BY <2>3
  <2>7. ASSUME NEW k \in 1..(n + 1) PROVE t[k] = Longer(t[k - 1], k)
    <3>1. CASE k = n + 1
      <4>1. t[k] = Longer(s[n], k) /\ t[k - 1] = s[n]
        BY <3>1
      <4>q. QED BY <4>1
    <3>2. CASE k # n + 1
      <4>1. k \in 1..n /\ k - 1 \in 0..n /\ k - 1 # n + 1
        BY <3>2
      <4>2. t[k] = s[k] /\ t[k - 1] = s[k - 1]
        BY <4>1
      <4>q. QED BY <2>3, <4>1, <4>2
    <3>q. QED BY <3>1, <3>2
  <2>q. QED BY <2>5, <2>6, <2>7
<1>3. \E s \in [0..Len(seq) -> Seq(T)] : Steps(s, Len(seq))
  <2>1. Nat \subseteq S
    <3> HIDE DEF S
    <3>q. QED BY <1>1, <1>2, InductionOnSet
  <2>2. Len(seq) \in S
    BY <2>1, <1>0
  <2> HIDE DEF Steps
  <2>q. QED BY <2>2, <1>0
<1>4. PICK s \in [0..Len(seq) -> Seq(T)] : s[0] = <<>> /\ \A k \in 1..Len(seq) : s[k] = Longer(s[k - 1], k)
  BY <1>3
<1>5. Is(s)
  <2>1. ASSUME NEW k \in 0..Len(seq)
        PROVE  s[k] = IF k = 0 THEN <<>> ELSE IF k \in places THEN Append(s[k - 1], seq[k]) ELSE s[k - 1]
    <3>1. k = 0 \/ k \in 1..Len(seq)
      BY <1>0
    <3>q. QED BY <3>1, <1>4 DEF Longer
  <2>2. s = [k \in 0..Len(seq) |-> s[k]]
    BY <1>4
  <2>q. QED BY <2>1, <2>2
<1> DEFINE u == CHOOSE f : Is(f)
<1>6. Chosen(seq, places) = u[Len(seq)]
  BY DEF Chosen
<1>7. Is(u)
  <2> HIDE DEF Is
  <2>q. QED BY <1>5
<1>8. \A k \in 0..Len(seq) : u[k] = IF k = 0 THEN <<>> ELSE Longer(u[k - 1], k)
  <2> HIDE DEF u
  <2>q. QED BY <1>7 DEF Longer
<1> HIDE DEF u, Is
<1>9. \A k \in 0..Len(seq) : u[k] = s[k]
  <2> DEFINE Same == {k \in Nat : k <= Len(seq) => u[k] = s[k]}
  <2>1. 0 \in Same
    BY <1>0, <1>4, <1>8
  <2>2. ASSUME NEW k \in Nat, k \in Same PROVE k + 1 \in Same
    <3>1. SUFFICES ASSUME k + 1 <= Len(seq) PROVE u[k + 1] = s[k + 1]
      OBVIOUS
    <3>2. k + 1 \in 0..Len(seq) /\ k + 1 \in 1..Len(seq) /\ k + 1 # 0 /\ (k + 1) - 1 = k /\ u[k] = s[k]
      BY <3>1, <2>2, <1>0
    <3>3. u[k + 1] = Longer(u[k], k + 1) /\ s[k + 1] = Longer(s[k], k + 1)
      BY <3>2, <1>8, <1>4
    <3>q. QED BY <3>2, <3>3
  <2>3. Nat \subseteq Same
    <3> HIDE DEF Same
    <3>q. QED BY <2>1, <2>2, InductionOnSet
  <2>q. QED BY <2>3
<1>10. Len(seq) \in 0..Len(seq)
  BY <1>0
<1>q. QED BY <1>4, <1>6, <1>9, <1>10

\* What is left of a sequence after its first n.
LEMMA RestTyped ==
  ASSUME NEW T, NEW seq \in Seq(T), NEW n \in 0..Len(seq)
  PROVE  SubSeq(seq, n + 1, Len(seq)) \in Seq(T) /\ Len(SubSeq(seq, n + 1, Len(seq))) = Len(seq) - n
<1> DEFINE rest == SubSeq(seq, n + 1, Len(seq))
<1>0. Len(seq) \in Nat /\ n \in Nat /\ Len(seq) - n \in Nat
  OBVIOUS
<1>1. rest = [i \in 1..(Len(seq) - n) |-> seq[n + i]]
  <2>1. rest = [i \in 1..((Len(seq) - (n + 1)) + 1) |-> seq[(i + (n + 1)) - 1]]
    BY SMTT(30), <1>0 DEF SubSeq
  <2>2. (Len(seq) - (n + 1)) + 1 = Len(seq) - n
    BY <1>0
  <2>3. \A i \in 1..(Len(seq) - n) : (i + (n + 1)) - 1 = n + i
    BY <1>0
  <2>q. QED BY <2>1, <2>2, <2>3
<1> HIDE DEF rest
<1>2. \A i \in 1..(Len(seq) - n) : n + i \in 1..Len(seq)
  BY <1>0
<1>3. rest \in [1..(Len(seq) - n) -> T]
  BY <1>1, <1>2
<1>4. rest \in Seq(T) /\ Len(rest) = Len(seq) - n
  BY <1>0, <1>3
<1>q. QED BY <1>4 DEF rest

-----------------------------------------------------------------------------
(* The model router. *)

ReqFields == {"step", "on", "task", "to", "masked", "hop"}
RequestShape ==
  /\ request = [r \in Requests |-> request[r]]
  /\ \A r \in Requests : DOMAIN request[r] = ReqFields

\* One request's part of UnmaskedBySaying.
Said(q) ==
  q.step = "sending" /\ q.to \notin Local /\ ~q.masked
    => \E i \in DOMAIN q.on.rules : q.on.rules[i].to = q.to /\ ~q.on.rules[i].mask

LEMMA RouteKeeps ==
  ASSUME RequestShape, UnmaskedBySaying, NEW r \in Requests, NEW h, Route(r, h)
  PROVE  RequestShape' /\ UnmaskedBySaying'
<1> DEFINE q == request[r]
           hits == {i \in DOMAIN q.on.rules : Matches(q.on.rules[i], q.task, h)}
<1>1. CASE hits = {}
  <2>1. request' = [request EXCEPT ![r].step = "sending", ![r].hop = 2, ![r].to = q.on.kind,
                                     ![r].masked = Mask(q.on.kind, TRUE)]
    BY <1>1 DEF Route
  <2>2. RequestShape'
    BY <2>1 DEF RequestShape, ReqFields
  <2>3. request'[r].to = q.on.kind /\ request'[r].masked = Mask(q.on.kind, TRUE)
    BY <2>1 DEF RequestShape, ReqFields
  <2> QED
    BY <2>1, <2>2, <2>3 DEF RequestShape, UnmaskedBySaying, Mask
<1>2. CASE hits # {}
  <2>1. PICK i \in hits :
          request' = [request EXCEPT ![r].step = "sending", ![r].hop = 1, ![r].to = q.on.rules[i].to,
                                     ![r].masked = Mask(q.on.rules[i].to, q.on.rules[i].mask)]
    BY <1>2 DEF Route
  <2>2. RequestShape'
    BY <2>1 DEF RequestShape, ReqFields
  <2>3. /\ request'[r].to = q.on.rules[i].to /\ request'[r].on = q.on
        /\ request'[r].masked = Mask(q.on.rules[i].to, q.on.rules[i].mask)
    BY <2>1 DEF RequestShape, ReqFields
  <2>4. \A s \in Requests \ {r} : request'[s] = request[s]
    BY <2>1 DEF RequestShape
  <2>5. request'[r].to \notin Local /\ ~request'[r].masked => ~q.on.rules[i].mask
    BY <2>3 DEF Mask
  <2>6. i \in DOMAIN q.on.rules
    OBVIOUS
  <2>7. Said(request'[r])
    BY <2>3, <2>5, <2>6 DEF Said
  <2>8. \A s \in Requests \ {r} : Said(request'[s])
    BY <2>4 DEF Said, UnmaskedBySaying
  <2>9. \A s \in Requests : Said(request'[s])
    BY <2>7, <2>8
  <2> QED
    BY <2>2, <2>9 DEF Said, UnmaskedBySaying
<1> QED
  BY <1>1, <1>2

-----------------------------------------------------------------------------
(* The settings: what a change that is alone has settled so far. *)

WriterSteps == {"away", "saving", "asking", "switching", "building", "remembering"}
Changes == [step : WriterSteps, kind : Kinds \union {None}, rules : RuleSets, alone : BOOLEAN]

KindSettled  == live.kind = IF saved.kind = None THEN Default ELSE saved.kind
RulesSettled == live.rules = Built(saved.rules, Buildable)

Progress(w) ==
  LET c == writer[w] IN
  /\ c.step = "saving" /\ ~muddled => KindSettled /\ RulesSettled
  /\ c.step = "asking" /\ ~muddled => KindSettled
  /\ c.step \in {"switching", "building"} /\ ~muddled => KindSettled /\ (c.kind = live.kind \/ RulesSettled)
  /\ c.step = "building" => c.rules = saved.rules
  /\ c.step = "remembering" => live.kind = c.kind /\ RulesSettled

SettingTypes ==
  /\ writer \in [Writers -> Changes]
  /\ saved \in [kind : Kinds \union {None}, rules : RuleSets]
  /\ muddled \in BOOLEAN
  /\ live.kind \in Buildable
  /\ \A w \in Writers : writer[w].step \in {"switching", "building", "remembering"} => writer[w].kind \in Kinds

\* A change that is alone is the only one; one that is not has muddled the settings.
Order ==
  \A w \in Writers : writer[w].step # "away" =>
    IF writer[w].alone THEN \A v \in Writers : writer[v].step # "away" => v = w ELSE muddled

AllProgress == \A w \in Writers : writer[w].step # "away" /\ writer[w].alone => Progress(w)

SInv == SettingTypes /\ Order /\ AllProgress /\ SettledAsStored

LEMMA BeginKeeps ==
  ASSUME SInv, NEW w \in Writers, NEW first \in {"saving", "switching"}, NEW kind \in Kinds \union {None},
         NEW rules \in RuleSets, first = "switching" => kind \in Kinds, BeginChange(w, first, kind, rules)
  PROVE  SInv'
<1>0. /\ writer[w].step = "away"
      /\ writer' = [v \in Writers |->
                      IF v = w THEN [step |-> first, kind |-> kind, rules |-> rules, alone |-> Changing = {}]
                               ELSE [writer[v] EXCEPT !.alone = FALSE]]
      /\ muddled' = (muddled \/ Changing # {})
      /\ UNCHANGED <<live, saved>>
  BY DEF BeginChange
<1>1. \A v \in Writers \ {w} : writer'[v] = [writer[v] EXCEPT !.alone = FALSE]
  BY <1>0
<1>2. writer'[w] = [step |-> first, kind |-> kind, rules |-> rules, alone |-> Changing = {}]
  BY <1>0
<1>3. writer' \in [Writers -> Changes]
  <2>1. writer'[w] \in Changes
    BY <1>2 DEF Changes, WriterSteps
  <2>2. ASSUME NEW v \in Writers \ {w} PROVE writer'[v] \in Changes
    <3>1. writer[v] \in Changes /\ writer'[v] = [writer[v] EXCEPT !.alone = FALSE]
      BY <1>1 DEF SInv, SettingTypes
    <3> QED
      BY <3>1 DEF Changes
  <2> QED
    BY <1>0, <2>1, <2>2
<1>4. \A v \in Writers \ {w} : writer'[v].step = writer[v].step /\ writer'[v].kind = writer[v].kind /\ ~writer'[v].alone
  <2> SUFFICES ASSUME NEW v \in Writers \ {w}
               PROVE  writer'[v].step = writer[v].step /\ writer'[v].kind = writer[v].kind /\ ~writer'[v].alone
    OBVIOUS
  <2>1. writer[v] \in Changes /\ writer'[v] = [writer[v] EXCEPT !.alone = FALSE]
    BY <1>1 DEF SInv, SettingTypes
  <2> QED
    BY <2>1 DEF Changes
<1>5. /\ writer'[w].step = first /\ writer'[w].kind = kind /\ (writer'[w].alone <=> Changing = {})
  <2>1. writer'[w].step = first /\ writer'[w].kind = kind
    BY <1>2
  <2>2. writer'[w].alone = (Changing = {})
    BY <1>2
  <2> QED
    BY <2>1, <2>2
<1>6. muddled' \in BOOLEAN
  BY <1>0 DEF SInv, SettingTypes
<1>7. SettingTypes'
  BY <1>0, <1>3, <1>4, <1>5, <1>6 DEF SInv, SettingTypes
<1>8. CASE Changing = {}
  <2>1. \A v \in Writers : writer[v].step = "away"
    BY <1>8 DEF Changing
  <2>2. Order'
    BY <1>4, <1>5, <1>8, <2>1 DEF Order
  <2>3. muddled' <=> muddled
    BY <1>0, <1>8
  <2>4. ~muddled => KindSettled /\ RulesSettled
    BY <1>8 DEF SInv, SettledAsStored, KindSettled, RulesSettled
  <2>5. (KindSettled <=> KindSettled') /\ (RulesSettled <=> RulesSettled')
    BY <1>0 DEF KindSettled, RulesSettled
  <2>6. Progress(w)'
    BY <1>2, <2>3, <2>4, <2>5 DEF Progress
  <2>7. AllProgress'
    BY <1>4, <2>6 DEF AllProgress, Progress
  <2>8. SettledAsStored'
    BY <1>5 DEF SettledAsStored, Changing
  <2> QED
    BY <1>7, <2>2, <2>7, <2>8 DEF SInv
<1>9. CASE Changing # {}
  <2>1. muddled' /\ \A v \in Writers : ~writer'[v].alone
    BY <1>0, <1>4, <1>5, <1>9
  <2> QED
    <3>1. Order' /\ AllProgress'
      BY <2>1 DEF Order, AllProgress
    <3>2. SettledAsStored'
      BY <2>1 DEF SettledAsStored
    <3> QED
      BY <1>7, <3>1, <3>2 DEF SInv
<1> QED
  BY <1>8, <1>9

\* One change goes a step on.
LEMMA OneMoves ==
  ASSUME SInv, NEW w \in Writers, writer[w].step # "away",
         writer' = [writer EXCEPT ![w] = writer'[w]], writer'[w] \in Changes,
         saved' \in [kind : Kinds \union {None}, rules : RuleSets], muddled' \in BOOLEAN, live'.kind \in Buildable,
         writer'[w].step \in {"switching", "building", "remembering"} => writer'[w].kind \in Kinds,
         writer'[w].alone => writer'[w].step = "away" \/ writer[w].alone,
         ~writer'[w].alone => muddled',
         ~writer[w].alone => muddled',
         writer[w].alone /\ writer'[w].step # "away" /\ writer'[w].alone => Progress(w)',
         writer[w].alone /\ writer'[w].step = "away" /\ ~muddled' => KindSettled' /\ RulesSettled'
  PROVE  SInv'
<1>1. \A v \in Writers : v # w => writer'[v] = writer[v]
  BY DEF SInv, SettingTypes
<1>2. writer' \in [Writers -> Changes]
  BY DEF SInv, SettingTypes
<1>3. SettingTypes'
  BY <1>1, <1>2 DEF SInv, SettingTypes
<1>4. CASE writer[w].alone
  <2>1. \A v \in Writers : v # w => writer'[v].step = "away"
    BY <1>1, <1>4 DEF SInv, Order
  <2>2. Order'
    BY <2>1 DEF Order
  <2>3. AllProgress'
    BY <1>4, <2>1 DEF AllProgress, Progress
  <2>4. SettledAsStored'
    BY <1>4 DEF SettledAsStored, Changing, KindSettled, RulesSettled
  <2> QED
    BY <1>3, <2>2, <2>3, <2>4 DEF SInv
<1>5. CASE ~writer[w].alone
  <2>1. \A v \in Writers : v # w /\ writer'[v].step # "away" => ~writer'[v].alone
    BY <1>1, <1>5 DEF SInv, Order
  <2>2. muddled'
    BY <1>5
  <2>3. writer'[w].step # "away" => ~writer'[w].alone
    BY <1>5
  <2>4. \A v \in Writers : writer'[v].step # "away" => ~writer'[v].alone
    BY <2>1, <2>3
  <2>5. Order' /\ AllProgress'
    BY <2>2, <2>4 DEF Order, AllProgress
  <2>6. SettledAsStored'
    BY <2>2 DEF SettledAsStored
  <2> QED
    BY <1>3, <2>5, <2>6 DEF SInv
<1> QED
  BY <1>4, <1>5

LEMMA NoChangeFits == NoChange \in Changes /\ NoChange.step = "away" /\ NoChange.alone
BY RouterAssumption DEF NoChange, Changes, WriterSteps

LEMMA PutRulesKeeps == ASSUME SInv, NEW w \in Writers, PutRules(w) PROVE SInv'
<1>1. PICK rules \in RuleSets : BeginChange(w, "saving", None, rules)
  BY DEF PutRules
<1> QED
  BY <1>1, BeginKeeps

LEMMA SwitchKeeps == ASSUME SInv, NEW w \in Writers, Switch(w) PROVE SInv'
<1>1. PICK k \in Kinds : BeginChange(w, "switching", k, <<>>)
  BY DEF Switch
<1> QED
  BY <1>1, BeginKeeps, RouterAssumption

LEMMA SaveRulesKeeps == ASSUME SInv, NEW w \in Writers, SaveRules(w) PROVE SInv'
<1>0. /\ writer \in [Writers -> Changes] /\ writer[w] \in Changes /\ writer[w].step = "saving"
      /\ muddled' = muddled /\ live' = live /\ muddled \in BOOLEAN
      /\ saved \in [kind : Kinds \union {None}, rules : RuleSets] /\ live.kind \in Buildable
  BY DEF SaveRules, SInv, SettingTypes
<1>1. ~writer[w].alone => muddled
  BY <1>0 DEF SInv, Order
<1>2. writer[w].alone /\ ~muddled => KindSettled /\ RulesSettled
  BY <1>0 DEF SInv, AllProgress, Progress
<1>3. CASE /\ saved' = [saved EXCEPT !.rules = writer[w].rules]
           /\ writer' = [writer EXCEPT ![w].step = "asking"]
  <2>1. writer'[w] = [writer[w] EXCEPT !.step = "asking"]
    BY <1>0, <1>3
  <2>2. writer' = [writer EXCEPT ![w] = writer'[w]]
    BY <1>0, <1>3
  <2>3. writer'[w] \in Changes /\ writer'[w].step = "asking" /\ writer'[w].alone = writer[w].alone
    BY <1>0, <2>1 DEF Changes, WriterSteps
  <2>4. saved' \in [kind : Kinds \union {None}, rules : RuleSets] /\ saved'.kind = saved.kind
    BY <1>0, <1>3 DEF Changes
  <2>5. writer[w].alone => Progress(w)'
    BY <1>0, <1>2, <2>3, <2>4 DEF Progress, KindSettled
  <2> HIDE DEF Changes
  <2> QED
    BY <1>0, <1>1, <2>2, <2>3, <2>4, <2>5, OneMoves
<1>4. CASE writer' = [writer EXCEPT ![w] = NoChange] /\ UNCHANGED saved
  <2>1. writer'[w] = NoChange
    BY <1>0, <1>4
  <2>2. writer' = [writer EXCEPT ![w] = writer'[w]]
    BY <2>1, <1>4
  <2>3. (KindSettled <=> KindSettled') /\ (RulesSettled <=> RulesSettled')
    BY <1>0, <1>4 DEF KindSettled, RulesSettled
  <2> QED
    BY <1>0, <1>1, <1>2, <1>4, <2>1, <2>2, <2>3, NoChangeFits, OneMoves
<1> QED
  BY <1>3, <1>4 DEF SaveRules

LEMMA AskKindKeeps == ASSUME SInv, NEW w \in Writers, AskKind(w) PROVE SInv'
<1>0. /\ writer \in [Writers -> Changes] /\ writer[w] \in Changes /\ writer[w].step = "asking"
      /\ muddled' = muddled /\ live' = live /\ saved' = saved /\ muddled \in BOOLEAN
      /\ saved \in [kind : Kinds \union {None}, rules : RuleSets] /\ live.kind \in Buildable
      /\ live.kind \in Kinds
  BY RouterAssumption DEF AskKind, SInv, SettingTypes
<1>1. ~writer[w].alone => muddled
  BY <1>0 DEF SInv, Order
<1>2. writer[w].alone /\ ~muddled => KindSettled
  BY <1>0 DEF SInv, AllProgress, Progress
<1>3. writer'[w] = [writer[w] EXCEPT !.step = "switching", !.kind = live.kind]
  BY <1>0 DEF AskKind
<1>4. writer' = [writer EXCEPT ![w] = writer'[w]]
  BY <1>0, <1>3 DEF AskKind
<1>5. writer'[w] \in Changes /\ writer'[w].step = "switching" /\ writer'[w].kind = live.kind /\ writer'[w].alone = writer[w].alone
  BY <1>0, <1>3 DEF Changes, WriterSteps
<1>6. writer[w].alone => Progress(w)'
  BY <1>0, <1>2, <1>5 DEF Progress, KindSettled
<1> QED
  BY <1>0, <1>1, <1>4, <1>5, <1>6, OneMoves

LEMMA ReadRulesKeeps == ASSUME SInv, NEW w \in Writers, ReadRules(w) PROVE SInv'
<1>0. /\ writer \in [Writers -> Changes] /\ writer[w] \in Changes /\ writer[w].step = "switching"
      /\ live' = live /\ saved' = saved /\ muddled \in BOOLEAN /\ writer[w].kind \in Kinds
      /\ saved \in [kind : Kinds \union {None}, rules : RuleSets] /\ live.kind \in Buildable
  BY DEF ReadRules, SInv, SettingTypes
<1>1. ~writer[w].alone => muddled
  BY <1>0 DEF SInv, Order
<1>2. writer[w].alone /\ ~muddled => KindSettled /\ (writer[w].kind = live.kind \/ RulesSettled)
  BY <1>0 DEF SInv, AllProgress, Progress
<1>3. CASE writer' = [writer EXCEPT ![w].step = "building", ![w].rules = saved.rules] /\ UNCHANGED muddled
  <2>1. writer'[w] = [writer[w] EXCEPT !.step = "building", !.rules = saved.rules]
    BY <1>0, <1>3
  <2>2. writer' = [writer EXCEPT ![w] = writer'[w]]
    BY <1>0, <1>3
  <2>3. /\ writer'[w] \in Changes /\ writer'[w].step = "building" /\ writer'[w].rules = saved.rules
        /\ writer'[w].kind = writer[w].kind /\ writer'[w].alone = writer[w].alone
    BY <1>0, <2>1 DEF Changes, WriterSteps
  <2>4. writer[w].alone => Progress(w)'
    BY <1>0, <1>2, <1>3, <2>3 DEF Progress, KindSettled, RulesSettled
  <2> QED
    BY <1>0, <1>1, <1>3, <2>2, <2>3, <2>4, OneMoves
<1>4. CASE /\ writer' = [writer EXCEPT ![w].step = "building", ![w].rules = <<>>, ![w].alone = FALSE]
           /\ muddled' = TRUE
  <2>1. writer'[w] = [writer[w] EXCEPT !.step = "building", !.rules = <<>>, !.alone = FALSE]
    BY <1>0, <1>4
  <2>2. writer' = [writer EXCEPT ![w] = writer'[w]]
    BY <1>0, <1>4
  <2>3. /\ writer'[w] \in Changes /\ writer'[w].step = "building"
        /\ writer'[w].kind = writer[w].kind /\ writer'[w].alone = FALSE
    BY <1>0, <2>1, RouterAssumption DEF Changes, WriterSteps
  <2> QED
    BY <1>0, <1>4, <2>2, <2>3, OneMoves
<1> QED
  BY <1>3, <1>4 DEF ReadRules

LEMMA SwapKeeps == ASSUME SInv, NEW w \in Writers, Swap(w) PROVE SInv'
<1>0. /\ writer \in [Writers -> Changes] /\ writer[w] \in Changes /\ writer[w].step = "building"
      /\ muddled' = muddled /\ saved' = saved /\ muddled \in BOOLEAN /\ writer[w].kind \in Kinds
      /\ writer[w].kind \in Buildable /\ saved \in [kind : Kinds \union {None}, rules : RuleSets]
      /\ live'.kind = writer[w].kind /\ live'.rules = Built(writer[w].rules, Buildable)
  BY DEF Swap, SInv, SettingTypes
<1>1. ~writer[w].alone => muddled
  BY <1>0 DEF SInv, Order
<1>2. writer[w].alone => writer[w].rules = saved.rules
  BY <1>0 DEF SInv, AllProgress, Progress
<1>3. writer'[w] = [writer[w] EXCEPT !.step = "remembering"]
  BY <1>0 DEF Swap
<1>4. writer' = [writer EXCEPT ![w] = writer'[w]]
  BY <1>0, <1>3 DEF Swap
<1>5. writer'[w] \in Changes /\ writer'[w].step = "remembering" /\ writer'[w].kind = writer[w].kind /\ writer'[w].alone = writer[w].alone
  BY <1>0, <1>3 DEF Changes, WriterSteps
<1>6. writer[w].alone => Progress(w)'
  BY <1>0, <1>2, <1>5 DEF Progress, RulesSettled
<1> QED
  BY <1>0, <1>1, <1>4, <1>5, <1>6, OneMoves

LEMMA CannotBuildKeeps == ASSUME SInv, NEW w \in Writers, CannotBuild(w) PROVE SInv'
<1>0. /\ writer \in [Writers -> Changes] /\ writer[w].step = "building" /\ writer[w].kind \notin Buildable
      /\ muddled' = muddled /\ live' = live /\ saved' = saved /\ muddled \in BOOLEAN
      /\ saved \in [kind : Kinds \union {None}, rules : RuleSets] /\ live.kind \in Buildable
      /\ writer' = [writer EXCEPT ![w] = NoChange]
  BY DEF CannotBuild, SInv, SettingTypes
<1>1. ~writer[w].alone => muddled
  BY <1>0 DEF SInv, Order
<1>2. writer[w].alone /\ ~muddled => KindSettled /\ RulesSettled
  BY <1>0 DEF SInv, AllProgress, Progress
<1>3. writer'[w] = NoChange
  BY <1>0
<1>4. writer' = [writer EXCEPT ![w] = writer'[w]]
  BY <1>0, <1>3
<1>5. (KindSettled <=> KindSettled') /\ (RulesSettled <=> RulesSettled')
  BY <1>0 DEF KindSettled, RulesSettled
<1> QED
  BY <1>0, <1>1, <1>2, <1>3, <1>4, <1>5, NoChangeFits, OneMoves

LEMMA RememberKeeps == ASSUME SInv, NEW w \in Writers, Remember(w) PROVE SInv'
<1>0. /\ writer \in [Writers -> Changes] /\ writer[w].step = "remembering" /\ writer[w].kind \in Kinds
      /\ live' = live /\ muddled \in BOOLEAN
      /\ saved \in [kind : Kinds \union {None}, rules : RuleSets] /\ live.kind \in Buildable
      /\ writer' = [writer EXCEPT ![w] = NoChange]
  BY DEF Remember, SInv, SettingTypes
<1>1. ~writer[w].alone => muddled
  BY <1>0 DEF SInv, Order
<1>2. writer[w].alone => live.kind = writer[w].kind /\ RulesSettled
  BY <1>0 DEF SInv, AllProgress, Progress
<1>3. writer'[w] = NoChange
  BY <1>0
<1>4. writer' = [writer EXCEPT ![w] = writer'[w]]
  BY <1>0, <1>3
<1>5. CASE saved' = [saved EXCEPT !.kind = writer[w].kind] /\ muddled' = (muddled /\ ~writer[w].alone)
  <2>1. saved' \in [kind : Kinds \union {None}, rules : RuleSets] /\ saved'.kind = writer[w].kind /\ saved'.rules = saved.rules
    BY <1>0, <1>5
  <2>2. muddled' \in BOOLEAN /\ (muddled' <=> muddled /\ ~writer[w].alone)
    BY <1>5
  <2>3. writer[w].alone => KindSettled' /\ RulesSettled'
    BY <1>0, <1>2, <2>1, RouterAssumption DEF KindSettled, RulesSettled
  <2> QED
    BY <1>0, <1>1, <1>3, <1>4, <2>1, <2>2, <2>3, NoChangeFits, OneMoves
<1>6. CASE muddled' = TRUE /\ UNCHANGED saved
  BY <1>0, <1>3, <1>4, <1>6, NoChangeFits, OneMoves
<1> QED
  BY <1>5, <1>6 DEF Remember

LEMMA RestartKeeps == ASSUME SInv, Restart PROVE SInv'
<1> DEFINE known == saved.kind \in AtStart
           rules == IF known THEN Built(saved.rules, AtStart) ELSE <<>>
<1>1. /\ live'.kind = (IF known THEN saved.kind ELSE Default) /\ live'.rules = rules
      /\ muddled' = ~((known \/ saved.kind = None) /\ rules = Built(saved.rules, Buildable))
      /\ writer' = [w \in Writers |-> NoChange] /\ saved' = saved
  BY DEF Restart
<1>2. muddled' \in BOOLEAN /\ (~muddled' => (known \/ saved.kind = None) /\ rules = Built(saved.rules, Buildable))
  BY <1>1
<1>3. SettingTypes'
  BY <1>1, <1>2, NoChangeFits, RouterAssumption DEF SInv, SettingTypes
<1>4. Order' /\ AllProgress'
  BY <1>1, NoChangeFits DEF Order, AllProgress
<1>5. None \notin AtStart
  BY RouterAssumption
<1>6. SettledAsStored'
  BY <1>1, <1>2, <1>5 DEF SettledAsStored
<1> QED
  BY <1>3, <1>4, <1>6 DEF SInv

\* What leaves the settings alone leaves them settled.
LEMMA SettingsStay == ASSUME SInv, UNCHANGED <<live, saved, writer, muddled>> PROVE SInv'
BY DEF SInv, SettingTypes, Order, AllProgress, Progress, KindSettled, RulesSettled, SettledAsStored, Changing

LEMMA SInvInit == Init => SInv
<1> SUFFICES ASSUME Init PROVE SInv
  OBVIOUS
<1>1. SettingTypes
  BY NoChangeFits, RouterAssumption DEF Init, SettingTypes
<1>2. Order /\ AllProgress
  BY NoChangeFits DEF Init, Order, AllProgress
<1>4. SettledAsStored
  BY DEF Init, SettledAsStored
<1> QED
  BY <1>1, <1>2, <1>4 DEF SInv

\* A step of a request leaves the settings alone.
LEMMA RequestSteps ==
  ASSUME NEW r \in Requests, Ask(r) \/ Judge(r) \/ Probed(r) \/ Answered(r) \/ FallBack(r)
  PROVE  UNCHANGED <<live, saved, writer, muddled>>
BY DEF Ask, Judge, Probed, Answered, FallBack

LEMMA SInvNext == SInv /\ [Next]_vars => SInv'
<1> SUFFICES ASSUME SInv, [Next]_vars PROVE SInv'
  OBVIOUS
<1>1. ASSUME NEW w \in Writers, PutRules(w) \/ SaveRules(w) \/ AskKind(w) \/ Switch(w) PROVE SInv'
  BY <1>1, PutRulesKeeps, SaveRulesKeeps, AskKindKeeps, SwitchKeeps
<1>2. ASSUME NEW w \in Writers, ReadRules(w) \/ Swap(w) \/ CannotBuild(w) \/ Remember(w) PROVE SInv'
  BY <1>2, ReadRulesKeeps, SwapKeeps, CannotBuildKeeps, RememberKeeps
<1>3. ASSUME NEW r \in Requests, Ask(r) \/ Judge(r) \/ Probed(r) \/ Answered(r) \/ FallBack(r) PROVE SInv'
  BY <1>3, RequestSteps, SettingsStay
<1>4. CASE \E i \in 0..MaxBuilt : Stale(i)
  BY <1>4, SettingsStay DEF Stale
<1>5. CASE Restart
  BY <1>5, RestartKeeps
<1>6. CASE UNCHANGED vars
  BY <1>6, SettingsStay DEF vars
<1> QED
  BY <1>1, <1>2, <1>3, <1>4, <1>5, <1>6 DEF Next

\* The router among the parts is the router alone.
LEMMA RouterOfParts == PartsSpec => Spec
<1>1. PartsInit => Init
  BY DEF PartsInit
<1>2. [PartsNext]_partsVars => [Next]_vars
  BY DEF PartsNext, partsVars, router
<1> QED
  BY <1>1, <1>2, PTL DEF PartsSpec, Spec

\* After a change of the settings that went through alone the router in force is what is stored,
\* for any backends, rules and number of changes (switch_backend, put_rules, initial_router).
THEOREM RouterSettledAsStored == PartsSpec => []SettledAsStored
<1>1. SInv => SettledAsStored
  BY DEF SInv
<1> QED
  BY <1>1, SInvInit, SInvNext, RouterOfParts, PTL DEF Spec
-----------------------------------------------------------------------------
(* The requests. *)

LEMMA RequestKeeps ==
  ASSUME RequestShape, UnmaskedBySaying, NEW r \in Requests,
         Ask(r) \/ Judge(r) \/ Probed(r) \/ Answered(r) \/ FallBack(r)
  PROVE  RequestShape' /\ UnmaskedBySaying'
<1>0. DOMAIN Idle = ReqFields /\ Idle.step = "away"
  BY DEF Idle, ReqFields
<1>1. ASSUME DOMAIN request'[r] = ReqFields, request'[r].step # "sending",
             request' = [request EXCEPT ![r] = request'[r]]
      PROVE  RequestShape' /\ UnmaskedBySaying'
  <2>1. \A s \in Requests : s # r => request'[s] = request[s]
    BY <1>1 DEF RequestShape
  <2>2. RequestShape'
    BY <1>1, <2>1 DEF RequestShape
  <2> QED
    BY <1>1, <2>1, <2>2 DEF UnmaskedBySaying
<1>2. CASE Ask(r)
  <2>1. PICK t \in Tasks :
          request' = [request EXCEPT ![r] = [Idle EXCEPT !.step = "judging", !.on = live, !.task = t]]
    BY <1>2 DEF Ask
  <2>2. request'[r] = [Idle EXCEPT !.step = "judging", !.on = live, !.task = t]
    BY <2>1 DEF RequestShape
  <2>3. DOMAIN request'[r] = ReqFields /\ request'[r].step = "judging"
    BY <1>0, <2>2 DEF ReqFields
  <2> QED
    BY <1>1, <2>1, <2>2, <2>3
<1>3. CASE Judge(r)
  <2>1. CASE request' = [request EXCEPT ![r].step = "probing"]
    <3>1. request'[r] = [request[r] EXCEPT !.step = "probing"]
      BY <2>1 DEF RequestShape
    <3>2. DOMAIN request'[r] = ReqFields /\ request'[r].step = "probing"
      BY <3>1 DEF RequestShape, ReqFields
    <3>3. request' = [request EXCEPT ![r] = request'[r]]
      BY <2>1, <3>1
    <3> QED
      BY <1>1, <3>2, <3>3
  <2> QED
    BY <1>3, <2>1, RouteKeeps DEF Judge
<1>4. CASE Probed(r)
  BY <1>4, RouteKeeps DEF Probed
<1>5. CASE Answered(r)
  <2>1. request'[r] = Idle /\ request' = [request EXCEPT ![r] = request'[r]]
    BY <1>5 DEF Answered, RequestShape
  <2> QED
    BY <1>0, <1>1, <2>1
<1>6. CASE FallBack(r)
  <2>1. request' = [request EXCEPT ![r].hop = 2, ![r].to = request[r].on.kind,
                                   ![r].masked = Mask(request[r].on.kind, TRUE)]
    BY <1>6 DEF FallBack
  <2>2. RequestShape'
    BY <2>1 DEF RequestShape, ReqFields
  <2>3. request'[r].to = request[r].on.kind /\ request'[r].masked = Mask(request[r].on.kind, TRUE)
    BY <2>1 DEF RequestShape, ReqFields
  <2> QED
    BY <2>1, <2>2, <2>3 DEF RequestShape, UnmaskedBySaying, Mask
<1> QED
  BY <1>2, <1>3, <1>4, <1>5, <1>6

LEMMA RequestsKeep ==
  RequestShape /\ UnmaskedBySaying /\ [Next]_vars => RequestShape' /\ UnmaskedBySaying'
<1> SUFFICES ASSUME RequestShape, UnmaskedBySaying, [Next]_vars PROVE RequestShape' /\ UnmaskedBySaying'
  OBVIOUS
<1>1. CASE UNCHANGED request
  BY <1>1 DEF RequestShape, UnmaskedBySaying
<1>2. ASSUME NEW w \in Writers, \/ PutRules(w) \/ SaveRules(w) \/ AskKind(w) \/ Switch(w) \/ ReadRules(w)
                               \/ Swap(w) \/ CannotBuild(w) \/ Remember(w)
      PROVE  UNCHANGED request
  BY <1>2 DEF PutRules, SaveRules, AskKind, Switch, ReadRules, Swap, CannotBuild, Remember, BeginChange
<1>3. ASSUME NEW i \in 0..MaxBuilt, Stale(i) PROVE UNCHANGED request
  BY <1>3 DEF Stale
<1>4. CASE Restart
  <2>1. request' = [r \in Requests |-> Idle]
    BY <1>4 DEF Restart
  <2> QED
    BY <2>1 DEF RequestShape, UnmaskedBySaying, Idle, ReqFields
<1>5. CASE UNCHANGED vars
  BY <1>1, <1>5 DEF vars
<1> QED
  BY <1>1, <1>2, <1>3, <1>4, <1>5, RequestKeeps DEF Next

\* No failure of a rule's backend, stale probe or change of the settings under way sends a text
\* unmasked to a service, but for a rule that names the service and says so (policy_for,
\* default_redaction, should_fall_back).
THEOREM RouterUnmaskedBySaying == PartsSpec => []UnmaskedBySaying
<1>1. Init => RequestShape /\ UnmaskedBySaying
  BY DEF Init, RequestShape, UnmaskedBySaying, Idle, ReqFields
<1> QED
  BY <1>1, RequestsKeep, RouterOfParts, PTL DEF Spec
-----------------------------------------------------------------------------
(* The types of the router. *)

LEMMA BuiltTyped == ASSUME NEW rules \in Seq(Rules), NEW kinds PROVE Built(rules, kinds) \in Seq(Rules)
BY ChosenTyped DEF Built

\* The changes that have a router to build yet: there is room for theirs.
Ahead == {w \in Writers : writer[w].step \in {"saving", "asking", "switching", "building"}}

\* One request's part of TypeOK.
RequestFits(q) ==
  /\ q.step \in {"away", "judging", "probing", "sending"}
  /\ q.step # "away" => q.on \in Routers /\ q.task \in Tasks
  /\ q.step = "sending" => q.to \in Kinds /\ q.hop \in {1, 2}

\* The types of the router in force, what it remembers and the requests.
RouterFits ==
  /\ live \in Routers /\ live.id + Cardinality(Ahead) <= MaxBuilt
  /\ health \in [0..MaxBuilt -> Healths]
  /\ \A r \in Requests : RequestFits(request[r])

LEMMA AheadIsFinite ==
  /\ IsFiniteSet(Ahead) /\ Cardinality(Ahead) \in Nat
  /\ IsFiniteSet(Changing) /\ Cardinality(Changing) \in Nat
<1>1. Ahead \in SUBSET Writers /\ Changing \in SUBSET Writers
  BY DEF Ahead, Changing
<1>2. IsFiniteSet(Ahead) /\ IsFiniteSet(Changing)
  BY <1>1, RouterAssumption, FS_Subset
<1>q. QED BY <1>2, FS_CardinalityType

LEMMA RoomStays ==
  ASSUME RouterFits, live' = live, Ahead' \subseteq Ahead
  PROVE  live' \in Routers /\ live'.id + Cardinality(Ahead') <= MaxBuilt
<1>1. Cardinality(Ahead') <= Cardinality(Ahead) /\ Cardinality(Ahead') \in Nat /\ Cardinality(Ahead) \in Nat
  BY AheadIsFinite, FS_Subset, FS_CardinalityType
<1>2. live.id \in Nat /\ MaxBuilt \in Nat
  BY RouterAssumption DEF RouterFits, Routers
<1>q. QED BY <1>1, <1>2 DEF RouterFits

LEMMA NoneAhead == Cardinality({}) = 0
BY FS_EmptySet

LEMMA RouterFitsInit == Init => RouterFits
<1> SUFFICES ASSUME Init PROVE RouterFits
  OBVIOUS
<1>1. <<>> \in Seq(Rules)
  OBVIOUS
<1>2. Built(<<>>, Buildable) \in Seq(Rules)
  BY <1>1, BuiltTyped
<1>3. live \in Routers /\ live.id = 0
  BY <1>2, RouterAssumption DEF Init, Routers
<1>4. Ahead = {}
  BY DEF Init, Ahead, NoChange
<1>5. \A r \in Requests : RequestFits(request[r])
  BY DEF Init, RequestFits, Idle
<1>6. health \in [0..MaxBuilt -> Healths]
  BY DEF Init, Healths
<1>q. QED BY <1>3, <1>4, <1>5, <1>6, NoneAhead, RouterAssumption DEF RouterFits

LEMMA BeginFits ==
  ASSUME SInv, RouterFits, NEW w \in Writers, NEW first, NEW kind, NEW rules, BeginChange(w, first, kind, rules)
  PROVE  RouterFits'
<1>1. live.id + Cardinality(Changing) < MaxBuilt /\ UNCHANGED <<live, health, request>>
  BY DEF BeginChange
<1>2. \A v \in Writers \ {w} : writer'[v].step = writer[v].step
  <2> SUFFICES ASSUME NEW v \in Writers \ {w} PROVE writer'[v].step = writer[v].step
    OBVIOUS
  <2>1. writer[v] \in Changes /\ writer'[v] = [writer[v] EXCEPT !.alone = FALSE]
    BY DEF BeginChange, SInv, SettingTypes
  <2>q. QED BY <2>1 DEF Changes
<1>3. Ahead' \subseteq Changing \union {w}
  BY <1>2 DEF Ahead, Changing
<1>4. /\ IsFiniteSet(Changing \union {w}) /\ Cardinality(Changing \union {w}) \in Nat
      /\ Cardinality(Changing \union {w}) <= Cardinality(Changing) + 1
  <2>1. IsFiniteSet(Changing)
    BY AheadIsFinite
  <2>2. /\ IsFiniteSet(Changing \union {w})
        /\ Cardinality(Changing \union {w}) = IF w \in Changing THEN Cardinality(Changing) ELSE Cardinality(Changing) + 1
    BY <2>1, FS_AddElement
  <2>q. QED BY <2>2, AheadIsFinite
<1>5. Cardinality(Ahead') <= Cardinality(Changing \union {w}) /\ Cardinality(Ahead') \in Nat
  BY <1>3, <1>4, FS_Subset, FS_CardinalityType
<1>6. live.id + Cardinality(Ahead') <= MaxBuilt
  <2>1. live.id \in Nat /\ MaxBuilt \in Nat /\ Cardinality(Changing) \in Nat
    BY AheadIsFinite, RouterAssumption DEF RouterFits, Routers
  <2>q. QED BY <1>1, <1>4, <1>5, <2>1
<1>q. QED BY <1>1, <1>6 DEF RouterFits

\* A change goes a step on and has no more to build.
LEMMA ChangeFits ==
  ASSUME SInv, RouterFits, NEW w \in Writers,
         SaveRules(w) \/ AskKind(w) \/ ReadRules(w) \/ CannotBuild(w) \/ Remember(w)
  PROVE  RouterFits'
<1>1. live' = live /\ health' = health /\ request' = request
  BY DEF SaveRules, AskKind, ReadRules, CannotBuild, Remember
<1>2. writer \in [Writers -> Changes]
  BY DEF SInv, SettingTypes
<1>3. \A v \in Writers \ {w} : writer'[v] = writer[v]
  BY <1>2 DEF SaveRules, AskKind, ReadRules, CannotBuild, Remember
<1>4. writer[w].step = "remembering" => writer'[w].step = "away"
  BY <1>2, NoChangeFits DEF SaveRules, AskKind, ReadRules, CannotBuild, Remember
<1>5. writer[w].step # "away"
  BY DEF SaveRules, AskKind, ReadRules, CannotBuild, Remember
<1>6. writer[w].step \in WriterSteps
  BY <1>2 DEF Changes
<1>7. Ahead' \subseteq Ahead
  BY <1>3, <1>4, <1>5, <1>6 DEF Ahead, WriterSteps
<1>8. live' \in Routers /\ live'.id + Cardinality(Ahead') <= MaxBuilt
  BY <1>1, <1>7, RoomStays
<1>q. QED BY <1>1, <1>8 DEF RouterFits

LEMMA SwapFits == ASSUME SInv, RouterFits, NEW w \in Writers, Swap(w) PROVE RouterFits'
<1>1. /\ writer[w].step = "building" /\ writer[w].kind \in Buildable
      /\ live' = [kind |-> writer[w].kind, rules |-> Built(writer[w].rules, Buildable), id |-> live.id + 1]
      /\ writer' = [writer EXCEPT ![w].step = "remembering"] /\ health' = health /\ request' = request
  BY DEF Swap
<1>2. writer \in [Writers -> Changes] /\ writer[w] \in Changes /\ writer[w].rules \in Seq(Rules)
  BY RouterAssumption DEF SInv, SettingTypes, Changes
<1>3. writer'[w].step = "remembering" /\ \A v \in Writers \ {w} : writer'[v] = writer[v]
  BY <1>1, <1>2 DEF Changes
<1>4. w \in Ahead /\ Ahead' = Ahead \ {w}
  BY <1>1, <1>3 DEF Ahead
<1>5. Cardinality(Ahead') = Cardinality(Ahead) - 1
  BY <1>4, AheadIsFinite, FS_RemoveElement
<1>6. Cardinality(Ahead) # 0
  BY <1>4, AheadIsFinite, FS_EmptySet
<1>7. live.id \in Nat /\ MaxBuilt \in Nat /\ Cardinality(Ahead) \in Nat /\ live.id + Cardinality(Ahead) <= MaxBuilt
  BY AheadIsFinite, RouterAssumption DEF RouterFits, Routers
<1>8. live.id + 1 \in 0..MaxBuilt /\ (live.id + 1) + Cardinality(Ahead') <= MaxBuilt
  BY <1>5, <1>6, <1>7
<1>9. Built(writer[w].rules, Buildable) \in Seq(Rules)
  BY <1>2, BuiltTyped
<1>10. live' \in Routers /\ live'.id = live.id + 1
  BY <1>1, <1>8, <1>9, RouterAssumption DEF Routers
<1>q. QED BY <1>1, <1>8, <1>10 DEF RouterFits

LEMMA RestartFits == ASSUME SInv, RouterFits, Restart PROVE RouterFits'
<1> DEFINE known == saved.kind \in AtStart
           rules == IF known THEN Built(saved.rules, AtStart) ELSE <<>>
<1>1. /\ live.id < MaxBuilt
      /\ live' = [kind |-> IF known THEN saved.kind ELSE Default, rules |-> rules, id |-> live.id + 1]
      /\ writer' = [w \in Writers |-> NoChange] /\ request' = [r \in Requests |-> Idle] /\ health' = health
  BY DEF Restart
<1>2. rules \in Seq(Rules)
  <2>1. saved.rules \in Seq(Rules)
    BY RouterAssumption DEF SInv, SettingTypes
  <2>2. Built(saved.rules, AtStart) \in Seq(Rules)
    BY <2>1, BuiltTyped
  <2>3. <<>> \in Seq(Rules)
    OBVIOUS
  <2>q. QED BY <2>2, <2>3
<1>3. live.id + 1 \in 0..MaxBuilt
  BY <1>1, RouterAssumption DEF RouterFits, Routers
<1> HIDE DEF rules
<1>4. live' \in Routers /\ live'.id = live.id + 1
  BY <1>1, <1>2, <1>3, RouterAssumption DEF Routers
<1>5. Ahead' = {}
  BY <1>1 DEF Ahead, NoChange
<1>6. \A r \in Requests : RequestFits(request'[r])
  BY <1>1 DEF RequestFits, Idle
<1>7. live'.id + Cardinality(Ahead') <= MaxBuilt
  BY <1>3, <1>4, <1>5, NoneAhead
<1>q. QED BY <1>1, <1>4, <1>6, <1>7 DEF RouterFits

\* A step of one request leaves the others as they are, and itself as it should be.
OneRequest(r) == (\A s \in Requests : s # r => request'[s] = request[s]) /\ RequestFits(request'[r])

LEMMA RouteFits ==
  ASSUME RequestShape, NEW r \in Requests, request[r].on \in Routers, request[r].task \in Tasks, NEW h, Route(r, h)
  PROVE  OneRequest(r)
<1> DEFINE q == request[r]
           hits == {i \in DOMAIN q.on.rules : Matches(q.on.rules[i], q.task, h)}
<1>0. q.on.kind \in Kinds /\ q.on.rules \in Seq(Rules)
  BY DEF Routers
<1>1. CASE hits = {}
  <2>1. request' = [request EXCEPT ![r].step = "sending", ![r].hop = 2, ![r].to = q.on.kind,
                                     ![r].masked = Mask(q.on.kind, TRUE)]
    BY <1>1 DEF Route
  <2>2. /\ request'[r].step = "sending" /\ request'[r].hop = 2 /\ request'[r].to = q.on.kind
        /\ request'[r].on = q.on /\ request'[r].task = q.task
    BY <2>1 DEF RequestShape, ReqFields
  <2>3. \A s \in Requests : s # r => request'[s] = request[s]
    BY <2>1 DEF RequestShape
  <2>q. QED BY <1>0, <2>2, <2>3 DEF OneRequest, RequestFits
<1>2. CASE hits # {}
  <2>1. PICK i \in hits :
          request' = [request EXCEPT ![r].step = "sending", ![r].hop = 1, ![r].to = q.on.rules[i].to,
                                     ![r].masked = Mask(q.on.rules[i].to, q.on.rules[i].mask)]
    BY <1>2 DEF Route
  <2>2. /\ request'[r].step = "sending" /\ request'[r].hop = 1 /\ request'[r].to = q.on.rules[i].to
        /\ request'[r].on = q.on /\ request'[r].task = q.task
    BY <2>1 DEF RequestShape, ReqFields
  <2>3. \A s \in Requests : s # r => request'[s] = request[s]
    BY <2>1 DEF RequestShape
  <2>4. q.on.rules[i].to \in Kinds
    <3>1. i \in DOMAIN q.on.rules
      OBVIOUS
    <3>2. q.on.rules[i] \in Rules
      BY <1>0, <3>1
    <3>q. QED BY <3>2 DEF Rules
  <2>q. QED BY <2>2, <2>3, <2>4 DEF OneRequest, RequestFits
<1>q. QED BY <1>1, <1>2

LEMMA RequestsFit ==
  ASSUME RequestShape, RouterFits, NEW r \in Requests,
         Ask(r) \/ Judge(r) \/ Probed(r) \/ Answered(r) \/ FallBack(r)
  PROVE  RouterFits'
<1>0. live' = live /\ writer' = writer
  BY DEF Ask, Judge, Probed, Answered, FallBack
<1>1. RequestFits(request[r])
  BY DEF RouterFits
<1>2. OneRequest(r)
  <2>1. CASE Ask(r)
    <3>1. PICK t \in Tasks :
            request' = [request EXCEPT ![r] = [Idle EXCEPT !.step = "judging", !.on = live, !.task = t]]
      BY <2>1 DEF Ask
    <3>2. request'[r] = [Idle EXCEPT !.step = "judging", !.on = live, !.task = t]
      BY <3>1 DEF RequestShape
    <3>3. request'[r].step = "judging" /\ request'[r].on = live /\ request'[r].task = t
      BY <3>2 DEF Idle
    <3>4. \A s \in Requests : s # r => request'[s] = request[s]
      BY <3>1 DEF RequestShape
    <3>q. QED BY <3>3, <3>4 DEF OneRequest, RequestFits, RouterFits
  <2>2. CASE Judge(r)
    <3>1. request[r].step = "judging" /\ request[r].on \in Routers /\ request[r].task \in Tasks
      BY <2>2, <1>1 DEF Judge, RequestFits
    <3>2. CASE request' = [request EXCEPT ![r].step = "probing"]
      <4>1. request'[r].step = "probing" /\ request'[r].on = request[r].on /\ request'[r].task = request[r].task
        BY <3>2 DEF RequestShape, ReqFields
      <4>2. \A s \in Requests : s # r => request'[s] = request[s]
        BY <3>2 DEF RequestShape
      <4>q. QED BY <3>1, <4>1, <4>2 DEF OneRequest, RequestFits
    <3>q. QED BY <2>2, <3>1, <3>2, RouteFits DEF Judge
  <2>3. CASE Probed(r)
    <3>1. request[r].on \in Routers /\ request[r].task \in Tasks
      BY <2>3, <1>1 DEF Probed, RequestFits
    <3>q. QED BY <2>3, <3>1, RouteFits DEF Probed
  <2>4. CASE Answered(r)
    <3>1. request'[r] = Idle /\ \A s \in Requests : s # r => request'[s] = request[s]
      BY <2>4 DEF Answered, RequestShape
    <3>q. QED BY <3>1 DEF OneRequest, RequestFits, Idle
  <2>5. CASE FallBack(r)
    <3>1. /\ request[r].step = "sending"
          /\ request' = [request EXCEPT ![r].hop = 2, ![r].to = request[r].on.kind,
                                        ![r].masked = Mask(request[r].on.kind, TRUE)]
      BY <2>5 DEF FallBack
    <3>2. /\ request'[r].step = "sending" /\ request'[r].hop = 2 /\ request'[r].to = request[r].on.kind
          /\ request'[r].on = request[r].on /\ request'[r].task = request[r].task
      BY <3>1 DEF RequestShape, ReqFields
    <3>3. \A s \in Requests : s # r => request'[s] = request[s]
      BY <3>1 DEF RequestShape
    <3>4. request[r].on.kind \in Kinds /\ request[r].on \in Routers /\ request[r].task \in Tasks
      BY <1>1, <3>1 DEF RequestFits, Routers
    <3>q. QED BY <3>2, <3>3, <3>4 DEF OneRequest, RequestFits
  <2>q. QED BY <2>1, <2>2, <2>3, <2>4, <2>5
<1>3. \A s \in Requests : RequestFits(request'[s])
  BY <1>2 DEF OneRequest, RouterFits
<1>4. health' \in [0..MaxBuilt -> Healths]
  <2>1. CASE health' = health
    BY <2>1 DEF RouterFits
  <2>2. CASE Probed(r)
    <3>1. PICK h \in {"up", "down"} : health' = [health EXCEPT ![request[r].on.id] = h]
      BY <2>2 DEF Probed
    <3>q. QED BY <3>1 DEF RouterFits, Healths
  <2>q. QED BY <2>1, <2>2 DEF Ask, Judge, Answered, FallBack
<1>5. live' \in Routers /\ live'.id + Cardinality(Ahead') <= MaxBuilt
  <2>1. Ahead' = Ahead
    BY <1>0 DEF Ahead
  <2>q. QED BY <1>0, <2>1 DEF RouterFits
<1>q. QED BY <1>3, <1>4, <1>5 DEF RouterFits, RequestFits

LEMMA RouterFitsNext == ASSUME SInv, RequestShape, RouterFits, [Next]_vars PROVE RouterFits'
<1>1. ASSUME NEW w \in Writers, PutRules(w) \/ Switch(w) PROVE RouterFits'
  BY <1>1, BeginFits DEF PutRules, Switch
<1>2. ASSUME NEW w \in Writers, SaveRules(w) \/ AskKind(w) \/ ReadRules(w) \/ Swap(w) \/ CannotBuild(w) \/ Remember(w)
      PROVE  RouterFits'
  BY <1>2, ChangeFits, SwapFits
<1>3. ASSUME NEW i \in 0..MaxBuilt, Stale(i) PROVE RouterFits'
  <2>1. health' = [health EXCEPT ![i] = "unasked"] /\ UNCHANGED <<live, writer, request>>
    BY <1>3 DEF Stale
  <2>2. health' \in [0..MaxBuilt -> Healths]
    BY <2>1 DEF RouterFits, Healths
  <2>q. QED BY <2>1, <2>2 DEF RouterFits, Ahead, RequestFits
<1>4. CASE UNCHANGED vars
  BY <1>4 DEF vars, RouterFits, Ahead, RequestFits
<1>q. QED BY <1>1, <1>2, <1>3, <1>4, RestartFits, RequestsFit DEF Next

LEMMA RouterTypes == SInv /\ RouterFits => TypeOK
<1> SUFFICES ASSUME SInv, RouterFits PROVE TypeOK
  OBVIOUS
<1>1. saved \in [kind : Kinds \union {None}, rules : Seq(Rules)]
  BY RouterAssumption DEF SInv, SettingTypes
<1>2. \A w \in Writers :
       /\ writer[w].step \in WriterSteps
       /\ writer[w].kind \in Kinds \union {None} /\ writer[w].rules \in Seq(Rules)
  BY RouterAssumption DEF SInv, SettingTypes, Changes
<1>3. muddled \in BOOLEAN
  BY DEF SInv, SettingTypes
<1>4. \A r \in Requests :
       /\ request[r].step \in {"away", "judging", "probing", "sending"}
       /\ request[r].step # "away" => request[r].on \in Routers /\ request[r].task \in Tasks
       /\ request[r].step = "sending" => request[r].to \in Kinds /\ request[r].hop \in {1, 2}
  BY DEF RouterFits, RequestFits
<1>q. QED BY <1>1, <1>2, <1>3, <1>4 DEF RouterFits, TypeOK, WriterSteps

LEMMA RouterInvariance == PartsSpec => [](SInv /\ RequestShape /\ UnmaskedBySaying /\ RouterFits)
<1>1. Init => SInv /\ RequestShape /\ UnmaskedBySaying /\ RouterFits
  <2>1. Init => RequestShape /\ UnmaskedBySaying
    BY DEF Init, RequestShape, UnmaskedBySaying, Idle, ReqFields
  <2>q. QED BY <2>1, SInvInit, RouterFitsInit
<1>2. SInv /\ RequestShape /\ UnmaskedBySaying /\ RouterFits /\ [Next]_vars
        => (SInv /\ RequestShape /\ UnmaskedBySaying /\ RouterFits)'
  BY SInvNext, RequestsKeep, RouterFitsNext
<1>q. QED BY <1>1, <1>2, RouterOfParts, PTL DEF Spec

-----------------------------------------------------------------------------
(* Join detection. What a key was told last is what is noted of it, so two *)
(* offers of one meeting are told a window apart, however the page's and   *)
(* the calendar's requests overlap.                                        *)
PostStates == [step : {"away", "sent", "queueing", "offering", "refused", "replying"},
               tab : Tabs \union {None}, meeting : Meetings \union {None}, at : J!Times]
TabStates  == [shows : Meetings \union {None}, key : Meetings \union {None},
               attempts : 0..MaxAttempts, heard : BOOLEAN]
PollStates == [step : {"away", "observing", "queueing", "offering"}, at : J!Times,
               todo : SUBSET Meetings, telling : Meetings \union {None}]

\* The types of all but what is shown.
JoinTypes ==
  /\ clock \in J!Times
  /\ tab \in [Tabs -> TabStates]
  /\ post \in [Posts -> PostStates]
  /\ \A q \in Posts : post[q].step # "away" => post[q].tab \in Tabs /\ post[q].meeting \in Meetings
  /\ poll \in PollStates
  /\ poll.step \in {"queueing", "offering"} => poll.telling \in Meetings
  /\ pending \in [Meetings -> J!Times \union {None}]
  /\ notified \in [J!Keys -> J!Times \union {None}]
  /\ told \in [J!Keys -> Seq(J!Times)]

Apart(s, t) == s - t >= Window \/ t - s >= Window

\* What a key was told is not later than what is noted of it.
Noted ==
  \A k \in J!Keys :
    /\ notified[k] # None => notified[k] <= clock
    /\ \A i \in 1..Len(told[k]) : notified[k] # None /\ told[k][i] <= notified[k]

\* A page's decision that has no row yet.
Deciding(q, m) == post[q].step = "queueing" /\ post[q].meeting = m

PageDecided(q) ==
  post[q].step = "queueing" =>
    LET k == J!Page(post[q].meeting) IN
    /\ notified[k] # None /\ post[q].at <= notified[k]
    /\ \A i \in 1..Len(told[k]) : Apart(post[q].at, told[k][i])

PagesApart ==
  \A q, r \in Posts :
    q # r /\ post[q].step = "queueing" /\ post[r].step = "queueing" /\ post[q].meeting = post[r].meeting =>
      Apart(post[q].at, post[r].at)

\* The poll is later than what it finds told, and what it tells is apart from it.
PollDecided ==
  poll.step # "away" =>
    /\ poll.at <= clock
    /\ \A m \in Meetings : notified[J!Event(m)] # None => notified[J!Event(m)] <= poll.at
    /\ poll.step = "queueing" =>
         LET k == J!Event(poll.telling) IN
         /\ notified[k] = poll.at
         /\ \A i \in 1..Len(told[k]) : Apart(poll.at, told[k][i])

JoinInv == JoinTypes /\ Noted /\ (\A q \in Posts : PageDecided(q)) /\ PagesApart /\ PollDecided /\ J!ToldOnce

LEMMA KeyFacts ==
  /\ \A m \in Meetings : J!Page(m) \in J!Keys /\ J!Event(m) \in J!Keys
  /\ \A m, n \in Meetings : J!Page(m) # J!Event(n) /\ (J!Page(m) = J!Page(n) => m = n) /\ (J!Event(m) = J!Event(n) => m = n)
BY DEF J!Page, J!Event, J!Keys

LEMMA JoinNumbers == ASSUME J!JoinAssumption
                     PROVE  /\ MaxNow \in Nat /\ J!Times \subseteq Nat /\ 0 \in J!Times /\ Window \in Nat /\ Window > 0
                            /\ None \notin Meetings /\ None \notin J!Times /\ MaxAttempts \in Nat /\ MaxAttempts > 0
BY DEF J!JoinAssumption, J!Times

LEMMA NoTimeIsNone == ASSUME J!JoinAssumption, JoinTypes
                      PROVE  /\ clock \in Nat /\ poll.at \in Nat /\ \A q \in Posts : post[q].at \in Nat
                             /\ \A k \in J!Keys : notified[k] # None => notified[k] \in J!Times /\ notified[k] \in Nat
                             /\ \A k \in J!Keys : told[k] \in Seq(J!Times)
                             /\ \A k \in J!Keys : \A i \in 1..Len(told[k]) : told[k][i] \in Nat
<1>1. clock \in Nat /\ poll.at \in Nat /\ \A q \in Posts : post[q].at \in Nat
  BY JoinNumbers DEF JoinTypes, PollStates, PostStates
<1>2. \A k \in J!Keys : notified[k] # None => notified[k] \in J!Times /\ notified[k] \in Nat
  BY JoinNumbers DEF JoinTypes
<1>3. \A k \in J!Keys : told[k] \in Seq(J!Times)
  BY DEF JoinTypes
<1>4. ASSUME NEW k \in J!Keys PROVE \A i \in 1..Len(told[k]) : told[k][i] \in Nat
  BY <1>3, JoinNumbers
<1>q. QED BY <1>1, <1>2, <1>3, <1>4

\* ToldOnce, over the lengths.
LEMMA ToldOnceSo == ASSUME J!JoinAssumption, JoinTypes
                    PROVE  J!ToldOnce <=> \A k \in J!Keys : \A i, j \in 1..Len(told[k]) :
                                            i < j => Apart(told[k][i], told[k][j])
<1>1. \A k \in J!Keys : DOMAIN told[k] = 1..Len(told[k])
  BY NoTimeIsNone
<1>q. QED BY <1>1 DEF J!ToldOnce, Apart
-----------------------------------------------------------------------------
(* What tells nothing. *)

LEMMA Quiet ==
  ASSUME J!JoinAssumption, JoinInv, JoinTypes', PollDecided', UNCHANGED <<notified, told>>, clock' >= clock,
         \A q \in Posts : post'[q].step = "queueing" =>
            post[q].step = "queueing" /\ post'[q].meeting = post[q].meeting /\ post'[q].at = post[q].at
  PROVE  JoinInv'
<1>1. Noted'
  <2>1. clock' \in Nat
    BY JoinNumbers DEF JoinTypes
  <2>q. QED BY <2>1, NoTimeIsNone DEF JoinInv, Noted
<1>2. \A q \in Posts : PageDecided(q)'
  BY DEF JoinInv, PageDecided, Apart
<1>3. PagesApart'
  BY DEF JoinInv, PagesApart, Apart
<1>4. J!ToldOnce'
  BY DEF JoinInv, J!ToldOnce
<1>q. QED BY <1>1, <1>2, <1>3, <1>4 DEF JoinInv

LEMMA JoinInit == ASSUME J!JoinAssumption, J!Init PROVE JoinInv
<1>0. \A k \in J!Keys : told[k] = <<>> /\ Len(told[k]) = 0 /\ notified[k] = None
  BY DEF J!Init
<1>1. JoinTypes
  <2>1. clock \in J!Times /\ tab \in [Tabs -> TabStates]
    BY JoinNumbers DEF J!Init, J!Nobody, J!Announcer, TabStates
  <2>2. post \in [Posts -> PostStates] /\ \A q \in Posts : post[q].step = "away"
    BY JoinNumbers DEF J!Init, J!NoPost, PostStates
  <2>3. poll \in PollStates /\ poll.step = "away"
    BY JoinNumbers DEF J!Init, J!NoPoll, PollStates
  <2>4. /\ pending \in [Meetings -> J!Times \union {None}] /\ notified \in [J!Keys -> J!Times \union {None}]
        /\ told \in [J!Keys -> Seq(J!Times)]
    BY DEF J!Init
  <2>q. QED BY <2>1, <2>2, <2>3, <2>4 DEF JoinTypes
<1>2. (\A q \in Posts : post[q].step = "away") /\ poll.step = "away"
  BY DEF J!Init, J!NoPost, J!NoPoll
<1>3. J!ToldOnce
  BY <1>0, <1>1, ToldOnceSo
<1>4. Noted
  BY <1>0 DEF Noted
<1>q. QED BY <1>1, <1>2, <1>3, <1>4 DEF JoinInv, PageDecided, PagesApart, PollDecided

LEMMA PageKept == ASSUME J!JoinAssumption, JoinInv, NEW t \in Tabs, J!Browse(t) \/ J!Announce(t) PROVE JoinInv'
<1>1. UNCHANGED <<clock, poll, pending, notified, told>>
  BY DEF J!Browse, J!Announce, J!tracker
<1>2. PollDecided'
  BY <1>1 DEF JoinInv, PollDecided, Apart
<1>3. CASE J!Browse(t)
  <2>1. UNCHANGED post /\ tab' \in [Tabs -> TabStates]
    BY ZenonT(30), <1>3 DEF J!Browse, JoinInv, JoinTypes, TabStates
  <2>q. QED BY <1>1, <1>2, <2>1, Quiet, NoTimeIsNone DEF JoinInv, JoinTypes
<1>4. CASE J!Announce(t)
  <2> DEFINE a == J!Afresh(t)
  <2>1. a \in TabStates
    BY JoinNumbers DEF J!Afresh, J!Nobody, J!Announcer, JoinInv, JoinTypes, TabStates
  <2> HIDE DEF a
  <2>2. tab \in [Tabs -> TabStates] /\ MaxAttempts \in Nat
    BY JoinNumbers DEF JoinInv, JoinTypes
  <2>3. CASE tab' = [tab EXCEPT ![t] = a] /\ UNCHANGED post
    <3>1. tab' \in [Tabs -> TabStates]
      BY <2>1, <2>2, <2>3
    <3>q. QED BY <1>1, <1>2, <2>3, <3>1, Quiet, NoTimeIsNone DEF JoinInv, JoinTypes
  <2>4. CASE /\ ~(a.key = None \/ a.heard \/ a.attempts >= MaxAttempts)
             /\ tab' = [tab EXCEPT ![t] = [a EXCEPT !.attempts = @ + 1]]
    <3>1. [a EXCEPT !.attempts = @ + 1] \in TabStates /\ a.key \in Meetings
      BY <2>1, <2>2, <2>4 DEF TabStates
    <3>2. tab' \in [Tabs -> TabStates]
      BY <2>2, <2>4, <3>1
    <3>3. CASE UNCHANGED post
      BY <1>1, <1>2, <3>2, <3>3, Quiet, NoTimeIsNone DEF JoinInv, JoinTypes
    <3>4. CASE \E q \in Posts :
                 /\ post[q].step = "away"
                 /\ post' = [post EXCEPT ![q] = [step |-> "sent", tab |-> t, meeting |-> a.key, at |-> 0]]
      <4>1. PICK q \in Posts : post' = [post EXCEPT ![q] = [step |-> "sent", tab |-> t, meeting |-> a.key, at |-> 0]]
        BY <3>4
      <4> DEFINE s == [step |-> "sent", tab |-> t, meeting |-> a.key, at |-> 0]
      <4>2. s \in PostStates /\ s.step = "sent" /\ s.tab \in Tabs /\ s.meeting \in Meetings
        BY <3>1, JoinNumbers DEF PostStates
      <4>3. post' = [post EXCEPT ![q] = s]
        BY <4>1
      <4> HIDE DEF s
      <4>4. post \in [Posts -> PostStates]
        BY DEF JoinInv, JoinTypes
      <4>5. post' \in [Posts -> PostStates] /\ post'[q] = s /\ \A r \in Posts \ {q} : post'[r] = post[r]
        BY <4>2, <4>3, <4>4
      <4>6. JoinTypes'
        BY <1>1, <3>2, <4>2, <4>5 DEF JoinInv, JoinTypes
      <4>q. QED BY <1>1, <1>2, <4>2, <4>5, <4>6, Quiet, NoTimeIsNone DEF JoinInv
    <3>q. QED BY <1>4, <2>4, <3>3, <3>4 DEF J!Announce, a
  <2>q. QED BY <1>4, <2>3, <2>4 DEF J!Announce, a
<1>q. QED BY <1>3, <1>4

\* A post goes on, and decides nothing.
LEMMA PostStep ==
  ASSUME J!JoinAssumption, JoinInv, NEW q \in Posts, NEW s \in PostStates, post' = [post EXCEPT ![q] = s],
         s.step # "queueing", s.step # "away" => s.tab \in Tabs /\ s.meeting \in Meetings,
         tab' \in [Tabs -> TabStates], UNCHANGED <<clock, poll, pending, notified, told>>
  PROVE  JoinInv'
<1>1. post' \in [Posts -> PostStates] /\ post'[q] = s /\ \A r \in Posts \ {q} : post'[r] = post[r]
  BY DEF JoinInv, JoinTypes
<1>2. JoinTypes'
  BY <1>1 DEF JoinInv, JoinTypes
<1>3. PollDecided'
  BY DEF JoinInv, PollDecided, Apart
<1>q. QED BY <1>1, <1>2, <1>3, Quiet, NoTimeIsNone DEF JoinInv

LEMMA ReplyKept == ASSUME J!JoinAssumption, JoinInv, NEW q \in Posts, J!Reply(q) PROVE JoinInv'
<1>1. /\ post' = [post EXCEPT ![q] = J!NoPost] /\ post[q].tab \in Tabs
      /\ UNCHANGED <<clock, poll, pending, notified, told>>
  BY DEF J!Reply, JoinInv, JoinTypes, J!tracker
<1>2. J!NoPost \in PostStates /\ J!NoPost.step = "away"
  BY JoinNumbers DEF J!NoPost, PostStates
<1>3. tab' = tab \/ tab' = [tab EXCEPT ![post[q].tab].heard = TRUE]
  BY DEF J!Reply
<1>4. tab' \in [Tabs -> TabStates]
  <2>1. tab \in [Tabs -> TabStates] /\ tab[post[q].tab] \in TabStates
    BY <1>1 DEF JoinInv, JoinTypes
  <2>2. [tab[post[q].tab] EXCEPT !.heard = TRUE] \in TabStates
    BY <2>1 DEF TabStates
  <2>q. QED BY <1>1, <1>3, <2>1, <2>2
<1>q. QED BY <1>1, <1>2, <1>4, PostStep

LEMMA MakeOfferKept == ASSUME J!JoinAssumption, JoinInv, NEW q \in Posts, J!MakeOffer(q) PROVE JoinInv'
<1>1. /\ post' = [post EXCEPT ![q].step = "replying"] /\ post[q].step = "offering"
      /\ UNCHANGED <<clock, tab, poll, pending, notified, told>>
  BY DEF J!MakeOffer, J!tracker
<1>2. /\ post[q] \in PostStates /\ post[q].tab \in Tabs /\ post[q].meeting \in Meetings
      /\ tab \in [Tabs -> TabStates]
  BY <1>1 DEF JoinInv, JoinTypes
<1> DEFINE s == [post[q] EXCEPT !.step = "replying"]
<1>3. s \in PostStates /\ s.step = "replying" /\ s.tab \in Tabs /\ s.meeting \in Meetings
  BY <1>2 DEF PostStates
<1>4. post' = [post EXCEPT ![q] = s]
  BY <1>1
<1> HIDE DEF s
<1>q. QED BY <1>1, <1>2, <1>3, <1>4, PostStep
-----------------------------------------------------------------------------
(* A page is decided on, and told. *)

LEMMA ObserveKept == ASSUME J!JoinAssumption, JoinInv, NEW q \in Posts, J!Observe(q) PROVE JoinInv'
<1> DEFINE m == post[q].meeting
           k == J!Page(m)
<1>1. /\ post[q].step = "sent" /\ UNCHANGED <<clock, tab, poll, pending, told>>
  BY DEF J!Observe
<1>2. /\ post[q] \in PostStates /\ post[q].tab \in Tabs /\ m \in Meetings /\ k \in J!Keys
      /\ tab \in [Tabs -> TabStates] /\ post \in [Posts -> PostStates]
  BY <1>1, KeyFacts DEF JoinInv, JoinTypes
<1>3. CASE J!Mentioned(k, clock)
  <2>1. post' = [post EXCEPT ![q].step = "replying"] /\ UNCHANGED notified
    BY <1>3 DEF J!Observe
  <2> DEFINE s == [post[q] EXCEPT !.step = "replying"]
  <2>2. s \in PostStates /\ s.step = "replying" /\ s.tab \in Tabs /\ s.meeting \in Meetings
    BY <1>2 DEF PostStates
  <2>3. post' = [post EXCEPT ![q] = s]
    BY <2>1
  <2> HIDE DEF s
  <2>q. QED BY <1>1, <1>2, <2>1, <2>2, <2>3, PostStep
<1>4. CASE ~J!Mentioned(k, clock)
  <2> DEFINE s == [post[q] EXCEPT !.step = "queueing", !.at = clock]
  <2>1. /\ notified' = [notified EXCEPT ![k] = clock]
        /\ post' = [post EXCEPT ![q] = s]
    BY <1>4 DEF J!Observe
  <2>2. s \in PostStates /\ s.step = "queueing" /\ s.tab \in Tabs /\ s.meeting = m /\ s.at = clock
    BY <1>2 DEF PostStates, JoinInv, JoinTypes
  <2> HIDE DEF s, k, m
  <2>3. post' \in [Posts -> PostStates] /\ post'[q] = s /\ \A r \in Posts \ {q} : post'[r] = post[r]
    BY <1>2, <2>1, <2>2
  <2>4. /\ notified \in [J!Keys -> J!Times \union {None}] /\ clock \in J!Times /\ clock \in Nat
        /\ notified'[k] = clock /\ \A l \in J!Keys \ {k} : notified'[l] = notified[l]
        /\ notified' \in [J!Keys -> J!Times \union {None}] /\ clock # None
    BY <1>2, <2>1, JoinNumbers DEF JoinInv, JoinTypes
  <2>5. JoinTypes'
    BY <1>1, <1>2, <2>2, <2>3, <2>4 DEF JoinInv, JoinTypes
  <2>6. notified[k] # None => clock - notified[k] >= Window /\ notified[k] \in Nat /\ notified[k] <= clock
    BY <1>2, <1>4, NoTimeIsNone, JoinNumbers DEF J!Mentioned, JoinInv, Noted
  <2>7. \A i \in 1..Len(told[k]) : /\ notified[k] # None /\ told[k][i] <= notified[k] /\ told[k][i] \in Nat
                                   /\ Apart(clock, told[k][i])
    BY <1>2, <2>4, <2>6, NoTimeIsNone, JoinNumbers DEF JoinInv, Noted, Apart
  <2>8. ASSUME NEW r \in Posts, post[r].step = "queueing", post[r].meeting = m
        PROVE  post[r].at <= clock /\ Apart(clock, post[r].at)
    <3>1. notified[k] # None /\ post[r].at <= notified[k] /\ post[r].at \in Nat
      BY <2>8, NoTimeIsNone DEF JoinInv, PageDecided, k
    <3>q. QED BY <2>4, <2>6, <3>1, JoinNumbers DEF Apart
  <2>9. Noted'
    BY <1>1, <2>4, <2>6, <2>7, NoTimeIsNone DEF JoinInv, Noted
  <2>10. PageDecided(q)'
    BY <1>1, <2>2, <2>3, <2>4, <2>7 DEF PageDecided, k, Apart
  <2>11. ASSUME NEW r \in Posts \ {q} PROVE PageDecided(r)'
    <3>1. CASE post[r].step = "queueing"
      <4>0. PageDecided(r) /\ post[r].meeting \in Meetings /\ J!Page(post[r].meeting) \in J!Keys
        BY <3>1, KeyFacts DEF JoinInv, JoinTypes
      <4>1. CASE post[r].meeting = m
        BY <1>1, <2>3, <2>4, <2>8, <3>1, <4>0, <4>1 DEF PageDecided, k, Apart
      <4>2. CASE post[r].meeting # m
        <5>1. J!Page(post[r].meeting) # k
          BY <1>2, <4>0, <4>2, KeyFacts DEF k, m
        <5>q. QED BY <1>1, <2>3, <2>4, <3>1, <4>0, <5>1 DEF PageDecided, Apart
      <4>q. QED BY <4>1, <4>2
    <3>q. QED BY <2>3, <3>1 DEF PageDecided
  <2>12. PagesApart'
    <3>1. \A r \in Posts \ {q} : post[r].step = "queueing" /\ post[r].meeting = m =>
             Apart(clock, post[r].at) /\ Apart(post[r].at, clock)
      BY <2>8 DEF Apart
    <3>q. QED BY <2>2, <2>3, <3>1 DEF JoinInv, PagesApart, Apart
  <2>13. PollDecided'
    <3>1. \A n \in Meetings : J!Event(n) \in J!Keys /\ J!Event(n) # k
      BY <1>2, KeyFacts DEF k, m
    <3>q. QED BY <1>1, <2>4, <3>1 DEF JoinInv, JoinTypes, PollDecided, Apart
  <2>14. J!ToldOnce'
    BY <1>1 DEF JoinInv, J!ToldOnce
  <2>q. QED BY <2>5, <2>9, <2>10, <2>11, <2>12, <2>13, <2>14 DEF JoinInv
<1>q. QED BY <1>3, <1>4

\* A row for k at time t, which is noted, and apart from what it was told.
LEMMA ToldKept ==
  ASSUME J!JoinAssumption, JoinInv, NEW k \in J!Keys, NEW t \in J!Times, told' = [told EXCEPT ![k] = Append(@, t)],
         UNCHANGED <<clock, notified>>, notified[k] # None, t <= notified[k],
         \A i \in 1..Len(told[k]) : Apart(t, told[k][i])
  PROVE  /\ told' \in [J!Keys -> Seq(J!Times)] /\ Noted'
         /\ Len(told'[k]) = Len(told[k]) + 1 /\ told'[k][Len(told[k]) + 1] = t
         /\ \A i \in 1..Len(told[k]) : told'[k][i] = told[k][i]
         /\ \A l \in J!Keys \ {k} : told'[l] = told[l]
         /\ \A l \in J!Keys : \A i, j \in 1..Len(told'[l]) : i < j => Apart(told'[l][i], told'[l][j])
<1>1. told \in [J!Keys -> Seq(J!Times)] /\ told[k] \in Seq(J!Times) /\ Len(told[k]) \in Nat
  BY DEF JoinInv, JoinTypes
<1>2. told'[k] = Append(told[k], t) /\ \A l \in J!Keys \ {k} : told'[l] = told[l]
  BY <1>1
<1>3. /\ Len(told'[k]) = Len(told[k]) + 1 /\ told'[k][Len(told[k]) + 1] = t /\ told'[k] \in Seq(J!Times)
      /\ \A i \in 1..Len(told[k]) : told'[k][i] = told[k][i]
  BY <1>1, <1>2
<1>4. told' \in [J!Keys -> Seq(J!Times)]
  BY <1>1, <1>3
<1>5. Noted'
  <2>1. \A i \in 1..Len(told'[k]) : told'[k][i] <= notified[k]
    <3>1. \A i \in 1..Len(told[k]) : told[k][i] <= notified[k]
      BY DEF JoinInv, Noted
    <3>q. QED BY <1>1, <1>3, <3>1
  <2>q. QED BY <1>2, <2>1 DEF JoinInv, Noted
<1>6. ASSUME NEW i \in 1..Len(told'[k]), NEW j \in 1..Len(told'[k]), i < j PROVE Apart(told'[k][i], told'[k][j])
  <2>1. i \in 1..Len(told[k])
    BY <1>1, <1>3, <1>6
  <2>2. CASE j \in 1..Len(told[k])
    BY <1>3, <1>6, <2>1, <2>2, ToldOnceSo DEF JoinInv
  <2>3. CASE j = Len(told[k]) + 1
    BY <1>3, <2>1, <2>3 DEF Apart
  <2>q. QED BY <1>1, <1>3, <2>2, <2>3
<1>7. \A l \in J!Keys : \A i, j \in 1..Len(told'[l]) : i < j => Apart(told'[l][i], told'[l][j])
  BY <1>2, <1>6, ToldOnceSo DEF JoinInv
<1>q. QED BY <1>2, <1>3, <1>4, <1>5, <1>7

LEMMA EventTold == ASSUME told' \in [J!Keys -> Seq(J!Times)],
                          \A l \in J!Keys : \A i, j \in 1..Len(told'[l]) : i < j => Apart(told'[l][i], told'[l][j])
                   PROVE  J!ToldOnce'
<1>1. \A l \in J!Keys : DOMAIN told'[l] = 1..Len(told'[l])
  OBVIOUS
<1>q. QED BY <1>1 DEF J!ToldOnce, Apart

LEMMA QueueKept == ASSUME J!JoinAssumption, JoinInv, NEW q \in Posts, J!Queue(q) PROVE JoinInv'
<1> DEFINE m == post[q].meeting
           k == J!Page(m)
<1>1. /\ post[q].step = "queueing" /\ UNCHANGED <<clock, tab, poll, pending, notified>>
  BY DEF J!Queue, J!tracker
<1>2. /\ post[q] \in PostStates /\ post[q].tab \in Tabs /\ m \in Meetings /\ k \in J!Keys
      /\ tab \in [Tabs -> TabStates] /\ post \in [Posts -> PostStates]
  BY <1>1, KeyFacts DEF JoinInv, JoinTypes
<1>3. CASE post' = [post EXCEPT ![q].step = "refused"] /\ UNCHANGED told
  <2> DEFINE s == [post[q] EXCEPT !.step = "refused"]
  <2>2. s \in PostStates /\ s.step = "refused" /\ s.tab \in Tabs /\ s.meeting \in Meetings
    BY <1>2 DEF PostStates
  <2>3. post' = [post EXCEPT ![q] = s]
    BY <1>3
  <2> HIDE DEF s
  <2>q. QED BY <1>1, <1>2, <1>3, <2>2, <2>3, PostStep
<1>4. CASE /\ post' = [post EXCEPT ![q].step = "offering"]
           /\ told' = [told EXCEPT ![k] = Append(@, post[q].at)]
  <2> DEFINE s == [post[q] EXCEPT !.step = "offering"]
             t == post[q].at
  <2>1. s \in PostStates /\ s.step = "offering" /\ s.tab \in Tabs /\ s.meeting \in Meetings /\ t \in J!Times
    BY <1>2 DEF PostStates
  <2>2. post' = [post EXCEPT ![q] = s] /\ told' = [told EXCEPT ![k] = Append(@, t)]
    BY <1>4
  <2>3. notified[k] # None /\ t <= notified[k] /\ \A i \in 1..Len(told[k]) : Apart(t, told[k][i])
    BY <1>1 DEF JoinInv, PageDecided
  <2>r. \A r \in Posts \ {q} : post[r].step = "queueing" /\ post[r].meeting = m => Apart(post[r].at, t)
    BY <1>1 DEF JoinInv, PagesApart
  <2> HIDE DEF s, t, m, k
  <2>4. post' \in [Posts -> PostStates] /\ post'[q] = s /\ \A r \in Posts \ {q} : post'[r] = post[r]
    BY <1>2, <2>1, <2>2
  <2>5. /\ told' \in [J!Keys -> Seq(J!Times)] /\ Noted'
        /\ Len(told'[k]) = Len(told[k]) + 1 /\ told'[k][Len(told[k]) + 1] = t
        /\ \A i \in 1..Len(told[k]) : told'[k][i] = told[k][i]
        /\ \A l \in J!Keys \ {k} : told'[l] = told[l]
        /\ \A l \in J!Keys : \A i, j \in 1..Len(told'[l]) : i < j => Apart(told'[l][i], told'[l][j])
    BY <1>1, <1>2, <2>1, <2>2, <2>3, ToldKept
  <2>6. J!ToldOnce'
    BY <2>5, EventTold
  <2>7. JoinTypes'
    BY <1>1, <2>1, <2>4, <2>5 DEF JoinInv, JoinTypes
  <2>8. PageDecided(q)'
    BY <2>1, <2>4 DEF PageDecided
  <2>9. ASSUME NEW r \in Posts \ {q} PROVE PageDecided(r)'
    <3>1. CASE post[r].step = "queueing"
      <4>0. PageDecided(r) /\ post[r].meeting \in Meetings /\ J!Page(post[r].meeting) \in J!Keys
        BY <3>1, KeyFacts DEF JoinInv, JoinTypes
      <4>1. CASE post[r].meeting = m
        <5>1. \A i \in 1..Len(told'[k]) : Apart(post[r].at, told'[k][i])
          <6>1. \A i \in 1..Len(told[k]) : Apart(post[r].at, told[k][i])
            BY <3>1, <4>0, <4>1 DEF PageDecided, k
          <6>2. Len(told[k]) \in Nat
            BY <1>2 DEF JoinInv, JoinTypes
          <6>3. Apart(post[r].at, t)
            BY <2>r, <3>1, <4>1
          <6>4. /\ Len(told'[k]) = Len(told[k]) + 1 /\ told'[k][Len(told[k]) + 1] = t
                /\ \A i \in 1..Len(told[k]) : told'[k][i] = told[k][i]
            BY <2>5
          <6>q. QED BY <6>1, <6>2, <6>3, <6>4
        <5>q. QED BY <1>1, <2>4, <3>1, <4>0, <4>1, <5>1 DEF PageDecided, k, Apart
      <4>2. CASE post[r].meeting # m
        <5>1. J!Page(post[r].meeting) # k
          BY <1>2, <4>0, <4>2, KeyFacts DEF k, m
        <5>q. QED BY <1>1, <2>4, <2>5, <3>1, <4>0, <5>1, SMTT(30) DEF PageDecided, Apart
      <4>q. QED BY <4>1, <4>2
    <3>q. QED BY <2>4, <3>1 DEF PageDecided
  <2>10. PagesApart'
    BY <2>1, <2>4 DEF JoinInv, PagesApart, Apart
  <2>11. PollDecided'
    <3>1. \A n \in Meetings : J!Event(n) \in J!Keys /\ J!Event(n) # k
      BY <1>2, KeyFacts DEF k, m
    <3>q. QED BY <1>1, <2>5, <3>1 DEF JoinInv, JoinTypes, PollDecided, Apart
  <2>q. QED BY <2>5, <2>6, <2>7, <2>8, <2>9, <2>10, <2>11 DEF JoinInv
<1>q. QED BY <1>3, <1>4 DEF J!Queue
-----------------------------------------------------------------------------
(* The calendar. *)

\* The poll goes on, and decides nothing.
LEMMA PollStep ==
  ASSUME J!JoinAssumption, JoinInv, poll' \in PollStates, poll'.step # "queueing", pending' \in [Meetings -> J!Times \union {None}],
         poll'.step = "offering" => poll'.telling \in Meetings,
         poll'.step # "away" => poll'.at = clock \/ (poll'.at = poll.at /\ poll.step # "away"),
         UNCHANGED <<clock, tab, post, notified, told>>
  PROVE  JoinInv'
<1>1. JoinTypes'
  BY DEF JoinInv, JoinTypes
<1>2. PollDecided'
  <2>1. CASE poll'.at = clock
    BY <2>1, NoTimeIsNone, KeyFacts DEF JoinInv, Noted, PollDecided
  <2>2. CASE poll'.at = poll.at /\ poll.step # "away"
    BY <2>2 DEF JoinInv, PollDecided
  <2>q. QED BY <2>1, <2>2 DEF PollDecided
<1>q. QED BY <1>1, <1>2, Quiet, NoTimeIsNone DEF JoinInv

LEMMA BeginPollKept == ASSUME J!JoinAssumption, JoinInv, J!BeginPoll PROVE JoinInv'
<1>1. PICK todo \in SUBSET {m \in Meetings : clock \in Happening[m]} :
        poll' = [step |-> "observing", at |-> clock, todo |-> todo, telling |-> None]
  BY DEF J!BeginPoll
<1>2. poll' \in PollStates /\ poll'.step = "observing" /\ poll'.at = clock
  BY <1>1 DEF PollStates, JoinInv, JoinTypes
<1>3. pending' \in [Meetings -> J!Times \union {None}] /\ UNCHANGED <<clock, tab, post, notified, told>>
  BY DEF J!BeginPoll, J!tracker, JoinInv, JoinTypes
<1>q. QED BY <1>2, <1>3, PollStep

LEMMA OfferEventKept == ASSUME J!JoinAssumption, JoinInv, J!OfferEvent \/ J!EndPoll PROVE JoinInv'
<1>1. CASE J!OfferEvent
  <2>1. poll' \in PollStates /\ poll'.step = "observing" /\ poll'.at = poll.at /\ poll.step # "away"
    BY <1>1 DEF J!OfferEvent, PollStates, JoinInv, JoinTypes
  <2>2. pending' \in [Meetings -> J!Times \union {None}] /\ UNCHANGED <<clock, tab, post, notified, told>>
    BY <1>1 DEF J!OfferEvent, J!tracker, JoinInv, JoinTypes
  <2>q. QED BY <2>1, <2>2, PollStep
<1>2. CASE J!EndPoll
  <2>1. poll' \in PollStates /\ poll'.step = "away"
    BY <1>2, JoinNumbers DEF J!EndPoll, J!NoPoll, PollStates
  <2>2. pending' \in [Meetings -> J!Times \union {None}] /\ UNCHANGED <<clock, tab, post, notified, told>>
    BY <1>2 DEF J!EndPoll, J!tracker, JoinInv, JoinTypes
  <2>q. QED BY <2>1, <2>2, PollStep
<1>q. QED BY <1>1, <1>2

LEMMA ObserveEventKept == ASSUME J!JoinAssumption, JoinInv, J!ObserveEvent PROVE JoinInv'
<1>0. /\ poll.step = "observing" /\ UNCHANGED <<clock, tab, post, told>> /\ poll \in PollStates /\ poll.at \in J!Times
      /\ pending \in [Meetings -> J!Times \union {None}] /\ notified \in [J!Keys -> J!Times \union {None}]
  BY DEF J!ObserveEvent, JoinInv, JoinTypes, PollStates
<1>1. PICK m \in poll.todo :
        LET k == J!Event(m)
            first == IF pending[m] = None THEN poll.at ELSE pending[m]
            rest  == [poll EXCEPT !.todo = @ \ {m}]
        IN IF J!Mentioned(k, poll.at)
           THEN poll' = rest /\ UNCHANGED J!tracker
           ELSE IF poll.at - first >= Grace
           THEN /\ notified' = [notified EXCEPT ![k] = poll.at]
                /\ pending' = [pending EXCEPT ![m] = None]
                /\ poll' = [step |-> "queueing", at |-> poll.at, todo |-> poll.todo \ {m}, telling |-> m]
           ELSE /\ pending' = [pending EXCEPT ![m] = first]
                /\ poll' = rest /\ UNCHANGED notified
  BY DEF J!ObserveEvent
<1> DEFINE k == J!Event(m)
           first == IF pending[m] = None THEN poll.at ELSE pending[m]
<1>2. m \in Meetings /\ k \in J!Keys
  BY <1>0, KeyFacts DEF PollStates
<1>3. first \in J!Times
  BY <1>0, <1>2
<1>4. CASE poll' = [poll EXCEPT !.todo = @ \ {m}] /\ UNCHANGED notified /\ pending' \in [Meetings -> J!Times \union {None}]
  <2>1. poll' \in PollStates /\ poll'.step = "observing" /\ poll'.at = poll.at
    BY <1>0, <1>4 DEF PollStates
  <2>q. QED BY <1>0, <1>4, <2>1, PollStep
<1>5. CASE /\ ~J!Mentioned(k, poll.at) /\ notified' = [notified EXCEPT ![k] = poll.at]
           /\ pending' = [pending EXCEPT ![m] = None]
           /\ poll' = [step |-> "queueing", at |-> poll.at, todo |-> poll.todo \ {m}, telling |-> m]
  <2> HIDE DEF k, first
  <2>1. poll' \in PollStates /\ poll'.step = "queueing" /\ poll'.at = poll.at /\ poll'.telling = m
    BY <1>0, <1>2, <1>5 DEF PollStates
  <2>2. pending' \in [Meetings -> J!Times \union {None}]
    BY <1>0, <1>5
  <2>3. /\ notified' \in [J!Keys -> J!Times \union {None}] /\ notified'[k] = poll.at
        /\ \A l \in J!Keys \ {k} : notified'[l] = notified[l]
    BY <1>0, <1>2, <1>5
  <2>4. JoinTypes'
    BY <1>0, <1>2, <2>1, <2>2, <2>3 DEF JoinInv, JoinTypes
  <2>5. poll.at \in Nat /\ poll.at # None /\ poll.at <= clock
    BY <1>0, JoinNumbers DEF JoinInv, PollDecided
  <2>6. notified[k] # None => poll.at - notified[k] >= Window /\ notified[k] \in Nat /\ notified[k] <= poll.at
    <3>1. ~J!Mentioned(k, poll.at) /\ Window \in Nat
      BY <1>5, JoinNumbers
    <3>2. notified[k] # None => notified[k] <= poll.at /\ notified[k] \in Nat
      BY <1>0, <1>2, NoTimeIsNone DEF JoinInv, PollDecided, k
    <3>q. QED BY <2>5, <3>1, <3>2 DEF J!Mentioned
  <2>7. \A i \in 1..Len(told[k]) : /\ notified[k] # None /\ told[k][i] <= notified[k] /\ told[k][i] \in Nat
                                   /\ Apart(poll.at, told[k][i])
    <3> SUFFICES ASSUME NEW i \in 1..Len(told[k])
                 PROVE  /\ notified[k] # None /\ told[k][i] <= notified[k] /\ told[k][i] \in Nat
                        /\ Apart(poll.at, told[k][i])
      OBVIOUS
    <3>1. notified[k] # None /\ told[k][i] <= notified[k]
      BY <1>2 DEF JoinInv, Noted
    <3>2. told[k][i] \in Nat /\ Window \in Nat
      BY <1>2, JoinNumbers, NoTimeIsNone DEF JoinInv, JoinTypes
    <3>q. QED BY <2>5, <2>6, <3>1, <3>2 DEF Apart
  <2>8. Noted'
    BY <1>0, <1>2, <2>3, <2>5, <2>6, <2>7, NoTimeIsNone DEF JoinInv, Noted
  <2>9. \A q \in Posts : PageDecided(q)'
    <3>1. \A q \in Posts : post[q].step = "queueing" => J!Page(post[q].meeting) \in J!Keys \ {k}
      BY <1>2, KeyFacts DEF JoinInv, JoinTypes, k
    <3>q. QED BY <1>0, <2>3, <3>1 DEF JoinInv, PageDecided, Apart
  <2>10. PagesApart' /\ J!ToldOnce'
    BY <1>0 DEF JoinInv, PagesApart, J!ToldOnce, Apart
  <2>11. PollDecided'
    <3>1. \A n \in Meetings : n # m => J!Event(n) \in J!Keys \ {k}
      BY <1>2, KeyFacts DEF k
    <3>2. \A n \in Meetings : notified'[J!Event(n)] # None => notified'[J!Event(n)] <= poll.at
      BY <1>0, <2>3, <2>5, <3>1 DEF JoinInv, PollDecided, k
    <3>q. QED BY <1>0, <2>1, <2>3, <2>5, <2>7, <3>2 DEF PollDecided, k, Apart
  <2>q. QED BY <2>4, <2>8, <2>9, <2>10, <2>11 DEF JoinInv
<1>6. \/ poll' = [poll EXCEPT !.todo = @ \ {m}] /\ UNCHANGED J!tracker
      \/ /\ ~J!Mentioned(k, poll.at) /\ notified' = [notified EXCEPT ![k] = poll.at]
         /\ pending' = [pending EXCEPT ![m] = None]
         /\ poll' = [step |-> "queueing", at |-> poll.at, todo |-> poll.todo \ {m}, telling |-> m]
      \/ pending' = [pending EXCEPT ![m] = first] /\ poll' = [poll EXCEPT !.todo = @ \ {m}] /\ UNCHANGED notified
  BY <1>1
<1>7. [pending EXCEPT ![m] = first] \in [Meetings -> J!Times \union {None}]
  <2> HIDE DEF first
  <2>q. QED BY <1>0, <1>3
<1>q. QED BY <1>0, <1>4, <1>5, <1>6, <1>7 DEF J!tracker

LEMMA QueueEventKept == ASSUME J!JoinAssumption, JoinInv, J!QueueEvent PROVE JoinInv'
<1> DEFINE m == poll.telling
           k == J!Event(m)
           t == poll.at
<1>1. /\ poll.step = "queueing" /\ UNCHANGED <<clock, tab, post, pending, notified>> /\ poll \in PollStates
      /\ m \in Meetings /\ k \in J!Keys /\ t \in J!Times /\ pending \in [Meetings -> J!Times \union {None}]
  BY KeyFacts DEF J!QueueEvent, J!tracker, JoinInv, JoinTypes, PollStates
<1>2. CASE poll' = [poll EXCEPT !.step = "observing", !.telling = None] /\ UNCHANGED told
  <2>1. poll' \in PollStates /\ poll'.step = "observing" /\ poll'.at = poll.at
    BY <1>1, <1>2 DEF PollStates
  <2>q. QED BY <1>1, <1>2, <2>1, PollStep
<1>3. CASE poll' = [poll EXCEPT !.step = "offering"] /\ told' = [told EXCEPT ![k] = Append(@, t)]
  <2>1. poll' \in PollStates /\ poll'.step = "offering" /\ poll'.at = poll.at /\ poll'.telling \in Meetings
    BY <1>1, <1>3 DEF PollStates
  <2>2. t \in Nat /\ t # None
    BY <1>1, JoinNumbers
  <2>3. notified[k] # None /\ t <= notified[k] /\ \A i \in 1..Len(told[k]) : Apart(t, told[k][i])
    BY <1>1, <2>2 DEF JoinInv, PollDecided
  <2> HIDE DEF k, t, m
  <2>4. /\ told' \in [J!Keys -> Seq(J!Times)] /\ Noted'
        /\ \A l \in J!Keys \ {k} : told'[l] = told[l]
        /\ \A l \in J!Keys : \A i, j \in 1..Len(told'[l]) : i < j => Apart(told'[l][i], told'[l][j])
    BY <1>1, <1>3, <2>3, ToldKept
  <2>5. J!ToldOnce'
    BY <2>4, EventTold
  <2>6. JoinTypes'
    BY <1>1, <2>1, <2>4 DEF JoinInv, JoinTypes
  <2>7. \A q \in Posts : PageDecided(q)'
    <3>1. \A q \in Posts : post[q].step = "queueing" => J!Page(post[q].meeting) \in J!Keys \ {k}
      BY <1>1, KeyFacts DEF JoinInv, JoinTypes, k
    <3>q. QED BY <1>1, <2>4, <3>1 DEF JoinInv, PageDecided, Apart
  <2>8. PagesApart'
    BY <1>1 DEF JoinInv, PagesApart, Apart
  <2>9. PollDecided'
    BY <1>1, <2>1 DEF JoinInv, PollDecided
  <2>q. QED BY <2>4, <2>5, <2>6, <2>7, <2>8, <2>9 DEF JoinInv
<1>q. QED BY <1>2, <1>3 DEF J!QueueEvent
-----------------------------------------------------------------------------

LEMMA JoinRestKept == ASSUME J!JoinAssumption, JoinInv, J!Tick \/ J!Answer \/ UNCHANGED J!vars PROVE JoinInv'
<1>1. /\ UNCHANGED <<tab, post, poll, pending, notified, told>> /\ clock' \in J!Times /\ clock' >= clock
      /\ clock \in Nat /\ clock' \in Nat
  BY NoTimeIsNone, JoinNumbers DEF J!Tick, J!Answer, J!vars, J!tracker, JoinInv, JoinTypes, J!Times
<1>2. JoinTypes'
  BY <1>1 DEF JoinInv, JoinTypes
<1>3. PollDecided'
  BY <1>1, NoTimeIsNone DEF JoinInv, PollDecided, Apart
<1>q. QED BY <1>1, <1>2, <1>3, Quiet

LEMMA JoinRestartKept == ASSUME J!JoinAssumption, JoinInv, J!Restart PROVE JoinInv'
<1>1. /\ pending' = [m \in Meetings |-> None] /\ notified' = [k \in J!Keys |-> None]
      /\ poll' = J!NoPoll /\ post' = [q \in Posts |-> J!NoPost] /\ told' = [k \in J!Keys |-> <<>>]
      /\ UNCHANGED <<clock, tab>>
  BY DEF J!Restart
<1>2. /\ J!NoPost \in PostStates /\ J!NoPost.step = "away" /\ J!NoPoll \in PollStates /\ J!NoPoll.step = "away"
  BY JoinNumbers DEF J!NoPost, PostStates, J!NoPoll, PollStates
<1>3. \A k \in J!Keys : told'[k] = <<>> /\ Len(told'[k]) = 0 /\ notified'[k] = None
  BY <1>1
<1>4. (\A q \in Posts : post'[q].step = "away") /\ poll'.step = "away"
  BY <1>1, <1>2
<1>5. JoinTypes'
  <2>1. post' \in [Posts -> PostStates] /\ poll' \in PollStates
    BY <1>1, <1>2
  <2>2. /\ pending' \in [Meetings -> J!Times \union {None}] /\ notified' \in [J!Keys -> J!Times \union {None}]
        /\ told' \in [J!Keys -> Seq(J!Times)]
    BY <1>1
  <2>q. QED BY <1>1, <1>4, <2>1, <2>2 DEF JoinInv, JoinTypes
<1>6. J!ToldOnce'
  BY <1>3, <1>5, EventTold DEF JoinTypes
<1>7. Noted'
  BY <1>3 DEF Noted
<1>q. QED BY <1>4, <1>5, <1>6, <1>7 DEF JoinInv, PageDecided, PagesApart, PollDecided

LEMMA JoinNext == ASSUME J!JoinAssumption, JoinInv, [J!Next]_(J!vars) PROVE JoinInv'
BY PageKept, ReplyKept, MakeOfferKept, ObserveKept, QueueKept, BeginPollKept, OfferEventKept, ObserveEventKept,
   QueueEventKept, JoinRestKept, JoinRestartKept DEF J!Next

-----------------------------------------------------------------------------
(* The types of what is offered. *)

\* What is offered is of its type and within its bound.
OffersFit == offers \in Seq(J!Offers) /\ Len(offers) <= MaxOffers /\ losses \in 0..MaxFaults

LEMMA WorthFits ==
  ASSUME J!JoinAssumption, NEW list \in Seq(J!Offers)
  PROVE  J!Worth(list) \in Seq(J!Offers) /\ Len(J!Worth(list)) <= MaxOffers
<1> DEFINE places == {i \in DOMAIN list : list[i].at > clock - Ttl}
           fresh == J!Chosen(list, places)
<1>1. fresh = Chosen(list, places)
  BY DEF J!Chosen, Chosen
<1>2. fresh \in Seq(J!Offers)
  BY <1>1, ChosenTyped
<1>3. J!Worth(list) = IF Len(fresh) > MaxOffers THEN SubSeq(fresh, (Len(fresh) - MaxOffers) + 1, Len(fresh)) ELSE fresh
  BY DEF J!Worth
<1> HIDE DEF fresh
<1>4. MaxOffers \in Nat /\ MaxOffers > 0 /\ Len(fresh) \in Nat
  BY <1>2 DEF J!JoinAssumption
<1>5. CASE Len(fresh) > MaxOffers
  <2> DEFINE n == Len(fresh) - MaxOffers
  <2>1. n \in 0..Len(fresh) /\ Len(fresh) - n = MaxOffers
    BY <1>4, <1>5
  <2>2. J!Worth(list) = SubSeq(fresh, n + 1, Len(fresh))
    BY <1>3, <1>5
  <2> HIDE DEF n
  <2>3. SubSeq(fresh, n + 1, Len(fresh)) \in Seq(J!Offers) /\ Len(SubSeq(fresh, n + 1, Len(fresh))) = MaxOffers
    BY <1>2, <2>1, RestTyped
  <2>q. QED BY <1>4, <2>2, <2>3
<1>6. CASE ~ (Len(fresh) > MaxOffers)
  BY <1>2, <1>3, <1>4, <1>6
<1>q. QED BY <1>5, <1>6

LEMMA OfferFits ==
  ASSUME J!JoinAssumption, clock \in J!Times, OffersFit, NEW k \in J!Keys, J!Offer(k)
  PROVE  offers' \in Seq(J!Offers) /\ Len(offers') <= MaxOffers
<1>1. [key |-> k, at |-> clock, dismissed |-> FALSE] \in J!Offers
  BY DEF J!Offers
<1>2. Append(offers, [key |-> k, at |-> clock, dismissed |-> FALSE]) \in Seq(J!Offers)
  BY <1>1 DEF OffersFit
<1>q. QED BY <1>2, WorthFits DEF J!Offer

LEMMA AnswerFits ==
  ASSUME J!JoinAssumption, OffersFit, J!Answer
  PROVE  offers' \in Seq(J!Offers) /\ Len(offers') <= MaxOffers
<1> DEFINE w == J!Worth(offers)
<1>1. w \in Seq(J!Offers) /\ Len(w) <= MaxOffers
  BY WorthFits DEF OffersFit
<1>2. PICK i \in DOMAIN w : offers' = [w EXCEPT ![i].dismissed = TRUE]
  BY DEF J!Answer
<1> HIDE DEF w
<1>3. w[i] \in J!Offers
  BY <1>1
<1>4. [w[i] EXCEPT !.dismissed = TRUE] \in J!Offers
  BY <1>3 DEF J!Offers
<1>5. offers' = [w EXCEPT ![i] = [w[i] EXCEPT !.dismissed = TRUE]]
  BY <1>2
<1>q. QED BY <1>1, <1>4, <1>5

LEMMA LossFits == ASSUME J!JoinAssumption, OffersFit, J!Loss PROVE losses' \in 0..MaxFaults
BY DEF J!JoinAssumption, OffersFit, J!Loss

\* What is offered stays where only a fault may be counted.
LEMMA OffersStay == ASSUME J!JoinAssumption, OffersFit, offers' = offers, losses' = losses \/ J!Loss PROVE OffersFit'
<1>1. losses' \in 0..MaxFaults
  BY LossFits DEF OffersFit
<1>2. offers' \in Seq(J!Offers) /\ Len(offers') <= MaxOffers
  BY DEF OffersFit
<1>q. QED BY <1>1, <1>2 DEF OffersFit, J!Offers, J!Keys, J!Times, J!Page, J!Event

LEMMA OffersFitNext == ASSUME J!JoinAssumption, JoinInv, OffersFit, [J!Next]_(J!vars) PROVE OffersFit'
<1>0. clock \in J!Times /\ JoinTypes
  BY DEF JoinInv, JoinTypes
<1>1. ASSUME NEW t \in Tabs, J!Browse(t) \/ J!Announce(t) PROVE OffersFit'
  <2>1. offers' = offers /\ (losses' = losses \/ J!Loss)
    BY <1>1 DEF J!Browse, J!Announce
  <2>q. QED BY <2>1, OffersStay
<1>2. ASSUME NEW q \in Posts, J!Observe(q) \/ J!Queue(q) \/ J!Reply(q) PROVE OffersFit'
  <2>1. offers' = offers /\ (losses' = losses \/ J!Loss)
    BY <1>2 DEF J!Observe, J!Queue, J!Reply
  <2>q. QED BY <2>1, OffersStay
<1>3. CASE J!BeginPoll \/ J!ObserveEvent \/ J!QueueEvent \/ J!EndPoll \/ J!Tick \/ UNCHANGED J!vars
  <2>1. offers' = offers /\ (losses' = losses \/ J!Loss)
    BY <1>3 DEF J!BeginPoll, J!ObserveEvent, J!QueueEvent, J!EndPoll, J!Tick, J!vars
  <2>q. QED BY <2>1, OffersStay
<1>4. ASSUME offers' \in Seq(J!Offers), Len(offers') <= MaxOffers, losses' \in 0..MaxFaults PROVE OffersFit'
  BY <1>4 DEF OffersFit, J!Offers, J!Keys, J!Times, J!Page, J!Event
<1>5. ASSUME NEW q \in Posts, J!MakeOffer(q) PROVE OffersFit'
  <2>1. J!Page(post[q].meeting) \in J!Keys
    BY <1>0, <1>5, KeyFacts DEF J!MakeOffer, JoinTypes
  <2>2. J!Offer(J!Page(post[q].meeting)) /\ losses' = losses
    BY <1>5 DEF J!MakeOffer
  <2>q. QED BY <1>0, <1>4, <2>1, <2>2, OfferFits DEF OffersFit
<1>6. CASE J!OfferEvent
  <2>1. J!Event(poll.telling) \in J!Keys
    BY <1>0, <1>6, KeyFacts DEF J!OfferEvent, JoinTypes
  <2>2. J!Offer(J!Event(poll.telling)) /\ losses' = losses
    BY <1>6 DEF J!OfferEvent
  <2>q. QED BY <1>0, <1>4, <2>1, <2>2, OfferFits DEF OffersFit
<1>7. CASE J!Answer
  <2>1. losses' = losses
    BY <1>7 DEF J!Answer
  <2>q. QED BY <1>4, <1>7, <2>1, AnswerFits DEF OffersFit
<1>8. CASE J!Restart
  <2>1. offers' = <<>> /\ J!Loss
    BY <1>8 DEF J!Restart
  <2>2. <<>> \in Seq(J!Offers) /\ Len(<<>>) = 0 /\ 0 <= MaxOffers
    BY DEF J!JoinAssumption
  <2>q. QED BY <1>4, <2>1, <2>2, LossFits
<1>q. QED BY <1>1, <1>2, <1>3, <1>5, <1>6, <1>7, <1>8 DEF J!Next

LEMMA OffersFitInit == ASSUME J!JoinAssumption, J!Init PROVE OffersFit
<1>1. <<>> \in Seq(J!Offers) /\ Len(<<>>) = 0 /\ 0 <= MaxOffers /\ 0 \in 0..MaxFaults
  BY DEF J!JoinAssumption
<1>q. QED BY <1>1 DEF J!Init, OffersFit

LEMMA JoinTyped == JoinInv /\ OffersFit => J!TypeOK
BY DEF JoinInv, JoinTypes, OffersFit, J!TypeOK, TabStates, PostStates, PollStates

-----------------------------------------------------------------------------
(* The importer. A pull still has in hand what its next cursor will pass.  *)
PullStates == [step : {"away", "begun", "asking", "walking", "reading", "storing"},
               root : Folders \union {None}, since : 0..now, newest : 0..now,
               left : SUBSET Files, seen : SUBSET Files, todo : SUBSET Files,
               batch : SUBSET [file : Files, body : 0..now]]

\* The text of the file is stored, or the file is told apart.
Passed(f) == stored[f] = at[f] \/ f \in passed \union overlooked \union Deep

CursorCovers == target # None => \A f \in I!In(target) : at[f] <= cursor => Passed(f)

\* What a pull's next cursor will pass is kept, or the pull still has it in hand. While it walks the
\* next cursor is not known, so that this is said of all it will not come to, and of what is old.
Covers(p) ==
  LET q == pull[p] IN
  /\ q.step \in {"asking", "reading", "storing"} =>
       \A f \in I!In(q.root) :
         at[f] <= q.newest => Passed(f) \/ f \in q.todo \/ [file |-> f, body |-> at[f]] \in q.batch
  /\ q.step = "walking" =>
       \A f \in I!In(q.root) : at[f] <= q.since \/ f \notin q.left \union q.todo => Passed(f)

Emptied(p) ==
  /\ pull[p].step \in {"begun", "asking", "storing"} => pull[p].todo = {}
  /\ pull[p].step \in {"begun", "asking"} => pull[p].batch = {}
  /\ pull[p].step # "away" => pull[p].root # None

ImporterInv == I!TypeOK /\ CursorCovers /\ \A p \in Pulls : Covers(p) /\ Emptied(p)

LEMMA ImporterTyped == ASSUME I!ImporterAssumption, I!TypeOK
                       PROVE  /\ now \in Nat /\ cursor \in Nat /\ cursor <= now
                              /\ \A f \in Files : at[f] \in Nat /\ at[f] <= now /\ stored[f] \in Nat
                              /\ at \in [Files -> 0..now] /\ stored \in [Files -> 0..now]
                              /\ pull \in [Pulls -> PullStates]
                              /\ \A p \in Pulls : pull[p].newest \in Nat /\ pull[p].newest <= now
  BY DEF I!ImporterAssumption, I!TypeOK, I!Times, PullStates

LEMMA PullAway == ASSUME I!ImporterAssumption, now \in Nat PROVE I!Away \in PullStates /\ I!Away.since <= I!Away.newest
  BY DEF I!ImporterAssumption, I!Away, I!Fresh, PullStates

LEMMA ImporterInit == ASSUME I!ImporterAssumption, I!Init PROVE ImporterInv
<1>1. \A p \in Pulls : pull[p] = I!Away
  BY DEF I!Init
<1>2. I!Away.step = "away" /\ I!Away.since = 0 /\ I!Away.newest = 0
  BY DEF I!Away, I!Fresh
<1>3. I!TypeOK
  <2>1. now = 0 /\ target = None /\ registered = None /\ cursor = 0 /\ passed = {} /\ overlooked = {} /\ failed = 0
    BY DEF I!Init
  <2>2. pull \in [Pulls -> PullStates]
    BY <2>1, PullAway DEF I!Init
  <2>3. at \in [Files -> 0..now] /\ stored \in [Files -> 0..now]
    BY <2>1 DEF I!Init
  <2>4. now \in I!Times /\ failed \in 0..MaxFailures
    BY <2>1 DEF I!ImporterAssumption, I!Times
  <2>5. \A p \in Pulls : pull[p].since <= pull[p].newest
    BY <1>1, <1>2
  <2>6. cursor \in 0..now /\ {target, registered} \subseteq Folders \union {None} /\ passed \subseteq Files
      /\ overlooked \subseteq Files
    BY <2>1
  <2>q. QED BY <2>2, <2>3, <2>4, <2>5, <2>6 DEF I!TypeOK, PullStates
<1>4. CursorCovers /\ \A p \in Pulls : Covers(p) /\ Emptied(p)
  BY <1>1, <1>2 DEF I!Init, CursorCovers, Covers, Emptied
<1>q. QED BY <1>3, <1>4 DEF ImporterInv
-----------------------------------------------------------------------------
(* The folder. *)

LEMMA EditKept == ASSUME I!ImporterAssumption, ImporterInv, NEW f \in Files, I!Edit(f) PROVE ImporterInv'
<1>1. I!TypeOK'
  BY DEF ImporterInv, I!TypeOK, I!Edit, I!account, I!Times, I!ImporterAssumption
<1>2. \A g \in Files : g # f => at'[g] = at[g] /\ (Passed(g) => Passed(g)')
  BY DEF ImporterInv, I!TypeOK, I!Edit, Passed
<1>3. at'[f] = now + 1 /\ ~(at'[f] <= cursor) /\ \A p \in Pulls : ~(at'[f] <= pull[p].newest)
  BY ImporterTyped DEF ImporterInv, I!Edit
<1>4. \A d : \A g \in I!In(d)' : g \in Files /\ (g # f => g \in I!In(d))
  BY <1>2 DEF I!In
<1>5. CursorCovers'
  BY <1>2, <1>3, <1>4 DEF ImporterInv, CursorCovers, I!Edit, I!account
<1>6. \A p \in Pulls : Covers(p)' /\ Emptied(p)'
  <2>1. ASSUME NEW p \in Pulls, pull[p].step = "walking", f \in I!In(pull[p].root)',
               f \notin pull[p].left \union pull[p].todo
        PROVE  Passed(f)'
    BY <2>1 DEF I!Edit, I!Behind, I!In, Passed
  <2>2. \A p \in Pulls : ~(at'[f] <= pull[p].since)
    BY <1>3, ImporterTyped DEF ImporterInv, I!TypeOK, PullStates
  <2>q. QED BY <1>2, <1>3, <1>4, <2>1, <2>2 DEF ImporterInv, Covers, Emptied, I!Edit
<1>q. QED BY <1>1, <1>5, <1>6 DEF ImporterInv

LEMMA MoveInKept == ASSUME I!ImporterAssumption, ImporterInv, NEW f \in Files, I!MoveIn(f) PROVE ImporterInv'
<1>0. PICK t \in 1..now :
       /\ at' = [at EXCEPT ![f] = t]
       /\ passed' = IF t # stored[f] /\ (t <= cursor \/ \E p \in Pulls : t <= pull[p].newest)
                    THEN passed \union {f} ELSE passed
  BY DEF I!MoveIn
<1>1. I!TypeOK'
  BY <1>0, ImporterTyped DEF ImporterInv, I!TypeOK, I!MoveIn, I!account, I!Times
<1>2. \A g \in Files : g # f => at'[g] = at[g] /\ (Passed(g) => Passed(g)')
  BY <1>0 DEF ImporterInv, I!TypeOK, I!MoveIn, Passed
<1>3. /\ at'[f] <= cursor => Passed(f)'
      /\ \A p \in Pulls : at'[f] <= pull[p].newest => Passed(f)'
  BY <1>0, ImporterTyped DEF ImporterInv, I!MoveIn, Passed
<1>4. \A d : \A g \in I!In(d)' : g \in Files /\ (g # f => g \in I!In(d))
  BY <1>2 DEF I!In
<1>5. CursorCovers'
  BY <1>2, <1>3, <1>4 DEF ImporterInv, CursorCovers, I!MoveIn, I!account
<1>6. \A p \in Pulls : Covers(p)' /\ Emptied(p)'
  <2>1. ASSUME NEW p \in Pulls, pull[p].step = "walking", f \in I!In(pull[p].root)',
               f \notin pull[p].left \union pull[p].todo
        PROVE  Passed(f)'
    BY <2>1 DEF I!MoveIn, I!Behind, I!In, Passed
  <2>2. \A p \in Pulls : at'[f] <= pull[p].since => at'[f] <= pull[p].newest
    BY <1>0, ImporterTyped DEF ImporterInv, I!TypeOK, PullStates
  <2>q. QED BY <1>2, <1>3, <1>4, <2>1, <2>2 DEF ImporterInv, Covers, Emptied, I!MoveIn
<1>q. QED BY <1>1, <1>5, <1>6 DEF ImporterInv

LEMMA MoveOutKept == ASSUME I!ImporterAssumption, ImporterInv, NEW f \in Files, I!MoveOut(f) PROVE ImporterInv'
<1>1. I!TypeOK'
  BY ImporterTyped DEF ImporterInv, I!TypeOK, I!MoveOut, I!account, I!Times
<1>2. \A g \in Files : g # f => at'[g] = at[g] /\ (Passed(g) => Passed(g)')
  BY DEF ImporterInv, I!TypeOK, I!MoveOut, Passed
<1>4. \A d : \A g \in I!In(d)' : g \in Files /\ g # f /\ g \in I!In(d)
  BY <1>2, ImporterTyped DEF I!In, I!MoveOut, ImporterInv
<1>5. CursorCovers'
  BY <1>2, <1>4 DEF ImporterInv, CursorCovers, I!MoveOut, I!account
<1>6. \A p \in Pulls : Covers(p)' /\ Emptied(p)'
  BY <1>2, <1>4 DEF ImporterInv, Covers, Emptied, I!MoveOut
<1>q. QED BY <1>1, <1>5, <1>6 DEF ImporterInv
-----------------------------------------------------------------------------
(* The account. *)

LEMMA AccountKept == ASSUME I!ImporterAssumption, ImporterInv,
                            (\E d \in Folders : I!Connect(d)) \/ I!Disconnect \/ I!CatchUp
                     PROVE  ImporterInv'
<1>0. UNCHANGED <<I!disk, stored, pull, overlooked, failed>> /\ passed \subseteq passed'
  BY DEF I!Connect, I!Disconnect, I!CatchUp, I!ghosts
<1>1. I!TypeOK'
  BY <1>0, ImporterTyped DEF ImporterInv, I!TypeOK, I!Connect, I!Disconnect, I!CatchUp, I!disk, I!ghosts, I!Times, I!Missed, I!In
<1>2. \A f \in Files : Passed(f) => Passed(f)'
  BY <1>0 DEF Passed, I!disk
<1>3. \A p \in Pulls : Covers(p)' /\ Emptied(p)'
  BY <1>0, <1>2 DEF ImporterInv, Covers, Emptied, I!In, I!disk
<1>4. CursorCovers'
  <2>1. ASSUME NEW d \in Folders, I!Connect(d) PROVE CursorCovers'
    <3>1. CASE d = target
      BY <2>1, <3>1 DEF I!Connect, ImporterInv, CursorCovers, Passed, I!In, I!disk
    <3>2. CASE d # target
      BY <2>1, <3>2 DEF I!Connect, CursorCovers, Passed, I!In, I!Missed, I!disk
    <3>q. QED BY <3>1, <3>2
  <2>2. CASE I!Disconnect
    BY <2>2 DEF I!Disconnect, CursorCovers
  <2>3. CASE I!CatchUp
    BY <2>3 DEF I!CatchUp, I!ghosts, ImporterInv, CursorCovers, Passed, I!In, I!disk
  <2>q. QED BY <2>1, <2>2, <2>3
<1>q. QED BY <1>1, <1>3, <1>4 DEF ImporterInv
-----------------------------------------------------------------------------
(* A pull. *)

\* What a pull's step has to show when it changes neither the files nor the account.
LEMMA PullStep ==
  ASSUME I!ImporterAssumption, ImporterInv, NEW p \in Pulls, UNCHANGED <<I!disk, stored, I!account>>,
         passed \subseteq passed', passed' \subseteq Files,
         overlooked \subseteq overlooked', overlooked' \subseteq Files, failed' \in 0..MaxFailures,
         pull' \in [Pulls -> PullStates], \A q \in Pulls \ {p} : pull'[q] = pull[q],
         pull'[p].since <= pull'[p].newest, Covers(p)', Emptied(p)'
  PROVE  ImporterInv'
<1>1. I!TypeOK'
  BY DEF ImporterInv, I!TypeOK, I!disk, I!account, PullStates
<1>2. \A f \in Files : Passed(f) => Passed(f)'
  BY DEF Passed, I!disk
<1>3. CursorCovers'
  BY <1>2 DEF ImporterInv, CursorCovers, I!In, I!disk, I!account
<1>4. \A q \in Pulls \ {p} : Covers(q)' /\ Emptied(q)'
  BY <1>2 DEF ImporterInv, Covers, Emptied, I!In, I!disk
<1>q. QED BY <1>1, <1>3, <1>4 DEF ImporterInv

LEMMA PullBeginKept == ASSUME I!ImporterAssumption, ImporterInv, NEW p \in Pulls, I!Begin(p) PROVE ImporterInv'
<1> DEFINE r == [step |-> "begun", root |-> registered, since |-> 0, newest |-> 0,
              left |-> {}, seen |-> {}, todo |-> {}, batch |-> {}]
<1>1. pull' = [pull EXCEPT ![p] = r]
  BY DEF I!Begin, I!Fresh
<1>2. r \in PullStates
  BY ImporterTyped DEF PullStates, ImporterInv, I!TypeOK
<1>3. pull' \in [Pulls -> PullStates] /\ pull'[p] = r /\ \A q \in Pulls \ {p} : pull'[q] = pull[q]
  BY <1>1, <1>2, ImporterTyped DEF ImporterInv
<1>4. UNCHANGED <<I!disk, stored, I!account, I!ghosts, failed>> /\ registered # None
  BY DEF I!Begin
<1>5. Covers(p)' /\ Emptied(p)'
  BY <1>3, <1>4 DEF Covers, Emptied
<1>6. pull'[p].since <= pull'[p].newest /\ passed' \subseteq Files /\ overlooked' \subseteq Files /\ failed' \in 0..MaxFailures
  BY <1>3, <1>4 DEF ImporterInv, I!TypeOK, I!ghosts
<1>q. QED BY <1>3, <1>4, <1>5, <1>6, PullStep DEF I!ghosts

LEMMA PullFailKept == ASSUME I!ImporterAssumption, ImporterInv, NEW p \in Pulls, I!FailPull(p) PROVE ImporterInv'
<1>1. pull' = [pull EXCEPT ![p] = I!Away] /\ UNCHANGED <<I!disk, stored, I!account, I!ghosts>>
  BY DEF I!FailPull
<1>2. pull' \in [Pulls -> PullStates] /\ pull'[p] = I!Away /\ \A q \in Pulls \ {p} : pull'[q] = pull[q]
  BY <1>1, PullAway, ImporterTyped DEF ImporterInv
<1>3. Covers(p)' /\ Emptied(p)' /\ pull'[p].since <= pull'[p].newest
  BY <1>2, PullAway DEF Covers, Emptied, I!Away, I!Fresh
<1>4. passed' \subseteq Files /\ overlooked' \subseteq Files /\ failed' \in 0..MaxFailures
  BY DEF I!FailPull, I!Fault, ImporterInv, I!TypeOK, I!ImporterAssumption, I!ghosts
<1>q. QED BY <1>1, <1>2, <1>3, <1>4, PullStep DEF I!ghosts

LEMMA ReadCursorKept == ASSUME I!ImporterAssumption, ImporterInv, NEW p \in Pulls, I!ReadCursor(p) PROVE ImporterInv'
<1>1. /\ pull[p].step = "begun"
      /\ pull' = [pull EXCEPT ![p] = [@ EXCEPT !.step = "asking", !.since = cursor, !.newest = cursor]]
      /\ passed' = IF pull[p].root = target THEN passed ELSE passed \union I!Missed(pull[p].root, cursor)
      /\ UNCHANGED <<I!disk, stored, I!account, overlooked, failed>>
  BY DEF I!ReadCursor
<1>2. pull \in [Pulls -> PullStates] /\ cursor \in 0..now
  BY ImporterTyped DEF ImporterInv, I!TypeOK
<1>3. /\ pull' \in [Pulls -> PullStates] /\ \A q \in Pulls \ {p} : pull'[q] = pull[q]
      /\ pull'[p].since = cursor /\ pull'[p].newest = cursor /\ pull'[p].step = "asking"
      /\ pull'[p].root = pull[p].root /\ pull'[p].todo = pull[p].todo /\ pull'[p].batch = pull[p].batch
  BY <1>1, <1>2, ZenonT(30) DEF PullStates, I!disk
<1>4. Emptied(p)'
  BY <1>1, <1>3 DEF ImporterInv, Emptied
<1>5. Covers(p)'
  <2>1. CASE pull[p].root = target
    BY <1>1, <1>3, <2>1 DEF ImporterInv, Emptied, CursorCovers, Covers, Passed, I!In, I!disk
  <2>2. CASE pull[p].root # target
    BY <1>1, <1>3, <2>2 DEF Covers, Passed, I!In, I!Missed, I!disk
  <2>q. QED BY <2>1, <2>2
<1>6. passed \subseteq passed' /\ passed' \subseteq Files /\ overlooked' \subseteq Files /\ failed' \in 0..MaxFailures /\ pull'[p].since <= pull'[p].newest
  BY <1>1, <1>2, <1>3, ImporterTyped DEF ImporterInv, I!TypeOK, I!Missed, I!In
<1>q. QED BY <1>1, <1>3, <1>4, <1>5, <1>6, PullStep

LEMMA ScanKept == ASSUME I!ImporterAssumption, ImporterInv, NEW p \in Pulls, I!Scan(p) PROVE ImporterInv'
<1> DEFINE there == I!In(pull[p].root)
<1>1. /\ pull[p].step = "asking" /\ UNCHANGED <<I!disk, stored, I!account, I!ghosts, failed>>
      /\ pull' = [pull EXCEPT ![p].step = "walking", ![p].left = there]
  BY DEF I!Scan
<1>2. /\ pull \in [Pulls -> PullStates] /\ pull[p].since <= pull[p].newest /\ pull[p].since \in 0..now
      /\ pull[p].newest \in 0..now /\ now \in Nat /\ there \subseteq Files
  BY ImporterTyped DEF ImporterInv, I!TypeOK, I!In, PullStates
<1>3. /\ pull' \in [Pulls -> PullStates] /\ \A q \in Pulls \ {p} : pull'[q] = pull[q]
      /\ pull'[p].since = pull[p].since /\ pull'[p].newest = pull[p].newest /\ pull'[p].step = "walking"
      /\ pull'[p].root = pull[p].root /\ pull'[p].left = there /\ pull'[p].batch = pull[p].batch
  <2> HIDE DEF there
  <2>q. QED BY <1>1, <1>2, ZenonT(30) DEF PullStates, I!disk
<1>4. Emptied(p)'
  BY <1>1, <1>3 DEF ImporterInv, Emptied
<1>5. Covers(p)'
  <2>1. ASSUME NEW f \in I!In(pull[p].root), at[f] <= pull[p].since PROVE Passed(f)
    <3>1. at[f] <= pull[p].newest /\ f \notin pull[p].todo /\ pull[p].batch = {}
      BY <1>1, <1>2, <2>1, ImporterTyped DEF ImporterInv, Emptied, I!In
    <3>q. QED BY <1>1, <3>1 DEF ImporterInv, Covers
  <2>q. QED BY <1>1, <1>3, <2>1 DEF Covers, Passed, I!In, I!disk, I!ghosts
<1>6. passed' \subseteq Files /\ overlooked' \subseteq Files /\ failed' \in 0..MaxFailures /\ pull'[p].since <= pull'[p].newest
  BY <1>1, <1>2, <1>3 DEF ImporterInv, I!TypeOK, I!ghosts
<1>q. QED BY <1>1, <1>3, <1>4, <1>5, <1>6, PullStep DEF I!ghosts

LEMMA LookKept == ASSUME I!ImporterAssumption, ImporterInv, NEW p \in Pulls, I!Look(p) PROVE ImporterInv'
<1>1. pull[p].step = "walking" /\ UNCHANGED <<I!disk, stored, I!account, I!ghosts, failed>>
  BY DEF I!Look
<1>2. PICK f \in I!In(pull[p].root) \ (pull[p].seen \union Deep) :
        pull' = [pull EXCEPT ![p] =
          [pull[p] EXCEPT !.left = pull[p].left \ {f}, !.seen = pull[p].seen \union {f},
                          !.todo = IF at[f] > pull[p].since THEN pull[p].todo \union {f} ELSE pull[p].todo,
                          !.newest = IF at[f] > pull[p].newest THEN at[f] ELSE pull[p].newest]]
  BY DEF I!Look
<1> DEFINE new == at[f] > pull[p].since
           todo == IF new THEN pull[p].todo \union {f} ELSE pull[p].todo
           newest == IF at[f] > pull[p].newest THEN at[f] ELSE pull[p].newest
<1>3. /\ pull \in [Pulls -> PullStates] /\ pull[p].since <= pull[p].newest /\ pull[p].since \in 0..now
      /\ pull[p].newest \in 0..now /\ now \in Nat /\ f \in Files /\ at[f] \in 0..now
  BY <1>2, ImporterTyped DEF ImporterInv, I!TypeOK, I!In, PullStates
<1>4. todo \in SUBSET Files /\ newest \in 0..now /\ pull[p].since <= newest
  BY <1>3 DEF PullStates
<1>5. /\ pull' \in [Pulls -> PullStates] /\ \A q \in Pulls \ {p} : pull'[q] = pull[q]
      /\ pull'[p].since = pull[p].since /\ pull'[p].newest = newest /\ pull'[p].step = "walking"
      /\ pull'[p].root = pull[p].root /\ pull'[p].left = pull[p].left \ {f} /\ pull'[p].todo = todo
      /\ pull'[p].batch = pull[p].batch
  <2> DEFINE left == pull[p].left \ {f}
             seen == pull[p].seen \union {f}
  <2>1. pull' = [pull EXCEPT ![p] = [pull[p] EXCEPT !.left = left, !.seen = seen, !.todo = todo, !.newest = newest]]
    BY <1>2
  <2>2. left \in SUBSET Files /\ seen \in SUBSET Files /\ now' = now /\ pull[p] \in PullStates
    BY <1>1, <1>3 DEF PullStates, I!disk
  <2>3. [pull[p] EXCEPT !.left = left, !.seen = seen, !.todo = todo, !.newest = newest] \in PullStates
    <3> HIDE DEF todo, newest, left, seen
    <3>q. QED BY <1>3, <1>4, <2>2 DEF PullStates
  <2> DEFINE r == [pull[p] EXCEPT !.left = left, !.seen = seen, !.todo = todo, !.newest = newest]
  <2>4. r.since = pull[p].since /\ r.newest = newest /\ r.step = pull[p].step /\ r.root = pull[p].root
      /\ r.left = left /\ r.todo = todo /\ r.batch = pull[p].batch
    <3> HIDE DEF todo, newest, left, seen
    <3>q. QED BY <2>2 DEF PullStates
  <2>5. pull' = [pull EXCEPT ![p] = r] /\ r \in PullStates /\ PullStates' = PullStates
    BY <2>1, <2>2, <2>3 DEF PullStates
  <2> HIDE DEF r
  <2>6. pull' \in [Pulls -> PullStates] /\ pull'[p] = r /\ \A q \in Pulls \ {p} : pull'[q] = pull[q]
    BY <1>3, <2>5
  <2>q. QED BY <1>1, <2>4, <2>6
<1>6. Emptied(p)'
  BY <1>1, <1>5 DEF ImporterInv, Emptied
<1>7. Covers(p)'
  <2>1. ASSUME NEW g \in I!In(pull[p].root), at[g] <= pull[p].since \/ g \notin (pull[p].left \ {f}) \union todo
        PROVE  Passed(g)
    <3>1. CASE g = f
      <4>1. at[f] <= pull[p].since
        BY <1>3, <2>1, <3>1
      <4>q. QED BY <1>1, <3>1, <4>1 DEF ImporterInv, Covers
    <3>2. CASE g # f
      <4>1. at[g] <= pull[p].since \/ g \notin pull[p].left \union pull[p].todo
        BY <2>1, <3>2
      <4>q. QED BY <1>1, <4>1 DEF ImporterInv, Covers
    <3>q. QED BY <3>1, <3>2
  <2> HIDE DEF todo, newest
  <2>q. QED BY <1>1, <1>5, <2>1 DEF Covers, Passed, I!In, I!disk, I!ghosts
<1>8. passed' \subseteq Files /\ overlooked' \subseteq Files /\ failed' \in 0..MaxFailures
  BY <1>1 DEF ImporterInv, I!TypeOK, I!ghosts
<1>q. QED BY <1>1, <1>4, <1>5, <1>6, <1>7, <1>8, PullStep DEF I!ghosts

LEMMA CannotLookKept == ASSUME I!ImporterAssumption, ImporterInv, NEW p \in Pulls, I!CannotLook(p) PROVE ImporterInv'
<1>1. /\ pull[p].step = "walking" /\ UNCHANGED <<I!disk, stored, I!account, overlooked>>
      /\ failed' \in 0..MaxFailures
  BY DEF I!CannotLook, I!Fault, ImporterInv, I!TypeOK, I!ImporterAssumption
<1>2. PICK some \in SUBSET pull[p].left : pull' = [pull EXCEPT ![p].left = @ \ some] /\ passed' = passed \union some
  BY DEF I!CannotLook
<1>3. pull \in [Pulls -> PullStates] /\ pull[p].since <= pull[p].newest /\ some \subseteq Files
  BY ImporterTyped DEF ImporterInv, I!TypeOK, PullStates
<1>4. /\ pull' \in [Pulls -> PullStates] /\ \A q \in Pulls \ {p} : pull'[q] = pull[q]
      /\ pull'[p].since = pull[p].since /\ pull'[p].newest = pull[p].newest /\ pull'[p].step = "walking"
      /\ pull'[p].root = pull[p].root /\ pull'[p].left = pull[p].left \ some
      /\ pull'[p].todo = pull[p].todo /\ pull'[p].batch = pull[p].batch
  BY <1>1, <1>2, <1>3 DEF PullStates, I!disk
<1>5. Emptied(p)'
  BY <1>1, <1>4 DEF ImporterInv, Emptied
<1>6. Covers(p)'
  BY <1>1, <1>2, <1>4 DEF ImporterInv, Covers, Passed, I!In, I!disk
<1>7. passed' \subseteq Files /\ overlooked' \subseteq Files /\ pull'[p].since <= pull'[p].newest
  BY <1>1, <1>2, <1>3, <1>4 DEF ImporterInv, I!TypeOK
<1>q. QED BY <1>1, <1>2, <1>4, <1>5, <1>6, <1>7, PullStep

\* What the walk has not come to is overlooked, as far as the newest time it found goes.
LEMMA ScannedKept == ASSUME I!ImporterAssumption, ImporterInv, NEW p \in Pulls, I!Scanned(p) PROVE ImporterInv'
<1>1. /\ pull[p].step = "walking" /\ UNCHANGED <<I!disk, stored, I!account, passed, failed>>
      /\ pull' = [pull EXCEPT ![p] = [@ EXCEPT !.step = "reading", !.left = {}, !.seen = {}]]
      /\ overlooked' = overlooked \union (pull[p].left \intersect I!Missed(pull[p].root, pull[p].newest))
  BY DEF I!Scanned
<1>2. pull \in [Pulls -> PullStates] /\ pull[p].since <= pull[p].newest
  BY ImporterTyped DEF ImporterInv, I!TypeOK
<1>3. /\ pull' \in [Pulls -> PullStates] /\ \A q \in Pulls \ {p} : pull'[q] = pull[q]
      /\ pull'[p].since = pull[p].since /\ pull'[p].newest = pull[p].newest /\ pull'[p].step = "reading"
      /\ pull'[p].root = pull[p].root /\ pull'[p].todo = pull[p].todo /\ pull'[p].batch = pull[p].batch
  BY <1>1, <1>2, ZenonT(30) DEF PullStates, I!disk
<1>4. Emptied(p)'
  BY <1>1, <1>3 DEF ImporterInv, Emptied
<1>5. Covers(p)'
  <2>1. ASSUME NEW f \in I!In(pull[p].root), at[f] <= pull[p].newest, f \notin pull[p].todo PROVE Passed(f)'
    <3>1. CASE f \in pull[p].left
      BY <1>1, <2>1, <3>1 DEF Passed, I!Missed, I!disk
    <3>2. CASE f \notin pull[p].left
      BY <1>1, <2>1, <3>2 DEF ImporterInv, Covers, Passed, I!disk
    <3>q. QED BY <3>1, <3>2
  <2>q. QED BY <1>1, <1>3, <2>1 DEF Covers, I!In, I!disk
<1>6. passed' \subseteq Files /\ overlooked' \subseteq Files /\ failed' \in 0..MaxFailures /\ pull'[p].since <= pull'[p].newest
  BY <1>1, <1>2, <1>3 DEF ImporterInv, I!TypeOK, I!Missed, I!In
<1>q. QED BY <1>1, <1>3, <1>4, <1>5, <1>6, PullStep

LEMMA ReadKept == ASSUME I!ImporterAssumption, ImporterInv, NEW p \in Pulls, I!Read(p) PROVE ImporterInv'
<1>1. pull[p].step = "reading" /\ UNCHANGED <<I!disk, stored, I!account, I!ghosts, failed>>
  BY DEF I!Read
<1>2. PICK f \in pull[p].todo :
        pull' = [pull EXCEPT ![p] =
                   [@ EXCEPT !.todo = pull[p].todo \ {f},
                             !.batch = pull[p].batch \union
                                         (IF at[f] = 0 THEN {} ELSE {[file |-> f, body |-> at[f]]})]]
  BY DEF I!Read
<1>3. /\ pull \in [Pulls -> PullStates] /\ pull[p].since <= pull[p].newest /\ f \in Files /\ at[f] \in 0..now
  BY ImporterTyped DEF ImporterInv, I!TypeOK, PullStates
<1> DEFINE read == IF at[f] = 0 THEN {} ELSE {[file |-> f, body |-> at[f]]}
<1>4. read \subseteq [file : Files, body : 0..now]
  BY <1>3
<1>5. /\ pull' \in [Pulls -> PullStates] /\ \A q \in Pulls \ {p} : pull'[q] = pull[q]
      /\ pull'[p].since = pull[p].since /\ pull'[p].newest = pull[p].newest /\ pull'[p].step = "reading"
      /\ pull'[p].root = pull[p].root /\ pull'[p].todo = pull[p].todo \ {f}
      /\ pull'[p].batch = pull[p].batch \union read
  <2>1. pull' = [pull EXCEPT ![p] = [@ EXCEPT !.todo = pull[p].todo \ {f}, !.batch = pull[p].batch \union read]]
    BY <1>2
  <2>2. now' = now
    BY <1>1 DEF I!disk
  <2> HIDE DEF read
  <2>q. QED BY <1>1, <1>3, <1>4, <2>1, <2>2, ZenonT(30) DEF PullStates
<1>6. Emptied(p)'
  BY <1>1, <1>5 DEF ImporterInv, Emptied
<1>7. Covers(p)'
  <2>1. at[f] > 0 => [file |-> f, body |-> at[f]] \in read
    BY <1>3
  <2>2. \A g \in I!In(pull[p].root) :
          at[g] <= pull[p].newest => Passed(g) \/ g \in pull[p].todo \/ [file |-> g, body |-> at[g]] \in pull[p].batch
    BY <1>1 DEF ImporterInv, Covers
  <2>3. \A g \in I!In(pull[p].root) :
          at[g] <= pull[p].newest => Passed(g) \/ g \in pull'[p].todo \/ [file |-> g, body |-> at[g]] \in pull'[p].batch
    <3> HIDE DEF read
    <3>q. QED BY <1>5, <2>1, <2>2 DEF I!In
  <2>q. QED BY <1>1, <1>5, <2>3 DEF Covers, Passed, I!In, I!disk, I!ghosts
<1>8. passed' \subseteq Files /\ overlooked' \subseteq Files /\ failed' \in 0..MaxFailures /\ pull'[p].since <= pull'[p].newest
  BY <1>1, <1>3, <1>5 DEF ImporterInv, I!TypeOK, I!ghosts
<1>q. QED BY <1>1, <1>5, <1>6, <1>7, <1>8, PullStep DEF I!ghosts

LEMMA CannotReadKept == ASSUME I!ImporterAssumption, ImporterInv, NEW p \in Pulls, I!CannotRead(p) PROVE ImporterInv'
<1>1. pull[p].step = "reading" /\ UNCHANGED <<I!disk, stored, I!account, overlooked>> /\ failed' \in 0..MaxFailures
  BY DEF I!CannotRead, I!Fault, ImporterInv, I!TypeOK, I!ImporterAssumption
<1>2. PICK f \in pull[p].todo : pull' = [pull EXCEPT ![p].todo = @ \ {f}] /\ passed' = passed \union {f}
  BY DEF I!CannotRead
<1>3. /\ pull \in [Pulls -> PullStates] /\ pull[p].since <= pull[p].newest /\ f \in Files
  BY ImporterTyped DEF ImporterInv, I!TypeOK, PullStates
<1>4. /\ pull' \in [Pulls -> PullStates] /\ \A q \in Pulls \ {p} : pull'[q] = pull[q]
      /\ pull'[p].since = pull[p].since /\ pull'[p].newest = pull[p].newest /\ pull'[p].step = "reading"
      /\ pull'[p].root = pull[p].root /\ pull'[p].todo = pull[p].todo \ {f}
      /\ pull'[p].batch = pull[p].batch
  BY <1>1, <1>2, <1>3 DEF PullStates, I!disk
<1>5. Emptied(p)'
  BY <1>1, <1>4 DEF ImporterInv, Emptied
<1>6. Covers(p)'
  BY <1>1, <1>2, <1>4 DEF ImporterInv, Covers, Passed, I!In, I!disk
<1>7. passed \subseteq passed' /\ passed' \subseteq Files /\ overlooked' \subseteq Files /\ pull'[p].since <= pull'[p].newest
  BY <1>1, <1>2, <1>3, <1>4 DEF ImporterInv, I!TypeOK
<1>q. QED BY <1>1, <1>4, <1>5, <1>6, <1>7, PullStep

LEMMA BatchReadyKept == ASSUME I!ImporterAssumption, ImporterInv, NEW p \in Pulls, I!BatchReady(p) PROVE ImporterInv'
<1>1. /\ pull[p].step = "reading" /\ pull[p].todo = {} /\ UNCHANGED <<I!disk, stored, I!account, I!ghosts, failed>>
      /\ pull' = [pull EXCEPT ![p].step = "storing"]
  BY DEF I!BatchReady
<1>2. pull \in [Pulls -> PullStates] /\ pull[p].since <= pull[p].newest
  BY ImporterTyped DEF ImporterInv, I!TypeOK
<1>3. /\ pull' \in [Pulls -> PullStates] /\ \A q \in Pulls \ {p} : pull'[q] = pull[q]
      /\ pull'[p].since = pull[p].since /\ pull'[p].newest = pull[p].newest /\ pull'[p].step = "storing"
      /\ pull'[p].root = pull[p].root /\ pull'[p].todo = pull[p].todo
      /\ pull'[p].batch = pull[p].batch
  BY <1>1, <1>2, SMTT(30) DEF PullStates, I!disk
<1>4. Emptied(p)' /\ Covers(p)'
  BY <1>1, <1>3 DEF ImporterInv, Emptied, Covers, Passed, I!In, I!disk, I!ghosts
<1>5. passed' \subseteq Files /\ overlooked' \subseteq Files /\ pull'[p].since <= pull'[p].newest /\ failed' \in 0..MaxFailures
  BY <1>1, <1>2, <1>3 DEF ImporterInv, I!TypeOK, I!ghosts
<1>q. QED BY <1>1, <1>3, <1>4, <1>5, PullStep DEF I!ghosts

LEMMA CannotPersistKept == ASSUME I!ImporterAssumption, ImporterInv, NEW p \in Pulls, I!CannotPersist(p) PROVE ImporterInv'
<1>1. pull[p].step = "storing" /\ UNCHANGED <<I!disk, stored, I!account, overlooked>> /\ failed' \in 0..MaxFailures
  BY DEF I!CannotPersist, I!Fault, ImporterInv, I!TypeOK, I!ImporterAssumption
<1>2. PICK i \in pull[p].batch : pull' = [pull EXCEPT ![p].batch = @ \ {i}] /\ passed' = passed \union {i.file}
  BY DEF I!CannotPersist
<1>3. /\ pull \in [Pulls -> PullStates] /\ pull[p].since <= pull[p].newest /\ i.file \in Files
  BY ImporterTyped DEF ImporterInv, I!TypeOK, PullStates
<1>4. /\ pull' \in [Pulls -> PullStates] /\ \A q \in Pulls \ {p} : pull'[q] = pull[q]
      /\ pull'[p].since = pull[p].since /\ pull'[p].newest = pull[p].newest /\ pull'[p].step = "storing"
      /\ pull'[p].root = pull[p].root /\ pull'[p].todo = pull[p].todo
      /\ pull'[p].batch = pull[p].batch \ {i}
  BY <1>1, <1>2, <1>3 DEF PullStates, I!disk
<1>5. Emptied(p)'
  BY <1>1, <1>4 DEF ImporterInv, Emptied
<1>6. Covers(p)'
  <2>1. \A g \in Files : g # i.file => [file |-> g, body |-> at[g]] # i
    OBVIOUS
  <2>q. QED BY <1>1, <1>2, <1>4, <2>1 DEF ImporterInv, Covers, Passed, I!In, I!disk
<1>7. passed \subseteq passed' /\ passed' \subseteq Files /\ overlooked' \subseteq Files /\ pull'[p].since <= pull'[p].newest
  BY <1>1, <1>2, <1>3, <1>4 DEF ImporterInv, I!TypeOK
<1>q. QED BY <1>1, <1>4, <1>5, <1>6, <1>7, PullStep

LEMMA PersistKept == ASSUME I!ImporterAssumption, ImporterInv, NEW p \in Pulls, I!Persist(p) PROVE ImporterInv'
<1>1. pull[p].step = "storing" /\ UNCHANGED <<I!disk, I!account, failed>>
  BY DEF I!Persist
<1>2. PICK i \in pull[p].batch :
        /\ pull' = [pull EXCEPT ![p].batch = @ \ {i}]
        /\ stored' = [stored EXCEPT ![i.file] = i.body]
        /\ IF i.body = at[i.file]
           THEN passed' = passed \ {i.file} /\ overlooked' = overlooked \ {i.file}
           ELSE /\ passed' = IF stored[i.file] = at[i.file] THEN passed \union {i.file} ELSE passed
                /\ UNCHANGED overlooked
  BY DEF I!Persist
<1>3. /\ pull \in [Pulls -> PullStates] /\ pull[p].since <= pull[p].newest
      /\ i \in [file : Files, body : 0..now] /\ i.file \in Files /\ i.body \in 0..now
      /\ stored \in [Files -> 0..now]
  BY ImporterTyped DEF ImporterInv, I!TypeOK, PullStates
<1>4. /\ pull' \in [Pulls -> PullStates] /\ \A q \in Pulls \ {p} : pull'[q] = pull[q]
      /\ pull'[p].since = pull[p].since /\ pull'[p].newest = pull[p].newest /\ pull'[p].step = "storing"
      /\ pull'[p].root = pull[p].root /\ pull'[p].todo = pull[p].todo
      /\ pull'[p].batch = pull[p].batch \ {i}
  BY <1>1, <1>2, <1>3 DEF PullStates, I!disk
<1>5. stored' \in [Files -> 0..now] /\ passed' \subseteq Files /\ overlooked' \subseteq Files
  BY <1>2, <1>3 DEF ImporterInv, I!TypeOK
<1>6. \A g \in Files : Passed(g) => Passed(g)'
  BY <1>1, <1>2, <1>3 DEF Passed, I!disk
<1>7. \A g \in Files : [file |-> g, body |-> at[g]] = i => Passed(g)'
  BY <1>1, <1>2, <1>3 DEF Passed, I!disk
<1>8. I!TypeOK'
  BY <1>1, <1>3, <1>4, <1>5 DEF ImporterInv, I!TypeOK, I!disk, I!account, PullStates
<1>9. CursorCovers'
  BY <1>1, <1>6 DEF ImporterInv, CursorCovers, I!In, I!disk, I!account
<1>10. \A q \in Pulls : Emptied(q)'
  BY <1>1, <1>4 DEF ImporterInv, Emptied
<1>11. \A q \in Pulls \ {p} : Covers(q)'
  BY <1>1, <1>4, <1>6 DEF ImporterInv, Covers, I!In, I!disk
<1>12. Covers(p)'
  BY <1>1, <1>4, <1>6, <1>7 DEF ImporterInv, Covers, I!In, I!disk
<1>q. QED BY <1>8, <1>9, <1>10, <1>11, <1>12 DEF ImporterInv

LEMMA SetCursorKept == ASSUME I!ImporterAssumption, ImporterInv, NEW p \in Pulls, I!SetCursor(p) PROVE ImporterInv'
<1>1. /\ pull[p].step = "storing" /\ pull[p].batch = {} /\ pull' = [pull EXCEPT ![p] = I!Away]
      /\ UNCHANGED <<I!disk, stored, target, registered, overlooked, failed>>
  BY DEF I!SetCursor
<1>2. /\ pull' \in [Pulls -> PullStates] /\ pull'[p] = I!Away /\ \A q \in Pulls \ {p} : pull'[q] = pull[q]
      /\ pull[p].newest \in 0..now
  BY <1>1, PullAway, ImporterTyped DEF ImporterInv, I!disk
<1>3. /\ passed \subseteq passed' /\ passed' \subseteq Files /\ cursor' \in 0..now
  BY <1>2 DEF I!SetCursor, ImporterInv, I!TypeOK, I!Missed, I!In
<1>4. I!TypeOK'
  BY <1>1, <1>2, <1>3, PullAway, ImporterTyped DEF ImporterInv, I!TypeOK, I!disk, PullStates
<1>5. \A f \in Files : Passed(f) => Passed(f)'
  BY <1>1, <1>3 DEF Passed, I!disk
<1>6. Covers(p)' /\ Emptied(p)'
  <2>1. pull'[p].step = "away"
    BY <1>2 DEF I!Away, I!Fresh
  <2>q. QED BY <2>1 DEF Covers, Emptied
<1>7. \A q \in Pulls \ {p} : Covers(q)' /\ Emptied(q)'
  BY <1>1, <1>2, <1>5 DEF ImporterInv, Covers, Emptied, I!In, I!disk
<1>8. CursorCovers'
  <2>1. CASE target = None
    BY <1>1, <2>1 DEF CursorCovers
  <2>2. CASE target # None /\ pull[p].root = target
    <3>1. cursor' = pull[p].newest /\ pull[p].todo = {}
      BY <1>1, <2>2 DEF I!SetCursor, ImporterInv, Emptied
    <3>q. QED BY <1>1, <1>5, <2>2, <3>1 DEF ImporterInv, Covers, CursorCovers, I!In, I!disk
  <2>3. CASE target # None /\ pull[p].root # target
    BY <1>1, <2>3 DEF I!SetCursor, CursorCovers, Passed, I!Missed, I!In, I!disk
  <2>q. QED BY <2>1, <2>2, <2>3
<1>q. QED BY <1>4, <1>6, <1>7, <1>8 DEF ImporterInv

LEMMA PullCrashKept == ASSUME I!ImporterAssumption, ImporterInv, I!Crash PROVE ImporterInv'
<1>1. /\ pull' = [p \in Pulls |-> I!Away] /\ registered' = None
      /\ UNCHANGED <<I!disk, stored, target, cursor, passed, overlooked>> /\ failed' \in 0..MaxFailures
  BY DEF I!Crash, I!ghosts, I!Fault, ImporterInv, I!TypeOK, I!ImporterAssumption
<1>2. I!Away.step = "away" /\ I!Away.since <= I!Away.newest
  BY DEF I!Away, I!Fresh
<1>3. pull' \in [Pulls -> PullStates]
  BY <1>1, PullAway, ImporterTyped DEF ImporterInv
<1>4. \A p \in Pulls : pull'[p].step = "away" /\ pull'[p].since <= pull'[p].newest
  BY <1>1, <1>2
<1>5. I!TypeOK'
  BY <1>1, <1>3, <1>4 DEF ImporterInv, I!TypeOK, I!disk, PullStates
<1>6. CursorCovers' /\ \A p \in Pulls : Covers(p)' /\ Emptied(p)'
  BY <1>1, <1>4 DEF ImporterInv, CursorCovers, Covers, Emptied, Passed, I!In, I!disk
<1>q. QED BY <1>5, <1>6 DEF ImporterInv

LEMMA ImporterNext == ASSUME I!ImporterAssumption, ImporterInv, [I!Next]_(I!vars) PROVE ImporterInv'
<1>1. CASE UNCHANGED I!vars
  BY <1>1 DEF ImporterInv, I!TypeOK, CursorCovers, Covers, Emptied, Passed, I!In, I!vars, I!account, I!disk, I!ghosts
<1>2. CASE I!Next
  BY <1>2, EditKept, MoveInKept, MoveOutKept, AccountKept, PullBeginKept, ReadCursorKept, ScanKept, LookKept,
     CannotLookKept, ScannedKept, ReadKept, CannotReadKept, BatchReadyKept, PersistKept, CannotPersistKept, SetCursorKept, PullFailKept, PullCrashKept DEF I!Next
<1>q. QED BY <1>1, <1>2

-----------------------------------------------------------------------------
(* Merging. *)
\* No step of any workspace disturbs the two properties of a merge.
MergingInv == M!TypeOK /\ M!AttendanceIsKept /\ M!LooseEdgesWereMatched

LEMMA MergingInit == ASSUME M!Init PROVE MergingInv
<1>1. M!TypeOK
  BY DEF M!Init, M!TypeOK
<1>q. QED BY <1>1 DEF M!Init, MergingInv, M!AttendanceIsKept, M!LooseEdgesWereMatched

\* An edit ends what a merge left to be said; it must keep who attended and who is mentioned.
LEMMA RowsKept ==
  ASSUME MergingInv, M!TypeOK', merged' = {}, matched' = matched,
         \A w \in Workspaces : /\ \A a \in attends'[w] : mail'[w][a[2]] # Absent
                               /\ \A e \in mentions'[w] : mail'[w][e[2]] # Absent \/ e[2] \in matched
  PROVE  MergingInv'
BY DEF MergingInv, M!AttendanceIsKept, M!LooseEdgesWereMatched, M!Here

LEMMA PairTyped == ASSUME M!TypeOK, NEW w \in Workspaces, NEW a \in attends[w] \union mentions[w]
                   PROVE  a \in Talks \X People /\ a[2] \in People /\ a[1] \in Talks /\ a = <<a[1], a[2]>>
BY DEF M!TypeOK

LEMMA CreatePersonKept == ASSUME M!MergingAssumption, MergingInv, NEW w \in Workspaces, NEW p \in People,
                                 NEW a \in Addresses \cup {NoMail}, M!CreatePerson(w, p, a)
                          PROVE  MergingInv'
<1>0. M!TypeOK /\ M!LooseEdgesWereMatched
  BY DEF MergingInv
<1>1. mail' = [mail EXCEPT ![w][p] = a] /\ UNCHANGED <<meetings, attends, mentions, templates, summaries>>
      /\ made' = made \cup {p} /\ merged' = {} /\ matched' = matched
  BY DEF M!CreatePerson, M!Make, M!Edited
<1>2. M!TypeOK'
  BY <1>0, <1>1 DEF M!TypeOK, M!Ids
<1>3. a # Absent
  BY DEF M!MergingAssumption
<1>4. ASSUME NEW u \in Workspaces, NEW q \in People, mail[u][q] # Absent PROVE mail'[u][q] # Absent
  BY <1>0, <1>1, <1>3, <1>4 DEF M!TypeOK
<1>5. \A u \in Workspaces : /\ \A b \in attends'[u] : mail'[u][b[2]] # Absent
                            /\ \A e \in mentions'[u] : mail'[u][e[2]] # Absent \/ e[2] \in matched
  BY <1>0, <1>1, <1>4, PairTyped DEF M!LooseEdgesWereMatched, M!Here
<1>q. QED BY <1>1, <1>2, <1>5, RowsKept

LEMMA DeletePersonKept == ASSUME MergingInv, NEW w \in Workspaces, NEW p \in People, M!DeletePerson(w, p) PROVE MergingInv'
<1>0. M!TypeOK /\ M!LooseEdgesWereMatched
  BY DEF MergingInv
<1>1. /\ mail' = [mail EXCEPT ![w][p] = Absent] /\ merged' = {} /\ matched' = matched
      /\ attends' = [attends EXCEPT ![w] = {a \in @ : a[2] # p}]
      /\ mentions' = [mentions EXCEPT ![w] = {e \in @ : e[2] # p}]
      /\ UNCHANGED <<meetings, templates, summaries, made>>
  BY DEF M!DeletePerson, M!Edited
<1>2. M!TypeOK'
  BY <1>0, <1>1 DEF M!TypeOK
<1>3. ASSUME NEW u \in Workspaces
      PROVE  /\ attends'[u] \subseteq attends[u] /\ mentions'[u] \subseteq mentions[u]
             /\ \A a \in attends'[u] \union mentions'[u] : mail'[u][a[2]] = mail[u][a[2]]
  <2>1. CASE u = w
    <3>1. attends'[u] = {a \in attends[u] : a[2] # p} /\ mentions'[u] = {e \in mentions[u] : e[2] # p}
      BY <1>0, <1>1, <2>1 DEF M!TypeOK
    <3>2. \A q \in People \ {p} : mail'[u][q] = mail[u][q]
      BY <1>0, <1>1, <2>1 DEF M!TypeOK
    <3>q. QED BY <1>0, <3>1, <3>2, PairTyped
  <2>2. CASE u # w
    BY <1>0, <1>1, <2>2 DEF M!TypeOK
  <2>q. QED BY <2>1, <2>2
<1>4. \A u \in Workspaces : /\ \A a \in attends'[u] : mail'[u][a[2]] # Absent
                            /\ \A e \in mentions'[u] : mail'[u][e[2]] # Absent \/ e[2] \in matched
  BY <1>0, <1>3 DEF M!LooseEdgesWereMatched, M!Here
<1>q. QED BY <1>1, <1>2, <1>4, RowsKept

LEMMA AddParticipantKept == ASSUME MergingInv, NEW w \in Workspaces, NEW m \in Talks, NEW p \in People,
                                   M!AddParticipant(w, m, p)
                            PROVE  MergingInv'
<1>0. M!TypeOK /\ M!LooseEdgesWereMatched
  BY DEF MergingInv
<1>1. /\ attends' = [attends EXCEPT ![w] = @ \cup {<<m, p>>}] /\ mentions' = [mentions EXCEPT ![w] = @ \cup {<<m, p>>}]
      /\ merged' = {} /\ matched' = matched /\ mail[w][p] # Absent
      /\ UNCHANGED <<mail, meetings, templates, summaries, made>>
  BY DEF M!AddParticipant, M!Edited, M!Here
<1>2. M!TypeOK'
  BY <1>0, <1>1 DEF M!TypeOK
<1>3. ASSUME NEW u \in Workspaces
      PROVE  /\ \A a \in attends'[u] : a \in attends[u] \/ (u = w /\ a = <<m, p>>)
             /\ \A a \in mentions'[u] : a \in mentions[u] \/ (u = w /\ a = <<m, p>>)
  BY <1>0, <1>1 DEF M!TypeOK
<1>4. \A u \in Workspaces : /\ \A a \in attends'[u] : mail'[u][a[2]] # Absent
                            /\ \A e \in mentions'[u] : mail'[u][e[2]] # Absent \/ e[2] \in matched
  BY <1>0, <1>1, <1>3 DEF M!LooseEdgesWereMatched, M!Here
<1>q. QED BY <1>1, <1>2, <1>4, RowsKept

LEMMA OtherEditsKept ==
  ASSUME MergingInv, NEW w \in Workspaces,
         \/ \E m \in Talks : M!CreateMeeting(w, m)
         \/ \E t \in Templates : M!CreateTemplate(w, t) \/ M!DeleteTemplate(w, t) \/ \E m \in Talks : M!Summarize(w, m, t)
  PROVE  MergingInv'
<1>0. M!TypeOK /\ M!LooseEdgesWereMatched
  BY DEF MergingInv
<1>1. merged' = {} /\ UNCHANGED <<mail, attends, mentions, matched>>
  BY DEF M!CreateMeeting, M!CreateTemplate, M!DeleteTemplate, M!Summarize, M!Edited
<1>2. M!TypeOK'
  <2>1. ASSUME NEW m \in Talks, M!CreateMeeting(w, m) PROVE M!TypeOK'
    BY <1>0, <1>1, <2>1 DEF M!TypeOK, M!Ids, M!CreateMeeting, M!Make
  <2>2. ASSUME NEW t \in Templates, M!CreateTemplate(w, t) PROVE M!TypeOK'
    BY <1>0, <1>1, <2>2 DEF M!TypeOK, M!Ids, M!CreateTemplate, M!Make
  <2>3. ASSUME NEW t \in Templates, M!DeleteTemplate(w, t) PROVE M!TypeOK'
    BY <1>0, <1>1, <2>3 DEF M!TypeOK, M!DeleteTemplate
  <2>4. ASSUME NEW t \in Templates, NEW m \in Talks, M!Summarize(w, m, t) PROVE M!TypeOK'
    BY <1>0, <1>1, <2>4 DEF M!TypeOK, M!Summarize
  <2>q. QED BY <2>1, <2>2, <2>3, <2>4
<1>3. \A u \in Workspaces : /\ \A a \in attends'[u] : mail'[u][a[2]] # Absent
                            /\ \A e \in mentions'[u] : mail'[u][e[2]] # Absent \/ e[2] \in matched
  BY <1>0, <1>1 DEF M!LooseEdgesWereMatched, M!Here
<1>q. QED BY <1>1, <1>2, <1>3, RowsKept

\* Who is taken for another is taken for someone with the same address.
LEMMA KeptSo == ASSUME NEW w \in Workspaces, NEW v \in Workspaces, NEW i \in People
                PROVE  /\ M!Kept(w, v, i) \in People
                       /\ i \in M!Matched(w, v) => /\ mail[v][i] \in Addresses
                                                   /\ mail[w][M!Kept(w, v, i)] = mail[v][i]
                       /\ i \notin M!Matched(w, v) => M!Kept(w, v, i) = i
<1>1. CASE i \in M!Matched(w, v)
  <2>1. \E p \in People : M!Matches(w, v, i, p)
    BY <1>1 DEF M!Matched
  <2>2. M!Kept(w, v, i) = CHOOSE p \in People : M!Matches(w, v, i, p)
    BY <1>1 DEF M!Kept
  <2>3. M!Kept(w, v, i) \in People /\ M!Matches(w, v, i, M!Kept(w, v, i))
    BY <2>1, <2>2
  <2>q. QED BY <1>1, <2>3 DEF M!Matches
<1>2. CASE i \notin M!Matched(w, v)
  BY <1>2 DEF M!Kept
<1>q. QED BY <1>1, <1>2

LEMMA MergeKept == ASSUME M!MergingAssumption, MergingInv, NEW w \in Workspaces, NEW v \in Workspaces, M!Merge(w, v) PROVE MergingInv'
<1>0. M!TypeOK /\ M!LooseEdgesWereMatched
  BY DEF MergingInv
<1>1. /\ w # v
      /\ mail' = [mail EXCEPT ![w] = M!MergedPeople(w, v)]
      /\ attends' = [attends EXCEPT ![w] = M!MergedAttends(w, v)]
      /\ mentions' = [mentions EXCEPT ![w] = M!MergedMentions(w, v)]
      /\ matched' = matched \cup M!Matched(w, v) /\ merged' = {<<w, v>>}
  BY DEF M!Merge
<1>2. M!MergedPeople(w, v) \in [People -> Addresses \cup {NoMail, Absent}]
  BY <1>0 DEF M!MergedPeople, M!TypeOK
<1>3. M!MergedAttends(w, v) \subseteq Talks \X People
  BY <1>0, PairTyped, KeptSo DEF M!MergedAttends, M!TypeOK
<1>4. M!MergedMentions(w, v) \subseteq Talks \X People
  BY <1>0 DEF M!MergedMentions, M!TypeOK
<1>5. /\ mail'[w] = M!MergedPeople(w, v) /\ attends'[w] = M!MergedAttends(w, v) /\ mentions'[w] = M!MergedMentions(w, v)
      /\ \A u \in Workspaces \ {w} : mail'[u] = mail[u] /\ attends'[u] = attends[u] /\ mentions'[u] = mentions[u]
  BY <1>0, <1>1 DEF M!TypeOK
<1>6. M!TypeOK'
  <2>1. meetings' \in [Workspaces -> SUBSET Talks] /\ summaries' \in [Workspaces -> SUBSET (Talks \X Templates)]
        /\ UNCHANGED <<templates, made>>
    BY <1>0 DEF M!Merge, M!TypeOK
  <2>2. matched' \subseteq People /\ merged' \subseteq Workspaces \X Workspaces
    BY <1>0, <1>1 DEF M!TypeOK, M!Matched
  <2>3. mail' \in [Workspaces -> [People -> Addresses \cup {NoMail, Absent}]]
    BY <1>0, <1>1, <1>2 DEF M!TypeOK
  <2>4. attends' \in [Workspaces -> SUBSET (Talks \X People)] /\ mentions' \in [Workspaces -> SUBSET (Talks \X People)]
    BY <1>0, <1>1, <1>3, <1>4 DEF M!TypeOK
  <2>q. QED BY <1>0, <2>1, <2>2, <2>3, <2>4 DEF M!TypeOK
\* Who was here stays as they were, and who is brought comes as they are there.
<1>7. ASSUME NEW p \in People
      PROVE  /\ mail[w][p] # Absent => mail'[w][p] = mail[w][p]
             /\ mail[w][p] = Absent /\ p \notin M!Matched(w, v) => mail'[w][p] = mail[v][p]
  BY <1>5 DEF M!MergedPeople, M!Here
<1>8. \A a \in attends[v] : a[2] \in People /\ mail[v][a[2]] # Absent
  BY <1>0, PairTyped DEF M!LooseEdgesWereMatched, M!Here
<1>9. ASSUME NEW i \in People, mail[v][i] # Absent, NEW k \in People, k = M!Kept(w, v, i)
      PROVE  mail'[w][k] # Absent /\ M!Same(w, k, v, i)'
  <2>1. CASE i \in M!Matched(w, v)
    <3>1. mail[v][i] \in Addresses /\ mail[w][k] = mail[v][i]
      BY <1>9, <2>1, KeptSo
    <3>2. mail[w][k] # Absent
      BY <1>9, <3>1
    <3>3. mail'[w][k] = mail[v][i] /\ mail'[v] = mail[v]
      BY <1>1, <1>5, <1>7, <3>1, <3>2
    <3>q. QED BY <3>1, <3>2, <3>3 DEF M!Same
  <2>2. CASE i \notin M!Matched(w, v)
    <3>1. k = i
      BY <1>9, <2>2, KeptSo
    <3>q. QED BY <1>7, <1>9, <2>2, <3>1 DEF M!Same
  <2>q. QED BY <2>1, <2>2
<1>10. M!AttendanceIsKept'
  <2> SUFFICES ASSUME NEW a \in attends[v]
               PROVE  \E b \in attends'[w] : a[1] = b[1] /\ M!Same(w, b[2], v, a[2])'
    BY <1>1, <1>5 DEF M!AttendanceIsKept
  <2> DEFINE k == M!Kept(w, v, a[2])
  <2>1. <<a[1], k>> \in attends'[w]
    BY <1>5 DEF M!MergedAttends
  <2>2. PICK p \in People : p = k
    BY <1>8, KeptSo
  <2>3. M!Same(w, p, v, a[2])'
    BY <1>8, <1>9, <2>2
  <2>q. QED BY <2>1, <2>2, <2>3
<1>11. M!LooseEdgesWereMatched'
  <2>1. ASSUME NEW u \in Workspaces, u # w
        PROVE  /\ \A a \in attends'[u] : mail'[u][a[2]] # Absent
               /\ \A e \in mentions'[u] : mail'[u][e[2]] # Absent \/ e[2] \in matched'
    BY <1>0, <1>1, <1>5, <2>1 DEF M!LooseEdgesWereMatched, M!Here
  <2>2. ASSUME NEW a \in attends'[w] PROVE mail'[w][a[2]] # Absent
    <3>1. CASE a \in attends[w]
      BY <1>0, <1>7, <3>1, PairTyped DEF M!LooseEdgesWereMatched, M!Here
    <3>2. ASSUME NEW b \in attends[v], a = <<b[1], M!Kept(w, v, b[2])>> PROVE mail'[w][a[2]] # Absent
      BY <1>8, <1>9, <3>2, KeptSo
    <3>q. QED BY <1>5, <2>2, <3>1, <3>2 DEF M!MergedAttends
  <2>3. ASSUME NEW e \in mentions'[w] PROVE mail'[w][e[2]] # Absent \/ e[2] \in matched'
    <3>1. e \in mentions[w] \union mentions[v] /\ e[2] \in People
      BY <1>0, <1>5, PairTyped DEF M!MergedMentions
    <3>2. CASE e \in mentions[w]
      BY <1>0, <1>1, <1>7, <3>1, <3>2 DEF M!LooseEdgesWereMatched, M!Here
    <3>3. CASE e \in mentions[v]
      <4>1. mail[v][e[2]] # Absent \/ e[2] \in matched
        BY <1>0, <3>3 DEF M!LooseEdgesWereMatched, M!Here
      <4>q. QED BY <1>1, <1>7, <3>1, <4>1
    <3>q. QED BY <3>1, <3>2, <3>3
  <2>q. QED BY <2>1, <2>2, <2>3 DEF M!LooseEdgesWereMatched, M!Here
<1>q. QED BY <1>6, <1>10, <1>11 DEF MergingInv

LEMMA MergingNext == ASSUME M!MergingAssumption, MergingInv, [M!Next]_(M!vars) PROVE MergingInv'
<1>1. CASE UNCHANGED M!vars
  BY <1>1 DEF MergingInv, M!TypeOK, M!AttendanceIsKept, M!LooseEdgesWereMatched, M!Same, M!Here, M!vars, M!store
<1>2. ASSUME NEW w \in Workspaces, NEW p \in People,
             M!DeletePerson(w, p) \/ \E a \in Addresses \cup {NoMail} : M!CreatePerson(w, p, a)
      PROVE  MergingInv'
  BY <1>2, DeletePersonKept, CreatePersonKept
<1>3. ASSUME NEW w \in Workspaces, NEW m \in Talks, NEW p \in People, M!AddParticipant(w, m, p) PROVE MergingInv'
  BY <1>3, AddParticipantKept
<1>4. ASSUME NEW w \in Workspaces, NEW m \in Talks, M!CreateMeeting(w, m) PROVE MergingInv'
  BY <1>4, OtherEditsKept
<1>5. ASSUME NEW w \in Workspaces, NEW t \in Templates,
             M!CreateTemplate(w, t) \/ M!DeleteTemplate(w, t) \/ \E m \in Talks : M!Summarize(w, m, t)
      PROVE  MergingInv'
  BY <1>5, OtherEditsKept
<1>6. ASSUME NEW w \in Workspaces, NEW v \in Workspaces, M!Merge(w, v) PROVE MergingInv'
  BY <1>6, MergeKept
<1>q. QED BY <1>1, <1>2, <1>3, <1>4, <1>5, <1>6 DEF M!Next

-----------------------------------------------------------------------------
(* Pacing. What is held is in order and a tick apart at least, and each of *)
(* it is near the time it will be stamped with.                            *)
\* What is still to be handed out, in order.
Held == waiting \o flight

\* How late and how early a sample may be stamped, and how far the clock may be behind a reader
\* that has caught up.
Late  == P!Larger(0, Delay - Allowance - 1)
Early == Stall - 1 + P!Larger(Allowance + Frame, Lead)
Near  == P!Larger(Allowance + Frame - 1, Lead)

\* Captured before now and in order, a tick apart at least.
InOrder ==
  /\ \A i \in 1..Len(Held) : Held[i] < elapsed
  /\ \A i, j \in 1..Len(Held) : i < j => Held[j] - Held[i] >= j - i

\* Where each will be handed out if all of it is audio.
OnTime ==
  \A i \in 1..Len(Held) : (emitted + i - 1) - Held[i] <= Late /\ Held[i] - (emitted + i - 1) <= Early

ClockIsNear ==
  /\ emitted <= elapsed + Late
  /\ (elapsed - behind) - emitted <= Near

PacingInv == P!TypeOK /\ InOrder /\ OnTime /\ ClockIsNear /\ P!StampedNearItsTime

\* What every leaf needs to know of the numbers.
PacingNumbers ==
  /\ Frame \in Nat /\ Frame > 0 /\ Allowance \in Nat /\ Delay \in Nat /\ Stall \in Nat /\ Stall > 0
  /\ Late \in Nat /\ Late >= Delay - Allowance - 1
  /\ Near \in Nat /\ Near >= Allowance + Frame - 1 /\ Near >= Lead
  /\ Early \in Nat /\ Early >= Stall - 1 + Near

Counts ==
  /\ Held \in Seq(P!Ticks) /\ Len(Held) = Len(waiting) + Len(flight) /\ Len(Held) \in Nat
  /\ \A i \in 1..Len(Held) : Held[i] \in Nat
  /\ elapsed \in Nat /\ emitted \in Nat /\ behind \in Nat

LEMMA TicksAreNumbers == ASSUME P!PacingAssumption PROVE 0 \in P!Ticks /\ P!Ticks \subseteq Nat /\ \A t \in 0..Lead : t \in P!Ticks
  BY DEF P!PacingAssumption, P!Ticks

LEMMA Bounds == ASSUME P!PacingAssumption PROVE PacingNumbers
<1>1. Frame \in Nat /\ Frame > 0 /\ Allowance \in Nat /\ Delay \in Nat /\ Stall \in Nat /\ Stall > 0 /\ Lead \in Nat
  BY DEF P!PacingAssumption
<1>q. QED BY <1>1 DEF Late, Early, Near, P!Larger, PacingNumbers

LEMMA HeldTyped == ASSUME P!PacingAssumption, P!TypeOK PROVE Counts
<1>1. waiting \in Seq(P!Ticks) /\ flight \in Seq(P!Ticks) /\ elapsed \in Nat /\ emitted \in Nat /\ behind \in Nat
  BY TicksAreNumbers DEF P!TypeOK
<1>2. Held \in Seq(P!Ticks) /\ Len(Held) = Len(waiting) + Len(flight) /\ Len(Held) \in Nat
  BY <1>1 DEF Held
<1>3. \A i \in 1..Len(Held) : Held[i] \in Nat
  BY <1>2, TicksAreNumbers
<1>q. QED BY <1>1, <1>2, <1>3 DEF Counts

\* The property, in the bounds' names.
LEMMA Stamped ==
  ASSUME P!PacingAssumption, NEW o \in [at : Nat, samples : Seq(P!Ticks)],
         \A i \in 1..Len(o.samples) : /\ (o.at + i - 1) - o.samples[i] <= Late
                                      /\ o.samples[i] - (o.at + i - 1) <= Early
  PROVE  \A i \in DOMAIN o.samples :
           (o.at + i - 1) - o.samples[i] \in
             1 - (Stall + P!Larger(Allowance + Frame, Lead)) .. P!Larger(0, Delay - Allowance - 1)
<1>1. DOMAIN o.samples = 1..Len(o.samples) /\ \A i \in 1..Len(o.samples) : o.samples[i] \in Nat
  BY TicksAreNumbers
<1>2. o.at \in Nat
  OBVIOUS
<1>3. P!Larger(0, Delay - Allowance - 1) = Late
  BY DEF Late
<1>4. 1 - (Stall + P!Larger(Allowance + Frame, Lead)) = 0 - Early
  <2>1. Stall \in Nat /\ Allowance \in Nat /\ Frame \in Nat /\ Lead \in Nat
    BY DEF P!PacingAssumption
  <2>q. QED BY <2>1 DEF Early, P!Larger
<1>5. Late \in Nat /\ Early \in Nat
  BY Bounds DEF PacingNumbers
<1>6. ASSUME NEW i \in 1..Len(o.samples) PROVE (o.at + i - 1) - o.samples[i] \in 0 - Early .. Late
  BY <1>1, <1>2, <1>5
<1>q. QED BY <1>1, <1>3, <1>4, <1>6

LEMMA PacingInit == ASSUME P!PacingAssumption, P!Init PROVE PacingInv
<1>1. P!TypeOK
  <2>1. elapsed \in P!Ticks /\ behind \in 0..Stall /\ 0 \in Nat
    BY TicksAreNumbers, Bounds DEF PacingNumbers, P!Init
  <2>2. out \in [at : Nat, samples : Seq(P!Ticks)] /\ Len(out.samples) <= Frame
    BY Bounds DEF PacingNumbers, P!Init
  <2>q. QED BY <2>1, <2>2 DEF P!Init, P!TypeOK
<1>2. Len(Held) = 0
  BY DEF P!Init, Held
<1>3. ClockIsNear
  <2>1. PacingNumbers /\ emitted = 0 /\ behind = 0 /\ elapsed \in 0..Lead /\ Lead \in Nat
    BY Bounds DEF P!Init, P!PacingAssumption
  <2>q. QED BY <2>1 DEF PacingNumbers, ClockIsNear
<1>4. P!StampedNearItsTime
  BY DEF P!Init, P!StampedNearItsTime
<1>q. QED BY <1>1, <1>2, <1>3, <1>4 DEF PacingInv, InOrder, OnTime

LEMMA TickKept == ASSUME P!PacingAssumption, PacingInv, P!Tick PROVE PacingInv'
<1>k. PacingNumbers /\ Counts /\ P!TypeOK /\ InOrder /\ OnTime /\ ClockIsNear /\ P!StampedNearItsTime
  BY Bounds, HeldTyped DEF PacingInv
<1>0. elapsed' = elapsed + 1 /\ behind' = behind + 1 /\ behind < Stall /\ UNCHANGED <<waiting, emitted, out>>
  BY DEF P!Tick
<1>1. P!TypeOK'
  <2>1. elapsed \in P!Ticks /\ elapsed' \in P!Ticks /\ behind' \in 0..Stall
    <3>1. elapsed < MaxElapsed /\ MaxElapsed \in Nat /\ elapsed \in 0..MaxElapsed /\ behind \in 0..Stall
      BY <1>k DEF P!Tick, P!PacingAssumption, P!TypeOK, P!Ticks
    <3>q. QED BY <1>0, <1>k, <3>1 DEF PacingNumbers, P!Ticks
  <2>2. flight' \in Seq(P!Ticks) /\ UNCHANGED stopped
    <3>1. flight' = Append(flight, elapsed) \/ flight' = flight
      BY DEF P!Tick
    <3>2. flight \in Seq(P!Ticks)
      BY <1>k DEF P!TypeOK
    <3>q. QED BY <2>1, <3>1, <3>2 DEF P!Tick
  <2>q. QED BY <1>0, <1>k, <2>1, <2>2 DEF P!TypeOK
<1>2. ClockIsNear'
  <2>1. emitted' <= elapsed' + Late /\ (elapsed' - behind') - emitted' <= Near
    BY <1>0, <1>k DEF PacingNumbers, Counts, ClockIsNear
  <2>q. QED BY <2>1 DEF ClockIsNear, Late, Near
<1>3. CASE UNCHANGED flight
  <2>1. Held' = Held
    BY <1>0, <1>3 DEF Held
  <2>2. InOrder'
    <3>1. \A i \in 1..Len(Held) : Held[i] < elapsed'
      BY <1>0, <1>k DEF Counts, InOrder
    <3>q. QED BY <1>k, <2>1, <3>1 DEF InOrder
  <2>3. OnTime' /\ P!StampedNearItsTime'
    BY <1>0, <1>k, <2>1 DEF OnTime, P!StampedNearItsTime, Late, Early
  <2>q. QED BY <1>1, <1>2, <2>2, <2>3 DEF PacingInv
<1>4. CASE flight' = Append(flight, elapsed)
  <2>1. /\ Len(Held') = Len(Held) + 1 /\ Held'[Len(Held) + 1] = elapsed
        /\ \A i \in 1..Len(Held) : Held'[i] = Held[i]
    BY <1>0, <1>4 DEF PacingInv, P!TypeOK, Held
  <2>2. InOrder'
    <3>1. \A i \in 1..Len(Held') : Held'[i] < elapsed'
      BY <1>0, <2>1, <1>k DEF Counts, InOrder
    <3>2. \A i \in 1..Len(Held) : elapsed - Held[i] >= (Len(Held) + 1) - i
      BY <1>k DEF Counts, InOrder
    <3>3. ASSUME NEW i \in 1..Len(Held'), NEW j \in 1..Len(Held'), i < j PROVE Held'[j] - Held'[i] >= j - i
      <4>1. Len(Held) \in Nat /\ i \in 1..Len(Held) /\ i \in Nat /\ j \in Nat
        BY <2>1, <3>3, <1>k DEF Counts
      <4>2. CASE j \in 1..Len(Held)
        BY <2>1, <3>3, <4>1, <4>2, <1>k DEF InOrder
      <4>3. CASE j = Len(Held) + 1
        BY <2>1, <3>2, <4>1, <4>3
      <4>q. QED BY <2>1, <3>3, <4>1, <4>2, <4>3
    <3>q. QED BY <3>1, <3>3 DEF InOrder
  <2>3. (emitted + Len(Held)) - elapsed <= Late
    <3>1. CASE Len(Held) = 0
      BY <3>1, <1>k DEF PacingNumbers, Counts, ClockIsNear
    <3>2. CASE Len(Held) > 0
      BY <3>2, <1>k DEF PacingNumbers, Counts, OnTime, InOrder
    <3>q. QED BY <3>1, <3>2, <1>k DEF Counts
  <2>4. elapsed - (emitted + Len(Held)) <= Early
    BY <1>0, <1>k DEF PacingNumbers, Counts, ClockIsNear
  <2>5. OnTime'
    <3>1. \A i \in 1..Len(Held') : (emitted + i - 1) - Held'[i] <= Late /\ Held'[i] - (emitted + i - 1) <= Early
      <4>1. SUFFICES ASSUME NEW i \in 1..Len(Held')
                     PROVE  (emitted + i - 1) - Held'[i] <= Late /\ Held'[i] - (emitted + i - 1) <= Early
        OBVIOUS
      <4>2. CASE i \in 1..Len(Held)
        BY <2>1, <4>2, <1>k DEF OnTime
      <4>3. CASE i = Len(Held) + 1
        <5>1. Held'[i] = elapsed /\ emitted + i - 1 = emitted + Len(Held)
          BY <2>1, <4>3, <1>k DEF Counts
        <5>q. QED BY <2>3, <2>4, <5>1
      <4>q. QED BY <2>1, <4>2, <4>3, <1>k DEF Counts
    <3>q. QED BY <1>0, <3>1 DEF OnTime, Late, Early
  <2>q. QED BY <1>0, <1>1, <1>2, <2>2, <2>5 DEF PacingInv, P!StampedNearItsTime
<1>q. QED BY <1>3, <1>4 DEF P!Tick

\* What arrives comes first of what is held.
LEMMA First ==
  ASSUME NEW S, NEW p \in Seq(S), NEW f \in Seq(S), NEW n \in 0..Len(f)
  PROVE  LET s == p \o SubSeq(f, 1, n)
         IN s \in Seq(S) /\ Len(s) = Len(p) + n /\ \A i \in 1..Len(s) : s[i] = (p \o f)[i]
OBVIOUS

LEMMA Suffix == ASSUME NEW S, NEW f \in Seq(S), NEW n \in 0..Len(f)
                PROVE  /\ SubSeq(f, n + 1, Len(f)) \in Seq(S) /\ Len(SubSeq(f, n + 1, Len(f))) = Len(f) - n
                       /\ \A i \in 1..Len(f) - n : SubSeq(f, n + 1, Len(f))[i] = f[i + n]
OBVIOUS

LEMMA Joined == ASSUME NEW S, NEW p \in Seq(S), NEW f \in Seq(S)
                PROVE  /\ p \o f \in Seq(S) /\ Len(p \o f) = Len(p) + Len(f)
                       /\ \A i \in 1..Len(p) : (p \o f)[i] = p[i]
                       /\ \A i \in 1..Len(f) : (p \o f)[Len(p) + i] = f[i]
OBVIOUS

Shifted(t, h, k) == \A i \in 1..Len(t) : t[i] = h[i + k]

\* What is held after k of it were taken and n more arrived.
LEMMA HeldRest ==
  ASSUME P!PacingAssumption, P!TypeOK, NEW n \in 0..Len(flight), NEW k \in 0..Len(waiting) + n,
         P!Drain(n), waiting' \in Seq(P!Ticks), Len(waiting') = Len(waiting) + n - k, Shifted(waiting', Held, k)
  PROVE  /\ flight' \in Seq(P!Ticks)
         /\ Held' \in Seq(P!Ticks) /\ Len(Held') = Len(Held) - k /\ Shifted(Held', Held, k)
<1>1. waiting \in Seq(P!Ticks) /\ flight \in Seq(P!Ticks) /\ flight' = SubSeq(flight, n + 1, Len(flight))
  BY DEF P!TypeOK, P!Drain
<1>2. flight' \in Seq(P!Ticks) /\ Len(flight') = Len(flight) - n
  BY <1>1, Suffix
<1>3. /\ Held \in Seq(P!Ticks) /\ Len(Held) = Len(waiting) + Len(flight)
      /\ Held' \in Seq(P!Ticks) /\ Len(Held') = Len(waiting') + Len(flight')
  BY <1>1, <1>2, Joined DEF Held
<1>4. Len(waiting) \in Nat /\ Len(flight) \in Nat /\ Len(waiting') \in Nat /\ k \in Nat /\ n \in Nat
  BY <1>1
<1>5. ASSUME NEW i \in 1..Len(Held') PROVE Held'[i] = Held[i + k]
  <2>1. CASE i \in 1..Len(waiting')
    <3>1. Held'[i] = waiting'[i]
      BY <1>2, <2>1 DEF Held
    <3>q. QED BY <2>1, <3>1 DEF Shifted
  <2>2. CASE i \notin 1..Len(waiting')
    <3>1. /\ i - Len(waiting') \in 1..Len(flight') /\ i \in Len(waiting') + 1 .. Len(waiting') + Len(flight')
          /\ i - Len(waiting') + n \in 1..Len(flight)
      BY <1>2, <1>3, <1>4, <2>2, SMTT(30)
    <3>2. Held'[i] = flight'[i - Len(waiting')]
      <4>1. \A j \in 1..Len(flight') : Held'[Len(waiting') + j] = flight'[j]
        BY SMTT(30), <1>2, Joined DEF Held
      <4>2. Len(waiting') + (i - Len(waiting')) = i
        BY <1>4
      <4>q. QED BY <3>1, <4>1, <4>2
    <3>3. flight'[i - Len(waiting')] = flight[i - Len(waiting') + n]
      <4>1. ASSUME NEW j \in 1..Len(flight') PROVE flight'[j] = flight[j + n]
        BY <1>1, <1>2, Suffix
      <4>q. QED BY <3>1, <4>1
    <3>4. i + k = Len(waiting) + (i - Len(waiting') + n)
      BY <1>4, <3>1
    <3>5. Held[Len(waiting) + (i - Len(waiting') + n)] = flight[i - Len(waiting') + n]
      BY <1>1, <3>1 DEF Held
    <3>q. QED BY <3>2, <3>3, <3>4, <3>5
  <2>q. QED BY <2>1, <2>2
<1>6. Shifted(Held', Held, k)
  BY <1>5 DEF Shifted
<1>q. QED BY <1>2, <1>3, <1>4, <1>6

\* Handing out k samples with the clock moved by len shifts what is held.
LEMMA TakeKept ==
  ASSUME P!PacingAssumption, PacingInv, NEW n \in 0..Len(flight), NEW len \in Nat, len <= Frame, len > 0,
         P!Drain(n), P!Take(P!Arrived(n), len), UNCHANGED <<elapsed, behind>>, stopped' \in BOOLEAN,
         \/ len <= Len(P!Arrived(n))
         \/ n \in P!Delivered /\ elapsed - Allowance >= emitted + len
  PROVE  PacingInv'
<1>k. PacingNumbers /\ Counts /\ P!TypeOK /\ InOrder /\ OnTime /\ ClockIsNear /\ P!StampedNearItsTime
  BY Bounds, HeldTyped DEF PacingInv
<1> DEFINE k == P!Lesser(len, Len(P!Arrived(n)))
<1>1. waiting \in Seq(P!Ticks) /\ flight \in Seq(P!Ticks) /\ emitted \in Nat
  BY DEF PacingInv, P!TypeOK
<1>2. /\ P!Arrived(n) \in Seq(P!Ticks) /\ Len(P!Arrived(n)) = Len(waiting) + n /\ Len(P!Arrived(n)) \in Nat
      /\ \A i \in 1..Len(P!Arrived(n)) : P!Arrived(n)[i] = Held[i]
  BY <1>1, First DEF P!Arrived, Held
<1>3. k \in 0..Len(waiting) + n /\ k <= len /\ k <= Len(P!Arrived(n))
  BY <1>2, <1>1 DEF P!Lesser
<1>4. waiting' = SubSeq(P!Arrived(n), k + 1, Len(P!Arrived(n)))
  BY DEF P!Take
<1>5. /\ Held' \in Seq(P!Ticks) /\ Len(Held') = Len(Held) - k /\ \A i \in 1..Len(Held') : Held'[i] = Held[i + k]
  <2> HIDE DEF k
  <2>1. k \in Nat /\ Len(waiting) \in Nat /\ n \in Nat
    BY <1>1, <1>3
  <2>2. /\ waiting' \in Seq(P!Ticks) /\ Len(waiting') = Len(waiting) + n - k
        /\ Shifted(waiting', Held, k)
    <3>1. /\ waiting' \in Seq(P!Ticks) /\ Len(waiting') = Len(P!Arrived(n)) - k
          /\ \A i \in 1..Len(waiting') : waiting'[i] = P!Arrived(n)[i + k] /\ i + k \in 1..Len(P!Arrived(n))
      BY <1>2, <1>3, <1>4, <2>1
    <3>q. QED BY <1>2, <2>1, <3>1 DEF Shifted
  <2>q. QED BY <1>3, <1>k, <2>2, HeldRest DEF Shifted
<1>6. /\ emitted' = emitted + len /\ out'.at = emitted /\ Len(out'.samples) = k
      /\ out' \in [at : Nat, samples : Seq(P!Ticks)] /\ \A i \in 1..k : out'.samples[i] = Held[i]
  <2>1. out' = [at |-> emitted, samples |-> SubSeq(P!Arrived(n), 1, k)] /\ emitted' = emitted + len
    BY DEF P!Take
  <2> HIDE DEF k
  <2>q. QED BY <1>1, <1>2, <1>3, <2>1
<1> HIDE DEF k
<1>7. P!TypeOK'
  <2>0. flight' \in Seq(P!Ticks)
    BY <1>1, Suffix DEF P!Drain
  <2>1. waiting' \in Seq(P!Ticks) /\ flight' \in Seq(P!Ticks)
    BY <2>0, <1>2, <1>3, <1>4
  <2>q. QED BY <1>1, <1>3, <1>6, <2>1, <1>k DEF PacingNumbers, P!TypeOK
<1>8. InOrder'
  <2>1. k \in Nat /\ Len(Held) \in Nat /\ \A i \in 1..Len(Held') : i + k \in 1..Len(Held)
    BY <1>3, <1>5, <1>k DEF Counts
  <2>2. \A i \in 1..Len(Held') : Held'[i] < elapsed
    BY <1>5, <2>1, <1>k DEF InOrder
  <2>3. ASSUME NEW i \in 1..Len(Held'), NEW j \in 1..Len(Held'), i < j PROVE Held'[j] - Held'[i] >= j - i
    <3>1. i + k < j + k /\ (j + k) - (i + k) = j - i
      BY <2>1, <2>3
    <3>2. Held[j + k] - Held[i + k] >= (j + k) - (i + k)
      BY <2>1, <3>1, <1>k DEF InOrder
    <3>q. QED BY <1>5, <3>1, <3>2
  <2>q. QED BY <2>2, <2>3 DEF InOrder
<1>9. P!StampedNearItsTime'
  <2>1. \A i \in 1..k : (emitted + i - 1) - Held[i] <= Late /\ Held[i] - (emitted + i - 1) <= Early
    BY <1>2, <1>3, <1>k DEF Counts, OnTime
  <2>2. \A i \in 1..Len(out'.samples) : /\ (out'.at + i - 1) - out'.samples[i] <= Late
                                        /\ out'.samples[i] - (out'.at + i - 1) <= Early
    BY <1>6, <2>1
  <2>q. QED BY <1>6, <2>2, Stamped DEF P!StampedNearItsTime
<1>10. CASE len <= Len(P!Arrived(n))
  <2>1. k = len
    BY <1>10 DEF k, P!Lesser
  <2>2. OnTime'
    <3>1. \A i \in 1..Len(Held') : /\ (emitted + len + i - 1) - Held'[i] <= Late
                                   /\ Held'[i] - (emitted + len + i - 1) <= Early
      BY <1>1, <1>3, <1>5, <2>1, <1>k DEF Counts, OnTime
    <3>q. QED BY <1>6, <3>1 DEF OnTime, Late, Early
  <2>3. ClockIsNear'
    <3>1. len \in 1..Len(Held)
      BY <1>2, <1>10, <1>k DEF Counts
    <3>2. emitted + len - 1 - Held[len] <= Late /\ Held[len] < elapsed /\ Held[len] \in Nat
      BY <3>1, <1>k DEF Counts, OnTime, InOrder
    <3>q. QED BY SMTT(30), <1>6, <3>2, <1>k DEF PacingNumbers, Counts, ClockIsNear
  <2>q. QED BY <1>7, <1>8, <1>9, <2>2, <2>3 DEF PacingInv
<1>11. CASE ~(len <= Len(P!Arrived(n)))
  <2>1. k = Len(waiting) + n /\ n \in P!Delivered /\ elapsed - Allowance >= emitted + len
    BY <1>11, <1>2 DEF k, P!Lesser
  <2>2. Len(Held') = Len(flight) - n /\ \A i \in 1..Len(Held') : Held'[i] = flight[n + i]
    <3>1. Len(flight) \in Nat /\ Len(waiting) \in Nat /\ n \in Nat /\ Len(Held) = Len(waiting) + Len(flight)
      BY <1>1, <1>k DEF Counts
    <3>2. Len(Held') = Len(flight) - n
      BY <1>5, <2>1, <3>1
    <3>3. ASSUME NEW i \in 1..Len(Held') PROVE Held'[i] = flight[n + i]
      <4>1. n + i \in 1..Len(flight) /\ i + k = Len(waiting) + (n + i)
        BY <2>1, <3>1, <3>2
      <4>2. (waiting \o flight)[Len(waiting) + (n + i)] = flight[n + i]
        BY SMTT(30), <1>1, <4>1
      <4>q. QED BY <1>5, <4>1, <4>2 DEF Held
    <3>q. QED BY <3>2, <3>3
  <2>3. \A i \in 1..Len(Held') : Held'[i] >= elapsed - Delay + i
    <3>1. SUFFICES ASSUME NEW i \in 1..Len(Held') PROVE Held'[i] >= elapsed - Delay + i
      OBVIOUS
    <3>2. Held'[1] + Delay > elapsed
      <4>1. n + 1 \in n + 1 .. Len(flight) /\ 1 \in 1..Len(Held')
        BY <1>1, <2>2, <3>1
      <4>q. QED BY <2>1, <2>2, <4>1 DEF P!Delivered
    <3>3. /\ i + k \in 1..Len(Held) /\ 1 + k \in 1..Len(Held) /\ Held'[i] = Held[i + k] /\ Held'[1] = Held[1 + k]
      BY <1>3, <1>5, <3>1, <1>k DEF Counts
    <3>4. Held[i + k] - Held[1 + k] >= i - 1
      BY <1>3, <3>1, <3>3, <1>k DEF Counts, InOrder
    <3>q. QED BY SMTT(30), <3>2, <3>3, <3>4, <1>k DEF PacingNumbers, Counts
  <2>4. OnTime'
    <3>1. SUFFICES ASSUME NEW i \in 1..Len(Held')
                   PROVE  /\ (emitted + len + i - 1) - Held'[i] <= Late
                          /\ Held'[i] - (emitted + len + i - 1) <= Early
      BY <1>6 DEF OnTime, Late, Early
    <3>2. Held'[i] = Held[i + k] /\ i + k \in 1..Len(Held) /\ Held[i + k] \in Nat /\ k \in Nat
      BY <1>3, <1>5, <3>1, <1>k DEF Counts
    <3>3. Held[i + k] - (emitted + (i + k) - 1) <= Early
      BY <3>2 DEF PacingInv, OnTime
    <3>4. Held[i + k] >= elapsed - Delay + i
      BY <2>3, <3>1, <3>2
    <3>5. /\ emitted \in Nat /\ elapsed \in Nat /\ Late \in Nat /\ Early \in Nat /\ i \in Nat /\ k <= len
          /\ Delay \in Nat /\ Allowance \in Nat /\ Late >= Delay - Allowance - 1
      BY <1>3, <1>k DEF PacingNumbers, Counts
    <3>6. elapsed - Allowance >= emitted + len /\ len \in Nat
      BY <2>1, <1>11
    <3>7. (emitted + len + i - 1) - Held'[i] <= Late
      BY <3>2, <3>4, <3>5, <3>6
    <3>8. Held'[i] - (emitted + len + i - 1) <= Early
      BY <3>2, <3>3, <3>5, <3>6
    <3>q. QED BY <3>7, <3>8
  <2>5. ClockIsNear'
    BY <1>6, <2>1, <1>k DEF PacingNumbers, Counts, ClockIsNear
  <2>q. QED BY <1>7, <1>8, <1>9, <2>4, <2>5 DEF PacingInv
<1>q. QED BY <1>10, <1>11

LEMMA PacingReadKept == ASSUME P!PacingAssumption, PacingInv, P!Read PROVE PacingInv'
<1>k. PacingNumbers /\ Counts /\ P!TypeOK /\ InOrder /\ OnTime /\ ClockIsNear /\ P!StampedNearItsTime
  BY Bounds, HeldTyped DEF PacingInv
<1>1. PICK n \in P!Delivered :
       /\ P!Drain(n)
       /\ \/ /\ (Len(P!Arrived(n)) >= Frame \/ P!Overdue)
             /\ P!Take(P!Arrived(n), Frame)
             /\ UNCHANGED behind
          \/ /\ Len(P!Arrived(n)) < Frame /\ ~P!Overdue
             /\ waiting' = P!Arrived(n)
             /\ behind' = 0
             /\ UNCHANGED <<emitted, out>>
  BY DEF P!Read
<1>2. n \in 0..Len(flight) /\ UNCHANGED <<elapsed, stopped>> /\ stopped \in BOOLEAN
  BY DEF P!Read, P!Delivered, PacingInv, P!TypeOK
<1>3. CASE (Len(P!Arrived(n)) >= Frame \/ P!Overdue) /\ P!Take(P!Arrived(n), Frame) /\ UNCHANGED behind
  <2>1. Len(P!Arrived(n)) \in Nat
    BY <1>2, First DEF PacingInv, P!TypeOK, P!Arrived
  <2>q. QED BY <1>1, <1>2, <1>3, <2>1, TakeKept, <1>k DEF PacingNumbers, P!Overdue
<1>4. CASE /\ Len(P!Arrived(n)) < Frame /\ ~P!Overdue /\ waiting' = P!Arrived(n)
           /\ behind' = 0 /\ UNCHANGED <<emitted, out>>
  <2>1. /\ waiting' \in Seq(P!Ticks) /\ flight' \in Seq(P!Ticks)
        /\ Len(Held') = Len(Held) /\ \A i \in 1..Len(Held) : Held'[i] = Held[i]
    <3>1. waiting \in Seq(P!Ticks) /\ flight \in Seq(P!Ticks)
      BY <1>k DEF P!TypeOK
    <3>2. /\ waiting' \in Seq(P!Ticks) /\ Len(waiting') = Len(waiting) + n - 0 /\ 0 \in 0..Len(waiting) + n
          /\ Shifted(waiting', Held, 0)
      <4>1. Len(waiting) \in Nat /\ n \in Nat
        BY <1>2, <3>1
      <4>2. waiting' \in Seq(P!Ticks) /\ Len(waiting') = Len(waiting) + n /\ \A i \in 1..Len(waiting') : waiting'[i] = Held[i]
        BY <1>2, <1>4, <3>1, First DEF P!Arrived, Held
      <4>q. QED BY <4>1, <4>2 DEF Shifted
    <3>3. flight' \in Seq(P!Ticks) /\ Len(Held') = Len(Held) - 0 /\ Shifted(Held', Held, 0)
      BY <1>1, <1>2, <1>k, <3>2, HeldRest
    <3>q. QED BY <3>2, <3>3, <1>k DEF Counts, Shifted
  <2>2. P!TypeOK'
    BY <1>2, <1>4, <2>1, <1>k DEF PacingNumbers, P!TypeOK
  <2>3. InOrder' /\ OnTime' /\ P!StampedNearItsTime'
    <3>1. UNCHANGED <<elapsed, emitted, out>>
      BY <1>2, <1>4
    <3>2. InOrder'
      BY <2>1, <3>1, <1>k DEF InOrder
    <3>3. OnTime'
      BY <2>1, <3>1, <1>k DEF OnTime, Late, Early
    <3>q. QED BY <3>1, <3>2, <3>3, <1>k DEF P!StampedNearItsTime
  <2>4. ClockIsNear'
    BY <1>2, <1>4, <1>k DEF PacingNumbers, Counts, ClockIsNear, P!Overdue, Late
  <2>q. QED BY <2>2, <2>3, <2>4 DEF PacingInv
<1>q. QED BY <1>1, <1>3, <1>4

LEMMA PacingRestKept == ASSUME P!PacingAssumption, PacingInv, P!ReadRest PROVE PacingInv'
<1>k. PacingNumbers /\ Counts /\ P!TypeOK /\ InOrder /\ OnTime /\ ClockIsNear /\ P!StampedNearItsTime
  BY Bounds, HeldTyped DEF PacingInv
<1>1. PICK n \in 0..Len(flight) :
       /\ P!Arrived(n) # <<>> /\ P!Drain(n) /\ P!Take(P!Arrived(n), P!Lesser(Frame, Len(P!Arrived(n))))
  BY DEF P!ReadRest
<1>2. P!Arrived(n) \in Seq(P!Ticks) /\ Len(P!Arrived(n)) \in Nat /\ Len(P!Arrived(n)) > 0
  BY <1>1 DEF PacingInv, P!TypeOK, P!Arrived
<1>3. /\ P!Lesser(Frame, Len(P!Arrived(n))) \in Nat /\ P!Lesser(Frame, Len(P!Arrived(n))) > 0
      /\ P!Lesser(Frame, Len(P!Arrived(n))) <= Frame /\ P!Lesser(Frame, Len(P!Arrived(n))) <= Len(P!Arrived(n))
  BY <1>2, <1>k DEF PacingNumbers, P!Lesser
<1>4. UNCHANGED <<elapsed, behind>> /\ stopped' \in BOOLEAN
  BY DEF P!ReadRest
<1>q. QED BY <1>1, <1>3, <1>4, TakeKept

LEMMA PacingNext == ASSUME P!PacingAssumption, PacingInv, [P!Next]_(P!vars) PROVE PacingInv'
<1>1. CASE P!Stop \/ UNCHANGED P!vars
  BY <1>1 DEF P!Stop, P!vars, PacingInv, P!TypeOK, InOrder, OnTime, ClockIsNear, P!StampedNearItsTime, Held, Late, Early
<1>q. QED BY <1>1, TickKept, PacingReadKept, PacingRestKept DEF P!Next

-----------------------------------------------------------------------------
(* The utterance buffer. Its counts are sums over sequences of any length: *)
(* what follows first is of numbers and sums only.                         *)

\* The greatest number up to a bound that is in a set.
LEMMA GreatestOfSet ==
  ASSUME NEW n \in Nat, NEW T, T \subseteq 0..n, T # {}
  PROVE  \E x \in T : \A y \in T : y <= x
<1> DEFINE D == {n - y : y \in T}
<1>1. D \subseteq Nat /\ D # {}
  <2>1. ASSUME NEW y \in T PROVE n - y \in Nat
    <3>1. y \in 0..n
      OBVIOUS
    <3>q. QED BY <3>1
  <2>2. PICK y \in T : TRUE
    OBVIOUS
  <2>3. n - y \in D
    OBVIOUS
  <2>q. QED BY <2>1, <2>3
<1>2. PICK d \in D : \A e \in D : d <= e
  BY <1>1, LeastOfSet
<1>3. PICK x \in T : d = n - x
  BY <1>2
<1>4. ASSUME NEW y \in T PROVE y <= x
  <2>1. y \in 0..n /\ x \in 0..n
    OBVIOUS
  <2>2. n - y \in D
    OBVIOUS
  <2>3. d <= n - y
    BY <2>2, <1>2
  <2>q. QED BY <2>1, <2>3, <1>3
<1>q. QED BY <1>3, <1>4

-----------------------------------------------------------------------------
(* What sums come to. *)

\* What grows by less at every step grows by less.
LEMMA GrowsLess ==
  ASSUME NEW n \in Nat, NEW s \in [0..n -> Int], NEW t \in [0..n -> Int],
         \A k \in 1..n : s[k] - s[k - 1] <= t[k] - t[k - 1]
  PROVE  \A i, j \in 0..n : i <= j => s[j] - s[i] <= t[j] - t[i]
<1> SUFFICES ASSUME NEW i \in 0..n PROVE \A j \in 0..n : i <= j => s[j] - s[i] <= t[j] - t[i]
  OBVIOUS
<1> DEFINE S == {k \in Nat : i + k <= n => s[i + k] - s[i] <= t[i + k] - t[i]}
<1>1. 0 \in S
  BY s[i] \in Int, t[i] \in Int
<1>2. ASSUME NEW k \in Nat, k \in S PROVE k + 1 \in S
  <2>1. SUFFICES ASSUME i + (k + 1) <= n PROVE s[i + (k + 1)] - s[i] <= t[i + (k + 1)] - t[i]
    OBVIOUS
  <2> DEFINE m == i + (k + 1)
  <2>2. m \in 1..n /\ m - 1 = i + k /\ i + k \in 0..n /\ i + k <= n
    BY <2>1
  <2>3. s[m - 1] - s[i] <= t[m - 1] - t[i]
    BY <1>2, <2>2
  <2>4. s[m] - s[m - 1] <= t[m] - t[m - 1]
    BY <2>2
  <2>5. s[m] \in Int /\ s[m - 1] \in Int /\ s[i] \in Int /\ t[m] \in Int /\ t[m - 1] \in Int /\ t[i] \in Int
    BY <2>2
  <2>6. s[m] - s[i] <= t[m] - t[i]
    <3> DEFINE a == s[m]  b == s[m - 1]  c == s[i]  d == t[m]  e == t[m - 1]  f == t[i]
    <3>1. a \in Int /\ b \in Int /\ c \in Int /\ d \in Int /\ e \in Int /\ f \in Int
      BY <2>5
    <3>2. b - c <= e - f /\ a - b <= d - e
      BY <2>3, <2>4
    <3> HIDE DEF a, b, c, d, e, f
    <3>3. a - c <= d - f
      BY <3>1, <3>2
    <3>q. QED BY <3>3 DEF a, c, d, f
  <2>q. QED BY <2>6
<1>3. Nat \subseteq S
  <2> HIDE DEF S
  <2>q. QED BY <1>1, <1>2, InductionOnSet
<1>4. ASSUME NEW j \in 0..n, i <= j PROVE s[j] - s[i] <= t[j] - t[i]
  <2>1. j - i \in Nat /\ i + (j - i) = j /\ j <= n
    BY <1>4
  <2>2. j - i \in S
    <3> HIDE DEF S
    <3>q. QED BY <2>1, <1>3
  <2>3. s[i + (j - i)] - s[i] <= t[i + (j - i)] - t[i]
    BY <2>1, <2>2
  <2>q. QED BY <2>1, <2>3
<1>q. QED BY <1>4

\* What grows alike at every step grows alike.
LEMMA GrowsAlike ==
  ASSUME NEW n \in Nat, NEW s \in [0..n -> Int], NEW t \in [0..n -> Int],
         \A k \in 1..n : s[k] - s[k - 1] = t[k] - t[k - 1]
  PROVE  \A i, j \in 0..n : s[j] - s[i] = t[j] - t[i]
<1>1. \A k \in 1..n : s[k] - s[k - 1] <= t[k] - t[k - 1] /\ t[k] - t[k - 1] <= s[k] - s[k - 1]
  <2> SUFFICES ASSUME NEW k \in 1..n PROVE s[k] - s[k - 1] <= t[k] - t[k - 1] /\ t[k] - t[k - 1] <= s[k] - s[k - 1]
    OBVIOUS
  <2>1. k \in 0..n /\ k - 1 \in 0..n
    OBVIOUS
  <2>q. QED BY <2>1
<1>2. \A i, j \in 0..n : i <= j => s[j] - s[i] <= t[j] - t[i]
  BY <1>1, GrowsLess
<1>3. \A i, j \in 0..n : i <= j => t[j] - t[i] <= s[j] - s[i]
  BY <1>1, GrowsLess
<1>4. ASSUME NEW i \in 0..n, NEW j \in 0..n PROVE s[j] - s[i] = t[j] - t[i]
  <2>1. s[i] \in Int /\ s[j] \in Int /\ t[i] \in Int /\ t[j] \in Int
    OBVIOUS
  <2>2. CASE i <= j
    <3>1. s[j] - s[i] <= t[j] - t[i] /\ t[j] - t[i] <= s[j] - s[i]
      BY <2>2, <1>2, <1>3
    <3>q. QED BY <2>1, <3>1
  <2>3. CASE j <= i
    <3>1. s[i] - s[j] <= t[i] - t[j] /\ t[i] - t[j] <= s[i] - s[j]
      BY <2>3, <1>2, <1>3
    <3>q. QED BY <2>1, <3>1
  <2>q. QED BY <2>2, <2>3
<1>q. QED BY <1>4

\* Sums are what their recursion says.
LEMMA SumToIs ==
  ASSUME NEW f \in Seq(Int)
  PROVE  /\ U!SumTo(f) \in [0..Len(f) -> Int]
         /\ U!SumTo(f)[0] = 0
         /\ \A k \in 1..Len(f) : U!SumTo(f)[k] = U!SumTo(f)[k - 1] + f[k]
<1> DEFINE Sums(n) == {s \in [0..n -> Int] : s[0] = 0 /\ \A k \in 1..n : s[k] = s[k - 1] + f[k]}
           S == {n \in Nat : n <= Len(f) => Sums(n) # {}}
           Is(s) == s = [k \in 0..Len(f) |-> IF k = 0 THEN 0 ELSE s[k - 1] + f[k]]
<1>0. Len(f) \in Nat /\ \A k \in 1..Len(f) : f[k] \in Int
  OBVIOUS
<1>1. 0 \in S
  <2>1. [k \in 0..0 |-> 0] \in Sums(0)
    OBVIOUS
  <2>q. QED BY <2>1
<1>2. ASSUME NEW n \in Nat, n \in S PROVE n + 1 \in S
  <2>1. SUFFICES ASSUME n + 1 <= Len(f) PROVE Sums(n + 1) # {}
    BY SMTT(30)
  <2>2. PICK s \in Sums(n) : TRUE
    BY <1>0, <1>2, <2>1, SMTT(30)
  <2> DEFINE t == [k \in 0..(n + 1) |-> IF k = n + 1 THEN s[n] + f[n + 1] ELSE s[k]]
  <2>3. s \in [0..n -> Int] /\ s[0] = 0 /\ \A k \in 1..n : s[k] = s[k - 1] + f[k]
    BY <2>2
  <2>4. f[n + 1] \in Int
    BY <1>0, <2>1
  <2>5. t \in [0..(n + 1) -> Int]
    BY <2>3, <2>4
  <2>6. t[0] = 0
    BY <2>3
  <2>7. ASSUME NEW k \in 1..(n + 1) PROVE t[k] = t[k - 1] + f[k]
    <3>1. CASE k = n + 1
      BY <3>1
    <3>2. CASE k # n + 1
      <4>1. k \in 1..n /\ k - 1 \in 0..n /\ k - 1 # n + 1
        BY <3>2
      <4>q. QED BY <2>3, <4>1
    <3>q. QED BY <3>1, <3>2
  <2>8. t \in Sums(n + 1)
    BY <2>5, <2>6, <2>7
  <2>q. QED BY <2>8
<1>3. Sums(Len(f)) # {}
  <2>1. Nat \subseteq S
    <3> HIDE DEF S
    <3>q. QED BY <1>1, <1>2, InductionOnSet
  <2>2. Len(f) \in S
    BY <2>1, <1>0
  <2>q. QED BY <2>2, <1>0
<1>4. PICK s \in Sums(Len(f)) : TRUE
  BY <1>3
<1>5. Is(s)
  <2>1. ASSUME NEW k \in 0..Len(f) PROVE s[k] = IF k = 0 THEN 0 ELSE s[k - 1] + f[k]
    <3>1. k = 0 \/ k \in 1..Len(f)
      BY <1>0
    <3>q. QED BY <3>1, <1>4
  <2>q. QED BY <2>1, <1>4
<1>6. U!SumTo(f) = CHOOSE u : Is(u)
  BY DEF U!SumTo
<1>7. Is(U!SumTo(f))
  <2> HIDE DEF Is
  <2>q. QED BY <1>5, <1>6
<1> DEFINE u == U!SumTo(f)
<1>8. \A k \in 0..Len(f) : u[k] = IF k = 0 THEN 0 ELSE u[k - 1] + f[k]
  BY <1>7
<1>9. DOMAIN u = 0..Len(f) /\ u = [k \in 0..Len(f) |-> u[k]]
  BY <1>7
<1> HIDE DEF u
<1>10. \A k \in 0..Len(f) : u[k] = s[k]
  <2> DEFINE Same == {k \in Nat : k <= Len(f) => u[k] = s[k]}
  <2>1. 0 \in Same
    BY <1>4, <1>8, <1>0
  <2>2. ASSUME NEW k \in Nat, k \in Same PROVE k + 1 \in Same
    <3>1. SUFFICES ASSUME k + 1 <= Len(f) PROVE u[k + 1] = s[k + 1]
      OBVIOUS
    <3>2. k + 1 \in 0..Len(f) /\ k + 1 \in 1..Len(f) /\ k + 1 # 0 /\ (k + 1) - 1 = k /\ u[k] = s[k]
      BY <3>1, <2>2, <1>0
    <3>q. QED BY <3>2, <1>8, <1>4
  <2>3. Nat \subseteq Same
    <3> HIDE DEF Same
    <3>q. QED BY <2>1, <2>2, InductionOnSet
  <2>q. QED BY <2>3
<1>11. u = s
  BY <1>9, <1>10, <1>4
<1>q. QED BY <1>11, <1>4 DEF u

-----------------------------------------------------------------------------
(* What is heard in a stretch. *)

\* The indices of a part are indices of the whole.
LEMMA ShiftedIndices ==
  ASSUME NEW n \in Nat, NEW a \in Nat, NEW b \in Nat, n + a <= b
  PROVE  /\ n \in 0..b
         /\ \A i \in 0..a : n + i \in 0..b
         /\ \A k \in 1..a : k \in 0..a /\ k - 1 \in 0..a /\ n + k \in 1..b /\ (n + k) - 1 = n + (k - 1)
  OBVIOUS

LEMMA SameStep ==
  ASSUME NEW a \in Int, NEW b \in Int, NEW c \in Int, NEW d \in Int, NEW g \in Int, a = b + g, c = d + g
  PROVE  a - b = c - d
  OBVIOUS

\* One sequence is what follows the first n of another, for as long as it goes.
PartOf(g, f, n) == n + Len(g) <= Len(f) /\ \A i \in 1..Len(g) : g[i] = f[n + i]

\* A part's sums are differences of the whole's.
LEMMA SumOfPart ==
  ASSUME NEW f \in Seq(Int), NEW g \in Seq(Int), NEW n \in Nat, PartOf(g, f, n)
  PROVE  \A i \in 0..Len(g) : U!SumTo(g)[i] = U!SumTo(f)[n + i] - U!SumTo(f)[n]
<1> DEFINE s == U!SumTo(g)
           t == [i \in 0..Len(g) |-> U!SumTo(f)[n + i]]
<1>0. Len(g) \in Nat /\ Len(f) \in Nat /\ n + Len(g) <= Len(f)
  BY DEF PartOf
<1>1. s \in [0..Len(g) -> Int] /\ s[0] = 0 /\ \A k \in 1..Len(g) : s[k] = s[k - 1] + g[k]
  BY SumToIs
<1>2. U!SumTo(f) \in [0..Len(f) -> Int] /\ \A k \in 1..Len(f) : U!SumTo(f)[k] = U!SumTo(f)[k - 1] + f[k]
  BY SumToIs
<1>3. \A i \in 0..Len(g) : n + i \in 0..Len(f)
  BY <1>0, ShiftedIndices
<1>4. t \in [0..Len(g) -> Int]
  BY <1>2, <1>3
<1>5. ASSUME NEW k \in 1..Len(g) PROVE s[k] - s[k - 1] = t[k] - t[k - 1]
  <2>1. k \in 0..Len(g) /\ k - 1 \in 0..Len(g) /\ n + k \in 1..Len(f) /\ (n + k) - 1 = n + (k - 1)
    BY <1>0, ShiftedIndices
  <2>2. t[k] = U!SumTo(f)[n + k] /\ t[k - 1] = U!SumTo(f)[n + (k - 1)]
    BY <2>1
  <2>3. U!SumTo(f)[n + k] = U!SumTo(f)[n + (k - 1)] + f[n + k]
    BY <1>2, <2>1
  <2>4. f[n + k] = g[k] /\ g[k] \in Int
    BY DEF PartOf
  <2>5. s[k] = s[k - 1] + g[k] /\ s[k - 1] \in Int /\ t[k - 1] \in Int /\ t[k] = t[k - 1] + g[k]
    BY <1>1, <1>4, <2>1, <2>2, <2>3, <2>4
  <2> HIDE DEF s, t
  <2>6. s[k] \in Int /\ t[k] \in Int
    BY <2>1, <1>1, <1>4
  <2>q. QED BY SMTT(30), <2>4, <2>5, <2>6, SameStep
<1>6. \A i, j \in 0..Len(g) : s[j] - s[i] = t[j] - t[i]
  <2> HIDE DEF s, t
  <2>q. QED BY <1>0, <1>1, <1>4, <1>5, GrowsAlike
<1>7. ASSUME NEW i \in 0..Len(g) PROVE s[i] = U!SumTo(f)[n + i] - U!SumTo(f)[n]
  <2>1. 0 \in 0..Len(g) /\ n + 0 = n
    BY <1>0
  <2>2. s[i] - s[0] = t[i] - t[0]
    BY <1>6, <2>1
  <2>3. t[i] = U!SumTo(f)[n + i] /\ t[0] = U!SumTo(f)[n]
    BY <2>1
  <2>4. s[i] \in Int /\ s[0] = 0 /\ t[i] \in Int /\ t[0] \in Int
    BY <1>1, <1>4, <2>1
  <2> HIDE DEF s, t
  <2>q. QED BY <2>2, <2>3, <2>4
<1>q. QED BY <1>7

\* How many of the first k units are speech, and how many after the first i.
Upto(units) == U!SumTo(U!Ones(units))
Heard(units, i, j) == Upto(units)[j] - Upto(units)[i]

LEMMA OnesAre ==
  ASSUME NEW units \in Seq(BOOLEAN)
  PROVE  /\ U!Ones(units) \in Seq(Int) /\ Len(U!Ones(units)) = Len(units)
         /\ \A k \in 1..Len(units) : U!Ones(units)[k] = IF units[k] THEN 1 ELSE 0
<1>1. DOMAIN units = 1..Len(units) /\ Len(units) \in Nat
  OBVIOUS
<1>2. U!Ones(units) = [k \in 1..Len(units) |-> IF units[k] THEN 1 ELSE 0]
  BY <1>1 DEF U!Ones
<1>q. QED BY <1>1, <1>2

LEMMA UptoIs ==
  ASSUME NEW units \in Seq(BOOLEAN)
  PROVE  /\ Upto(units) \in [0..Len(units) -> Int] /\ Upto(units)[0] = 0
         /\ \A k \in 1..Len(units) : Upto(units)[k] = Upto(units)[k - 1] + (IF units[k] THEN 1 ELSE 0)
         /\ U!Spoken(units) = Upto(units)[Len(units)]
  BY OnesAre, SumToIs DEF Upto, U!Spoken, U!Sum

\* A stretch holds no more speech than it is long.
LEMMA HeardIs ==
  ASSUME NEW units \in Seq(BOOLEAN), NEW i \in 0..Len(units), NEW j \in 0..Len(units), i <= j
  PROVE  Heard(units, i, j) \in 0..(j - i)
<1> DEFINE u == Upto(units)
           zero == [k \in 0..Len(units) |-> 0]
           id == [k \in 0..Len(units) |-> k]
<1>0. Len(units) \in Nat
  OBVIOUS
<1>1. u \in [0..Len(units) -> Int] /\ \A k \in 1..Len(units) : u[k] = u[k - 1] + (IF units[k] THEN 1 ELSE 0)
  BY UptoIs
<1>2. zero \in [0..Len(units) -> Int] /\ id \in [0..Len(units) -> Int]
  OBVIOUS
<1>3. ASSUME NEW k \in 1..Len(units)
      PROVE  zero[k] - zero[k - 1] <= u[k] - u[k - 1] /\ u[k] - u[k - 1] <= id[k] - id[k - 1]
  <2>1. k \in 0..Len(units) /\ k - 1 \in 0..Len(units) /\ u[k - 1] \in Int
    BY <1>1
  <2>2. zero[k] = 0 /\ zero[k - 1] = 0 /\ id[k] = k /\ id[k - 1] = k - 1
    BY <2>1
  <2>3. u[k] = u[k - 1] \/ u[k] = u[k - 1] + 1
    BY <1>1, SMTT(30)
  <2> HIDE DEF u, zero, id
  <2>q. QED BY <2>1, <2>2, <2>3
<1>4. zero[j] - zero[i] <= u[j] - u[i]
  <2> HIDE DEF u, zero, id
  <2>q. QED BY <1>0, <1>1, <1>2, <1>3, GrowsLess
<1>5. u[j] - u[i] <= id[j] - id[i]
  <2> HIDE DEF u, zero, id
  <2>q. QED BY <1>0, <1>1, <1>2, <1>3, GrowsLess
<1>6. zero[j] = 0 /\ zero[i] = 0 /\ id[j] = j /\ id[i] = i /\ u[i] \in Int /\ u[j] \in Int /\ i \in Int /\ j \in Int
  BY <1>1
<1> HIDE DEF u, zero, id
<1>7. u[j] - u[i] \in 0..(j - i)
  BY <1>4, <1>5, <1>6
<1>q. QED BY <1>7 DEF Heard, u

LEMMA HeardAdds ==
  ASSUME NEW units \in Seq(BOOLEAN), NEW i \in 0..Len(units), NEW j \in 0..Len(units), NEW k \in 0..Len(units)
  PROVE  Heard(units, i, k) = Heard(units, i, j) + Heard(units, j, k)
<1>1. Upto(units)[i] \in Int /\ Upto(units)[j] \in Int /\ Upto(units)[k] \in Int
  BY UptoIs
<1>q. QED BY <1>1 DEF Heard

LEMMA SpokenIs == ASSUME NEW units \in Seq(BOOLEAN) PROVE U!Spoken(units) = Heard(units, 0, Len(units))
<1>1. Upto(units)[0] = 0 /\ Upto(units)[Len(units)] \in Int
  BY UptoIs
<1>q. QED BY <1>1, UptoIs DEF Heard

\* A stretch of a part is one of the whole.
LEMMA HeardInPart ==
  ASSUME NEW units \in Seq(BOOLEAN), NEW piece \in Seq(BOOLEAN), NEW n \in Nat, PartOf(piece, units, n)
  PROVE  \A i, j \in 0..Len(piece) : Heard(piece, i, j) = Heard(units, n + i, n + j)
<1>0. Len(piece) \in Nat /\ Len(units) \in Nat /\ n + Len(piece) <= Len(units)
  BY DEF PartOf
<1>1. \A i \in 0..Len(piece) : Upto(piece)[i] = Upto(units)[n + i] - Upto(units)[n]
  <2> DEFINE f == U!Ones(units)  g == U!Ones(piece)
  <2>1. f \in Seq(Int) /\ g \in Seq(Int) /\ Len(f) = Len(units) /\ Len(g) = Len(piece)
    BY OnesAre
  <2>2. ASSUME NEW i \in 1..Len(piece) PROVE g[i] = f[n + i]
    <3>1. n + i \in 1..Len(units)
      BY <1>0
    <3>q. QED BY <3>1, OnesAre, SMTT(30) DEF PartOf
  <2> HIDE DEF f, g
  <2>3. \A i \in 0..Len(piece) : U!SumTo(g)[i] = U!SumTo(f)[n + i] - U!SumTo(f)[n]
    <3>1. PartOf(g, f, n)
      BY <1>0, <2>1, <2>2 DEF PartOf
    <3>q. QED BY <2>1, <3>1, SumOfPart
  <2>q. QED BY <2>3 DEF Upto, f, g
<1>2. ASSUME NEW i \in 0..Len(piece), NEW j \in 0..Len(piece)
      PROVE  Heard(piece, i, j) = Heard(units, n + i, n + j)
  <2>1. n \in 0..Len(units) /\ n + i \in 0..Len(units) /\ n + j \in 0..Len(units)
    BY <1>0
  <2>2. Upto(units)[n] \in Int /\ Upto(units)[n + i] \in Int /\ Upto(units)[n + j] \in Int
    BY <2>1, UptoIs
  <2>q. QED BY <1>1, <2>2 DEF Heard
<1>q. QED BY <1>2

-----------------------------------------------------------------------------
(* Shares in proportion, rounded down. *)

LEMMA NoLess == ASSUME NEW x \in Int, NEW y \in Int, NEW l \in Int, 0 < l, x * l <= y * l PROVE x <= y
<1>1. SUFFICES ASSUME y + 1 <= x PROVE FALSE
  OBVIOUS
<1>2. (x - y) * l >= l
  BY <1>1
<1>3. x * l = (x - y) * l + y * l
  OBVIOUS
<1>q. QED BY <1>2, <1>3

LEMMA MoreTimes == ASSUME NEW x \in Int, NEW y \in Int, NEW l \in Nat, x <= y PROVE x * l <= y * l
  OBVIOUS

LEMMA Square == ASSUME NEW x \in Int PROVE 0 <= x * x
<1>1. CASE 0 <= x
  BY <1>1
<1>2. CASE x < 0
  BY <1>2
<1>q. QED BY <1>1, <1>2

LEMMA MeanSquare == ASSUME NEW x \in Int, NEW y \in Int PROVE 4 * (x * y) <= (x + y) * (x + y)
<1>1. 0 <= (x - y) * (x - y)
  BY Square
<1>2. (x + y) * (x + y) = 4 * (x * y) + (x - y) * (x - y)
  OBVIOUS
<1>3. x * y \in Int /\ (x + y) * (x + y) \in Int /\ (x - y) * (x - y) \in Int
  OBVIOUS
<1>q. QED BY <1>1, <1>2, <1>3

LEMMA SquaresGrow == ASSUME NEW x \in Nat, NEW y \in Nat, x <= y PROVE x * x <= y * y
<1>1. x * x <= x * y /\ x * y <= y * y
  OBVIOUS
<1>q. QED BY <1>1

\* A share in proportion is too much by a quarter at most.
LEMMA NotTooMuch ==
  ASSUME NEW w \in Nat, 0 < w, NEW l \in 0..w, NEW s \in 0..w, NEW e \in Nat, NEW r \in Nat,
         s - (w - l) <= r, e * w <= s * l
  PROVE  4 * (e - r) <= w
<1>1. 4 * (e * w) <= 4 * (s * l)
  OBVIOUS
<1>2. CASE s + l <= w
  <2>1. 4 * (s * l) <= (s + l) * (s + l)
    BY MeanSquare
  <2>2. (s + l) * (s + l) <= w * w
    BY <1>2, SquaresGrow
  <2>3. (4 * e) * w <= w * w
    BY <1>1, <2>1, <2>2
  <2>4. 4 * e <= w
    BY <2>3, NoLess
  <2>q. QED BY <2>4
<1>3. CASE w < s + l
  <2> DEFINE a == w - s  b == w - l
  <2>1. a \in Nat /\ b \in Nat /\ a + b <= w
    BY <1>3
  <2>2. 4 * (a * b) <= (a + b) * (a + b)
    BY MeanSquare
  <2>3. (a + b) * (a + b) <= w * w
    BY <2>1, SquaresGrow
  <2>4. s * l = (s + l - w) * w + a * b
    OBVIOUS
  <2>5. 4 * (s * l) <= (4 * (s + l - w)) * w + w * w
    BY <2>2, <2>3, <2>4
  <2>6. (4 * e) * w <= (4 * (s + l - w) + w) * w
    BY <1>1, <2>5
  <2>7. 4 * e <= 4 * (s + l - w) + w
    BY <2>6, NoLess
  <2>q. QED BY <2>7
<1>q. QED BY <1>2, <1>3

LEMMA ProductAtLeast == ASSUME NEW w \in Nat, NEW r \in Nat, NEW s \in Nat, NEW l \in Nat, r <= s, r <= l
                        PROVE  (4 * r - w) * w <= 4 * (s * l)
<1>1. r * r <= s * l
  <2>1. r * r <= r * l /\ r * l <= s * l
    OBVIOUS
  <2>q. QED BY <2>1
<1>2. 0 <= (2 * r - w) * (2 * r - w)
  BY Square
<1>3. (4 * r - w) * w + (2 * r - w) * (2 * r - w) = 4 * (r * r)
  OBVIOUS
<1>q. QED BY <1>1, <1>2, <1>3

\* And too little by no more than that and its rounding.
LEMMA NotTooLittle ==
  ASSUME NEW w \in Nat, 0 < w, NEW r \in Nat, NEW s \in Nat, NEW l \in Nat, NEW e \in Nat, r <= s, r <= l
  PROVE  /\ (e + 1) * w > s * l => 4 * (r - e) < w + 4
         /\ (2 * e + 3) * w > 2 * (s * l) => 4 * (r - e) < w + 6
<1>1. (4 * r - w) * w <= 4 * (s * l)
  BY ProductAtLeast
<1>2. ASSUME (e + 1) * w > s * l PROVE 4 * (r - e) < w + 4
  <2>1. (4 * r - w) * w < (4 * (e + 1)) * w
    BY <1>1, <1>2
  <2>2. ~ (4 * (e + 1) <= 4 * r - w)
    <3>1. SUFFICES ASSUME 4 * (e + 1) <= 4 * r - w PROVE FALSE
      OBVIOUS
    <3>2. (4 * (e + 1)) * w <= (4 * r - w) * w
      BY <3>1
    <3>q. QED BY <2>1, <3>2
  <2>q. QED BY <2>2
<1>3. ASSUME (2 * e + 3) * w > 2 * (s * l) PROVE 4 * (r - e) < w + 6
  <2>1. (4 * r - w) * w < (4 * e + 6) * w
    BY <1>1, <1>3
  <2>2. ~ (4 * e + 6 <= 4 * r - w)
    <3>1. SUFFICES ASSUME 4 * e + 6 <= 4 * r - w PROVE FALSE
      OBVIOUS
    <3>2. (4 * e + 6) * w <= (4 * r - w) * w
      BY <3>1
    <3>q. QED BY <2>1, <3>2
  <2>q. QED BY <2>2
<1>q. QED BY <1>2, <1>3

\* A quotient rounded down.
LEMMA Quotient == ASSUME NEW x \in Nat, NEW y \in Nat, 0 < y
                  PROVE  /\ x \div y \in Nat /\ (x \div y) * y <= x /\ x < (x \div y + 1) * y
                         /\ (x * y) \div y = x
  OBVIOUS
\* A share of a share is rounded down twice, and is still no more than the share in proportion.
LEMMA SharedAgain ==
  ASSUME NEW w \in Nat, 0 < w, NEW s \in Nat, NEW l \in Nat, 0 < l, NEW k \in Nat, 2 * k <= l, NEW e \in Nat,
         e * w <= s * l
  PROVE  LET f == (e * k) \div l IN
         /\ f \in Nat /\ f * w <= s * k
         /\ (e + 1) * w > s * l => (2 * f + 3) * w > 2 * (s * k)
<1> DEFINE f == (e * k) \div l
<1>1. e * k \in Nat
  OBVIOUS
<1>2. f \in Nat /\ f * l <= e * k /\ e * k < (f + 1) * l
  BY <1>1, Quotient
<1> HIDE DEF f
<1>3. f * w <= s * k
  <2>1. (f * l) * w <= (e * k) * w
    BY <1>2
  <2>2. (e * w) * k <= (s * l) * k
    OBVIOUS
  <2>3. (f * l) * w = (f * w) * l /\ (e * k) * w = (e * w) * k /\ (s * l) * k = (s * k) * l
    BY <1>2
  <2>4. (f * w) * l <= (s * k) * l
    <3> DEFINE a == (f * l) * w  b == (e * k) * w  c == (s * k) * l
    <3>1. a \in Int /\ b \in Int /\ c \in Int
      BY <1>2
    <3>2. a <= b /\ b <= c /\ (f * w) * l = a
      BY <2>1, <2>2, <2>3
    <3> HIDE DEF a, b, c
    <3>3. (f * w) * l <= c
      BY <3>1, <3>2
    <3>q. QED BY <3>3 DEF c
  <2>5. f * w \in Int /\ s * k \in Int
    BY <1>2
  <2>q. QED BY <2>4, <2>5, NoLess
<1>4. ASSUME (e + 1) * w > s * l PROVE (2 * f + 3) * w > 2 * (s * k)
  <2>1. 2 * (e * k) + 2 * k < (2 * f + 3) * l
    BY <1>2
  <2>2. (s * l) * (2 * k) <= ((e + 1) * w) * (2 * k)
    BY <1>4
  <2>3. ((e + 1) * w) * (2 * k) = (2 * (e * k) + 2 * k) * w
    OBVIOUS
  <2>4. (2 * (e * k) + 2 * k) * w < ((2 * f + 3) * l) * w
    BY <2>1, <1>2
  <2>5. (s * l) * (2 * k) = (2 * (s * k)) * l /\ ((2 * f + 3) * l) * w = ((2 * f + 3) * w) * l
    BY <1>2
  <2>6. (2 * (s * k)) * l < ((2 * f + 3) * w) * l
    <3> DEFINE a == (s * l) * (2 * k)  b == (2 * (e * k) + 2 * k) * w  c == ((2 * f + 3) * l) * w
    <3>1. a \in Int /\ b \in Int /\ c \in Int
      BY <1>2
    <3>2. a <= b /\ b < c /\ a = (2 * (s * k)) * l /\ c = ((2 * f + 3) * w) * l
      BY <2>2, <2>3, <2>4, <2>5
    <3> HIDE DEF a, b, c
    <3>q. QED BY <3>1, <3>2
  <2>7. ~ ((2 * f + 3) * w <= 2 * (s * k))
    <3>1. SUFFICES ASSUME (2 * f + 3) * w <= 2 * (s * k) PROVE FALSE
      OBVIOUS
    <3>2. ((2 * f + 3) * w) * l <= (2 * (s * k)) * l
      <4> DEFINE a == (2 * f + 3) * w  b == 2 * (s * k)
      <4>1. a \in Int /\ b \in Int /\ a <= b
        BY <3>1, <1>2
      <4> HIDE DEF a, b
      <4>2. a * l <= b * l
        BY <4>1, MoreTimes
      <4>q. QED BY <4>2 DEF a, b
    <3>3. \A a, b \in Int : ~ (a < b /\ b <= a)
      OBVIOUS
    <3>4. ((2 * f + 3) * w) * l \in Int /\ (2 * (s * k)) * l \in Int
      BY <1>2
    <3>q. QED BY <2>6, <3>2, <3>3, <3>4
  <2>q. QED BY <2>7, <1>2
<1>q. QED BY <1>2, <1>3, <1>4 DEF f

-----------------------------------------------------------------------------
(* What the chunks say of the buffer. Every chunk but the first is a frame *)
(* whose speech is what the gate took for it. The first may be pre-roll,   *)
(* of which nothing is counted, or what cuts left of a frame.              *)

\* l units are left of a frame of 2 * m with s of speech, r of it among them, and e are counted: a
\* share in proportion to what is left, rounded down once; or twice, and half the frame is left at
\* most; or more often, and a quarter is.
SharedOut(l, e, r) ==
  \E m \in 1..U!Longest : \E s \in 0..(2 * m) :
    /\ l <= 2 * m /\ s - (2 * m - l) <= r /\ r <= s
    /\ e * (2 * m) <= s * l
    /\ \/ (e + 1) * (2 * m) > s * l
       \/ 2 * l <= 2 * m /\ (2 * e + 3) * (2 * m) > 2 * (s * l)
       \/ 4 * l <= 2 * m

\* The first chunk is pre-roll or such a share.
FirstIs(l, e, r) == (e = 0 /\ l <= Preroll) \/ SharedOut(l, e, r)

Chunk     == [len : Nat \ {0}, speech : Nat]
End(cs)   == U!SumTo(U!Lens(cs))
IsFrame(l) == \E m \in 1..U!Longest : l = 2 * m

\* A chunk that was pushed whole and that no cut has reached: its count is exact.
Follows(all, cs, i) ==
  IsFrame(cs[i].len) /\ Heard(all, End(cs)[i - 1], End(cs)[i]) = cs[i].speech

\* The chunks account for the buffer.
Accounts(all, cs, heard) ==
  /\ all \in Seq(BOOLEAN) /\ cs \in Seq(Chunk)
  /\ U!Sum(U!Lens(cs)) = Len(all) /\ U!Sum(U!Speeches(cs)) = heard
  /\ \A i \in 2..Len(cs) : Follows(all, cs, i)
  /\ cs # <<>> => FirstIs(cs[1].len, cs[1].speech, Heard(all, 0, End(cs)[1]))

\* What every leaf needs to know of the settings.
LEMMA Settings ==
  /\ U!Longest \in Nat /\ U!Longest \in Frames /\ \A n \in Frames : n \in 1..U!Longest
  /\ MinSpeech \in Nat /\ Preroll \in Nat /\ MaxPushed \in Nat
  /\ U!CutError = 1 + (2 * U!Longest) \div 4 /\ U!CutError \in Nat
<1>1. /\ Frames \subseteq Nat \ {0} /\ \E longest \in Frames : \A frame \in Frames : frame <= longest
      /\ MinSpeech \in Nat /\ Preroll \in Nat /\ MaxPushed \in Nat
  BY Assumptions DEF U!UtterancesAssumption
<1>2. U!Longest \in Frames /\ \A frame \in Frames : frame <= U!Longest
  BY <1>1 DEF U!Longest
<1>3. U!Longest \in Nat
  BY <1>1, <1>2
<1>4. \A n \in Frames : n \in 1..U!Longest
  BY <1>1, <1>2, <1>3
<1>5. U!CutError = 1 + (2 * U!Longest) \div 4
  BY DEF U!CutError, U!SubFrame
<1>q. QED BY <1>1, <1>2, <1>3, <1>4, <1>5

\* So the first chunk's count is near what it holds.
LEMMA FirstIsNear ==
  ASSUME NEW l \in Nat, NEW e \in Nat, NEW r \in 0..l, FirstIs(l, e, r)
  PROVE  e - r < U!CutError /\ r - e <= U!Greater(Preroll, U!CutError)
<1>0. /\ Preroll <= U!Greater(Preroll, U!CutError) /\ U!CutError <= U!Greater(Preroll, U!CutError)
      /\ U!Greater(Preroll, U!CutError) \in Nat
  BY Settings DEF U!Greater
<1>1. CASE e = 0 /\ l <= Preroll
  BY <1>0, <1>1, Settings
<1>2. CASE SharedOut(l, e, r)
  <2>0. PICK m \in 1..U!Longest : \E s \in 0..(2 * m) :
          /\ l <= 2 * m /\ s - (2 * m - l) <= r /\ r <= s
          /\ e * (2 * m) <= s * l
          /\ \/ (e + 1) * (2 * m) > s * l
             \/ 2 * l <= 2 * m /\ (2 * e + 3) * (2 * m) > 2 * (s * l)
             \/ 4 * l <= 2 * m
    BY <1>2 DEF SharedOut
  <2>1. PICK s \in 0..(2 * m) :
          /\ l <= 2 * m /\ s - (2 * m - l) <= r /\ r <= s
          /\ e * (2 * m) <= s * l
          /\ \/ (e + 1) * (2 * m) > s * l
             \/ 2 * l <= 2 * m /\ (2 * e + 3) * (2 * m) > 2 * (s * l)
             \/ 4 * l <= 2 * m
    BY <2>0
  <2> DEFINE w == 2 * m
  <2>2. /\ w \in Nat /\ 0 < w /\ l \in 0..w /\ s \in 0..w /\ s \in Nat /\ r \in Nat
        /\ s - (w - l) <= r /\ e * w <= s * l /\ r <= s /\ r <= l
        /\ (e + 1) * w > s * l \/ (2 * e + 3) * w > 2 * (s * l) \/ 4 * l <= w
    BY <2>1, Settings
  <2>3. w = 2 * m /\ m \in Nat /\ m <= U!Longest
    BY Settings
  <2> HIDE DEF w
  <2>4. 4 * (e - r) <= w
    BY <2>2, NotTooMuch
  <2>5. 4 * (r - e) < w + 6
    <3>1. CASE (e + 1) * w > s * l
      <4>1. 4 * (r - e) < w + 4
        BY <2>2, <3>1, NotTooLittle
      <4>q. QED BY <2>2, <4>1
    <3>2. CASE (2 * e + 3) * w > 2 * (s * l)
      BY <2>2, <3>2, NotTooLittle
    <3>3. CASE 4 * l <= w
      BY <2>2, <3>3
    <3>q. QED BY <2>2, <3>1, <3>2, <3>3
  <2>6. e - r < U!CutError /\ r - e <= U!CutError
    <3>1. r \in Nat /\ U!Longest \in Nat /\ U!CutError = 1 + (2 * U!Longest) \div 4
      BY Settings
    <3>q. QED BY <2>3, <2>4, <2>5, <3>1
  <2>q. QED BY <1>0, <2>6, Settings
<1>q. QED BY <1>1, <1>2 DEF FirstIs

-----------------------------------------------------------------------------
(* Chunks lie end to end. *)

LEMMA LensAre ==
  ASSUME NEW cs \in Seq(Chunk)
  PROVE  /\ Len(cs) \in Nat /\ DOMAIN cs = 1..Len(cs)
         /\ \A i \in 1..Len(cs) : cs[i] \in Chunk /\ cs[i].len \in Nat /\ 0 < cs[i].len /\ cs[i].speech \in Nat
         /\ U!Lens(cs) \in Seq(Int) /\ Len(U!Lens(cs)) = Len(cs)
         /\ \A i \in 1..Len(cs) : U!Lens(cs)[i] = cs[i].len
         /\ U!Speeches(cs) \in Seq(Int) /\ Len(U!Speeches(cs)) = Len(cs)
         /\ \A i \in 1..Len(cs) : U!Speeches(cs)[i] = cs[i].speech
<1>1. Len(cs) \in Nat /\ DOMAIN cs = 1..Len(cs) /\ \A i \in 1..Len(cs) : cs[i] \in Chunk
  OBVIOUS
<1>2. \A i \in 1..Len(cs) : cs[i].len \in Nat /\ 0 < cs[i].len /\ cs[i].speech \in Nat
  BY <1>1 DEF Chunk
<1>3. U!Lens(cs) = [i \in 1..Len(cs) |-> cs[i].len] /\ U!Speeches(cs) = [i \in 1..Len(cs) |-> cs[i].speech]
  BY <1>1 DEF U!Lens, U!Speeches
<1>q. QED BY <1>1, <1>2, <1>3

LEMMA EndsAre ==
  ASSUME NEW cs \in Seq(Chunk)
  PROVE  /\ End(cs) \in [0..Len(cs) -> Int] /\ End(cs)[0] = 0
         /\ \A i \in 1..Len(cs) : End(cs)[i] = End(cs)[i - 1] + cs[i].len
         /\ U!Sum(U!Lens(cs)) = End(cs)[Len(cs)]
         /\ \A i, j \in 0..Len(cs) : i <= j => End(cs)[i] <= End(cs)[j]
         /\ \A i \in 0..Len(cs) : End(cs)[i] \in 0..End(cs)[Len(cs)]
         /\ \A i \in 1..Len(cs) : End(cs)[i - 1] < End(cs)[i]
<1> DEFINE E == End(cs)
           zero == [k \in 0..Len(cs) |-> 0]
<1>0. Len(cs) \in Nat
  BY LensAre
<1>1. /\ E \in [0..Len(cs) -> Int] /\ E[0] = 0
      /\ \A i \in 1..Len(cs) : E[i] = E[i - 1] + cs[i].len
      /\ U!Sum(U!Lens(cs)) = E[Len(cs)]
  BY LensAre, SumToIs DEF End, U!Sum
<1>2. zero \in [0..Len(cs) -> Int]
  OBVIOUS
<1>3. ASSUME NEW k \in 1..Len(cs) PROVE zero[k] - zero[k - 1] <= E[k] - E[k - 1] /\ E[k - 1] < E[k]
  <2>1. k \in 0..Len(cs) /\ k - 1 \in 0..Len(cs) /\ cs[k].len \in Nat /\ 0 < cs[k].len
    BY LensAre, <1>0
  <2>2. zero[k] = 0 /\ zero[k - 1] = 0
    BY <2>1
  <2>3. E[k] = E[k - 1] + cs[k].len /\ E[k - 1] \in Int /\ E[k] \in Int
    BY <1>1, <2>1
  <2> HIDE DEF E, zero
  <2>q. QED BY <2>1, <2>2, <2>3
<1>4. \A i, j \in 0..Len(cs) : i <= j => zero[j] - zero[i] <= E[j] - E[i]
  <2> HIDE DEF E, zero
  <2>q. QED BY <1>0, <1>1, <1>2, <1>3, GrowsLess
<1>5. ASSUME NEW i \in 0..Len(cs), NEW j \in 0..Len(cs), i <= j PROVE E[i] <= E[j]
  <2>1. zero[j] = 0 /\ zero[i] = 0 /\ E[i] \in Int /\ E[j] \in Int
    BY <1>1
  <2>2. zero[j] - zero[i] <= E[j] - E[i]
    BY <1>4, <1>5
  <2> HIDE DEF E, zero
  <2>q. QED BY <2>1, <2>2
<1>6. ASSUME NEW i \in 0..Len(cs) PROVE E[i] \in 0..E[Len(cs)]
  <2>1. 0 \in 0..Len(cs) /\ Len(cs) \in 0..Len(cs) /\ 0 <= i /\ i <= Len(cs)
    BY <1>0
  <2>2. E[0] <= E[i] /\ E[i] <= E[Len(cs)] /\ E[i] \in Int /\ E[Len(cs)] \in Int
    BY <1>1, <1>5, <2>1
  <2> HIDE DEF E, zero
  <2>q. QED BY <1>1, <2>2
<1>q. QED BY <1>1, <1>3, <1>5, <1>6

\* And the buffer's count is: the first chunk's error is all there is.
LEMMA CountIsNear ==
  ASSUME NEW all, NEW cs, NEW heard, Accounts(all, cs, heard)
  PROVE  /\ heard - U!Spoken(all) < U!CutError
         /\ U!Spoken(all) - heard <= U!Greater(Preroll, U!CutError)
         /\ U!Spoken(all) \in Nat /\ heard \in Int
<1> DEFINE E == End(cs)
           H == U!SumTo(U!Speeches(cs))
           n == Len(cs)
<1>0. all \in Seq(BOOLEAN) /\ cs \in Seq(Chunk) /\ Len(all) \in Nat /\ n \in Nat
  BY DEF Accounts
<1>1. /\ E \in [0..n -> Int] /\ E[0] = 0 /\ E[n] = Len(all)
      /\ \A i \in 0..n : E[i] \in 0..Len(all)
      /\ \A i \in 1..n : E[i] = E[i - 1] + cs[i].len /\ E[i - 1] < E[i]
  BY <1>0, EndsAre DEF Accounts
<1>2. /\ H \in [0..n -> Int] /\ H[0] = 0 /\ H[n] = heard
      /\ \A i \in 1..n : H[i] = H[i - 1] + cs[i].speech
  BY <1>0, LensAre, SumToIs DEF Accounts, U!Sum
<1>3. U!Spoken(all) = Heard(all, 0, Len(all)) /\ U!Spoken(all) \in Nat
  <2>1. 0 \in 0..Len(all) /\ Len(all) \in 0..Len(all) /\ 0 <= Len(all)
    BY <1>0
  <2>2. Heard(all, 0, Len(all)) \in 0..(Len(all) - 0)
    BY <1>0, <2>1, HeardIs
  <2>q. QED BY <1>0, <2>2, SpokenIs
<1>4. CASE n = 0
  <2>1. Len(all) = 0 /\ heard = 0
    BY <1>1, <1>2, <1>4
  <2>2. Heard(all, 0, 0) \in 0..(0 - 0)
    <3>1. 0 \in 0..Len(all)
      BY <1>0
    <3>q. QED BY <1>0, <3>1, HeardIs
  <2>3. U!Spoken(all) = 0
    BY <1>3, <2>1, <2>2
  <2>4. U!Greater(Preroll, U!CutError) >= 0 /\ 0 < U!CutError
    BY Settings DEF U!Greater
  <2>q. QED BY <1>3, <2>1, <2>3, <2>4
<1>5. CASE n # 0
  <2> DEFINE s == [k \in 0..(n - 1) |-> Upto(all)[E[k + 1]]]
             t == [k \in 0..(n - 1) |-> H[k + 1]]
  <2>0. n - 1 \in Nat /\ 1 \in 1..n /\ 1 \in 0..n /\ n \in 0..n /\ \A k \in 0..(n - 1) : k + 1 \in 1..n /\ k + 1 \in 0..n
    BY <1>0, <1>5
  <2>1. \A i \in 0..n : Upto(all)[E[i]] \in Int
    BY <1>0, <1>1, UptoIs
  <2>2. s \in [0..(n - 1) -> Int] /\ t \in [0..(n - 1) -> Int]
    BY <1>2, <2>0, <2>1
  <2>3. ASSUME NEW k \in 1..(n - 1) PROVE s[k] - s[k - 1] = t[k] - t[k - 1]
    <3>1. /\ k \in 0..(n - 1) /\ k - 1 \in 0..(n - 1) /\ k + 1 \in 2..n /\ k + 1 \in 1..n
          /\ k \in 0..n /\ k + 1 \in 0..n /\ (k - 1) + 1 = k /\ (k + 1) - 1 = k
      BY <2>0
    <3>2. s[k] = Upto(all)[E[k + 1]] /\ s[k - 1] = Upto(all)[E[k]] /\ t[k] = H[k + 1] /\ t[k - 1] = H[k]
      BY <3>1
    <3>3. Heard(all, E[k], E[k + 1]) = cs[k + 1].speech
      BY <3>1 DEF Accounts, Follows
    <3>4. Upto(all)[E[k + 1]] - Upto(all)[E[k]] = cs[k + 1].speech
      BY <3>3 DEF Heard
    <3>5. H[k + 1] = H[k] + cs[k + 1].speech /\ H[k] \in Int /\ cs[k + 1].speech \in Int
      <4>1. cs[k + 1].speech \in Nat
        BY <1>0, <3>1, LensAre
      <4>2. H[k] \in Int /\ H[k + 1] = H[(k + 1) - 1] + cs[k + 1].speech
        BY <1>2, <3>1
      <4>q. QED BY <4>1, <4>2, <3>1
    <3>6. H[k + 1] - H[k] = cs[k + 1].speech
      <4> HIDE DEF H
      <4>q. QED BY <3>5
    <3>q. QED BY <3>2, <3>4, <3>6
  <2>4. s[n - 1] - s[0] = t[n - 1] - t[0]
    <3>1. 0 \in 0..(n - 1) /\ n - 1 \in 0..(n - 1)
      BY <2>0
    <3> HIDE DEF s, t, n
    <3>q. QED BY <2>0, <2>2, <2>3, <3>1, GrowsAlike
  <2>5. s[n - 1] = Upto(all)[Len(all)] /\ s[0] = Upto(all)[E[1]] /\ t[n - 1] = heard /\ t[0] = H[1]
    <3>1. 0 \in 0..(n - 1) /\ n - 1 \in 0..(n - 1) /\ 0 + 1 = 1 /\ (n - 1) + 1 = n
      BY <2>0
    <3>q. QED BY <3>1, <1>1, <1>2
  <2>6. E[1] = cs[1].len /\ H[1] = cs[1].speech /\ cs[1].len \in Nat /\ cs[1].speech \in Nat /\ E[1] \in 0..Len(all)
    <3>1. 1 - 1 = 0 /\ E[1] = E[1 - 1] + cs[1].len /\ H[1] = H[1 - 1] + cs[1].speech
      BY <1>1, <1>2, <2>0
    <3>2. cs[1].len \in Nat /\ cs[1].speech \in Nat
      BY <1>0, <2>0, LensAre
    <3>3. E[1] \in 0..Len(all)
      BY <1>1, <2>0
    <3>q. QED BY <3>1, <3>2, <3>3, <1>1, <1>2
  <2>7. Heard(all, 0, E[1]) \in 0..(E[1] - 0)
    BY <1>0, <2>6, HeardIs
  <2> DEFINE r == Heard(all, 0, E[1])
             l == cs[1].len
             e == cs[1].speech
  <2>8. FirstIs(l, e, r)
    <3>1. cs # <<>>
      BY <1>5
    <3>q. QED BY <3>1 DEF Accounts
  <2>9. r \in 0..l
    BY <2>6, <2>7
  <2>10. e - r < U!CutError /\ r - e <= U!Greater(Preroll, U!CutError)
    <3> HIDE DEF l, e, r
    <3>1. l \in Nat /\ e \in Nat
      BY <2>6 DEF l, e
    <3>q. QED BY <2>8, <2>9, <3>1, FirstIsNear
  <2>11. U!Spoken(all) - heard = r - e
    <3>1. U!Spoken(all) = Upto(all)[Len(all)] - Upto(all)[0] /\ r = Upto(all)[E[1]] - Upto(all)[0] /\ Upto(all)[0] = 0
      BY <1>0, <1>3, UptoIs DEF Heard
    <3> DEFINE a == Upto(all)[Len(all)]  b == Upto(all)[E[1]]
    <3>2. a \in Int /\ b \in Int /\ e \in Int /\ heard \in Int
      <4>1. heard \in Int
        BY <1>2, <2>0
      <4>q. QED BY <4>1, <1>0, <1>1, <2>1, <2>0, <2>6
    <3>3. a - b = heard - e
      BY <2>4, <2>5, <2>6
    <3>4. U!Spoken(all) = a /\ r = b
      <4>1. a - 0 = a /\ b - 0 = b
        BY <3>2
      <4>q. QED BY <3>1, <4>1
    <3> HIDE DEF a, b, e, r
    <3>q. QED BY <3>2, <3>3, <3>4
  <2>12. heard \in Int /\ r \in Int /\ e \in Int
    BY <1>2, <2>0, <2>6, <2>9
  <2> HIDE DEF r, e
  <2>13. U!CutError \in Nat /\ U!Greater(Preroll, U!CutError) \in Nat
    BY Settings DEF U!Greater
  <2>q. QED BY <1>3, <2>10, <2>11, <2>12, <2>13
<1>q. QED BY <1>4, <1>5

-----------------------------------------------------------------------------
(* A cut. *)

\* Which chunks are consumed whole.
LEMMA GoneIs ==
  ASSUME NEW cs \in Seq(Chunk), NEW n \in Nat
  PROVE  \E g \in 0..Len(cs) : \A i \in 1..Len(cs) : i <= g <=> End(cs)[i] <= n
<1> DEFINE E == End(cs)
           T == {i \in 0..Len(cs) : E[i] <= n}
<1>0. /\ Len(cs) \in Nat /\ E \in [0..Len(cs) -> Int] /\ E[0] = 0
      /\ \A i, j \in 0..Len(cs) : i <= j => E[i] <= E[j]
  BY LensAre, EndsAre
<1>1. 0 \in T
  BY <1>0
<1>2. PICK g \in T : \A y \in T : y <= g
  BY <1>0, <1>1, GreatestOfSet
<1>3. ASSUME NEW i \in 1..Len(cs) PROVE i <= g <=> E[i] <= n
  <2>1. i \in 0..Len(cs) /\ g \in 0..Len(cs) /\ E[g] <= n /\ E[i] \in Int /\ E[g] \in Int
    BY <1>0
  <2>2. ASSUME i <= g PROVE E[i] <= n
    <3>1. E[i] <= E[g]
      BY <1>0, <2>1, <2>2
    <3> HIDE DEF E
    <3>q. QED BY <2>1, <3>1
  <2>3. ASSUME E[i] <= n PROVE i <= g
    BY <2>1, <2>3, <1>2
  <2>q. QED BY <2>2, <2>3
<1>q. QED BY <1>2, <1>3

\* What a cut leaves of the chunks.
LEMMA AfterIs ==
  ASSUME NEW cs \in Seq(Chunk), NEW n \in Nat
  PROVE  \E g \in 0..Len(cs) :
           /\ \A i \in 1..Len(cs) : i <= g <=> End(cs)[i] <= n
           /\ U!After(cs, n) \in Seq(Chunk) /\ Len(U!After(cs, n)) = Len(cs) - g
           /\ \A j \in 1..(Len(cs) - g) :
                /\ U!After(cs, n)[j].len = U!Lesser(cs[g + j].len, End(cs)[g + j] - n)
                /\ U!After(cs, n)[j].speech
                     = (cs[g + j].speech * U!After(cs, n)[j].len) \div cs[g + j].len
<1> DEFINE Gone(g) == \A i \in DOMAIN cs : i <= g <=> U!SumTo(U!Lens(cs))[i] <= n
           g == CHOOSE g \in 0..Len(cs) : Gone(g)
           kept == U!After(cs, n)
           Rest(j) == [len |-> U!Left(cs, n, g + j), speech |-> U!Share(cs[g + j], U!Left(cs, n, g + j))]
<1>0. Len(cs) \in Nat /\ DOMAIN cs = 1..Len(cs)
  BY LensAre
<1>1. \E x \in 0..Len(cs) : Gone(x)
  BY <1>0, GoneIs DEF End
<1>2. g \in 0..Len(cs) /\ Gone(g)
  <2> HIDE DEF Gone
  <2>q. QED BY <1>1
<1>3. kept = [j \in 1..(Len(cs) - g) |-> Rest(j)]
  BY DEF U!After
<1>4. \A i \in 1..Len(cs) : i <= g <=> End(cs)[i] <= n
  BY <1>0, <1>2 DEF End
<1> HIDE DEF g, kept, Gone
<1>5. Len(cs) - g \in Nat
  BY <1>0, <1>2
<1>6. ASSUME NEW j \in 1..(Len(cs) - g)
      PROVE  /\ g + j \in 1..Len(cs) /\ Rest(j).len = U!Lesser(cs[g + j].len, End(cs)[g + j] - n)
             /\ Rest(j).speech = (cs[g + j].speech * Rest(j).len) \div cs[g + j].len
             /\ Rest(j) \in Chunk
  <2>1. g + j \in 1..Len(cs) /\ g + j \in 0..Len(cs) /\ ~ (g + j <= g)
    BY <1>0, <1>2
  <2>2. End(cs)[g + j] > n /\ End(cs)[g + j] \in Int
    <3>1. End(cs)[g + j] \in Int
      BY <2>1, EndsAre
    <3>2. ~ (End(cs)[g + j] <= n)
      BY <2>1, <1>4
    <3>q. QED BY <3>1, <3>2
  <2>3. Rest(j).len = U!Lesser(cs[g + j].len, End(cs)[g + j] - n)
    BY DEF U!Left, End
  <2>4. Rest(j).speech = (cs[g + j].speech * Rest(j).len) \div cs[g + j].len
    BY DEF U!Share
  <2>5. cs[g + j].len \in Nat /\ 0 < cs[g + j].len /\ cs[g + j].speech \in Nat
    BY <2>1, LensAre
  <2>6. Rest(j).len \in Nat \ {0}
    <3>1. End(cs)[g + j] - n \in Nat \ {0}
      BY <2>2
    <3>q. QED BY <2>3, <2>5, <3>1 DEF U!Lesser
  <2>7. Rest(j).speech \in Nat
    <3> DEFINE a == cs[g + j].speech  b == Rest(j).len  c == cs[g + j].len
    <3>1. a \in Nat /\ b \in Nat /\ c \in Nat /\ 0 < c
      BY <2>5, <2>6
    <3>2. Rest(j).speech = (a * b) \div c
      BY <2>4
    <3> HIDE DEF a, b, c
    <3>3. a * b \in Nat
      BY <3>1
    <3>q. QED BY <3>1, <3>2, <3>3, Quotient
  <2>q. QED BY <2>1, <2>3, <2>4, <2>6, <2>7 DEF Chunk
<1>7. kept \in [1..(Len(cs) - g) -> Chunk]
  BY <1>3, <1>6
<1>8. kept \in Seq(Chunk) /\ Len(kept) = Len(cs) - g
  BY <1>5, <1>7
<1>9. \A j \in 1..(Len(cs) - g) :
        /\ kept[j].len = U!Lesser(cs[g + j].len, End(cs)[g + j] - n)
        /\ kept[j].speech = (cs[g + j].speech * kept[j].len) \div cs[g + j].len
  BY <1>3, <1>6
<1>q. QED BY <1>2, <1>4, <1>8, <1>9 DEF kept

\* What a cut leaves of the buffer.
LEMMA RestIs ==
  ASSUME NEW all \in Seq(BOOLEAN), NEW n \in 0..Len(all)
  PROVE  LET rest == SubSeq(all, n + 1, Len(all)) IN
         /\ rest \in Seq(BOOLEAN) /\ Len(rest) = Len(all) - n /\ PartOf(rest, all, n)
<1> DEFINE rest == SubSeq(all, n + 1, Len(all))
<1>0. Len(all) \in Nat /\ n \in Nat /\ Len(all) - n \in Nat
  OBVIOUS
<1>1. rest = [i \in 1..(Len(all) - n) |-> all[n + i]]
  <2>1. rest = [i \in 1..((Len(all) - (n + 1)) + 1) |-> all[(i + (n + 1)) - 1]]
    BY SMTT(30), <1>0 DEF SubSeq
  <2>2. (Len(all) - (n + 1)) + 1 = Len(all) - n
    BY <1>0
  <2>3. \A i \in 1..(Len(all) - n) : (i + (n + 1)) - 1 = n + i
    BY <1>0
  <2>q. QED BY <2>1, <2>2, <2>3
<1> HIDE DEF rest
<1>2. \A i \in 1..(Len(all) - n) : n + i \in 1..Len(all)
  BY <1>0
<1>3. rest \in [1..(Len(all) - n) -> BOOLEAN]
  BY <1>1, <1>2
<1>4. rest \in Seq(BOOLEAN) /\ Len(rest) = Len(all) - n
  BY <1>0, <1>3
<1>5. \A i \in 1..Len(rest) : rest[i] = all[n + i]
  BY <1>1, <1>4
<1>6. n + Len(rest) <= Len(all)
  BY <1>0, <1>4
<1>q. QED BY <1>4, <1>5, <1>6 DEF rest, PartOf

LEMMA Within ==
  ASSUME NEW n \in Nat, NEW h \in Nat, NEW e \in 0..h, n < e, NEW f, NEW r, f = e - n, r = h - n
  PROVE  f \in 0..r /\ n + f = e
OBVIOUS

LEMMA StepBack ==
  ASSUME NEW a \in Int, NEW b \in Int, NEW l \in Int, NEW n \in Int, b = a + l
  PROVE  b - n = (a - n) + l
OBVIOUS

\* After a cut no earlier than half way the chunks account for what is left.
LEMMA CutAccounts ==
  ASSUME NEW all, NEW cs, NEW heard, Accounts(all, cs, heard), NEW n \in 0..Len(all), Len(all) <= 2 * n
  PROVE  LET kept == U!After(cs, n) IN
         Accounts(SubSeq(all, n + 1, Len(all)), kept, U!Sum(U!Speeches(kept)))
<1> DEFINE kept == U!After(cs, n)
           rest == SubSeq(all, n + 1, Len(all))
           E == End(cs)
           F == End(kept)
<1>0. all \in Seq(BOOLEAN) /\ cs \in Seq(Chunk) /\ Len(all) \in Nat /\ Len(cs) \in Nat /\ n \in Nat
  <2>1. all \in Seq(BOOLEAN) /\ cs \in Seq(Chunk)
    BY DEF Accounts
  <2>q. QED BY <2>1
<1>1. /\ E \in [0..Len(cs) -> Int] /\ E[0] = 0 /\ E[Len(cs)] = Len(all)
      /\ \A i \in 0..Len(cs) : E[i] \in 0..Len(all)
      /\ \A i \in 1..Len(cs) : E[i] = E[i - 1] + cs[i].len /\ E[i - 1] < E[i]
      /\ \A i, j \in 0..Len(cs) : i <= j => E[i] <= E[j]
  BY <1>0, EndsAre DEF Accounts
<1>2. PICK g \in 0..Len(cs) :
           /\ \A i \in 1..Len(cs) : i <= g <=> E[i] <= n
           /\ kept \in Seq(Chunk) /\ Len(kept) = Len(cs) - g
           /\ \A j \in 1..(Len(cs) - g) :
                /\ kept[j].len = U!Lesser(cs[g + j].len, E[g + j] - n)
                /\ kept[j].speech = (cs[g + j].speech * kept[j].len) \div cs[g + j].len
  BY <1>0, AfterIs
<1> DEFINE m == Len(cs) - g
<1> HIDE DEF kept, rest
<1>3. rest \in Seq(BOOLEAN) /\ Len(rest) = Len(all) - n /\ PartOf(rest, all, n)
  BY <1>0, RestIs DEF rest
<1>4. m \in Nat /\ g \in Nat /\ Len(kept) = m /\ g + m = Len(cs)
  BY <1>0, <1>2
<1>5. E[g] <= n /\ E[g] \in Nat
  <2>1. E[g] \in 0..Len(all)
    BY <1>1
  <2>2. CASE g = 0
    BY <1>0, <1>1, <2>2
  <2>3. CASE g # 0
    <3>1. g \in 1..Len(cs) /\ g <= g
      BY <1>0, <2>3
    <3>q. QED BY <1>2, <2>1, <3>1
  <2>q. QED BY <2>1, <2>2, <2>3
<1>6. ASSUME NEW j \in 1..m
      PROVE  /\ g + j \in 1..Len(cs) /\ g + j \in 0..Len(cs) /\ (g + j) - 1 = g + (j - 1)
             /\ E[g + j] \in 0..Len(all) /\ n < E[g + j]
             /\ cs[g + j].len \in Nat /\ 0 < cs[g + j].len /\ cs[g + j].speech \in Nat
             /\ E[g + j] = E[g + (j - 1)] + cs[g + j].len /\ g + (j - 1) \in 0..Len(cs)
             /\ E[g + (j - 1)] \in 0..Len(all)
  <2>1. g + j \in 1..Len(cs) /\ g + j \in 0..Len(cs) /\ (g + j) - 1 = g + (j - 1) /\ ~ (g + j <= g) /\ g + (j - 1) \in 0..Len(cs)
    BY <1>4
  <2>2. E[g + j] \in 0..Len(all) /\ ~ (E[g + j] <= n)
    BY <1>1, <1>2, <2>1
  <2>3. cs[g + j].len \in Nat /\ 0 < cs[g + j].len /\ cs[g + j].speech \in Nat
    BY <1>0, <2>1, LensAre
  <2>4. E[g + j] = E[g + (j - 1)] + cs[g + j].len
    BY <1>1, <2>1
  <2>5. n < E[g + j]
    BY <1>0, <2>2
  <2>6. E[g + (j - 1)] \in 0..Len(all)
    BY <1>1, <2>1
  <2>q. QED BY <2>1, <2>2, <2>3, <2>4, <2>5, <2>6
<1>7. ASSUME NEW j \in 2..m
      PROVE  /\ j \in 1..m /\ j - 1 \in 1..m /\ g + j \in 2..Len(cs)
             /\ kept[j].len = cs[g + j].len /\ kept[j].speech = cs[g + j].speech
  <2>1. j \in 1..m /\ j - 1 \in 1..m /\ g + j \in 2..Len(cs)
    BY <1>4
  <2> DEFINE a == E[g + (j - 1)]  b == E[g + j]  l == cs[g + j].len  e == cs[g + j].speech
  <2>2. b = a + l /\ a \in Nat /\ b \in Nat /\ l \in Nat /\ n < a /\ e \in Nat /\ 0 < l
    <3>1. b = a + l /\ l \in Nat /\ 0 < l /\ e \in Nat
      BY <2>1, <1>6
    <3>2. n < a
      BY <2>1, <1>6
    <3>3. a \in 0..Len(all) /\ b \in 0..Len(all)
      BY <2>1, <1>6
    <3>4. a \in Nat /\ b \in Nat
      BY <1>0, <3>3
    <3>q. QED BY <3>1, <3>2, <3>4
  <2>3. kept[j].len = U!Lesser(l, b - n) /\ kept[j].speech = (e * kept[j].len) \div l
    BY <1>2, <2>1
  <2> HIDE DEF a, b, l, e
  <2>4. l < b - n
    BY <1>0, <2>2
  <2>5. kept[j].len = l
    BY <2>3, <2>4 DEF U!Lesser
  <2>6. kept[j].speech = e
    BY <2>2, <2>3, <2>5, Quotient
  <2>q. QED BY <2>1, <2>5, <2>6 DEF l, e
<1>8. ASSUME 1 \in 1..m
      PROVE  kept[1].len = E[g + 1] - n /\ kept[1].speech = (cs[g + 1].speech * kept[1].len) \div cs[g + 1].len
  <2> DEFINE a == E[g]  b == E[g + 1]  l == cs[g + 1].len
  <2>1. b = a + l /\ a \in Nat /\ b \in Nat /\ l \in Nat
    <3>1. g + (1 - 1) = g
      BY <1>4
    <3>q. QED BY <1>5, <1>6, <1>8, <3>1
  <2>2. kept[1].len = U!Lesser(l, b - n) /\ kept[1].speech = (cs[g + 1].speech * kept[1].len) \div l
    BY <1>2, <1>8
  <2>3. a <= n
    BY <1>5
  <2> HIDE DEF a, b, l
  <2>4. kept[1].len = b - n
    BY <1>0, <2>1, <2>2, <2>3 DEF U!Lesser
  <2>q. QED BY <2>2, <2>4 DEF b, l
<1>9. \A j \in 1..m : F[j] = E[g + j] - n
  <2> DEFINE t == [j \in 0..m |-> IF j = 0 THEN 0 ELSE E[g + j] - n]
  <2>1. F \in [0..m -> Int] /\ F[0] = 0 /\ \A j \in 1..m : F[j] = F[j - 1] + kept[j].len
    BY <1>2, <1>4, EndsAre
  <2>2. t \in [0..m -> Int]
    <3>1. ASSUME NEW j \in 0..m, j # 0 PROVE E[g + j] - n \in Int
      <4>1. j \in 1..m
        BY <1>4, <3>1
      <4>2. E[g + j] \in 0..Len(all)
        BY <4>1, <1>6
      <4>3. E[g + j] \in Int
        BY <1>0, <4>2
      <4> HIDE DEF E
      <4>q. QED BY <1>0, <4>3
    <3> HIDE DEF E, m
    <3>q. QED BY <3>1
  <2>3. ASSUME NEW j \in 1..m PROVE F[j] - F[j - 1] = t[j] - t[j - 1]
    <3>1. j \in 0..m /\ j - 1 \in 0..m /\ j # 0 /\ t[j] = E[g + j] - n
      BY <1>4
    <3>2. F[j] = F[j - 1] + kept[j].len /\ F[j - 1] \in Int
      BY <2>1, <3>1
    <3>3. t[j] = t[j - 1] + kept[j].len /\ kept[j].len \in Int
      <4>1. CASE j = 1
        <5>1. t[j - 1] = 0
          BY <4>1, <3>1
        <5>2. E[g + j] - n \in Int /\ kept[j].len = E[g + j] - n
          BY <4>1, <1>0, <1>6, <1>8
        <5>q. QED BY <3>1, <5>1, <5>2
      <4>2. CASE j # 1
        <5>1. j \in 2..m /\ j - 1 # 0
          BY <4>2, <1>4
        <5>2. t[j - 1] = E[g + (j - 1)] - n
          BY <3>1, <5>1
        <5>3. kept[j].len = cs[g + j].len
          BY <1>7, <5>1
        <5>4. E[g + j] = E[g + (j - 1)] + cs[g + j].len /\ cs[g + j].len \in Int
          <6>1. E[g + j] = E[g + (j - 1)] + cs[g + j].len
            BY <1>6
          <6>2. cs[g + j].len \in Nat
            BY <1>6
          <6> HIDE DEF E, t, F
          <6>q. QED BY <6>1, <6>2
        <5>5. E[g + (j - 1)] \in Int /\ E[g + j] \in Int /\ n \in Int
          <6>1. E[g + (j - 1)] \in 0..Len(all) /\ E[g + j] \in 0..Len(all)
            BY <1>6
          <6>q. QED BY <1>0, <6>1
        <5>6. E[g + j] - n = (E[g + (j - 1)] - n) + cs[g + j].len
          <6> DEFINE a == E[g + (j - 1)]  b == E[g + j]  l == cs[g + j].len
          <6>1. a \in Int /\ b \in Int /\ l \in Int /\ n \in Int /\ b = a + l
            BY <5>4, <5>5
          <6> HIDE DEF a, b, l
          <6>2. b - n = (a - n) + l
            BY <6>1, StepBack
          <6>q. QED BY <6>2 DEF a, b, l
        <5>7. t[j] = E[g + j] - n
          BY <3>1
        <5> HIDE DEF t, E, F
        <5>q. QED BY <5>2, <5>3, <5>4, <5>6, <5>7
      <4>q. QED BY <4>1, <4>2
    <3> HIDE DEF t, F
    <3>4. F[j] \in Int /\ t[j] \in Int /\ t[j - 1] \in Int
      BY <2>1, <2>2, <3>1
    <3>q. QED BY SMTT(30), <3>2, <3>3, <3>4, SameStep
  <2>4. \A i, j \in 0..m : F[j] - F[i] = t[j] - t[i]
    <3> HIDE DEF t, F, m
    <3>q. QED BY ZenonT(30), <1>4, <2>1, <2>2, <2>3, GrowsAlike
  <2>5. ASSUME NEW j \in 1..m PROVE F[j] = E[g + j] - n
    <3>1. j \in 0..m /\ 0 \in 0..m /\ j # 0
      BY <1>4
    <3>2. t[j] = E[g + j] - n /\ t[0] = 0
      BY <3>1
    <3>3. F[j] \in Int /\ t[j] \in Int /\ F[j] - F[0] = t[j] - t[0] /\ F[0] = 0
      BY <2>1, <2>2, <2>4, <3>1
    <3>4. F[j] = t[j]
      <4> HIDE DEF t, F
      <4>q. QED BY <3>2, <3>3
    <3>q. QED BY <3>2, <3>4
  <2>q. QED BY <2>5
<1>10. \A i, j \in 0..Len(rest) : Heard(rest, i, j) = Heard(all, n + i, n + j)
  BY <1>0, <1>3, HeardInPart
<1>11. ASSUME NEW j \in 1..m PROVE F[j] \in 0..Len(rest) /\ n + F[j] = E[g + j]
  <2>1. F[j] = E[g + j] - n /\ E[g + j] \in 0..Len(all) /\ n < E[g + j]
    BY <1>6, <1>9
  <2>2. Len(rest) = Len(all) - n
    BY <1>3
  <2> DEFINE f == F[j]  e == E[g + j]  h == Len(all)  r == Len(rest)
  <2>3. f = e - n /\ e \in 0..h /\ n < e /\ r = h - n /\ n \in Nat /\ h \in Nat
    BY <1>0, <2>1, <2>2
  <2> HIDE DEF f, e, h, r
  <2>4. f \in 0..r /\ n + f = e
    BY <2>3, Within
  <2>q. QED BY <2>4 DEF f, e, r
<1>12. U!Sum(U!Lens(kept)) = Len(rest)
  <2>1. U!Sum(U!Lens(kept)) = F[m] /\ F[0] = 0
    BY <1>2, <1>4, EndsAre
  <2>2. CASE m = 0
    <3>1. E[g] = Len(all)
      BY <1>1, <1>4, <2>2
    <3>2. Len(rest) = 0
      BY <1>0, <1>3, <1>5, <3>1
    <3>q. QED BY <2>1, <2>2, <3>2
  <2>3. CASE m # 0
    <3>1. m \in 1..m
      BY <1>4, <2>3
    <3>2. F[m] = Len(all) - n
      BY <1>1, <1>4, <1>9, <3>1
    <3>q. QED BY <1>3, <2>1, <3>2
  <2>q. QED BY <2>2, <2>3
<1>13. ASSUME NEW j \in 2..Len(kept) PROVE Follows(rest, kept, j)
  <2>1. j \in 2..m /\ j \in 1..m /\ j - 1 \in 1..m /\ g + j \in 2..Len(cs) /\ kept[j].len = cs[g + j].len /\ kept[j].speech = cs[g + j].speech
    BY <1>4, <1>7
  <2>2. Heard(rest, F[j - 1], F[j]) = Heard(all, E[g + (j - 1)], E[g + j])
    BY <1>10, <1>11, <2>1
  <2>3. IsFrame(cs[g + j].len) /\ Heard(all, E[(g + j) - 1], E[g + j]) = cs[g + j].speech
    BY <2>1 DEF Accounts, Follows
  <2>4. (g + j) - 1 = g + (j - 1)
    BY <1>6, <2>1
  <2>q. QED BY <2>1, <2>2, <2>3, <2>4 DEF Follows
<1>14. ASSUME kept # <<>> PROVE FirstIs(kept[1].len, kept[1].speech, Heard(rest, 0, F[1]))
  <2>0. 1 \in 1..m
    <3>1. Len(kept) # 0
      BY <1>2, <1>14
    <3>q. QED BY <1>4, <3>1
  <2> DEFINE a == E[g]  b == E[g + 1]  w == cs[g + 1].len  s == cs[g + 1].speech
             l == kept[1].len  e == kept[1].speech  r == Heard(rest, 0, F[1])
  <2>1. /\ a \in Nat /\ b \in 0..Len(all) /\ b \in Nat /\ w \in Nat /\ 0 < w /\ s \in Nat
        /\ b = a + w /\ a <= n /\ n < b
        /\ l = b - n /\ e = (s * l) \div w
    <3>1. g + (1 - 1) = g
      BY <1>4
    <3>q. QED BY <1>5, <1>6, <1>8, <2>0, <3>1
  <2>2. r = Heard(all, n, b)
    <3>1. 0 \in 0..Len(rest) /\ n + 0 = n
      BY <1>0, <1>3
    <3>q. QED BY <1>10, <1>11, <2>0, <3>1
  <2>3. a \in 0..Len(all) /\ n \in 0..Len(all)
    BY <1>0, <2>1
  <2>4. /\ Heard(all, a, b) = Heard(all, a, n) + r
        /\ Heard(all, a, n) \in 0..(n - a) /\ r \in 0..(b - n)
    <3>1. a <= n /\ n <= b
      BY <1>0, <2>1
    <3> HIDE DEF a, b, r
    <3>q. QED BY <1>0, <2>1, <2>2, <2>3, <3>1, HeardAdds, HeardIs
  <2>5. CASE g # 0
    <3>1. g + 1 \in 2..Len(cs) /\ (g + 1) - 1 = g
      BY <1>4, <2>0, <2>5
    <3>2. IsFrame(w) /\ Heard(all, a, b) = s
      BY <3>1 DEF Accounts, Follows
    <3>3. PICK k \in 1..U!Longest : w = 2 * k
      BY <3>2 DEF IsFrame
    <3>4. k \in Nat
      BY Settings
    <3> DEFINE x == Heard(all, a, n)
    <3>5. x \in Nat /\ x <= n - a /\ r \in Nat /\ r <= b - n /\ s = x + r
      BY <1>0, <2>1, <2>4, <3>2
    <3> HIDE DEF a, b, w, s, l, e, r, x
    <3>6. s \in 0..(2 * k) /\ l <= 2 * k /\ s - (2 * k - l) <= r /\ r <= s /\ l \in Nat
      BY <1>0, <2>1, <3>3, <3>4, <3>5
    <3>7. s * l \in Nat
      BY <2>1, <3>6
    <3>8. e * w <= s * l /\ s * l < (e + 1) * w
      BY <2>1, <3>7, Quotient
    <3>9. SharedOut(l, e, r)
      BY <3>3, <3>6, <3>8 DEF SharedOut
    <3>q. QED BY <3>9 DEF FirstIs, l, e, r
  <2>6. CASE g = 0
    <3>1. a = 0 /\ cs # <<>> /\ b = w /\ 0 + 1 = 1
      <4>1. Len(cs) # 0
        BY <1>4, <2>0, <2>6
      <4>2. a = 0
        BY <1>1, <2>6
      <4>q. QED BY <2>1, <4>1, <4>2
    <3>2. FirstIs(w, s, Heard(all, 0, b))
      BY <2>6, <3>1 DEF Accounts
    <3> DEFINE x == Heard(all, 0, n)  q == Heard(all, 0, b)
    <3>3. x \in Nat /\ x <= n /\ r \in Nat /\ r <= b - n /\ q = x + r
      <4>1. n - 0 = n
        BY <1>0
      <4>q. QED BY <1>0, <2>1, <2>4, <3>1, <4>1
    <3>4. b <= Len(all)
      BY <2>1, <1>0
    <3> HIDE DEF a, b, w, s, l, e, r, x, q
    <3>5. /\ l \in Nat /\ 0 < l /\ 2 * l <= w /\ l <= w /\ s * l \in Nat
      <4>1. l \in Nat /\ 0 < l /\ 2 * l <= w
        BY <1>0, <2>1, <3>1, <3>4
      <4>q. QED BY <2>1, <4>1
    <3>6. CASE s = 0 /\ w <= Preroll
      <4>1. e = 0
        BY <2>1, <3>5, <3>6, Quotient
      <4>2. l <= Preroll
        BY <2>1, <3>5, <3>6, Settings
      <4>q. QED BY <4>1, <4>2 DEF FirstIs, l, e, r
    <3>7. CASE SharedOut(w, s, q)
      <4>1. PICK k \in 1..U!Longest : \E y \in 0..(2 * k) :
              /\ w <= 2 * k /\ y - (2 * k - w) <= q /\ q <= y
              /\ s * (2 * k) <= y * w
              /\ \/ (s + 1) * (2 * k) > y * w
                 \/ 2 * w <= 2 * k /\ (2 * s + 3) * (2 * k) > 2 * (y * w)
                 \/ 4 * w <= 2 * k
        BY <3>7 DEF SharedOut
      <4>2. PICK y \in 0..(2 * k) :
              /\ w <= 2 * k /\ y - (2 * k - w) <= q /\ q <= y
              /\ s * (2 * k) <= y * w
              /\ \/ (s + 1) * (2 * k) > y * w
                 \/ 2 * w <= 2 * k /\ (2 * s + 3) * (2 * k) > 2 * (y * w)
                 \/ 4 * w <= 2 * k
        BY <4>1
      <4> DEFINE W == 2 * k
      <4>3. W \in Nat /\ 0 < W /\ y \in Nat /\ W = 2 * k
        BY Settings
      <4> HIDE DEF W
      <4>4. l <= W /\ y - (W - l) <= r /\ r <= y
        BY <1>0, <2>1, <3>1, <3>3, <3>5, <4>2, <4>3
      <4>5. e * W <= y * l /\ ((s + 1) * W > y * w => (2 * e + 3) * W > 2 * (y * l))
        <5>1. s * W <= y * w /\ e = (s * l) \div w
          BY <2>1, <4>2, <4>3
        <5>q. QED BY <5>1, <2>1, <3>5, <4>3, SharedAgain
      <4>6. (2 * l <= W /\ (2 * e + 3) * W > 2 * (y * l)) \/ 4 * l <= W
        <5>1. CASE (s + 1) * W > y * w
          <6>1. 2 * l <= W
            BY <3>5, <4>2, <4>3, <2>1
          <6>q. QED BY <5>1, <6>1, <4>5
        <5>2. CASE 2 * w <= W
          BY <5>2, <2>1, <3>5, <4>3
        <5>3. CASE 4 * w <= W
          BY <5>3, <2>1, <3>5, <4>3
        <5>q. QED BY <4>2, <4>3, <5>1, <5>2, <5>3
      <4>7. SharedOut(l, e, r)
        BY <4>2, <4>3, <4>4, <4>5, <4>6 DEF SharedOut
      <4>q. QED BY <4>7 DEF FirstIs, l, e, r
    <3>q. QED BY <3>2, <3>6, <3>7 DEF FirstIs, q
  <2>q. QED BY <2>5, <2>6
<1>q. QED BY <1>2, <1>3, <1>12, <1>13, <1>14 DEF Accounts, kept, rest

\* Sums up to where two sequences agree are the same.
LEMMA SumOfPrefix ==
  ASSUME NEW f \in Seq(Int), NEW g \in Seq(Int), PartOf(g, f, 0)
  PROVE  \A i \in 0..Len(g) : U!SumTo(f)[i] = U!SumTo(g)[i]
<1>0. Len(g) \in Nat /\ Len(f) \in Nat /\ Len(g) <= Len(f)
  BY DEF PartOf
<1>1. ASSUME NEW i \in 0..Len(g) PROVE U!SumTo(f)[i] = U!SumTo(g)[i]
  <2>1. U!SumTo(g)[i] = U!SumTo(f)[0 + i] - U!SumTo(f)[0]
    BY SumOfPart
  <2>2. 0 + i = i /\ i \in 0..Len(f)
    BY <1>0
  <2>3. U!SumTo(f)[0] = 0 /\ U!SumTo(f)[i] \in Int
    BY <2>2, SumToIs
  <2> DEFINE x == U!SumTo(g)[i]  y == U!SumTo(f)[i]
  <2>4. x = y - 0 /\ y \in Int
    BY <2>1, <2>2, <2>3
  <2> HIDE DEF x, y
  <2>5. x = y
    BY <2>4
  <2>q. QED BY <2>5 DEF x, y
<1>q. QED BY <1>1

\* What is heard in a buffer that was pushed to.
LEMMA JoinedAre ==
  ASSUME NEW all \in Seq(BOOLEAN), NEW units \in Seq(BOOLEAN)
  PROVE  LET big == all \o units IN
         /\ big \in Seq(BOOLEAN) /\ Len(big) = Len(all) + Len(units)
         /\ \A i, j \in 0..Len(all) : Heard(big, i, j) = Heard(all, i, j)
         /\ Heard(big, Len(all), Len(big)) = U!Spoken(units)
<1> DEFINE big == all \o units
<1>0. Len(all) \in Nat /\ Len(units) \in Nat
  OBVIOUS
<1>1. /\ big \in Seq(BOOLEAN) /\ Len(big) = Len(all) + Len(units)
      /\ \A i \in 1..Len(all) : all[i] = big[i]
      /\ \A i \in 1..Len(units) : units[i] = big[Len(all) + i]
  OBVIOUS
<1> HIDE DEF big
<1>2. PartOf(all, big, 0)
  <2>1. \A i \in 1..Len(all) : 0 + i = i
    BY <1>0
  <2>q. QED BY <1>0, <1>1, <2>1 DEF PartOf
<1>3. PartOf(units, big, Len(all))
  BY <1>0, <1>1 DEF PartOf
<1>4. ASSUME NEW i \in 0..Len(all), NEW j \in 0..Len(all) PROVE Heard(big, i, j) = Heard(all, i, j)
  <2>1. Heard(all, i, j) = Heard(big, 0 + i, 0 + j)
    BY <1>1, <1>2, HeardInPart
  <2>2. 0 + i = i /\ 0 + j = j
    BY <1>0
  <2>q. QED BY <2>1, <2>2
<1>5. Heard(big, Len(all), Len(big)) = U!Spoken(units)
  <2>1. 0 \in 0..Len(units) /\ Len(units) \in 0..Len(units) /\ Len(all) + 0 = Len(all)
    BY <1>0
  <2>2. Heard(units, 0, Len(units)) = Heard(big, Len(all) + 0, Len(all) + Len(units))
    BY <1>0, <1>1, <1>3, <2>1, HeardInPart
  <2>q. QED BY <1>1, <2>1, <2>2, SpokenIs
<1>q. QED BY <1>1, <1>4, <1>5 DEF big

\* What a push adds to the chunks.
LEMMA AppendIs ==
  ASSUME NEW cs \in Seq(Chunk), NEW last \in Chunk
  PROVE  LET ds == Append(cs, last) IN
         /\ ds \in Seq(Chunk) /\ Len(ds) = Len(cs) + 1
         /\ \A i \in 1..Len(cs) : ds[i] = cs[i]
         /\ ds[Len(cs) + 1] = last
         /\ \A i \in 0..Len(cs) : End(ds)[i] = End(cs)[i]
         /\ U!Sum(U!Lens(ds)) = U!Sum(U!Lens(cs)) + last.len
         /\ U!Sum(U!Speeches(ds)) = U!Sum(U!Speeches(cs)) + last.speech
<1> DEFINE ds == Append(cs, last)
           n == Len(cs)
<1>0. n \in Nat
  OBVIOUS
<1>1. ds \in Seq(Chunk) /\ Len(ds) = n + 1 /\ (\A i \in 1..n : ds[i] = cs[i]) /\ ds[n + 1] = last
  OBVIOUS
<1> HIDE DEF ds
<1>2. n + 1 \in 1..(n + 1) /\ (n + 1) - 1 = n /\ n \in 0..n /\ 0 + n <= n + 1
      /\ \A i \in 1..n : i \in 1..(n + 1) /\ 0 + i = i
  BY <1>0
<1>3. \A i \in 0..n : End(ds)[i] = End(cs)[i]
  <2> DEFINE f == U!Lens(ds)  g == U!Lens(cs)
  <2>1. /\ f \in Seq(Int) /\ g \in Seq(Int) /\ Len(f) = n + 1 /\ Len(g) = n
        /\ \A i \in 1..(n + 1) : f[i] = ds[i].len
        /\ \A i \in 1..n : g[i] = cs[i].len
    BY <1>1, LensAre
  <2> HIDE DEF f, g
  <2>2. \A i \in 1..n : g[i] = f[0 + i]
    BY <1>1, <1>2, <2>1
  <2>3. PartOf(g, f, 0)
    BY <1>2, <2>1, <2>2 DEF PartOf
  <2>4. \A i \in 0..n : U!SumTo(f)[i] = U!SumTo(g)[i]
    BY <2>1, <2>3, SumOfPrefix
  <2>q. QED BY <2>4 DEF End, f, g
<1>4. U!Sum(U!Lens(ds)) = U!Sum(U!Lens(cs)) + last.len
  <2>1. U!Sum(U!Lens(ds)) = End(ds)[n + 1] /\ U!Sum(U!Lens(cs)) = End(cs)[n]
    BY <1>1, EndsAre
  <2>2. End(ds)[n + 1] = End(ds)[(n + 1) - 1] + ds[n + 1].len
    BY <1>1, <1>2, EndsAre
  <2>q. QED BY <1>1, <1>2, <1>3, <2>1, <2>2
<1>5. U!Sum(U!Speeches(ds)) = U!Sum(U!Speeches(cs)) + last.speech
  <2> DEFINE f == U!Speeches(ds)  g == U!Speeches(cs)
  <2>1. /\ f \in Seq(Int) /\ g \in Seq(Int) /\ Len(f) = n + 1 /\ Len(g) = n
        /\ \A i \in 1..(n + 1) : f[i] = ds[i].speech
        /\ \A i \in 1..n : g[i] = cs[i].speech
    BY <1>1, LensAre
  <2> HIDE DEF f, g
  <2>2. \A i \in 1..n : g[i] = f[0 + i]
    BY <1>1, <1>2, <2>1
  <2>3. PartOf(g, f, 0)
    BY <1>2, <2>1, <2>2 DEF PartOf
  <2>4. U!SumTo(f)[n] = U!SumTo(g)[n]
    BY <1>2, <2>1, <2>3, SumOfPrefix
  <2>5. U!SumTo(f)[n + 1] = U!SumTo(f)[(n + 1) - 1] + f[n + 1]
    BY <1>2, <2>1, SumToIs
  <2>6. U!Sum(f) = U!SumTo(f)[n + 1] /\ U!Sum(g) = U!SumTo(g)[n] /\ f[n + 1] = last.speech
    BY <1>1, <1>2, <2>1 DEF U!Sum
  <2>7. U!Sum(f) = U!Sum(g) + last.speech
    BY <1>2, <2>4, <2>5, <2>6
  <2>q. QED BY <2>7 DEF f, g
<1>q. QED BY <1>1, <1>3, <1>4, <1>5 DEF ds

LEMMA MoreThan == ASSUME NEW s \in Nat, NEW w \in Nat, 0 < w PROVE (s + 1) * w > s * w /\ s * w <= s * w
<1>1. s * w \in Nat
  OBVIOUS
<1>2. (s + 1) * w = s * w + w
  OBVIOUS
<1>q. QED BY <1>1, <1>2

\* After a push the chunks account for the longer buffer.
LEMMA PushAccounts ==
  ASSUME NEW all, NEW cs, NEW heard, Accounts(all, cs, heard),
         NEW k \in 1..U!Longest, NEW units \in Seq(BOOLEAN), Len(units) = 2 * k
  PROVE  Accounts(all \o units, Append(cs, [len |-> Len(units), speech |-> U!Spoken(units)]),
                  heard + U!Spoken(units))
<1> DEFINE big == all \o units
           last == [len |-> Len(units), speech |-> U!Spoken(units)]
           ds == Append(cs, last)
           n == Len(cs)
<1>0. all \in Seq(BOOLEAN) /\ cs \in Seq(Chunk) /\ Len(all) \in Nat /\ n \in Nat
      /\ U!Sum(U!Lens(cs)) = Len(all) /\ U!Sum(U!Speeches(cs)) = heard
  <2>1. all \in Seq(BOOLEAN) /\ cs \in Seq(Chunk) /\ U!Sum(U!Lens(cs)) = Len(all) /\ U!Sum(U!Speeches(cs)) = heard
    BY DEF Accounts
  <2>q. QED BY <2>1
<1>1. k \in Nat /\ 0 < k /\ Len(units) \in Nat /\ 0 < Len(units) /\ 0 < 2 * k
  BY Settings
<1>2. U!Spoken(units) \in 0..(2 * k) /\ U!Spoken(units) \in Nat
  <2>1. 0 \in 0..Len(units) /\ Len(units) \in 0..Len(units) /\ 0 <= Len(units)
    BY <1>1
  <2>2. Heard(units, 0, Len(units)) \in 0..(Len(units) - 0)
    BY <2>1, HeardIs
  <2>3. Len(units) - 0 = 2 * k
    BY <1>1
  <2>q. QED BY <2>2, <2>3, SpokenIs
<1>3. last \in Chunk /\ last.len = Len(units) /\ last.speech = U!Spoken(units)
  BY <1>1, <1>2 DEF Chunk
<1>4. /\ big \in Seq(BOOLEAN) /\ Len(big) = Len(all) + Len(units)
      /\ \A i, j \in 0..Len(all) : Heard(big, i, j) = Heard(all, i, j)
      /\ Heard(big, Len(all), Len(big)) = U!Spoken(units)
  BY <1>0, JoinedAre
<1>5. /\ ds \in Seq(Chunk) /\ Len(ds) = n + 1
      /\ \A i \in 1..n : ds[i] = cs[i]
      /\ ds[n + 1] = last
      /\ \A i \in 0..n : End(ds)[i] = End(cs)[i]
      /\ U!Sum(U!Lens(ds)) = Len(all) + last.len
      /\ U!Sum(U!Speeches(ds)) = heard + last.speech
  <2>1. last \in Chunk /\ cs \in Seq(Chunk)
    BY <1>0, <1>3
  <2> HIDE DEF last
  <2>2. /\ ds \in Seq(Chunk) /\ Len(ds) = n + 1
        /\ \A i \in 1..n : ds[i] = cs[i]
        /\ ds[n + 1] = last
        /\ \A i \in 0..n : End(ds)[i] = End(cs)[i]
        /\ U!Sum(U!Lens(ds)) = U!Sum(U!Lens(cs)) + last.len
        /\ U!Sum(U!Speeches(ds)) = U!Sum(U!Speeches(cs)) + last.speech
    BY <2>1, AppendIs
  <2> HIDE DEF ds
  <2>q. QED BY <1>0, <2>2
<1> HIDE DEF big, last, ds
<1>6. /\ \A i \in 0..n : End(ds)[i] = End(cs)[i] /\ End(ds)[i] \in 0..Len(all)
      /\ End(ds)[n] = Len(all) /\ End(ds)[n + 1] = Len(big)
  <2>1. End(cs)[n] = Len(all) /\ \A i \in 0..n : End(cs)[i] \in 0..Len(all)
    BY <1>0, EndsAre
  <2>2. n \in 0..n
    BY <1>0
  <2>3. U!Sum(U!Lens(ds)) = End(ds)[n + 1]
    BY <1>5, EndsAre
  <2>q. QED BY <1>3, <1>4, <1>5, <2>1, <2>2, <2>3
<1>7. ASSUME NEW i \in 2..Len(ds) PROVE Follows(big, ds, i)
  <2>1. CASE i = n + 1
    <3>1. i - 1 = n /\ ds[i] = last
      BY <1>0, <1>5, <2>1
    <3>2. IsFrame(ds[i].len)
      BY <1>3, <3>1 DEF IsFrame
    <3>3. Heard(big, End(ds)[i - 1], End(ds)[i]) = ds[i].speech
      BY <1>3, <1>4, <1>6, <2>1, <3>1
    <3>q. QED BY <3>2, <3>3 DEF Follows
  <2>2. CASE i # n + 1
    <3>1. i \in 2..n /\ i \in 1..n /\ i \in 0..n /\ i - 1 \in 0..n
      BY <1>0, <1>5, <2>2
    <3>2. Follows(all, cs, i)
      BY <3>1 DEF Accounts
    <3>3. ds[i] = cs[i] /\ Heard(big, End(ds)[i - 1], End(ds)[i]) = Heard(all, End(cs)[i - 1], End(cs)[i])
      BY <1>4, <1>5, <1>6, <3>1, SMTT(30)
    <3>q. QED BY <3>2, <3>3 DEF Follows
  <2>q. QED BY <2>1, <2>2
<1>8. FirstIs(ds[1].len, ds[1].speech, Heard(big, 0, End(ds)[1]))
  <2>1. CASE n = 0
    <3>1. ds[1] = last /\ End(ds)[1] = Len(big) /\ Len(all) = 0
      <4>1. 0 + 1 = 1
        OBVIOUS
      <4>2. End(ds)[0] = 0
        BY <1>5, EndsAre
      <4>q. QED BY <1>5, <1>6, <2>1, <4>1, <4>2
    <3> DEFINE s == U!Spoken(units)
    <3>2. ds[1].len = 2 * k /\ ds[1].speech = s /\ Heard(big, 0, End(ds)[1]) = s
      BY <1>3, <1>4, <3>1
    <3> DEFINE w == 2 * k
    <3>3. /\ w <= w /\ s - (w - w) <= s /\ s <= s /\ s * w <= s * w /\ (s + 1) * w > s * w
      <4>1. s \in Nat /\ w \in Nat /\ 0 < w
        BY <1>1, <1>2
      <4> HIDE DEF s, w
      <4>2. s - (w - w) = s
        BY <4>1
      <4>q. QED BY <4>1, <4>2, MoreThan
    <3>4. s \in 0..(2 * k)
      BY <1>2
    <3> HIDE DEF s
    <3>5. SharedOut(2 * k, s, s)
      BY <3>3, <3>4 DEF SharedOut
    <3>q. QED BY <3>2, <3>5 DEF FirstIs
  <2>2. CASE n # 0
    <3>1. 1 \in 1..n /\ 1 \in 0..n /\ cs # <<>> /\ 0 \in 0..Len(all)
      BY <1>0, <2>2
    <3>2. ds[1] = cs[1] /\ Heard(big, 0, End(ds)[1]) = Heard(all, 0, End(cs)[1])
      BY <1>4, <1>5, <1>6, <3>1
    <3>q. QED BY <3>1, <3>2 DEF Accounts
  <2>q. QED BY <2>1, <2>2
<1>9. U!Sum(U!Lens(ds)) = Len(big) /\ U!Sum(U!Speeches(ds)) = heard + U!Spoken(units)
  BY <1>3, <1>4, <1>5
<1>q. QED BY <1>4, <1>5, <1>7, <1>8, <1>9 DEF Accounts, big, last, ds

LEMMA EmptyAccounts == Accounts(<<>>, <<>>, 0)
<1>1. <<>> \in Seq(BOOLEAN) /\ <<>> \in Seq(Chunk) /\ Len(<<>>) = 0
  OBVIOUS
<1>2. \A f \in Seq(Int) : Len(f) = 0 => U!Sum(f) = 0
  BY SumToIs DEF U!Sum
<1>3. U!Sum(U!Lens(<<>>)) = 0 /\ U!Sum(U!Speeches(<<>>)) = 0
  BY <1>1, <1>2, LensAre
<1>q. QED BY <1>1, <1>3 DEF Accounts

LEMMA CountIsNat ==
  ASSUME NEW all, NEW cs, NEW heard, Accounts(all, cs, heard)
  PROVE  heard \in Nat
<1> DEFINE H == U!SumTo(U!Speeches(cs))
           n == Len(cs)
           zero == [k \in 0..n |-> 0]
<1>1. cs \in Seq(Chunk) /\ n \in Nat /\ U!Sum(U!Speeches(cs)) = heard
  <2>1. cs \in Seq(Chunk) /\ U!Sum(U!Speeches(cs)) = heard
    BY DEF Accounts
  <2>q. QED BY <2>1
<1>2. /\ H \in [0..n -> Int] /\ H[0] = 0 /\ H[n] = heard
      /\ \A i \in 1..n : H[i] = H[i - 1] + cs[i].speech /\ cs[i].speech \in Nat
  BY <1>1, LensAre, SumToIs DEF U!Sum
<1>3. zero \in [0..n -> Int]
  OBVIOUS
<1>4. ASSUME NEW k \in 1..n PROVE zero[k] - zero[k - 1] <= H[k] - H[k - 1]
  <2>1. k \in 0..n /\ k - 1 \in 0..n
    BY <1>1
  <2>2. zero[k] = 0 /\ zero[k - 1] = 0
    BY <2>1
  <2>3. H[k] = H[k - 1] + cs[k].speech /\ H[k - 1] \in Int /\ H[k] \in Int /\ cs[k].speech \in Nat
    BY <1>2, <2>1
  <2> HIDE DEF H, zero
  <2>q. QED BY <2>1, <2>2, <2>3
<1>5. 0 \in 0..n /\ n \in 0..n /\ 0 <= n
  BY <1>1
<1>6. zero[n] - zero[0] <= H[n] - H[0]
  <2> HIDE DEF H, zero, n
  <2>q. QED BY <1>1, <1>2, <1>3, <1>4, <1>5, GrowsLess
<1>7. zero[n] = 0 /\ zero[0] = 0 /\ H[n] \in Int
  BY <1>2, <1>5
<1> HIDE DEF H, zero
<1>q. QED BY <1>2, <1>6, <1>7

LEMMA PrefixIs ==
  ASSUME NEW all \in Seq(BOOLEAN), NEW n \in 0..Len(all)
  PROVE  LET first == SubSeq(all, 1, n) IN
         first \in Seq(BOOLEAN) /\ Len(first) = n /\ U!Spoken(first) = Heard(all, 0, n)
<1> DEFINE first == SubSeq(all, 1, n)
<1>0. Len(all) \in Nat /\ n \in Nat
  OBVIOUS
<1>1. first = [i \in 1..n |-> all[i]]
  <2>1. first = [i \in 1..((n - 1) + 1) |-> all[(i + 1) - 1]]
    BY SMTT(30), <1>0 DEF SubSeq
  <2>2. (n - 1) + 1 = n
    BY <1>0
  <2>3. \A i \in 1..n : (i + 1) - 1 = i
    BY <1>0
  <2>q. QED BY <2>1, <2>2, <2>3
<1> HIDE DEF first
<1>2. first \in Seq(BOOLEAN) /\ Len(first) = n
  <2>1. \A i \in 1..n : i \in 1..Len(all)
    BY <1>0
  <2>2. first \in [1..n -> BOOLEAN]
    BY <1>1, <2>1
  <2>q. QED BY <1>0, <2>2
<1>3. PartOf(first, all, 0)
  <2>1. \A i \in 1..Len(first) : first[i] = all[0 + i]
    <3>1. \A i \in 1..n : 0 + i = i
      BY <1>0
    <3>q. QED BY <1>1, <1>2, <3>1
  <2>q. QED BY <1>0, <1>2, <2>1 DEF PartOf
<1>4. U!Spoken(first) = Heard(all, 0, n)
  <2>1. 0 \in 0..n /\ n \in 0..n /\ 0 + 0 = 0 /\ 0 + n = n
    BY <1>0
  <2>2. Heard(first, 0, n) = Heard(all, 0 + 0, 0 + n)
    BY <1>2, <1>3, <2>1, HeardInPart
  <2>q. QED BY <1>2, <2>1, <2>2, SpokenIs
<1>q. QED BY <1>2, <1>4 DEF first

\* What comes first in a buffer holds no more speech than all of it.
LEMMA FirstHoldsLess ==
  ASSUME NEW all \in Seq(BOOLEAN), NEW n \in 0..Len(all)
  PROVE  /\ U!Spoken(SubSeq(all, 1, n)) \in Nat /\ U!Spoken(SubSeq(all, 1, n)) <= U!Spoken(all)
         /\ n = Len(all) => U!Spoken(SubSeq(all, 1, n)) = U!Spoken(all)
<1>0. Len(all) \in Nat /\ n \in Nat /\ 0 \in 0..Len(all) /\ Len(all) \in 0..Len(all) /\ 0 <= n /\ n <= Len(all)
  OBVIOUS
<1>1. U!Spoken(SubSeq(all, 1, n)) = Heard(all, 0, n) /\ U!Spoken(all) = Heard(all, 0, Len(all))
  BY PrefixIs, SpokenIs
<1>2. Heard(all, 0, n) \in 0..(n - 0) /\ Heard(all, n, Len(all)) \in 0..(Len(all) - n)
  BY <1>0, HeardIs
<1>3. Heard(all, 0, Len(all)) = Heard(all, 0, n) + Heard(all, n, Len(all))
  BY <1>0, HeardAdds
<1> DEFINE a == Heard(all, 0, n)  b == Heard(all, n, Len(all))
<1>4. a \in Nat /\ b \in Nat
  BY <1>2
<1> HIDE DEF a, b
<1>5. a <= a + b
  BY <1>4
<1>q. QED BY <1>1, <1>3, <1>4, <1>5 DEF a, b

\* After a discard one chunk of pre-roll accounts for what is kept.
LEMMA DiscardAccounts ==
  ASSUME NEW all, NEW cs, NEW heard, Accounts(all, cs, heard), NEW keep \in 0..Len(all), keep <= Preroll
  PROVE  Accounts(SubSeq(all, (Len(all) - keep) + 1, Len(all)),
                  IF keep = 0 THEN <<>> ELSE <<[len |-> keep, speech |-> 0]>>, 0)
<1> DEFINE rest == SubSeq(all, (Len(all) - keep) + 1, Len(all))
           last == [len |-> keep, speech |-> 0]
<1>0. all \in Seq(BOOLEAN) /\ Len(all) \in Nat /\ keep \in Nat
  <2>1. all \in Seq(BOOLEAN)
    BY DEF Accounts
  <2>q. QED BY <2>1
<1>1. Len(all) - keep \in 0..Len(all) /\ Len(all) - (Len(all) - keep) = keep
  BY <1>0
<1>2. rest \in Seq(BOOLEAN) /\ Len(rest) = keep
  BY <1>0, <1>1, RestIs
<1> HIDE DEF rest
<1>3. CASE keep = 0
  <2>1. rest = <<>>
    BY <1>2, <1>3
  <2>q. QED BY <1>3, <2>1, EmptyAccounts DEF rest
<1>4. CASE keep # 0
  <2>1. last \in Chunk /\ last.len = keep /\ last.speech = 0
    BY <1>0, <1>4 DEF Chunk
  <2>2. <<last>> = Append(<<>>, last) /\ <<>> \in Seq(Chunk) /\ Len(<<>>) = 0
    OBVIOUS
  <2> HIDE DEF last
  <2>3. /\ <<last>> \in Seq(Chunk) /\ Len(<<last>>) = 1 /\ <<last>>[1] = last
        /\ U!Sum(U!Lens(<<last>>)) = 0 + keep
        /\ U!Sum(U!Speeches(<<last>>)) = 0 + 0
    <3>1. U!Sum(U!Lens(<<>>)) = 0 /\ U!Sum(U!Speeches(<<>>)) = 0
      BY EmptyAccounts DEF Accounts
    <3>2. /\ U!Sum(U!Lens(Append(<<>>, last))) = U!Sum(U!Lens(<<>>)) + last.len
          /\ U!Sum(U!Speeches(Append(<<>>, last))) = U!Sum(U!Speeches(<<>>)) + last.speech
      BY <2>1, <2>2, AppendIs
    <3>3. <<last>> \in Seq(Chunk) /\ Len(<<last>>) = 1 /\ <<last>>[1] = last
      BY <2>1
    <3>q. QED BY <2>1, <2>2, <3>1, <3>2, <3>3
  <2>4. FirstIs(<<last>>[1].len, <<last>>[1].speech, Heard(rest, 0, End(<<last>>)[1]))
    BY <2>1, <2>3 DEF FirstIs
  <2>5. Accounts(rest, <<last>>, 0)
    <3>1. 0 + keep = keep /\ 0 + 0 = 0 /\ 2..1 = {}
      BY <1>0
    <3>q. QED BY <1>2, <2>3, <2>4, <3>1 DEF Accounts
  <2>q. QED BY <1>4, <2>5 DEF rest, last
<1>q. QED BY <1>3, <1>4

-----------------------------------------------------------------------------
(* The operations of the utterance buffer keep all of it. *)

HandedOut == [at : Nat, units : Seq(BOOLEAN), how : {"none", "pause", "cap", "end"}]

\* The property of what was handed out and what was dropped.
Decides(handed, drop) ==
  /\ handed.how \in {"pause", "end"} => U!Spoken(handed.units) + U!CutError > MinSpeech
  /\ drop < MinSpeech + U!Greater(Preroll, U!CutError)

UtterancesInv ==
  /\ Accounts(buffer, chunks, speech)
  /\ {offset, silence, pushed, dropped} \subseteq Nat
  /\ cut \in HandedOut /\ ended \in BOOLEAN
  /\ pushed <= MaxPushed /\ offset + Len(buffer) = pushed /\ silence <= Len(buffer)
  /\ U!SpeechDecides

LEMMA UtterancesInit == U!Init => UtterancesInv
<1> SUFFICES ASSUME U!Init PROVE UtterancesInv
  OBVIOUS
<1>1. Accounts(buffer, chunks, speech)
  BY EmptyAccounts DEF U!Init
<1>2. <<>> \in Seq(BOOLEAN) /\ Len(<<>>) = 0
  OBVIOUS
<1>3. cut \in HandedOut /\ cut.how = "none"
  BY <1>2 DEF U!Init, U!Nothing, HandedOut
<1>4. dropped < MinSpeech + U!Greater(Preroll, U!CutError)
  BY Settings DEF U!Init, U!Greater
<1>5. U!SpeechDecides
  BY <1>3, <1>4 DEF U!SpeechDecides
<1>6. {offset, silence, pushed, dropped} \subseteq Nat /\ ended \in BOOLEAN
  <2>1. offset = 0 /\ silence = 0 /\ pushed = 0 /\ dropped = 0
    BY DEF U!Init
  <2>2. ended = FALSE
    BY DEF U!Init
  <2>3. {offset, silence, pushed, dropped} \subseteq Nat
    BY <2>1
  <2>4. ended \in BOOLEAN
    BY <2>2
  <2>q. QED BY <2>3, <2>4
<1>7. pushed <= MaxPushed /\ offset + Len(buffer) = pushed /\ silence <= Len(buffer)
  BY <1>2, Settings DEF U!Init
<1>q. QED BY <1>1, <1>3, <1>5, <1>6, <1>7 DEF UtterancesInv

LEMMA CutKept ==
  ASSUME NEW all, NEW cs, NEW heard, Accounts(all, cs, heard),
         NEW quiet \in Nat, quiet <= Len(all),
         NEW n \in 0..Len(all), Len(all) <= 2 * n,
         NEW how \in {"pause", "cap", "end"}, how # "cap" => n = Len(all) /\ heard >= MinSpeech,
         U!TakeUntil(all, cs, quiet, n, how),
         offset \in Nat, pushed' \in Nat, ended' \in BOOLEAN,
         pushed' <= MaxPushed, offset + Len(all) = pushed'
  PROVE  UtterancesInv'
<1>0. all \in Seq(BOOLEAN) /\ Len(all) \in Nat /\ n \in Nat
  <2>1. all \in Seq(BOOLEAN)
    BY DEF Accounts
  <2>q. QED BY <2>1
<1>1. /\ cut' = [at |-> offset, units |-> SubSeq(all, 1, n), how |-> how]
      /\ buffer' = SubSeq(all, n + 1, Len(all)) /\ chunks' = U!After(cs, n)
      /\ offset' = offset + n /\ speech' = U!Sum(U!Speeches(U!After(cs, n)))
      /\ silence' = U!Lesser(quiet, Len(all) - n) /\ dropped' = 0
  BY DEF U!TakeUntil
<1>2. Accounts(buffer, chunks, speech)'
  <2>1. Accounts(buffer', chunks', speech')
    BY <1>1, CutAccounts
  <2>q. QED BY <2>1 DEF Accounts, Follows, IsFrame, FirstIs, SharedOut, End, Heard, Upto, U!Sum, U!SumTo, U!Lens, U!Speeches, U!Ones, U!Longest
<1>3. SubSeq(all, 1, n) \in Seq(BOOLEAN) /\ Len(buffer') = Len(all) - n
  BY <1>0, <1>1, PrefixIs, RestIs
<1>4. cut' \in HandedOut /\ cut'.how = how /\ cut'.units = SubSeq(all, 1, n)
  BY <1>1, <1>3 DEF HandedOut
<1>5. /\ silence' \in Nat /\ silence' <= Len(buffer') /\ offset' \in Nat /\ dropped' \in Nat
      /\ offset' + Len(buffer') = pushed'
  <2>1. U!Lesser(quiet, Len(all) - n) \in Nat /\ U!Lesser(quiet, Len(all) - n) <= Len(all) - n
    BY <1>0 DEF U!Lesser
  <2>2. offset + n \in Nat /\ (offset + n) + (Len(all) - n) = pushed'
    BY <1>0
  <2>q. QED BY <1>1, <1>3, <2>1, <2>2
<1>6. how # "cap" => U!Spoken(SubSeq(all, 1, n)) + U!CutError > MinSpeech
  <2> SUFFICES ASSUME how # "cap" PROVE U!Spoken(SubSeq(all, 1, n)) + U!CutError > MinSpeech
    OBVIOUS
  <2>1. U!Spoken(SubSeq(all, 1, n)) = U!Spoken(all) /\ heard >= MinSpeech
    BY <1>0, FirstHoldsLess
  <2>2. heard - U!Spoken(all) < U!CutError /\ U!Spoken(all) \in Nat /\ heard \in Int
    BY CountIsNear
  <2>q. QED BY <2>1, <2>2, Settings
<1>7. 0 < MinSpeech + U!Greater(Preroll, U!CutError)
  BY Settings DEF U!Greater
<1>8. U!SpeechDecides'
  <2>1. Decides(cut', dropped')
    BY <1>1, <1>4, <1>6, <1>7 DEF Decides
  <2>q. QED BY <2>1 DEF Decides, U!SpeechDecides, U!Spoken, U!Sum, U!SumTo, U!Ones, U!CutError, U!Longest, U!Greater, U!SubFrame
<1>q. QED BY <1>2, <1>4, <1>5, <1>8 DEF UtterancesInv, HandedOut

LEMMA DiscardKept ==
  ASSUME NEW all, NEW cs, NEW heard, Accounts(all, cs, heard), heard < MinSpeech,
         NEW quiet \in Nat, quiet <= Len(all),
         U!Discard(all, cs, heard, quiet),
         UtterancesInv, UNCHANGED cut, pushed' \in Nat, ended' \in BOOLEAN,
         pushed' <= MaxPushed, offset + Len(all) = pushed'
  PROVE  UtterancesInv'
<1> DEFINE keep == U!Lesser(Preroll, Len(all))
           drop == Len(all) - keep
<1>0. all \in Seq(BOOLEAN) /\ Len(all) \in Nat /\ offset \in Nat
  <2>1. all \in Seq(BOOLEAN) /\ offset \in Nat
    BY DEF Accounts, UtterancesInv
  <2>q. QED BY <2>1
<1>1. keep \in 0..Len(all) /\ keep <= Preroll /\ drop \in 0..Len(all) /\ drop + keep = Len(all)
      /\ Len(all) - drop = keep
  BY <1>0, Settings DEF U!Lesser
<1>2. cut' \in HandedOut /\ (cut'.how \in {"pause", "end"} => U!Spoken(cut'.units) + U!CutError > MinSpeech)
  BY DEF UtterancesInv, U!SpeechDecides
<1>3. CASE drop = 0
  <2>1. /\ buffer' = all /\ chunks' = cs /\ speech' = heard /\ silence' = quiet
        /\ offset' = offset /\ dropped' = dropped
    BY <1>3 DEF U!Discard
  <2>2. Accounts(buffer, chunks, speech)'
    <3>1. Accounts(buffer', chunks', speech')
      BY <2>1
    <3>q. QED BY <3>1 DEF Accounts, Follows, IsFrame, FirstIs, SharedOut, End, Heard, Upto, U!Sum, U!SumTo, U!Lens, U!Speeches, U!Ones, U!Longest
  <2>3. U!SpeechDecides'
    <3>1. Decides(cut', dropped')
      BY <1>2, <2>1 DEF Decides, UtterancesInv, U!SpeechDecides
    <3>q. QED BY <3>1 DEF Decides, U!SpeechDecides, U!Spoken, U!Sum, U!SumTo, U!Ones, U!CutError, U!Longest, U!Greater, U!SubFrame
  <2>4. dropped' \in Nat
    BY <2>1 DEF UtterancesInv
  <2>q. QED BY <1>0, <1>2, <2>1, <2>2, <2>3, <2>4 DEF UtterancesInv, HandedOut
<1>4. CASE drop # 0
  <2>1. /\ buffer' = SubSeq(all, drop + 1, Len(all))
        /\ chunks' = IF keep = 0 THEN <<>> ELSE <<[len |-> keep, speech |-> 0]>>
        /\ offset' = offset + drop /\ speech' = 0 /\ silence' = keep
        /\ dropped' = U!Spoken(SubSeq(all, 1, drop))
    BY <1>4 DEF U!Discard
  <2> HIDE DEF keep
  <2>2. Accounts(buffer, chunks, speech)'
    <3>1. Accounts(buffer', chunks', speech')
      BY <1>1, <2>1, DiscardAccounts
    <3>q. QED BY <3>1 DEF Accounts, Follows, IsFrame, FirstIs, SharedOut, End, Heard, Upto, U!Sum, U!SumTo, U!Lens, U!Speeches, U!Ones, U!Longest
  <2>3. Len(buffer') = keep
    BY <1>0, <1>1, <2>1, RestIs
  <2>4. dropped' \in Nat /\ dropped' < MinSpeech + U!Greater(Preroll, U!CutError)
    <3>1. dropped' \in Nat /\ dropped' <= U!Spoken(all)
      BY <1>0, <1>1, <2>1, FirstHoldsLess
    <3>2. U!Spoken(all) - heard <= U!Greater(Preroll, U!CutError) /\ U!Spoken(all) \in Nat /\ heard \in Int
      BY CountIsNear
    <3>3. U!Greater(Preroll, U!CutError) \in Nat /\ MinSpeech \in Nat
      BY Settings DEF U!Greater
    <3>q. QED BY <3>1, <3>2, <3>3
  <2>5. U!SpeechDecides'
    <3>1. Decides(cut', dropped')
      BY <1>2, <2>4 DEF Decides
    <3>q. QED BY <3>1 DEF Decides, U!SpeechDecides, U!Spoken, U!Sum, U!SumTo, U!Ones, U!CutError, U!Longest, U!Greater, U!SubFrame
  <2>6. offset' \in Nat /\ silence' \in Nat /\ silence' <= Len(buffer') /\ offset' + Len(buffer') = pushed'
    BY <1>0, <1>1, <2>1, <2>3
  <2>q. QED BY <1>2, <2>2, <2>4, <2>5, <2>6 DEF UtterancesInv, HandedOut
<1>q. QED BY <1>3, <1>4

LEMMA FlushKept == ASSUME UtterancesInv, U!Flush PROVE UtterancesInv'
<1>0. buffer \in Seq(BOOLEAN) /\ Len(buffer) \in Nat /\ offset \in Nat /\ silence \in Nat /\ pushed \in Nat /\ speech \in Nat
  <2>1. buffer \in Seq(BOOLEAN) /\ offset \in Nat /\ silence \in Nat /\ pushed \in Nat
    BY DEF Accounts, UtterancesInv
  <2>2. speech \in Nat
    BY CountIsNat DEF UtterancesInv
  <2>q. QED BY <2>1, <2>2
<1>1. ended' = TRUE /\ pushed' = pushed /\ offset + Len(buffer) = pushed' /\ pushed' <= MaxPushed /\ silence <= Len(buffer)
  BY DEF U!Flush, UtterancesInv
<1>2. CASE buffer # <<>> /\ speech >= MinSpeech
  <2>1. U!TakeUntil(buffer, chunks, silence, Len(buffer), "end")
    BY <1>2 DEF U!Flush
  <2>2. Accounts(buffer, chunks, speech) /\ Len(buffer) \in 0..Len(buffer) /\ Len(buffer) <= 2 * Len(buffer)
    BY <1>0 DEF UtterancesInv
  <2>3. pushed' \in Nat /\ ended' \in BOOLEAN
    BY <1>0, <1>1
  <2>q. QED BY <1>0, <1>1, <1>2, <2>1, <2>2, <2>3, CutKept
<1>3. CASE ~ (buffer # <<>> /\ speech >= MinSpeech)
  <2>1. /\ offset' = offset + Len(buffer) /\ dropped' = U!Spoken(buffer)
        /\ buffer' = <<>> /\ chunks' = <<>> /\ speech' = 0 /\ silence' = 0 /\ cut' = cut
    BY <1>3 DEF U!Flush
  <2>2. Accounts(buffer, chunks, speech)'
    <3>1. Accounts(buffer', chunks', speech')
      BY <2>1, EmptyAccounts
    <3>q. QED BY <3>1 DEF Accounts, Follows, IsFrame, FirstIs, SharedOut, End, Heard, Upto, U!Sum, U!SumTo, U!Lens, U!Speeches, U!Ones, U!Longest
  <2>3. dropped' \in Nat /\ dropped' < MinSpeech + U!Greater(Preroll, U!CutError)
    <3>1. U!Spoken(buffer) - speech <= U!Greater(Preroll, U!CutError) /\ U!Spoken(buffer) \in Nat
      BY CountIsNear DEF UtterancesInv
    <3>2. U!Greater(Preroll, U!CutError) \in Nat /\ 0 < U!Greater(Preroll, U!CutError) /\ MinSpeech \in Nat
      BY Settings DEF U!Greater
    <3>3. CASE buffer = <<>>
      <4>1. U!Spoken(<<>>) = Heard(<<>>, 0, 0) /\ Heard(<<>>, 0, 0) \in 0..(0 - 0)
        <5>1. <<>> \in Seq(BOOLEAN) /\ Len(<<>>) = 0 /\ 0 \in 0..Len(<<>>)
          OBVIOUS
        <5>2. U!Spoken(<<>>) = Heard(<<>>, 0, Len(<<>>))
          BY <5>1, SpokenIs
        <5>3. Heard(<<>>, 0, 0) \in 0..(0 - 0)
          <6>1. \A u \in Seq(BOOLEAN) : 0 \in 0..Len(u) => Heard(u, 0, 0) \in 0..(0 - 0)
            BY HeardIs
          <6>q. QED BY <5>1, <6>1
        <5>q. QED BY <5>1, <5>2, <5>3
      <4>q. QED BY <2>1, <3>2, <3>3, <4>1
    <3>4. CASE buffer # <<>>
      <4>1. speech < MinSpeech
        BY <1>0, <1>3, <3>4, Settings
      <4>q. QED BY <1>0, <2>1, <3>1, <3>2, <4>1
    <3>q. QED BY <3>3, <3>4
  <2>4. U!SpeechDecides'
    <3>1. Decides(cut', dropped')
      BY <2>1, <2>3 DEF Decides, UtterancesInv, U!SpeechDecides
    <3>q. QED BY <3>1 DEF Decides, U!SpeechDecides, U!Spoken, U!Sum, U!SumTo, U!Ones, U!CutError, U!Longest, U!Greater, U!SubFrame
  <2>5. Len(<<>>) = 0
    OBVIOUS
  <2>6. offset' \in Nat /\ silence' \in Nat /\ silence' <= Len(buffer') /\ offset' + Len(buffer') = pushed' /\ pushed' \in Nat
    BY <1>0, <1>1, <2>1, <2>5
  <2>7. cut' \in HandedOut
    BY <2>1 DEF UtterancesInv
  <2>q. QED BY <1>1, <2>2, <2>3, <2>4, <2>6, <2>7 DEF UtterancesInv, HandedOut
<1>q. QED BY <1>2, <1>3

\* A cut at the cap falls no earlier than half way.
LEMMA CutsAreLate ==
  ASSUME NEW len \in Nat, NEW n \in U!Cuts(len)
  PROVE  n \in 0..len /\ len <= 2 * n
<1> DEFINE from == U!Greater(len - CutSearch, len \div 2)
           starts == {s \in from..len : s + 2 <= len}
<1>0. from \in Int /\ len \div 2 <= from /\ len \div 2 \in Nat /\ len <= 2 * (len \div 2) + 1
  <2>1. len \div 2 \in Nat /\ len <= 2 * (len \div 2) + 1
    OBVIOUS
  <2>2. CutSearch \in Nat
    BY Assumptions DEF U!UtterancesAssumption
  <2>q. QED BY <2>1, <2>2 DEF U!Greater
<1>1. 2 \div 2 = 1
  OBVIOUS
<1>2. n \in IF starts = {} THEN {len} ELSE {s + 1 : s \in starts}
  BY <1>1 DEF U!Cuts, U!SubFrame
<1> HIDE DEF from
<1>3. CASE starts = {}
  BY <1>2, <1>3
<1>4. CASE starts # {}
  <2>1. PICK s \in starts : n = s + 1
    BY <1>2, <1>4
  <2>q. QED BY <2>1, <1>0
<1>q. QED BY <1>3, <1>4

LEMMA PushKept ==
  ASSUME UtterancesInv, NEW n \in Frames, NEW frame \in [1..n -> BOOLEAN], U!Push(frame)
  PROVE  UtterancesInv'
<1> DEFINE units == [i \in 1..(2 * Len(frame)) |-> frame[(i + 1) \div 2]]
           all == buffer \o units
           cs == Append(chunks, [len |-> Len(units), speech |-> U!Spoken(units)])
           heard == speech + U!Spoken(units)
           quiet == IF U!Spoken(units) > 0 THEN 0 ELSE silence + Len(units)
<1>1. n \in 1..U!Longest /\ n \in Nat /\ 0 < n
  BY Settings
<1>2. Len(frame) = n
  BY <1>1
<1>3. units \in Seq(BOOLEAN) /\ Len(units) = 2 * n
  <2>1. \A i \in 1..(2 * n) : (i + 1) \div 2 \in 1..n
    BY <1>1
  <2>2. units \in [1..(2 * n) -> BOOLEAN]
    BY <1>2, <2>1
  <2>3. 2 * n \in Nat
    BY <1>1
  <2> HIDE DEF units
  <2>q. QED BY <2>2, <2>3
<1>4. /\ buffer \in Seq(BOOLEAN) /\ Len(buffer) \in Nat /\ {offset, silence, pushed, dropped} \subseteq Nat
      /\ silence <= Len(buffer) /\ offset + Len(buffer) = pushed /\ Accounts(buffer, chunks, speech) /\ ended \in BOOLEAN
  <2>1. buffer \in Seq(BOOLEAN)
    BY DEF Accounts, UtterancesInv
  <2>q. QED BY <2>1 DEF UtterancesInv
<1>5. /\ pushed + Len(units) <= MaxPushed /\ pushed' = pushed + Len(units) /\ ended' = ended
      /\ \/ /\ heard >= MinSpeech /\ quiet >= EndpointSilence
            /\ U!TakeUntil(all, cs, quiet, Len(all), "pause")
         \/ /\ heard >= MinSpeech
            /\ \E k \in U!Cuts(Len(all)) : U!TakeUntil(all, cs, quiet, k, "cap")
         \/ ~ (heard >= MinSpeech) /\ U!Discard(all, cs, heard, quiet) /\ cut' = cut
         \/ /\ buffer' = all /\ chunks' = cs /\ speech' = heard /\ silence' = quiet
            /\ offset' = offset /\ cut' = cut /\ dropped' = dropped
  BY DEF U!Push, U!SubFrame
<1> HIDE DEF units
<1>6. Accounts(all, cs, heard)
  BY <1>1, <1>3, <1>4, PushAccounts
<1>7. all \in Seq(BOOLEAN) /\ Len(all) = Len(buffer) + Len(units) /\ Len(all) \in Nat /\ Len(units) \in Nat
  <2>1. Len(units) \in Nat
    BY <1>1, <1>3
  <2>2. all \in Seq(BOOLEAN) /\ Len(all) = Len(buffer) + Len(units)
    BY <1>3, <1>4, JoinedAre
  <2>q. QED BY <1>4, <2>1, <2>2
<1>8. heard \in Nat
  BY <1>6, CountIsNat
<1>9. quiet \in Nat /\ quiet <= Len(all)
  BY <1>4, <1>7
<1>10. pushed' \in Nat /\ ended' \in BOOLEAN /\ pushed' <= MaxPushed /\ offset + Len(all) = pushed' /\ offset \in Nat
  BY <1>4, <1>5, <1>7
<1> HIDE DEF all, cs, heard, quiet
<1>11. CASE heard >= MinSpeech /\ U!TakeUntil(all, cs, quiet, Len(all), "pause")
  <2>1. Len(all) \in 0..Len(all) /\ Len(all) <= 2 * Len(all)
    BY <1>7
  <2>q. QED BY <1>6, <1>9, <1>10, <1>11, <2>1, CutKept
<1>12. CASE \E k \in U!Cuts(Len(all)) : U!TakeUntil(all, cs, quiet, k, "cap")
  <2>1. PICK k \in U!Cuts(Len(all)) : U!TakeUntil(all, cs, quiet, k, "cap")
    BY <1>12
  <2>2. k \in 0..Len(all) /\ Len(all) <= 2 * k
    BY <1>7, CutsAreLate
  <2>q. QED BY <1>6, <1>9, <1>10, <2>1, <2>2, CutKept
<1>13. CASE ~ (heard >= MinSpeech) /\ U!Discard(all, cs, heard, quiet) /\ cut' = cut
  <2>1. heard < MinSpeech
    BY <1>8, <1>13, Settings
  <2>q. QED BY <1>6, <1>9, <1>10, <1>13, <2>1, DiscardKept
<1>14. CASE /\ buffer' = all /\ chunks' = cs /\ speech' = heard /\ silence' = quiet
            /\ offset' = offset /\ cut' = cut /\ dropped' = dropped
  <2>2. Accounts(buffer, chunks, speech)'
    <3>1. Accounts(buffer', chunks', speech')
      BY <1>6, <1>14
    <3>q. QED BY <3>1 DEF Accounts, Follows, IsFrame, FirstIs, SharedOut, End, Heard, Upto, U!Sum, U!SumTo, U!Lens, U!Speeches, U!Ones, U!Longest
  <2>3. U!SpeechDecides'
    <3>1. Decides(cut', dropped')
      BY <1>14 DEF Decides, UtterancesInv, U!SpeechDecides
    <3>q. QED BY <3>1 DEF Decides, U!SpeechDecides, U!Spoken, U!Sum, U!SumTo, U!Ones, U!CutError, U!Longest, U!Greater, U!SubFrame
  <2>4. cut' \in HandedOut
    BY <1>14 DEF UtterancesInv
  <2>q. QED BY <1>4, <1>9, <1>10, <1>14, <2>2, <2>3, <2>4 DEF UtterancesInv, HandedOut
<1>q. QED BY <1>5, <1>11, <1>12, <1>13, <1>14

LEMMA UtterancesNext == ASSUME UtterancesInv, [U!Next]_(U!vars) PROVE UtterancesInv'
<1>1. CASE UNCHANGED U!vars
  <2>1. /\ buffer' = buffer /\ chunks' = chunks /\ speech' = speech /\ silence' = silence
        /\ offset' = offset /\ cut' = cut /\ dropped' = dropped /\ pushed' = pushed
    BY <1>1 DEF U!vars
  <2>2. ended' = ended
    BY <1>1 DEF U!vars
  <2>3. Accounts(buffer, chunks, speech)'
    <3>1. Accounts(buffer', chunks', speech')
      BY <2>1 DEF UtterancesInv
    <3>q. QED BY <3>1 DEF Accounts, Follows, IsFrame, FirstIs, SharedOut, End, Heard, Upto, U!Sum, U!SumTo, U!Lens, U!Speeches, U!Ones, U!Longest
  <2>4. U!SpeechDecides'
    <3>1. Decides(cut', dropped')
      BY <2>1 DEF Decides, UtterancesInv, U!SpeechDecides
    <3>q. QED BY <3>1 DEF Decides, U!SpeechDecides, U!Spoken, U!Sum, U!SumTo, U!Ones, U!CutError, U!Longest, U!Greater, U!SubFrame
  <2>q. QED BY <2>1, <2>2, <2>3, <2>4 DEF UtterancesInv, HandedOut
<1>q. QED BY <1>1, PushKept, FlushKept DEF U!Next

LEMMA UtterancesTypes == UtterancesInv => U!TypeOK
<1> SUFFICES ASSUME UtterancesInv PROVE U!TypeOK
  OBVIOUS
<1>1. buffer \in Seq(BOOLEAN) /\ chunks \in Seq(Chunk) /\ speech \in Nat
  BY CountIsNat DEF UtterancesInv, Accounts
<1>2. Len(buffer) <= MaxPushed
  <2>1. Len(buffer) \in Nat
    BY <1>1
  <2>q. QED BY <2>1, Settings DEF UtterancesInv
<1>3. chunks \in Seq([len : Nat, speech : Nat])
  <2>1. Len(chunks) \in Nat /\ chunks \in [1..Len(chunks) -> Chunk]
    BY <1>1
  <2>2. Chunk \subseteq [len : Nat, speech : Nat]
    BY DEF Chunk
  <2> DEFINE C == [len : Nat, speech : Nat]
  <2>3. chunks \in [1..Len(chunks) -> C]
    <3> HIDE DEF C
    <3>1. Chunk \subseteq C
      BY <2>2 DEF C
    <3>q. QED BY <2>1, <3>1
  <2> HIDE DEF C
  <2>4. chunks \in Seq(C)
    BY <2>1, <2>3
  <2>q. QED BY <2>4 DEF C
<1>4. {offset, speech, silence, pushed, dropped} \subseteq Nat
  BY <1>1 DEF UtterancesInv
<1>q. QED BY <1>1, <1>2, <1>3, <1>4 DEF UtterancesInv, HandedOut, U!TypeOK

-----------------------------------------------------------------------------
(* The parts beside each other: a step of one leaves the others' variables. *)

LEMMA JoinInvariance == PartsSpec => []JoinInv
<1>1. PartsInit => JoinInv
  BY Assumptions, JoinInit DEF PartsInit
<1>2. JoinInv /\ [PartsNext]_partsVars => JoinInv'
  <2>1. PartsNext => [J!Next]_(J!vars)
    BY DEF PartsNext, join, J!vars, J!tracker
  <2>2. UNCHANGED partsVars => [J!Next]_(J!vars)
    BY DEF partsVars, join, J!vars, J!tracker
  <2>q. QED BY <2>1, <2>2, Assumptions, JoinNext
<1>q. QED BY <1>1, <1>2, PTL DEF PartsSpec

LEMMA OffersInvariance == PartsSpec => [](JoinInv /\ OffersFit)
<1>1. PartsInit => JoinInv /\ OffersFit
  BY Assumptions, JoinInit, OffersFitInit DEF PartsInit
<1>2. JoinInv /\ OffersFit /\ [PartsNext]_partsVars => (JoinInv /\ OffersFit)'
  <2>1. PartsNext => [J!Next]_(J!vars)
    BY DEF PartsNext, join, J!vars, J!tracker
  <2>2. UNCHANGED partsVars => [J!Next]_(J!vars)
    BY DEF partsVars, join, J!vars, J!tracker
  <2>q. QED BY <2>1, <2>2, Assumptions, JoinNext, OffersFitNext
<1>q. QED BY <1>1, <1>2, PTL DEF PartsSpec

LEMMA ImporterInvariance == PartsSpec => []ImporterInv
<1>1. PartsInit => ImporterInv
  BY Assumptions, ImporterInit DEF PartsInit
<1>2. ImporterInv /\ [PartsNext]_partsVars => ImporterInv'
  <2>1. PartsNext => [I!Next]_(I!vars)
    BY DEF PartsNext, importer, I!vars, I!disk, I!account, I!ghosts
  <2>2. UNCHANGED partsVars => [I!Next]_(I!vars)
    BY DEF partsVars, importer, I!vars, I!disk, I!account, I!ghosts
  <2>q. QED BY <2>1, <2>2, Assumptions, ImporterNext
<1>q. QED BY <1>1, <1>2, PTL DEF PartsSpec

LEMMA MergingInvariance == PartsSpec => []MergingInv
<1>1. PartsInit => MergingInv
  BY Assumptions, MergingInit DEF PartsInit
<1>2. MergingInv /\ [PartsNext]_partsVars => MergingInv'
  <2>1. PartsNext => [M!Next]_(M!vars)
    BY DEF PartsNext, merging, M!vars, M!store
  <2>2. UNCHANGED partsVars => [M!Next]_(M!vars)
    BY DEF partsVars, merging, M!vars, M!store
  <2>q. QED BY <2>1, <2>2, Assumptions, MergingNext
<1>q. QED BY <1>1, <1>2, PTL DEF PartsSpec

LEMMA PacingInvariance == PartsSpec => []PacingInv
<1>1. PartsInit => PacingInv
  BY Assumptions, PacingInit DEF PartsInit
<1>2. PacingInv /\ [PartsNext]_partsVars => PacingInv'
  <2>1. PartsNext => [P!Next]_(P!vars)
    BY DEF PartsNext, pacing, P!vars
  <2>2. UNCHANGED partsVars => [P!Next]_(P!vars)
    BY DEF partsVars, pacing, P!vars
  <2>q. QED BY <2>1, <2>2, Assumptions, PacingNext
<1>q. QED BY <1>1, <1>2, PTL DEF PartsSpec

LEMMA UtterancesInvariance == PartsSpec => []UtterancesInv
<1>1. PartsInit => UtterancesInv
  BY UtterancesInit DEF PartsInit
<1>2. UtterancesInv /\ [PartsNext]_partsVars => UtterancesInv'
  <2>1. PartsNext => [U!Next]_(U!vars)
    BY DEF PartsNext, utterances, U!vars
  <2>2. UNCHANGED partsVars => [U!Next]_(U!vars)
    BY DEF partsVars, utterances, U!vars
  <2>q. QED BY <2>1, <2>2, UtterancesNext
<1>q. QED BY <1>1, <1>2, PTL DEF PartsSpec

\* A meeting is told once in a window by each source, though requests of several tabs, polls and refusals
\* overlap and read what is noted before they write it.
THEOREM PartsToldOnce == PartsSpec => []ToldOnce
<1>1. JoinInv => ToldOnce
  BY DEF JoinInv, ToldOnce
<1>q. QED BY <1>1, JoinInvariance, PTL

\* A file the cursor has passed is stored as it is or told apart, though files are edited and moved under
\* a pull, and pulls overlap, fail and die between their statements. Told apart are, beside what failed
\* and what an account or a move brought: what a full walk had no room for (scan, MAX_FILES), what changed
\* behind a walk, what lies too deep (MAX_DEPTH), and what could not be listed.
THEOREM PartsNothingIsPassedOver == PartsSpec => []NothingIsPassedOver
<1>1. ImporterInv => NothingIsPassedOver
  BY DEF ImporterInv, CursorCovers, Passed, NothingIsPassedOver, I!NothingIsPassedOver, I!Missed, I!In
<1>q. QED BY <1>1, ImporterInvariance, PTL

\* A merge loses nobody who attended, and an edge to nobody comes of a person a merge took for another.
THEOREM PartsMergedIsKnown == PartsSpec => []MergedIsKnown
<1>1. MergingInv => MergedIsKnown
  BY DEF MergingInv, MergedIsKnown
<1>q. QED BY <1>1, MergingInvariance, PTL

\* System audio is stamped near the time it was heard, however it arrives late, in bursts or not at all.
THEOREM PartsStampedNearItsTime == PartsSpec => []StampedNearItsTime
<1>1. PacingInv => StampedNearItsTime
  BY DEF PacingInv, StampedNearItsTime
<1>q. QED BY <1>1, PacingInvariance, PTL

\* The clock and the counts describe what is held after cuts anywhere and discards; what a pause or the
\* end hands out is speech, and what is dropped is not, but for the error of one cut or the pre-roll: what
\* a cut inside a frame gets wrong is not added to by the cuts after it.
THEOREM PartsSpeechIsCounted == PartsSpec => []SpeechIsCounted
<1>1. UtterancesInv => SpeechIsCounted
  BY DEF UtterancesInv, Accounts, SpeechIsCounted, U!CountsAgree
<1>q. QED BY <1>1, UtterancesInvariance, PTL

\* Every part keeps its types: no more routers are built than there is room for, what is offered stays
\* within its bound, and what is held of a recording does.
THEOREM PartsTypeCorrect == PartsSpec => []PartsTypeOK
<1>1. /\ SInv /\ RequestShape /\ UnmaskedBySaying /\ RouterFits
      /\ JoinInv /\ OffersFit /\ ImporterInv /\ MergingInv /\ UtterancesInv /\ PacingInv
      => PartsTypeOK
  BY RouterTypes, JoinTyped, UtterancesTypes DEF ImporterInv, MergingInv, PacingInv, PartsTypeOK
<1>q. QED BY <1>1, RouterInvariance, OffersInvariance, ImporterInvariance, MergingInvariance,
             UtterancesInvariance, PacingInvariance, PTL
=============================================================================
