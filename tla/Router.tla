-------------------------------- MODULE Router --------------------------------
(***************************************************************************)
(* Which model answers. A router is built from a default backend and the   *)
(* rules that are stored, and is replaced as a whole when either changes;  *)
(* a request keeps the one it began with. The first rule that matches      *)
(* chooses the backend and the masking that goes with it, a probe of the   *)
(* default backend is remembered for a while, and a rule's failure is      *)
(* tried once more on the default.                                         *)
(*                                                                         *)
(* The size, the text and the hour of a request are its task here.         *)
(***************************************************************************)
EXTENDS Naturals, Sequences, FiniteSets, Selection

CONSTANTS
  Kinds,     \* backends
  Local,     \* those that keep the text on this machine
  Buildable, \* those that can be built: with a key, or an address
  AtStart,   \* those that can be built when the process starts, which asks no keychain
  Default,   \* the one it starts with where it can build no other
  Tasks,
  RuleSets,  \* rule sets that may be put: sequences of rules
  Requests,  \* requests at a time
  Writers,   \* changes of the settings at a time
  None,
  MaxBuilt   \* bound: routers that are built

Healths == {"unasked", "up", "down"}
Rules   == [tasks : SUBSET Tasks, health : {"any", "up", "down"}, to : Kinds, mask : BOOLEAN]

ASSUME RouterAssumption ==
  /\ Local \subseteq Kinds /\ Buildable \subseteq Kinds /\ AtStart \subseteq Buildable /\ Default \in AtStart
  /\ RuleSets \subseteq Seq(Rules) /\ <<>> \in RuleSets
  /\ None \notin Kinds /\ IsFiniteSet(Writers) /\ MaxBuilt \in Nat

VARIABLES
  live,    \* the router in force
  health,  \* the last probe each router remembers
  saved,   \* the settings: the kind of the default backend, None before the first choice, and the rules
  writer,  \* how far each change is, and what it holds
  request, \* how far each request is, and the router it holds
  muddled  \* ghost: since a change last went through alone, two overlapped, one was not remembered
           \* or found no rules to read, or the process started without what it needs to build what
           \* is stored

vars == <<live, health, saved, writer, request, muddled>>

\* with_stored_routes: a rule whose backend cannot be built is skipped.
Built(rules, kinds) == Chosen(rules, {i \in DOMAIN rules : rules[i].to \in kinds})

Routers == [kind : Kinds, rules : Seq(Rules), id : 0..MaxBuilt]
NoChange == [step |-> "away", kind |-> None, rules |-> <<>>, alone |-> TRUE]
Idle    == [step |-> "away", on |-> None, task |-> None, to |-> None, masked |-> FALSE, hop |-> 0]

TypeOK ==
  /\ live \in Routers
  /\ health \in [0..MaxBuilt -> Healths]
  /\ saved \in [kind : Kinds \union {None}, rules : Seq(Rules)]
  /\ \A w \in Writers :
       /\ writer[w].step \in {"away", "saving", "asking", "switching", "building", "remembering"}
       /\ writer[w].step # "away" => writer[w].kind \in Kinds \union {None} /\ writer[w].rules \in Seq(Rules)
  /\ \A r \in Requests :
       /\ request[r].step \in {"away", "judging", "probing", "sending"}
       /\ request[r].step # "away" => request[r].on \in Routers /\ request[r].task \in Tasks
       /\ request[r].step = "sending" => request[r].to \in Kinds /\ request[r].hop \in {1, 2}
  /\ muddled \in BOOLEAN

Init ==
  /\ live = [kind |-> Default, rules |-> Built(<<>>, Buildable), id |-> 0]
  /\ saved = [kind |-> None, rules |-> <<>>]
  /\ health = [i \in 0..MaxBuilt |-> "unasked"]
  /\ writer = [w \in Writers |-> NoChange]
  /\ request = [r \in Requests |-> Idle]
  /\ muddled = FALSE

Changing == {w \in Writers : writer[w].step # "away"}
-----------------------------------------------------------------------------
(* The settings. *)

\* A change begins; ghost: alone, unless it begins under another.
BeginChange(w, first, kind, rules) ==
  /\ writer[w].step = "away"
  /\ live.id + Cardinality(Changing) < MaxBuilt
  /\ writer' = [v \in Writers |->
                  IF v = w THEN [step |-> first, kind |-> kind, rules |-> rules, alone |-> Changing = {}]
                           ELSE [writer[v] EXCEPT !.alone = FALSE]]
  /\ muddled' = (muddled \/ Changing # {})
  /\ UNCHANGED <<live, health, saved, request>>

\* put_rules, of a set in which nothing stands below a rule that takes everything.
CatchAll(r) == r.tasks = Tasks /\ r.health = "any"
PutRules(w) ==
  \E rules \in RuleSets :
    /\ \A i \in 1..(Len(rules) - 1) : ~CatchAll(rules[i])
    /\ BeginChange(w, "saving", None, rules)

\* Or they cannot be saved, and the request fails.
SaveRules(w) ==
  /\ writer[w].step = "saving"
  /\ \/ /\ saved' = [saved EXCEPT !.rules = writer[w].rules]
        /\ writer' = [writer EXCEPT ![w].step = "asking"]
     \/ writer' = [writer EXCEPT ![w] = NoChange] /\ UNCHANGED saved
  /\ UNCHANGED <<live, health, request, muddled>>

\* The kind in force now is the one the router is built for again.
AskKind(w) ==
  /\ writer[w].step = "asking"
  /\ writer' = [writer EXCEPT ![w].step = "switching", ![w].kind = live.kind]
  /\ UNCHANGED <<live, health, saved, request, muddled>>

\* switch_backend, from the settings page.
Switch(w) == \E k \in Kinds : BeginChange(w, "switching", k, <<>>)

\* It keeps the rules of the router in force.
ReadRulesOfLive(w) ==
  /\ writer[w].step = "switching"
  /\ writer' = [writer EXCEPT ![w].step = "building", ![w].rules = live.rules]
  /\ UNCHANGED <<live, health, saved, request, muddled>>

\* It takes the rules that are saved, or none where they cannot be read.
ReadRules(w) ==
  /\ writer[w].step = "switching"
  /\ \/ /\ writer' = [writer EXCEPT ![w].step = "building", ![w].rules = saved.rules]
        /\ UNCHANGED muddled
     \/ /\ writer' = [writer EXCEPT ![w].step = "building", ![w].rules = <<>>, ![w].alone = FALSE]
        /\ muddled' = TRUE
  /\ UNCHANGED <<live, health, saved, request>>

\* from_config, with_stored_routes, and the swap. A new router has asked nobody yet.
Swap(w) ==
  /\ writer[w].step = "building" /\ writer[w].kind \in Buildable
  /\ live' = [kind |-> writer[w].kind, rules |-> Built(writer[w].rules, Buildable), id |-> live.id + 1]
  /\ writer' = [writer EXCEPT ![w].step = "remembering"]
  /\ UNCHANGED <<health, saved, request, muddled>>

\* A default that cannot be built leaves the router that works, and the rules that were saved.
CannotBuild(w) ==
  /\ writer[w].step = "building" /\ writer[w].kind \notin Buildable
  /\ writer' = [writer EXCEPT ![w] = NoChange]
  /\ UNCHANGED <<live, health, saved, request, muddled>>

\* The choice is remembered, or cannot be, which fails nothing.
Remember(w) ==
  /\ writer[w].step = "remembering"
  /\ \/ saved' = [saved EXCEPT !.kind = writer[w].kind] /\ muddled' = (muddled /\ ~writer[w].alone)
     \/ muddled' = TRUE /\ UNCHANGED saved
  /\ writer' = [writer EXCEPT ![w] = NoChange]
  /\ UNCHANGED <<live, health, request>>

\* The process starts again: with what is stored, or the default and no rules where the kind that
\* is stored cannot be built yet.
Restart ==
  /\ live.id < MaxBuilt
  /\ LET known == saved.kind \in AtStart
         rules == IF known THEN Built(saved.rules, AtStart) ELSE <<>>
     IN /\ live' = [kind |-> IF known THEN saved.kind ELSE Default, rules |-> rules, id |-> live.id + 1]
        /\ muddled' = ~((known \/ saved.kind = None) /\ rules = Built(saved.rules, Buildable))
  /\ writer' = [w \in Writers |-> NoChange]
  /\ request' = [r \in Requests |-> Idle]
  /\ UNCHANGED <<health, saved>>
-----------------------------------------------------------------------------
(* A request. *)

NeedsHealth(router) == \E i \in DOMAIN router.rules : router.rules[i].health # "any"

\* What nobody asked satisfies no rule that wants the answer.
Matches(rule, task, h) == task \in rule.tasks /\ rule.health \in {"any", h}

\* policy_for: what stays on the machine is not masked. The default's configured masking is on.
Mask(kind, configured) == kind \notin Local /\ configured

\* state.ai(): the router of this moment, kept to the end.
Ask(r) ==
  /\ request[r].step = "away"
  /\ \E t \in Tasks :
       request' = [request EXCEPT ![r] = [Idle EXCEPT !.step = "judging", !.on = live, !.task = t]]
  /\ UNCHANGED <<live, health, saved, writer, muddled>>

\* route_for: the first rule that matches, or the default.
Route(r, h) ==
  LET q == request[r]
      hits == {i \in DOMAIN q.on.rules : Matches(q.on.rules[i], q.task, h)}
  IN IF hits = {}
     THEN request' = [request EXCEPT ![r].step = "sending", ![r].hop = 2, ![r].to = q.on.kind,
                                     ![r].masked = Mask(q.on.kind, TRUE)]
     ELSE \E i \in hits :
            /\ \A j \in hits : i <= j
            /\ request' = [request EXCEPT ![r].step = "sending", ![r].hop = 1, ![r].to = q.on.rules[i].to,
                                          ![r].masked = Mask(q.on.rules[i].to, q.on.rules[i].mask)]

\* local_healthy: nobody is asked where no rule asks, and a fresh answer is used again.
Judge(r) ==
  /\ request[r].step = "judging"
  /\ IF ~NeedsHealth(request[r].on)
     THEN Route(r, "unasked")
     ELSE IF health[request[r].on.id] # "unasked"
          THEN Route(r, health[request[r].on.id])
          ELSE request' = [request EXCEPT ![r].step = "probing"]
  /\ UNCHANGED <<live, health, saved, writer, muddled>>

\* The probe's answer is stamped when it comes.
Probed(r) ==
  /\ request[r].step = "probing"
  /\ \E h \in {"up", "down"} :
       /\ health' = [health EXCEPT ![request[r].on.id] = h]
       /\ Route(r, h)
  /\ UNCHANGED <<live, saved, writer, muddled>>

\* HEALTH_TTL has passed.
Stale(i) ==
  /\ health[i] # "unasked"
  /\ health' = [health EXCEPT ![i] = "unasked"]
  /\ UNCHANGED <<live, saved, writer, request, muddled>>

\* It answers, or refuses for good.
Answered(r) ==
  /\ request[r].step = "sending"
  /\ request' = [request EXCEPT ![r] = Idle]
  /\ UNCHANGED <<live, health, saved, writer, muddled>>

\* A rule's backend fails in a way that may pass: the default is asked, once, with what was
\* masked for it anew.
FallBack(r) ==
  /\ request[r].step = "sending" /\ request[r].hop = 1
  /\ request' = [request EXCEPT ![r].hop = 2, ![r].to = request[r].on.kind,
                                ![r].masked = Mask(request[r].on.kind, TRUE)]
  /\ UNCHANGED <<live, health, saved, writer, muddled>>

Next ==
  \/ \E w \in Writers : \/ PutRules(w) \/ SaveRules(w) \/ AskKind(w) \/ Switch(w) \/ ReadRules(w)
                        \/ Swap(w) \/ CannotBuild(w) \/ Remember(w)
  \/ \E r \in Requests : Ask(r) \/ Judge(r) \/ Probed(r) \/ Answered(r) \/ FallBack(r)
  \/ \E i \in 0..MaxBuilt : Stale(i)
  \/ Restart

Spec == Init /\ [][Next]_vars
-----------------------------------------------------------------------------
(* Properties. *)

\* After a change that went through alone the router in force is what is stored, whatever the
\* changes before it left.
SettledAsStored ==
  Changing = {} /\ ~muddled =>
    /\ live.kind = IF saved.kind = None THEN Default ELSE saved.kind
    /\ live.rules = Built(saved.rules, Buildable)

\* Nothing goes to a service unmasked but by a rule, of the router the request began with, that
\* names that service and says so: by no failure, and by no change of the settings under way.
UnmaskedBySaying ==
  \A r \in Requests :
    request[r].step = "sending" /\ request[r].to \notin Local /\ ~request[r].masked
      => \E i \in DOMAIN request[r].on.rules :
           request[r].on.rules[i].to = request[r].to /\ ~request[r].on.rules[i].mask
=============================================================================
