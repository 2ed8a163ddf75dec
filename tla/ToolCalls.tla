----------------------------- MODULE ToolCalls -----------------------------
(***************************************************************************)
(* Calls of tools on an external MCP server: proposed by a model, approved *)
(* by a person, claimed, sent over a session, and recorded as they ended.  *)
(*                                                                         *)
(* One server. Several requests of the API handle its calls at once, each  *)
(* taking the database lock for one step at a time and the session's       *)
(* transport lock for one exchange. The person may meanwhile turn the      *)
(* server off, stop it or remove it, and the process may be restarted.     *)
(*                                                                         *)
(* What the transport carried is kept as the requests ever written and     *)
(* the answers ever given to them; a server may act on a request after     *)
(* everyone stopped waiting for the answer.                                *)
(***************************************************************************)
EXTENDS Integers, FiniteSets

CONSTANTS
  Calls,      \* tool_executions rows
  Handlers,   \* requests of the API in flight at once
  AutoStart,  \* auto_start of the server
  MaxStarts,  \* bound: how often the server is started
  MaxFaults   \* bound: dropped handlers, failed statements and restarts

ASSUME ToolCallsAssumption ==
  /\ IsFiniteSet(Calls) /\ Calls # {}
  /\ IsFiniteSet(Handlers)
  /\ AutoStart \in BOOLEAN
  /\ MaxStarts \in Nat /\ MaxFaults \in Nat

VARIABLES
  status,   \* tool_executions.status, "absent" before the row is inserted
  claimed,  \* executed_at has been set
  server,   \* "off", "on" or "removed"; the rows go with the server
  toolOn,   \* the tool has a row in mcp_enabled_tools
  leaving,  \* "turn_off" and "remove" handlers between their two steps
  session,  \* the server's session in the map, numbered by its start; 0 for none
  starts,   \* sessions started so far
  wire,     \* tools/call requests written, ever
  done,     \* the requests among them that took effect and were answered with a result
  refused,  \* those answered with an error
  pc,       \* where each handler is
  call,     \* the row it is about
  via,      \* the session it holds
  req,      \* the request it waits on
  outcome,  \* what it is about to record
  broken,   \* ghost: the calls that a fault took out of a handler's hands after the claim
  faults    \* faults so far

rowVars     == <<status, claimed>>
configVars  == <<server, toolOn, leaving>>
sessionVars == <<session, starts>>
wireVars    == <<wire, done, refused>>
handlerVars == <<pc, call, via, req, outcome>>
faultVars   == <<broken, faults>>
vars == <<rowVars, configVars, sessionVars, wireVars, handlerVars, faultVars>>

Outcomes == {"succeeded", "failed", "unknown"}
Statuses == {"absent", "proposed", "confirmed", "rejected"} \union Outcomes
Phases   == {"idle", "claiming", "calling", "waiting", "sending", "recording"}
Requests == [session : 1..MaxStarts, id : Nat, call : Calls]
NoRequest == [session |-> 0, id |-> 0]

TypeOK ==
  /\ status \in [Calls -> Statuses]
  /\ claimed \in [Calls -> BOOLEAN]
  /\ server \in {"off", "on", "removed"}
  /\ toolOn \in BOOLEAN
  /\ leaving \subseteq {"turn_off", "remove"}
  /\ session \in 0..MaxStarts /\ starts \in 0..MaxStarts
  /\ wire \subseteq Requests
  /\ done \subseteq wire /\ refused \subseteq wire /\ done \cap refused = {}
  /\ pc \in [Handlers -> Phases]
  /\ call \in [Handlers -> Calls]
  /\ via \in [Handlers -> 0..MaxStarts]
  /\ req \in [Handlers -> Requests \union {NoRequest}]
  /\ \A h \in Handlers : pc[h] = "sending" => req[h] \in wire /\ req[h].session = via[h]
  /\ outcome \in [Handlers -> Outcomes]
  /\ broken \subseteq Calls
  /\ faults \in 0..MaxFaults

Init ==
  /\ status = [c \in Calls |-> "absent"]
  /\ claimed = [c \in Calls |-> FALSE]
  /\ server = "off" /\ toolOn = FALSE /\ leaving = {}
  /\ session = 0 /\ starts = 0
  /\ wire = {} /\ done = {} /\ refused = {}
  /\ pc = [h \in Handlers |-> "idle"]
  /\ call = [h \in Handlers |-> CHOOSE c \in Calls : TRUE]
  /\ via = [h \in Handlers |-> 0]
  /\ req = [h \in Handlers |-> NoRequest]
  /\ outcome = [h \in Handlers |-> "failed"]
  /\ broken = {} /\ faults = 0

Fault == faults < MaxFaults /\ faults' = faults + 1

\* Past its claim, with the end still to be recorded.
UnderWay(h) == pc[h] \notin {"idle", "claiming"}
-----------------------------------------------------------------------------
(* Approving. *)

\* propose: the server's tools were listed, a model chose one, and store_proposal finds the server
\* by name. What was enabled when they were listed may not be any more, so it is no guard here.
Propose(c) ==
  /\ status[c] = "absent" /\ server # "removed"
  /\ status' = [status EXCEPT ![c] = "proposed"]
  /\ UNCHANGED <<claimed, configVars, sessionVars, wireVars, handlerVars, faultVars>>

\* transition: one UPDATE guarded by the status the row must be in.
Transition(c, from, to) ==
  /\ server # "removed" /\ status[c] = from
  /\ status' = [status EXCEPT ![c] = to]
  /\ UNCHANGED claimed

Reject(c) ==
  /\ Transition(c, "proposed", "rejected")
  /\ UNCHANGED <<configVars, sessionVars, wireVars, handlerVars, faultVars>>

Begin(h, c) ==
  /\ pc[h] = "idle"
  /\ pc' = [pc EXCEPT ![h] = "claiming"]
  /\ call' = [call EXCEPT ![h] = c]
  /\ UNCHANGED <<via, req, outcome>>

\* confirm, then execute under a second taking of the lock.
Confirm(h, c) ==
  /\ Transition(c, "proposed", "confirmed")
  /\ Begin(h, c)
  /\ UNCHANGED <<configVars, sessionVars, wireVars, faultVars>>

\* execute_confirmed: "it never went out".
Resend(h, c) ==
  /\ server # "removed" /\ status[c] = "confirmed"
  /\ Begin(h, c)
  /\ UNCHANGED <<rowVars, configVars, sessionVars, wireVars, faultVars>>
-----------------------------------------------------------------------------
(* Sending. *)

Goto(h, phase) ==
  /\ pc' = [pc EXCEPT ![h] = phase]
  /\ UNCHANGED <<call, via, req, outcome>>

\* The handler ends; dropping what it holds of the session.
Leave(h) ==
  /\ pc' = [pc EXCEPT ![h] = "idle"]
  /\ via' = [via EXCEPT ![h] = 0]
  /\ req' = [req EXCEPT ![h] = NoRequest]
  /\ outcome' = [outcome EXCEPT ![h] = "failed"]
  /\ UNCHANGED call

Record(h, o) ==
  /\ pc' = [pc EXCEPT ![h] = "recording"]
  /\ outcome' = [outcome EXCEPT ![h] = o]
  /\ UNCHANGED <<call, via, req>>

Claimable(c) == server # "removed" /\ status[c] = "confirmed" /\ ~claimed[c]

\* execute, first half, under one taking of the lock: claim, and read the server and the allowlist.
Claim(h) ==
  /\ pc[h] = "claiming" /\ Claimable(call[h])
  /\ claimed' = [claimed EXCEPT ![call[h]] = TRUE]
  /\ IF server = "on" /\ toolOn THEN Goto(h, "calling") ELSE Record(h, "failed")
  /\ UNCHANGED <<status, configVars, sessionVars, wireVars, faultVars>>

\* claim goes through, and reading the row back, the server or the allowlist fails: the error is
\* returned, and nothing recorded.
ClaimThenFails(h) ==
  /\ pc[h] = "claiming" /\ Claimable(call[h])
  /\ Fault
  /\ claimed' = [claimed EXCEPT ![call[h]] = TRUE]
  /\ broken' = broken \union {call[h]}
  /\ Leave(h)
  /\ UNCHANGED <<status, configVars, sessionVars, wireVars>>

\* Already claimed, no longer confirmed, or gone with the server: refused.
ClaimRefused(h) ==
  /\ pc[h] = "claiming" /\ ~Claimable(call[h])
  /\ Leave(h)
  /\ UNCHANGED <<rowVars, configVars, sessionVars, wireVars, faultVars>>

\* ensure, holding the map lock: the session there is, or a new one if the server may start.
EnsureSession(explicit) ==
  \/ session # 0 /\ UNCHANGED sessionVars
  \/ /\ session = 0 /\ (AutoStart \/ explicit)
     /\ starts < MaxStarts
     /\ starts' = starts + 1
     /\ session' = starts + 1

\* call: take the session, and check the tool and its arguments against what it publishes.
Ensure(h) ==
  /\ pc[h] = "calling"
  /\ EnsureSession(FALSE)
  /\ \/ /\ pc' = [pc EXCEPT ![h] = "waiting"]
        /\ via' = [via EXCEPT ![h] = session']
        /\ UNCHANGED <<call, req, outcome>>
     \/ Record(h, "failed")
  /\ UNCHANGED <<rowVars, configVars, wireVars, faultVars>>

\* An error returned instead of being recorded: the row stays claimed.
EnsureFailsUnrecorded(h) ==
  /\ pc[h] = "calling"
  /\ Leave(h)
  /\ UNCHANGED <<rowVars, configVars, sessionVars, wireVars, faultVars>>

\* Misconfigured, pinned off and not started, or a spawn or handshake that fails.
EnsureFails(h) ==
  /\ pc[h] = "calling"
  /\ Record(h, "failed")
  /\ UNCHANGED <<rowVars, configVars, sessionVars, wireVars, faultVars>>

TransportFree(s) == \A h \in Handlers : ~(pc[h] = "sending" /\ via[h] = s)
NextId(s) == Cardinality({q \in wire : q.session = s}) + 1

\* request, up to the write: the transport lock is held from here to the answer.
Send(h) ==
  /\ pc[h] = "waiting" /\ TransportFree(via[h])
  /\ LET q == [session |-> via[h], id |-> NextId(via[h]), call |-> call[h]] IN
       /\ wire' = wire \union {q}
       /\ req' = [req EXCEPT ![h] = q]
  /\ pc' = [pc EXCEPT ![h] = "sending"]
  /\ UNCHANGED <<rowVars, configVars, sessionVars, done, refused, call, via, outcome, faultVars>>

\* The pipe or socket is found broken before anything is written.
SendFails(h) ==
  /\ pc[h] = "waiting" /\ TransportFree(via[h])
  /\ Record(h, "failed")
  /\ UNCHANGED <<rowVars, configVars, sessionVars, wireVars, faultVars>>

\* The server acts on a request, or refuses it, and answers.
Serve(q) ==
  /\ q \in wire \ (done \union refused)
  /\ \/ done' = done \union {q} /\ UNCHANGED refused
     \/ refused' = refused \union {q} /\ UNCHANGED done
  /\ UNCHANGED <<rowVars, configVars, sessionVars, wire, handlerVars, faultVars>>

\* A read loop that takes the first line it sees.
ReceiveAny(h) ==
  /\ pc[h] = "sending"
  /\ \E q \in done \union refused :
       /\ q.session = via[h]
       /\ Record(h, IF q \in done THEN "succeeded" ELSE "failed")
  /\ UNCHANGED <<rowVars, configVars, sessionVars, wireVars, faultVars>>

\* Replies to earlier requests are skipped until this one's is read.
Receive(h) ==
  /\ pc[h] = "sending" /\ req[h] \in done \union refused
  /\ Record(h, IF req[h] \in done THEN "succeeded" ELSE "failed")
  /\ UNCHANGED <<rowVars, configVars, sessionVars, wireVars, faultVars>>

\* The transport breaks while the answer is awaited. The request may have been acted on.
ReceiveFails(h) ==
  /\ pc[h] = "sending"
  /\ Record(h, "failed")
  /\ UNCHANGED <<rowVars, configVars, sessionVars, wireVars, faultVars>>

TimeoutNever(h) == FALSE

\* DEFAULT_TIMEOUT passes: the one failure recorded as unknown.
Timeout(h) ==
  /\ pc[h] = "sending"
  /\ Record(h, "unknown")
  /\ UNCHANGED <<rowVars, configVars, sessionVars, wireVars, faultVars>>

\* finish, guarded by the status; when the row went with its server there is nothing to record.
Finish(h) ==
  /\ pc[h] = "recording"
  /\ status' = IF server # "removed" /\ status[call[h]] = "confirmed"
               THEN [status EXCEPT ![call[h]] = outcome[h]] ELSE status
  /\ Leave(h)
  /\ UNCHANGED <<claimed, configVars, sessionVars, wireVars, faultVars>>

\* The statement fails and the error is returned, whatever the server did.
FinishFails(h) ==
  /\ pc[h] = "recording"
  /\ Fault
  /\ broken' = broken \union {call[h]}
  /\ Leave(h)
  /\ UNCHANGED <<rowVars, configVars, sessionVars, wireVars>>
-----------------------------------------------------------------------------
(* The server's configuration. *)

TurnOn ==
  /\ server = "off" /\ server' = "on"
  /\ UNCHANGED <<rowVars, toolOn, leaving, sessionVars, wireVars, handlerVars, faultVars>>

\* set_enabled(false): the row first, the session after the lock is let go.
TurnOff ==
  /\ server = "on" /\ server' = "off"
  /\ leaving' = leaving \union {"turn_off"}
  /\ UNCHANGED <<rowVars, toolOn, sessionVars, wireVars, handlerVars, faultVars>>

ToggleTool ==
  /\ server # "removed"
  /\ toolOn' = ~toolOn
  /\ UNCHANGED <<rowVars, server, leaving, sessionVars, wireVars, handlerVars, faultVars>>

\* stop_server, and the second half of turning off. A call in flight keeps its session and ends.
Stop ==
  /\ session # 0 \/ "turn_off" \in leaving
  /\ session' = 0
  /\ leaving' = leaving \ {"turn_off"}
  /\ UNCHANGED <<rowVars, server, toolOn, starts, wireVars, handlerVars, faultVars>>

\* start_server and discover_tools: nothing asks whether the server is on.
Start ==
  /\ server # "removed" /\ session = 0
  /\ EnsureSession(TRUE)
  /\ UNCHANGED <<rowVars, configVars, wireVars, handlerVars, faultVars>>

\* remove_server: the session is stopped first, the rows deleted after.
Remove ==
  /\ server # "removed" /\ "remove" \notin leaving
  /\ session' = 0
  /\ leaving' = leaving \union {"remove"}
  /\ UNCHANGED <<rowVars, server, toolOn, starts, wireVars, handlerVars, faultVars>>

DeleteRows ==
  /\ "remove" \in leaving
  /\ leaving' = leaving \ {"remove"}
  /\ server' = "removed" /\ toolOn' = FALSE
  /\ UNCHANGED <<rowVars, sessionVars, wireVars, handlerVars, faultVars>>

\* The client of the API hangs up and the handler is dropped where it is. Before the claim, a
\* statement that fails comes to the same.
Drop(h) ==
  /\ pc[h] # "idle"
  /\ Fault
  /\ broken' = IF UnderWay(h) THEN broken \union {call[h]} ELSE broken
  /\ Leave(h)
  /\ UNCHANGED <<rowVars, configVars, sessionVars, wireVars>>

\* The engine stops and starts again. A remote server works on.
Restart ==
  /\ Fault
  /\ broken' = broken \union {call[h] : h \in {x \in Handlers : UnderWay(x)}}
  /\ pc' = [h \in Handlers |-> "idle"]
  /\ via' = [h \in Handlers |-> 0]
  /\ req' = [h \in Handlers |-> NoRequest]
  /\ outcome' = [h \in Handlers |-> "failed"]
  /\ session' = 0 /\ leaving' = {}
  /\ UNCHANGED <<rowVars, server, toolOn, starts, wireVars, call>>

Handle(h) ==
  \/ Claim(h) \/ ClaimRefused(h) \/ Ensure(h) \/ EnsureFails(h)
  \/ Send(h) \/ Receive(h) \/ Timeout(h) \/ Finish(h)

Next ==
  \/ \E c \in Calls : Propose(c) \/ Reject(c)
  \/ \E h \in Handlers, c \in Calls : Confirm(h, c) \/ Resend(h, c)
  \/ \E h \in Handlers : \/ Handle(h) \/ SendFails(h) \/ ReceiveFails(h)
                         \/ ClaimThenFails(h) \/ FinishFails(h) \/ Drop(h)
  \/ \E q \in wire : Serve(q)
  \/ TurnOn \/ TurnOff \/ ToggleTool \/ Stop \/ Start \/ Remove \/ DeleteRows
  \/ Restart

Spec == Init /\ [][Next]_vars

\* A handler that is not dropped runs on: its locks are let go and its waits are timed. That the
\* transport ever breaks is not counted on.
FairSpec == Spec /\ \A h \in Handlers : WF_vars(Handle(h))
-----------------------------------------------------------------------------
(* Properties. *)

\* A call is never sent twice: of all requests that confirm it or resend it, one claims it.
SentOnce ==
  \A q1, q2 \in wire : q1.call = q2.call => q1 = q2

\* Nothing goes out that nobody approved, and nothing that somebody declined.
OnlyApprovedSent ==
  \A q \in wire : status[q.call] \in {"confirmed"} \union Outcomes

\* The record says it succeeded only of a call whose own reply said so, whichever reply of an
\* earlier request is still in the pipe.
SucceededWasDone ==
  \A c \in Calls : status[c] = "succeeded" => \E q \in done : q.call = c

\* How a call ended is never written over: a replayed confirmation, a late handler or a second
\* window leaves the row as it is.
OutcomeIsFinal ==
  [][\A c \in Calls : status[c] \in Outcomes \union {"rejected"} => status'[c] = status[c]]_vars

\* A claimed call is on its way in some handler until its end is recorded. A row is left claimed and
\* unfinished, refused for ever, only where a fault took this very call from its handler: it was
\* dropped or restarted past the claim, or its claim or its end was not followed through.
Stranded ==
  {c \in Calls : /\ status[c] = "confirmed" /\ claimed[c] /\ server # "removed"
                 /\ ~\E h \in Handlers : call[h] = c /\ UnderWay(h)}
StrandedNeedsFault == Stranded \subseteq broken

\* The whole machinery keeps the promise of module Approval.
Effects == [c \in Calls |-> Cardinality({q \in done : q.call = c})]
Promise == INSTANCE Approval WITH stage <- status, effect <- Effects
ImplementsApproval == Promise!Spec

\* A handler that took a call up ends: nothing in the chain of locks and waits holds it for ever.
\* Nothing tells one handler from another, so it is said of one.
HandlersEnd ==
  LET h == CHOOSE x \in Handlers : TRUE IN pc[h] # "idle" ~> pc[h] = "idle"
=============================================================================
