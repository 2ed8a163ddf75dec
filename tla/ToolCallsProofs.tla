-------------------------- MODULE ToolCallsProofs --------------------------
(***************************************************************************)
(* Safety of external tool calls for any calls, handlers and faults: a     *)
(* call is sent at most once and only if approved, what is recorded of it  *)
(* is final and true, and the whole implements module Approval.            *)
(*                                                                         *)
(* None of it is inductive alone. The argument turns on the claim: an      *)
(* unclaimed call was never sent, and a claimed unfinished one is in the   *)
(* hands of at most one handler, which has not sent it before it waits for *)
(* the answer.                                                             *)
(***************************************************************************)
EXTENDS ToolCalls, FiniteSetTheorems, TLAPS

Active(h) == pc[h] \in {"calling", "waiting", "sending", "recording"}

LEMMA ActiveIsUnderWay == TypeOK => \A h \in Handlers : Active(h) <=> UnderWay(h)
  BY DEF TypeOK, Phases, Active, UnderWay

\* A handler past its claim has a claimed, confirmed row, and has it alone.
Carried ==
  /\ \A h \in Handlers : Active(h) => status[call[h]] = "confirmed" /\ claimed[call[h]]
  /\ \A g, h \in Handlers : Active(g) /\ Active(h) /\ call[g] = call[h] => g = h

\* What has not been sent yet: what nobody claimed, and what its handler has still to send.
Unsent ==
  /\ \A c \in Calls : ~claimed[c] => \A q \in wire : q.call # c
  /\ \A h \in Handlers : pc[h] \in {"calling", "waiting"} => \A q \in wire : q.call # call[h]

ClaimedIsApproved ==
  \A c \in Calls : claimed[c] => status[c] \in {"confirmed"} \union Outcomes

\* A handler waits for the answer to its own call, and reports a success it has read.
Answers ==
  \A h \in Handlers :
    /\ pc[h] = "sending" => req[h].call = call[h]
    /\ pc[h] = "recording" /\ outcome[h] = "succeeded" => \E q \in done : q.call = call[h]

Wired ==
  /\ IsFiniteSet(wire)
  /\ \A h \in Handlers : pc[h] \in {"waiting", "sending"} => via[h] # 0

Inv  == Carried /\ Unsent /\ ClaimedIsApproved /\ Answers /\ SentOnce /\ SucceededWasDone
IInv == TypeOK /\ Wired /\ Inv

LEMMA InitIInv == Init => IInv
<1> SUFFICES ASSUME Init PROVE IInv
  OBVIOUS
<1>1. TypeOK
  <2>1. (CHOOSE c \in Calls : TRUE) \in Calls
    BY ToolCallsAssumption
  <2>2. call \in [Handlers -> Calls] /\ status \in [Calls -> Statuses] /\ outcome \in [Handlers -> Outcomes]
    BY <2>1 DEF Init, Statuses, Outcomes
  <2>3. claimed \in [Calls -> BOOLEAN] /\ toolOn \in BOOLEAN
    BY DEF Init
  <2>4. /\ pc \in [Handlers -> Phases] /\ via \in [Handlers -> 0..MaxStarts]
        /\ session \in 0..MaxStarts /\ starts \in 0..MaxStarts
        /\ req \in [Handlers -> Requests \union {NoRequest}]
    BY ToolCallsAssumption DEF Init, Phases
  <2> QED
    BY <2>2, <2>3, <2>4, ToolCallsAssumption DEF Init, TypeOK
<1>2. Wired
  BY FS_EmptySet DEF Init, Wired
<1>3. Inv
  BY DEF Init, Inv, Carried, Active, Unsent, ClaimedIsApproved, Answers, SentOnce, SucceededWasDone
<1> QED
  BY <1>1, <1>2, <1>3 DEF IInv
-----------------------------------------------------------------------------
(* Types. *)

LEMMA NextIdType == TypeOK /\ Wired => \A s \in 1..MaxStarts : NextId(s) \in Nat
<1> SUFFICES ASSUME TypeOK, Wired, NEW s \in 1..MaxStarts PROVE NextId(s) \in Nat
  OBVIOUS
<1>1. IsFiniteSet({q \in wire : q.session = s})
  BY FS_Subset DEF Wired
<1> QED
  BY <1>1, FS_CardinalityType DEF NextId

LEMMA StepTypeOK == TypeOK /\ Wired /\ [Next]_vars => TypeOK'
<1> SUFFICES ASSUME TypeOK, Wired, [Next]_vars PROVE TypeOK'
  OBVIOUS
<1> USE ToolCallsAssumption DEF TypeOK, rowVars, configVars, sessionVars, wireVars, handlerVars, faultVars,
        Statuses, Outcomes, Phases, Fault, UnderWay
<1>1. ASSUME NEW c \in Calls, Propose(c) PROVE TypeOK'
  BY <1>1 DEF Propose
<1>2. ASSUME NEW c \in Calls, Reject(c) PROVE TypeOK'
  BY <1>2 DEF Reject, Transition
<1>3. ASSUME NEW h \in Handlers, NEW c \in Calls, Confirm(h, c) PROVE TypeOK'
  BY <1>3 DEF Confirm, Transition, Begin
<1>4. ASSUME NEW h \in Handlers, NEW c \in Calls, Resend(h, c) PROVE TypeOK'
  BY <1>4 DEF Resend, Begin
<1>5. ASSUME NEW h \in Handlers, Claim(h) PROVE TypeOK'
  BY <1>5 DEF Claim, Claimable, Goto, Record
<1>6. ASSUME NEW h \in Handlers, ClaimRefused(h) PROVE TypeOK'
  BY <1>6 DEF ClaimRefused, Claimable, Leave
<1>7. ASSUME NEW h \in Handlers, Ensure(h) PROVE TypeOK'
  BY <1>7 DEF Ensure, EnsureSession, Record
<1>8. ASSUME NEW h \in Handlers, EnsureFails(h) PROVE TypeOK'
  BY <1>8 DEF EnsureFails, Record
<1>9. ASSUME NEW h \in Handlers, Send(h) PROVE TypeOK'
  <2>1. via[h] \in 1..MaxStarts /\ NextId(via[h]) \in Nat
    BY <1>9, NextIdType DEF Send, Wired
  <2> DEFINE q == [session |-> via[h], id |-> NextId(via[h]), call |-> call[h]]
  <2>2. q \in Requests
    BY <2>1 DEF Requests
  <2>3. wire' = wire \union {q} /\ req' = [req EXCEPT ![h] = q]
    BY <1>9 DEF Send
  <2>4. wire' \subseteq Requests /\ req' \in [Handlers -> Requests \union {NoRequest}]
    BY <2>2, <2>3
  <2>5. \A g \in Handlers : pc'[g] = "sending" => req'[g] \in wire' /\ req'[g].session = via'[g]
    BY <1>9, <2>3 DEF Send
  <2> QED
    BY <1>9, <2>3, <2>4, <2>5 DEF Send
<1>10. ASSUME NEW h \in Handlers, SendFails(h) PROVE TypeOK'
  BY <1>10 DEF SendFails, Record
<1>11. ASSUME NEW h \in Handlers, Receive(h) PROVE TypeOK'
  BY <1>11 DEF Receive, Record
<1>12. ASSUME NEW h \in Handlers, ReceiveFails(h) PROVE TypeOK'
  BY <1>12 DEF ReceiveFails, Record
<1>13. ASSUME NEW h \in Handlers, Timeout(h) PROVE TypeOK'
  BY <1>13 DEF Timeout, Record
<1>14. ASSUME NEW h \in Handlers, Finish(h) PROVE TypeOK'
  BY <1>14 DEF Finish, Leave
<1>15. ASSUME NEW h \in Handlers, ClaimThenFails(h) \/ FinishFails(h) \/ Drop(h) PROVE TypeOK'
  <2>1. call[h] \in Calls /\ faults' \in 0..MaxFaults /\ broken' \subseteq broken \union {call[h]}
    BY <1>15 DEF ClaimThenFails, FinishFails, Drop
  <2>2. claimed' \in [Calls -> BOOLEAN]
    BY <1>15 DEF ClaimThenFails, FinishFails, Drop
  <2>3. /\ UNCHANGED <<status, configVars, sessionVars, wireVars, call>> /\ pc' = [pc EXCEPT ![h] = "idle"]
        /\ via' = [via EXCEPT ![h] = 0] /\ req' = [req EXCEPT ![h] = NoRequest]
        /\ outcome' = [outcome EXCEPT ![h] = "failed"]
    BY <1>15 DEF ClaimThenFails, FinishFails, Drop, Leave
  <2> QED
    BY <2>1, <2>2, <2>3
<1>16. ASSUME NEW q \in wire, Serve(q) PROVE TypeOK'
  BY <1>16 DEF Serve
<1>17. ASSUME TurnOn \/ TurnOff \/ ToggleTool \/ Stop \/ Start \/ Remove \/ DeleteRows PROVE TypeOK'
  <2>1. ASSUME TurnOn \/ TurnOff PROVE TypeOK'
    BY <2>1 DEF TurnOn, TurnOff
  <2>2. CASE ToggleTool
    <3>1. toolOn' \in BOOLEAN
      BY <2>2 DEF ToggleTool
    <3> QED
      BY <2>2, <3>1 DEF ToggleTool
  <2>3. ASSUME Stop \/ Remove PROVE TypeOK'
    <3>0. session' = 0 /\ leaving' \subseteq leaving \union {"remove"}
      BY <2>3 DEF Stop, Remove
    <3>1. session' \in 0..MaxStarts /\ leaving' \subseteq {"turn_off", "remove"}
      BY <3>0
    <3>2. UNCHANGED <<rowVars, server, toolOn, starts, wireVars, handlerVars, faultVars>>
      BY <2>3 DEF Stop, Remove
    <3> QED
      BY <3>1, <3>2
  <2>4. CASE Start
    BY <2>4 DEF Start, EnsureSession
  <2>5. CASE DeleteRows
    <3>1. toolOn' \in BOOLEAN
      BY <2>5 DEF DeleteRows
    <3> QED
      BY <2>5, <3>1 DEF DeleteRows
  <2> QED
    BY <1>17, <2>1, <2>2, <2>3, <2>4, <2>5
<1>18. ASSUME Restart PROVE TypeOK'
  BY <1>18 DEF Restart
<1>19. ASSUME UNCHANGED vars PROVE TypeOK'
  BY <1>19 DEF vars
<1> QED
  BY <1>1, <1>2, <1>3, <1>4, <1>5, <1>6, <1>7, <1>8, <1>9, <1>10, <1>11, <1>12, <1>13, <1>14, <1>15, <1>16, <1>17, <1>18, <1>19 DEF Next, Handle

LEMMA StepWired == TypeOK /\ Wired /\ [Next]_vars => Wired'
<1> SUFFICES ASSUME TypeOK, Wired, [Next]_vars PROVE Wired'
  OBVIOUS
<1> USE ToolCallsAssumption DEF TypeOK, Wired, rowVars, configVars, sessionVars, wireVars, handlerVars, faultVars
<1>1. ASSUME NEW c \in Calls, Propose(c) PROVE Wired'
  BY <1>1 DEF Propose
<1>2. ASSUME NEW c \in Calls, Reject(c) PROVE Wired'
  BY <1>2 DEF Reject, Transition
<1>3. ASSUME NEW h \in Handlers, NEW c \in Calls, Confirm(h, c) PROVE Wired'
  BY <1>3 DEF Confirm, Transition, Begin
<1>4. ASSUME NEW h \in Handlers, NEW c \in Calls, Resend(h, c) PROVE Wired'
  BY <1>4 DEF Resend, Begin
<1>5. ASSUME NEW h \in Handlers, Claim(h) PROVE Wired'
  BY <1>5 DEF Claim, Claimable, Goto, Record
<1>6. ASSUME NEW h \in Handlers, ClaimRefused(h) PROVE Wired'
  BY <1>6 DEF ClaimRefused, Claimable, Leave
<1>7. ASSUME NEW h \in Handlers, Ensure(h) PROVE Wired'
  BY <1>7 DEF Ensure, EnsureSession, Record
<1>8. ASSUME NEW h \in Handlers, EnsureFails(h) PROVE Wired'
  BY <1>8 DEF EnsureFails, Record
<1>9. ASSUME NEW h \in Handlers, Send(h) PROVE Wired'
  <2>1. IsFiniteSet(wire')
    BY <1>9, FS_AddElement DEF Send
  <2> QED
    BY <1>9, <2>1 DEF Send
<1>10. ASSUME NEW h \in Handlers, SendFails(h) PROVE Wired'
  BY <1>10 DEF SendFails, Record
<1>11. ASSUME NEW h \in Handlers, Receive(h) PROVE Wired'
  BY <1>11 DEF Receive, Record
<1>12. ASSUME NEW h \in Handlers, ReceiveFails(h) PROVE Wired'
  BY <1>12 DEF ReceiveFails, Record
<1>13. ASSUME NEW h \in Handlers, Timeout(h) PROVE Wired'
  BY <1>13 DEF Timeout, Record
<1>14. ASSUME NEW h \in Handlers, Finish(h) PROVE Wired'
  BY <1>14 DEF Finish, Leave
<1>15. ASSUME NEW h \in Handlers, ClaimThenFails(h) \/ FinishFails(h) \/ Drop(h) PROVE Wired'
  BY <1>15 DEF ClaimThenFails, FinishFails, Drop, Claimable, Leave
<1>16. ASSUME NEW q \in wire, Serve(q) PROVE Wired'
  BY <1>16 DEF Serve
<1>17. ASSUME TurnOn \/ TurnOff \/ ToggleTool \/ Stop \/ Start \/ Remove \/ DeleteRows PROVE Wired'
  BY <1>17 DEF TurnOn, TurnOff, ToggleTool, Stop, Start, Remove, DeleteRows, EnsureSession
<1>18. ASSUME Restart PROVE Wired'
  BY <1>18 DEF Restart
<1>19. ASSUME UNCHANGED vars PROVE Wired'
  BY <1>19 DEF vars
<1> QED
  BY <1>1, <1>2, <1>3, <1>4, <1>5, <1>6, <1>7, <1>8, <1>9, <1>10, <1>11, <1>12, <1>13, <1>14, <1>15, <1>16, <1>17, <1>18, <1>19 DEF Next, Handle

-----------------------------------------------------------------------------
(* The claim. *)

LEMMA StepCarried == TypeOK /\ Inv /\ [Next]_vars => Carried'
<1> SUFFICES ASSUME TypeOK, Carried, [Next]_vars PROVE Carried'
  BY DEF Inv
<1> USE DEF TypeOK, Carried, Active, rowVars, configVars, sessionVars, wireVars, handlerVars, faultVars
<1>1. ASSUME NEW c \in Calls, Propose(c) PROVE Carried'
  BY <1>1 DEF Propose
<1>2. ASSUME NEW c \in Calls, Reject(c) PROVE Carried'
  BY <1>2 DEF Reject, Transition
<1>3. ASSUME NEW h \in Handlers, NEW c \in Calls, Confirm(h, c) PROVE Carried'
  BY <1>3 DEF Confirm, Transition, Begin
<1>4. ASSUME NEW h \in Handlers, NEW c \in Calls, Resend(h, c) PROVE Carried'
  BY <1>4 DEF Resend, Begin
<1>5. ASSUME NEW h \in Handlers, Claim(h) PROVE Carried'
  BY <1>5 DEF Claim, Claimable, Goto, Record
<1>6. ASSUME NEW h \in Handlers, ClaimRefused(h) PROVE Carried'
  BY <1>6 DEF ClaimRefused, Claimable, Leave
<1>7. ASSUME NEW h \in Handlers, Ensure(h) PROVE Carried'
  BY <1>7 DEF Ensure, EnsureSession, Record
<1>8. ASSUME NEW h \in Handlers, EnsureFails(h) PROVE Carried'
  BY <1>8 DEF EnsureFails, Record
<1>9. ASSUME NEW h \in Handlers, Send(h) PROVE Carried'
  BY <1>9 DEF Send
<1>10. ASSUME NEW h \in Handlers, SendFails(h) PROVE Carried'
  BY <1>10 DEF SendFails, Record
<1>11. ASSUME NEW h \in Handlers, Receive(h) PROVE Carried'
  BY <1>11 DEF Receive, Record
<1>12. ASSUME NEW h \in Handlers, ReceiveFails(h) PROVE Carried'
  BY <1>12 DEF ReceiveFails, Record
<1>13. ASSUME NEW h \in Handlers, Timeout(h) PROVE Carried'
  BY <1>13 DEF Timeout, Record
<1>14. ASSUME NEW h \in Handlers, Finish(h) PROVE Carried'
  BY <1>14 DEF Finish, Leave
<1>15. ASSUME NEW h \in Handlers, ClaimThenFails(h) \/ FinishFails(h) \/ Drop(h) PROVE Carried'
  BY <1>15 DEF ClaimThenFails, FinishFails, Drop, Claimable, Leave
<1>16. ASSUME NEW q \in wire, Serve(q) PROVE Carried'
  BY <1>16 DEF Serve
<1>17. ASSUME TurnOn \/ TurnOff \/ ToggleTool \/ Stop \/ Start \/ Remove \/ DeleteRows PROVE Carried'
  BY <1>17 DEF TurnOn, TurnOff, ToggleTool, Stop, Start, Remove, DeleteRows, EnsureSession
<1>18. ASSUME Restart PROVE Carried'
  BY <1>18 DEF Restart
<1>19. ASSUME UNCHANGED vars PROVE Carried'
  BY <1>19 DEF vars
<1> QED
  BY <1>1, <1>2, <1>3, <1>4, <1>5, <1>6, <1>7, <1>8, <1>9, <1>10, <1>11, <1>12, <1>13, <1>14, <1>15, <1>16, <1>17, <1>18, <1>19 DEF Next, Handle

LEMMA StepUnsent == TypeOK /\ Inv /\ [Next]_vars => Unsent'
<1> SUFFICES ASSUME TypeOK, Carried, Unsent, [Next]_vars PROVE Unsent'
  BY DEF Inv
<1> USE DEF TypeOK, Unsent, Carried, Active, rowVars, configVars, sessionVars, wireVars, handlerVars, faultVars
<1>1. ASSUME NEW c \in Calls, Propose(c) PROVE Unsent'
  BY <1>1 DEF Propose
<1>2. ASSUME NEW c \in Calls, Reject(c) PROVE Unsent'
  BY <1>2 DEF Reject, Transition
<1>3. ASSUME NEW h \in Handlers, NEW c \in Calls, Confirm(h, c) PROVE Unsent'
  BY <1>3 DEF Confirm, Transition, Begin
<1>4. ASSUME NEW h \in Handlers, NEW c \in Calls, Resend(h, c) PROVE Unsent'
  BY <1>4 DEF Resend, Begin
<1>5. ASSUME NEW h \in Handlers, Claim(h) PROVE Unsent'
  BY <1>5 DEF Claim, Claimable, Goto, Record
<1>6. ASSUME NEW h \in Handlers, ClaimRefused(h) PROVE Unsent'
  BY <1>6 DEF ClaimRefused, Claimable, Leave
<1>7. ASSUME NEW h \in Handlers, Ensure(h) PROVE Unsent'
  BY <1>7 DEF Ensure, EnsureSession, Record
<1>8. ASSUME NEW h \in Handlers, EnsureFails(h) PROVE Unsent'
  BY <1>8 DEF EnsureFails, Record
<1>9. ASSUME NEW h \in Handlers, Send(h) PROVE Unsent'
  BY <1>9 DEF Send
<1>10. ASSUME NEW h \in Handlers, SendFails(h) PROVE Unsent'
  BY <1>10 DEF SendFails, Record
<1>11. ASSUME NEW h \in Handlers, Receive(h) PROVE Unsent'
  BY <1>11 DEF Receive, Record
<1>12. ASSUME NEW h \in Handlers, ReceiveFails(h) PROVE Unsent'
  BY <1>12 DEF ReceiveFails, Record
<1>13. ASSUME NEW h \in Handlers, Timeout(h) PROVE Unsent'
  BY <1>13 DEF Timeout, Record
<1>14. ASSUME NEW h \in Handlers, Finish(h) PROVE Unsent'
  BY <1>14 DEF Finish, Leave
<1>15. ASSUME NEW h \in Handlers, ClaimThenFails(h) \/ FinishFails(h) \/ Drop(h) PROVE Unsent'
  BY <1>15 DEF ClaimThenFails, FinishFails, Drop, Claimable, Leave
<1>16. ASSUME NEW q \in wire, Serve(q) PROVE Unsent'
  BY <1>16 DEF Serve
<1>17. ASSUME TurnOn \/ TurnOff \/ ToggleTool \/ Stop \/ Start \/ Remove \/ DeleteRows PROVE Unsent'
  BY <1>17 DEF TurnOn, TurnOff, ToggleTool, Stop, Start, Remove, DeleteRows, EnsureSession
<1>18. ASSUME Restart PROVE Unsent'
  BY <1>18 DEF Restart
<1>19. ASSUME UNCHANGED vars PROVE Unsent'
  BY <1>19 DEF vars
<1> QED
  BY <1>1, <1>2, <1>3, <1>4, <1>5, <1>6, <1>7, <1>8, <1>9, <1>10, <1>11, <1>12, <1>13, <1>14, <1>15, <1>16, <1>17, <1>18, <1>19 DEF Next, Handle

LEMMA StepClaimedIsApproved == TypeOK /\ Inv /\ [Next]_vars => ClaimedIsApproved'
<1> SUFFICES ASSUME TypeOK, Carried, ClaimedIsApproved, [Next]_vars PROVE ClaimedIsApproved'
  BY DEF Inv
<1> USE DEF TypeOK, ClaimedIsApproved, Carried, Active, Outcomes, Statuses, rowVars, configVars, sessionVars, wireVars, handlerVars, faultVars
<1>1. ASSUME NEW c \in Calls, Propose(c) PROVE ClaimedIsApproved'
  BY <1>1 DEF Propose
<1>2. ASSUME NEW c \in Calls, Reject(c) PROVE ClaimedIsApproved'
  BY <1>2 DEF Reject, Transition
<1>3. ASSUME NEW h \in Handlers, NEW c \in Calls, Confirm(h, c) PROVE ClaimedIsApproved'
  BY <1>3 DEF Confirm, Transition, Begin
<1>4. ASSUME NEW h \in Handlers, NEW c \in Calls, Resend(h, c) PROVE ClaimedIsApproved'
  BY <1>4 DEF Resend, Begin
<1>5. ASSUME NEW h \in Handlers, Claim(h) PROVE ClaimedIsApproved'
  BY <1>5 DEF Claim, Claimable, Goto, Record
<1>6. ASSUME NEW h \in Handlers, ClaimRefused(h) PROVE ClaimedIsApproved'
  BY <1>6 DEF ClaimRefused, Claimable, Leave
<1>7. ASSUME NEW h \in Handlers, Ensure(h) PROVE ClaimedIsApproved'
  BY <1>7 DEF Ensure, EnsureSession, Record
<1>8. ASSUME NEW h \in Handlers, EnsureFails(h) PROVE ClaimedIsApproved'
  BY <1>8 DEF EnsureFails, Record
<1>9. ASSUME NEW h \in Handlers, Send(h) PROVE ClaimedIsApproved'
  BY <1>9 DEF Send
<1>10. ASSUME NEW h \in Handlers, SendFails(h) PROVE ClaimedIsApproved'
  BY <1>10 DEF SendFails, Record
<1>11. ASSUME NEW h \in Handlers, Receive(h) PROVE ClaimedIsApproved'
  BY <1>11 DEF Receive, Record
<1>12. ASSUME NEW h \in Handlers, ReceiveFails(h) PROVE ClaimedIsApproved'
  BY <1>12 DEF ReceiveFails, Record
<1>13. ASSUME NEW h \in Handlers, Timeout(h) PROVE ClaimedIsApproved'
  BY <1>13 DEF Timeout, Record
<1>14. ASSUME NEW h \in Handlers, Finish(h) PROVE ClaimedIsApproved'
  BY <1>14 DEF Finish, Leave
<1>15. ASSUME NEW h \in Handlers, ClaimThenFails(h) \/ FinishFails(h) \/ Drop(h) PROVE ClaimedIsApproved'
  BY <1>15 DEF ClaimThenFails, FinishFails, Drop, Claimable, Leave
<1>16. ASSUME NEW q \in wire, Serve(q) PROVE ClaimedIsApproved'
  BY <1>16 DEF Serve
<1>17. ASSUME TurnOn \/ TurnOff \/ ToggleTool \/ Stop \/ Start \/ Remove \/ DeleteRows PROVE ClaimedIsApproved'
  BY <1>17 DEF TurnOn, TurnOff, ToggleTool, Stop, Start, Remove, DeleteRows, EnsureSession
<1>18. ASSUME Restart PROVE ClaimedIsApproved'
  BY <1>18 DEF Restart
<1>19. ASSUME UNCHANGED vars PROVE ClaimedIsApproved'
  BY <1>19 DEF vars
<1> QED
  BY <1>1, <1>2, <1>3, <1>4, <1>5, <1>6, <1>7, <1>8, <1>9, <1>10, <1>11, <1>12, <1>13, <1>14, <1>15, <1>16, <1>17, <1>18, <1>19 DEF Next, Handle

LEMMA StepAnswers == TypeOK /\ Inv /\ [Next]_vars => Answers'
<1> SUFFICES ASSUME TypeOK, Answers, [Next]_vars PROVE Answers'
  BY DEF Inv
<1> USE DEF TypeOK, Answers, rowVars, configVars, sessionVars, wireVars, handlerVars, faultVars
<1>1. ASSUME NEW c \in Calls, Propose(c) PROVE Answers'
  BY <1>1 DEF Propose
<1>2. ASSUME NEW c \in Calls, Reject(c) PROVE Answers'
  BY <1>2 DEF Reject, Transition
<1>3. ASSUME NEW h \in Handlers, NEW c \in Calls, Confirm(h, c) PROVE Answers'
  BY <1>3 DEF Confirm, Transition, Begin
<1>4. ASSUME NEW h \in Handlers, NEW c \in Calls, Resend(h, c) PROVE Answers'
  BY <1>4 DEF Resend, Begin
<1>5. ASSUME NEW h \in Handlers, Claim(h) PROVE Answers'
  BY <1>5 DEF Claim, Claimable, Goto, Record
<1>6. ASSUME NEW h \in Handlers, ClaimRefused(h) PROVE Answers'
  BY <1>6 DEF ClaimRefused, Claimable, Leave
<1>7. ASSUME NEW h \in Handlers, Ensure(h) PROVE Answers'
  BY <1>7 DEF Ensure, EnsureSession, Record
<1>8. ASSUME NEW h \in Handlers, EnsureFails(h) PROVE Answers'
  BY <1>8 DEF EnsureFails, Record
<1>9. ASSUME NEW h \in Handlers, Send(h) PROVE Answers'
  BY <1>9 DEF Send
<1>10. ASSUME NEW h \in Handlers, SendFails(h) PROVE Answers'
  BY <1>10 DEF SendFails, Record
<1>11. ASSUME NEW h \in Handlers, Receive(h) PROVE Answers'
  BY <1>11 DEF Receive, Record
<1>12. ASSUME NEW h \in Handlers, ReceiveFails(h) PROVE Answers'
  BY <1>12 DEF ReceiveFails, Record
<1>13. ASSUME NEW h \in Handlers, Timeout(h) PROVE Answers'
  BY <1>13 DEF Timeout, Record
<1>14. ASSUME NEW h \in Handlers, Finish(h) PROVE Answers'
  BY <1>14 DEF Finish, Leave
<1>15. ASSUME NEW h \in Handlers, ClaimThenFails(h) \/ FinishFails(h) \/ Drop(h) PROVE Answers'
  BY <1>15 DEF ClaimThenFails, FinishFails, Drop, Claimable, Leave
<1>16. ASSUME NEW q \in wire, Serve(q) PROVE Answers'
  BY <1>16 DEF Serve
<1>17. ASSUME TurnOn \/ TurnOff \/ ToggleTool \/ Stop \/ Start \/ Remove \/ DeleteRows PROVE Answers'
  BY <1>17 DEF TurnOn, TurnOff, ToggleTool, Stop, Start, Remove, DeleteRows, EnsureSession
<1>18. ASSUME Restart PROVE Answers'
  BY <1>18 DEF Restart
<1>19. ASSUME UNCHANGED vars PROVE Answers'
  BY <1>19 DEF vars
<1> QED
  BY <1>1, <1>2, <1>3, <1>4, <1>5, <1>6, <1>7, <1>8, <1>9, <1>10, <1>11, <1>12, <1>13, <1>14, <1>15, <1>16, <1>17, <1>18, <1>19 DEF Next, Handle

LEMMA StepSentOnce == TypeOK /\ Inv /\ [Next]_vars => SentOnce'
<1> SUFFICES ASSUME TypeOK, SentOnce, Unsent, [Next]_vars PROVE SentOnce'
  BY DEF Inv
<1> USE DEF TypeOK, SentOnce, Unsent, rowVars, configVars, sessionVars, wireVars, handlerVars, faultVars
<1>1. ASSUME NEW c \in Calls, Propose(c) PROVE SentOnce'
  BY <1>1 DEF Propose
<1>2. ASSUME NEW c \in Calls, Reject(c) PROVE SentOnce'
  BY <1>2 DEF Reject, Transition
<1>3. ASSUME NEW h \in Handlers, NEW c \in Calls, Confirm(h, c) PROVE SentOnce'
  BY <1>3 DEF Confirm, Transition, Begin
<1>4. ASSUME NEW h \in Handlers, NEW c \in Calls, Resend(h, c) PROVE SentOnce'
  BY <1>4 DEF Resend, Begin
<1>5. ASSUME NEW h \in Handlers, Claim(h) PROVE SentOnce'
  BY <1>5 DEF Claim, Claimable, Goto, Record
<1>6. ASSUME NEW h \in Handlers, ClaimRefused(h) PROVE SentOnce'
  BY <1>6 DEF ClaimRefused, Claimable, Leave
<1>7. ASSUME NEW h \in Handlers, Ensure(h) PROVE SentOnce'
  BY <1>7 DEF Ensure, EnsureSession, Record
<1>8. ASSUME NEW h \in Handlers, EnsureFails(h) PROVE SentOnce'
  BY <1>8 DEF EnsureFails, Record
<1>9. ASSUME NEW h \in Handlers, Send(h) PROVE SentOnce'
  BY <1>9 DEF Send
<1>10. ASSUME NEW h \in Handlers, SendFails(h) PROVE SentOnce'
  BY <1>10 DEF SendFails, Record
<1>11. ASSUME NEW h \in Handlers, Receive(h) PROVE SentOnce'
  BY <1>11 DEF Receive, Record
<1>12. ASSUME NEW h \in Handlers, ReceiveFails(h) PROVE SentOnce'
  BY <1>12 DEF ReceiveFails, Record
<1>13. ASSUME NEW h \in Handlers, Timeout(h) PROVE SentOnce'
  BY <1>13 DEF Timeout, Record
<1>14. ASSUME NEW h \in Handlers, Finish(h) PROVE SentOnce'
  BY <1>14 DEF Finish, Leave
<1>15. ASSUME NEW h \in Handlers, ClaimThenFails(h) \/ FinishFails(h) \/ Drop(h) PROVE SentOnce'
  BY <1>15 DEF ClaimThenFails, FinishFails, Drop, Claimable, Leave
<1>16. ASSUME NEW q \in wire, Serve(q) PROVE SentOnce'
  BY <1>16 DEF Serve
<1>17. ASSUME TurnOn \/ TurnOff \/ ToggleTool \/ Stop \/ Start \/ Remove \/ DeleteRows PROVE SentOnce'
  BY <1>17 DEF TurnOn, TurnOff, ToggleTool, Stop, Start, Remove, DeleteRows, EnsureSession
<1>18. ASSUME Restart PROVE SentOnce'
  BY <1>18 DEF Restart
<1>19. ASSUME UNCHANGED vars PROVE SentOnce'
  BY <1>19 DEF vars
<1> QED
  BY <1>1, <1>2, <1>3, <1>4, <1>5, <1>6, <1>7, <1>8, <1>9, <1>10, <1>11, <1>12, <1>13, <1>14, <1>15, <1>16, <1>17, <1>18, <1>19 DEF Next, Handle

LEMMA StepSucceededWasDone == TypeOK /\ Inv /\ [Next]_vars => SucceededWasDone'
<1> SUFFICES ASSUME TypeOK, SucceededWasDone, Answers, [Next]_vars PROVE SucceededWasDone'
  BY DEF Inv
<1> USE DEF TypeOK, SucceededWasDone, Answers, rowVars, configVars, sessionVars, wireVars, handlerVars, faultVars
<1>1. ASSUME NEW c \in Calls, Propose(c) PROVE SucceededWasDone'
  BY <1>1 DEF Propose
<1>2. ASSUME NEW c \in Calls, Reject(c) PROVE SucceededWasDone'
  BY <1>2 DEF Reject, Transition
<1>3. ASSUME NEW h \in Handlers, NEW c \in Calls, Confirm(h, c) PROVE SucceededWasDone'
  BY <1>3 DEF Confirm, Transition, Begin
<1>4. ASSUME NEW h \in Handlers, NEW c \in Calls, Resend(h, c) PROVE SucceededWasDone'
  BY <1>4 DEF Resend, Begin
<1>5. ASSUME NEW h \in Handlers, Claim(h) PROVE SucceededWasDone'
  BY <1>5 DEF Claim, Claimable, Goto, Record
<1>6. ASSUME NEW h \in Handlers, ClaimRefused(h) PROVE SucceededWasDone'
  BY <1>6 DEF ClaimRefused, Claimable, Leave
<1>7. ASSUME NEW h \in Handlers, Ensure(h) PROVE SucceededWasDone'
  BY <1>7 DEF Ensure, EnsureSession, Record
<1>8. ASSUME NEW h \in Handlers, EnsureFails(h) PROVE SucceededWasDone'
  BY <1>8 DEF EnsureFails, Record
<1>9. ASSUME NEW h \in Handlers, Send(h) PROVE SucceededWasDone'
  BY <1>9 DEF Send
<1>10. ASSUME NEW h \in Handlers, SendFails(h) PROVE SucceededWasDone'
  BY <1>10 DEF SendFails, Record
<1>11. ASSUME NEW h \in Handlers, Receive(h) PROVE SucceededWasDone'
  BY <1>11 DEF Receive, Record
<1>12. ASSUME NEW h \in Handlers, ReceiveFails(h) PROVE SucceededWasDone'
  BY <1>12 DEF ReceiveFails, Record
<1>13. ASSUME NEW h \in Handlers, Timeout(h) PROVE SucceededWasDone'
  BY <1>13 DEF Timeout, Record
<1>14. ASSUME NEW h \in Handlers, Finish(h) PROVE SucceededWasDone'
  BY <1>14 DEF Finish, Leave
<1>15. ASSUME NEW h \in Handlers, ClaimThenFails(h) \/ FinishFails(h) \/ Drop(h) PROVE SucceededWasDone'
  BY <1>15 DEF ClaimThenFails, FinishFails, Drop, Claimable, Leave
<1>16. ASSUME NEW q \in wire, Serve(q) PROVE SucceededWasDone'
  BY <1>16 DEF Serve
<1>17. ASSUME TurnOn \/ TurnOff \/ ToggleTool \/ Stop \/ Start \/ Remove \/ DeleteRows PROVE SucceededWasDone'
  BY <1>17 DEF TurnOn, TurnOff, ToggleTool, Stop, Start, Remove, DeleteRows, EnsureSession
<1>18. ASSUME Restart PROVE SucceededWasDone'
  BY <1>18 DEF Restart
<1>19. ASSUME UNCHANGED vars PROVE SucceededWasDone'
  BY <1>19 DEF vars
<1> QED
  BY <1>1, <1>2, <1>3, <1>4, <1>5, <1>6, <1>7, <1>8, <1>9, <1>10, <1>11, <1>12, <1>13, <1>14, <1>15, <1>16, <1>17, <1>18, <1>19 DEF Next, Handle

LEMMA StepIInv == IInv /\ [Next]_vars => IInv'
  BY StepTypeOK, StepWired, StepCarried, StepUnsent, StepClaimedIsApproved, StepAnswers, StepSentOnce,
     StepSucceededWasDone DEF IInv, Inv

LEMMA Invariance == Spec => []IInv
<1>1. IInv /\ [Next]_vars => IInv'
  BY StepIInv
<1> QED
  BY InitIInv, <1>1, PTL DEF Spec
-----------------------------------------------------------------------------
(* Who holds a call that was claimed.                                      *)

\* The call is in the hands of a handler past its claim.
Holder(c) == \E h \in Handlers : call[h] = c /\ Active(h)

Held == \A c \in Calls \ broken : status[c] = "confirmed" /\ claimed[c] /\ server # "removed" => Holder(c)

LEMMA StepHeld == IInv /\ Held /\ [Next]_vars => Held'
<1> SUFFICES ASSUME IInv, Held, [Next]_vars, NEW c \in Calls, c \notin broken',
                    status'[c] = "confirmed", claimed'[c], server' # "removed"
             PROVE  Holder(c)'
  BY DEF Held
<1> USE DEF rowVars, configVars, sessionVars, wireVars, handlerVars, faultVars
<1>0. TypeOK /\ ClaimedIsApproved
  BY DEF IInv, Inv
<1>1. ASSUME c \notin broken, status[c] = "confirmed", claimed[c], server # "removed" PROVE Holder(c)
  BY <1>1 DEF Held
<1>2. ASSUME NEW d \in Calls, Propose(d) \/ Reject(d) PROVE Holder(c)'
  BY <1>0, <1>1, <1>2 DEF TypeOK, Propose, Reject, Transition, Holder, Active
<1>3. ASSUME NEW h \in Handlers, NEW d \in Calls, Confirm(h, d) \/ Resend(h, d) PROVE Holder(c)'
  <2>1. c \notin broken /\ claimed[c] /\ server # "removed" /\ pc[h] = "idle"
    BY <1>3 DEF Confirm, Resend, Transition, Begin
  <2>2. status[c] = "confirmed"
    BY <1>0, <1>3, <2>1 DEF TypeOK, Confirm, Resend, Transition, Begin, ClaimedIsApproved, Outcomes
  <2>3. PICK g \in Handlers : call[g] = c /\ Active(g)
    BY <1>1, <2>1, <2>2 DEF Holder
  <2>4. call'[g] = c /\ Active(g)'
    BY <1>0, <1>3, <2>1, <2>3 DEF TypeOK, Confirm, Resend, Begin, Active
  <2> QED
    BY <2>4 DEF Holder
<1>4. ASSUME NEW h \in Handlers, Claim(h) PROVE Holder(c)'
  <2>1. c \notin broken /\ status[c] = "confirmed" /\ server # "removed" /\ call' = call
    BY <1>4 DEF Claim, Goto, Record
  <2>2. Active(h)' /\ \A g \in Handlers \ {h} : pc'[g] = pc[g]
    BY <1>0, <1>4 DEF TypeOK, Claim, Goto, Record, Active
  <2>3. CASE call[h] = c
    BY <2>1, <2>2, <2>3 DEF Holder
  <2>4. CASE call[h] # c
    <3>1. claimed[c]
      BY <1>0, <1>4, <2>4 DEF TypeOK, Claim
    <3>2. PICK g \in Handlers : call[g] = c /\ Active(g)
      BY <1>1, <2>1, <3>1 DEF Holder
    <3> QED
      BY <2>1, <2>2, <2>4, <3>2 DEF Holder, Active
  <2> QED
    BY <2>3, <2>4
<1>5. ASSUME NEW h \in Handlers,
             Ensure(h) \/ EnsureFails(h) \/ Send(h) \/ SendFails(h) \/ Receive(h) \/ ReceiveFails(h) \/ Timeout(h)
      PROVE  Holder(c)'
  <2>1. c \notin broken /\ status[c] = "confirmed" /\ claimed[c] /\ server # "removed" /\ call' = call
    BY <1>5 DEF Ensure, EnsureFails, Send, SendFails, Receive, ReceiveFails, Timeout, Record
  <2>2. Active(h)' /\ \A g \in Handlers \ {h} : pc'[g] = pc[g]
    BY <1>0, <1>5 DEF TypeOK, Ensure, EnsureFails, Send, SendFails, Receive, ReceiveFails, Timeout, Record, Active
  <2>3. PICK g \in Handlers : call[g] = c /\ Active(g)
    BY <1>1, <2>1 DEF Holder
  <2> QED
    BY <2>1, <2>2, <2>3 DEF Holder, Active
<1>6. ASSUME NEW h \in Handlers, ClaimRefused(h) \/ Finish(h) PROVE Holder(c)'
  <2>1. c \notin broken /\ claimed[c] /\ server # "removed" /\ call' = call /\ \A g \in Handlers \ {h} : pc'[g] = pc[g]
    BY <1>0, <1>6 DEF TypeOK, ClaimRefused, Finish, Leave
  <2>2. status[c] = "confirmed" /\ (call[h] = c => ~Active(h))
    BY <1>0, <1>6 DEF TypeOK, ClaimRefused, Finish, Leave, Active, Outcomes
  <2>3. PICK g \in Handlers : call[g] = c /\ Active(g)
    BY <1>1, <2>1, <2>2 DEF Holder
  <2> QED
    BY <2>1, <2>2, <2>3 DEF Holder, Active
<1>7. ASSUME NEW q \in wire, Serve(q) PROVE Holder(c)'
  BY <1>1, <1>7 DEF Serve, Holder, Active
<1>8. CASE TurnOn \/ TurnOff \/ ToggleTool \/ Stop \/ Start \/ Remove \/ DeleteRows
  BY <1>1, <1>8 DEF TurnOn, TurnOff, ToggleTool, Stop, Start, Remove, DeleteRows, Holder, Active
<1>9. CASE Restart
  <2>1. c \notin broken /\ status[c] = "confirmed" /\ claimed[c] /\ server # "removed"
    BY <1>9 DEF Restart
  <2>2. PICK g \in Handlers : call[g] = c /\ UnderWay(g)
    BY <1>0, <1>1, <2>1, ActiveIsUnderWay DEF Holder
  <2> QED
    BY <1>9, <2>2 DEF Restart
<1>11. ASSUME NEW h \in Handlers, ClaimThenFails(h) \/ FinishFails(h) \/ Drop(h) PROVE Holder(c)'
  <2>1. c \notin broken /\ status[c] = "confirmed" /\ server # "removed" /\ call' = call
    BY <1>11 DEF ClaimThenFails, FinishFails, Drop, Leave
  <2>2. claimed[c] /\ (Active(h) => call[h] # c)
    BY <1>0, <1>11, ActiveIsUnderWay DEF TypeOK, ClaimThenFails, FinishFails, Drop, Active
  <2>3. PICK g \in Handlers : call[g] = c /\ Active(g)
    BY <1>1, <2>1, <2>2 DEF Holder
  <2>4. pc'[g] = pc[g]
    BY <1>0, <1>11, <2>2, <2>3 DEF TypeOK, ClaimThenFails, FinishFails, Drop, Leave
  <2> QED
    BY <2>1, <2>3, <2>4 DEF Holder, Active
<1>10. CASE UNCHANGED vars
  BY <1>1, <1>10 DEF vars, Holder, Active
<1> QED
  BY <1>2, <1>3, <1>4, <1>5, <1>6, <1>7, <1>8, <1>9, <1>10, <1>11 DEF Next, Handle

-----------------------------------------------------------------------------
(* What the runs check, for every instance. *)

\* The types, and that a handler awaiting an answer has its own request on the wire.
THEOREM ToolCallsTypeCorrect == Spec => []TypeOK
  BY Invariance, PTL DEF IInv

\* A call is never sent twice, nothing goes out unapproved, and a recorded success took place:
\* claim, transition and the matching of replies, whatever is dropped or restarted in between.
THEOREM ToolCallsSafe == Spec => [](SentOnce /\ OnlyApprovedSent /\ SucceededWasDone)
<1>1. IInv => SentOnce /\ OnlyApprovedSent /\ SucceededWasDone
  <2> SUFFICES ASSUME IInv PROVE OnlyApprovedSent
    BY DEF IInv, Inv
  <2>1. \A q \in wire : q.call \in Calls
    BY DEF IInv, TypeOK, Requests
  <2> QED
    BY <2>1 DEF IInv, TypeOK, Inv, Unsent, ClaimedIsApproved, OnlyApprovedSent
<1> QED
  BY Invariance, <1>1, PTL

LEMMA StepFinal ==
  IInv /\ [Next]_vars =>
    \A c \in Calls : status[c] \in Outcomes \union {"rejected"} => status'[c] = status[c]
<1> SUFFICES ASSUME IInv, [Next]_vars, NEW k \in Calls, status[k] \in Outcomes \union {"rejected"}
             PROVE status'[k] = status[k]
  OBVIOUS
<1> USE DEF IInv, TypeOK, Outcomes, rowVars, configVars, sessionVars, wireVars, handlerVars, faultVars
<1>1. ASSUME NEW c \in Calls, Propose(c) PROVE status'[k] = status[k]
  BY <1>1 DEF Propose
<1>2. ASSUME NEW c \in Calls, Reject(c) PROVE status'[k] = status[k]
  BY <1>2 DEF Reject, Transition
<1>3. ASSUME NEW h \in Handlers, NEW c \in Calls, Confirm(h, c) PROVE status'[k] = status[k]
  BY <1>3 DEF Confirm, Transition, Begin
<1>4. ASSUME NEW h \in Handlers, NEW c \in Calls, Resend(h, c) PROVE status'[k] = status[k]
  BY <1>4 DEF Resend, Begin
<1>5. ASSUME NEW h \in Handlers, Claim(h) PROVE status'[k] = status[k]
  BY <1>5 DEF Claim, Claimable, Goto, Record
<1>6. ASSUME NEW h \in Handlers, ClaimRefused(h) PROVE status'[k] = status[k]
  BY <1>6 DEF ClaimRefused, Claimable, Leave
<1>7. ASSUME NEW h \in Handlers, Ensure(h) PROVE status'[k] = status[k]
  BY <1>7 DEF Ensure, EnsureSession, Record
<1>8. ASSUME NEW h \in Handlers, EnsureFails(h) PROVE status'[k] = status[k]
  BY <1>8 DEF EnsureFails, Record
<1>9. ASSUME NEW h \in Handlers, Send(h) PROVE status'[k] = status[k]
  BY <1>9 DEF Send
<1>10. ASSUME NEW h \in Handlers, SendFails(h) PROVE status'[k] = status[k]
  BY <1>10 DEF SendFails, Record
<1>11. ASSUME NEW h \in Handlers, Receive(h) PROVE status'[k] = status[k]
  BY <1>11 DEF Receive, Record
<1>12. ASSUME NEW h \in Handlers, ReceiveFails(h) PROVE status'[k] = status[k]
  BY <1>12 DEF ReceiveFails, Record
<1>13. ASSUME NEW h \in Handlers, Timeout(h) PROVE status'[k] = status[k]
  BY <1>13 DEF Timeout, Record
<1>14. ASSUME NEW h \in Handlers, Finish(h) PROVE status'[k] = status[k]
  BY <1>14 DEF Finish, Leave
<1>15. ASSUME NEW h \in Handlers, ClaimThenFails(h) \/ FinishFails(h) \/ Drop(h) PROVE status'[k] = status[k]
  BY <1>15 DEF ClaimThenFails, FinishFails, Drop, Claimable, Leave
<1>16. ASSUME NEW q \in wire, Serve(q) PROVE status'[k] = status[k]
  BY <1>16 DEF Serve
<1>17. ASSUME TurnOn \/ TurnOff \/ ToggleTool \/ Stop \/ Start \/ Remove \/ DeleteRows PROVE status'[k] = status[k]
  BY <1>17 DEF TurnOn, TurnOff, ToggleTool, Stop, Start, Remove, DeleteRows, EnsureSession
<1>18. ASSUME Restart PROVE status'[k] = status[k]
  BY <1>18 DEF Restart
<1>19. ASSUME UNCHANGED vars PROVE status'[k] = status[k]
  BY <1>19 DEF vars
<1> QED
  BY <1>1, <1>2, <1>3, <1>4, <1>5, <1>6, <1>7, <1>8, <1>9, <1>10, <1>11, <1>12, <1>13, <1>14, <1>15, <1>16, <1>17, <1>18, <1>19 DEF Next, Handle

\* How a call ended, and that it was declined, stays on record as it is (transition, finish).
THEOREM OutcomesStay == Spec => OutcomeIsFinal
<1>1. IInv /\ [Next]_vars => [\A c \in Calls : status[c] \in Outcomes \union {"rejected"} =>
                                                status'[c] = status[c]]_vars
  BY StepFinal
<1> QED
  BY Invariance, <1>1, PTL DEF Spec, OutcomeIsFinal

\* Only a fault that takes a call out of its handler's hands leaves it claimed and unfinished: a
\* dropped handler, a restart, or a statement of its claim or its end that fails. Nothing else on the
\* way does, whatever the server, its session and its configuration do.
THEOREM ToolCallsStrandedNeedsFault == Spec => []StrandedNeedsFault
<1>1. Init => Held
  BY DEF Init, Held
<1>2. IInv /\ Held => StrandedNeedsFault
  <2> SUFFICES ASSUME IInv, Held, NEW c \in Stranded, c \notin broken PROVE FALSE
    BY DEF StrandedNeedsFault
  <2>1. c \in Calls /\ Holder(c)
    BY DEF Stranded, Held
  <2> QED
    BY <2>1, ActiveIsUnderWay DEF IInv, Stranded, Holder
<1> QED
  BY Invariance, StepHeld, <1>1, <1>2, PTL DEF Spec
-----------------------------------------------------------------------------
(* The promise of module Approval. *)

\* Steps that leave the rows and the answers alone are invisible.
LEMMA Invisible ==
  UNCHANGED <<status, done>> => UNCHANGED <<status, Effects>>
  BY DEF Effects

LEMMA Untaken ==
  ASSUME TypeOK, Wired, SentOnce, NEW q \in wire, q \notin done
  PROVE  /\ Effects[q.call] = 0
         /\ Cardinality({p \in done \union {q} : p.call = q.call}) = 1
<1>1. {p \in done : p.call = q.call} = {} /\ {p \in done \union {q} : p.call = q.call} = {q}
  BY DEF TypeOK, SentOnce
<1>2. Cardinality({}) = 0 /\ Cardinality({q}) = 1
  BY FS_EmptySet, FS_Singleton
<1>3. q.call \in Calls
  BY DEF TypeOK, Requests
<1> QED
  BY <1>1, <1>2, <1>3 DEF Effects

LEMMA Taken ==
  ASSUME TypeOK, SentOnce, NEW c \in Calls, NEW q \in done, q.call = c
  PROVE  Effects[c] = 1
<1>1. {p \in done : p.call = c} = {q}
  BY DEF TypeOK, SentOnce
<1> QED
  BY <1>1, FS_Singleton DEF Effects

LEMMA StepPromise == IInv /\ [Next]_vars => [Promise!ANext]_(Promise!aVars)
<1> SUFFICES ASSUME IInv, [Next]_vars PROVE Promise!ANext \/ UNCHANGED <<status, Effects>>
  BY DEF Promise!aVars
<1> USE DEF rowVars, configVars, sessionVars, wireVars, handlerVars, faultVars
<1>1. ASSUME NEW c \in Calls, Propose(c) PROVE Promise!ANext \/ UNCHANGED <<status, Effects>>
  BY <1>1 DEF Propose, Promise!ANext, Promise!Move, Effects
<1>2. ASSUME NEW c \in Calls, Reject(c) PROVE Promise!ANext \/ UNCHANGED <<status, Effects>>
  BY <1>2 DEF Reject, Transition, Promise!ANext, Promise!Move, Effects
<1>3. ASSUME NEW h \in Handlers, NEW c \in Calls, Confirm(h, c) PROVE Promise!ANext \/ UNCHANGED <<status, Effects>>
  BY <1>3 DEF Confirm, Transition, Promise!ANext, Promise!Move, Effects
<1>4. ASSUME NEW h \in Handlers, NEW c \in Calls, Resend(h, c) PROVE Promise!ANext \/ UNCHANGED <<status, Effects>>
  BY <1>4, Invisible DEF Resend, Begin
<1>5. ASSUME NEW h \in Handlers, Claim(h) PROVE Promise!ANext \/ UNCHANGED <<status, Effects>>
  BY <1>5, Invisible DEF Claim, Claimable, Goto, Record
<1>6. ASSUME NEW h \in Handlers, ClaimRefused(h) PROVE Promise!ANext \/ UNCHANGED <<status, Effects>>
  BY <1>6, Invisible DEF ClaimRefused, Claimable, Leave
<1>7. ASSUME NEW h \in Handlers, Ensure(h) PROVE Promise!ANext \/ UNCHANGED <<status, Effects>>
  BY <1>7, Invisible DEF Ensure, EnsureSession, Record
<1>8. ASSUME NEW h \in Handlers, EnsureFails(h) PROVE Promise!ANext \/ UNCHANGED <<status, Effects>>
  BY <1>8, Invisible DEF EnsureFails, Record
<1>9. ASSUME NEW h \in Handlers, Send(h) PROVE Promise!ANext \/ UNCHANGED <<status, Effects>>
  BY <1>9, Invisible DEF Send
<1>10. ASSUME NEW h \in Handlers, SendFails(h) PROVE Promise!ANext \/ UNCHANGED <<status, Effects>>
  BY <1>10, Invisible DEF SendFails, Record
<1>11. ASSUME NEW h \in Handlers, Receive(h) PROVE Promise!ANext \/ UNCHANGED <<status, Effects>>
  BY <1>11, Invisible DEF Receive, Record
<1>12. ASSUME NEW h \in Handlers, ReceiveFails(h) PROVE Promise!ANext \/ UNCHANGED <<status, Effects>>
  BY <1>12, Invisible DEF ReceiveFails, Record
<1>13. ASSUME NEW h \in Handlers, Timeout(h) PROVE Promise!ANext \/ UNCHANGED <<status, Effects>>
  BY <1>13, Invisible DEF Timeout, Record
<1>14. ASSUME NEW h \in Handlers, Finish(h) PROVE Promise!ANext \/ UNCHANGED <<status, Effects>>
  <2>1. CASE UNCHANGED status
    BY <1>14, <2>1, Invisible DEF Finish
  <2>2. CASE status' # status
    <3>1. /\ status[call[h]] = "confirmed" /\ status' = [status EXCEPT ![call[h]] = outcome[h]]
          /\ pc[h] = "recording" /\ UNCHANGED Effects
      BY <1>14, <2>2 DEF Finish, Effects
    <3>2. call[h] \in Calls /\ outcome[h] \in Outcomes
      BY DEF IInv, TypeOK
    <3>3. outcome[h] = "succeeded" => Effects[call[h]] = 1
      BY <3>1, <3>2, Taken DEF IInv, Inv, Answers
    <3>4. Promise!Settle(call[h], outcome[h])
      BY <3>1, <3>3 DEF Promise!Settle, Promise!Move
    <3> QED
      BY <3>2, <3>4 DEF Promise!ANext, Promise!Outcomes, Outcomes
  <2> QED
    BY <2>1, <2>2
<1>15. ASSUME NEW h \in Handlers, ClaimThenFails(h) \/ FinishFails(h) \/ Drop(h) PROVE Promise!ANext \/ UNCHANGED <<status, Effects>>
  BY <1>15, Invisible DEF ClaimThenFails, FinishFails, Drop, Claimable, Leave
<1>16. ASSUME NEW q \in wire, Serve(q) PROVE Promise!ANext \/ UNCHANGED <<status, Effects>>
  <2>1. CASE UNCHANGED done
    BY <1>16, <2>1, Invisible DEF Serve
  <2>2. CASE done' = done \union {q}
    <3>1. q \notin done /\ UNCHANGED status /\ q.call \in Calls
      BY <1>16 DEF Serve, IInv, TypeOK, Requests
    <3>2. Effects[q.call] = 0 /\ Cardinality({p \in done' : p.call = q.call}) = 1
      BY <2>2, <3>1, Untaken DEF IInv, Inv
    <3>3. \A c \in Calls : c # q.call => {p \in done' : p.call = c} = {p \in done : p.call = c}
      BY <2>2
    <3>4. Effects' = [Effects EXCEPT ![q.call] = 1]
      BY <3>2, <3>3 DEF Effects
    <3>5. status[q.call] \in {"confirmed"} \union Outcomes
      BY <3>1 DEF IInv, TypeOK, Inv, Unsent, ClaimedIsApproved
    <3>6. Promise!TakeEffect(q.call)
      BY <3>1, <3>2, <3>4, <3>5 DEF Promise!TakeEffect, Promise!Approved, Promise!Outcomes, Outcomes
    <3> QED
      BY <3>1, <3>6 DEF Promise!ANext
  <2> QED
    BY <1>16, <2>1, <2>2 DEF Serve
<1>17. ASSUME TurnOn \/ TurnOff \/ ToggleTool \/ Stop \/ Start \/ Remove \/ DeleteRows PROVE Promise!ANext \/ UNCHANGED <<status, Effects>>
  BY <1>17, Invisible DEF TurnOn, TurnOff, ToggleTool, Stop, Start, Remove, DeleteRows
<1>18. ASSUME Restart PROVE Promise!ANext \/ UNCHANGED <<status, Effects>>
  BY <1>18, Invisible DEF Restart
<1>19. ASSUME UNCHANGED vars PROVE Promise!ANext \/ UNCHANGED <<status, Effects>>
  BY <1>19, Invisible DEF vars
<1> QED
  BY <1>1, <1>2, <1>3, <1>4, <1>5, <1>6, <1>7, <1>8, <1>9, <1>10, <1>11, <1>12, <1>13, <1>14, <1>15, <1>16, <1>17, <1>18, <1>19 DEF Next, Handle

\* The claim, the guarded transitions and the matched replies implement what a person is promised.
THEOREM ToolCallsImplementApproval == Spec => ImplementsApproval
<1>1. Init => Promise!AInit
  <2>1. Cardinality({}) = 0
    BY FS_EmptySet
  <2> QED
    BY <2>1 DEF Init, Promise!AInit, Effects
<1>2. IInv /\ [Next]_vars => [Promise!ANext]_(Promise!aVars)
  BY StepPromise
<1> QED
  BY Invariance, <1>1, <1>2, PTL DEF Spec, ImplementsApproval, Promise!Spec
=============================================================================
