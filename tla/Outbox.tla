------------------------------- MODULE Outbox -------------------------------
(***************************************************************************)
(* The outbound delivery queue and the dispatchers that drain it.          *)
(*                                                                         *)
(* A row of connector_outbox is named by its idempotency key.  The sink is *)
(* a mail-draft connector: a push without an existing reference creates a  *)
(* new draft, a push with one hands the existing draft back.  For these    *)
(* sinks the key is made from the draft's own id, so a row and the node it *)
(* delivers are the same thing and one set, Keys, stands for both.         *)
(*                                                                         *)
(* Several dispatchers drain one table: the background pass and every      *)
(* request that enqueues and drains.  Each has its own connection, so only *)
(* a single SQL statement is atomic, and each statement or remote call is  *)
(* an action here.                                                         *)
(*                                                                         *)
(* Timestamps are only ever compared with the present, so next_attempt_at  *)
(* and leased_until are kept as the time left until they pass: 0 means     *)
(* due, and for the lease expired or NULL, which claim_ready treats alike. *)
(***************************************************************************)
EXTENDS Integers, FiniteSets

CONSTANTS
  Keys,           \* idempotency keys: one per node to deliver
  Dispatchers,    \* concurrent drains of the one table
  MaxAttempts,    \* RetryPolicy.max_attempts
  BatchSize,      \* RetryPolicy.batch_size
  BaseDelay,      \* RetryPolicy.base_delay, in ticks
  MaxDelay,       \* RetryPolicy.max_delay, in ticks
  Lease,          \* RetryPolicy.lease, in ticks
  MaxRetryAfter,  \* longest retry_after a rate limit may ask for
  MaxFaults,      \* bound: crashes, aborted drains, lost replies, failed statements
  LeaseCovers     \* TRUE when a drain always ends before its lease does

ASSUME OutboxAssumption ==
  /\ IsFiniteSet(Keys) /\ Keys # {}
  /\ Dispatchers # {}
  /\ MaxAttempts \in Nat \ {0}
  /\ BatchSize \in Nat \ {0}
  /\ BaseDelay \in Nat /\ MaxDelay \in Nat
  /\ Lease \in Nat \ {0}
  /\ MaxRetryAfter \in Nat
  /\ MaxFaults \in Nat
  /\ LeaseCovers \in BOOLEAN

\* The backoff product is a duration chrono can hold, never a negative one.
ASSUME BackoffAssumption == \A n \in 0..MaxAttempts : BaseDelay * 2^n \in Nat

VARIABLES
  status,    \* connector_outbox.status, "absent" before the row is inserted
  attempts,  \* connector_outbox.attempts
  nextIn,    \* time left until next_attempt_at
  leaseIn,   \* time left until leased_until; 0 when NULL or past
  items,     \* external_items recorded for the key's draft, by draft number
  edges,     \* synced_to edges from the node, by draft number
  drafts,    \* how many drafts the mailbox holds for the key
  pc,        \* where each drain is
  batch,     \* claimed rows a drain has not finished, the current one included
  seen,      \* the attempts each drain read when it claimed the row
  cur,       \* the row being delivered
  known,     \* the existing reference handed to the sink; 0 for none
  ref,       \* the reference the sink answered with; 0 for none
  err,       \* the failure being recorded
  faults     \* faults so far

rowVars   == <<status, attempts, nextIn, leaseIn>>
graphVars == <<items, edges>>
drainVars == <<pc, batch, seen, cur, known, ref, err>>
vars == <<rowVars, graphVars, drafts, drainVars, faults>>

Statuses == {"absent", "pending", "in_flight", "complete", "failed"}
Settled  == {"complete", "failed"}
Phases   == {"idle", "next", "pushing", "pushed", "linking", "completing", "failing"}
Errors   == {"none", "transient", "rate_limited", "permanent"}

TypeOK ==
  /\ status \in [Keys -> Statuses]
  /\ attempts \in [Keys -> Nat]
  /\ nextIn \in [Keys -> Nat]
  /\ leaseIn \in [Keys -> Nat]
  /\ items \in [Keys -> SUBSET Nat]
  /\ edges \in [Keys -> SUBSET Nat]
  /\ drafts \in [Keys -> Nat]
  /\ pc \in [Dispatchers -> Phases]
  /\ batch \in [Dispatchers -> SUBSET Keys]
  /\ seen \in [Dispatchers -> [Keys -> Nat]]
  /\ cur \in [Dispatchers -> Keys]
  /\ known \in [Dispatchers -> Nat]
  /\ ref \in [Dispatchers -> Nat]
  /\ err \in [Dispatchers -> Errors]
  /\ faults \in Nat

Init ==
  /\ status = [k \in Keys |-> "absent"]
  /\ attempts = [k \in Keys |-> 0]
  /\ nextIn = [k \in Keys |-> 0]
  /\ leaseIn = [k \in Keys |-> 0]
  /\ items = [k \in Keys |-> {}]
  /\ edges = [k \in Keys |-> {}]
  /\ drafts = [k \in Keys |-> 0]
  /\ pc = [d \in Dispatchers |-> "idle"]
  /\ batch = [d \in Dispatchers |-> {}]
  /\ seen = [d \in Dispatchers |-> [k \in Keys |-> 0]]
  /\ cur = [d \in Dispatchers |-> CHOOSE k \in Keys : TRUE]
  /\ known = [d \in Dispatchers |-> 0]
  /\ ref = [d \in Dispatchers |-> 0]
  /\ err = [d \in Dispatchers |-> "none"]
  /\ faults = 0
-----------------------------------------------------------------------------
(* The queue. *)

\* enqueue: inserts, or returns the row that already has this key and changes nothing.
Enqueue(k) ==
  /\ status[k] = "absent"
  /\ status' = [status EXCEPT ![k] = "pending"]
  /\ UNCHANGED <<attempts, nextIn, leaseIn, graphVars, drafts, drainVars, faults>>

\* Two ways to get the subquery's condition wrong: no lease, no reclaiming.
ReadyWithoutLease(k) == status[k] \in {"pending", "in_flight"} /\ nextIn[k] = 0
ReadyPendingOnly(k)  == status[k] = "pending" /\ nextIn[k] = 0 /\ leaseIn[k] = 0

\* The rows the claim's subquery selects from.
Ready(k) ==
  /\ status[k] \in {"pending", "in_flight"}
  /\ nextIn[k] = 0
  /\ leaseIn[k] = 0

\* claim_ready: one UPDATE ... RETURNING. Rows past due are no longer told apart by how long
\* ago they fell due, so any full batch of them may be the oldest.
Claims == LET ready == {k \in Keys : Ready(k)} IN
  {S \in SUBSET ready : \/ Cardinality(S) = BatchSize
                        \/ S = ready /\ Cardinality(S) < BatchSize}

Claim(d) ==
  /\ pc[d] = "idle"
  /\ \E S \in Claims :
       /\ S # {}
       /\ status' = [k \in Keys |-> IF k \in S THEN "in_flight" ELSE status[k]]
       /\ leaseIn' = [k \in Keys |-> IF k \in S THEN Lease ELSE leaseIn[k]]
       /\ batch' = [batch EXCEPT ![d] = S]
       /\ seen' = [seen EXCEPT ![d] = [k \in Keys |-> IF k \in S THEN attempts[k] ELSE 0]]
  /\ pc' = [pc EXCEPT ![d] = "next"]
  /\ UNCHANGED <<attempts, nextIn, graphVars, drafts, cur, known, ref, err, faults>>
-----------------------------------------------------------------------------
(* Delivering one row. *)

\* A row is done with: the drain takes the next, or ends.
Advance(d) ==
  /\ batch' = [batch EXCEPT ![d] = @ \ {cur[d]}]
  /\ pc' = [pc EXCEPT ![d] = IF batch[d] = {cur[d]} THEN "idle" ELSE "next"]
  /\ known' = [known EXCEPT ![d] = 0]
  /\ ref' = [ref EXCEPT ![d] = 0]
  /\ err' = [err EXCEPT ![d] = "none"]
  /\ seen' = [seen EXCEPT ![d][cur[d]] = 0]
  /\ UNCHANGED cur

FailWith(d, e) ==
  /\ pc' = [pc EXCEPT ![d] = "failing"]
  /\ err' = [err EXCEPT ![d] = e]

\* existing_item: the first synced_to edge found whose external item can be read back.
Existing(k) == edges[k] \cap items[k]

\* A drain that never looks for an existing reference.
BeginBlind(d) ==
  /\ pc[d] = "next"
  /\ \E k \in batch[d] : cur' = [cur EXCEPT ![d] = k]
  /\ pc' = [pc EXCEPT ![d] = "pushing"]
  /\ UNCHANGED <<rowVars, graphVars, drafts, batch, seen, known, ref, err, faults>>

\* deliver, up to the call of the sink: the registry lookup, the parses and the graph walk.
Begin(d) ==
  /\ pc[d] = "next"
  /\ \E k \in batch[d] :
       /\ cur' = [cur EXCEPT ![d] = k]
       /\ known' = [known EXCEPT ![d] = IF Existing(k) = {} THEN 0
                                        ELSE CHOOSE r \in Existing(k) : TRUE]
  /\ \/ pc' = [pc EXCEPT ![d] = "pushing"] /\ UNCHANGED err
     \/ FailWith(d, "permanent")
  /\ UNCHANGED <<rowVars, graphVars, drafts, batch, seen, ref, faults>>

\* The sink hands back the draft it was told of, or creates one and names it.
Push(d) ==
  /\ pc[d] = "pushing"
  /\ LET k == cur[d] IN
       /\ drafts' = IF known[d] = 0 THEN [drafts EXCEPT ![k] = @ + 1] ELSE drafts
       /\ ref' = [ref EXCEPT ![d] = IF known[d] = 0 THEN drafts[k] + 1 ELSE known[d]]
  /\ pc' = [pc EXCEPT ![d] = "pushed"]
  /\ UNCHANGED <<rowVars, graphVars, batch, seen, cur, known, err, faults>>

\* Refused or unreachable: nothing was created.
PushRefused(d) ==
  /\ pc[d] = "pushing" /\ known[d] = 0
  /\ \E e \in Errors \ {"none"} : FailWith(d, e)
  /\ UNCHANGED <<rowVars, graphVars, drafts, batch, seen, cur, known, ref, faults>>

\* The draft was created and the reply was not read: a broken body is transient, an
\* unparseable one permanent.
PushReplyLost(d) ==
  /\ pc[d] = "pushing" /\ known[d] = 0 /\ faults < MaxFaults
  /\ drafts' = [drafts EXCEPT ![cur[d]] = @ + 1]
  /\ \E e \in {"transient", "permanent"} : FailWith(d, e)
  /\ faults' = faults + 1
  /\ UNCHANGED <<rowVars, graphVars, batch, seen, cur, known, ref>>

\* record_success, first statement: upsert the external item.
RecordItem(d) ==
  /\ pc[d] = "pushed"
  /\ items' = [items EXCEPT ![cur[d]] = @ \union {ref[d]}]
  /\ pc' = [pc EXCEPT ![d] = "linking"]
  /\ UNCHANGED <<rowVars, edges, drafts, batch, seen, cur, known, ref, err, faults>>

\* An edge nobody writes.
LinkForgotten(d) ==
  /\ pc[d] = "linking"
  /\ pc' = [pc EXCEPT ![d] = "completing"]
  /\ UNCHANGED <<rowVars, graphVars, drafts, batch, seen, cur, known, ref, err, faults>>

\* record_success, second statement: the synced_to edge, found or inserted.
Link(d) ==
  /\ pc[d] = "linking"
  /\ edges' = [edges EXCEPT ![cur[d]] = @ \union {ref[d]}]
  /\ pc' = [pc EXCEPT ![d] = "completing"]
  /\ UNCHANGED <<rowVars, items, drafts, batch, seen, cur, known, ref, err, faults>>

\* complete: by row id alone, whoever holds the lease now.
Complete(d) ==
  /\ pc[d] = "completing"
  /\ status' = [status EXCEPT ![cur[d]] = "complete"]
  /\ leaseIn' = [leaseIn EXCEPT ![cur[d]] = 0]
  /\ Advance(d)
  /\ UNCHANGED <<attempts, nextIn, graphVars, drafts, faults>>

\* A statement after the push fails: a storage or graph error, which is not retryable.
StatementFails(d) ==
  /\ pc[d] \in {"pushed", "linking", "completing"} /\ faults < MaxFaults
  /\ FailWith(d, "permanent")
  /\ faults' = faults + 1
  /\ UNCHANGED <<rowVars, graphVars, drafts, batch, seen, cur, known, ref>>
-----------------------------------------------------------------------------
(* Recording a failure. *)

\* RetryPolicy::delay_for
DelayFor(n) == IF BaseDelay * 2^n > MaxDelay THEN MaxDelay ELSE BaseDelay * 2^n

\* The decision is made on the attempts the claim returned, not on the row as it is now.
GivesUp(d) == err[d] = "permanent" \/ seen[d][cur[d]] + 1 >= MaxAttempts

\* dead_letter
DeadLetter(d) ==
  /\ pc[d] = "failing" /\ GivesUp(d)
  /\ status' = [status EXCEPT ![cur[d]] = "failed"]
  /\ attempts' = [attempts EXCEPT ![cur[d]] = @ + 1]
  /\ leaseIn' = [leaseIn EXCEPT ![cur[d]] = 0]
  /\ Advance(d)
  /\ UNCHANGED <<nextIn, graphVars, drafts, faults>>

\* retry_later: the delay the remote asked for when it named one, else the backoff.
RetryLater(d) ==
  /\ pc[d] = "failing" /\ ~GivesUp(d)
  /\ \E delay \in IF err[d] = "rate_limited" THEN 0..MaxRetryAfter
                  ELSE {DelayFor(seen[d][cur[d]])} :
       nextIn' = [nextIn EXCEPT ![cur[d]] = delay]
  /\ status' = [status EXCEPT ![cur[d]] = "pending"]
  /\ attempts' = [attempts EXCEPT ![cur[d]] = @ + 1]
  /\ leaseIn' = [leaseIn EXCEPT ![cur[d]] = 0]
  /\ Advance(d)
  /\ UNCHANGED <<graphVars, drafts, faults>>

\* The worker's thread or the process dies, or record_failure's own statement fails and drain
\* returns early: every row of the batch stays in flight until its lease passes.
Abandon(d) ==
  /\ pc[d] # "idle" /\ faults < MaxFaults
  /\ pc' = [pc EXCEPT ![d] = "idle"]
  /\ batch' = [batch EXCEPT ![d] = {}]
  /\ known' = [known EXCEPT ![d] = 0]
  /\ ref' = [ref EXCEPT ![d] = 0]
  /\ err' = [err EXCEPT ![d] = "none"]
  /\ seen' = [seen EXCEPT ![d] = [k \in Keys |-> 0]]
  /\ faults' = faults + 1
  /\ UNCHANGED <<rowVars, graphVars, drafts, cur>>
-----------------------------------------------------------------------------
\* Time passes. With LeaseCovers no lease runs out on a row a live drain still has.
Tick ==
  /\ \E k \in Keys : nextIn[k] > 0 \/ leaseIn[k] > 0
  /\ LeaseCovers => \A d \in Dispatchers : \A k \in batch[d] : leaseIn[k] > 1
  /\ nextIn' = [k \in Keys |-> IF nextIn[k] > 0 THEN nextIn[k] - 1 ELSE 0]
  /\ leaseIn' = [k \in Keys |-> IF leaseIn[k] > 0 THEN leaseIn[k] - 1 ELSE 0]
  /\ UNCHANGED <<status, attempts, graphVars, drafts, drainVars, faults>>

Deliver(d) ==
  \/ Begin(d)
  \/ Push(d) \/ PushRefused(d) \/ PushReplyLost(d)
  \/ RecordItem(d) \/ Link(d) \/ Complete(d) \/ StatementFails(d)
  \/ DeadLetter(d) \/ RetryLater(d)

Next ==
  \/ \E k \in Keys : Enqueue(k)
  \/ \E d \in Dispatchers : Claim(d) \/ Deliver(d) \/ Abandon(d)
  \/ Tick

\* The background pass claims again and again, a drain that began is polled to its end, and the
\* clock runs. After a restart there is such a pass once an account is connected anew (Accounts).
Fairness ==
  /\ \A d \in Dispatchers : WF_vars(Claim(d)) /\ WF_vars(Deliver(d))
  /\ WF_vars(Tick)

Spec == Init /\ [][Next]_vars
FairSpec == Spec /\ Fairness
-----------------------------------------------------------------------------
(* Properties. *)

\* No row is in the hands of two drains: the lease guards against a second claim for as long as
\* drains end before their leases (claim_ready, leased_until).
LeaseExclusive ==
  \A d1, d2 \in Dispatchers : d1 # d2 => batch[d1] \cap batch[d2] = {}

\* A delivered row is not delivered again and a dead letter is not revived, though complete,
\* retry_later and dead_letter address the row by id alone.
SettledIsFinal ==
  [][\A k \in Keys : status[k] \in Settled => status'[k] = status[k]]_vars

\* The stored count and the count the retry decision was made on stay in step: no row is tried
\* more than max_attempts times, and one that was is a dead letter.
AttemptsBounded ==
  \A k \in Keys : /\ attempts[k] <= MaxAttempts
                   /\ attempts[k] = MaxAttempts => status[k] = "failed"

\* Once a node is joined to its draft, no later push of any drain makes a second one, whatever
\* crashed or failed between recording the draft and completing the row (existing_item).
SyncedNeverRecreated ==
  [][\A k \in Keys : Existing(k) # {} => drafts'[k] = drafts[k]]_vars

\* A complete row's draft can be found from its node: the artifact is reachable by a graph walk.
CompleteIsLinked ==
  \A k \in Keys : status[k] = "complete" => Existing(k) # {}

\* Every draft beyond the first cost a crash, a lost reply or a failed statement.
ExtraDraftsCostFaults ==
  \A k \in Keys : drafts[k] <= 1 + faults

\* What the contract sees of a row: in flight and waiting to be retried are both queued.
Outcome == [k \in Keys |-> CASE status[k] = "absent"   -> "absent"
                             [] status[k] = "complete" -> "delivered"
                             [] status[k] = "failed"   -> "abandoned"
                             [] OTHER                  -> "queued"]
Synced == {k \in Keys : Existing(k) # {}}

Contract == INSTANCE Delivery WITH outcome <- Outcome, synced <- Synced

\* The queue keeps the promise of module Delivery: settled once, delivered only when joined.
ImplementsDelivery == Contract!Spec

\* Every queued row is delivered or dead-lettered in the end: a crashed drain's lease lapses, and
\* retries are bounded.
EveryRowSettles ==
  \A k \in Keys : status[k] # "absent" ~> status[k] \in Settled
=============================================================================
