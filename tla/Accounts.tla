------------------------------ MODULE Accounts ------------------------------
(***************************************************************************)
(* Connected accounts, and the mail drafts that go through them. An        *)
(* account is a row in the database and a key in the keychain, which no    *)
(* transaction spans; the registry that delivers is built from both and    *)
(* replaced as a whole. A request changes them under the database lock, a  *)
(* sign-in at Microsoft puts its token down without it and lets go of it   *)
(* before it replaces the registry. Whoever delivers keeps the registry it *)
(* took.                                                                   *)
(*                                                                         *)
(* A key that belongs to a target is named by it. Leases, retries and the  *)
(* drafts of one mailbox are module Outbox's.                              *)
(***************************************************************************)
EXTENDS Naturals, Sequences, FiniteSets

CONSTANTS
  Connectors, \* of "google", "microsoft", "webhook", which has a generated key, and "vault", which has none
  Targets,    \* deployments, clients, addresses
  Mailing,    \* of BOOLEAN: whether the scopes that are asked for let an account write mail
  SignIns,    \* sign-ins at a time
  Drafts,
  Workers,    \* approvals and passes of the outbox at a time
  None,
  MaxKeys,    \* bound: keys that are generated
  MaxFaults   \* bound: keychains and statements that fail, workers that die, restarts

AccountsAssumption ==
  /\ Connectors \subseteq {"google", "microsoft", "webhook", "vault"}
  /\ None \notin Targets \union Nat \union Connectors
  /\ SignIns # {} => "microsoft" \in Connectors
  /\ Mailing \subseteq BOOLEAN
  /\ MaxKeys \in Nat /\ MaxFaults \in Nat

VARIABLES
  account,  \* the rows: what the connector points at, and whether it may write mail
  key,      \* the keychain
  registry, \* in force
  shown,    \* generated keys that were returned
  made,     \* how many were generated
  signin,   \* how far each sign-in is, and what it holds
  draft,    \* "draft", "approved" or "discarded"
  row,      \* the outbox rows, by connector and draft
  mailbox,  \* the drafts that are in each vendor's mailbox
  worker,   \* how far each is, and what it holds
  torn,     \* ghost: connectors whose key and row were not put down by one request alone
  behind,   \* ghost: "stale" once something kept the registry from being replaced, "restarted" since
            \* the process started, until it is replaced
  faults

stored == <<account, key, shown, made, torn>>
mail   == <<draft, row, mailbox, worker>>
vars   == <<stored, registry, behind, signin, mail, faults>>

Vendors == <<"google", "microsoft">>
Absent  == [c \in Connectors |-> None]

\* A sign-in and a worker that hold no more than this.
SignIn(step, client, mails) ==
  [step |-> step, client |-> client, mail |-> mails, held |-> Absent, crossed |-> FALSE]
Away == SignIn("away", None, FALSE)

Work(step, d, reg) == [step |-> step, draft |-> d, on |-> None, reg |-> reg, todo |-> {}]
Idle == Work("away", None, Absent)

Rows       == [target : Targets, mail : BOOLEAN]
Secrets    == Targets \union 1..MaxKeys
Registries == [Connectors -> [target : Targets, key : Secrets \union {None}] \union {None}]
Deliveries == Connectors \X Drafts

TypeOK ==
  /\ account \in [Connectors -> Rows \union {None}]
  /\ key \in [Connectors -> Secrets \union {None}]
  /\ registry \in Registries
  /\ shown \subseteq 1..made /\ made \in 0..MaxKeys
  /\ signin \in [SignIns -> [step : {"away", "waiting", "stored", "built"},
                             client : Targets \union {None}, mail : BOOLEAN,
                             held : Registries, crossed : BOOLEAN]]
  /\ draft \in [Drafts -> {"draft", "approved", "discarded"}]
  /\ row \in [Deliveries -> {"none", "pending", "in_flight", "complete", "failed"}]
  /\ mailbox \subseteq Deliveries
  /\ worker \in [Workers -> [step : {"away", "picking", "taking", "queueing", "claiming", "delivering"},
                             draft : Drafts \union {None}, on : Connectors \union {None},
                             reg : Registries, todo : SUBSET Deliveries]]
  /\ torn \subseteq Connectors /\ behind \in {"no", "stale", "restarted"}
  /\ faults \in 0..MaxFaults

Init ==
  /\ account = Absent /\ key = Absent /\ registry = Absent
  /\ shown = {} /\ made = 0
  /\ signin = [s \in SignIns |-> Away]
  /\ draft = [d \in Drafts |-> "draft"] /\ row = [x \in Deliveries |-> "none"] /\ mailbox = {}
  /\ worker = [w \in Workers |-> Idle]
  /\ torn = {} /\ behind = "no" /\ faults = 0
-----------------------------------------------------------------------------
(* The registry. *)

\* build_registry: an account whose credential is missing is skipped.
Build(accounts, keys) ==
  [c \in Connectors |->
     IF accounts[c] = None \/ (c # "vault" /\ keys[c] = None) THEN None
     ELSE [target |-> accounts[c].target, key |-> keys[c]]]

Rebuild == registry' = Build(account', key') /\ behind' = "no"
Leave   == registry' = registry /\ behind' = "stale"

\* Sign-ins that have built a registry and not put it in force hold one that this change outdates.
Outdated == [s \in SignIns |-> [signin[s] EXCEPT !.crossed = @ \/ signin[s].step = "built"]]

Faulty(how) == faults' = faults + (IF how = "done" THEN 0 ELSE 1) /\ faults' <= MaxFaults

-----------------------------------------------------------------------------
(* Requests *)

Generates(c) == c = "webhook" /\ key[c] = None
KeyFor(c, t) == IF c = "google" THEN t ELSE IF Generates(c) THEN made + 1 ELSE key[c]

\* connect_connector. The key goes to the keychain, the row to the database, and the registry is
\* rebuilt from both; where one of them fails the request returns.
Connect(c, t, mails, how) ==
  /\ c = "microsoft" => key[c] # None
  /\ mails => c \in {"google", "microsoft"}
  /\ Generates(c) => made < MaxKeys
  /\ how = "no row" => KeyFor(c, t) # key[c]
  /\ Faulty(how)
  /\ key' = [key EXCEPT ![c] = KeyFor(c, t)]
  /\ made' = IF Generates(c) THEN made + 1 ELSE made
  /\ account' = IF how = "no row" THEN account ELSE [account EXCEPT ![c] = [target |-> t, mail |-> mails]]
  /\ IF how = "done" THEN Rebuild ELSE Leave
  /\ shown' = IF how = "done" /\ Generates(c) THEN shown \union {made + 1} ELSE shown
  /\ torn' = IF c = "webhook" THEN IF Generates(c) /\ how # "done" THEN torn \union {c} ELSE torn
             ELSE IF how = "no row" \/ (c = "microsoft" /\ key[c] # t) THEN torn \union {c}
             ELSE torn \ {c}
  /\ signin' = Outdated
  /\ UNCHANGED mail

\* disconnect_connector. Of the keys only the generated one is deleted.
Disconnect(c, how) ==
  /\ Faulty(how)
  /\ account' = [account EXCEPT ![c] = None]
  /\ IF c = "webhook" /\ how # "key kept"
       THEN key' = [key EXCEPT ![c] = None] /\ torn' = torn \ {c}
       ELSE UNCHANGED <<key, torn>>
  /\ IF how = "done" THEN Rebuild ELSE Leave
  /\ signin' = Outdated
  /\ UNCHANGED <<shown, made, mail>>

-----------------------------------------------------------------------------
(* Signing in at Microsoft *)

\* start_microsoft_signin, with a client that is given or was stored.
StartSignIn(s, t, mails) ==
  /\ signin[s].step = "away"
  /\ signin' = [signin EXCEPT ![s] = SignIn("waiting", t, mails)]
  /\ UNCHANGED <<stored, registry, behind, mail, faults>>

\* Denied, of another sign-in, refused, too late, or with a keychain that refuses the token.
GiveUp(s) ==
  /\ signin[s].step = "waiting"
  /\ signin' = [signin EXCEPT ![s] = Away]
  /\ UNCHANGED <<stored, registry, behind, mail, faults>>

\* The token is in the keychain, without the lock. Another sign-in that had put its own there has it no
\* more.
StoreToken(s) ==
  /\ signin[s].step = "waiting"
  /\ key' = [key EXCEPT !["microsoft"] = signin[s].client]
  /\ signin' = [u \in SignIns |->
                  IF u = s THEN [signin[s] EXCEPT !.step = "stored", !.crossed = FALSE]
                  ELSE [signin[u] EXCEPT !.crossed = @ \/ signin[u].step = "stored"]]
  /\ UNCHANGED <<account, shown, made, torn, registry, behind, mail, faults>>

\* The client id is not stored, or the row is not written, or, after it, the registry is not built.
CannotRegister(s) ==
  /\ signin[s].step = "stored" /\ faults < MaxFaults
  /\ faults' = faults + 1
  /\ account' \in {account, [account EXCEPT !["microsoft"] =
                                 [target |-> signin[s].client, mail |-> signin[s].mail]]}
  /\ torn' = torn \union {"microsoft"}
  /\ Leave
  /\ signin' = [Outdated EXCEPT ![s] = Away]
  /\ UNCHANGED <<key, shown, made, mail>>

\* The registry is built from the accounts there were.
RegisterBuildsFirst(s) ==
  /\ signin[s].step = "stored"
  /\ account' = [account EXCEPT !["microsoft"] = [target |-> signin[s].client, mail |-> signin[s].mail]]
  /\ torn' = IF signin[s].crossed THEN torn \union {"microsoft"} ELSE torn \ {"microsoft"}
  /\ signin' = [Outdated EXCEPT ![s] = [@ EXCEPT !.step = "built", !.held = Build(account, key),
                                                 !.crossed = FALSE]]
  /\ UNCHANGED <<key, shown, made, registry, behind, mail, faults>>

\* Under the lock: the row, and the registry to come.
Register(s) ==
  /\ signin[s].step = "stored"
  /\ account' = [account EXCEPT !["microsoft"] = [target |-> signin[s].client, mail |-> signin[s].mail]]
  /\ torn' = IF signin[s].crossed THEN torn \union {"microsoft"} ELSE torn \ {"microsoft"}
  /\ signin' = [Outdated EXCEPT ![s] = [@ EXCEPT !.step = "built", !.held = Build(account', key),
                                                 !.crossed = FALSE]]
  /\ UNCHANGED <<key, shown, made, registry, behind, mail, faults>>

\* Without the lock: it is put in force.
PutInForce(s) ==
  /\ signin[s].step = "built"
  /\ registry' = signin[s].held
  /\ behind' = IF signin[s].crossed THEN "stale" ELSE "no"
  /\ signin' = [signin EXCEPT ![s] = Away]
  /\ UNCHANGED <<stored, mail, faults>>

-----------------------------------------------------------------------------
(* Mail drafts *)

SetWorker(w, state) == worker' = [worker EXCEPT ![w] = state]
accounts == <<stored, registry, behind, signin>>

\* What was approved may be approved again.
ApproveAgain(w, d) ==
  /\ worker[w].step = "away" /\ draft[d] # "discarded"
  /\ draft' = [draft EXCEPT ![d] = "approved"]
  /\ SetWorker(w, Work("picking", d, Absent))
  /\ UNCHANGED <<accounts, row, mailbox, faults>>

\* approve_email_draft, refused but for a draft.
Approve(w, d) ==
  /\ worker[w].step = "away" /\ draft[d] = "draft"
  /\ draft' = [draft EXCEPT ![d] = "approved"]
  /\ SetWorker(w, Work("picking", d, Absent))
  /\ UNCHANGED <<accounts, row, mailbox, faults>>

\* discard_email_draft, which leaves the outbox alone.
Discard(d) ==
  /\ draft[d] # "discarded"
  /\ draft' = [draft EXCEPT ![d] = "discarded"]
  /\ UNCHANGED <<accounts, row, mailbox, worker, faults>>

MayWrite(c) == c \in Connectors /\ account[c] # None /\ account[c].mail

\* enqueue_mail_draft, under the lock: the first account, by its name, that may write mail.
Pick(w) ==
  /\ worker[w].step = "picking"
  /\ IF \E i \in DOMAIN Vendors : MayWrite(Vendors[i])
       THEN \E i \in DOMAIN Vendors :
              /\ MayWrite(Vendors[i]) /\ \A j \in 1..(i - 1) : ~MayWrite(Vendors[j])
              /\ SetWorker(w, [worker[w] EXCEPT !.step = "taking", !.on = Vendors[i]])
       ELSE SetWorker(w, Idle)
  /\ UNCHANGED <<accounts, draft, row, mailbox, faults>>

TakeRegistry(w) ==
  /\ worker[w].step = "taking"
  /\ SetWorker(w, [worker[w] EXCEPT !.step = "queueing", !.reg = registry])
  /\ UNCHANGED <<accounts, draft, row, mailbox, faults>>

\* On a connection of its own. A row of that key is left as it is.
Enqueue(w) ==
  /\ worker[w].step = "queueing"
  /\ LET x == <<worker[w].on, worker[w].draft>> IN
     row' = IF row[x] = "none" THEN [row EXCEPT ![x] = "pending"] ELSE row
  /\ SetWorker(w, Work("claiming", None, worker[w].reg))
  /\ UNCHANGED <<accounts, draft, mailbox, faults>>

\* drain_once, unless nothing is registered to deliver to.
BeginPass(w) ==
  /\ worker[w].step = "away" /\ registry # Absent
  /\ SetWorker(w, Work("claiming", None, registry))
  /\ UNCHANGED <<accounts, draft, row, mailbox, faults>>

Claim(w) ==
  /\ worker[w].step = "claiming"
  /\ LET due == {x \in Deliveries : row[x] = "pending"} IN
       /\ row' = [x \in Deliveries |-> IF x \in due THEN "in_flight" ELSE row[x]]
       /\ SetWorker(w, IF due = {} THEN Idle ELSE [worker[w] EXCEPT !.step = "delivering", !.todo = due])
  /\ UNCHANGED <<accounts, draft, mailbox, faults>>

\* deliver. A connector that the registry does not know, or that refuses what it is given, ends the
\* row; one that cannot be reached returns it.
Deliver(w, x) ==
  /\ worker[w].step = "delivering" /\ x \in worker[w].todo
  /\ \E to \in {"complete", "failed", "pending"} :
       /\ worker[w].reg[x[1]] = None => to = "failed"
       /\ row' = [row EXCEPT ![x] = to]
       /\ mailbox' = IF to = "complete" THEN mailbox \union {x} ELSE mailbox
  /\ SetWorker(w, IF worker[w].todo = {x} THEN Idle ELSE [worker[w] EXCEPT !.todo = @ \ {x}])
  /\ UNCHANGED <<accounts, draft, faults>>

Returned(xs) == [x \in Deliveries |-> IF x \in xs THEN "pending" ELSE row[x]]

\* A request is dropped before it reaches a thread of its own, or a thread dies; leases lapse in time.
Abandon(w) ==
  /\ worker[w].step # "away" /\ faults < MaxFaults
  /\ faults' = faults + 1
  /\ row' = Returned(worker[w].todo)
  /\ SetWorker(w, Idle)
  /\ UNCHANGED <<accounts, draft, mailbox>>

-----------------------------------------------------------------------------
\* The process ends and starts: AppState::new begins with a registry of nothing, and only a change
\* to an account builds one.
Restart ==
  /\ faults < MaxFaults
  /\ faults' = faults + 1
  /\ registry' = Absent /\ behind' = "restarted"
  /\ torn' = IF \E s \in SignIns : signin[s].step = "stored" THEN torn \union {"microsoft"} ELSE torn
  /\ signin' = [s \in SignIns |-> Away]
  /\ row' = Returned({x \in Deliveries : row[x] = "in_flight"})
  /\ worker' = [w \in Workers |-> Idle]
  /\ UNCHANGED <<account, key, shown, made, draft, mailbox>>

Next ==
  \/ \E c \in Connectors :
       \/ \E t \in Targets, mails \in Mailing, how \in {"done", "no row", "no registry"} : Connect(c, t, mails, how)
       \/ \E how \in {"done", "key kept", "no registry"} : Disconnect(c, how)
  \/ \E s \in SignIns :
       \/ \E t \in Targets, mails \in Mailing : StartSignIn(s, t, mails)
       \/ GiveUp(s) \/ StoreToken(s) \/ CannotRegister(s) \/ Register(s) \/ PutInForce(s)
  \/ \E w \in Workers :
       \/ \E d \in Drafts : Approve(w, d)
       \/ Pick(w) \/ TakeRegistry(w) \/ Enqueue(w) \/ BeginPass(w) \/ Claim(w) \/ Abandon(w)
       \/ \E x \in worker[w].todo : Deliver(w, x)
  \/ \E d \in Drafts : Discard(d)
  \/ Restart

Spec == Init /\ [][Next]_vars
-----------------------------------------------------------------------------
(* Properties. *)

Settled == \A s \in SignIns : signin[s].step \notin {"stored", "built"}

\* A key is the one its target expects, or one that a person was given to check deliveries with.
Fits(c) == IF c = "webhook" THEN key[c] \in shown ELSE c = "vault" \/ key[c] = account[c].target

\* What delivers is what is connected, and with a key that fits: through requests that fail half way
\* and sign-ins beside them, but for the changes that are known to leave the registry, or the pair
\* of row and key, behind (config.rs: "the registry is derived state").
ConnectedWorks ==
  Settled =>
    /\ behind = "no" => registry = Build(account, key)
    /\ \A c \in Connectors \ torn : account[c] # None => Fits(c)

\* A restart puts in force what was connected (config.rs: "so a restart rebuilds exactly what was
\* configured").
RestartRebuilds == Settled /\ behind # "stale" => registry = Build(account, key)

\* A draft reaches the mailbox of one vendor, after a person approved it, however often it is
\* approved and whichever accounts come and go meanwhile (enqueue_mail_draft: "a draft in two
\* mailboxes is two drafts to remember not to send").
OneMailbox ==
  \A x, y \in mailbox : draft[x[2]] # "draft" /\ (x[2] = y[2] => x = y)
=============================================================================
