-------------------------------- MODULE Transfers ------------------------------
(***************************************************************************)
(* Three parts that carry something over a network, and share no state in  *)
(* the models: the outbound queue, the download of an artifact, and the    *)
(* accounts that mail is delivered with. They are put beside each other in *)
(* one specification: a behaviour is one of one part, chosen at the start, *)
(* and the others stay as they began. Of accounts it is one within bounds  *)
(* that its part names, sign-ins, keys or mail.                            *)
(***************************************************************************)
EXTENDS Outbox, Sequences

CONSTANTS
  Tasks, Strangers, Inodes, NoFile, Size, MaxBreaks,  \* downloads
  Connectors, Targets, Mailing, SignIns, Drafts, Workers, None, MaxKeys, MaxFailures,  \* accounts
  Scopes  \* bound: of what a part of accounts makes use

VARIABLES
  part,
  entry, state, final, partial, bytes, used, fetch, clashed, broken,
  account, key, registry, shown, made, signin, draft, row, mailbox, worker, torn, behind, failed

outbox    == <<rowVars, graphVars, drafts, drainVars, faults>>
downloads == <<entry, state, final, partial, bytes, used, fetch, clashed, broken>>
accounts  == <<account, key, registry, shown, made, signin, draft, row, mailbox, worker, torn, behind,
               failed>>
allVars   == <<part, outbox, downloads, accounts>>

D == INSTANCE Downloads WITH None <- NoFile, MaxFaults <- MaxBreaks, faults <- broken
C == INSTANCE Accounts WITH MaxFaults <- MaxFailures, faults <- failed

ASSUME Assumptions == D!DownloadsAssumption /\ C!AccountsAssumption

OfAccounts == part \in DOMAIN Scopes

\* Only what the scope has is connected, signs in, is drafted and fails.
Within(scope) ==
  /\ \A c \in Connectors : account[c] # None \/ key[c] # None => c \in scope.connectors
  /\ \A c \in Connectors : account[c] # None => account[c].mail \in scope.mailing
  /\ \A s \in SignIns : signin[s].step # "away" => s \in scope.signIns /\ signin[s].mail \in scope.mailing
  /\ \A w \in Workers : worker[w].step # "away" => w \in scope.workers
  /\ \A d \in Drafts : draft[d] # "draft" => d \in scope.drafts
  /\ {key[c] : c \in Connectors} \intersect Targets \subseteq scope.targets
  /\ {account[c].target : c \in {b \in Connectors : account[b] # None}} \subseteq scope.targets
  /\ {signin[s].client : s \in {u \in SignIns : signin[u].step # "away"}} \subseteq scope.targets
  /\ failed <= scope.faults

TransfersInit ==
  /\ part \in {"outbox", "downloads"} \union DOMAIN Scopes
  /\ Init /\ D!Init /\ C!Init

OutboxStep(A)    == part = "outbox" /\ A /\ UNCHANGED <<part, downloads, accounts>>
DownloadsStep(A) == part = "downloads" /\ A /\ UNCHANGED <<part, outbox, accounts>>
AccountsStep(A)  == OfAccounts /\ A /\ UNCHANGED <<part, outbox, downloads>> /\ Within(Scopes[part])'

TransfersNext == OutboxStep(Next) \/ DownloadsStep(D!Next) \/ AccountsStep(C!Next)

\* The fairness of Outbox and of Downloads, each where its part is the one that runs.
TransfersSpec ==
  /\ TransfersInit /\ [][TransfersNext]_allVars
  /\ \A d \in Dispatchers : WF_allVars(OutboxStep(Claim(d))) /\ WF_allVars(OutboxStep(Deliver(d)))
  /\ WF_allVars(OutboxStep(Tick))
  /\ \A f \in D!Fetchers : WF_allVars(DownloadsStep(D!Step(f)))

\* What is taken for a downloaded artifact is the artifact (Downloads).
TrustedIsWhole == part = "downloads" => D!TrustedIsWhole

\* Who watches a transfer is told its end (Downloads).
WatcherIsTold == D!WatcherIsTold

\* What delivers is what is connected, with a key that fits (Accounts, with its types).
ConnectedWorks == OfAccounts => C!TypeOK /\ C!ConnectedWorks

\* A draft reaches one mailbox, once it was approved (Accounts).
OneMailbox == OfAccounts => C!OneMailbox
=============================================================================
