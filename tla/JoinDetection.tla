----------------------------- MODULE JoinDetection -----------------------------
(***************************************************************************)
(* Noticing that a meeting has started. A page of the browser extension    *)
(* tells the engine of its meeting until it is heard or gives up; a poll   *)
(* of the calendar tells of an event, which is told to the user once it    *)
(* has been seen for a while. The tracker in the engine decides, a row is  *)
(* queued for the notification, and an offer is shown until it is answered *)
(* or stale.                                                               *)
(*                                                                         *)
(* The two sources never use one key: the page's is a digest of its link,  *)
(* the calendar's the id of its event.                                     *)
(***************************************************************************)
EXTENDS Integers, Sequences, FiniteSets, Selection

CONSTANTS
  Meetings,
  Tabs,        \* pages of the extension
  Posts,       \* signals of pages on their way at a time
  Happening,   \* when each meeting's event counts as happening
  MaxAttempts, \* of a page
  Grace,       \* how long an event is seen before it is told
  Window,      \* how long a key stays told
  Ttl,         \* how long an offer is worth showing
  MaxOffers,
  None,
  MaxNow,      \* bound: the clock
  MaxFaults    \* bound: lost signals and replies, rows not queued, restarts

JoinAssumption ==
  /\ Happening \in [Meetings -> SUBSET (0..MaxNow)] /\ None \notin Meetings \union Tabs \union (0..MaxNow)
  /\ {Grace, Window, Ttl, MaxAttempts, MaxOffers} \subseteq Nat \ {0} /\ Grace < Window
  /\ MaxNow \in Nat /\ MaxFaults \in Nat

VARIABLES
  clock,
  tab,      \* the meeting each page shows, and its announcer: what it announces, how often it
            \* tried, and whether it was heard
  post,     \* how far each signal of a page is
  poll,     \* the poll of the calendar: the time it read, and what it has to tell
  pending,  \* when each event was first seen, or None
  notified, \* when each key was told, or None
  offers,   \* oldest first
  told,     \* ghost: of the process, the times of the decisions that queued a row, by key
  losses

tracker == <<pending, notified>>
vars    == <<clock, tab, post, poll, tracker, offers, told, losses>>

Page(m)  == <<"page", m>>
Event(m) == <<"event", m>>
Keys     == {Page(m) : m \in Meetings} \union {Event(m) : m \in Meetings}
Times    == 0..MaxNow

Announcer(m) == [shows |-> m, key |-> m, attempts |-> 0, heard |-> FALSE]
Nobody  == Announcer(None)
NoPost  == [step |-> "away", tab |-> None, meeting |-> None, at |-> 0]
NoPoll  == [step |-> "away", at |-> 0, todo |-> {}, telling |-> None]
Offers  == [key : Keys, at : Times, dismissed : BOOLEAN]

TypeOK ==
  /\ clock \in Times
  /\ tab \in [Tabs -> [shows : Meetings \union {None}, key : Meetings \union {None},
                       attempts : 0..MaxAttempts, heard : BOOLEAN]]
  /\ post \in [Posts -> [step : {"away", "sent", "queueing", "offering", "refused", "replying"},
                         tab : Tabs \union {None}, meeting : Meetings \union {None}, at : Times]]
  /\ poll \in [step : {"away", "observing", "queueing", "offering"}, at : Times,
               todo : SUBSET Meetings, telling : Meetings \union {None}]
  /\ pending \in [Meetings -> Times \union {None}]
  /\ notified \in [Keys -> Times \union {None}]
  /\ offers \in Seq(Offers) /\ Len(offers) <= MaxOffers
  /\ told \in [Keys -> Seq(Times)]
  /\ losses \in 0..MaxFaults

Init ==
  /\ clock = 0
  /\ tab = [t \in Tabs |-> Nobody] /\ post = [q \in Posts |-> NoPost] /\ poll = NoPoll
  /\ pending = [m \in Meetings |-> None] /\ notified = [k \in Keys |-> None]
  /\ offers = <<>> /\ told = [k \in Keys |-> <<>>] /\ losses = 0

Loss == losses < MaxFaults /\ losses' = losses + 1

Tick ==
  /\ clock < MaxNow
  /\ clock' = clock + 1
  /\ UNCHANGED <<tab, post, poll, tracker, offers, told, losses>>
-----------------------------------------------------------------------------
(* The page. *)

\* It goes to a meeting, to another, or away.
Browse(t) ==
  /\ \E m \in Meetings \union {None} :
       m # tab[t].shows /\ tab' = [tab EXCEPT ![t].shows = m]
  /\ UNCHANGED <<clock, post, poll, tracker, offers, told, losses>>

\* The announcer forgets a meeting that was left, and starts again with another.
Afresh(t) == IF tab[t].shows = None THEN Nobody
             ELSE IF tab[t].shows = tab[t].key THEN tab[t]
             ELSE Announcer(tab[t].shows)

\* tick, every half minute, whether or not the last one has been answered. Nobody may be listening.
Announce(t) ==
  LET a == Afresh(t) IN
  /\ IF a.key = None \/ a.heard \/ a.attempts >= MaxAttempts
     THEN tab' = [tab EXCEPT ![t] = a] /\ a # tab[t] /\ UNCHANGED <<post, losses>>
     ELSE /\ tab' = [tab EXCEPT ![t] = [a EXCEPT !.attempts = @ + 1]]
          /\ \/ Loss /\ UNCHANGED post
             \/ /\ UNCHANGED losses
                /\ \E q \in Posts :
                     /\ post[q].step = "away"
                     /\ post' = [post EXCEPT ![q] = [step |-> "sent", tab |-> t, meeting |-> a.key, at |-> 0]]
  /\ UNCHANGED <<clock, poll, tracker, offers, told>>

\* The answer. What it says of one meeting is taken for whatever the announcer is at by then.
Reply(q) ==
  /\ post[q].step \in {"replying", "refused"}
  /\ post' = [post EXCEPT ![q] = NoPost]
  /\ \/ /\ tab' = IF post[q].step = "replying" THEN [tab EXCEPT ![post[q].tab].heard = TRUE] ELSE tab
        /\ UNCHANGED losses
     \/ Loss /\ UNCHANGED tab
  /\ UNCHANGED <<clock, poll, tracker, offers, told>>
-----------------------------------------------------------------------------
(* The tracker. *)

Mentioned(k, t) == notified[k] # None /\ t - notified[k] < Window

\* What is stale is dropped, and nothing else.
WorthAll(list) == Chosen(list, {i \in DOMAIN list : list[i].at > clock - Ttl})

\* expire_offers: what is stale is dropped, and the oldest of too many.
Worth(list) ==
  LET fresh == Chosen(list, {i \in DOMAIN list : list[i].at > clock - Ttl})
  IN IF Len(fresh) > MaxOffers THEN SubSeq(fresh, Len(fresh) - MaxOffers + 1, Len(fresh)) ELSE fresh

Offer(k) == offers' = Worth(Append(offers, [key |-> k, at |-> clock, dismissed |-> FALSE]))

\* What is told now is not noted.
ObserveUnnoted(q) ==
  /\ post[q].step = "sent"
  /\ post' = [post EXCEPT ![q].step = IF Mentioned(Page(post[q].meeting), clock) THEN "replying" ELSE "queueing",
                          ![q].at = clock]
  /\ UNCHANGED <<clock, tab, poll, tracker, offers, told, losses>>

\* observe, of a page: a strong signal, told at once but for one told before.
Observe(q) ==
  LET k == Page(post[q].meeting) IN
  /\ post[q].step = "sent"
  /\ IF Mentioned(k, clock)
     THEN post' = [post EXCEPT ![q].step = "replying"] /\ UNCHANGED notified
     ELSE /\ notified' = [notified EXCEPT ![k] = clock]
          /\ post' = [post EXCEPT ![q] = [@ EXCEPT !.step = "queueing", !.at = clock]]
  /\ UNCHANGED <<clock, tab, poll, pending, offers, told, losses>>

\* queue_offer: the row, or an error, and what was told is not told again.
Queue(q) ==
  /\ post[q].step = "queueing"
  /\ \/ /\ post' = [post EXCEPT ![q].step = "offering"]
        /\ told' = [told EXCEPT ![Page(post[q].meeting)] = Append(@, post[q].at)]
        /\ UNCHANGED losses
     \/ Loss /\ post' = [post EXCEPT ![q].step = "refused"] /\ UNCHANGED told
  /\ UNCHANGED <<clock, tab, poll, tracker, offers>>

\* And then the offer.
MakeOffer(q) ==
  /\ post[q].step = "offering"
  /\ post' = [post EXCEPT ![q].step = "replying"]
  /\ Offer(Page(post[q].meeting))
  /\ UNCHANGED <<clock, tab, poll, tracker, told, losses>>

\* live_offers, and a person who takes one up or puts it away.
Answer ==
  /\ \E i \in DOMAIN Worth(offers) :
       offers' = [Worth(offers) EXCEPT ![i].dismissed = TRUE]
  /\ offers' # offers
  /\ UNCHANGED <<clock, tab, post, poll, tracker, told, losses>>
-----------------------------------------------------------------------------
(* The poll of the calendar. *)

\* The time is read first, and the events that are happening then; one that was declined is silent.
BeginPoll ==
  /\ poll.step = "away"
  /\ \E todo \in SUBSET {m \in Meetings : clock \in Happening[m]} :
       poll' = [step |-> "observing", at |-> clock, todo |-> todo, telling |-> None]
  /\ UNCHANGED <<clock, tab, post, tracker, offers, told, losses>>

\* observe, of an event: a weak signal, told when it was first seen a grace ago.
ObserveEvent ==
  /\ poll.step = "observing"
  /\ \E m \in poll.todo :
       LET k == Event(m)
           first == IF pending[m] = None THEN poll.at ELSE pending[m]
           rest  == [poll EXCEPT !.todo = @ \ {m}]
       IN IF Mentioned(k, poll.at)
          THEN poll' = rest /\ UNCHANGED tracker
          ELSE IF poll.at - first >= Grace
          THEN /\ notified' = [notified EXCEPT ![k] = poll.at]
               /\ pending' = [pending EXCEPT ![m] = None]
               /\ poll' = [step |-> "queueing", at |-> poll.at, todo |-> poll.todo \ {m}, telling |-> m]
          ELSE /\ pending' = [pending EXCEPT ![m] = first]
               /\ poll' = rest /\ UNCHANGED notified
  /\ UNCHANGED <<clock, tab, post, offers, told, losses>>

\* A row that cannot be queued is dropped, and the poll goes on.
QueueEvent ==
  /\ poll.step = "queueing"
  /\ \/ /\ poll' = [poll EXCEPT !.step = "offering"]
        /\ told' = [told EXCEPT ![Event(poll.telling)] = Append(@, poll.at)]
        /\ UNCHANGED losses
     \/ /\ Loss
        /\ poll' = [poll EXCEPT !.step = "observing", !.telling = None]
        /\ UNCHANGED told
  /\ UNCHANGED <<clock, tab, post, tracker, offers>>

OfferEvent ==
  /\ poll.step = "offering"
  /\ poll' = [poll EXCEPT !.step = "observing", !.telling = None]
  /\ Offer(Event(poll.telling))
  /\ UNCHANGED <<clock, tab, post, tracker, told, losses>>

EndPoll ==
  /\ poll.step = "observing" /\ poll.todo = {}
  /\ poll' = NoPoll
  /\ UNCHANGED <<clock, tab, post, tracker, offers, told, losses>>

\* The engine dies, with the tracker and what it was answering. The pages stay.
Restart ==
  /\ Loss
  /\ pending' = [m \in Meetings |-> None] /\ notified' = [k \in Keys |-> None]
  /\ offers' = <<>> /\ poll' = NoPoll /\ post' = [q \in Posts |-> NoPost]
  /\ told' = [k \in Keys |-> <<>>]
  /\ UNCHANGED <<clock, tab>>

Next ==
  \/ \E t \in Tabs : Browse(t) \/ Announce(t)
  \/ \E q \in Posts : Observe(q) \/ Queue(q) \/ MakeOffer(q) \/ Reply(q)
  \/ BeginPoll \/ ObserveEvent \/ QueueEvent \/ OfferEvent \/ EndPoll
  \/ Tick \/ Answer \/ Restart

Spec == Init /\ [][Next]_vars
-----------------------------------------------------------------------------
(* Properties. *)

\* One meeting is told once in a window by each source, through pages that try again when an answer
\* is lost, several that show it, and polls that overlap them.
ToldOnce ==
  \A k \in Keys : \A i, j \in DOMAIN told[k] :
    i < j => told[k][j] - told[k][i] >= Window \/ told[k][i] - told[k][j] >= Window
=============================================================================
