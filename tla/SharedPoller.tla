---------------------------- MODULE SharedPoller ----------------------------
(***************************************************************************)
(* SharedPoller, the one loop that fetches the daemon's overview for all   *)
(* components of the dashboard, with the hooks that subscribe to it        *)
(* (useOverview, useSparkline) and the interval kept in localStorage.      *)
(* An answer is the version of the daemon's state it was made from, the    *)
(* failure counts of the services at that version, and its reference,      *)
(* which alternates: an answer is never the same object as the last one.   *)
(***************************************************************************)
EXTENDS Integers, Sequences, FiniteSets

CONSTANTS
  Listener,  \* components that use the hook
  Unit,      \* services
  Saved,     \* intervals another tab or the user leaves in localStorage
  MaxAt,     \* bound of the versions of the daemon's state
  Missing,   \* versions whose overview lacks the value of the sparkline
  maxPoints  \* length of a sparkline

ASSUME PollerAssumption ==
  /\ Saved \subseteq Int
  /\ MaxAt \in Nat
  /\ maxPoints \in Nat \ {0}

VARIABLES
  server,     \* the daemon: version and failure counts
  request,    \* GET /api/v1/overview: none, sent, answered or failed
  answer,     \* what it was answered
  subscribers,
  cached,     \* last answer, or Null
  fetching,
  timeoutId,  \* null, armed or fired
  loose,      \* armed timers that timeoutId no longer names
  interval,   \* what localStorage holds; 0: nothing that is a number
  hidden,     \* document.hidden
  wait,       \* resolvedInterval, then the delay of the armed timer
  view,       \* the state of each component's useOverview
  points,     \* the points of each component's useSparkline
  told        \* failure count last announced for each service (history)

poller == <<request, answer, subscribers, cached, fetching, timeoutId, loose, wait>>
vars == <<server, poller, interval, hidden, view, points, told>>

Overview == [at : 0 .. MaxAt, failures : [Unit -> 0 .. MaxAt]]
Answer   == [at : 0 .. MaxAt, failures : [Unit -> 0 .. MaxAt], ref : BOOLEAN]
Null     == [at |-> -1, failures |-> [u \in Unit |-> 0], ref |-> FALSE]

Mounted == [data |-> Null, error |-> FALSE, isStale |-> TRUE]

(* What a poll interval may be, in ms.                                     *)
Shortest == 2000
Longest == 60000

ClampMs(ms) == IF ms < Shortest THEN Shortest ELSE IF ms > Longest THEN Longest ELSE ms

\* Mutant: the number found in localStorage is used as it is.
getPollIntervalRaw(s) == IF s = 0 THEN 10000 ELSE s

getPollInterval(s) == IF s = 0 THEN 10000 ELSE ClampMs(s)

(* A tab in the background slows down.                                     *)
ResolvedInterval ==
  IF hidden /\ getPollInterval(interval) < 30000
  THEN 30000 ELSE getPollInterval(interval)

TypeOK ==
  /\ server \in Overview
  /\ request \in {"none", "sent", "answered", "failed"}
  /\ answer \in Answer \cup {Null}
  /\ subscribers \subseteq Listener
  /\ cached \in Answer \cup {Null}
  /\ fetching \in BOOLEAN
  /\ timeoutId \in {"null", "armed", "fired"} /\ loose \in Nat
  /\ interval \in Int /\ hidden \in BOOLEAN /\ wait \in Int
  /\ view \in [Listener -> [data : Answer \cup {Null}, error : BOOLEAN,
                            isStale : BOOLEAN]]
  /\ points \in [Listener -> Seq([at : 0 .. MaxAt, ref : BOOLEAN])]
  /\ told \in [Unit -> 0 .. MaxAt]

Init ==
  /\ server = [at |-> 0, failures |-> [u \in Unit |-> 0]]
  /\ request = "none" /\ answer = Null
  /\ subscribers = {} /\ cached = Null /\ fetching = FALSE
  /\ timeoutId = "null" /\ loose = 0
  /\ interval \in Saved \cup {0} /\ hidden = FALSE /\ wait = 0
  /\ view = [l \in Listener |-> Mounted]
  /\ points = [l \in Listener |-> <<>>]
  /\ told = [u \in Unit |-> 0]

-----------------------------------------------------------------------------
(* Deliveries.                                                             *)

(* slice(-maxPoints) of the points with one more.                          *)
Longer(s, a) ==
  LET all == Append(s, [at |-> a.at, ref |-> a.ref])
  IN  IF Len(all) > maxPoints THEN Tail(all) ELSE all

\* Mutant: a point is appended at every delivery.
AppendPointEachTime(s, old, new) == IF new.at \in Missing THEN s ELSE Longer(s, new)

(* The effect of useSparkline runs when the reference of the data changes. *)
AppendPoint(s, old, new) ==
  IF new = old \/ new.at \in Missing THEN s ELSE Longer(s, new)

(* onData(a) for each listener of ls.                                      *)
Deliver(ls, a) ==
  /\ view' = [l \in Listener |->
               IF l \in ls THEN [data |-> a, error |-> FALSE, isStale |-> FALSE]
               ELSE view[l]]
  /\ points' = [l \in Listener |->
                 IF l \in ls THEN AppendPoint(points[l], view[l].data, a)
                 ELSE points[l]]

DeliverCached(ls) ==
  IF cached = Null THEN UNCHANGED <<view, points>> ELSE Deliver(ls, cached)

\* Mutant: an error takes the overview off the page.
DeliverErrorClears ==
  /\ view' = [l \in Listener |->
               IF l \in subscribers THEN [Mounted EXCEPT !.error = TRUE] ELSE view[l]]
  /\ UNCHANGED points

(* onError for each subscriber.                                            *)
DeliverError ==
  /\ view' = [l \in Listener |->
               IF l \notin subscribers THEN view[l]
               ELSE IF cached = Null THEN [view[l] EXCEPT !.error = TRUE]
               ELSE [data |-> cached, error |-> TRUE, isStale |-> TRUE]]
  /\ points' = [l \in Listener |->
                 IF l \in subscribers /\ cached # Null
                 THEN AppendPoint(points[l], view[l].data, cached)
                 ELSE points[l]]

-----------------------------------------------------------------------------
(* The loop.                                                               *)

(* The second half of tick: one fetch at a time.                           *)
Fetch ==
  IF fetching THEN UNCHANGED <<fetching, request, wait>>
  ELSE /\ fetching' = TRUE
       /\ request' = "sent"
       /\ wait' = ResolvedInterval

SetTimeout(delay) ==
  /\ timeoutId' = "armed"
  /\ loose' = IF timeoutId = "armed" THEN loose + 1 ELSE loose
  /\ wait' = delay

\* Mutant: only a success arms the timer again.
RescheduleNever(delay) == UNCHANGED <<timeoutId, loose, wait>>

(* The loop goes on as long as somebody listens.                           *)
Reschedule(delay) ==
  IF subscribers = {} THEN UNCHANGED <<timeoutId, loose, wait>>
  ELSE SetTimeout(delay)

(* A component that uses the hook mounts.                                  *)
Subscribe(l) ==
  /\ l \notin subscribers
  /\ subscribers' = subscribers \cup {l}
  /\ DeliverCached({l})
  /\ IF subscribers = {} THEN Fetch ELSE UNCHANGED <<fetching, request, wait>>
  /\ UNCHANGED <<server, answer, cached, timeoutId, loose, interval, hidden,
                 told>>

\* Mutant: the timer is not cleared when the last listener leaves.
StopLate == UNCHANGED timeoutId

(* clearTimeout: the timer named by timeoutId is gone.                     *)
Stop == timeoutId' = "null"

(* A component unmounts: its state is gone, the last one stops the timer.  *)
Unsubscribe(l) ==
  /\ l \in subscribers
  /\ subscribers' = subscribers \ {l}
  /\ IF subscribers = {l} THEN Stop ELSE UNCHANGED timeoutId
  /\ view' = [view EXCEPT ![l] = Mounted]
  /\ points' = [points EXCEPT ![l] = <<>>]
  /\ UNCHANGED <<server, request, answer, cached, fetching, loose, interval,
                 hidden, wait, told>>

(* A timer fires: tick.                                                    *)
TimerFires ==
  /\ \/ /\ timeoutId = "armed"
        /\ timeoutId' = "fired" /\ UNCHANGED loose
     \/ /\ loose > 0
        /\ loose' = loose - 1 /\ UNCHANGED timeoutId
  /\ IF subscribers = {} THEN UNCHANGED <<view, points, fetching, request, wait>>
     ELSE DeliverCached(subscribers) /\ Fetch
  /\ UNCHANGED <<server, answer, subscribers, cached, interval, hidden, told>>

(* The daemon answers, or the request fails (no connection, status that    *)
(* is not ok, body that is not JSON).                                      *)
Answers ==
  /\ request = "sent"
  /\ request' = "answered"
  /\ answer' = [at |-> server.at, failures |-> server.failures,
                 ref |-> ~cached.ref]
  /\ UNCHANGED <<server, subscribers, cached, fetching, timeoutId, loose,
                 interval, hidden, wait, view, points, told>>

Fails ==
  /\ request = "sent"
  /\ request' = "failed"
  /\ UNCHANGED <<server, answer, subscribers, cached, fetching, timeoutId, loose,
                 interval, hidden, wait, view, points, told>>

\* Mutant: the answer is compared after it has become the cached one.
NewFailuresLate(prev, fresh) == {}

(* Services announced by "homelab:service-failure".                        *)
NewFailures(prev, fresh) ==
  IF prev = Null THEN {}
  ELSE {u \in Unit : fresh.failures[u] > prev.failures[u]}

(* What has been announced when fresh has arrived: a first answer and a    *)
(* count that went down need no announcement.                              *)
ToldAfter(prev, fresh, announced) ==
  [u \in Unit |->
    IF u \in announced \/ prev = Null \/ fresh.failures[u] < told[u]
    THEN fresh.failures[u] ELSE told[u]]

OnAnswer ==
  /\ request = "answered"
  /\ told' = ToldAfter(cached, answer, NewFailures(cached, answer))
  /\ cached' = answer
  /\ fetching' = FALSE
  /\ request' = "none" /\ answer' = Null
  /\ Deliver(subscribers, answer)
  /\ Reschedule(wait)
  /\ UNCHANGED <<server, subscribers, interval, hidden>>

OnFailure ==
  /\ request = "failed"
  /\ fetching' = FALSE
  /\ request' = "none"
  /\ DeliverError
  /\ Reschedule(IF wait < Shortest THEN wait ELSE Shortest)
  /\ UNCHANGED <<server, answer, subscribers, cached, interval, hidden, told>>

-----------------------------------------------------------------------------
(* The daemon, the user and the other tabs.                                *)

ServiceFails(u) ==
  /\ server.at < MaxAt
  /\ server' = [server EXCEPT !.at = @ + 1, !.failures[u] = @ + 1]
  /\ UNCHANGED <<poller, interval, hidden, view, points, told>>

(* A successful start clears the count.                                    *)
ServiceStarts(u) ==
  /\ server.at < MaxAt
  /\ server' = [server EXCEPT !.at = @ + 1, !.failures[u] = 0]
  /\ UNCHANGED <<poller, interval, hidden, view, points, told>>

(* The selector offers 2 s to 60 s; another tab or the console can leave   *)
(* any number in localStorage.                                             *)
ChooseInterval(ms) ==
  /\ interval' = ms
  /\ UNCHANGED <<server, poller, hidden, view, points, told>>

ToggleHidden ==
  /\ hidden' = ~hidden
  /\ UNCHANGED <<server, poller, interval, view, points, told>>

Next ==
  \/ \E l \in Listener : Subscribe(l) \/ Unsubscribe(l)
  \/ TimerFires \/ Answers \/ Fails \/ OnAnswer \/ OnFailure
  \/ \E u \in Unit : ServiceFails(u) \/ ServiceStarts(u)
  \/ \E ms \in Saved : ChooseInterval(ms)
  \/ ToggleHidden

Spec == Init /\ [][Next]_vars

(* Timers fire, requests settle and not always with an error; callbacks    *)
(* run.  Nothing makes a component mount or the user act.                  *)
FairSpec ==
  /\ Spec
  /\ WF_vars(TimerFires) /\ WF_vars(Answers \/ Fails) /\ SF_vars(Answers)
  /\ WF_vars(OnAnswer) /\ WF_vars(OnFailure)

-----------------------------------------------------------------------------
(* There is one loop, which all subscribers share: a fetch under way and   *)
(* an armed timer exclude each other, no timer is left behind, the loop    *)
(* never dies with subscribers left and is not armed without any.          *)
OneLoop ==
  /\ fetching <=> request # "none"
  /\ ~(fetching /\ timeoutId = "armed")
  /\ loose = 0
  /\ subscribers # {} => fetching \/ timeoutId = "armed"
  /\ timeoutId = "armed" => subscribers # {}

(* The overview is asked for by the armed timer, once it has waited 2 s to *)
(* 60 s whatever localStorage holds and also after a failure, or by a      *)
(* component that mounts when nobody listened: that one asks at once,      *)
(* however recent the last answer (use-overview.ts:86-89), so that pages   *)
(* mounted one after the other are not 2 s apart.                          *)
Pace ==
  [][request # "sent" /\ request' = "sent" =>
       \/ /\ timeoutId = "armed" /\ timeoutId' = "fired"
          /\ wait \in Shortest .. Longest
       \/ subscribers = {} /\ subscribers' # {}]_vars

(* Every rise of a failure count between two answers has been announced.   *)
NothingUntold == cached # Null => told = cached.failures

(* The points of a sparkline are answers in the order they were made, none *)
(* twice, and the overview on the page is the last of them, if it has the  *)
(* value at all.                                                           *)
PointsFaithful ==
  \A l \in subscribers :
    LET p == points[l]  d == view[l].data IN
    /\ Len(p) <= maxPoints
    /\ d.at \in (0 .. MaxAt) \ Missing =>
         p # <<>> /\ p[Len(p)] = [at |-> d.at, ref |-> d.ref]
    /\ \A i \in 1 .. Len(p) - 1 :
         /\ p[i].at <= p[i + 1].at
         /\ p[i].ref = p[i + 1].ref => Missing \cap (p[i].at .. p[i + 1].at) # {}

(* Whoever listens sees every state of the daemon or a later one.          *)
Catches ==
  \A l \in Listener, n \in 0 .. MaxAt :
    (l \in subscribers /\ server.at >= n)
      ~> (l \notin subscribers \/ view[l].data.at >= n)

(* useOverview keeps its promise to each component.                        *)
Feed(l) == INSTANCE OverviewFeed WITH
             at <- server.at, data <- view[l].data.at,
             error <- view[l].error, isStale <- view[l].isStale

FeedKept ==
  /\ \A l \in Listener : Feed(l)!Init
  /\ [][\A l \in Listener : [Feed(l)!Next]_(Feed(l)!vars)]_vars
=============================================================================
