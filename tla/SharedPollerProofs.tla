------------------------- MODULE SharedPollerProofs -------------------------
(***************************************************************************)
(* Theorems about SharedPoller for every set of components, of services    *)
(* and of intervals somebody may leave in localStorage.                    *)
(***************************************************************************)
EXTENDS SharedPoller, SequenceTheorems, TLAPS

Paced == Shortest .. Longest

(* A delay is chosen before the timer is armed, and kept until then.       *)
WaitInv ==
  /\ interval \in Int
  /\ fetching => wait \in Paced
  /\ timeoutId = "armed" => wait \in Paced

LoopInv == OneLoop /\ WaitInv

(* Failure counts wherever they are on their way.                          *)
Counts == [Unit -> Nat]

CountsInv ==
  /\ server \in [at : Nat, failures : Counts] /\ told \in Counts
  /\ request = "answered" => answer.failures \in Counts /\ answer # Null
  /\ cached # Null => cached.failures \in Counts

ToldInv == CountsInv /\ NothingUntold

-----------------------------------------------------------------------------
LEMMA Bounds ==
  /\ Shortest \in Int /\ Longest \in Int
  /\ Shortest <= 10000 /\ 10000 <= 30000 /\ 30000 <= Longest
BY DEF Shortest, Longest

LEMMA IntervalPaced ==
  ASSUME interval \in Int
  PROVE  ResolvedInterval \in Paced
<1>1. getPollInterval(interval) \in Paced
  BY Bounds DEF getPollInterval, ClampMs, Paced
<1>2. ResolvedInterval = 30000 \/ ResolvedInterval = getPollInterval(interval)
  BY DEF ResolvedInterval
<1>3. 30000 \in Paced
  BY Bounds DEF Paced
<1> QED
  BY <1>1, <1>2, <1>3

LEMMA LoopInit == Init => LoopInv
BY PollerAssumption DEF Init, LoopInv, OneLoop, WaitInv

LEMMA LoopStep == LoopInv /\ [Next]_vars => LoopInv'
<1> SUFFICES ASSUME LoopInv, [Next]_vars PROVE LoopInv'
  OBVIOUS
<1> USE DEF LoopInv, OneLoop, WaitInv
<1>0. ResolvedInterval \in Paced
  BY IntervalPaced
<1>1. ASSUME NEW l \in Listener, Subscribe(l) PROVE LoopInv'
  BY <1>0, <1>1 DEF Subscribe, Fetch
<1>2. ASSUME NEW l \in Listener, Unsubscribe(l) PROVE LoopInv'
  BY <1>2 DEF Unsubscribe, Stop
<1>3. CASE TimerFires
  <2>1. timeoutId = "armed" /\ timeoutId' = "fired" /\ loose' = loose
    BY <1>3 DEF TimerFires
  <2>2. subscribers # {} /\ Fetch /\ UNCHANGED <<subscribers, interval>>
    BY <1>3, <2>1 DEF TimerFires
  <2> QED
    BY <1>0, <2>1, <2>2 DEF Fetch
<1>4. CASE Answers \/ Fails
  BY <1>4 DEF Answers, Fails
<1>5. CASE OnAnswer
  BY <1>5 DEF OnAnswer, Reschedule, SetTimeout
<1>6. CASE OnFailure
  <2>1. (IF wait < Shortest THEN wait ELSE Shortest) \in Paced
    BY <1>6, Bounds DEF OnFailure, Paced
  <2> QED
    BY <1>6, <2>1 DEF OnFailure, Reschedule, SetTimeout
<1>7. ASSUME NEW u \in Unit, ServiceFails(u) \/ ServiceStarts(u) PROVE LoopInv'
  BY <1>7 DEF ServiceFails, ServiceStarts, poller
<1>8. ASSUME NEW ms \in Saved, ChooseInterval(ms) PROVE LoopInv'
  BY <1>8, PollerAssumption DEF ChooseInterval, poller
<1>9. CASE ToggleHidden
  BY <1>9 DEF ToggleHidden, poller
<1>10. CASE UNCHANGED vars
  BY <1>10 DEF vars, poller
<1> QED
  BY <1>1, <1>2, <1>3, <1>4, <1>5, <1>6, <1>7, <1>8, <1>9, <1>10 DEF Next

(* All components of the dashboard share one loop that runs as long as one *)
(* of them listens: SharedPoller's fetching flag and timeoutId.            *)
THEOREM LoopIsShared == Spec => []OneLoop
<1>1. LoopInv => OneLoop
  BY DEF LoopInv
<1> QED
  BY LoopInit, LoopStep, <1>1, PTL DEF Spec

(* A request for the overview follows a wait of 2 s to 60 s of the armed   *)
(* timer, whatever number is in localStorage: getPollInterval clamps it    *)
(* and a failure shortens it to 2 s.  Only a component that mounts when    *)
(* nobody listened asks without a wait.                                    *)
THEOREM PollsArePaced == Spec => Pace
<1> DEFINE Paces == request # "sent" /\ request' = "sent" =>
                      \/ /\ timeoutId = "armed" /\ timeoutId' = "fired"
                         /\ wait \in Shortest .. Longest
                      \/ subscribers = {} /\ subscribers' # {}
<1>1. LoopInv /\ [Next]_vars => [Paces]_vars
  <2> SUFFICES ASSUME LoopInv, Next, request # "sent", request' = "sent"
               PROVE  \/ /\ timeoutId = "armed" /\ timeoutId' = "fired"
                         /\ wait \in Shortest .. Longest
                      \/ subscribers = {} /\ subscribers' # {}
    BY DEF vars, poller
  <2>1. ASSUME NEW l \in Listener, Subscribe(l)
        PROVE  subscribers = {} /\ subscribers' # {}
    BY <2>1 DEF Subscribe
  <2>2. CASE TimerFires
    <3>1. loose = 0 /\ (timeoutId = "armed" => wait \in Paced)
      BY DEF LoopInv, OneLoop, WaitInv
    <3>2. timeoutId = "armed" /\ timeoutId' = "fired"
      BY <2>2, <3>1 DEF TimerFires
    <3> QED
      BY <3>1, <3>2 DEF Paced
  <2>3. ASSUME NEW l \in Listener, Unsubscribe(l) PROVE FALSE
    BY <2>3 DEF Unsubscribe
  <2>4. CASE Answers \/ Fails \/ OnAnswer \/ OnFailure
    BY <2>4 DEF Answers, Fails, OnAnswer, OnFailure
  <2>5. ASSUME NEW u \in Unit, ServiceFails(u) \/ ServiceStarts(u) PROVE FALSE
    BY <2>5 DEF ServiceFails, ServiceStarts, poller
  <2>6. ASSUME NEW ms \in Saved, ChooseInterval(ms) PROVE FALSE
    BY <2>6 DEF ChooseInterval, poller
  <2>7. CASE ToggleHidden
    BY <2>7 DEF ToggleHidden, poller
  <2> QED
    BY <2>1, <2>2, <2>3, <2>4, <2>5, <2>6, <2>7 DEF Next
<1> QED
  BY LoopInit, LoopStep, <1>1, PTL DEF Spec, Pace
-----------------------------------------------------------------------------
LEMMA ToldInit == Init => ToldInv
BY DEF Init, ToldInv, CountsInv, NothingUntold, Counts

(* The arithmetic of an announcement: a count that did not rise and did    *)
(* not fall is the one that was told.                                      *)
LEMMA ToldAfterIsFresh ==
  ASSUME ToldInv, request = "answered"
  PROVE  ToldAfter(cached, answer, NewFailures(cached, answer)) = answer.failures
<1> DEFINE announced == NewFailures(cached, answer)
<1>1. answer.failures \in Counts
  BY DEF ToldInv, CountsInv
<1>2. ASSUME NEW u \in Unit
      PROVE  ToldAfter(cached, answer, announced)[u] = answer.failures[u]
  <2>1. CASE cached = Null
    BY <2>1 DEF ToldAfter
  <2>2. CASE cached # Null
    <3>1. told = cached.failures /\ told[u] \in Nat /\ answer.failures[u] \in Nat
      BY <1>1, <2>2 DEF ToldInv, CountsInv, NothingUntold, Counts
    <3>2. u \in announced <=> answer.failures[u] > cached.failures[u]
      BY <2>2 DEF NewFailures
    <3>3. CASE u \in announced \/ answer.failures[u] < told[u]
      BY <3>3 DEF ToldAfter
    <3>4. CASE ~(u \in announced \/ answer.failures[u] < told[u])
      <4>1. answer.failures[u] = told[u]
        BY <3>1, <3>2, <3>4
      <4> QED
        BY <2>2, <3>4, <4>1 DEF ToldAfter
    <3> QED
      BY <3>3, <3>4
  <2> QED
    BY <2>1, <2>2
<1> QED
  BY <1>1, <1>2 DEF ToldAfter, Counts

LEMMA ToldStep == ToldInv /\ [Next]_vars => ToldInv'
<1> SUFFICES ASSUME ToldInv, [Next]_vars PROVE ToldInv'
  OBVIOUS
<1> USE DEF ToldInv, CountsInv, NothingUntold
<1>1. ASSUME NEW l \in Listener, Subscribe(l) PROVE ToldInv'
  BY <1>1 DEF Subscribe, Fetch
<1>2. ASSUME NEW l \in Listener, Unsubscribe(l) PROVE ToldInv'
  BY <1>2 DEF Unsubscribe
<1>3. CASE TimerFires
  BY <1>3 DEF TimerFires, Fetch
<1>4. CASE Answers
  <2>1. answer'.at = server.at /\ answer'.failures = server.failures
    BY <1>4 DEF Answers
  <2>2. answer' # Null
    BY <2>1 DEF Null
  <2> QED
    BY <1>4, <2>1, <2>2 DEF Answers
<1>5. CASE Fails
  BY <1>5 DEF Fails
<1>6. CASE OnAnswer
  <2>1. request = "answered" /\ cached' = answer /\ request' = "none"
        /\ server' = server
    BY <1>6 DEF OnAnswer
  <2>2. told' = answer.failures
    BY <1>6, <2>1, ToldAfterIsFresh DEF OnAnswer
  <2> QED
    BY <2>1, <2>2
<1>7. CASE OnFailure
  BY <1>7 DEF OnFailure
<1>8. ASSUME NEW u \in Unit, ServiceFails(u) \/ ServiceStarts(u) PROVE ToldInv'
  <2>1. PICK n \in Nat :
          server' = [server EXCEPT !.at = @ + 1, !.failures[u] = n]
    <3>1. server.failures[u] + 1 \in Nat
      BY DEF Counts
    <3> QED
      BY <1>8, <3>1 DEF ServiceFails, ServiceStarts
  <2>2. [server.failures EXCEPT ![u] = n] \in Counts
    BY DEF Counts
  <2>3. server' = [at |-> server.at + 1, failures |-> [server.failures EXCEPT ![u] = n]]
    BY <2>1
  <2> QED
    BY <1>8, <2>2, <2>3 DEF ServiceFails, ServiceStarts, poller
<1>9. ASSUME NEW ms \in Saved, ChooseInterval(ms) PROVE ToldInv'
  BY <1>9 DEF ChooseInterval, poller
<1>10. CASE ToggleHidden
  BY <1>10 DEF ToggleHidden, poller
<1>11. CASE UNCHANGED vars
  BY <1>11 DEF vars, poller
<1> QED
  BY <1>1, <1>2, <1>3, <1>4, <1>5, <1>6, <1>7, <1>8, <1>9, <1>10, <1>11 DEF Next

(* No rise of a failure count between two answers goes unannounced: the    *)
(* comparison with the overview of the answer before.                      *)
THEOREM FailuresAreTold == Spec => []NothingUntold
<1>1. ToldInv => NothingUntold
  BY DEF ToldInv
<1> QED
  BY ToldInit, ToldStep, <1>1, PTL DEF Spec

-----------------------------------------------------------------------------
(* Overviews only get newer on their way from the daemon to the page.      *)
View == [data : [at : Int, failures : Counts, ref : BOOLEAN],
         error : BOOLEAN, isStale : BOOLEAN]

AgesInv ==
  /\ server \in [at : Nat, failures : Counts]
  /\ cached \in [at : Int, failures : Counts, ref : BOOLEAN]
  /\ cached.at <= server.at /\ (cached # Null => cached.at >= 0)
  /\ answer \in [at : Int, failures : Counts, ref : BOOLEAN]
  /\ request = "answered" =>
       0 <= answer.at /\ cached.at <= answer.at /\ answer.at <= server.at
  /\ view \in [Listener -> View]
  /\ \A l \in Listener : -1 <= view[l].data.at /\ view[l].data.at <= cached.at

LEMMA NullAge == Null \in [at : Int, failures : Counts, ref : BOOLEAN] /\ Null.at = -1
BY DEF Null, Counts

LEMMA AgesInit == Init => AgesInv
<1> SUFFICES ASSUME Init PROVE AgesInv
  OBVIOUS
<1>1. Mounted \in View /\ Mounted.data.at = -1
  BY NullAge DEF Mounted, View
<1>2. server \in [at : Nat, failures : Counts] /\ server.at = 0
  BY DEF Init, Counts
<1>3. cached = Null /\ answer = Null /\ request = "none"
      /\ view = [l \in Listener |-> Mounted]
  BY DEF Init
<1> QED
  BY <1>1, <1>2, <1>3, NullAge DEF AgesInv

(* The three ways a step can change the view of a component.               *)
Fresh(l, a) == view'[l] = [data |-> a, error |-> FALSE, isStale |-> FALSE]

Failed(l) ==
  \/ cached = Null /\ view'[l] = [view[l] EXCEPT !.error = TRUE]
  \/ cached # Null /\ view'[l] = [data |-> cached, error |-> TRUE, isStale |-> TRUE]

LEMMA ViewStep ==
  ASSUME AgesInv, Next, NEW l \in Listener
  PROVE  \/ UNCHANGED view[l]
         \/ view'[l] = Mounted /\ UNCHANGED server
         \/ cached # Null /\ Fresh(l, cached) /\ UNCHANGED <<server, cached>>
         \/ request = "answered" /\ cached' = answer /\ Fresh(l, answer)
            /\ UNCHANGED server
         \/ Failed(l) /\ UNCHANGED <<server, cached>>
<1> USE DEF AgesInv
<1>1. ASSUME NEW k \in Listener, Subscribe(k) PROVE
        \/ UNCHANGED view[l]
        \/ cached # Null /\ Fresh(l, cached) /\ UNCHANGED <<server, cached>>
  <2>1. CASE cached = Null
    BY <1>1, <2>1 DEF Subscribe, DeliverCached
  <2>2. CASE cached # Null
    <3>1. Deliver({k}, cached) /\ UNCHANGED <<server, cached>>
      BY <1>1, <2>2 DEF Subscribe, DeliverCached
    <3>2. view'[l] = view[l] \/ Fresh(l, cached)
      BY <3>1 DEF Deliver, Fresh
    <3> QED
      BY <2>2, <3>1, <3>2
  <2> QED
    BY <2>1, <2>2
<1>2. ASSUME NEW k \in Listener, Unsubscribe(k) PROVE
        UNCHANGED view[l] \/ (view'[l] = Mounted /\ UNCHANGED server)
  BY <1>2 DEF Unsubscribe
<1>3. CASE TimerFires
  <2>1. CASE subscribers = {} \/ cached = Null
    BY <1>3, <2>1 DEF TimerFires, DeliverCached
  <2>2. CASE subscribers # {} /\ cached # Null
    <3>1. Deliver(subscribers, cached) /\ UNCHANGED <<server, cached>>
      BY <1>3, <2>2 DEF TimerFires, DeliverCached
    <3>2. view'[l] = view[l] \/ Fresh(l, cached)
      BY <3>1 DEF Deliver, Fresh
    <3> QED
      BY <2>2, <3>1, <3>2
  <2> QED
    BY <2>1, <2>2
<1>4. CASE OnAnswer
  <2>1. /\ request = "answered" /\ cached' = answer /\ UNCHANGED server
        /\ Deliver(subscribers, answer)
    BY <1>4 DEF OnAnswer
  <2>2. view'[l] = view[l] \/ Fresh(l, answer)
    BY <2>1 DEF Deliver, Fresh
  <2> QED
    BY <2>1, <2>2
<1>5. CASE OnFailure
  <2>1. DeliverError /\ UNCHANGED <<server, cached>>
    BY <1>5 DEF OnFailure
  <2>2. view'[l] = view[l] \/ Failed(l)
    BY <2>1 DEF DeliverError, Failed
  <2> QED
    BY <2>1, <2>2
<1>6. CASE Answers \/ Fails
  BY <1>6 DEF Answers, Fails
<1>7. ASSUME NEW u \in Unit, ServiceFails(u) \/ ServiceStarts(u) PROVE UNCHANGED view[l]
  BY <1>7 DEF ServiceFails, ServiceStarts
<1>8. ASSUME NEW ms \in Saved, ChooseInterval(ms) PROVE UNCHANGED view[l]
  BY <1>8 DEF ChooseInterval
<1>9. CASE ToggleHidden
  BY <1>9 DEF ToggleHidden
<1> QED
  BY <1>1, <1>2, <1>3, <1>4, <1>5, <1>6, <1>7, <1>8, <1>9 DEF Next

LEMMA AgesStep == AgesInv /\ [Next]_vars => AgesInv'
<1> SUFFICES ASSUME AgesInv, [Next]_vars PROVE AgesInv'
  OBVIOUS
<1> USE DEF AgesInv
<1> DEFINE Overviews == [at : Int, failures : Counts, ref : BOOLEAN]
<1>1. CASE UNCHANGED vars
  BY <1>1 DEF vars, poller
<1>2. CASE Next
  <2>1. /\ server' \in [at : Nat, failures : Counts] /\ server.at <= server'.at
        /\ UNCHANGED <<request, answer, cached>> \/ UNCHANGED server
    <3>1. ASSUME NEW u \in Unit, ServiceFails(u) \/ ServiceStarts(u)
          PROVE  /\ server' \in [at : Nat, failures : Counts]
                 /\ server.at <= server'.at /\ UNCHANGED <<request, answer, cached>>
      <4>1. PICK n \in Nat : server' = [server EXCEPT !.at = @ + 1, !.failures[u] = n]
        <5>1. server.failures[u] + 1 \in Nat
          BY DEF Counts
        <5> QED
          BY <3>1, <5>1 DEF ServiceFails, ServiceStarts
      <4>2. [server.failures EXCEPT ![u] = n] \in Counts
        BY DEF Counts
      <4>3. server' = [at |-> server.at + 1,
                       failures |-> [server.failures EXCEPT ![u] = n]]
        BY <4>1
      <4> QED
        BY <3>1, <4>2, <4>3 DEF ServiceFails, ServiceStarts, poller
    <3>2. CASE \A u \in Unit : ~(ServiceFails(u) \/ ServiceStarts(u))
      <4>1. UNCHANGED server
        BY <1>2, <3>2 DEF Next, Subscribe, Unsubscribe, TimerFires, Answers, Fails,
          OnAnswer, OnFailure, ChooseInterval, ToggleHidden
      <4> QED
        BY <4>1
    <3> QED
      BY <3>1, <3>2
  <2>2. /\ cached' \in Overviews /\ cached'.at <= server'.at
        /\ cached' # Null => cached'.at >= 0
        /\ cached.at <= cached'.at
    <3>1. UNCHANGED cached \/ (request = "answered" /\ cached' = answer)
      BY <1>2 DEF Next, Subscribe, Unsubscribe, TimerFires, Answers, Fails, OnAnswer,
        OnFailure, ServiceFails, ServiceStarts, ChooseInterval, ToggleHidden, poller
    <3> QED
      BY <2>1, <3>1
  <2>3. /\ answer' \in Overviews
        /\ request' = "answered" =>
             0 <= answer'.at /\ cached'.at <= answer'.at /\ answer'.at <= server'.at
    <3>1. CASE Answers
      <4>1. /\ answer' = [at |-> server.at, failures |-> server.failures,
                           ref |-> ~cached.ref]
            /\ UNCHANGED <<server, cached>>
        BY <3>1 DEF Answers
      <4>2. answer' \in Overviews /\ answer'.at = server.at
        BY <4>1
      <4> QED
        BY <2>2, <4>1, <4>2
    <3>2. CASE OnAnswer
      BY <3>2, NullAge DEF OnAnswer
    <3>3. CASE ~Answers /\ ~OnAnswer
      <4>1. UNCHANGED <<answer, cached>>
            /\ (request' = "answered" => request = "answered")
        BY <1>2, <3>3 DEF Next, Subscribe, Fetch, Unsubscribe, TimerFires, Fails,
          OnFailure, ServiceFails, ServiceStarts, ChooseInterval, ToggleHidden, poller
      <4> QED
        BY <2>1, <4>1
    <3> QED
      BY <3>1, <3>2, <3>3
  <2>4. view' \in [Listener -> View]
        /\ \A l \in Listener : -1 <= view'[l].data.at /\ view'[l].data.at <= cached'.at
    <3>1. view' = [l \in Listener |-> view'[l]]
      BY <1>2 DEF Next, Subscribe, DeliverCached, Deliver, Unsubscribe, TimerFires,
        Answers, Fails, OnAnswer, OnFailure, DeliverError, ServiceFails, ServiceStarts,
        ChooseInterval, ToggleHidden
    <3>2. ASSUME NEW l \in Listener
          PROVE  /\ view'[l] \in View
                 /\ -1 <= view'[l].data.at /\ view'[l].data.at <= cached'.at
      <4>1. CASE UNCHANGED view[l]
        BY <2>2, <4>1 DEF View
      <4>2. CASE view'[l] = Mounted
        <5>1. Mounted \in View /\ Mounted.data.at = -1
          BY NullAge DEF Mounted, View
        <5>2. -1 <= view[l].data.at /\ view[l].data.at <= cached.at /\ view[l].data.at \in Int
          BY DEF View
        <5> QED
          BY <2>2, <4>2, <5>1, <5>2
      <4>3. CASE cached # Null /\ Fresh(l, cached) /\ UNCHANGED <<server, cached>>
        BY <4>3 DEF Fresh, View
      <4>4. CASE request = "answered" /\ cached' = answer /\ Fresh(l, answer)
        <5>1. view'[l] = [data |-> answer, error |-> FALSE, isStale |-> FALSE]
              /\ cached' = answer /\ 0 <= answer.at /\ answer \in Overviews
          BY <4>4 DEF Fresh
        <5>2. view'[l].data = answer /\ answer.at \in Int
          BY <5>1
        <5> QED
          BY <5>1, <5>2 DEF View
      <4>5. CASE Failed(l) /\ UNCHANGED <<server, cached>>
        <5>1. view[l] \in View /\ cached' = cached
          BY <4>5
        <5>2. CASE cached = Null
          <6>1. /\ view'[l].data = view[l].data /\ view'[l].isStale = view[l].isStale
                /\ view'[l] = [view[l] EXCEPT !.error = TRUE]
            BY <4>5, <5>1, <5>2 DEF Failed, View
          <6>2. view'[l] \in View
            BY <5>1, <6>1 DEF View
          <6> QED
            BY <5>1, <6>1, <6>2
        <5>3. CASE cached # Null
          <6>1. view'[l] = [data |-> cached, error |-> TRUE, isStale |-> TRUE]
            BY <4>5, <5>3 DEF Failed
          <6> QED
            BY <5>1, <5>3, <6>1 DEF View
        <5> QED
          BY <5>2, <5>3
      <4> QED
        BY <1>2, ViewStep, <4>1, <4>2, <4>3, <4>4, <4>5
    <3> QED
      BY <3>1, <3>2
  <2> QED
    BY <2>1, <2>2, <2>3, <2>4
<1> QED
  BY <1>1, <1>2

LEMMA FeedInit == ASSUME NEW l \in Listener PROVE Init => Feed(l)!Init
<1>1. Mounted.data.at = -1 /\ Mounted.error = FALSE /\ Mounted.isStale = TRUE
  BY NullAge DEF Mounted
<1>2. Init => view[l] = Mounted /\ server.at = 0
  BY DEF Init
<1> QED
  BY <1>1, <1>2 DEF Feed!Init, Feed!Mounted

(* Each of the five ways is a step of the feed, or none.                   *)
LEMMA FeedStep ==
  ASSUME AgesInv, AgesInv', [Next]_vars, NEW l \in Listener
  PROVE  [Feed(l)!Next]_(Feed(l)!vars)
<1> USE DEF AgesInv
<1>1. /\ view[l] \in View /\ view'[l] \in View
      /\ view[l].data.at <= cached.at /\ cached.at <= server.at /\ server.at \in Nat
  OBVIOUS
<1>2. CASE UNCHANGED vars
  BY <1>2 DEF vars, Feed!vars
<1>3. CASE Next /\ UNCHANGED view[l]
  <2>1. UNCHANGED server \/ server'.at = server.at + 1
    <3>1. ASSUME NEW u \in Unit, ServiceFails(u) \/ ServiceStarts(u)
          PROVE  server'.at = server.at + 1
      BY <3>1 DEF ServiceFails, ServiceStarts
    <3>2. CASE \A u \in Unit : ~(ServiceFails(u) \/ ServiceStarts(u))
      BY <1>3, <3>2 DEF Next, Subscribe, Unsubscribe, TimerFires, Answers, Fails,
        OnAnswer, OnFailure, ChooseInterval, ToggleHidden
    <3> QED
      BY <3>1, <3>2
  <2> QED
    BY <1>3, <2>1 DEF Feed!Next, Feed!DaemonChanges, Feed!vars
<1>4. CASE view'[l] = Mounted /\ UNCHANGED server
  <2>1. view'[l].data.at = -1 /\ view'[l].error = FALSE /\ view'[l].isStale = TRUE
    BY <1>4, NullAge DEF Mounted
  <2> QED
    BY <1>4, <2>1 DEF Feed!Next, Feed!Unmount
<1>5. ASSUME NEW a \in {cached, answer}, Fresh(l, a), UNCHANGED server,
             a.at \in 0 .. server.at, view[l].data.at <= a.at
      PROVE  Feed(l)!Next
  <2>1. view'[l].data.at = a.at /\ view'[l].error = FALSE /\ view'[l].isStale = FALSE
    BY <1>5 DEF Fresh
  <2> QED
    BY <1>5, <2>1 DEF Feed!Next, Feed!OnData
<1>6. CASE Failed(l) /\ UNCHANGED <<server, cached>>
  <2>1. CASE cached = Null
    <3>1. /\ view'[l].data = view[l].data /\ view'[l].isStale = view[l].isStale
          /\ view'[l].error = TRUE
      BY <1>1, <1>6, <2>1 DEF Failed, View
    <3>2. view[l].data.at = -1
      BY <1>1, <2>1, NullAge DEF View
    <3> QED
      BY <1>6, <3>1, <3>2 DEF Feed!Next, Feed!OnError
  <2>2. CASE cached # Null
    <3>1. /\ view'[l].data = cached /\ view'[l].error = TRUE
          /\ view'[l].isStale = TRUE
      BY <1>6, <2>2 DEF Failed
    <3>2. cached.at \in 0 .. server.at /\ view[l].data.at <= cached.at
      BY <1>1, <2>2
    <3> QED
      BY <1>6, <3>1, <3>2 DEF Feed!Next, Feed!OnError
  <2> QED
    BY <2>1, <2>2
<1>7. CASE Next /\ cached # Null /\ Fresh(l, cached) /\ UNCHANGED <<server, cached>>
  <2>1. cached.at \in 0 .. server.at /\ view[l].data.at <= cached.at
    BY <1>1, <1>7
  <2> QED
    BY <1>5, <1>7, <2>1
<1>8. CASE Next /\ request = "answered" /\ cached' = answer /\ Fresh(l, answer)
           /\ UNCHANGED server
  <2>1. answer.at \in 0 .. server.at /\ view[l].data.at <= answer.at
    BY <1>1, <1>8 DEF View
  <2> QED
    BY <1>5, <1>8, <2>1
<1> QED
  BY ViewStep, <1>2, <1>3, <1>4, <1>6, <1>7, <1>8

(* useOverview implements the feed it promises to each component: the      *)
(* overview a component shows is one the daemon answered and never an      *)
(* older one than before, also when a poll fails.                          *)
THEOREM FeedImplemented == Spec => FeedKept
<1>1. Init => \A l \in Listener : Feed(l)!Init
  BY FeedInit
<1>2. AgesInv /\ AgesInv' /\ [Next]_vars =>
        [\A l \in Listener : [Feed(l)!Next]_(Feed(l)!vars)]_vars
  BY FeedStep
<1> QED
  BY <1>1, <1>2, AgesInit, AgesStep, PTL DEF Spec, FeedKept

-----------------------------------------------------------------------------
(* The points of the sparklines.                                           *)
Point == [at : Nat, ref : BOOLEAN]
PointOf(a) == [at |-> a.at, ref |-> a.ref]

Last(p) == p[Len(p)]

(* Two points that may follow each other.                                  *)
Follows(q, r) ==
  /\ q.at <= r.at
  /\ q.ref = r.ref => Missing \cap (q.at .. r.at) # {}

Trail(p) ==
  /\ p \in Seq(Point) /\ Len(p) <= maxPoints
  /\ \A i \in 1 .. Len(p) - 1 : Follows(p[i], p[i + 1])

(* The points of a component lead to the last answer, which is what the    *)
(* component shows.                                                        *)
LeadsTo(p, a) ==
  /\ p # <<>> => Last(p).at <= a.at
  /\ a # Null /\ a.at \notin Missing => p # <<>> /\ Last(p) = PointOf(a)

PointsInv ==
  /\ request = "answered" => answer.ref = ~cached.ref
  /\ points \in [Listener -> Seq(Point)]
  /\ subscribers \subseteq Listener
  /\ \A l \in subscribers :
       view[l].data = cached /\ Trail(points[l]) /\ LeadsTo(points[l], cached)
  /\ \A l \in Listener \ subscribers : view[l] = Mounted /\ points[l] = <<>>

LEMMA EmptyTrail == Trail(<<>>)
BY PollerAssumption DEF Trail

(* slice(-maxPoints) drops the oldest point at most.                       *)
LEMMA LongerTrail ==
  ASSUME NEW p, Trail(p), NEW a, PointOf(a) \in Point,
         p # <<>> => Follows(Last(p), PointOf(a))
  PROVE  /\ Trail(Longer(p, a)) /\ Longer(p, a) # <<>>
         /\ Last(Longer(p, a)) = PointOf(a)
<1> DEFINE all == Append(p, PointOf(a))
<1>t. p \in Seq(Point) /\ Len(p) \in Nat /\ Len(p) <= maxPoints /\ maxPoints \in Nat \ {0}
  BY PollerAssumption DEF Trail
<1>1. /\ all \in Seq(Point) /\ all # <<>> /\ Len(all) = Len(p) + 1
      /\ \A i \in 1 .. Len(p) : all[i] = p[i]
      /\ all[Len(p) + 1] = PointOf(a)
  BY <1>t, AppendProperties
<1>2. \A i \in 1 .. Len(all) - 1 : Follows(all[i], all[i + 1])
  <2> SUFFICES ASSUME NEW i \in 1 .. Len(all) - 1 PROVE Follows(all[i], all[i + 1])
    OBVIOUS
  <2>1. CASE i = Len(p)
    <3>1. p # <<>>
      BY <1>t, <2>1, <1>1
    <3> QED
      BY <1>t, <1>1, <2>1, <3>1 DEF Last
  <2>2. CASE i # Len(p)
    <3>1. i \in 1 .. Len(p) - 1 /\ all[i] = p[i] /\ all[i + 1] = p[i + 1]
      BY <1>t, <1>1, <2>2
    <3> QED
      BY <3>1 DEF Trail
  <2> QED
    BY <2>1, <2>2
<1>3. Longer(p, a) = IF Len(all) > maxPoints THEN Tail(all) ELSE all
  BY DEF Longer, PointOf
<1>4. CASE Len(all) > maxPoints
  <2>1. /\ Tail(all) \in Seq(Point) /\ Len(Tail(all)) = Len(all) - 1
        /\ \A i \in 1 .. Len(Tail(all)) : Tail(all)[i] = all[i + 1]
    BY <1>1, HeadTailProperties
  <2>2. Len(Tail(all)) = Len(p) /\ Len(p) # 0 /\ Len(p) <= maxPoints
    BY <1>t, <1>1, <1>4, <2>1
  <2>3. Tail(all)[Len(p)] = PointOf(a)
    BY <1>t, <1>1, <2>1, <2>2
  <2>4. \A i \in 1 .. Len(Tail(all)) - 1 : Follows(Tail(all)[i], Tail(all)[i + 1])
    <3> SUFFICES ASSUME NEW i \in 1 .. Len(Tail(all)) - 1
                 PROVE  Follows(Tail(all)[i], Tail(all)[i + 1])
      OBVIOUS
    <3>1. Tail(all)[i] = all[i + 1] /\ Tail(all)[i + 1] = all[(i + 1) + 1]
      BY <1>t, <2>1, <2>2
    <3>2. i + 1 \in 1 .. Len(all) - 1
      BY <1>t, <1>1, <2>2
    <3> HIDE DEF all
    <3> QED
      BY <3>1, <3>2, <1>2
  <2>5. Tail(all) # <<>>
    BY <2>1, <2>2, EmptySeq
  <2> QED
    BY <1>3, <1>4, <2>1, <2>2, <2>3, <2>4, <2>5 DEF Trail, Last
<1>5. CASE ~(Len(all) > maxPoints)
  <2>1. Longer(p, a) = all
    BY <1>3, <1>5
  <2>2. Len(all) <= maxPoints
    BY <1>t, <1>1, <1>5
  <2> HIDE DEF all
  <2> QED
    BY <1>1, <1>2, <2>1, <2>2 DEF Trail, Last
<1> QED
  BY <1>4, <1>5

LEMMA PointsHold == AgesInv /\ PointsInv => PointsFaithful
<1> SUFFICES ASSUME AgesInv, PointsInv, NEW l \in subscribers
             PROVE  LET p == points[l]  d == view[l].data IN
                    /\ Len(p) <= maxPoints
                    /\ d.at \in (0 .. MaxAt) \ Missing =>
                         p # <<>> /\ p[Len(p)] = [at |-> d.at, ref |-> d.ref]
                    /\ \A i \in 1 .. Len(p) - 1 :
                         /\ p[i].at <= p[i + 1].at
                         /\ p[i].ref = p[i + 1].ref =>
                              Missing \cap (p[i].at .. p[i + 1].at) # {}
  BY DEF PointsFaithful
<1>1. view[l].data = cached /\ Trail(points[l]) /\ LeadsTo(points[l], cached)
  BY DEF PointsInv
<1>2. cached.at \in (0 .. MaxAt) \ Missing => cached # Null /\ cached.at \notin Missing
  BY NullAge
<1> QED
  BY <1>1, <1>2 DEF Trail, LeadsTo, Follows, Last, PointOf

LEMMA PointsInit == Init => PointsInv
BY DEF Init, PointsInv

(* An answer that is not the same object as the last one.                  *)
Newer(a) ==
  /\ a # Null /\ PointOf(a) \in Point /\ cached.at <= a.at
  /\ a # cached /\ (cached # Null => a.ref # cached.ref)

(* What the delivery of an answer does to the points of a component that   *)
(* shows the answer before.                                                *)
LEMMA NewPoint ==
  ASSUME AgesInv, NEW p, Trail(p), LeadsTo(p, cached), NEW a, Newer(a)
  PROVE  LET q == AppendPoint(p, cached, a) IN Trail(q) /\ LeadsTo(q, a)
<1> DEFINE q == AppendPoint(p, cached, a)
<1>t. cached.at \in Int /\ a.at \in Int /\ a # Null /\ a # cached /\ cached.at <= a.at
  BY DEF AgesInv, Newer, PointOf, Point
<1>l. p # <<>> => Last(p) \in Point /\ Last(p).at \in Nat
  <2> SUFFICES ASSUME p # <<>> PROVE Last(p) \in Point /\ Last(p).at \in Nat
    OBVIOUS
  <2>1. p \in Seq(Point) /\ Len(p) \in 1 .. Len(p)
    BY EmptySeq DEF Trail
  <2>2. Last(p) \in Point
    BY <2>1 DEF Last
  <2> QED
    BY <2>2 DEF Point
<1>1. CASE a.at \in Missing
  <2>1. q = p
    BY <1>1 DEF AppendPoint
  <2> QED
    BY <1>1, <1>t, <1>l, <2>1 DEF LeadsTo
<1>2. CASE a.at \notin Missing
  <2>1. q = Longer(p, a)
    BY <1>2, <1>t DEF AppendPoint
  <2>2. ASSUME p # <<>> PROVE Follows(Last(p), PointOf(a))
    <3>1. Last(p).at <= cached.at /\ Last(p).at \in Nat
      BY <2>2, <1>l DEF LeadsTo
    <3>2. PointOf(a).at = a.at /\ PointOf(a).ref = a.ref
      BY DEF PointOf
    <3>3. CASE cached = Null \/ cached.at \in Missing
      <4>1. cached.at \in Last(p).at .. a.at
        BY <3>1, <1>t
      <4>2. cached.at \in Missing
        <5>1. cached # Null
          BY <2>2, <3>1, <1>l, NullAge
        <5> QED
          BY <3>3, <5>1
      <4> QED
        BY <3>1, <3>2, <4>1, <4>2, <1>t DEF Follows
    <3>4. CASE ~(cached = Null \/ cached.at \in Missing)
      <4>1. Last(p).ref = cached.ref /\ a.ref # cached.ref
        BY <3>4 DEF LeadsTo, PointOf, Newer
      <4> QED
        BY <3>1, <3>2, <4>1, <1>t DEF Follows
    <3> QED
      BY <3>3, <3>4
  <2>3. Trail(q) /\ q # <<>> /\ Last(q) = PointOf(a)
    BY <2>1, <2>2, LongerTrail DEF Newer
  <2>4. Last(q).at <= a.at
    BY <2>3, <1>t DEF PointOf
  <2> QED
    BY <2>3, <2>4 DEF LeadsTo
<1> QED
  BY <1>1, <1>2

(* A component that mounts shows the cached answer, its first point.       *)
LEMMA FirstPoint ==
  ASSUME AgesInv, cached # Null
  PROVE  LET q == AppendPoint(<<>>, Null, cached) IN Trail(q) /\ LeadsTo(q, cached)
<1> DEFINE q == AppendPoint(<<>>, Null, cached)
<1>1. PointOf(cached) \in Point /\ PointOf(cached).at = cached.at /\ cached.at \in Nat
  BY DEF AgesInv, PointOf, Point
<1>2. CASE cached.at \in Missing
  BY <1>2, EmptyTrail DEF AppendPoint, LeadsTo
<1>3. CASE cached.at \notin Missing
  <2>1. q = Longer(<<>>, cached)
    BY <1>3 DEF AppendPoint
  <2>2. Trail(q) /\ q # <<>> /\ Last(q) = PointOf(cached)
    BY <1>1, <2>1, EmptyTrail, LongerTrail
  <2> QED
    BY <1>1, <2>2 DEF LeadsTo
<1> QED
  BY <1>2, <1>3

(* The delivery of the answer a component shows already.                   *)
LEMMA SamePoint ==
  ASSUME NEW p PROVE AppendPoint(p, cached, cached) = p
BY DEF AppendPoint

LEMMA PointsStep == AgesInv /\ PointsInv /\ [Next]_vars => PointsInv'
<1> SUFFICES ASSUME AgesInv, PointsInv, [Next]_vars PROVE PointsInv'
  OBVIOUS
<1> DEFINE Shows(l) ==
             /\ view'[l].data = cached'
             /\ Trail(points'[l]) /\ LeadsTo(points'[l], cached')
           Gone(l) == view'[l] = Mounted /\ points'[l] = <<>>
<1>t. /\ subscribers \subseteq Listener
      /\ \A l \in subscribers :
           view[l].data = cached /\ Trail(points[l]) /\ LeadsTo(points[l], cached)
      /\ \A l \in Listener \ subscribers : view[l] = Mounted /\ points[l] = <<>>
      /\ \A l \in Listener : view[l] \in View
  BY DEF PointsInv, AgesInv
<1>s. ASSUME request' = "answered" => answer'.ref = ~cached'.ref,
             DOMAIN points' = Listener, points' = [l \in DOMAIN points' |-> points'[l]],
             subscribers' \subseteq Listener, \A l \in subscribers' : Shows(l),
             \A l \in Listener \ subscribers' : Gone(l)
      PROVE  PointsInv'
  <2>1. ASSUME NEW l \in Listener PROVE points'[l] \in Seq(Point)
    <3>1. CASE l \in subscribers'
      <4>1. Trail(points'[l])
        BY <1>s, <3>1
      <4> QED
        BY <4>1 DEF Trail
    <3>2. CASE l \notin subscribers'
      <4>1. points'[l] = <<>>
        BY <1>s, <3>2
      <4> QED
        BY <4>1
    <3> QED
      BY <3>1, <3>2
  <2> QED
    BY <1>s, <2>1 DEF PointsInv
<1>u. ASSUME UNCHANGED <<cached, subscribers, view, points>>,
             request' = "answered" => answer'.ref = ~cached'.ref
      PROVE  PointsInv'
  BY <1>u DEF PointsInv
<1>1. ASSUME NEW k \in Listener, Subscribe(k) PROVE PointsInv'
  <2>1. /\ k \notin subscribers /\ subscribers' = subscribers \cup {k}
        /\ UNCHANGED <<answer, cached>>
        /\ request' = "answered" => request = "answered"
    BY <1>1 DEF Subscribe, Fetch
  <2>2. view[k].data = Null /\ points[k] = <<>>
    BY <1>t, <2>1 DEF Mounted
  <2>3. CASE cached = Null
    <3>1. UNCHANGED <<view, points>>
      BY <1>1, <2>3 DEF Subscribe, DeliverCached
    <3>2. LeadsTo(<<>>, Null)
      BY DEF LeadsTo
    <3> QED
      BY <2>1, <2>2, <2>3, <3>1, <3>2, <1>t, EmptyTrail DEF PointsInv
  <2>4. CASE cached # Null
    <3>1. Deliver({k}, cached)
      BY <1>1, <2>4 DEF Subscribe, DeliverCached
    <3>2. /\ view'[k].data = cached /\ points'[k] = AppendPoint(<<>>, Null, cached)
          /\ \A l \in Listener \ {k} : view'[l] = view[l] /\ points'[l] = points[l]
          /\ DOMAIN points' = Listener /\ points' = [l \in DOMAIN points' |-> points'[l]]
      BY <2>2, <3>1 DEF Deliver
    <3>3. Shows(k)
      BY <2>1, <2>4, <3>2, FirstPoint
    <3>4. \A l \in subscribers' : Shows(l)
      BY <1>t, <2>1, <3>2, <3>3
    <3>5. \A l \in Listener \ subscribers' : Gone(l)
      BY <1>t, <2>1, <3>2
    <3>6. request' = "answered" => answer'.ref = ~cached'.ref
      BY <2>1 DEF PointsInv
    <3> QED
      BY <1>s, <1>t, <2>1, <3>2, <3>4, <3>5, <3>6
  <2> QED
    BY <2>3, <2>4
<1>2. ASSUME NEW k \in Listener, Unsubscribe(k) PROVE PointsInv'
  <2>1. /\ subscribers' = subscribers \ {k} /\ UNCHANGED <<request, answer, cached>>
        /\ view' = [view EXCEPT ![k] = Mounted] /\ points' = [points EXCEPT ![k] = <<>>]
    BY <1>2 DEF Unsubscribe
  <2>2. /\ DOMAIN points' = Listener /\ points' = [l \in DOMAIN points' |-> points'[l]]
        /\ Gone(k)
        /\ \A l \in Listener \ {k} : view'[l] = view[l] /\ points'[l] = points[l]
    BY <2>1 DEF PointsInv, AgesInv
  <2>3. request' = "answered" => answer'.ref = ~cached'.ref
    BY <2>1 DEF PointsInv
  <2> QED
    BY <1>s, <1>t, <2>1, <2>2, <2>3
<1>3. CASE TimerFires
  <2>1. /\ UNCHANGED <<subscribers, answer, cached>>
        /\ request' = "answered" => request = "answered"
    BY <1>3 DEF TimerFires, Fetch
  <2>2. request' = "answered" => answer'.ref = ~cached'.ref
    BY <2>1 DEF PointsInv
  <2>3. CASE UNCHANGED <<view, points>>
    BY <2>1, <2>2, <2>3, <1>u
  <2>4. CASE ~ UNCHANGED <<view, points>>
    <3>1. Deliver(subscribers, cached)
      BY <1>3, <2>4 DEF TimerFires, DeliverCached
    <3>2. /\ \A l \in subscribers : /\ view'[l].data = cached
                                    /\ points'[l] = AppendPoint(points[l], cached, cached)
          /\ \A l \in Listener \ subscribers : view'[l] = view[l] /\ points'[l] = points[l]
          /\ DOMAIN points' = Listener /\ points' = [l \in DOMAIN points' |-> points'[l]]
      BY <1>t, <3>1 DEF Deliver
    <3>3. \A l \in subscribers' : Shows(l)
      BY <1>t, <2>1, <3>2, SamePoint
    <3>4. \A l \in Listener \ subscribers' : Gone(l)
      BY <1>t, <2>1, <3>2
    <3> QED
      BY <1>s, <1>t, <2>1, <2>2, <3>2, <3>3, <3>4
  <2> QED
    BY <2>3, <2>4
<1>4. CASE Answers
  <2>1. answer'.ref = ~cached.ref /\ UNCHANGED <<cached, subscribers, view, points>>
    BY <1>4 DEF Answers
  <2> QED
    BY <2>1, <1>u
<1>5. CASE OnAnswer
  <2>1. /\ request = "answered" /\ request' = "none" /\ cached' = answer
        /\ UNCHANGED subscribers /\ Deliver(subscribers, answer)
    BY <1>5 DEF OnAnswer
  <2>2. Newer(answer)
    <3>1. /\ answer \in [at : Int, failures : Counts, ref : BOOLEAN]
          /\ answer.at \in Nat /\ cached.at <= answer.at
          /\ cached \in [at : Int, failures : Counts, ref : BOOLEAN]
      BY <2>1 DEF AgesInv
    <3>2. PointOf(answer) \in Point /\ answer # Null
      BY <3>1, NullAge DEF PointOf, Point
    <3>3. answer.ref # cached.ref
      BY <2>1, <3>1 DEF PointsInv
    <3> QED
      BY <3>1, <3>2, <3>3 DEF Newer
  <2>3. /\ \A l \in subscribers : /\ view'[l].data = answer
                                  /\ points'[l] = AppendPoint(points[l], cached, answer)
        /\ \A l \in Listener \ subscribers : view'[l] = view[l] /\ points'[l] = points[l]
        /\ DOMAIN points' = Listener /\ points' = [l \in DOMAIN points' |-> points'[l]]
    BY <1>t, <2>1 DEF Deliver
  <2>4. \A l \in subscribers' : Shows(l)
    BY <1>t, <2>1, <2>2, <2>3, NewPoint
  <2>5. \A l \in Listener \ subscribers' : Gone(l)
    BY <1>t, <2>1, <2>3
  <2> QED
    BY <1>s, <1>t, <2>1, <2>3, <2>4, <2>5
<1>6. CASE OnFailure
  <2>1. /\ request' = "none" /\ UNCHANGED <<cached, subscribers>> /\ DeliverError
    BY <1>6 DEF OnFailure
  <2>2. /\ \A l \in Listener \ subscribers : view'[l] = view[l] /\ points'[l] = points[l]
        /\ DOMAIN points' = Listener /\ points' = [l \in DOMAIN points' |-> points'[l]]
    BY <2>1 DEF DeliverError
  <2>3. ASSUME NEW l \in subscribers PROVE Shows(l)
    <3>1. CASE cached = Null
      <4>1. view'[l] = [view[l] EXCEPT !.error = TRUE] /\ points'[l] = points[l]
        BY <1>t, <2>1, <3>1 DEF DeliverError
      <4>2. view'[l].data = view[l].data
        BY <1>t, <4>1 DEF View
      <4> QED
        BY <1>t, <2>1, <4>1, <4>2
    <3>2. CASE cached # Null
      <4>1. /\ view'[l].data = cached
            /\ points'[l] = AppendPoint(points[l], view[l].data, cached)
        BY <1>t, <2>1, <3>2 DEF DeliverError
      <4> QED
        BY <1>t, <2>1, <4>1, SamePoint
    <3> QED
      BY <3>1, <3>2
  <2> QED
    BY <1>s, <1>t, <2>1, <2>2, <2>3
<1>7. CASE Fails
  BY <1>7, <1>u DEF Fails
<1>8. ASSUME NEW u \in Unit, ServiceFails(u) \/ ServiceStarts(u) PROVE PointsInv'
  BY <1>8, <1>u DEF ServiceFails, ServiceStarts, poller, PointsInv
<1>9. ASSUME NEW ms \in Saved, ChooseInterval(ms) PROVE PointsInv'
  BY <1>9, <1>u DEF ChooseInterval, poller, PointsInv
<1>10. CASE ToggleHidden \/ UNCHANGED vars
  BY <1>10, <1>u DEF ToggleHidden, vars, poller, PointsInv
<1> QED
  BY <1>1, <1>2, <1>3, <1>4, <1>5, <1>6, <1>7, <1>8, <1>9, <1>10 DEF Next

(* A sparkline shows answers in the order they were made, none of them     *)
(* twice although the cached one is delivered at each tick, and ends with  *)
(* the overview on the page: the effect of useSparkline.                   *)
THEOREM SparklinesFaithful == Spec => []PointsFaithful
<1> QED
  BY AgesInit, AgesStep, PointsInit, PointsStep, PointsHold, PTL DEF Spec
-----------------------------------------------------------------------------
(* The types.                                                              *)
Points == Seq([at : 0 .. MaxAt, ref : BOOLEAN])
Views  == [data : Answer \cup {Null}, error : BOOLEAN, isStale : BOOLEAN]

(* A unit has failed at most as often as the daemon has changed, so that   *)
(* the bound of the versions bounds the counts; what has been answered is  *)
(* an overview, never the Null before the first one.                       *)
KindInv ==
  /\ TypeOK
  /\ \A u \in Unit : server.failures[u] <= server.at
  /\ request = "answered" => answer \in Answer

LEMMA AppendTyped ==
  ASSUME NEW s \in Points, NEW old, NEW a \in Answer
  PROVE  AppendPoint(s, old, a) \in Points
<1>1. Append(s, [at |-> a.at, ref |-> a.ref]) \in Points \ {<<>>}
  BY DEF Points, Answer
<1>2. \A q \in Points \ {<<>>} : Tail(q) \in Points
  BY DEF Points
<1> QED
  BY <1>1, <1>2 DEF AppendPoint, Longer

LEMMA DeliveryTyped ==
  ASSUME TypeOK, NEW ls, NEW a \in Answer, Deliver(ls, a)
  PROVE  view' \in [Listener -> Views] /\ points' \in [Listener -> Points]
<1>1. view \in [Listener -> Views] /\ points \in [Listener -> Points]
  BY DEF TypeOK, Views, Points
<1>2. [data |-> a, error |-> FALSE, isStale |-> FALSE] \in Views
  BY DEF Views
<1>3. view' \in [Listener -> Views]
  BY <1>1, <1>2 DEF Deliver
<1>4. points' \in [Listener -> Points]
  BY <1>1, AppendTyped DEF Deliver
<1> QED
  BY <1>3, <1>4

LEMMA CachedTyped ==
  ASSUME TypeOK, NEW ls, DeliverCached(ls)
  PROVE  view' \in [Listener -> Views] /\ points' \in [Listener -> Points]
<1>1. CASE cached = Null
  BY <1>1 DEF DeliverCached, TypeOK, Views, Points
<1>2. CASE cached # Null
  BY <1>2, DeliveryTyped DEF DeliverCached, TypeOK
<1> QED
  BY <1>1, <1>2

LEMMA ErrorTyped ==
  ASSUME TypeOK, DeliverError
  PROVE  view' \in [Listener -> Views] /\ points' \in [Listener -> Points]
<1>1. view \in [Listener -> Views] /\ points \in [Listener -> Points]
      /\ cached \in Answer \cup {Null}
  BY DEF TypeOK, Views, Points
<1>2. ASSUME NEW l \in Listener PROVE [view[l] EXCEPT !.error = TRUE] \in Views
  BY <1>1 DEF Views
<1>3. [data |-> cached, error |-> TRUE, isStale |-> TRUE] \in Views
  BY <1>1 DEF Views
<1>4. view' \in [Listener -> Views]
  BY <1>1, <1>2, <1>3 DEF DeliverError
<1>5. ASSUME NEW l \in Listener, cached # Null
      PROVE  AppendPoint(points[l], view[l].data, cached) \in Points
  BY <1>1, <1>5, AppendTyped
<1>6. points' \in [Listener -> Points]
  BY <1>1, <1>5 DEF DeliverError
<1> QED
  BY <1>4, <1>6

(* What the loop does to its timer and its request.                        *)
LEMMA LoopTyped ==
  ASSUME TypeOK
  PROVE  /\ Fetch => fetching' \in BOOLEAN /\ wait' \in Int
                     /\ request' \in {request, "sent"}
         /\ \A d \in Int : Reschedule(d) =>
              /\ timeoutId' \in {"null", "armed", "fired"}
              /\ loose' \in Nat /\ wait' \in Int
<1>1. ResolvedInterval \in Int
  BY DEF TypeOK, ResolvedInterval, getPollInterval, ClampMs, Shortest, Longest
<1>2. Fetch => fetching' \in BOOLEAN /\ wait' \in Int /\ request' \in {request, "sent"}
  BY <1>1 DEF TypeOK, Fetch
<1>3. \A d \in Int : Reschedule(d) => /\ timeoutId' \in {"null", "armed", "fired"}
                                      /\ loose' \in Nat /\ wait' \in Int
  BY DEF TypeOK, Reschedule, SetTimeout
<1> QED
  BY <1>2, <1>3

LEMMA KindInit == Init => KindInv
<1> SUFFICES ASSUME Init PROVE KindInv
  OBVIOUS
<1>1. 0 \in 0 .. MaxAt /\ Saved \subseteq Int
  BY PollerAssumption
<1>2. server \in Overview /\ \A u \in Unit : server.failures[u] <= server.at
  BY <1>1 DEF Init, Overview
<1>3. Mounted \in [data : Answer \cup {Null}, error : BOOLEAN, isStale : BOOLEAN]
  BY DEF Mounted
<1>4. view \in [Listener -> [data : Answer \cup {Null}, error : BOOLEAN,
                             isStale : BOOLEAN]]
  BY <1>3 DEF Init
<1>5. points \in [Listener -> Seq([at : 0 .. MaxAt, ref : BOOLEAN])]
  BY DEF Init
<1>6. told \in [Unit -> 0 .. MaxAt] /\ interval \in Int /\ wait \in Int
  BY <1>1 DEF Init
<1> QED
  BY <1>2, <1>4, <1>5, <1>6 DEF Init, KindInv, TypeOK

LEMMA KindStep == KindInv /\ [Next]_vars => KindInv'
<1> SUFFICES ASSUME KindInv, [Next]_vars PROVE KindInv'
  OBVIOUS
<1>t. TypeOK
  BY DEF KindInv
<1>u. \A u \in Unit : server.failures[u] <= server.at
  BY DEF KindInv
<1>a. request = "answered" => answer \in Answer
  BY DEF KindInv
<1>s. Saved \subseteq Int /\ MaxAt \in Nat
  BY PollerAssumption
<1>p. ASSUME view' \in [Listener -> Views], points' \in [Listener -> Points]
      PROVE  /\ view' \in [Listener -> [data : Answer \cup {Null}, error : BOOLEAN,
                                        isStale : BOOLEAN]]
             /\ points' \in [Listener -> Seq([at : 0 .. MaxAt, ref : BOOLEAN])]
  BY <1>p DEF Views, Points
<1>1. ASSUME NEW l \in Listener, Subscribe(l) PROVE KindInv'
  <2>1. view' \in [Listener -> Views] /\ points' \in [Listener -> Points]
    BY <1>t, <1>1, CachedTyped DEF Subscribe
  <2>2. fetching' \in BOOLEAN /\ wait' \in Int /\ request' \in {request, "sent"}
    BY <1>t, <1>1, LoopTyped DEF Subscribe, TypeOK
  <2>3. /\ subscribers' \subseteq Listener
        /\ UNCHANGED <<server, answer, cached, timeoutId, loose, interval, hidden, told>>
    BY <1>t, <1>1 DEF Subscribe, TypeOK
  <2> QED
    BY <1>t, <1>u, <1>a, <1>p, <2>1, <2>2, <2>3 DEF KindInv, TypeOK
<1>2. ASSUME NEW l \in Listener, Unsubscribe(l) PROVE KindInv'
  <2>1. /\ subscribers' \subseteq Listener /\ timeoutId' \in {"null", "armed", "fired"}
        /\ UNCHANGED <<server, request, answer, cached, fetching, loose, interval,
                       hidden, wait, told>>
    BY <1>t, <1>2 DEF Unsubscribe, Stop, TypeOK
  <2>2. Mounted \in Views
    BY DEF Mounted, Views
  <2>3. view' \in [Listener -> Views]
    BY <1>t, <1>2, <2>2 DEF Unsubscribe, TypeOK, Views
  <2>4. points' \in [Listener -> Points]
    <3>1. <<>> \in Points
      BY DEF Points
    <3> QED
      BY <1>t, <1>2, <3>1 DEF Unsubscribe, TypeOK, Points
  <2> QED
    BY <1>t, <1>u, <1>a, <1>p, <2>1, <2>3, <2>4 DEF KindInv, TypeOK
<1>3. CASE TimerFires
  <2>1. view' \in [Listener -> Views] /\ points' \in [Listener -> Points]
    <3>1. CASE subscribers = {}
      BY <1>t, <1>3, <3>1 DEF TimerFires, TypeOK, Views, Points
    <3>2. CASE subscribers # {}
      BY <1>t, <1>3, <3>2, CachedTyped DEF TimerFires
    <3> QED
      BY <3>1, <3>2
  <2>2. fetching' \in BOOLEAN /\ wait' \in Int /\ request' \in {request, "sent"}
    BY <1>t, <1>3, LoopTyped DEF TimerFires, TypeOK
  <2>3. timeoutId' \in {"null", "armed", "fired"} /\ loose' \in Nat
    BY <1>t, <1>3 DEF TimerFires, TypeOK
  <2>4. UNCHANGED <<server, answer, subscribers, cached, interval, hidden, told>>
    BY <1>3 DEF TimerFires
  <2> QED
    BY <1>t, <1>u, <1>a, <1>p, <2>1, <2>2, <2>3, <2>4 DEF KindInv, TypeOK
<1>4. CASE Answers
  <2>1. answer' \in Answer
    <3>1. server.at \in 0 .. MaxAt /\ server.failures \in [Unit -> 0 .. MaxAt]
      BY <1>t DEF TypeOK, Overview
    <3>2. answer' = [at |-> server.at, failures |-> server.failures, ref |-> ~cached.ref]
      BY <1>4 DEF Answers
    <3> QED
      BY <3>1, <3>2 DEF Answer
  <2>2. /\ request' = "answered"
        /\ UNCHANGED <<server, subscribers, cached, fetching, timeoutId, loose,
                       interval, hidden, wait, view, points, told>>
    BY <1>4 DEF Answers
  <2> QED
    BY <1>t, <1>u, <2>1, <2>2 DEF KindInv, TypeOK
<1>5. CASE Fails
  BY <1>t, <1>u, <1>5 DEF Fails, KindInv, TypeOK
<1>6. CASE OnAnswer
  <2>1. answer \in Answer /\ request' = "none" /\ answer' = Null /\ cached' = answer
        /\ fetching' = FALSE
    BY <1>a, <1>6 DEF OnAnswer
  <2>2. view' \in [Listener -> Views] /\ points' \in [Listener -> Points]
    BY <1>t, <1>6, <2>1, DeliveryTyped DEF OnAnswer
  <2>3. /\ timeoutId' \in {"null", "armed", "fired"}
        /\ loose' \in Nat /\ wait' \in Int
    BY <1>t, <1>6, LoopTyped DEF OnAnswer, TypeOK
  <2>4. told' \in [Unit -> 0 .. MaxAt]
    BY <1>t, <1>6, <2>1 DEF OnAnswer, ToldAfter, TypeOK, Answer
  <2>5. UNCHANGED <<server, subscribers, interval, hidden>>
    BY <1>6 DEF OnAnswer
  <2> QED
    BY <1>t, <1>u, <1>p, <2>1, <2>2, <2>3, <2>4, <2>5 DEF KindInv, TypeOK
<1>7. CASE OnFailure
  <2>1. view' \in [Listener -> Views] /\ points' \in [Listener -> Points]
    BY <1>t, <1>7, ErrorTyped DEF OnFailure
  <2>2. /\ timeoutId' \in {"null", "armed", "fired"}
        /\ loose' \in Nat /\ wait' \in Int
    <3> DEFINE d == IF wait < Shortest THEN wait ELSE Shortest
    <3>1. d \in Int /\ Reschedule(d)
      BY <1>t, <1>7 DEF OnFailure, TypeOK, Shortest
    <3> QED
      BY <1>t, <3>1, LoopTyped
  <2>3. /\ fetching' = FALSE /\ request' = "none"
        /\ UNCHANGED <<server, answer, subscribers, cached, interval, hidden, told>>
    BY <1>7 DEF OnFailure
  <2> QED
    BY <1>t, <1>u, <1>p, <2>1, <2>2, <2>3 DEF KindInv, TypeOK
<1>8. ASSUME NEW u \in Unit, ServiceFails(u) \/ ServiceStarts(u) PROVE KindInv'
  <2>1. server.at \in 0 .. MaxAt /\ server.failures \in [Unit -> 0 .. MaxAt]
        /\ server = [at |-> server.at, failures |-> server.failures]
    BY <1>t DEF TypeOK, Overview
  <2>2. PICK n \in Nat : /\ server' = [server EXCEPT !.at = @ + 1, !.failures[u] = n]
                         /\ n <= server.at + 1
    <3>1. server.failures[u] + 1 \in Nat /\ server.failures[u] + 1 <= server.at + 1
          /\ 0 <= server.at + 1
      BY <1>u, <2>1
    <3>2. CASE ServiceFails(u)
      BY <3>1, <3>2 DEF ServiceFails
    <3>3. CASE ServiceStarts(u)
      BY <3>1, <3>3 DEF ServiceStarts
    <3> QED
      BY <1>8, <3>2, <3>3
  <2>3. server.at < MaxAt
    BY <1>8 DEF ServiceFails, ServiceStarts
  <2>4. server' = [at |-> server.at + 1,
                   failures |-> [server.failures EXCEPT ![u] = n]]
    BY <2>1, <2>2
  <2> DEFINE f == [server.failures EXCEPT ![u] = n]
  <2>5. f \in [Unit -> 0 .. MaxAt] /\ \A v \in Unit : f[v] <= server.at + 1
    BY <1>s, <1>u, <2>1, <2>2, <2>3
  <2> HIDE DEF f
  <2>6. server' \in Overview /\ \A v \in Unit : server'.failures[v] <= server'.at
    BY <1>s, <2>1, <2>3, <2>4, <2>5 DEF Overview, f
  <2>7. UNCHANGED <<poller, interval, hidden, view, points, told>>
    BY <1>8 DEF ServiceFails, ServiceStarts
  <2> QED
    BY <1>t, <1>a, <2>6, <2>7 DEF KindInv, TypeOK, poller
<1>9. ASSUME NEW ms \in Saved, ChooseInterval(ms) PROVE KindInv'
  BY <1>s, <1>t, <1>u, <1>a, <1>9 DEF ChooseInterval, poller, KindInv, TypeOK
<1>10. CASE ToggleHidden
  BY <1>t, <1>u, <1>a, <1>10 DEF ToggleHidden, poller, KindInv, TypeOK
<1>11. CASE UNCHANGED vars
  BY <1>t, <1>u, <1>a, <1>11 DEF vars, poller, KindInv, TypeOK
<1> QED
  BY <1>1, <1>2, <1>3, <1>4, <1>5, <1>6, <1>7, <1>8, <1>9, <1>10, <1>11 DEF Next

(* The poller keeps its types: what a component shows or plots is Null or  *)
(* an answer of the daemon, though answers, errors and mounts interleave.  *)
THEOREM TypeCorrect == Spec => []TypeOK
<1>1. KindInv => TypeOK
  BY DEF KindInv
<1> QED
  BY <1>1, KindInit, KindStep, PTL DEF Spec
=============================================================================
