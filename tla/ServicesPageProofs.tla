------------------------- MODULE ServicesPageProofs -------------------------
(***************************************************************************)
(* The services page: its types, the stream of the pull dialog and the     *)
(* restarts that follow it, and the values its switches show, for any      *)
(* services and any number of requests and states of the daemon.           *)
(***************************************************************************)
EXTENDS ServicesPage, FiniteSetTheorems, SequenceTheorems, TLAPS

Pulls == [open : BOOLEAN, unit : Unit \cup {None}, autoRestart : BOOLEAN]

Streams == [unit : Unit \cup {None},
            phase : {"none", "pulling", "pulled", "failed", "closed"}]

(* Each restart of the dialog is one of the requests that were sent.       *)
TypeInv == TypeOK /\ restarts <= ops

-----------------------------------------------------------------------------
(* What the parts of an action do.                                         *)

LEMMA AppendState ==
  ASSUME TypeOK, At < MaxAt, NEW s \in [Unit -> Service], daemon' = Append(daemon, s)
  PROVE  /\ daemon' \in Seq([Unit -> Service]) /\ At' = At + 1 /\ At' \in 1 .. MaxAt
         /\ \A v \in 1 .. At : daemon'[v] = daemon[v]
         /\ daemon'[At + 1] = s
<1>1. daemon \in Seq([Unit -> Service]) /\ At \in 1 .. MaxAt
  BY DEF TypeOK
<1>2. /\ daemon' \in Seq([Unit -> Service])
      /\ Len(daemon') = Len(daemon) + 1
      /\ \A i \in 1 .. Len(daemon) : daemon'[i] = daemon[i]
      /\ daemon'[Len(daemon) + 1] = s
  BY <1>1, AppendProperties
<1> QED
  BY <1>1, <1>2, PageAssumption DEF At

LEMMA SendAdds ==
  ASSUME TypeOK, NEW op \in Ops, NEW u \in Unit \cup {None}, NEW x \in BOOLEAN,
         Send(op, u, x)
  PROVE  /\ requests' = requests \cup {Sent(op, u, x)} /\ requests' \subseteq Request
         /\ ops' = ops + 1 /\ ops' \in 0 .. MaxOps
<1>1. ops \in 0 .. MaxOps /\ ops < MaxOps /\ MaxOps \in Nat /\ requests \subseteq Request
  BY PageAssumption DEF TypeOK, Send
<1>2. Sent(op, u, x) \in Request
  BY <1>1 DEF Sent, Request
<1> QED
  BY <1>1, <1>2 DEF Send

LEMMA SettlesKeeps ==
  ASSUME TypeOK, NEW r \in requests, NEW phase \in {"sent", "ok", "failed"},
         Settles(r, phase)
  PROVE  requests' \subseteq Request
BY DEF TypeOK, Settles, Request

LEMMA RendersStream ==
  ASSUME pull' \in Pulls, Renders
  PROVE  stream' \in Streams /\ StreamOfDialog'
BY DEF Pulls, Streams, Renders, NoStream, StreamOfDialog, Shown

LEMMA StateAt ==
  ASSUME TypeOK, NEW v \in 1 .. At
  PROVE  daemon[v] \in [Unit -> Service]
BY DEF TypeOK, At

LEMMA SwitchType ==
  ASSUME NEW f \in [Unit -> Service], NEW u, NEW x \in BOOLEAN
  PROVE  [f EXCEPT ![u].enabled = x] \in [Unit -> Service]
<1>1. \A w \in Unit : [f[w] EXCEPT !.enabled = x] \in Service
  BY DEF Service
<1> QED
  BY <1>1

LEMMA OutcomesType ==
  ASSUME TypeOK, NEW r \in requests, NEW next \in Outcomes(r)
  PROVE  next \in [Unit -> Service]
<1>1. daemon[At] \in [Unit -> Service] /\ r \in Request
  BY StateAt DEF TypeOK
<1>2. \A u \in Unit, x \in BOOLEAN :
        /\ [daemon[At][u] EXCEPT !.active = x] \in Service
        /\ [daemon[At][u] EXCEPT !.enabled = x] \in Service
  BY <1>1 DEF Service
<1> DEFINE All(units, x) ==
             [u \in Unit |-> IF u \in units THEN [daemon[At][u] EXCEPT !.active = x]
                             ELSE daemon[At][u]]
<1>3. ASSUME NEW units, NEW x \in BOOLEAN
      PROVE  All(units, x) \in [Unit -> Service]
  BY <1>1, <1>2
<1>4. [daemon[At] EXCEPT ![r.unit].enabled = r.value] \in [Unit -> Service]
  BY <1>1, <1>2 DEF Request
<1>5. CASE r.op \in {"start", "restart"}
  <2>1. next = All({r.unit}, TRUE)
    BY <1>5 DEF Outcomes
  <2> QED
    BY <2>1, <1>3
<1>6. CASE r.op \in {"stop", "stopFirst"}
  <2>1. next = All({r.unit}, FALSE)
    BY <1>6 DEF Outcomes
  <2> QED
    BY <2>1, <1>3
<1>7. CASE r.op \in {"toggle", "disable"}
  BY <1>4, <1>7 DEF Outcomes
<1>8. CASE r.op = "save"
  BY <1>1, <1>8 DEF Outcomes
<1>9. CASE r.op = "startAll"
  <2>1. PICK units \in SUBSET Unit : next = All(units, TRUE)
    BY <1>9 DEF Outcomes
  <2> QED
    BY <2>1, <1>3
<1>10. CASE r.op = "stopAll"
  <2>1. PICK units \in SUBSET Unit : next = All(units, FALSE)
    BY <1>10 DEF Outcomes
  <2> QED
    BY <2>1, <1>3
<1> QED
  BY <1>1, <1>5, <1>6, <1>7, <1>8, <1>9, <1>10 DEF Request, Ops

-----------------------------------------------------------------------------
(* The types.                                                              *)

(* TypeOK but for the state of the daemon.                                 *)
PageType ==
  /\ services = None \/ services \in [Unit -> Service]
  /\ late \subseteq 1 .. At
  /\ requests \subseteq Request /\ ops \in 0 .. MaxOps
  /\ confirm \in Unit \cup {None} /\ confirmBulk \in BOOLEAN
  /\ bulk \in {"none", "start", "stop"}
  /\ drawer \in Unit \cup {None}
  /\ pull \in Pulls /\ stream \in Streams
  /\ restarts \in 0 .. ops
  /\ data \in 0 .. At /\ error \in BOOLEAN

LEMMA TypeInvIs ==
  TypeInv <=> /\ daemon \in Seq([Unit -> Service]) /\ At \in 1 .. MaxAt
              /\ PageType
BY PageAssumption DEF TypeInv, TypeOK, PageType, Pulls, Streams

LEMMA TypeInit == Init => TypeInv
<1> SUFFICES ASSUME Init PROVE TypeInv
  OBVIOUS
<1>1. PICK s \in Loaded : daemon = <<s>>
  BY DEF Init
<1>2. s \in [Unit -> Service]
  BY <1>1, PageAssumption DEF Service
<1>3. daemon \in Seq([Unit -> Service]) /\ At = 1 /\ At \in 1 .. MaxAt
  BY <1>1, <1>2, PageAssumption DEF At
<1>4. pull \in Pulls /\ stream \in Streams
  BY DEF Init, Pulls, Streams, Closed, NoStream
<1>5. ops \in 0 .. MaxOps /\ restarts \in 0 .. ops /\ data \in 0 .. At
  BY <1>3, PageAssumption DEF Init
<1>6. PageType
  BY <1>4, <1>5 DEF Init, PageType
<1> QED
  BY <1>3, <1>6, TypeInvIs

LEMMA TypeStep == TypeInv /\ [Next]_vars => TypeInv'
<1> SUFFICES ASSUME TypeInv, [Next]_vars PROVE TypeInv'
  OBVIOUS
<1>t. TypeOK /\ PageType /\ daemon \in Seq([Unit -> Service]) /\ At \in 1 .. MaxAt /\ MaxOps \in Nat
  BY TypeInvIs, PageAssumption DEF TypeInv
<1>s. SUFFICES \/ daemon' = daemon /\ PageType'
               \/ /\ daemon' \in Seq([Unit -> Service]) /\ At' \in 1 .. MaxAt
                  /\ PageType'
  BY <1>t, TypeInvIs DEF TypeInv, TypeOK, PageType, At, Pulls, Streams
<1>a. daemon' = daemon => At' = At
  BY DEF At
<1>1. ASSUME NEW v \in 1 .. At, FeedFresh(v) PROVE PageType'
  <2>1. daemon[v] \in [Unit -> Service]
    BY <1>t, StateAt
  <2>2. stream' \in Streams
    BY <1>1, <1>t, RendersStream DEF FeedFresh, PageType
  <2> QED
    <3>1. At' = At /\ data' \in 0 .. At' /\ error' = FALSE
      BY <1>1, <1>t, <1>a DEF FeedFresh
    <3>2. services' \in [Unit -> Service]
      BY <1>1, <2>1 DEF FeedFresh, TakeOverview
    <3>3. UNCHANGED <<late, requests, ops, dialogs, bulk, pull, restarts>>
      BY <1>1 DEF FeedFresh
    <3> QED
      BY <1>t, <2>2, <3>1, <3>2, <3>3 DEF PageType, dialogs
<1>2. CASE FeedCached
  <2>1. stream' \in Streams
    BY <1>2, <1>t, RendersStream DEF FeedCached, PageType
  <2> QED
    BY <1>2, <1>t, <1>a, <2>1 DEF FeedCached, PageType, dialogs
<1>3. CASE FeedFails
  <2>1. stream' \in Streams
    BY <1>3, <1>t, RendersStream DEF FeedFails, PageType
  <2> QED
    BY <1>3, <1>t, <1>a, <2>1 DEF FeedFails, PageType
<1>4. ASSUME NEW s \in late, Refetched(s) PROVE PageType'
  <2>1. s \in 1 .. At /\ \A v \in s .. At : daemon[v] \in [Unit -> Service]
    BY <1>t, StateAt DEF PageType
  <2>2. stream' \in Streams
    BY <1>4, <1>t, RendersStream DEF Refetched, PageType
  <2>3. services' = None \/ services' \in [Unit -> Service]
    BY <1>4, <1>t, <2>1 DEF Refetched, PageType
  <2> QED
    BY <1>4, <1>t, <1>a, <2>2, <2>3 DEF Refetched, PageType, feed
<1>5. ASSUME NEW r \in requests, Handles(r)
      PROVE  \/ daemon' = daemon /\ PageType'
             \/ /\ daemon' \in Seq([Unit -> Service]) /\ At' \in 1 .. MaxAt
                /\ PageType'
  <2>1. requests' \subseteq Request
    BY <1>5, <1>t, SettlesKeeps DEF Handles
  <2>2. CASE daemon' = daemon
    BY <1>5, <1>t, <1>a, <2>1, <2>2 DEF Handles, PageType, feed, dialogs, puller
  <2>3. CASE daemon' # daemon
    <3>1. PICK next \in Outcomes(r) : At < MaxAt /\ daemon' = Append(daemon, next)
      BY <1>5, <2>3 DEF Handles
    <3>2. daemon' \in Seq([Unit -> Service]) /\ At' = At + 1 /\ At' \in 1 .. MaxAt
      BY <1>t, <3>1, OutcomesType, AppendState
    <3> QED
      BY <1>5, <1>t, <2>1, <3>2 DEF Handles, PageType, feed, dialogs, puller
  <2> QED
    BY <2>2, <2>3
<1>6. ASSUME NEW u \in Unit, DaemonChanges(u)
      PROVE  daemon' \in Seq([Unit -> Service]) /\ At' \in 1 .. MaxAt /\ PageType'
  <2>0. daemon[At] \in [Unit -> Service]
    BY <1>t, StateAt
  <2>1. [daemon[At] EXCEPT ![u].active = ~@] \in [Unit -> Service]
    BY <2>0 DEF Service
  <2>2. daemon' \in Seq([Unit -> Service]) /\ At' = At + 1 /\ At' \in 1 .. MaxAt
    BY <1>6, <1>t, <2>1, AppendState DEF DaemonChanges
  <2> QED
    BY <1>6, <1>t, <2>2 DEF DaemonChanges, PageType, feed, dialogs, puller
<1>7. ASSUME NEW r \in requests, Settled(r) PROVE PageType'
  <2>0. r \in Request /\ requests \ {r} \subseteq Request
    BY <1>t DEF PageType
  <2>1. CASE ActionSettled(r)
    <3>1. stream' \in Streams
      BY <2>1, <1>t, RendersStream DEF ActionSettled, PageType
    <3> QED
      BY <2>0, <2>1, <3>1, <1>t, <1>a DEF ActionSettled, Refetch, PageType, feed, dialogs
  <2>2. CASE ToggleSettled(r)
    <3>1. stream' \in Streams
      BY <2>2, <1>t, RendersStream DEF ToggleSettled, PageType
    <3>2. services' = None \/ services' \in [Unit -> Service]
      BY <2>0, <2>2, <1>t, SwitchType DEF ToggleSettled, Flip, PageType, Request
    <3> QED
      BY <2>0, <2>2, <3>1, <3>2, <1>t, <1>a DEF ToggleSettled, PageType, feed, dialogs
  <2>3. CASE StopFirstSettled(r)
    <3>1. stream' \in Streams
      BY <2>3, <1>t, RendersStream DEF StopFirstSettled, PageType
    <3>2. [r EXCEPT !.op = "disable", !.phase = "sent"] \in Request
      BY <2>0 DEF Request, Ops
    <3>3. requests' \subseteq Request
      BY <2>0, <2>3, <3>2 DEF StopFirstSettled
    <3> QED
      BY <2>3, <3>1, <3>3, <1>t, <1>a DEF StopFirstSettled, PageType, feed, dialogs
  <2>4. CASE DisableSettled(r)
    <3>1. stream' \in Streams
      BY <2>4, <1>t, RendersStream DEF DisableSettled, PageType
    <3>2. services' = None \/ services' \in [Unit -> Service]
      BY <2>0, <2>4, <1>t DEF DisableSettled, PageType, Service
    <3> QED
      BY <2>0, <2>4, <3>1, <3>2, <1>t, <1>a DEF DisableSettled, PageType, feed, dialogs
  <2>5. CASE SaveSettled(r)
    <3>1. stream' \in Streams
      BY <2>5, <1>t, RendersStream DEF SaveSettled, PageType
    <3> QED
      BY <2>0, <2>5, <3>1, <1>t, <1>a DEF SaveSettled, Refetch, PageType, feed
  <2>6. CASE BulkSettled(r)
    <3>1. stream' \in Streams
      BY <2>6, <1>t, RendersStream DEF BulkSettled, PageType
    <3> QED
      BY <2>0, <2>6, <3>1, <1>t, <1>a DEF BulkSettled, Refetch, PageType, feed, dialogs
  <2> QED
    BY <1>7, <2>1, <2>2, <2>3, <2>4, <2>5, <2>6 DEF Settled
<1>8. ASSUME NEW u \in Unit, TriggerUpdate(u) \/ Toggle(u) PROVE PageType'
  <2>1. CASE TriggerUpdate(u)
    <3>1. pull' \in Pulls
      BY <2>1 DEF TriggerUpdate, Pull, Pulls
    <3>2. stream' \in Streams
      BY <2>1, <3>1, RendersStream DEF TriggerUpdate
    <3> QED
      BY <2>1, <3>1, <3>2, <1>t, <1>a DEF TriggerUpdate, Pull, PageType, feed
  <2>2. CASE Toggle(u)
    <3>1. services[u].enabled \in BOOLEAN
      BY <2>2, <1>t DEF Toggle, Usable, Shown, PageType, Service
    <3>2. requests' \subseteq Request /\ ops' = ops + 1 /\ ops' \in 0 .. MaxOps
      BY <2>2, <3>1, <1>t, SendAdds DEF Toggle, Ops
    <3> QED
      BY <2>2, <3>2, <1>t, <1>a DEF Toggle, PageType, feed, puller
  <2> QED
    BY <1>8, <2>1, <2>2
<1>9. ASSUME NEW row \in Offered, NEW e \in Entries(row),
             ChooseRequest(row, e) \/ ChooseDialog(row, e)
      PROVE  PageType'
  <2>1. row.unit \in Unit
    BY DEF Offered, Items, RowOf
  <2>2. CASE ChooseRequest(row, e)
    <3>1. stream' \in Streams
      BY <2>2, <1>t, RendersStream DEF ChooseRequest, PageType
    <3>2. requests' \subseteq Request /\ ops' = ops + 1 /\ ops' \in 0 .. MaxOps
      BY <2>1, <2>2, <1>t, SendAdds DEF ChooseRequest, Ops
    <3> QED
      BY <2>2, <3>1, <3>2, <1>t, <1>a DEF ChooseRequest, PageType, feed
  <2>3. CASE ChooseDialog(row, e)
    <3>0. UNCHANGED <<pull, restarts>> \/ Pull(row.unit, FALSE)
      BY <2>3 DEF ChooseDialog
    <3>1. pull' \in Pulls /\ restarts' \in 0 .. ops
      <4>1. CASE UNCHANGED <<pull, restarts>>
        BY <4>1, <1>t DEF PageType
      <4>2. CASE Pull(row.unit, FALSE)
        BY <4>2, <2>1, <1>t DEF Pull, Pulls, PageType
      <4> QED
        BY <3>0, <4>1, <4>2
    <3>2. stream' \in Streams
      BY <2>3, <3>1, RendersStream DEF ChooseDialog
    <3>3. confirm' \in Unit \cup {None} /\ drawer' \in Unit \cup {None}
      BY <2>1, <2>3, <1>t DEF ChooseDialog, PageType
    <3>4. UNCHANGED <<daemon, feed, services, late, requests, ops, confirmBulk, bulk>>
      BY <2>3 DEF ChooseDialog
    <3> QED
      BY <3>1, <3>2, <3>3, <3>4, <1>t, <1>a DEF PageType, feed
  <2> QED
    BY <1>9, <2>2, <2>3
<1>10. CASE ConfirmStop
  <2>1. stream' \in Streams
    BY <1>10, <1>t, RendersStream DEF ConfirmStop, PageType
  <2>2. requests' \subseteq Request /\ ops' = ops + 1 /\ ops' \in 0 .. MaxOps
    BY <1>10, <1>t, SendAdds DEF ConfirmStop, PageType, Ops
  <2> QED
    BY <1>10, <2>1, <2>2, <1>t, <1>a DEF ConfirmStop, PageType, feed
<1>11. CASE StartAll
  <2>1. stream' \in Streams
    BY <1>11, <1>t, RendersStream DEF StartAll, PageType
  <2>2. requests' \subseteq Request /\ ops' = ops + 1 /\ ops' \in 0 .. MaxOps
    BY <1>11, <1>t, SendAdds DEF StartAll, Ops
  <2> QED
    BY <1>11, <2>1, <2>2, <1>t, <1>a DEF StartAll, PageType, feed
<1>19. CASE ConfirmStopAll
  <2>1. stream' \in Streams
    BY <1>19, <1>t, RendersStream DEF ConfirmStopAll, PageType
  <2>2. requests' \subseteq Request /\ ops' = ops + 1 /\ ops' \in 0 .. MaxOps
    BY <1>19, <1>t, SendAdds DEF ConfirmStopAll, Ops
  <2> QED
    <3>1. bulk' \in {"none", "start", "stop"} /\ confirmBulk' \in BOOLEAN
      BY <1>19 DEF ConfirmStopAll
    <3>2. UNCHANGED <<daemon, feed, services, late, confirm, drawer, pull, restarts>>
      BY <1>19 DEF ConfirmStopAll
    <3> QED
      BY <2>1, <2>2, <3>1, <3>2, <1>t, <1>a DEF PageType, feed
<1>12. CASE RequestStopAll
  <2>1. stream' \in Streams
    BY <1>12, <1>t, RendersStream DEF RequestStopAll, PageType
  <2> QED
    BY <1>12, <2>1, <1>t, <1>a DEF RequestStopAll, PageType, feed
<1>13. CASE Save
  <2>1. requests' \subseteq Request /\ ops' = ops + 1 /\ ops' \in 0 .. MaxOps
    BY <1>13, <1>t, SendAdds DEF Save, PageType, Ops
  <2> QED
    BY <1>13, <2>1, <1>t, <1>a DEF Save, PageType, feed, dialogs, puller
<1>14. CASE Dismiss
  <2>1. stream' \in Streams
    BY <1>14, <1>t, RendersStream DEF Dismiss, PageType
  <2> QED
    BY <1>14, <2>1, <1>t, <1>a DEF Dismiss, PageType, feed
<1>15. CASE ClosePull
  <2>1. pull' \in Pulls
    BY <1>15, <1>t DEF ClosePull, PageType, Pulls
  <2>2. stream' \in Streams
    BY <1>15, <2>1, RendersStream DEF ClosePull
  <2> QED
    BY <1>15, <2>1, <2>2, <1>t, <1>a DEF ClosePull, PageType, feed, dialogs
<1>16. CASE PullEnds
  <2>1. stream' \in Streams
    BY <1>16, <1>t DEF PullEnds, PageType, Streams
  <2> QED
    BY <1>16, <2>1, <1>t, <1>a DEF PullEnds, PageType, feed, dialogs
<1>17. CASE StreamEnds
  <2>1. CASE RestartAfter
    <3>1. stream' \in Streams
      BY <1>17, <2>1, <1>t, RendersStream DEF StreamEnds, PageType
    <3>2. requests' \subseteq Request /\ ops' = ops + 1 /\ ops' \in 0 .. MaxOps
      BY <1>17, <2>1, <1>t, SendAdds DEF StreamEnds, PageType, Pulls, Ops
    <3> QED
      BY <1>17, <2>1, <3>1, <3>2, <1>t, <1>a DEF StreamEnds, PageType, feed, dialogs
  <2>2. CASE ~RestartAfter
    <3>1. stream' \in Streams
      BY <1>17, <2>2, <1>t DEF StreamEnds, PageType, Streams
    <3> QED
      BY <1>17, <2>2, <3>1, <1>t, <1>a DEF StreamEnds, PageType, feed, dialogs
  <2> QED
    BY <2>1, <2>2
<1>18. CASE UNCHANGED vars
  BY <1>18, <1>t, <1>a DEF vars, PageType, feed, dialogs, puller
<1>d. \/ \E r \in requests : Handles(r)
      \/ \E u \in Unit : DaemonChanges(u)
      \/ daemon' = daemon
  BY DEF Next, User, Settled, FeedFresh, FeedCached, FeedFails, Refetched,
         ActionSettled, ToggleSettled, StopFirstSettled, DisableSettled, SaveSettled,
         BulkSettled, TriggerUpdate, Toggle, ChooseRequest, ChooseDialog, ConfirmStop,
         StartAll, RequestStopAll, ConfirmStopAll, Save, Dismiss, ClosePull, PullEnds,
         StreamEnds, vars
<1> QED
  BY <1>1, <1>2, <1>3, <1>4, <1>5, <1>6, <1>7, <1>8, <1>9, <1>10, <1>11, <1>12, <1>13,
     <1>14, <1>15, <1>16, <1>17, <1>18, <1>19, <1>d DEF Next, User

(* The variables of the page keep their types; among the rest, each row    *)
(* keeps both its fields whatever updates are made to the list.            *)
THEOREM TypeCorrect == Spec => []TypeOK
<1>1. TypeInv => TypeOK
  BY DEF TypeInv
<1> QED
  BY TypeInit, TypeStep, <1>1, PTL DEF Spec

-----------------------------------------------------------------------------
(* The stream of the pull dialog.                                          *)

LEMMA StreamStep == TypeInv /\ StreamOfDialog /\ [Next]_vars => StreamOfDialog'
<1> SUFFICES ASSUME TypeInv, StreamOfDialog, [Next]_vars PROVE StreamOfDialog'
  OBVIOUS
<1>p. pull' \in Pulls /\ stream \in Streams
  BY TypeStep, TypeInvIs DEF PageType, TypeInv, TypeOK, Pulls, Streams
<1>r. Renders => StreamOfDialog'
  BY <1>p, RendersStream
<1>u. UNCHANGED <<services, pull, stream>> => StreamOfDialog'
  BY DEF StreamOfDialog, Shown
<1>1. CASE \E v \in 1 .. At : FeedFresh(v)
  BY <1>1, <1>r DEF FeedFresh
<1>2. CASE FeedCached \/ FeedFails
  BY <1>2, <1>r DEF FeedCached, FeedFails
<1>3. CASE \E s \in late : Refetched(s)
  BY <1>3, <1>r, <1>u DEF Refetched
<1>4. CASE \E r \in requests : Handles(r)
  BY <1>4, <1>u DEF Handles, puller
<1>5. ASSUME NEW r \in requests, Settled(r) PROVE StreamOfDialog'
  <2>1. Renders \/ UNCHANGED <<services, pull, stream>>
    BY <1>5 DEF Settled, ActionSettled, ToggleSettled, StopFirstSettled,
                DisableSettled, SaveSettled, BulkSettled
  <2> QED
    BY <2>1, <1>r, <1>u
<1>6. CASE \E u \in Unit : DaemonChanges(u)
  BY <1>6, <1>u DEF DaemonChanges, puller
<1>7. CASE User
  <2>1. Renders \/ UNCHANGED <<services, pull, stream>>
    BY <1>7 DEF User, TriggerUpdate, Toggle, ChooseRequest, ChooseDialog, ConfirmStop,
                StartAll, RequestStopAll, ConfirmStopAll, Save, Dismiss, ClosePull, puller
  <2> QED
    BY <2>1, <1>r, <1>u
<1>8. CASE PullEnds
  <2>1. stream # NoStream /\ stream'.unit = stream.unit
    BY <1>8, <1>p DEF PullEnds, NoStream, Streams
  <2> QED
    BY <1>8, <2>1 DEF PullEnds, StreamOfDialog, Shown
<1>9. CASE StreamEnds
  <2>1. CASE RestartAfter
    BY <1>9, <2>1, <1>r DEF StreamEnds
  <2>2. CASE ~RestartAfter
    <3>1. stream # NoStream /\ stream'.unit = stream.unit
      BY <1>9, <2>2, <1>p DEF StreamEnds, NoStream, Streams
    <3> QED
      BY <1>9, <3>1 DEF StreamEnds, StreamOfDialog, Shown
  <2> QED
    BY <2>1, <2>2
<1>10. CASE UNCHANGED vars
  BY <1>10, <1>u DEF vars, puller
<1> QED
  BY <1>1, <1>2, <1>3, <1>4, <1>5, <1>6, <1>7, <1>8, <1>9, <1>10 DEF Next

(* A stream is open only while the dialog is on the page, and pulls for    *)
(* the unit of the dialog: the cleanup of PullDialog's effect at each      *)
(* render, with a list or without.                                         *)
THEOREM StreamBelongs == Spec => []StreamOfDialog
<1>1. Init => StreamOfDialog
  BY DEF Init, StreamOfDialog
<1> QED
  BY <1>1, TypeInit, TypeStep, StreamStep, PTL DEF Spec

LEMMA RestartStep ==
  TypeInv /\ StreamOfDialog /\ [Next]_vars =>
    [restarts' > restarts =>
       stream.phase = "pulled" /\ stream.unit = pull.unit /\ pull.autoRestart]_vars
<1> SUFFICES ASSUME TypeInv, StreamOfDialog, Next, restarts' > restarts
             PROVE  stream.phase = "pulled" /\ stream.unit = pull.unit /\ pull.autoRestart
  BY DEF vars
<1>1. restarts \in Nat /\ MaxOps \in Nat
  BY PageAssumption DEF TypeInv, TypeOK
<1>2. restarts' # restarts /\ restarts' # 0
  BY <1>1
<1>3. StreamEnds
  <2>1. ~(\E v \in 1 .. At : FeedFresh(v)) /\ ~FeedCached /\ ~FeedFails
    BY <1>2 DEF FeedFresh, FeedCached, FeedFails
  <2>2. ~(\E s \in late : Refetched(s)) /\ ~(\E r \in requests : Handles(r))
    BY <1>2 DEF Refetched, Handles, puller
  <2>3. ~(\E r \in requests : Settled(r))
    BY <1>2 DEF Settled, ActionSettled, ToggleSettled, StopFirstSettled,
                DisableSettled, SaveSettled, BulkSettled
  <2>4. ~(\E u \in Unit : DaemonChanges(u)) /\ ~PullEnds
    BY <1>2 DEF DaemonChanges, PullEnds, puller
  <2>5. ~User
    BY <1>2 DEF User, TriggerUpdate, Toggle, ChooseRequest, ChooseDialog, Pull,
                ConfirmStop, StartAll, RequestStopAll, ConfirmStopAll, Save, Dismiss,
                ClosePull, puller
  <2> QED
    BY <2>1, <2>2, <2>3, <2>4, <2>5 DEF Next
<1>4. RestartAfter
  BY <1>2, <1>3 DEF StreamEnds
<1>5. stream # NoStream
  BY <1>4 DEF RestartAfter, NoStream
<1> QED
  BY <1>4, <1>5 DEF RestartAfter, StreamOfDialog

(* The dialog restarts a service only after a pull for that service ended  *)
(* with "done", and only when it was opened to do so.                      *)
THEOREM RestartsFollowPulls == Spec => RestartsPulled
<1>1. Init => StreamOfDialog
  BY DEF Init, StreamOfDialog
<1> QED
  BY <1>1, TypeInit, TypeStep, StreamStep, RestartStep, PTL DEF Spec, RestartsPulled

-----------------------------------------------------------------------------
(* The values of the switches.                                             *)

(* The service has had the value in a state of the daemon.                 *)
Had(u, x) == \E v \in 1 .. At : daemon[v][u].enabled = x

(* What the end of a request that changes a switch relies on: the request  *)
(* names a service, and one that was accepted has been carried out.        *)
Sound(r) ==
  /\ r.op \in {"toggle", "stopFirst", "disable"} => r.unit \in Unit
  /\ r.op \in {"stopFirst", "disable"} => r.value = FALSE
  /\ r.op \in {"toggle", "disable"} /\ r.phase = "ok" => Had(r.unit, r.value)

SwitchInv == SwitchWasTrue /\ \A r \in requests : Sound(r)

LEMMA DaemonGrows ==
  ASSUME TypeInv, [Next]_vars
  PROVE  \A v \in 1 .. At : v \in 1 .. At' /\ daemon'[v] = daemon[v]
<1>t. TypeOK /\ At \in Nat
  BY DEF TypeInv, TypeOK, At
<1>1. CASE daemon' = daemon
  BY <1>1 DEF At
<1>2. ASSUME NEW s \in [Unit -> Service], At < MaxAt, daemon' = Append(daemon, s)
      PROVE  \A v \in 1 .. At : v \in 1 .. At' /\ daemon'[v] = daemon[v]
  <2>1. At' = At + 1 /\ \A v \in 1 .. At : daemon'[v] = daemon[v]
    BY <1>2, <1>t, AppendState
  <2> QED
    BY <2>1, <1>t
<1>3. CASE \E r \in requests : Handles(r)
  <2>1. PICK r \in requests : Handles(r)
    BY <1>3
  <2>2. CASE daemon' # daemon
    <3>1. PICK next \in Outcomes(r) : At < MaxAt /\ daemon' = Append(daemon, next)
      BY <2>1, <2>2 DEF Handles
    <3> QED
      BY <3>1, <1>t, <1>2, OutcomesType
  <2> QED
    BY <2>2, <1>1
<1>4. CASE \E u \in Unit : DaemonChanges(u)
  <2>1. PICK u \in Unit : DaemonChanges(u)
    BY <1>4
  <2>2. daemon[At] \in [Unit -> Service]
    BY <1>t, StateAt DEF TypeOK
  <2>3. [daemon[At] EXCEPT ![u].active = ~@] \in [Unit -> Service]
    BY <2>2 DEF Service
  <2> QED
    BY <2>1, <2>3, <1>2 DEF DaemonChanges
<1>d. \/ \E r \in requests : Handles(r)
      \/ \E u \in Unit : DaemonChanges(u)
      \/ daemon' = daemon
  BY DEF Next, User, Settled, FeedFresh, FeedCached, FeedFails, Refetched,
         ActionSettled, ToggleSettled, StopFirstSettled, DisableSettled, SaveSettled,
         BulkSettled, TriggerUpdate, Toggle, ChooseRequest, ChooseDialog, ConfirmStop,
         StartAll, RequestStopAll, ConfirmStopAll, Save, Dismiss, ClosePull, PullEnds,
         StreamEnds, vars
<1> QED
  BY <1>1, <1>3, <1>4, <1>d

(* The daemon answers: what it accepted has happened.                      *)
LEMMA HandledIsSound ==
  ASSUME TypeInv, NEW r \in requests, Sound(r), Handles(r),
         \A v \in 1 .. At : v \in 1 .. At' /\ daemon'[v] = daemon[v]
  PROVE  \E phase \in {"ok", "failed"} :
           /\ requests' = (requests \ {r}) \cup {[r EXCEPT !.phase = phase]}
           /\ Sound([r EXCEPT !.phase = phase])'
<1>t. TypeOK /\ r \in Request /\ At \in 1 .. At /\ At \in Nat
  BY DEF TypeInv, TypeOK, At
<1> DEFINE q(phase) == [r EXCEPT !.phase = phase]
<1>q. \A phase \in {"ok", "failed"} :
        /\ q(phase).op = r.op /\ q(phase).unit = r.unit /\ q(phase).value = r.value
        /\ q(phase).phase = phase
  BY <1>t DEF Request
<1>1. CASE Settles(r, "failed")
  BY <1>1, <1>q DEF Sound, Settles
<1>2. ASSUME NEW next \in Outcomes(r), NEW phase \in {"ok", "failed"}, Settles(r, phase),
             \/ next = daemon[At] /\ UNCHANGED daemon
             \/ next # daemon[At] /\ At < MaxAt /\ daemon' = Append(daemon, next)
      PROVE  Sound(q(phase))'
  <2>1. \E v \in 1 .. At' : daemon'[v] = next
    <3>1. CASE next = daemon[At] /\ UNCHANGED daemon
      BY <3>1, <1>t DEF At
    <3>2. CASE At < MaxAt /\ daemon' = Append(daemon, next)
      <4>1. At' = At + 1 /\ daemon'[At + 1] = next
        BY <3>2, <1>t, OutcomesType, AppendState
      <4> QED
        BY <4>1, <1>t
    <3> QED
      BY <1>2, <3>1, <3>2
  <2>2. ASSUME r.op \in {"toggle", "disable"} PROVE Had(r.unit, r.value)'
    <3>1. next = [daemon[At] EXCEPT ![r.unit].enabled = r.value]
      BY <2>2 DEF Outcomes
    <3>2. r.unit \in Unit /\ daemon[At] \in [Unit -> Service]
      BY <2>2, <1>t, StateAt DEF Sound
    <3>3. next[r.unit].enabled = r.value
      BY <3>1, <3>2 DEF Service
    <3> QED
      BY <2>1, <3>3 DEF Had
  <2> QED
    BY <1>q, <2>2 DEF Sound
<1> QED
  BY <1>1, <1>2 DEF Handles, Settles

LEMMA SentIsSound ==
  ASSUME NEW op, NEW u, NEW x, NEW q, q = Sent(op, u, x),
         op \in {"toggle", "stopFirst"} => u \in Unit, op = "stopFirst" => x = FALSE,
         op # "disable"
  PROVE  Sound(q)'
<1>1. q.op = op /\ q.unit = u /\ q.value = x /\ q.phase = "sent"
  BY DEF Sent
<1> QED
  BY <1>1 DEF Sound

LEMMA SwitchInit == Init => SwitchInv
BY DEF Init, SwitchInv, SwitchWasTrue

(* Each new request is sound, and those that stay remain so.               *)
LEMMA RequestsStaySound ==
  ASSUME TypeInv, SwitchInv, [Next]_vars
  PROVE  \A r \in requests' : Sound(r)'
<1>t. TypeOK /\ requests \subseteq Request /\ At \in Nat
  BY DEF TypeInv, TypeOK, At
<1>g. \A v \in 1 .. At : v \in 1 .. At' /\ daemon'[v] = daemon[v]
  BY DaemonGrows
<1>k. \A r \in requests : Sound(r)'
  <2> SUFFICES ASSUME NEW r \in requests PROVE Sound(r)'
    OBVIOUS
  <2>1. Sound(r)
    BY DEF SwitchInv
  <2>2. Had(r.unit, r.value) => Had(r.unit, r.value)'
    BY <1>g DEF Had
  <2> QED
    BY <2>1, <2>2 DEF Sound
<1>1. CASE requests' \subseteq requests
  BY <1>1, <1>k
<1>2. ASSUME NEW op, NEW u, NEW x, Send(op, u, x),
             op \in {"toggle", "stopFirst"} => u \in Unit, op = "stopFirst" => x = FALSE,
             op # "disable"
      PROVE  \A r \in requests' : Sound(r)'
  <2> SUFFICES ASSUME NEW r \in requests' PROVE Sound(r)'
    OBVIOUS
  <2>1. CASE r = Sent(op, u, x)
    BY <1>2, <2>1, SentIsSound
  <2> QED
    BY <1>2, <2>1, <1>k DEF Send
<1>3. ASSUME NEW r \in requests, Handles(r) PROVE \A q \in requests' : Sound(q)'
  <2>1. Sound(r)
    BY DEF SwitchInv
  <2> QED
    BY <2>1, <1>3, <1>g, <1>k, HandledIsSound
<1>4. ASSUME NEW r \in requests, StopFirstSettled(r) PROVE \A q \in requests' : Sound(q)'
  <2> DEFINE q == [r EXCEPT !.op = "disable", !.phase = "sent"]
  <2>1. Sound(r) /\ r.op = "stopFirst" /\ r \in Request
    BY <1>4, <1>t DEF SwitchInv, StopFirstSettled
  <2>2. q.op = "disable" /\ q.unit = r.unit /\ q.value = r.value /\ q.phase = "sent"
    BY <2>1 DEF Request
  <2>3. Sound(q)'
    BY <2>1, <2>2 DEF Sound
  <2> QED
    BY <1>4, <2>3, <1>k DEF StopFirstSettled
<1>5. CASE \E r \in requests : Handles(r) \/ Settled(r)
  <2>1. PICK r \in requests : Handles(r) \/ Settled(r)
    BY <1>5
  <2>2. CASE Handles(r) \/ StopFirstSettled(r)
    BY <2>2, <1>3, <1>4
  <2>3. CASE ~(Handles(r) \/ StopFirstSettled(r))
    <3>1. requests' = requests \ {r}
      BY <2>1, <2>3 DEF Settled, ActionSettled, ToggleSettled, DisableSettled,
                        SaveSettled, BulkSettled
    <3> QED
      BY <3>1, <1>1
  <2> QED
    BY <2>2, <2>3
<1>6. CASE User
  <2>1. ASSUME NEW row \in Offered, NEW e, ChooseRequest(row, e)
        PROVE  \A r \in requests' : Sound(r)'
    <3>1. row.unit \in Unit
      BY DEF Offered, Items, RowOf
    <3> QED
      BY <2>1, <3>1, <1>2 DEF ChooseRequest
  <2>2. ASSUME NEW u \in Unit, Toggle(u) PROVE \A r \in requests' : Sound(r)'
    BY <2>2, <1>2 DEF Toggle
  <2>3. CASE ConfirmStop \/ StartAll \/ ConfirmStopAll \/ Save
    BY <2>3, <1>2 DEF ConfirmStop, StartAll, ConfirmStopAll, Save
  <2>4. CASE RequestStopAll \/ Dismiss \/ ClosePull
    BY <2>4, <1>1 DEF RequestStopAll, Dismiss, ClosePull
  <2>5. ASSUME NEW u \in Unit, TriggerUpdate(u) PROVE \A r \in requests' : Sound(r)'
    BY <2>5, <1>1 DEF TriggerUpdate
  <2>6. ASSUME NEW row \in Offered, NEW e, ChooseDialog(row, e)
        PROVE  \A r \in requests' : Sound(r)'
    BY <2>6, <1>1 DEF ChooseDialog
  <2> QED
    BY <1>6, <2>1, <2>2, <2>3, <2>4, <2>5, <2>6 DEF User
<1>7. CASE StreamEnds
  BY <1>7, <1>1, <1>2 DEF StreamEnds
<1>8. CASE UNCHANGED requests
  BY <1>8, <1>1
<1>d. \/ User \/ StreamEnds \/ UNCHANGED requests
      \/ \E r \in requests : Handles(r) \/ Settled(r)
  BY DEF Next, FeedFresh, FeedCached, FeedFails, Refetched, DaemonChanges, PullEnds, vars
<1> QED
  BY <1>5, <1>6, <1>7, <1>8, <1>d

(* A switch takes its value from an overview or from a request that was    *)
(* accepted.                                                               *)
LEMMA SwitchesStayTrue ==
  ASSUME TypeInv, SwitchInv, [Next]_vars
  PROVE  SwitchWasTrue'
<1>t. TypeOK /\ requests \subseteq Request /\ At \in Nat /\ late \subseteq 1 .. At
  BY DEF TypeInv, TypeOK, At
<1>g. \A v \in 1 .. At : v \in 1 .. At' /\ daemon'[v] = daemon[v]
  BY DaemonGrows
<1>h. ASSUME NEW u \in Unit, NEW x, Had(u, x)
      PROVE  \E v \in 1 .. At' : daemon'[v][u].enabled = x
  BY <1>h, <1>g DEF Had
<1>s. services # None =>
        services \in [Unit -> Service] /\ \A u \in Unit : Had(u, services[u].enabled)
  BY <1>t DEF TypeOK, SwitchInv, SwitchWasTrue, Had
<1>1. CASE services' = services \/ services' = None
  BY <1>1, <1>s, <1>h DEF SwitchWasTrue
<1>2. ASSUME NEW v \in 1 .. At, services' = daemon[v] PROVE SwitchWasTrue'
  BY <1>2, <1>g DEF SwitchWasTrue
<1>3. ASSUME NEW r \in requests, services # None, Had(r.unit, r.value), r.unit \in Unit,
             NEW row \in Service, row.enabled = r.value,
             services' = [services EXCEPT ![r.unit] = row]
      PROVE  SwitchWasTrue'
  <2> SUFFICES ASSUME NEW u \in Unit
               PROVE  \E v \in 1 .. At' : daemon'[v][u].enabled = services'[u].enabled
    BY DEF SwitchWasTrue
  <2>1. CASE u = r.unit
    <3>1. services'[u].enabled = r.value
      BY <1>3, <1>s, <2>1
    <3> QED
      BY <3>1, <2>1, <1>3, <1>h
  <2>2. CASE u # r.unit
    <3>1. services'[u] = services[u]
      BY <1>3, <1>s, <2>2
    <3> QED
      BY <3>1, <1>3, <1>s, <1>h
  <2> QED
    BY <2>1, <2>2
<1>4. ASSUME NEW r \in requests, ToggleSettled(r), ~(services' = services \/ services' = None)
      PROVE  SwitchWasTrue'
  <2>1. /\ services # None /\ r.op = "toggle" /\ r.phase = "ok"
        /\ services' = [services EXCEPT ![r.unit].enabled = r.value]
    BY <1>4 DEF ToggleSettled, Flip
  <2>2. r.unit \in Unit /\ Had(r.unit, r.value) /\ r.value \in BOOLEAN
    BY <2>1, <1>t DEF SwitchInv, Sound, Request
  <2> DEFINE row == [services[r.unit] EXCEPT !.enabled = r.value]
  <2>3. row \in Service /\ row.enabled = r.value
    BY <2>1, <2>2, <1>s DEF Service
  <2>4. services' = [services EXCEPT ![r.unit] = row]
    BY <2>1
  <2> HIDE DEF row
  <2> QED
    BY <2>1, <2>2, <2>3, <2>4, <1>3
<1>5. ASSUME NEW r \in requests, DisableSettled(r), ~(services' = services \/ services' = None)
      PROVE  SwitchWasTrue'
  <2> DEFINE row == [active |-> FALSE, enabled |-> FALSE]
  <2>1. /\ services # None /\ r.op = "disable" /\ r.phase = "ok"
        /\ services' = [services EXCEPT ![r.unit] = row]
    BY <1>5 DEF DisableSettled
  <2>2. r.unit \in Unit /\ Had(r.unit, r.value) /\ r.value = FALSE
    BY <2>1 DEF SwitchInv, Sound
  <2>3. row \in Service /\ row.enabled = r.value
    BY <2>2 DEF Service
  <2> HIDE DEF row
  <2> QED
    BY <2>1, <2>2, <2>3, <1>3
<1>6. CASE \E v \in 1 .. At : FeedFresh(v)
  BY <1>6, <1>2 DEF FeedFresh, TakeOverview
<1>7. CASE \E s \in late : Refetched(s)
  <2>1. PICK s \in late : Refetched(s)
    BY <1>7
  <2>2. \A v \in s .. At : v \in 1 .. At
    BY <1>t
  <2> QED
    BY <2>1, <2>2, <1>1, <1>2 DEF Refetched
<1>8. CASE \E r \in requests : Handles(r) \/ Settled(r)
  BY <1>8, <1>1, <1>4, <1>5 DEF Handles, Settled, ActionSettled, StopFirstSettled,
                                SaveSettled, BulkSettled
<1>d. \/ \E v \in 1 .. At : FeedFresh(v)
      \/ \E s \in late : Refetched(s)
      \/ \E r \in requests : Handles(r) \/ Settled(r)
      \/ services' = services \/ services' = None
  BY DEF Next, User, FeedCached, FeedFails, TriggerUpdate, Toggle, ChooseRequest,
         ChooseDialog, ConfirmStop, StartAll, RequestStopAll, ConfirmStopAll, Save,
         Dismiss, ClosePull, DaemonChanges, PullEnds, StreamEnds, vars
<1> QED
  BY <1>1, <1>6, <1>7, <1>8, <1>d

(* The AutoStart switches show nothing the daemon has refused: what they   *)
(* show has been true, although answers come in any order.                 *)
THEOREM SwitchesWereTrue == Spec => []SwitchWasTrue
<1>1. SwitchInv => SwitchWasTrue
  BY DEF SwitchInv
<1>2. TypeInv /\ SwitchInv /\ [Next]_vars => SwitchInv'
  BY RequestsStaySound, SwitchesStayTrue DEF SwitchInv
<1> QED
  BY <1>1, <1>2, TypeInit, TypeStep, SwitchInit, PTL DEF Spec

-----------------------------------------------------------------------------
(* The bulk actions.                                                       *)

IsBulk(r) == r.op \in {"startAll", "stopAll"}

(* bulkLoading names the one bulk request under way; the confirmation of a *)
(* stop of all services is only open while there is none, although its     *)
(* button is not disabled by bulkLoading.                                  *)
BulkInv ==
  /\ \/ bulk = "none" /\ \A r \in requests : ~IsBulk(r)
     \/ bulk # "none" /\ \E r \in requests : \A q \in requests : IsBulk(q) <=> q = r
  /\ confirmBulk => bulk = "none"

LEMMA OneBulkHolds == BulkInv => OneBulk
<1> SUFFICES ASSUME BulkInv PROVE OneBulk
  OBVIOUS
<1> DEFINE all == {r \in requests : r.op \in {"startAll", "stopAll"}}
<1>1. CASE bulk = "none" /\ \A r \in requests : ~IsBulk(r)
  <2>1. all = {}
    BY <1>1 DEF IsBulk
  <2> QED
    BY <1>1, <2>1, FS_EmptySet DEF OneBulk
<1>2. CASE bulk # "none" /\ \E r \in requests : \A q \in requests : IsBulk(q) <=> q = r
  <2>1. PICK r \in requests : \A q \in requests : IsBulk(q) <=> q = r
    BY <1>2
  <2>2. all = {r}
    BY <2>1 DEF IsBulk
  <2>3. Cardinality(all) = 1
    BY <2>2, FS_Singleton
  <2> QED
    BY <1>2, <2>2, <2>3 DEF OneBulk
<1> QED
  BY <1>1, <1>2 DEF BulkInv

(* What an action does to the bulk request: it sends the request of        *)
(* another button, goes on with a request that stays what it is, ends one  *)
(* that is not a bulk request, starts a bulk action or ends it.            *)
SendsOther == \E op \in Ops \ {"startAll", "stopAll"} : \E u, x : Send(op, u, x)

GoesOn ==
  \E r \in requests : \E q :
    requests' = (requests \ {r}) \cup {q} /\ (IsBulk(q) <=> IsBulk(r))

EndsOther == \E r \in requests : requests' = requests \ {r} /\ ~IsBulk(r)

BulkStarts ==
  /\ bulk = "none" /\ bulk' # "none" /\ ~confirmBulk'
  /\ \E op \in {"startAll", "stopAll"} : \E u, x : Send(op, u, x)

BulkEnds ==
  /\ bulk' = "none"
  /\ \E r \in requests : requests' = requests \ {r} /\ IsBulk(r)

LEMMA SentBulk ==
  ASSUME NEW op, NEW u, NEW x
  PROVE  IsBulk(Sent(op, u, x)) <=> op \in {"startAll", "stopAll"}
BY DEF IsBulk, Sent

LEMMA HandlesGoesOn ==
  ASSUME TypeOK, NEW r \in requests, Handles(r)
  PROVE  GoesOn
<1>1. PICK phase \in {"ok", "failed"} : Settles(r, phase)
  BY DEF Handles
<1>2. PICK q : q = [r EXCEPT !.phase = phase]
  OBVIOUS
<1>3. q.op = r.op
  BY <1>2 DEF TypeOK, Request
<1> QED
  BY <1>1, <1>2, <1>3 DEF Settles, GoesOn, IsBulk

LEMMA SettledBulk ==
  ASSUME TypeOK, NEW r \in requests, Settled(r)
  PROVE  \/ UNCHANGED <<bulk, confirmBulk>> /\ (GoesOn \/ EndsOther)
         \/ UNCHANGED confirmBulk /\ BulkEnds
<1>1. CASE ActionSettled(r) \/ ToggleSettled(r) \/ DisableSettled(r) \/ SaveSettled(r)
  BY <1>1 DEF ActionSettled, ToggleSettled, DisableSettled, SaveSettled, EndsOther,
              IsBulk, dialogs
<1>2. CASE StopFirstSettled(r)
  <2>1. UNCHANGED <<bulk, confirmBulk>> /\ ~IsBulk(r)
    BY <1>2 DEF StopFirstSettled, dialogs, IsBulk
  <2>2. PICK q : q = [r EXCEPT !.op = "disable", !.phase = "sent"]
    OBVIOUS
  <2>3. q.op = "disable"
    BY <2>2 DEF TypeOK, Request
  <2>4. requests' = (requests \ {r}) \cup {q} \/ requests' = requests \ {r}
    BY <1>2, <2>2 DEF StopFirstSettled
  <2> QED
    BY <2>1, <2>3, <2>4 DEF GoesOn, EndsOther, IsBulk
<1>3. CASE BulkSettled(r)
  BY <1>3 DEF BulkSettled, BulkEnds, IsBulk, dialogs
<1> QED
  BY <1>1, <1>2, <1>3 DEF Settled

LEMMA UserBulk ==
  ASSUME BulkInv, User
  PROVE  \/ /\ UNCHANGED bulk
            /\ UNCHANGED confirmBulk \/ ~confirmBulk' \/ bulk = "none"
            /\ UNCHANGED requests \/ SendsOther
         \/ BulkStarts
<1>1. ASSUME NEW u \in Unit, TriggerUpdate(u)
      PROVE  UNCHANGED <<bulk, confirmBulk, requests>>
  BY <1>1 DEF TriggerUpdate
<1>2. ASSUME NEW u \in Unit, Toggle(u)
      PROVE  UNCHANGED <<bulk, confirmBulk>> /\ SendsOther
  BY <1>2 DEF Toggle, SendsOther, Ops, dialogs
<1>3. ASSUME NEW row \in Offered, NEW e, ChooseRequest(row, e)
      PROVE  UNCHANGED <<bulk, confirmBulk>> /\ SendsOther
  BY <1>3 DEF ChooseRequest, SendsOther, Ops
<1>4. ASSUME NEW row \in Offered, NEW e, ChooseDialog(row, e)
      PROVE  UNCHANGED <<bulk, confirmBulk, requests>>
  BY <1>4 DEF ChooseDialog
<1>5. CASE ConfirmStop \/ Save
  BY <1>5 DEF ConfirmStop, Save, SendsOther, Ops, dialogs
<1>6. CASE StartAll
  BY <1>6 DEF StartAll, BulkEnabled, Usable, Modal, BulkStarts
<1>7. CASE RequestStopAll
  BY <1>7 DEF RequestStopAll, BulkEnabled
<1>8. CASE ConfirmStopAll
  BY <1>8 DEF ConfirmStopAll, BulkInv, BulkStarts
<1>9. CASE Dismiss \/ ClosePull
  BY <1>9 DEF Dismiss, ClosePull, dialogs
<1> QED
  BY <1>1, <1>2, <1>3, <1>4, <1>5, <1>6, <1>7, <1>8, <1>9 DEF User

LEMMA BulkStep == TypeInv /\ BulkInv /\ [Next]_vars => BulkInv'
<1> SUFFICES ASSUME TypeInv, BulkInv, [Next]_vars PROVE BulkInv'
  OBVIOUS
<1>t. TypeOK
  BY DEF TypeInv
<1>c. ASSUME UNCHANGED bulk, UNCHANGED confirmBulk \/ ~confirmBulk' \/ bulk = "none",
             UNCHANGED requests \/ SendsOther \/ GoesOn \/ EndsOther
      PROVE  BulkInv'
  <2>1. confirmBulk' => bulk' = "none"
    BY <1>c DEF BulkInv
  <2>2. CASE UNCHANGED requests
    BY <2>1, <2>2, <1>c DEF BulkInv
  <2>3. CASE SendsOther
    <3>1. PICK q : requests' = requests \cup {q} /\ ~IsBulk(q)
      BY <2>3, SentBulk DEF SendsOther, Send
    <3> QED
      BY <2>1, <3>1, <1>c DEF BulkInv
  <2>4. CASE GoesOn
    <3>1. PICK r \in requests : \E q :
            requests' = (requests \ {r}) \cup {q} /\ (IsBulk(q) <=> IsBulk(r))
      BY <2>4 DEF GoesOn
    <3> QED
      BY <2>1, <3>1, <1>c DEF BulkInv
  <2>5. CASE EndsOther
    BY <2>1, <2>5, <1>c DEF BulkInv, EndsOther
  <2> QED
    BY <1>c, <2>2, <2>3, <2>4, <2>5
<1>1. CASE BulkStarts
  <2>1. PICK q : requests' = requests \cup {q} /\ IsBulk(q)
    BY <1>1, SentBulk DEF BulkStarts, Send
  <2>2. \A r \in requests : ~IsBulk(r)
    BY <1>1 DEF BulkStarts, BulkInv
  <2> QED
    BY <1>1, <2>1, <2>2 DEF BulkStarts, BulkInv
<1>2. CASE BulkEnds
  BY <1>2 DEF BulkEnds, BulkInv
<1>3. CASE User
  BY <1>3, <1>c, <1>1, UserBulk
<1>4. ASSUME NEW r \in requests, Handles(r) PROVE BulkInv'
  <2>1. GoesOn
    BY <1>4, <1>t, HandlesGoesOn
  <2>2. UNCHANGED <<bulk, confirmBulk>>
    BY <1>4 DEF Handles, dialogs
  <2> QED
    BY <2>1, <2>2, <1>c
<1>5. ASSUME NEW r \in requests, Settled(r) PROVE BulkInv'
  BY <1>5, <1>t, <1>c, <1>2, SettledBulk
<1>6. CASE StreamEnds
  <2>1. UNCHANGED <<bulk, confirmBulk>> /\ (UNCHANGED requests \/ SendsOther)
    BY <1>6 DEF StreamEnds, SendsOther, Ops, dialogs
  <2> QED
    BY <2>1, <1>c
<1>7. CASE UNCHANGED <<bulk, confirmBulk, requests>>
  BY <1>7, <1>c
<1>d. \/ User \/ StreamEnds \/ UNCHANGED <<bulk, confirmBulk, requests>>
      \/ \E r \in requests : Handles(r) \/ Settled(r)
  BY DEF Next, FeedFresh, FeedCached, FeedFails, Refetched, DaemonChanges, PullEnds,
         dialogs, vars
<1> QED
  BY <1>d, <1>3, <1>4, <1>5, <1>6, <1>7

(* A page never has two bulk actions under way, and its buttons are        *)
(* disabled exactly as long as it has one: bulkLoading of doBulkAction     *)
(* follows its request until it has settled.                               *)
THEOREM OneBulkAtATime == Spec => []OneBulk
<1>1. Init => BulkInv
  BY DEF Init, BulkInv
<1> QED
  BY <1>1, TypeInit, TypeStep, BulkStep, OneBulkHolds, PTL DEF Spec
=============================================================================
