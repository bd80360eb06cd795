---------------------------- MODULE ServicesPage ----------------------------
(***************************************************************************)
(* The services page of the dashboard: the list it keeps from the overview *)
(* feed, from its own refetches and from optimistic updates; the requests  *)
(* it has under way; its menus, dialogs and drawer; and the stream of the  *)
(* pull dialog.  The daemon is the sequence of states its services have    *)
(* been in, an overview is a version, that is, an index of that sequence.  *)
(***************************************************************************)
EXTENDS Naturals, Sequences, FiniteSets

CONSTANTS
  Unit,     \* services
  Docker,   \* those that run from an image
  Loaded,   \* states the services may be in when the page is loaded
  MaxAt,    \* bound of the versions of the daemon's state
  MaxOps,   \* bound of the requests the page sends
  None

ASSUME PageAssumption ==
  /\ Docker \subseteq Unit
  /\ Loaded \subseteq [Unit -> [active : BOOLEAN, enabled : BOOLEAN]]
  /\ MaxAt \in Nat \ {0} /\ MaxOps \in Nat
  /\ None \notin Unit

VARIABLES
  daemon,      \* states of the services, oldest first
  data,        \* version of the overview of useOverview, 0: null
  error,       \* overview.error is set
  services,    \* the list on the page, or None
  late,        \* versions since which refetches are under way
  requests,    \* POST and PATCH requests under way
  ops,         \* how many the page has sent (bound)
  confirm,     \* unit of confirmAction, or None
  confirmBulk, \* confirmBulkStop
  bulk,        \* bulkLoading
  drawer,      \* unit of configDrawer, or None
  pull,        \* the pull dialog
  stream,      \* its EventSource with the pull the daemon runs for it
  restarts     \* restarts sent since the dialog was opened (history)

feed    == <<data, error>>
dialogs == <<confirm, confirmBulk, drawer>>
puller  == <<pull, stream, restarts>>
vars == <<daemon, feed, services, late, requests, ops, dialogs, bulk, puller>>

Service == [active : BOOLEAN, enabled : BOOLEAN]
Row     == [unit : Unit, active : BOOLEAN, enabled : BOOLEAN]
Ops == {"start", "stop", "restart", "toggle", "stopFirst", "disable", "save",
        "startAll", "stopAll"}
Request == [id : 1 .. MaxOps, op : Ops, unit : Unit \cup {None},
            value : BOOLEAN, phase : {"sent", "ok", "failed"}]

At == Len(daemon)
Closed == [open |-> FALSE, unit |-> None, autoRestart |-> FALSE]
NoStream == [unit |-> None, phase |-> "none"]

TypeOK ==
  /\ daemon \in Seq([Unit -> Service]) /\ At \in 1 .. MaxAt
  /\ data \in 0 .. At /\ error \in BOOLEAN
  /\ services = None \/ services \in [Unit -> Service]
  /\ late \subseteq 1 .. At
  /\ requests \subseteq Request /\ ops \in 0 .. MaxOps
  /\ confirm \in Unit \cup {None} /\ confirmBulk \in BOOLEAN
  /\ bulk \in {"none", "start", "stop"}
  /\ drawer \in Unit \cup {None}
  /\ pull \in [open : BOOLEAN, unit : Unit \cup {None}, autoRestart : BOOLEAN]
  /\ stream \in [unit : Unit \cup {None},
                 phase : {"none", "pulling", "pulled", "failed", "closed"}]
  /\ restarts \in 0 .. MaxOps

Init ==
  /\ daemon \in {<<s>> : s \in Loaded}
  /\ data = 0 /\ error = FALSE /\ services = None /\ late = {}
  /\ requests = {} /\ ops = 0
  /\ confirm = None /\ confirmBulk = FALSE
  /\ bulk = "none" /\ drawer = None
  /\ pull = Closed /\ stream = NoStream /\ restarts = 0

-----------------------------------------------------------------------------
(* Rendering.                                                              *)

(* PageShell shows the table and the dialogs once there is a list.         *)
Shown == services # None

(* A dialog or the drawer covers the rest of the page.                     *)
Modal == confirm # None \/ confirmBulk \/ drawer # None \/ pull.open

(* What the user can click on the page itself.                             *)
Usable == Shown /\ ~Modal

\* Mutant: the effect of PullDialog has no cleanup.
RendersKept ==
  stream' = IF services' # None /\ pull'.open
            THEN [unit |-> pull'.unit, phase |-> "pulling"] ELSE stream

(* ServicesPage renders: onRestart is a new function, so that the effect   *)
(* of PullDialog closes its stream, which kills the pull, and opens a new  *)
(* one as long as the dialog is open.                                      *)
Renders ==
  stream' = IF services' # None /\ pull'.open
            THEN [unit |-> pull'.unit, phase |-> "pulling"] ELSE NoStream

-----------------------------------------------------------------------------
(* The list.                                                               *)

\* Mutant: a list on the page is not replaced by the feed.
TakeOverviewOnce(v) ==
  services' = IF services = None THEN daemon[v] ELSE services

TakeOverview(v) == services' = daemon[v]

(* A poll has been answered: an overview at least as new as the last one.  *)
FeedFresh(v) ==
  /\ v >= data
  /\ data' = v /\ error' = FALSE
  /\ TakeOverview(v)
  /\ UNCHANGED <<daemon, late, requests, ops, dialogs, bulk, pull, restarts>>
  /\ Renders

(* The poller delivers the same object again: the error is gone, the list  *)
(* stays what it is.                                                       *)
FeedCached ==
  /\ data # 0 /\ error
  /\ error' = FALSE
  /\ UNCHANGED <<daemon, data, services, late, requests, ops, dialogs, bulk,
                 pull, restarts>>
  /\ Renders

(* A poll has failed: the list is cleared.                                 *)
FeedFails ==
  /\ error' = TRUE
  /\ services' = None
  /\ UNCHANGED <<daemon, data, late, requests, ops, confirm, confirmBulk,
                 drawer, bulk, pull, restarts>>
  /\ Renders

(* refetchServices, directly or a second after an action.                  *)
Refetch == late' = late \cup {At}

(* Its answer is taken whatever has been shown in between; an error leaves *)
(* the list alone, an answer that is an error of the daemon clears it.     *)
Refetched(s) ==
  /\ s \in late
  /\ late' = late \ {s}
  /\ UNCHANGED <<daemon, feed, requests, ops, confirm, confirmBulk, drawer,
                 bulk, pull, restarts>>
  /\ \/ \E v \in s .. At : services' = daemon[v] /\ Renders
     \/ services' = None /\ Renders
     \/ UNCHANGED <<services, stream>>

-----------------------------------------------------------------------------
(* Requests.                                                               *)

Sent(op, u, x) ==
  [id |-> ops + 1, op |-> op, unit |-> u, value |-> x, phase |-> "sent"]

Send(op, u, x) ==
  /\ ops < MaxOps
  /\ ops' = ops + 1
  /\ requests' = requests \cup {Sent(op, u, x)}

(* What the daemon's state can be after it has done what a request asks    *)
(* for; a bulk request fails for some of the services.                     *)
Outcomes(r) ==
  LET now == daemon[At]
      All(units, x) == [u \in Unit |-> IF u \in units THEN [now[u] EXCEPT !.active = x]
                                       ELSE now[u]]
  IN
  CASE r.op \in {"start", "restart"} -> {All({r.unit}, TRUE)}
    [] r.op \in {"stop", "stopFirst"} -> {All({r.unit}, FALSE)}
    [] r.op \in {"toggle", "disable"} -> {[now EXCEPT ![r.unit].enabled = r.value]}
    [] r.op = "save" -> {now}
    [] r.op = "startAll" -> {All(units, TRUE) : units \in SUBSET Unit}
    [] r.op = "stopAll" -> {All(units, FALSE) : units \in SUBSET Unit}

Settles(r, phase) == requests' = (requests \ {r}) \cup {[r EXCEPT !.phase = phase]}

(* The daemon handles a request; it may have done what it was asked and    *)
(* yet answer with an error, or its answer be lost.                        *)
Handles(r) ==
  /\ r \in requests /\ r.phase = "sent"
  /\ \/ \E next \in Outcomes(r), phase \in {"ok", "failed"} :
          /\ Settles(r, phase)
          /\ \/ next = daemon[At] /\ UNCHANGED daemon
             \/ next # daemon[At] /\ At < MaxAt /\ daemon' = Append(daemon, next)
     \/ Settles(r, "failed") /\ UNCHANGED daemon
  /\ UNCHANGED <<feed, services, late, ops, dialogs, bulk, puller>>

(* A service fails, ends or is started by the monitor.                     *)
DaemonChanges(u) ==
  /\ At < MaxAt
  /\ daemon' = Append(daemon, [daemon[At] EXCEPT ![u].active = ~@])
  /\ UNCHANGED <<feed, services, late, requests, ops, dialogs, bulk, puller>>

(* The end of doAction.                                                    *)
ActionSettled(r) ==
  /\ r \in requests /\ r.op \in {"start", "stop", "restart"} /\ r.phase # "sent"
  /\ requests' = requests \ {r}
  /\ IF r.phase = "ok" THEN Refetch ELSE UNCHANGED late
  /\ UNCHANGED <<daemon, feed, services, ops, dialogs, bulk, pull, restarts>>
  /\ Renders

\* Mutant: the switch is flipped whatever the daemon answers.
FlipAlways(r) ==
  services' = IF services = None THEN None
              ELSE [services EXCEPT ![r.unit].enabled = r.value]

\* Mutant: the new row has nothing but the switch.
FlipRow(r) ==
  services' = IF services = None \/ r.phase # "ok" THEN services
              ELSE [services EXCEPT ![r.unit] = [enabled |-> r.value]]

(* The switch is flipped once the daemon has said so.                      *)
Flip(r) ==
  services' = IF services = None \/ r.phase # "ok" THEN services
              ELSE [services EXCEPT ![r.unit].enabled = r.value]

(* The end of toggleAutoStart.                                             *)
ToggleSettled(r) ==
  /\ r \in requests /\ r.op = "toggle" /\ r.phase # "sent"
  /\ requests' = requests \ {r}
  /\ Flip(r)
  /\ UNCHANGED <<daemon, feed, late, ops, dialogs, bulk, pull, restarts>>
  /\ IF services' = services THEN UNCHANGED stream ELSE Renders

(* stopAndDisable: whatever the daemon answers to the stop, the PATCH      *)
(* follows, unless there was no answer.                                    *)
StopFirstSettled(r) ==
  /\ r \in requests /\ r.op = "stopFirst" /\ r.phase # "sent"
  /\ \/ requests' = (requests \ {r})
          \cup {[r EXCEPT !.op = "disable", !.phase = "sent"]}
     \/ r.phase = "failed" /\ requests' = requests \ {r}
  /\ UNCHANGED <<daemon, feed, services, late, ops, dialogs, bulk, pull, restarts>>
  /\ Renders

(* Then the row is shown as stopped and disabled.                          *)
DisableSettled(r) ==
  /\ r \in requests /\ r.op = "disable" /\ r.phase # "sent"
  /\ requests' = requests \ {r}
  /\ services' = IF services = None \/ r.phase # "ok" THEN services
                 ELSE [services EXCEPT ![r.unit] = [active |-> FALSE, enabled |-> FALSE]]
  /\ UNCHANGED <<daemon, feed, late, ops, dialogs, bulk, pull, restarts>>
  /\ Renders

(* The end of saveConfig: a drawer that is open by then is closed.         *)
SaveSettled(r) ==
  /\ r \in requests /\ r.op = "save" /\ r.phase # "sent"
  /\ requests' = requests \ {r}
  /\ UNCHANGED <<daemon, feed, services, ops, confirm, confirmBulk,
                 bulk, pull, restarts>>
  /\ IF r.phase = "ok"
     THEN drawer' = None /\ Refetch /\ Renders
     ELSE UNCHANGED <<drawer, late, stream>>

(* The end of doBulkAction.                                                *)
BulkSettled(r) ==
  /\ r \in requests /\ r.op \in {"startAll", "stopAll"} /\ r.phase # "sent"
  /\ requests' = requests \ {r}
  /\ bulk' = "none"
  /\ IF r.phase = "ok" THEN Refetch ELSE UNCHANGED late
  /\ UNCHANGED <<daemon, feed, services, ops, dialogs, pull, restarts>>
  /\ Renders

-----------------------------------------------------------------------------
(* The user.                                                               *)

(* The entries of a row's menus.                                           *)
Entries(row) ==
  (IF row.active THEN {"stop", "stopFirst", "restart"}
   ELSE {"start"} \cup (IF row.enabled THEN {} ELSE {"enable"}))
  \cup {"configure"}
  \cup (IF row.unit \in Docker THEN {"pull"} ELSE {})

RowOf(u, s) == [unit |-> u, active |-> s.active, enabled |-> s.enabled]

(* The rows or cards on the page; both have the same switch and the same   *)
(* dropdown menu, made anew at each render.                                *)
Items == {RowOf(u, services[u]) : u \in Unit}

(* Rows whose menu can be used: also the one the context menu of the table *)
(* has kept since it was opened, whatever version of the row that was.     *)
Offered == Items \cup {RowOf(u, daemon[v][u]) : u \in Unit, v \in 1 .. At}

(* An entry that sends a request at once.                                  *)
ChooseRequest(row, e) ==
  /\ Usable /\ row \in Offered /\ e \in Entries(row)
  /\ UNCHANGED <<daemon, feed, services, late, confirm, confirmBulk, drawer,
                 bulk, pull, restarts>>
  /\ \/ e \in {"start", "restart", "stopFirst"} /\ Send(e, row.unit, FALSE) /\ Renders
     \/ e = "enable" /\ Send("toggle", row.unit, TRUE) /\ UNCHANGED stream

(* The pull dialog opens for a unit.                                       *)
Pull(u, autoRestart) ==
  /\ pull' = [open |-> TRUE, unit |-> u, autoRestart |-> autoRestart]
  /\ restarts' = 0

(* An entry that opens a dialog or the drawer.                             *)
ChooseDialog(row, e) ==
  /\ Usable /\ row \in Offered /\ e \in Entries(row)
  /\ \/ e = "stop" /\ confirm' = row.unit /\ UNCHANGED <<drawer, pull, restarts>>
     \/ e = "configure" /\ drawer' = row.unit /\ UNCHANGED <<confirm, pull, restarts>>
     \/ e = "pull" /\ Pull(row.unit, FALSE) /\ UNCHANGED <<confirm, drawer>>
  /\ UNCHANGED <<daemon, feed, services, late, requests, ops, confirmBulk, bulk>>
  /\ Renders

(* A click on the dot of an available update in the table.                 *)
TriggerUpdate(u) ==
  /\ Usable /\ u \in Docker
  /\ Pull(u, TRUE)
  /\ UNCHANGED <<daemon, feed, services, late, requests, ops, confirm,
                 confirmBulk, drawer, bulk>>
  /\ Renders

(* The AutoStart switch of a row.                                          *)
Toggle(u) ==
  /\ Usable
  /\ Send("toggle", u, ~services[u].enabled)
  /\ UNCHANGED <<daemon, feed, services, late, confirm, confirmBulk, drawer,
                 bulk, puller>>

(* The confirmation of a stop.                                             *)
ConfirmStop ==
  /\ Shown /\ confirm # None
  /\ Send("stop", confirm, FALSE)
  /\ confirm' = None
  /\ UNCHANGED <<daemon, feed, services, late, confirmBulk, drawer,
                 bulk, pull, restarts>>
  /\ Renders

\* Mutant: the buttons stay enabled while a bulk action is under way.
BulkEnabledAlways == Usable

(* Start All and Stop All are disabled during a bulk action.               *)
BulkEnabled == Usable /\ bulk = "none"

StartAll ==
  /\ BulkEnabled
  /\ Send("startAll", None, FALSE) /\ bulk' = "start"
  /\ UNCHANGED <<daemon, feed, services, late, confirm, confirmBulk, drawer,
                 pull, restarts>>
  /\ Renders

RequestStopAll ==
  /\ BulkEnabled
  /\ confirmBulk' = TRUE
  /\ UNCHANGED <<daemon, feed, services, late, requests, ops, confirm, drawer,
                 bulk, pull, restarts>>
  /\ Renders

ConfirmStopAll ==
  /\ Shown /\ confirmBulk
  /\ confirmBulk' = FALSE
  /\ Send("stopAll", None, FALSE) /\ bulk' = "stop"
  /\ UNCHANGED <<daemon, feed, services, late, confirm, drawer, pull,
                 restarts>>
  /\ Renders

(* Save Changes; the drawer stays open until the answer.                   *)
Save ==
  /\ Shown /\ drawer # None
  /\ Send("save", drawer, FALSE)
  /\ UNCHANGED <<daemon, feed, services, late, dialogs, bulk, puller>>

(* Cancel, Escape or a click outside.                                      *)
Dismiss ==
  /\ Shown
  /\ \/ confirm # None /\ confirm' = None /\ UNCHANGED <<confirmBulk, drawer>>
     \/ confirmBulk /\ confirmBulk' = FALSE /\ UNCHANGED <<confirm, drawer>>
     \/ drawer # None /\ drawer' = None /\ UNCHANGED <<confirm, confirmBulk>>
  /\ UNCHANGED <<daemon, feed, services, late, requests, ops, bulk, pull,
                 restarts>>
  /\ Renders

ClosePull ==
  /\ Shown /\ pull.open
  /\ pull' = [pull EXCEPT !.open = FALSE]
  /\ UNCHANGED <<daemon, feed, services, late, requests, ops, dialogs, bulk,
                 restarts>>
  /\ Renders

-----------------------------------------------------------------------------
(* The stream of the pull dialog.                                          *)

(* podman pull ends.                                                       *)
PullEnds ==
  /\ stream.phase = "pulling"
  /\ \E p \in {"pulled", "failed"} : stream' = [stream EXCEPT !.phase = p]
  /\ UNCHANGED <<daemon, feed, services, late, requests, ops, dialogs, bulk,
                 pull, restarts>>

\* Mutant: the service is restarted at any end of the stream.
RestartAfterAny == pull.autoRestart

(* The service is restarted only after "done".                             *)
RestartAfter == pull.autoRestart /\ stream.phase = "pulled"

(* "done" or "pull-error" arrives: the stream is closed.                   *)
StreamEnds ==
  /\ stream.phase \in {"pulled", "failed"}
  /\ UNCHANGED <<daemon, feed, services, late, dialogs, bulk, pull>>
  /\ IF RestartAfter
     THEN /\ Send("restart", pull.unit, FALSE)
          /\ restarts' = restarts + 1
          /\ Renders
     ELSE /\ stream' = [stream EXCEPT !.phase = "closed"]
          /\ UNCHANGED <<requests, ops, restarts>>

-----------------------------------------------------------------------------
Settled(r) ==
  \/ ActionSettled(r) \/ ToggleSettled(r) \/ StopFirstSettled(r)
  \/ DisableSettled(r) \/ SaveSettled(r) \/ BulkSettled(r)

User ==
  \/ \E u \in Unit : TriggerUpdate(u) \/ Toggle(u)
  \/ /\ Usable
     /\ \E row \in Offered : \E e \in Entries(row) :
          ChooseRequest(row, e) \/ ChooseDialog(row, e)
  \/ ConfirmStop \/ StartAll \/ RequestStopAll \/ ConfirmStopAll \/ Save
  \/ Dismiss \/ ClosePull

Next ==
  \/ User
  \/ \E v \in 1 .. At : FeedFresh(v)
  \/ FeedCached \/ FeedFails
  \/ \E s \in late : Refetched(s)
  \/ \E r \in requests : Handles(r) \/ Settled(r)
  \/ \E u \in Unit : DaemonChanges(u)
  \/ PullEnds \/ StreamEnds

Spec == Init /\ [][Next]_vars

(* Requests and refetches settle; polls go on and do not fail for ever     *)
(* (Catches of SharedPoller).  The user does nothing of necessity.         *)
FairSpec ==
  /\ Spec
  /\ SF_vars(FeedFresh(At))
  /\ WF_vars(\E s \in late : Refetched(s))
  /\ WF_vars(\E r \in requests : Handles(r) \/ Settled(r))

-----------------------------------------------------------------------------
(* start-all and stop-all of one page are never under way together.        *)
OneBulk ==
  LET all == {r \in requests : r.op \in {"startAll", "stopAll"}} IN
  /\ Cardinality(all) <= 1
  /\ all # {} <=> bulk # "none"

(* The AutoStart switch of a row shows a value the daemon has had: what    *)
(* was asked for and refused is never shown.                               *)
SwitchWasTrue ==
  services # None =>
    \A u \in Unit : \E v \in 1 .. At : daemon[v][u].enabled = services[u].enabled

(* The stream pulls for the unit of the dialog, and only while the dialog  *)
(* is on the page: no pull goes on unseen or ends in another's dialog.     *)
StreamOfDialog ==
  stream # NoStream => Shown /\ pull.open /\ stream.unit = pull.unit

(* A service is restarted by the dialog only when a pull for it succeeded. *)
RestartsPulled ==
  [][restarts' > restarts =>
       stream.phase = "pulled" /\ stream.unit = pull.unit /\ pull.autoRestart]_vars

(* Late refetches and optimistic updates never stick: the page shows the   *)
(* state the daemon has settled in again and again.                        *)
Heals == []<>(services = daemon[At])

(* An update restarts its service once: "click to pull and restart", and   *)
(* the stream's "done" optionally restarts the service.                    *)
RestartsOnce == restarts <= 1
=============================================================================
