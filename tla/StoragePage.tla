----------------------------- MODULE StoragePage -----------------------------
(***************************************************************************)
(* The page of the storage pools: polls every 3 s, answered in any order;  *)
(* one action at a time (mount, unmount, folders, subvolumes); the usage   *)
(* of the subvolumes, calculated on demand; and the transfer rates, made   *)
(* from two successive lists.  The daemon's state is its version, which    *)
(* also stands for the counters of its disks, and whether the pool is      *)
(* mounted at each version.                                                *)
(***************************************************************************)
EXTENDS Integers, Sequences

CONSTANTS MaxAt  \* bound of the versions of the daemon's state

StorageAssumption == MaxAt \in Nat \ {0}

VARIABLES
  mounted,        \* whether the pool was, at each version
  polls,          \* versions since which polls are under way
  status,         \* the version on the page, 0: null
  queryLoading,
  prevIO,         \* version of the last counters, 0: none
  ioRate,         \* difference of the last two counters
  requests,       \* actions under way
  actionLoading,
  usage,          \* requests to calculate the usage
  calculatingUsage,
  sizes           \* the version the calculated sizes are from, 0: none

list == <<polls, status, queryLoading, prevIO, ioRate>>
actions == <<requests, actionLoading>>
sizing == <<usage, calculatingUsage, sizes>>
vars == <<mounted, list, actions, sizing>>

At == Len(mounted)

Action == [op : {"mount", "unmount", "init", "create", "delete"},
           phase : {"sent", "ok", "failed"}]

TypeOK ==
  /\ mounted \in Seq(BOOLEAN) /\ At \in 1 .. MaxAt
  /\ polls \subseteq 1 .. MaxAt /\ status \in 0 .. MaxAt
  /\ queryLoading \in BOOLEAN
  /\ prevIO \in 0 .. MaxAt /\ ioRate \in -MaxAt .. MaxAt
  /\ requests \subseteq Action /\ actionLoading \in BOOLEAN
  /\ usage \subseteq [phase : {"sent", "ok", "failed"}, at : 0 .. MaxAt]
  /\ calculatingUsage \in BOOLEAN
  /\ sizes \in 0 .. MaxAt

Init ==
  /\ mounted = <<FALSE>>
  /\ polls = {1} /\ status = 0 /\ queryLoading = TRUE
  /\ prevIO = 0 /\ ioRate = 0
  /\ requests = {} /\ actionLoading = FALSE
  /\ usage = {} /\ calculatingUsage = FALSE /\ sizes = 0

-----------------------------------------------------------------------------
(* The list.                                                               *)

FetchStorage == polls' = polls \cup {At}

(* The interval fires, or the button is pressed.                           *)
Poll ==
  /\ FetchStorage
  /\ UNCHANGED <<mounted, status, queryLoading, prevIO, ioRate, actions, sizing>>

(* The effect on a new status: rates from the counters of two lists.       *)
Counters(v) ==
  /\ ioRate' = IF prevIO = 0 THEN ioRate ELSE v - prevIO
  /\ prevIO' = v

Fetched(s) ==
  /\ s \in polls
  /\ polls' = polls \ {s}
  /\ queryLoading' = FALSE
  /\ \/ \E v \in s .. At : status' = v /\ Counters(v)
     \/ UNCHANGED <<status, prevIO, ioRate>>
  /\ UNCHANGED <<mounted, actions, sizing>>

(* Disks are used; a pool is mounted or unmounted from the shell.          *)
DaemonChanges ==
  /\ At < MaxAt
  /\ \E m \in BOOLEAN : mounted' = Append(mounted, m)
  /\ UNCHANGED <<list, actions, sizing>>

-----------------------------------------------------------------------------
(* Actions.                                                                *)

(* The pool's state in the list on the page.                               *)
IsMounted == mounted[status]

(* The buttons of a pool and of its subvolumes.                            *)
PoolButtons == IF IsMounted THEN {"unmount", "init"} ELSE {"mount"}

SubvolumeButtons == IF IsMounted THEN {"create", "delete"} ELSE {}

(* They are disabled while an action is under way.                         *)
Offers ==
  IF status = 0 \/ actionLoading THEN {} ELSE PoolButtons \cup SubvolumeButtons

\* Mutant: a deletion does not disable the buttons.
PressedUnlessDelete(op) == op # "delete"

Pressed(op) == TRUE

Press(op) ==
  /\ op \in Offers
  /\ actionLoading' = Pressed(op)
  /\ requests' = requests \cup {[op |-> op, phase |-> "sent"]}
  /\ UNCHANGED <<mounted, list, sizing>>

(* The daemon carries an action out or refuses it; the answer may be lost. *)
Handles(r) ==
  /\ r \in requests /\ r.phase = "sent"
  /\ \E phase \in {"ok", "failed"} :
       /\ requests' = (requests \ {r}) \cup {[r EXCEPT !.phase = phase]}
       /\ \/ /\ r.op \in {"mount", "unmount"} /\ At < MaxAt
             /\ mounted' = Append(mounted, r.op = "mount")
          \/ /\ phase = "failed" \/ r.op \notin {"mount", "unmount"}
             /\ UNCHANGED mounted
  /\ UNCHANGED <<list, actionLoading, sizing>>

\* Mutant: an action that failed leaves the buttons disabled.
BusyAfterFailure(r) == r.phase = "failed"

(* finally: setActionLoading(false).                                       *)
BusyAfter(r) == FALSE

ActionSettled(r) ==
  /\ r \in requests /\ r.phase # "sent"
  /\ requests' = requests \ {r}
  /\ actionLoading' = BusyAfter(r)
  /\ IF r.phase = "ok" THEN FetchStorage ELSE UNCHANGED polls
  /\ UNCHANGED <<mounted, status, queryLoading, prevIO, ioRate, sizing>>

-----------------------------------------------------------------------------
(* Usage of the subvolumes.                                                *)

CalculateUsage ==
  /\ status # 0 /\ IsMounted /\ ~calculatingUsage
  /\ calculatingUsage' = TRUE
  /\ usage' = usage \cup {[phase |-> "sent", at |-> 0]}
  /\ UNCHANGED <<mounted, list, actions, sizes>>

UsageArrives(r) ==
  /\ r \in usage /\ r.phase = "sent"
  /\ \E phase \in {"ok", "failed"} :
       usage' = (usage \ {r}) \cup {[phase |-> phase, at |-> At]}
  /\ UNCHANGED <<mounted, list, actions, calculatingUsage, sizes>>

UsageSettled(r) ==
  /\ r \in usage /\ r.phase # "sent"
  /\ usage' = usage \ {r}
  /\ calculatingUsage' = FALSE
  /\ sizes' = IF r.phase = "ok" THEN r.at ELSE sizes
  /\ UNCHANGED <<mounted, list, actions>>

-----------------------------------------------------------------------------
Acts == \E r \in requests : Handles(r) \/ ActionSettled(r)

Calculates == \E r \in usage : UsageArrives(r) \/ UsageSettled(r)

Next ==
  \/ Acts \/ Calculates \/ Poll \/ DaemonChanges \/ CalculateUsage
  \/ \E s \in polls : Fetched(s)
  \/ \E op \in Offers : Press(op)

Spec == Init /\ [][Next]_vars

-----------------------------------------------------------------------------
(* The buttons are disabled exactly while an action is under way, of which *)
(* there is one at most: no two actions of the page overtake each other.   *)
OneAction ==
  /\ actionLoading <=> requests # {}
  /\ \A q, r \in requests : q = r
=============================================================================
