------------------------------- MODULE VMsPage -------------------------------
(***************************************************************************)
(* The page of the virtual machines: the list of the overview, the menus   *)
(* made from it, and the dialog that confirms a destroy.                   *)
(***************************************************************************)
EXTENDS Naturals, FiniteSets

CONSTANTS
  VM,
  MaxRequests,  \* bound of the requests under way
  None

VMsAssumption == None \notin VM /\ MaxRequests \in Nat \ {0}

State == {"Running", "Paused", "Shut Off"}
Operation == {"start", "shutdown", "suspend", "resume", "destroy"}

(* The machines of an overview; None: there is none yet.                   *)
List == [VM -> State] \cup {None}

VARIABLES
  states,         \* of the machines in libvirt
  vms,            \* of the machines in the list; None: no overview yet
  confirmDestroy, \* machine of the dialog, or None
  requests        \* POST /api/vms/:name/:action

vars == <<states, vms, confirmDestroy, requests>>

TypeOK ==
  /\ states \in [VM -> State]
  /\ vms \in List
  /\ confirmDestroy \in VM \cup {None}
  /\ requests \subseteq [vm : VM, op : Operation]

Init ==
  /\ states = [v \in VM |-> "Shut Off"]
  /\ vms = None /\ confirmDestroy = None /\ requests = {}

(* The overview arrives.                                                   *)
Overview ==
  /\ vms' = states
  /\ UNCHANGED <<states, confirmDestroy, requests>>

(* A machine is changed from elsewhere, or its guest shuts down.           *)
MachineChanges(v) ==
  /\ \E s \in State : states' = [states EXCEPT ![v] = s]
  /\ UNCHANGED <<vms, confirmDestroy, requests>>

(* The entries of a machine's menu that send a request at once.            *)
Entries(state) ==
  (IF state = "Running" THEN {"shutdown", "suspend"} ELSE {"start"})
  \cup (IF state = "Paused" THEN {"resume"} ELSE {})

\* Mutant: the dialog is opened by the entry and not waited for.
DestroyAtOnce(v) ==
  /\ vms # None /\ confirmDestroy = None
  /\ confirmDestroy' = v
  /\ requests' = requests \cup {[vm |-> v, op |-> "destroy"]}
  /\ UNCHANGED <<states, vms>>

(* The entry that opens the dialog.                                        *)
ChooseDestroy(v) ==
  /\ vms # None /\ confirmDestroy = None
  /\ confirmDestroy' = v
  /\ UNCHANGED <<states, vms, requests>>

\* Mutant: the name is taken from the dialog after it has been closed.
DoActionClosed(v, op) ==
  /\ Cardinality(requests) < MaxRequests
  /\ confirmDestroy' = None
  /\ requests' = requests \cup {[vm |-> confirmDestroy', op |-> op]}
  /\ UNCHANGED <<states, vms>>

(* doAction: a dialog that is open is closed.                              *)
DoAction(v, op) ==
  /\ Cardinality(requests) < MaxRequests
  /\ confirmDestroy' = None
  /\ requests' = requests \cup {[vm |-> v, op |-> op]}
  /\ UNCHANGED <<states, vms>>

Choose(v, op) ==
  /\ vms # None /\ confirmDestroy = None
  /\ op \in Entries(vms[v])
  /\ DoAction(v, op)

Confirm == confirmDestroy # None /\ DoAction(confirmDestroy, "destroy")

Dismiss ==
  /\ confirmDestroy # None
  /\ confirmDestroy' = None
  /\ UNCHANGED <<states, vms, requests>>

(* virsh, which refuses what the machine's state does not allow.           *)
After(state, op) ==
  CASE op = "start" /\ state = "Shut Off" -> {"Running"}
    [] op = "shutdown" /\ state = "Running" -> {"Running", "Shut Off"}
    [] op = "suspend" /\ state = "Running" -> {"Paused"}
    [] op = "resume" /\ state = "Paused" -> {"Running"}
    [] op = "destroy" /\ state # "Shut Off" -> {"Shut Off"}
    [] OTHER -> {state}

(* The answer is a toast and nothing else.                                 *)
Handles(r) ==
  /\ r \in requests
  /\ requests' = requests \ {r}
  /\ \E s \in After(states[r.vm], r.op) : states' = [states EXCEPT ![r.vm] = s]
  /\ UNCHANGED <<vms, confirmDestroy>>

Next ==
  \/ Overview \/ Confirm \/ Dismiss
  \/ \E v \in VM : \/ MachineChanges(v) \/ ChooseDestroy(v)
                   \/ \E op \in Operation : Choose(v, op)
  \/ \E r \in requests : Handles(r)

Spec == Init /\ [][Next]_vars

-----------------------------------------------------------------------------
(* A machine is destroyed only when the dialog that names it was confirmed *)
(* and not dismissed.                                                      *)
DestroysConfirmed ==
  [][\A v \in VM :
       [vm |-> v, op |-> "destroy"] \in requests' \ requests =>
         confirmDestroy = v /\ confirmDestroy' = None]_vars
=============================================================================
