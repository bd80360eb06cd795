--------------------------- MODULE DiagnosticsPage ---------------------------
(***************************************************************************)
(* The page of the diagnostics: the list of the base services, polled      *)
(* every 5 s without waiting for the answer of the last poll, and the      *)
(* dialog of LogDialog.  A list is the version of the daemon's state it    *)
(* was made from.                                                          *)
(***************************************************************************)
EXTENDS LogDialog

CONSTANTS MaxAt  \* bound of the versions of the daemon's state

DiagnosticsAssumption == MaxAt \in Nat \ {0}

VARIABLES
  at,        \* version of the daemon's state
  polls,     \* versions since which polls are under way
  services   \* the version on the page, 0: null

list == <<at, polls, services>>
vars == <<dialog, list>>

TypeOK ==
  /\ DialogType
  /\ at \in 1 .. MaxAt /\ polls \subseteq 1 .. MaxAt /\ services \in 0 .. MaxAt

Init ==
  /\ DialogInit
  /\ at = 1 /\ polls = {1} /\ services = 0

ServiceChanges ==
  /\ at < MaxAt
  /\ at' = at + 1
  /\ UNCHANGED <<dialog, polls, services>>

(* The interval fires.                                                     *)
FetchDiagnostics ==
  /\ polls' = polls \cup {at}
  /\ UNCHANGED <<dialog, at, services>>

\* Mutant: only the first list is taken.
SetServicesOnce(v) == services' = IF services = 0 THEN v ELSE services

SetServices(v) == services' = v

(* An answer, whatever newer ones have come before it, or an error.        *)
Polled(s) ==
  /\ s \in polls
  /\ polls' = polls \ {s}
  /\ (\E v \in s .. at : SetServices(v)) \/ UNCHANGED services
  /\ UNCHANGED <<dialog, at>>

(* The answer to a poll of the state the daemon is in.                     *)
PolledNow == Polled(at) /\ services' = at

showLogs(u) == services # 0 /\ ShowLogs(u) /\ UNCHANGED list

Settles == \E u \in Unit : LogsArrive(u) /\ UNCHANGED list

Next ==
  \/ Settles \/ ServiceChanges \/ FetchDiagnostics
  \/ \E s \in polls : Polled(s)
  \/ \E u \in Unit : showLogs(u)
  \/ (CloseLogs /\ UNCHANGED list)

Spec == Init /\ [][Next]_vars

-----------------------------------------------------------------------------
(* Whatever order the polls are answered in, the page shows the present    *)
(* state again and again.                                                  *)
ListHeals == []<>(services = at)
=============================================================================
