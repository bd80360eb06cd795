----------------------------- MODULE BackupsPage -----------------------------
(***************************************************************************)
(* The page of the backups: its jobs come with the overview, the drawer    *)
(* edits a copy of a job, a run is asked for, logs are shown in the dialog *)
(* of LogDialog.                                                           *)
(***************************************************************************)
EXTENDS LogDialog

CONSTANT None

BackupsAssumption == None \notin Unit

VARIABLES
  jobs,        \* an overview has arrived
  editingJob,  \* the drawer: its job, or None, and whether something is typed
  saves,       \* PATCH requests
  runs         \* jobs whose run has been asked for

drawer == <<jobs, editingJob, saves, runs>>
vars == <<dialog, drawer>>

(* The copy of a job the drawer holds: its fields change only by typing.   *)
JobCopy == [unit : Unit \cup {None}, typed : BOOLEAN]

NoJob == [unit |-> None, typed |-> FALSE]

TypeOK ==
  /\ DialogType
  /\ jobs \in BOOLEAN
  /\ editingJob \in JobCopy
  /\ saves \subseteq [unit : Unit, phase : {"sent", "ok", "failed"}]
  /\ runs \subseteq Unit

Init ==
  /\ DialogInit
  /\ jobs = FALSE /\ editingJob = NoJob /\ saves = {} /\ runs = {}

-----------------------------------------------------------------------------
(* An overview arrives; the page keeps the last one when a poll fails.     *)
Overview ==
  /\ jobs' = TRUE
  /\ UNCHANGED <<dialog, editingJob, saves, runs>>

Reachable == jobs /\ editingJob = NoJob /\ ~logs.open

EditJob(u) ==
  /\ Reachable
  /\ editingJob' = [unit |-> u, typed |-> FALSE]
  /\ UNCHANGED <<dialog, jobs, saves, runs>>

TypeInDrawer ==
  /\ editingJob # NoJob
  /\ editingJob' = [editingJob EXCEPT !.typed = TRUE]
  /\ UNCHANGED <<dialog, jobs, saves, runs>>

CancelEdit ==
  /\ editingJob # NoJob
  /\ editingJob' = NoJob
  /\ UNCHANGED <<dialog, jobs, saves, runs>>

(* All fields of the copy are sent, also those nobody typed in.            *)
SaveJob ==
  /\ editingJob # NoJob
  /\ \A r \in saves : r.unit # editingJob.unit
  /\ saves' = saves \cup {[unit |-> editingJob.unit, phase |-> "sent"]}
  /\ UNCHANGED <<dialog, jobs, editingJob, runs>>

(* The daemon writes the configuration, or answers with an error.          *)
Patched(r) ==
  /\ r \in saves /\ r.phase = "sent"
  /\ \E phase \in {"ok", "failed"} : saves' = (saves \ {r}) \cup {[r EXCEPT !.phase = phase]}
  /\ UNCHANGED <<dialog, jobs, editingJob, runs>>

\* Mutant: the drawer is closed whatever the answer.
DrawerClosed(r) == NoJob

DrawerAfter(r) == IF r.phase = "ok" THEN NoJob ELSE editingJob

(* An accepted save closes whatever drawer is open by then.                *)
JobSaved(r) ==
  /\ r \in saves /\ r.phase # "sent"
  /\ saves' = saves \ {r}
  /\ editingJob' = DrawerAfter(r)
  /\ UNCHANGED <<dialog, jobs, runs>>

RunJob(u) ==
  /\ Reachable
  /\ runs' = runs \cup {u}
  /\ UNCHANGED <<dialog, jobs, editingJob, saves>>

(* The answer to a run is a toast and nothing else.                        *)
RunAnswered(u) ==
  /\ u \in runs
  /\ runs' = runs \ {u}
  /\ UNCHANGED <<dialog, jobs, editingJob, saves>>

showLogs(u) == Reachable /\ ShowLogs(u) /\ UNCHANGED drawer

Settles == \E u \in Unit : LogsArrive(u) /\ UNCHANGED drawer

Next ==
  \/ Settles \/ Overview
  \/ \E u \in Unit : EditJob(u) \/ RunJob(u) \/ RunAnswered(u) \/ showLogs(u)
  \/ \E r \in saves : Patched(r) \/ JobSaved(r)
  \/ TypeInDrawer \/ CancelEdit \/ SaveJob
  \/ (CloseLogs /\ UNCHANGED drawer)

Spec == Init /\ [][Next]_vars

-----------------------------------------------------------------------------
(* What was typed into the drawer is given up only by the user or when the *)
(* daemon has accepted a save.                                             *)
EditKept ==
  [][editingJob.typed /\ editingJob' # editingJob =>
       CancelEdit \/ \E r \in saves : r.phase = "ok"]_vars
=============================================================================
