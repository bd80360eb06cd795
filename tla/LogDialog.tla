------------------------------ MODULE LogDialog ------------------------------
(***************************************************************************)
(* The dialog that shows the logs of a unit, as the pages of the backups   *)
(* and of the diagnostics have it.  The logs of a unit are known by the    *)
(* unit.  Answers do not look what the dialog shows by then.               *)
(***************************************************************************)
EXTENDS Naturals, FiniteSets

CONSTANTS Unit

DialogAssumption == Unit \cap {"", "loading", "failed"} = {}

VARIABLES
  logs,    \* the dialog: open, unit of its title, content
  asked,   \* units whose logs have been asked for
  pending  \* those that had been when the dialog was last opened (history)

dialog == <<logs, asked, pending>>

DialogType ==
  /\ logs \in [open : BOOLEAN, name : Unit \cup {""},
               content : Unit \cup {"", "loading", "failed"}]
  /\ asked \subseteq Unit /\ pending \subseteq Unit

DialogInit ==
  /\ logs = [open |-> FALSE, name |-> "", content |-> ""]
  /\ asked = {} /\ pending = {}

\* Mutant: the content of the last time stays until the answer.
OpenedAsBefore(u) == [open |-> TRUE, name |-> u, content |-> logs.content]

Opened(u) == [open |-> TRUE, name |-> u, content |-> "loading"]

ShowLogs(u) ==
  /\ ~logs.open
  /\ logs' = Opened(u)
  /\ pending' = asked
  /\ asked' = asked \cup {u}

\* Mutant: a failure is not shown.
ContentsIfAnswered(u) == {u}

Contents(u) == {u, "failed"}

(* The daemon answers, or it does not.                                     *)
LogsArrive(u) ==
  /\ u \in asked
  /\ \E content \in {u, "failed"} :
       logs' = IF content \in Contents(u) THEN [logs EXCEPT !.content = content] ELSE logs
  /\ asked' = asked \ {u}
  /\ UNCHANGED pending

CloseLogs ==
  /\ logs.open
  /\ logs' = [logs EXCEPT !.open = FALSE]
  /\ UNCHANGED <<asked, pending>>

(* The dialog shows logs of another unit than its title says only when     *)
(* they had been asked for before it was opened.                           *)
ForeignOnlyLate ==
  logs.open /\ logs.content \in Unit \ {logs.name} => logs.content \in pending
=============================================================================
