------------------------------ MODULE Dashboard ------------------------------
(***************************************************************************)
(* The pages of the dashboard, one document each: every entry of the       *)
(* navigation bar loads a new document, so that no two pages ever share    *)
(* state.  A behaviour is a visit to one page.  The page of the services   *)
(* (ServicesPage) and the poller below the pages (SharedPoller) are        *)
(* checked on their own; the dialog that reports a bug, which knows of the *)
(* page under it only the text it sends, counts as a page here.            *)
(***************************************************************************)
EXTENDS Naturals, Sequences, FiniteSets

CONSTANTS
  Secret, MaxEdits, MaxGets, MaxDeploys,
  Service, FirstService, Field, FieldsOf, Value, Window, Text, MaxTimers,
  Unit, VM, MaxRequests, Layouts, cols, Task,
  MaxAt, None, Nothing

VARIABLES
  page,
  repo, file, deployed, flag, acked, unkept, puts, switches, gets, loading,
  deployPending, deploying, editModal,
  config, url, localQuery, debouncedQuery, debounce, request, late, lines,
  isLoading, error, recent, timers,
  logs, asked, pending,
  jobs, editingJob, saves, runs,
  at, polls, services,
  mounted, storagePolls, status, queryLoading, prevIO, ioRate, actionRequests,
  actionLoading, usage, calculatingUsage, sizes,
  states, vms, confirmDestroy, requests,
  layout,
  isOpen, description, isSubmitting, post, stream, toast, over

Secrets == INSTANCE SecretsPage
Logs == INSTANCE LogsPage
Backups == INSTANCE BackupsPage
Diagnostics == INSTANCE DiagnosticsPage
Storage == INSTANCE StoragePage
             WITH polls <- storagePolls, requests <- actionRequests
VMs == INSTANCE VMsPage
Overview == INSTANCE OverviewPage
Bug == INSTANCE BugReport

(* What the pages assume of their constants.                               *)
ASSUME DashboardAssumption ==
  /\ Secrets!SecretsAssumption /\ Logs!LogsAssumption
  /\ Backups!DialogAssumption /\ Backups!BackupsAssumption
  /\ Diagnostics!DiagnosticsAssumption /\ Storage!StorageAssumption
  /\ VMs!VMsAssumption /\ Overview!OverviewAssumption /\ Bug!ReportAssumption

secretsVars == <<repo, file, deployed, flag, acked, unkept, puts, switches, gets,
                 loading, deployPending, deploying, editModal>>
logsVars == <<config, url, localQuery, debouncedQuery, debounce, request, late,
              lines, isLoading, error, recent, timers>>
dialogVars == <<logs, asked, pending>>
drawerVars == <<jobs, editingJob, saves, runs>>
listVars == <<at, polls, services>>
storageVars == <<mounted, storagePolls, status, queryLoading, prevIO, ioRate,
                 actionRequests, actionLoading, usage, calculatingUsage, sizes>>
vmVars == <<states, vms, confirmDestroy, requests>>
bugVars == <<isOpen, description, isSubmitting, post, stream, toast, over>>

vars == <<page, secretsVars, logsVars, dialogVars, drawerVars, listVars,
          storageVars, vmVars, layout, bugVars>>

(* The entries of the navigation bar that lead to pages of this module.    *)
Links == {"overview", "vms", "logs", "storage", "diagnostics", "secrets", "backups"}

(* The routes, which are the links, and the dialog that counts as a page.  *)
Page == Links \cup {"bug"}

TypeOK ==
  /\ page \in Page
  /\ Secrets!TypeOK /\ Logs!TypeOK /\ Backups!TypeOK /\ Diagnostics!TypeOK
  /\ Storage!TypeOK /\ VMs!TypeOK /\ Overview!TypeOK /\ Bug!TypeOK

(* Only the address of the logs carries parameters.                        *)
Init ==
  /\ page \in Page
  /\ Secrets!Init /\ Logs!Init /\ Backups!Init /\ Diagnostics!Init
  /\ Storage!Init /\ VMs!Init /\ Overview!Init /\ Bug!Init
  /\ page # "logs" => url.service = Nothing /\ localQuery = ""

-----------------------------------------------------------------------------
(* A step of the document that is loaded, which is the only one.           *)

OnSecrets(A) ==
  /\ page = "secrets" /\ A
  /\ UNCHANGED <<page, logsVars, dialogVars, drawerVars, listVars, storageVars,
                 vmVars, layout, bugVars>>

OnLogs(A) ==
  /\ page = "logs" /\ A
  /\ UNCHANGED <<page, secretsVars, dialogVars, drawerVars, listVars, storageVars,
                 vmVars, layout, bugVars>>

OnBackups(A) ==
  /\ page = "backups" /\ A
  /\ UNCHANGED <<page, secretsVars, logsVars, listVars, storageVars, vmVars,
                 layout, bugVars>>

OnDiagnostics(A) ==
  /\ page = "diagnostics" /\ A
  /\ UNCHANGED <<page, secretsVars, logsVars, drawerVars, storageVars, vmVars,
                 layout, bugVars>>

OnStorage(A) ==
  /\ page = "storage" /\ A
  /\ UNCHANGED <<page, secretsVars, logsVars, dialogVars, drawerVars, listVars,
                 vmVars, layout, bugVars>>

OnVMs(A) ==
  /\ page = "vms" /\ A
  /\ UNCHANGED <<page, secretsVars, logsVars, dialogVars, drawerVars, listVars,
                 storageVars, layout, bugVars>>

OnOverview(A) ==
  /\ page = "overview" /\ A
  /\ UNCHANGED <<page, secretsVars, logsVars, dialogVars, drawerVars, listVars,
                 storageVars, vmVars, bugVars>>

OnBug(A) ==
  /\ page = "bug" /\ A
  /\ UNCHANGED <<page, secretsVars, logsVars, dialogVars, drawerVars, listVars,
                 storageVars, vmVars, layout>>

Next ==
  \/ OnSecrets(Secrets!Next) \/ OnLogs(Logs!Next) \/ OnBackups(Backups!Next)
  \/ OnDiagnostics(Diagnostics!Next) \/ OnStorage(Storage!Next)
  \/ OnVMs(VMs!Next) \/ OnOverview(Overview!Next) \/ OnBug(Bug!Next)

Spec == Init /\ [][Next]_vars

-----------------------------------------------------------------------------
(* The daemon answers a request or the browser gives it up, a deployment   *)
(* comes to an end, timers fire.                                           *)
Settles ==
  \/ OnSecrets(Secrets!Deploys) \/ OnLogs(Logs!TimeoutFires)
  \/ OnBackups(Backups!Settles) \/ OnDiagnostics(Diagnostics!Settles)
  \/ OnStorage(Storage!Acts) \/ OnBug(Bug!Settles)

(* Queries of logs are answered within the 30 s of their interval again    *)
(* and again, and so are polls of the diagnostics while the daemon's state *)
(* stays what it is.                                                       *)
FairSpec ==
  /\ Spec
  /\ WF_vars(Settles)
  /\ SF_vars(OnLogs(Logs!Arrives)) /\ SF_vars(OnLogs(Logs!Callback))
  /\ WF_vars(OnLogs(Logs!Interval)) /\ WF_vars(OnLogs(Logs!ConfigArrives))
  /\ WF_vars(OnDiagnostics(Diagnostics!FetchDiagnostics))
  /\ SF_vars(OnDiagnostics(Diagnostics!PolledNow))

-----------------------------------------------------------------------------
(* One deployment and one action on the storage at a time, exactly while   *)
(* their buttons say so: no two of them overtake each other.               *)
OneAtATime == Secrets!OneDeploy /\ Storage!OneAction

(* An edit of a secret that was answered with success runs in the system   *)
(* or is flagged for deployment; the exceptions, which the code has no     *)
(* answer to, are an edit flagged while a switch ran that had not read it, *)
(* one that a concurrent sops has written over, and a flag that was not    *)
(* written or went with /run at a restart of the daemon.                   *)
EditsFlagged == Secrets!EditsFlagged

(* The lines of the logs page are those of the service of its tab.         *)
LinesOfService == Logs!LinesOfService

(* The query under way is the one the controls of the logs page show, and  *)
(* so are the lines once it is over with no error.                         *)
LinesOfQuery == Logs!LinesOfQuery

(* What a dialog sends or shows belongs to its title: a value goes to the  *)
(* secret it was typed for; logs of another unit than the title says are   *)
(* shown only when they had been asked for before the dialog was opened.   *)
DialogsBelong == Secrets!ValueOfSecret /\ Backups!ForeignOnlyLate

(* The widgets fill the rows of the overview in order, no row is wider     *)
(* than the grid and no two rows could have been one.                      *)
RowsFull == Overview!RowsFull

(* No page does what nobody asked for: what was typed into the drawer of a *)
(* backup is given up only by the user or when a save was accepted, a      *)
(* machine is destroyed only when the dialog that names it was confirmed,  *)
(* and a toast that tells the end of a task is not changed any more.       *)
NothingUnasked == Backups!EditKept /\ VMs!DestroysConfirmed /\ Bug!EndsStay

(* What tells the user of the page to wait.                                *)
Pends ==
  \/ deploying \/ actionLoading \/ logs.content = "loading"
  \/ isSubmitting \/ isLoading

(* Nothing stays for ever: the pending button of a deployment, the         *)
(* disabled buttons of the storage, "Loading logs...", the submission of a *)
(* bug and the loading state of the logs page end, and the list of the     *)
(* diagnostics is the present one again and again, whatever order its      *)
(* polls are answered in.                                                  *)
PagesSettle ==
  /\ Pends ~> ~Pends
  /\ [](page = "diagnostics") => Diagnostics!ListHeals
=============================================================================
