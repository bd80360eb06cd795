-------------------------- MODULE BackupScheduler --------------------------
(***************************************************************************)
(* The backup scheduler: cron entries, manual runs and the workflow of a   *)
(* run, which may pause a service for the duration of the backup.  The     *)
(* rest of the daemon appears as what it does to that service.             *)
(***************************************************************************)
EXTENDS Naturals

CONSTANTS
  Backup,     \* backup jobs (systemd oneshot units)
  Service,    \* services a backup may pause
  Runner,     \* goroutines of cron and of POST /api/backups/{unit}/run
  None,       \* no backup, no service, no runner
  Slow,       \* backups may outlast the 30 s timeout of systemctl
  Supervised, \* services the monitor restarts
  Requests    \* what happens: "run", "stop", "start", "patch", "reload", "kill"

ASSUME BackupAssumption ==
  /\ None \notin Backup \cup Service \cup Runner
  /\ Slow \in BOOLEAN
  /\ Supervised \subseteq Service
  /\ Requests \subseteq {"run", "stop", "start", "patch", "reload", "kill"}

VARIABLES
  enabled,      \* backups enabled in the configuration in memory
  disk,         \* the same two settings in services.yaml
  entries,      \* backups with a cron entry
  pauseService, \* pause_service of each backup
  up,           \* services that are running
  userStopped,  \* services the user stopped
  excused,      \* services down for another reason than a pause (history)
  running,      \* backup units that are running
  lock,         \* holder of each backup unit's mutex
  run,          \* the backup a runner is about
  held,         \* the service it pauses, as read when the run began
  pc            \* where it is

configVars  == <<enabled, disk, entries, pauseService>>
serviceVars == <<up, userStopped, excused>>
runnerVars  == <<run, held, pc>>
vars == <<enabled, disk, entries, pauseService, up, userStopped, excused,
          running, lock, run, held, pc>>

Settings == [enabled : SUBSET Backup, pauseService : [Backup -> Service \cup {None}]]

Phase == {"idle", "check", "pause", "launch", "wait", "resume"}

TypeOK ==
  /\ enabled \subseteq Backup /\ entries \subseteq Backup /\ disk \in Settings
  /\ pauseService \in [Backup -> Service \cup {None}]
  /\ up \subseteq Service /\ userStopped \subseteq Service /\ excused \subseteq Service
  /\ running \subseteq Backup
  /\ lock \in [Backup -> Runner \cup {None}]
  /\ run \in [Runner -> Backup \cup {None}]
  /\ held \in [Runner -> Service \cup {None}]
  /\ pc \in [Runner -> Phase]

Init ==
  /\ disk \in Settings
  /\ enabled = disk.enabled /\ entries = disk.enabled
  /\ pauseService = disk.pauseService
  /\ up = Service /\ userStopped = {} /\ excused = {}
  /\ running = {}
  /\ lock = [b \in Backup |-> None]
  /\ run = [r \in Runner |-> None]
  /\ held = [r \in Runner |-> None]
  /\ pc = [r \in Runner |-> "idle"]

-----------------------------------------------------------------------------
(* A run (RunBackup).  The backup's configuration is copied at the start.  *)

Begin(r, b) ==
  /\ pc[r] = "idle"
  /\ run' = [run EXCEPT ![r] = b]
  /\ held' = [held EXCEPT ![r] = pauseService[b]]
  /\ pc' = [pc EXCEPT ![r] = "check"]
  /\ UNCHANGED <<configVars, serviceVars, running, lock>>

CronFires(r, b) == b \in entries /\ Begin(r, b)

\* A manual run asks neither for "enabled" nor for a schedule.
RunManually(r, b) == "run" \in Requests /\ Begin(r, b)

Goto(r, p) == pc' = [pc EXCEPT ![r] = p] /\ UNCHANGED <<run, held>>

Finish(r) ==
  /\ pc' = [pc EXCEPT ![r] = "idle"]
  /\ run' = [run EXCEPT ![r] = None]
  /\ held' = [held EXCEPT ![r] = None]

(* Mounts and dependencies are there, or the run is skipped.               *)
Check(r) ==
  /\ pc[r] = "check"
  /\ \/ Goto(r, IF held[r] = None THEN "launch" ELSE "pause")
     \/ Finish(r)
  /\ UNCHANGED <<configVars, serviceVars, running, lock>>

(* stopUnit of the paused service; an error is ignored.                    *)
Pause(r) ==
  /\ pc[r] = "pause"
  /\ up' \in {up, up \ {held[r]}}
  /\ Goto(r, "launch")
  /\ UNCHANGED <<configVars, userStopped, excused, running, lock>>

(* startUnit of the backup unit, which is a oneshot: systemctl returns     *)
(* when the backup is through.                                             *)
Launch(r) ==
  /\ pc[r] = "launch" /\ lock[run[r]] = None
  /\ lock' = [lock EXCEPT ![run[r]] = r]
  /\ running' = running \cup {run[r]}
  /\ Goto(r, "wait")
  /\ UNCHANGED <<configVars, serviceVars>>

AfterBackup(r) == IF held[r] = None THEN Finish(r) ELSE Goto(r, "resume")

\* Mutant: the error return of startUnit keeps the mutex.
BackupReturnsLocked(r) ==
  /\ pc[r] = "wait"
  /\ run[r] \notin running \/ Slow
  /\ lock' = IF run[r] \in running THEN lock ELSE [lock EXCEPT ![run[r]] = None]
  /\ AfterBackup(r)
  /\ UNCHANGED <<configVars, serviceVars, running>>

(* Success, failure, or, when the backup takes longer than 30 s, the end   *)
(* of systemctl while the backup goes on.                                  *)
BackupReturns(r) ==
  /\ pc[r] = "wait"
  /\ run[r] \notin running \/ Slow
  /\ lock' = [lock EXCEPT ![run[r]] = None]
  /\ AfterBackup(r)
  /\ UNCHANGED <<configVars, serviceVars, running>>

\* Mutant: the service to resume is read from the configuration again.
ResumeFromConfig(r) ==
  /\ pc[r] = "resume"
  /\ LET s == pauseService[run[r]]
     IN IF s = None THEN UNCHANGED <<up, excused>>
        ELSE up' = up \cup {s} /\ excused' = excused \ {s}
  /\ Finish(r)
  /\ UNCHANGED <<configVars, userStopped, running, lock>>

(* The deferred startUnit of the paused service, whatever happened to it   *)
(* meanwhile.                                                              *)
Resume(r) ==
  /\ pc[r] = "resume"
  /\ \/ up' = up \cup {held[r]} /\ excused' = excused \ {held[r]}
     \/ held[r] \notin up /\ excused' = excused \cup {held[r]} /\ UNCHANGED up
  /\ Finish(r)
  /\ UNCHANGED <<configVars, userStopped, running, lock>>

BackupUnitEnds(b) ==
  /\ b \in running
  /\ running' = running \ {b}
  /\ UNCHANGED <<configVars, serviceVars, lock, runnerVars>>

-----------------------------------------------------------------------------
(* PATCH /api/backups/{unit}: the configuration in memory changes first;   *)
(* cron is reloaded only when services.yaml could be written.              *)
Patch(b, on, s) ==
  /\ "patch" \in Requests
  /\ enabled' = IF on THEN enabled \cup {b} ELSE enabled \ {b}
  /\ pauseService' = [pauseService EXCEPT ![b] = s]
  /\ \/ /\ disk' = [enabled |-> enabled', pauseService |-> pauseService']
        /\ entries' = enabled'
     \/ UNCHANGED <<disk, entries>>
  /\ UNCHANGED <<serviceVars, running, lock, runnerVars>>

(* What services.yaml says replaces the configuration in memory.           *)
LoadConfig ==
  /\ enabled' = disk.enabled /\ entries' = disk.enabled
  /\ pauseService' = disk.pauseService
  /\ UNCHANGED disk

(* POST /api/reload.                                                       *)
Reload ==
  /\ "reload" \in Requests
  /\ LoadConfig
  /\ UNCHANGED <<serviceVars, running, lock, runnerVars>>

(* The daemon dies, its goroutines with it, and starts again.              *)
Killed ==
  /\ "kill" \in Requests
  /\ LoadConfig
  /\ excused' = excused \cup (Service \ up)
  /\ lock' = [b \in Backup |-> None]
  /\ run' = [r \in Runner |-> None]
  /\ held' = [r \in Runner |-> None]
  /\ pc' = [r \in Runner |-> "idle"]
  /\ UNCHANGED <<up, userStopped, running>>

(* What else happens to a service.                                         *)
UserStops(s) ==
  /\ "stop" \in Requests
  /\ userStopped' = userStopped \cup {s}
  /\ up' = up \ {s}
  /\ UNCHANGED <<configVars, excused, running, lock, runnerVars>>

UserStarts(s) ==
  /\ "start" \in Requests
  /\ userStopped' = userStopped \ {s}
  /\ \/ up' = up \cup {s} /\ excused' = excused \ {s}
     \/ s \notin up /\ excused' = excused \cup {s} /\ UNCHANGED up
  /\ UNCHANGED <<configVars, running, lock, runnerVars>>

MonitorRestarts(s) ==
  /\ s \in Supervised /\ s \notin up /\ s \notin userStopped
  /\ up' = up \cup {s} /\ excused' = excused \ {s}
  /\ UNCHANGED <<configVars, userStopped, running, lock, runnerVars>>

ServiceExits(s) ==
  /\ s \in up
  /\ up' = up \ {s} /\ excused' = excused \cup {s}
  /\ UNCHANGED <<configVars, userStopped, running, lock, runnerVars>>

-----------------------------------------------------------------------------
Step(r) == Check(r) \/ Pause(r) \/ Launch(r) \/ BackupReturns(r) \/ Resume(r)

Next ==
  \/ \E r \in Runner, b \in Backup : CronFires(r, b) \/ RunManually(r, b)
  \/ \E r \in Runner : Step(r)
  \/ \E b \in Backup : BackupUnitEnds(b)
  \/ \E b \in Backup, on \in BOOLEAN, s \in Service \cup {None} : Patch(b, on, s)
  \/ Reload \/ Killed
  \/ \E s \in Service : \/ UserStops(s) \/ UserStarts(s)
                        \/ MonitorRestarts(s) \/ ServiceExits(s)

Spec == Init /\ [][Next]_vars

(* Runners are scheduled, a mutex is granted in the end, backups end.      *)
Fairness ==
  /\ \A r \in Runner : WF_vars(Step(r)) /\ SF_vars(Launch(r))
  /\ \A b \in Backup : WF_vars(BackupUnitEnds(b))

FairSpec == Spec /\ Fairness

-----------------------------------------------------------------------------
(* A runner has still to start the service it paused.                      *)
Owed(s) ==
  \E r \in Runner : held[r] = s /\ pc[r] \in {"launch", "wait", "resume"}

(* A service is never left down by a backup: when it is down, the user     *)
(* stopped it, it exited or would not start, the daemon was killed, or a   *)
(* run that is still under way is going to start it.  Failed, skipped and  *)
(* overlapping runs and changes of pause_service during a run included.    *)
DownIsAccountedFor ==
  \A s \in Service : s \notin up => s \in userStopped \cup excused \/ Owed(s)

(* Every run ends, also when several wait for the same backup unit.        *)
RunsFinish == \A r \in Runner : pc[r] # "idle" ~> pc[r] = "idle"

(* "service to stop before, start after": once a service is paused for a   *)
(* backup nobody but the user starts it while that backup goes on.         *)
PauseHolds ==
  [][\A r \in Runner :
       /\ pc[r] \in {"wait", "resume"} /\ held[r] \in Service \ up
       /\ run[r] \in running /\ run[r] \in running'
       => held[r] \notin up']_vars
=============================================================================
