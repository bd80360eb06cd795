---------------------------- MODULE DaemonState ----------------------------
(***************************************************************************)
(* What homelab-daemon remembers across its own restarts and those of the  *)
(* host: state.json with the user's stops and the last boot id, and the    *)
(* crash marker.  Every change of the state rewrites the file in place, so *)
(* a kill between truncation and write leaves no state at all; so does a   *)
(* write that fails, of which nobody is told.                              *)
(***************************************************************************)
EXTENDS Naturals

CONSTANTS
  Unit,       \* services that may be configured
  Bare,       \* names without ".service" that clients give instead
  NameOf,     \* the service each of them stands for
  MaxSession, \* bound: kernel sessions
  NoFile      \* a file that is missing, empty or cut off

Name == Unit \cup Bare
Content == [userStopped : SUBSET Name, bootID : Nat]

ASSUME StateAssumption ==
  /\ Unit \cap Bare = {} /\ NameOf \in [Bare -> Unit]
  /\ MaxSession \in Nat \ {0}
  /\ NoFile \notin Content

VARIABLES
  phase,       \* of the daemon
  writer,      \* who is inside persist, holding the state's mutex
  known,       \* units of the configuration in memory
  userStopped, \* state in memory: names the user stopped
  bootID,      \* state in memory: kernel session last seen (0: none)
  file,        \* state.json
  marker,      \* .clean-shutdown exists
  session,     \* kernel session
  first,       \* what IsFirstStartAfterBoot returned
  asked,       \* last request under each name that may count (history)
  torn,        \* units asked about before state.json was cut off (history)
  booted,      \* times the boot sequence began in this session (history)
  crashed,     \* the previous run of the daemon crashed (history)
  reported     \* this run reported a crash of the previous one (history)

memory  == <<known, userStopped, bootID>>
history == <<asked, torn, booted, crashed, reported>>
vars == <<phase, writer, known, userStopped, bootID, file, marker, session,
          first, asked, torn, booted, crashed, reported>>

Session == 1 .. MaxSession

TypeOK ==
  /\ phase \in {"off", "verify", "stamped", "supervise"}
  /\ writer \in {"none", "request", "stamp"}
  /\ known \subseteq Unit /\ userStopped \subseteq Name
  /\ bootID \in Nat
  /\ file \in Content \cup {NoFile}
  /\ marker \in BOOLEAN /\ first \in BOOLEAN
  /\ session \in Session
  /\ asked \in [Name -> {"none", "start", "stop"}]
  /\ torn \subseteq Unit
  /\ booted \in Nat
  /\ crashed \in BOOLEAN /\ reported \in BOOLEAN

(* A host that has never run the daemon.                                   *)
Init ==
  /\ phase = "off" /\ writer = "none"
  /\ known = {} /\ userStopped = {} /\ bootID = 0
  /\ file = NoFile /\ marker = FALSE
  /\ session = 1 /\ first = FALSE
  /\ asked = [n \in Name |-> "none"] /\ torn = {}
  /\ booted = 0
  /\ crashed = FALSE /\ reported = FALSE

-----------------------------------------------------------------------------
(* load: a file that cannot be parsed counts as none.                      *)
Loaded == IF file = NoFile THEN [userStopped |-> {}, bootID |-> 0] ELSE file

(* The daemon starts with the units of services.yaml that the registry     *)
(* lets through; stops under other names, bare ones too, are pruned.       *)
Start(units) ==
  /\ phase = "off"
  /\ phase' = "verify"
  /\ known' = units
  /\ userStopped' = Loaded.userStopped \cap units
  /\ bootID' = Loaded.bootID
  /\ reported' = (~marker /\ file # NoFile)
  /\ marker' = TRUE
  /\ asked' = [n \in Name |-> IF n \in units THEN asked[n] ELSE "none"]
  /\ UNCHANGED <<writer, file, session, first, torn, booted, crashed>>

(* os.WriteFile of persist: truncate, then write what the memory holds.    *)
Truncate(w) ==
  /\ writer = "none"
  /\ writer' = w
  /\ file' = NoFile

\* Mutant: the file keeps the boot id only.
WriteBootIdOnly ==
  /\ writer' = "none"
  /\ file' = [userStopped |-> {}, bootID |-> bootID]

Write ==
  /\ writer' = "none"
  /\ file' = [userStopped |-> userStopped, bootID |-> bootID]

(* No room on the disk: persist logs the error and returns.                *)
WriteFails ==
  /\ writer' = "none"
  /\ UNCHANGED file

(* The names a request can be about: some configured units, or one that is *)
(* given without ".service", which isManaged lets through.                 *)
Nameable == (SUBSET known) \cup {{b} : b \in {x \in Bare : NameOf[x] \in known}}

(* SetUserStopped and SetAllUserStopped on behalf of a request.            *)
Ask(names, stopped) ==
  /\ phase # "off" /\ names \in Nameable
  /\ Truncate("request")
  /\ userStopped' = IF stopped THEN userStopped \cup names ELSE userStopped \ names
  /\ asked' = [n \in Name |-> IF n \notin names THEN asked[n]
                              ELSE IF stopped THEN "stop" ELSE "start"]
  /\ torn' = torn \ names
  /\ UNCHANGED <<phase, known, bootID, marker, session, first, booted, crashed, reported>>

(* The state is on disk, or could not be written: either way the handler   *)
(* goes on to act and to answer.                                           *)
Asked ==
  /\ writer = "request"
  /\ Write \/ WriteFails
  /\ UNCHANGED <<phase, memory, marker, session, first, history>>

(* SetBackupLastRun rewrites the file for a time the model leaves out.     *)
BackupBegins ==
  /\ phase # "off"
  /\ Truncate("request")
  /\ UNCHANGED <<phase, memory, marker, session, first, history>>

(* POST /api/reload: the configuration changes, nothing is pruned.         *)
Reload(units) ==
  /\ phase # "off"
  /\ known' = units
  /\ UNCHANGED <<phase, writer, userStopped, bootID, file, marker, session, first, history>>

\* Mutant: the current boot id is compared but not kept.
StampForgetful ==
  /\ phase = "verify"
  /\ Truncate("stamp")
  /\ first' = (bootID # session)
  /\ UNCHANGED <<phase, memory, marker, session, history>>

(* IsFirstStartAfterBoot.                                                  *)
Stamp ==
  /\ phase = "verify"
  /\ Truncate("stamp")
  /\ first' = (bootID # session)
  /\ bootID' = session
  /\ UNCHANGED <<phase, known, userStopped, marker, session, history>>

Stamped ==
  /\ writer = "stamp"
  /\ Write \/ WriteFails
  /\ phase' = "stamped"
  /\ UNCHANGED <<memory, marker, session, first, history>>

Boot ==
  /\ phase = "stamped"
  /\ phase' = "supervise"
  /\ booted' = IF first THEN booted + 1 ELSE booted
  /\ UNCHANGED <<writer, memory, file, marker, session, first, asked, torn, crashed, reported>>

-----------------------------------------------------------------------------
(* The daemon ends, killed or on SIGTERM, which waits for the workers but  *)
(* not for backups.  With the last write cut off or failed, everything     *)
(* that was remembered before is lost.                                     *)
Exit(crash) ==
  /\ phase # "off"
  /\ phase' = "off" /\ writer' = "none"
  /\ crashed' = crash
  /\ torn' = IF file = NoFile THEN Unit ELSE torn
  /\ booted' = IF file = NoFile THEN 0 ELSE booted
  /\ UNCHANGED <<memory, file, marker, session, first, asked, reported>>

HostBoots ==
  /\ phase = "off" /\ session < MaxSession
  /\ session' = session + 1
  /\ booted' = 0
  /\ UNCHANGED <<phase, writer, memory, file, marker, first, asked, torn, crashed, reported>>

Next ==
  \/ \E units \in SUBSET Unit :
       Start(units) \/ Reload(units)
  \/ \E names \in Nameable, stopped \in BOOLEAN : Ask(names, stopped)
  \/ Asked \/ BackupBegins \/ Stamp \/ Stamped \/ Boot
  \/ \E crash \in BOOLEAN : Exit(crash)
  \/ HostBoots

Spec == Init /\ [][Next]_vars

-----------------------------------------------------------------------------
(* What the user last asked of a configured unit by its full name is what  *)
(* the daemon goes by, through crashes and restarts of the daemon and of   *)
(* the host (state.go:16, "survives daemon and host reboots"), with one    *)
(* exception that the comment does not name: when the daemon ends while    *)
(* state.json is cut off, every stop made so far is lost (never a start).  *)
(* A stop under a bare name is not one of the unit and does not survive    *)
(* even a clean restart, although it is answered as a success.             *)
StopsAreRemembered ==
  phase # "off" =>
    \A u \in known : /\ asked[u] = "stop"  => u \in userStopped \cup torn
                     /\ asked[u] = "start" => u \notin userStopped

(* The boot sequence runs at most once in a kernel session however often   *)
(* the daemon restarts in it, unless it ended with state.json cut off.     *)
BootOncePerSession == booted <= 1

(* A daemon that starts after a crash says so (unless there is no state).  *)
CrashIsReported ==
  [][phase = "off" /\ phase' = "verify" /\ crashed /\ file # NoFile
     => reported']_vars
=============================================================================
