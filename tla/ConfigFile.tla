----------------------------- MODULE ConfigFile -----------------------------
(***************************************************************************)
(* services.yaml and its writers: PATCH handlers of the daemon, which      *)
(* change the configuration in memory and write all of it, merge-config,   *)
(* which runs when the host activates a NixOS generation, and the user's   *)
(* editor.  The daemon reads the file when it starts and on reload.  Of    *)
(* every copy of the configuration the model keeps the services with their *)
(* "enabled" and restart policy; of all other text (schedules, names of    *)
(* dependencies) whether it needs quotes in YAML, and of the file whether  *)
(* it is YAML still.                                                       *)
(***************************************************************************)
EXTENDS Naturals

CONSTANTS
  Unit,      \* services that are ever declared
  Generation,\* NixOS generations
  Declared,  \* services each generation declares: its defaults and registry
  Writer,    \* goroutines serving PATCH and reload requests
  None       \* no service

ASSUME ConfigFileAssumption ==
  /\ Declared \in [Generation -> SUBSET Unit]
  /\ None \notin Unit

VARIABLES
  gen,      \* the generation activated last
  running,  \* the daemon is running
  mem,      \* services of the configuration in memory
  file,     \* services of services.yaml
  special,  \* the memory holds text that needs quotes
  yaml,     \* services.yaml can be parsed
  qui,      \* services.yaml has the qui section
  merging,  \* merge-config is between its load and its save
  merged,   \* what it is going to save
  stage,    \* where a writer is
  target,   \* the service whose "enabled" its PATCH sets, or None
  want,     \* what it asked of "enabled"
  buf,      \* what it is about to rename to services.yaml, or has read
  bufYaml,  \* ... and whether it can be parsed
  sound,    \* nothing has interfered with its PATCH (history)
  asked     \* last answered request for each service that counts (history)

memVars    == <<mem, special>>
fileVars   == <<file, yaml>>
bufVars    == <<buf, bufYaml>>
writerVars == <<stage, target, want, bufVars>>
mergeVars  == <<merging, merged>>
vars == <<gen, running, memVars, fileVars, qui, mergeVars, writerVars, sound, asked>>

Entry == [enabled : {"absent", "on", "off"}, policy : {"valid", "invalid"}]
Services == [Unit -> Entry]

Absent  == [enabled |-> "absent", policy |-> "valid"]
Default == [enabled |-> "on", policy |-> "valid"]
Empty   == [u \in Unit |-> Absent]

Has(c, u) == c[u].enabled # "absent"

TypeOK ==
  /\ gen \in Generation
  /\ running \in BOOLEAN /\ merging \in BOOLEAN /\ qui \in BOOLEAN
  /\ mem \in Services /\ file \in Services /\ merged \in Services
  /\ special \in BOOLEAN /\ yaml \in BOOLEAN
  /\ stage \in [Writer -> {"idle", "read", "applied", "serialised"}]
  /\ target \in [Writer -> Unit \cup {None}]
  /\ want \in [Writer -> {"none", "on", "off"}]
  /\ buf \in [Writer -> Services] /\ bufYaml \in [Writer -> BOOLEAN]
  /\ sound \in [Writer -> BOOLEAN]
  /\ asked \in [Unit -> {"none", "on", "off"}]

Init ==
  /\ gen \in Generation
  /\ running = FALSE /\ mem = Empty
  /\ file = [u \in Unit |-> IF u \in Declared[gen] THEN Default ELSE Absent]
  /\ special = FALSE /\ yaml = TRUE
  /\ qui = TRUE
  /\ merging = FALSE /\ merged = Empty
  /\ stage = [w \in Writer |-> "idle"]
  /\ target = [w \in Writer |-> None]
  /\ want = [w \in Writer |-> "none"]
  /\ buf = [w \in Writer |-> Empty] /\ bufYaml = [w \in Writer |-> TRUE]
  /\ sound = [w \in Writer |-> FALSE]
  /\ asked = [u \in Unit |-> "none"]

-----------------------------------------------------------------------------
(* loadConfig refuses a service with an unknown restart policy.            *)
PoliciesValid(c) == \A u \in Unit : c[u].policy = "valid"

(* ... and what is not YAML.                                               *)
FileLoads == yaml /\ PoliciesValid(file)

(* The daemon starts with the services the registry lets through; without  *)
(* a configuration it exits.  Text in quotes there needs them here, too.   *)
Start ==
  /\ ~running /\ FileLoads
  /\ running' = TRUE
  /\ mem' = [u \in Unit |-> IF u \in Declared[gen] THEN file[u] ELSE Absent]
  /\ special' \in BOOLEAN
  /\ asked' = [u \in Unit |-> IF u \in Declared[gen] THEN asked[u] ELSE "none"]
  /\ UNCHANGED <<gen, fileVars, qui, mergeVars, writerVars, sound>>

(* Stopped or killed; handlers end where they are.                         *)
Stop ==
  /\ running
  /\ running' = FALSE /\ mem' = Empty /\ special' = FALSE
  /\ stage' = [w \in Writer |-> "idle"]
  /\ target' = [w \in Writer |-> None]
  /\ want' = [w \in Writer |-> "none"]
  /\ buf' = [w \in Writer |-> Empty] /\ bufYaml' = [w \in Writer |-> TRUE]
  /\ sound' = [w \in Writer |-> FALSE]
  /\ UNCHANGED <<gen, fileVars, qui, mergeVars, asked>>

-----------------------------------------------------------------------------
(* PATCH and POST /api/reload.  The handlers take no lock.                 *)

Idle(w) ==
  /\ stage' = [stage EXCEPT ![w] = "idle"]
  /\ target' = [target EXCEPT ![w] = None]
  /\ want' = [want EXCEPT ![w] = "none"]
  /\ buf' = [buf EXCEPT ![w] = Empty] /\ bufYaml' = [bufYaml EXCEPT ![w] = TRUE]
  /\ sound' = [sound EXCEPT ![w] = FALSE]

(* POST /api/reload reads the file, all of it whatever the registry says   *)
(* (a file that does not load is answered with an error) ...               *)
ReadFile(w) ==
  /\ running /\ stage[w] = "idle" /\ FileLoads
  /\ stage' = [stage EXCEPT ![w] = "read"]
  /\ buf' = [buf EXCEPT ![w] = file]
  /\ sound' = [x \in Writer |-> FALSE]
  /\ UNCHANGED <<gen, running, memVars, fileVars, qui, mergeVars, target, want,
                 bufYaml, asked>>

(* ... and then assigns what it read, with whatever was changed in memory  *)
(* since.                                                                  *)
Reload(w) ==
  /\ stage[w] = "read"
  /\ mem' = buf[w] /\ special' \in BOOLEAN
  /\ Idle(w)
  /\ UNCHANGED <<gen, running, fileVars, qui, mergeVars, asked>>

(* Changes to the service of another PATCH under way interfere with it.    *)
SoundAfter(u) == [w \in Writer |-> sound[w] /\ target[w] # u]

(* The request is sound unless older contents are about to be written, or  *)
(* to be assigned by a reload.                                             *)
SoundFromHere == ~merging /\ \A x \in Writer : stage[x] \notin {"read", "serialised"}

Applied(w, u, e) ==
  /\ stage' = [stage EXCEPT ![w] = "applied"]
  /\ target' = [target EXCEPT ![w] = u]
  /\ want' = [want EXCEPT ![w] = e]

(* PATCH /api/config/{unit} with a policy that is valid or left out.       *)
Apply(w, u, e) ==
  /\ running /\ stage[w] = "idle" /\ Has(mem, u)
  /\ mem' = [mem EXCEPT ![u].enabled = e] /\ UNCHANGED special
  /\ Applied(w, u, e)
  /\ sound' = [SoundAfter(u) EXCEPT ![w] = SoundFromHere]
  /\ asked' = [asked EXCEPT ![u] = "none"]
  /\ UNCHANGED <<gen, running, fileVars, qui, mergeVars, bufVars>>

\* Mutant: the policy is assigned before it is validated.
RejectLate(w, u, e) ==
  /\ running /\ stage[w] = "idle" /\ Has(mem, u)
  /\ mem' = [mem EXCEPT ![u] = [enabled |-> e, policy |-> "invalid"]]
  /\ UNCHANGED special
  /\ sound' = SoundAfter(u)
  /\ asked' = [asked EXCEPT ![u] = "none"]
  /\ UNCHANGED <<gen, running, fileVars, qui, mergeVars, writerVars>>

(* With an invalid policy the answer is 400, but "enabled" has changed.    *)
Reject(w, u, e) ==
  /\ running /\ stage[w] = "idle" /\ Has(mem, u)
  /\ mem' = [mem EXCEPT ![u].enabled = e] /\ UNCHANGED special
  /\ sound' = SoundAfter(u)
  /\ asked' = [asked EXCEPT ![u] = "none"]
  /\ UNCHANGED <<gen, running, fileVars, qui, mergeVars, writerVars>>

(* PATCH of a backup, of the storage or of a service without "enabled":    *)
(* no schedule and no name is looked at.                                   *)
ApplyElsewhere(w, needsQuotes) ==
  /\ running /\ stage[w] = "idle"
  /\ Applied(w, None, "none")
  /\ special' = needsQuotes
  /\ sound' = [sound EXCEPT ![w] = FALSE]
  /\ UNCHANGED <<gen, running, mem, fileVars, qui, mergeVars, bufVars, asked>>

(* writeConfig: all of the memory goes into a buffer, without quotes: text *)
(* that needs them means something else there, or no parser reads it ...   *)
Serialise(w) ==
  /\ stage[w] = "applied"
  /\ stage' = [stage EXCEPT ![w] = "serialised"]
  /\ buf' = [buf EXCEPT ![w] = mem]
  /\ \E parses \in IF special THEN BOOLEAN ELSE {TRUE} :
       bufYaml' = [bufYaml EXCEPT ![w] = parses]
  /\ UNCHANGED <<gen, running, memVars, fileVars, qui, mergeVars, target, want,
                 sound, asked>>

(* ... a temporary file and, by rename, services.yaml.  The sections that  *)
(* writeConfig does not know (qui, vpn, notify) are gone.                  *)
Rename(w) ==
  /\ stage[w] = "serialised"
  /\ file' = buf[w] /\ yaml' = bufYaml[w]
  /\ qui' = FALSE
  /\ asked' = IF sound[w] THEN [asked EXCEPT ![target[w]] = want[w]] ELSE asked
  /\ Idle(w)
  /\ UNCHANGED <<gen, running, memVars, mergeVars>>

(* The answer is 500; the memory keeps the change.                         *)
WriteFails(w) ==
  /\ stage[w] = "serialised"
  /\ Idle(w)
  /\ UNCHANGED <<gen, running, memVars, fileVars, qui, mergeVars, asked>>

-----------------------------------------------------------------------------
(* merge-config, run by the activation of a generation: services that are  *)
(* missing are added with their defaults, those that exist keep the        *)
(* settings users may change.                                              *)

\* Mutant: the settings of existing services are synced from the defaults.
MergeDefaults(c, g) ==
  [u \in Unit |-> IF u \in Declared[g] THEN Default ELSE c[u]]

Merge(c, g) ==
  [u \in Unit |-> IF u \in Declared[g] /\ ~Has(c, u) THEN Default ELSE c[u]]

(* Structural fields, which the model leaves out, may have been synced; a  *)
(* missing qui section always is.                                          *)
Activate(g, synced) ==
  /\ ~merging
  /\ gen' = g
  /\ IF FileLoads
     THEN /\ merging' = (synced \/ ~qui \/ Merge(file, g) # file)
          /\ merged' = IF merging' THEN Merge(file, g) ELSE Empty
     ELSE UNCHANGED mergeVars
  /\ sound' = [w \in Writer |-> FALSE]
  /\ UNCHANGED <<running, memVars, fileVars, qui, writerVars, asked>>

(* saveConfig writes every section, quoted by the library; it may fail.    *)
MergeEnds(ok) ==
  /\ merging
  /\ merging' = FALSE /\ merged' = Empty
  /\ file' = IF ok THEN merged ELSE file
  /\ yaml' = (ok \/ yaml)
  /\ qui' = (ok \/ qui)
  /\ UNCHANGED <<gen, running, memVars, writerVars, sound, asked>>

(* The user edits the file, and repairs it.                                *)
Edit(u, e) ==
  /\ Has(file, u)
  /\ file' = [file EXCEPT ![u].enabled = e]
  /\ yaml' = TRUE
  /\ asked' = [asked EXCEPT ![u] = "none"]
  /\ UNCHANGED <<gen, running, memVars, qui, mergeVars, writerVars, sound>>

-----------------------------------------------------------------------------
Request(w) ==
  \/ \E u \in Unit, e \in {"on", "off"} : Apply(w, u, e) \/ Reject(w, u, e)
  \/ \E needsQuotes \in BOOLEAN : ApplyElsewhere(w, needsQuotes)
  \/ Serialise(w) \/ Rename(w) \/ WriteFails(w)
  \/ ReadFile(w) \/ Reload(w)

Next ==
  \/ Start \/ Stop
  \/ \E w \in Writer : Request(w)
  \/ \E g \in Generation, synced \in BOOLEAN : Activate(g, synced)
  \/ \E ok \in BOOLEAN : MergeEnds(ok)
  \/ \E u \in Unit, e \in {"on", "off"} : Edit(u, e)

Spec == Init /\ [][Next]_vars

-----------------------------------------------------------------------------
(* What the daemon answered to have saved is in the file, and in the       *)
(* memory of a daemon that runs, until somebody asks for something else:   *)
(* through restarts, reloads, activations, failed, refused and overlapping *)
(* PATCHes of other services.  The code does not keep, and exempt is, a    *)
(* PATCH that ran while older contents were on their way into the file,    *)
(* one that a reload found under way or that began after a reload read     *)
(* the file and before it assigned what it read (api.go:394-400), and one  *)
(* that an activation or a second PATCH of the service overtook.  Whether  *)
(* the file can be read is another matter (PoliciesLoad).                  *)
AnsweredIsKept ==
  \A u \in Unit : asked[u] # "none" =>
    file[u].enabled = asked[u] /\ (running => mem[u].enabled = asked[u])

(* No sequence of requests puts a restart policy into services.yaml with   *)
(* which loadConfig would refuse it, although PATCH answers 400 with half  *)
(* of its changes made.  Other text does make the file unreadable:         *)
(* writeConfig quotes nothing and PATCH /api/backups takes any schedule.   *)
PoliciesLoad == PoliciesValid(file)

(* The qui section is NixOS's and not changed at run time.                 *)
QuiIsNixs == qui
=============================================================================
