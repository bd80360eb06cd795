----------------------------- MODULE SecretsPage -----------------------------
(***************************************************************************)
(* The page of the secrets and the part of the daemon behind it: a PUT     *)
(* changes the encrypted file (sops), commits and pushes it (git) and then *)
(* raises the flag that a deployment is pending; a deployment runs         *)
(* `nh os switch` and takes the flag down.  Edits are numbered as sops     *)
(* writes them, a state of the file is the set of the edits it holds; the  *)
(* value typed into the dialog is known by the secret it was typed for.    *)
(***************************************************************************)
EXTENDS Naturals, FiniteSets

CONSTANTS
  Secret,
  MaxEdits,    \* bound of the edits of the file
  MaxGets,     \* bound of the GETs under way
  MaxDeploys,  \* bound of the deployments under way
  None

SecretsAssumption ==
  MaxEdits \in Nat /\ MaxGets \in Nat \ {0} /\ MaxDeploys \in Nat \ {0} /\ None \notin Secret

VARIABLES
  repo,        \* number of edits made
  file,        \* secrets.yaml: the edits it holds
  deployed,    \* the edits the running system was built from
  flag,        \* deploy_pending, a file in /run/homelab-daemon
  acked,       \* edits whose PUT was answered with success (history)
  unkept,      \* those of them the code loses sight of: overlapped by a
               \* switch, written over, or without a flag (history)
  puts,        \* PUT requests, one for a secret (bound)
  switches,    \* deployments
  gets,        \* GETs: how many are sent, answered "yes" and answered "no"
  loading, deployPending, deploying, editModal

daemon == <<repo, file, deployed, flag, acked, unkept>>
page == <<loading, deployPending, deploying, editModal>>
vars == <<daemon, puts, switches, gets, page>>

(* What the answer to a GET says of a pending deployment.                  *)
Listed == {"yes", "no"}

Put == [name : Secret, value : Secret, edit : 0 .. MaxEdits,
        base : SUBSET (1 .. MaxEdits),
        phase : {"sent", "editing", "edited", "ok", "refused"}]
Switch == [id : 1 .. MaxDeploys, at : SUBSET (1 .. MaxEdits),
           phase : {"started", "building", "done", "error", "lost"}]

TypeOK ==
  /\ repo \in 0 .. MaxEdits /\ flag \in BOOLEAN
  /\ file \subseteq 1 .. repo /\ deployed \subseteq 1 .. repo
  /\ acked \subseteq 1 .. repo /\ unkept \subseteq acked
  /\ puts \subseteq Put /\ switches \subseteq Switch
  /\ gets \in [{"sent"} \cup Listed -> 0 .. MaxGets]
  /\ loading \in BOOLEAN /\ deployPending \in BOOLEAN /\ deploying \in BOOLEAN
  /\ editModal \in [open : BOOLEAN, name : Secret \cup {None},
                    value : Secret \cup {None}]

Closed == [open |-> FALSE, name |-> None, value |-> None]

Init ==
  /\ repo = 0 /\ file = {} /\ deployed = {} /\ flag = FALSE
  /\ acked = {} /\ unkept = {}
  /\ puts = {} /\ switches = {}
  /\ gets = [sent |-> 1, yes |-> 0, no |-> 0]
  /\ loading = TRUE /\ deployPending = FALSE /\ deploying = FALSE
  /\ editModal = Closed

-----------------------------------------------------------------------------
(* GET /api/secrets: answers may arrive in any order.                      *)
FetchSecrets ==
  /\ gets.sent + gets.yes + gets.no < MaxGets
  /\ gets' = [gets EXCEPT !.sent = @ + 1]

Answers ==
  /\ gets.sent > 0
  /\ gets' = [gets EXCEPT !.sent = @ - 1, ![IF flag THEN "yes" ELSE "no"] = @ + 1]
  /\ UNCHANGED <<daemon, puts, switches, page>>

Fetched(x) ==
  /\ gets[x] > 0
  /\ gets' = [gets EXCEPT ![x] = @ - 1]
  /\ deployPending' = (x = "yes")
  /\ loading' = FALSE
  /\ UNCHANGED <<daemon, puts, switches, deploying, editModal>>

NotFetched ==
  /\ gets.sent > 0
  /\ gets' = [gets EXCEPT !.sent = @ - 1]
  /\ loading' = FALSE
  /\ UNCHANGED <<daemon, puts, switches, deployPending, deploying, editModal>>

Refresh ==
  /\ ~loading
  /\ FetchSecrets
  /\ UNCHANGED <<daemon, puts, switches, page>>

-----------------------------------------------------------------------------
(* The dialog.                                                             *)

\* Mutant: the dialog opens with what was typed into it the last time.
EditKeeps(s) == editModal' = [editModal EXCEPT !.open = TRUE, !.name = s]

Edit(s) == editModal' = [open |-> TRUE, name |-> s, value |-> None]

ClickEdit(s) ==
  /\ ~loading /\ ~editModal.open
  /\ Edit(s)
  /\ UNCHANGED <<daemon, puts, switches, gets, loading, deployPending, deploying>>

Type ==
  /\ editModal.open
  /\ editModal' = [editModal EXCEPT !.value = editModal.name]
  /\ UNCHANGED <<daemon, puts, switches, gets, loading, deployPending, deploying>>

(* Cancel or Escape: what was typed stays in the closed dialog.            *)
Cancel ==
  /\ editModal.open
  /\ editModal' = [editModal EXCEPT !.open = FALSE]
  /\ UNCHANGED <<daemon, puts, switches, gets, loading, deployPending, deploying>>

HandleSave ==
  /\ editModal.open /\ editModal.value # None
  /\ repo + Cardinality({p \in puts : p.phase \in {"sent", "editing"}}) < MaxEdits
  /\ \A p \in puts : p.name # editModal.name
  /\ puts' = puts \cup {[name |-> editModal.name, value |-> editModal.value,
                         edit |-> 0, base |-> {}, phase |-> "sent"]}
  /\ UNCHANGED <<daemon, switches, gets, page>>

(* An accepted save closes whatever dialog is open by then: the closure    *)
(* holds the state of the dialog it was sent from.                         *)
Saved(p) ==
  /\ p \in puts /\ p.phase = "ok"
  /\ puts' = puts \ {p}
  /\ editModal' = [open |-> FALSE, name |-> p.name, value |-> None]
  /\ FetchSecrets
  /\ UNCHANGED <<daemon, switches, loading, deployPending, deploying>>

NotSaved(p) ==
  /\ p \in puts /\ p.phase = "refused"
  /\ puts' = puts \ {p}
  /\ UNCHANGED <<daemon, switches, gets, page>>

-----------------------------------------------------------------------------
(* PUT /api/secrets/:name.                                                 *)

Becomes(p, q) == puts' = (puts \ {p}) \cup {q}

(* The request is answered; its edit is not needed any more.               *)
Answered(p, phase) == [p EXCEPT !.edit = 0, !.base = {}, !.phase = phase]

(* `sops set` reads the file, changes it and writes it again; no lock      *)
(* keeps the handlers of two PUTs apart, so that it may write over what    *)
(* another one has written since.                                          *)
SopsReads(p) ==
  /\ p \in puts /\ p.phase = "sent"
  /\ Becomes(p, [p EXCEPT !.base = file, !.phase = "editing"])
  /\ UNCHANGED <<daemon, switches, gets, page>>

SopsWrites(p) ==
  /\ p \in puts /\ p.phase = "editing"
  /\ repo' = repo + 1
  /\ file' = p.base \cup {repo'}
  /\ unkept' = unkept \cup (acked \ file')
  /\ Becomes(p, [p EXCEPT !.edit = repo', !.base = {}, !.phase = "edited"])
  /\ UNCHANGED <<deployed, flag, acked, switches, gets, page>>

(* sops or git cannot; an edit made stays in the file and no deployment is *)
(* asked for.                                                              *)
Refused(p) ==
  /\ p \in puts /\ p.phase \in {"sent", "editing", "edited"}
  /\ Becomes(p, Answered(p, "refused"))
  /\ UNCHANGED <<daemon, switches, gets, page>>

(* The switch under way has not read the edit, and will take down its flag. *)
Overlapped(n) == \E w \in switches : w.phase = "building" /\ n \notin w.at

(* git has committed and pushed, the flag is raised; that it could not be  *)
(* written is not noticed.                                                 *)
Flags(p) ==
  /\ p \in puts /\ p.phase = "edited"
  /\ flag' \in {TRUE, flag}
  /\ acked' = acked \cup {p.edit}
  /\ unkept' = IF flag' /\ p.edit \in file /\ ~Overlapped(p.edit) THEN unkept
               ELSE unkept \cup {p.edit}
  /\ Becomes(p, Answered(p, "ok"))
  /\ UNCHANGED <<repo, file, deployed, switches, gets, page>>

-----------------------------------------------------------------------------
(* The deployment.                                                         *)

\* Mutant: the button can be pressed while a deployment is under way.
DeployEnabledAlways == deployPending

(* The banner and its button, which is pending during a deployment.        *)
DeployEnabled == deployPending /\ ~deploying

HandleDeploy ==
  /\ ~loading /\ DeployEnabled
  /\ deploying' = TRUE
  /\ \E i \in 1 .. MaxDeploys :
       /\ \A w \in switches : w.id # i
       /\ \A k \in 1 .. i - 1 : \E w \in switches : w.id = k
       /\ switches' = switches \cup {[id |-> i, at |-> {}, phase |-> "started"]}
  /\ UNCHANGED <<daemon, puts, gets, loading, deployPending, editModal>>

(* nh reads the repository.                                                *)
Builds(w) ==
  /\ w \in switches /\ w.phase = "started"
  /\ switches' = (switches \ {w}) \cup {[w EXCEPT !.at = file, !.phase = "building"]}
  /\ UNCHANGED <<daemon, puts, gets, page>>

\* Mutant: the flag is taken down however the switch ends.
FlagAfterAny(phase) == FALSE

FlagAfter(phase) == flag /\ phase # "done"

(* nh ends; when the connection is lost it is killed.  A switch that fails *)
(* or is killed may have activated what it built all the same.             *)
SwitchEnds(w) ==
  /\ w \in switches /\ w.phase = "building"
  /\ \E phase \in {"done", "error", "lost"} :
       /\ switches' = (switches \ {w}) \cup {[w EXCEPT !.at = {}, !.phase = phase]}
       /\ deployed' \in IF phase = "done" THEN {w.at} ELSE {w.at, deployed}
       /\ flag' = FlagAfter(phase)
  /\ UNCHANGED <<repo, file, acked, unkept, puts, gets, page>>

\* Mutant: only a stream that ends with an event ends the deployment.
DeployOverOnEvent(w) == w.phase = "lost"

(* finally: setDeploying(false).                                           *)
DeployOver(w) == FALSE

(* The end of the stream.  A "done" that is split between two chunks is    *)
(* not recognised: nothing happens then but the finally.                   *)
StreamRead(w) ==
  /\ w \in switches /\ w.phase \in {"done", "error", "lost"}
  /\ switches' = switches \ {w}
  /\ deploying' = DeployOver(w)
  /\ \/ w.phase = "done" /\ deployPending' = FALSE /\ FetchSecrets
     \/ UNCHANGED <<deployPending, gets>>
  /\ UNCHANGED <<daemon, puts, loading, editModal>>

(* The daemon ends and starts again, perhaps by the switch it runs: systemd *)
(* empties /run/homelab-daemon, and sops, git and nh are killed with it.    *)
DaemonRestarts ==
  /\ flag' = FALSE
  /\ deployed' \in {deployed} \cup {w.at : w \in {x \in switches : x.phase = "building"}}
  /\ unkept' = unkept \cup (acked \ deployed')
  /\ puts' = {IF p.phase = "ok" THEN p ELSE Answered(p, "refused") : p \in puts}
  /\ switches' = {IF w.phase \notin {"started", "building"} THEN w
                  ELSE [w EXCEPT !.at = {}, !.phase = "lost"] : w \in switches}
  /\ UNCHANGED <<repo, file, acked, gets, page>>

-----------------------------------------------------------------------------
Deploys == \E w \in switches : Builds(w) \/ SwitchEnds(w) \/ StreamRead(w)

Saves ==
  \E p \in puts :
    SopsReads(p) \/ SopsWrites(p) \/ Refused(p) \/ Flags(p) \/ Saved(p) \/ NotSaved(p)

Next ==
  \/ Deploys \/ Saves \/ DaemonRestarts
  \/ Answers \/ NotFetched \/ \E x \in {"yes", "no"} : Fetched(x)
  \/ Refresh \/ \E s \in Secret : ClickEdit(s)
  \/ Type \/ Cancel \/ HandleSave \/ HandleDeploy

Spec == Init /\ [][Next]_vars

-----------------------------------------------------------------------------
(* A value is only ever sent for the secret it was typed for.              *)
ValueOfSecret == \A p \in puts : p.value = p.name

(* There is one deployment at a time, exactly while the button is pending. *)
OneDeploy ==
  /\ \A v, w \in switches : v = w
  /\ deploying <=> switches # {}

(* An edit that was answered with success runs in the system or is flagged *)
(* for deployment, through refused and overlapping PUTs, failing and       *)
(* killed switches and restarts of the daemon, except where the code has   *)
(* no answer: it was answered while a switch ran that had read the file    *)
(* before it and then takes down its flag (api_secrets.go:372); a          *)
(* concurrent sops has written over it (190-206); its flag was not written *)
(* and the error ignored (181), or went with /run at a restart.            *)
EditsFlagged ==
  \A n \in acked \ unkept : n \in deployed \/ flag
=============================================================================
