--------------------------- MODULE DashboardProofs ---------------------------
(***************************************************************************)
(* The pages of the dashboard, for any secrets, services, fields, units    *)
(* and machines and any number of requests.  Every step of the dashboard   *)
(* is a step of one page and leaves the others alone, so that each page    *)
(* has an invariant of its own.                                            *)
(***************************************************************************)
EXTENDS Dashboard, FiniteSetTheorems, SequenceTheorems, WellFoundedInduction, TLAPS

(* What one page sees of a step of the dashboard.                          *)
LEMMA StepOfPage ==
  ASSUME [Next]_vars
  PROVE  /\ Secrets!Next \/ UNCHANGED secretsVars
         /\ Logs!Next \/ UNCHANGED logsVars
         /\ Storage!Next \/ UNCHANGED storageVars
         /\ VMs!Next \/ UNCHANGED vmVars
         /\ Backups!Next \/ Diagnostics!Next \/ UNCHANGED dialogVars
         /\ Backups!Next \/ UNCHANGED drawerVars
         /\ Bug!Next \/ UNCHANGED bugVars
         /\ Diagnostics!Next \/ UNCHANGED listVars
         /\ Overview!Next \/ layout' = layout
         /\ page' = page
BY DEF Next, vars, OnSecrets, OnLogs, OnBackups, OnDiagnostics, OnStorage, OnVMs,
       OnOverview, OnBug

-----------------------------------------------------------------------------
(* The page of the secrets.                                                *)

(* What is in the dialog was typed for the secret of its title.            *)
PutType == [name : Secret, value : Secret, edit : Nat, base : SUBSET Nat,
            phase : {"sent", "editing", "edited", "ok", "refused"}]
SwitchType == [id : 1 .. MaxDeploys, at : SUBSET Nat,
               phase : {"started", "building", "done", "error", "lost"}]

SecretsType ==
  /\ repo \in Nat /\ file \in SUBSET Nat /\ deployed \in SUBSET Nat
  /\ flag \in BOOLEAN /\ deploying \in BOOLEAN
  /\ switches \subseteq SwitchType /\ puts \subseteq PutType
  /\ editModal \in [open : BOOLEAN, name : Secret \cup {None}, value : Secret \cup {None}]
  /\ editModal.value \in {None, editModal.name}

(* The steps of a handler of a PUT.                                        *)
Handles(p) ==
  Secrets!SopsReads(p) \/ Secrets!SopsWrites(p) \/ Secrets!Refused(p) \/ Secrets!Flags(p)

(* The requests a PUT and a switch become.                                 *)
PutAs(p, e, b, f) == [p EXCEPT !.edit = e, !.base = b, !.phase = f]
ReadAs(p, b, f) == [p EXCEPT !.base = b, !.phase = f]
SwitchAs(w, a, f) == [w EXCEPT !.at = a, !.phase = f]

LEMMA PutFields ==
  ASSUME NEW p \in PutType, NEW e \in Nat, NEW b \in SUBSET Nat,
         NEW f \in {"sent", "editing", "edited", "ok", "refused"}
  PROVE  /\ PutAs(p, e, b, f) \in PutType
         /\ PutAs(p, e, b, f).name = p.name /\ PutAs(p, e, b, f).value = p.value
         /\ PutAs(p, e, b, f).edit = e /\ PutAs(p, e, b, f).base = b
         /\ PutAs(p, e, b, f).phase = f
<1> DEFINE q == [p EXCEPT !.edit = e, !.base = b, !.phase = f]
<1>1. /\ q.name = p.name /\ q.value = p.value /\ q.edit = e /\ q.base = b /\ q.phase = f
  BY DEF PutType
<1>2. q \in PutType
  BY DEF PutType
<1> HIDE DEF q
<1>3. PutAs(p, e, b, f) = q
  BY DEF PutAs, q
<1> QED
  BY <1>1, <1>2, <1>3

LEMMA ReadFields ==
  ASSUME NEW p \in PutType, NEW b \in SUBSET Nat,
         NEW f \in {"sent", "editing", "edited", "ok", "refused"}
  PROVE  /\ ReadAs(p, b, f) \in PutType
         /\ ReadAs(p, b, f).name = p.name /\ ReadAs(p, b, f).value = p.value
         /\ ReadAs(p, b, f).edit = p.edit /\ ReadAs(p, b, f).base = b
         /\ ReadAs(p, b, f).phase = f
<1> DEFINE q == [p EXCEPT !.base = b, !.phase = f]
<1>1. /\ q.name = p.name /\ q.value = p.value /\ q.edit = p.edit /\ q.base = b
      /\ q.phase = f
  BY DEF PutType
<1>2. q \in PutType
  BY DEF PutType
<1> HIDE DEF q
<1>3. ReadAs(p, b, f) = q
  BY DEF ReadAs, q
<1> QED
  BY <1>1, <1>2, <1>3

LEMMA SwitchFields ==
  ASSUME NEW w \in SwitchType, NEW a \in SUBSET Nat,
         NEW f \in {"started", "building", "done", "error", "lost"}
  PROVE  /\ SwitchAs(w, a, f) \in SwitchType
         /\ SwitchAs(w, a, f).at = a /\ SwitchAs(w, a, f).phase = f
<1> DEFINE v == [w EXCEPT !.at = a, !.phase = f]
<1>1. v.at = a /\ v.phase = f
  BY DEF SwitchType
<1>2. v \in SwitchType
  BY DEF SwitchType
<1> HIDE DEF v
<1>3. SwitchAs(w, a, f) = v
  BY DEF SwitchAs, v
<1> QED
  BY <1>1, <1>2, <1>3

(* A handler reads the file, writes it with one more edit, or is over.     *)
LEMMA PutStep ==
  ASSUME SecretsType, NEW p \in puts, Handles(p)
  PROVE  \E q \in PutType :
           /\ puts' = (puts \ {p}) \cup {q} /\ q.name = p.name /\ q.value = p.value
           /\ \/ /\ p.phase = "sent" /\ q.phase = "editing" /\ repo' = repo
                 /\ q.edit = p.edit /\ q.base = file
              \/ /\ p.phase = "editing" /\ q.phase = "edited" /\ repo' = repo + 1
                 /\ q.edit = repo' /\ q.base = {}
              \/ /\ q.phase \in {"ok", "refused"} /\ repo' = repo
                 /\ q.edit = 0 /\ q.base = {}
<1>t. p \in PutType /\ p.edit \in Nat /\ repo \in Nat /\ file \in SUBSET Nat
  BY DEF SecretsType, PutType
<1>1. CASE Secrets!SopsReads(p)
  <2>1. PICK q : q = ReadAs(p, file, "editing")
    OBVIOUS
  <2>2. p.phase = "sent" /\ repo' = repo /\ puts' = (puts \ {p}) \cup {q}
    BY <1>1, <2>1 DEF Secrets!SopsReads, Secrets!Becomes, Secrets!daemon, ReadAs
  <2>3. /\ q \in PutType /\ q.name = p.name /\ q.value = p.value
        /\ q.edit = p.edit /\ q.base = file /\ q.phase = "editing"
    BY <1>t, <2>1, ReadFields
  <2> QED
    BY <2>2, <2>3
<1>2. CASE Secrets!SopsWrites(p)
  <2>1. PICK q : q = PutAs(p, repo', {}, "edited")
    OBVIOUS
  <2>2. p.phase = "editing" /\ repo' = repo + 1 /\ puts' = (puts \ {p}) \cup {q}
    BY <1>2, <2>1 DEF Secrets!SopsWrites, Secrets!Becomes, PutAs
  <2>3. /\ q \in PutType /\ q.name = p.name /\ q.value = p.value
        /\ q.edit = repo' /\ q.base = {} /\ q.phase = "edited"
    <3>1. repo' \in Nat
      BY <1>t, <2>2
    <3> QED
      BY <1>t, <2>1, <3>1, PutFields
  <2> QED
    BY <2>2, <2>3
<1>3. CASE Secrets!Refused(p) \/ Secrets!Flags(p)
  <2>1. PICK f \in {"ok", "refused"} :
          repo' = repo /\ puts' = (puts \ {p}) \cup {Secrets!Answered(p, f)}
    BY <1>3 DEF Secrets!Refused, Secrets!Flags, Secrets!Becomes, Secrets!daemon
  <2>2. PICK q : q = PutAs(p, 0, {}, f)
    OBVIOUS
  <2>3. puts' = (puts \ {p}) \cup {q}
    BY <2>1, <2>2 DEF Secrets!Answered, PutAs
  <2>4. /\ q \in PutType /\ q.name = p.name /\ q.value = p.value
        /\ q.edit = 0 /\ q.base = {} /\ q.phase = f
    BY <1>t, <2>2, PutFields
  <2> QED
    BY <2>1, <2>3, <2>4
<1> QED
  BY <1>1, <1>2, <1>3 DEF Handles

(* A restart ends every request that had not been answered.                *)
LEMMA RestartPuts ==
  ASSUME SecretsType, Secrets!DaemonRestarts, NEW q \in puts'
  PROVE  /\ q \in PutType /\ q.phase \in {"ok", "refused"}
         /\ \E p \in puts : /\ q.name = p.name /\ q.value = p.value
                            /\ q = p \/ (q.edit = 0 /\ q.base = {})
<1>1. PICK p \in puts : q = IF p.phase = "ok" THEN p ELSE Secrets!Answered(p, "refused")
  BY DEF Secrets!DaemonRestarts
<1>2. p \in PutType
  BY DEF SecretsType
<1>3. CASE p.phase = "ok"
  BY <1>1, <1>2, <1>3
<1>4. CASE p.phase # "ok"
  <2>1. q = PutAs(p, 0, {}, "refused")
    BY <1>1, <1>4 DEF Secrets!Answered, PutAs
  <2>2. /\ q \in PutType /\ q.name = p.name /\ q.value = p.value
        /\ q.edit = 0 /\ q.base = {} /\ q.phase = "refused"
    BY <1>2, <2>1, PutFields
  <2> QED
    BY <2>2
<1> QED
  BY <1>3, <1>4

LEMMA RestartSwitches ==
  ASSUME SecretsType, Secrets!DaemonRestarts, NEW v \in switches'
  PROVE  /\ v \in SwitchType /\ v.phase # "building"
         /\ \E w \in switches : v.at \in {w.at, {}}
<1>1. PICK w \in switches : v = IF w.phase \notin {"started", "building"} THEN w
                                ELSE [w EXCEPT !.at = {}, !.phase = "lost"]
  BY DEF Secrets!DaemonRestarts
<1>2. w \in SwitchType
  BY DEF SecretsType
<1>3. CASE w.phase \notin {"started", "building"}
  BY <1>1, <1>2, <1>3
<1>4. CASE w.phase \in {"started", "building"}
  <2>0. v = SwitchAs(w, {}, "lost")
    BY <1>1, <1>4 DEF SwitchAs
  <2>1. v \in SwitchType /\ v.at = {} /\ v.phase = "lost"
    BY <1>2, <2>0, SwitchFields
  <2> QED
    BY <2>1
<1> QED
  BY <1>3, <1>4

LEMMA SecretsInit ==
  ASSUME Secrets!Init
  PROVE  /\ SecretsType /\ acked = {} /\ switches = {} /\ puts = {}
         /\ deploying = FALSE /\ editModal.value = None
<1>1. Secrets!Closed.value = None
      /\ Secrets!Closed \in [open : BOOLEAN, name : Secret \cup {None},
                             value : Secret \cup {None}]
  BY DEF Secrets!Closed
<1> QED
  BY <1>1 DEF Secrets!Init, SecretsType

LEMMA SecretsTyped ==
  ASSUME SecretsType, Secrets!Next \/ UNCHANGED secretsVars
  PROVE  SecretsType'
<1> USE DEF Secrets!page, Secrets!daemon
<1>t. repo \in Nat /\ file \in SUBSET Nat /\ deployed \in SUBSET Nat
  BY DEF SecretsType
<1>1. CASE UNCHANGED secretsVars
  BY <1>1 DEF secretsVars, SecretsType
<1>2. ASSUME NEW w \in switches, Secrets!Builds(w) PROVE SecretsType'
  <2>1. w \in SwitchType
    BY DEF SecretsType
  <2>2. PICK v : /\ v = SwitchAs(w, file, "building")
                 /\ switches' = (switches \ {w}) \cup {v}
    BY <1>2 DEF Secrets!Builds, SwitchAs
  <2>4. v \in SwitchType
    BY <1>t, <2>1, <2>2, SwitchFields
  <2>3. UNCHANGED <<repo, file, deployed, flag, deploying, puts, editModal>>
    BY <1>2 DEF Secrets!Builds
  <2> QED
    BY <2>2, <2>3, <2>4 DEF SecretsType
<1>3. ASSUME NEW w \in switches, Secrets!SwitchEnds(w) PROVE SecretsType'
  <2>1. w \in SwitchType /\ w.at \in SUBSET Nat
    BY DEF SecretsType, SwitchType
  <2>2. PICK f \in {"done", "error", "lost"} :
          /\ switches' = (switches \ {w}) \cup {SwitchAs(w, {}, f)}
          /\ deployed' \in {w.at, deployed}
    BY <1>3 DEF Secrets!SwitchEnds, SwitchAs
  <2>3. SwitchAs(w, {}, f) \in SwitchType
    BY <2>1, SwitchFields
  <2>4. flag' \in BOOLEAN /\ UNCHANGED <<repo, file, deploying, puts, editModal>>
    BY <1>3 DEF Secrets!SwitchEnds, Secrets!FlagAfter
  <2>5. deployed' \in SUBSET Nat
    BY <1>t, <2>1, <2>2
  <2> QED
    BY <2>2, <2>3, <2>4, <2>5 DEF SecretsType
<1>4. ASSUME NEW w \in switches, Secrets!StreamRead(w) PROVE SecretsType'
  <2>1. /\ switches' = switches \ {w} /\ deploying' = FALSE
        /\ UNCHANGED <<repo, file, deployed, flag, puts, editModal>>
    BY <1>4 DEF Secrets!StreamRead, Secrets!FetchSecrets, Secrets!DeployOver
  <2> QED
    BY <2>1 DEF SecretsType
<1>5. ASSUME NEW p \in puts, Handles(p) PROVE SecretsType'
  <2>1. puts' \subseteq PutType /\ repo' \in Nat
    BY <1>5, <1>t, PutStep DEF SecretsType
  <2>2. file' \in SUBSET Nat
    <3>1. CASE file' = file
      BY <3>1, <1>t
    <3>2. CASE Secrets!SopsWrites(p)
      <4>1. p.base \in SUBSET Nat
        BY DEF SecretsType, PutType
      <4> QED
        BY <3>2, <4>1, <2>1 DEF Secrets!SopsWrites
    <3> QED
      BY <1>5, <3>1, <3>2
      DEF Handles, Secrets!SopsReads, Secrets!Refused, Secrets!Flags
  <2>3. flag' \in BOOLEAN
    <3>1. flag' \in {TRUE, flag}
      BY <1>5 DEF Handles, Secrets!SopsReads, Secrets!SopsWrites, Secrets!Refused, Secrets!Flags
    <3> QED
      BY <3>1 DEF SecretsType
  <2>4. UNCHANGED <<deployed, switches, deploying, editModal>>
    BY <1>5 DEF Handles, Secrets!SopsReads, Secrets!SopsWrites, Secrets!Refused, Secrets!Flags
  <2> QED
    BY <2>1, <2>2, <2>3, <2>4 DEF SecretsType
<1>6. CASE Secrets!DaemonRestarts
  <2>1. puts' \subseteq PutType /\ switches' \subseteq SwitchType
    BY <1>6, RestartPuts, RestartSwitches
  <2>2. deployed' \in SUBSET Nat
    <3>1. deployed' = deployed \/ \E w \in switches : deployed' = w.at
      BY <1>6 DEF Secrets!DaemonRestarts
    <3>2. \A w \in switches : w.at \in SUBSET Nat
      BY DEF SecretsType, SwitchType
    <3> QED
      BY <3>1, <3>2, <1>t
  <2>3. flag' = FALSE /\ UNCHANGED <<repo, file, deploying, editModal>>
    BY <1>6 DEF Secrets!DaemonRestarts
  <2> QED
    BY <2>1, <2>2, <2>3 DEF SecretsType
<1>8. ASSUME NEW p \in puts, Secrets!Saved(p) \/ Secrets!NotSaved(p) PROVE SecretsType'
  <2>1. puts' = puts \ {p} /\ UNCHANGED <<repo, file, deployed, flag, deploying, switches>>
    BY <1>8 DEF Secrets!Saved, Secrets!NotSaved
  <2>2. \/ editModal' = editModal
        \/ editModal' = [open |-> FALSE, name |-> p.name, value |-> None]
    BY <1>8 DEF Secrets!Saved, Secrets!NotSaved
  <2>3. CASE editModal' = editModal
    BY <2>1, <2>3 DEF SecretsType
  <2>4. CASE editModal' = [open |-> FALSE, name |-> p.name, value |-> None]
    <3>1. p.name \in Secret
      BY DEF SecretsType, PutType
    <3>2. editModal'.value = None
          /\ editModal' \in [open : BOOLEAN, name : Secret \cup {None},
                             value : Secret \cup {None}]
      BY <3>1, <2>4
    <3> QED
      BY <2>1, <3>2 DEF SecretsType
  <2> QED
    BY <2>2, <2>3, <2>4
<1>9. CASE \/ Secrets!Answers \/ Secrets!NotFetched \/ Secrets!Refresh
           \/ \E x \in {"yes", "no"} : Secrets!Fetched(x)
  BY <1>9 DEF Secrets!Answers, Secrets!NotFetched, Secrets!Refresh, Secrets!Fetched,
              Secrets!FetchSecrets, SecretsType
<1>10. ASSUME NEW s \in Secret, Secrets!ClickEdit(s) PROVE SecretsType'
  BY <1>10 DEF Secrets!ClickEdit, Secrets!Edit, SecretsType
<1>11. CASE Secrets!Type \/ Secrets!Cancel
  <2>0. /\ editModal \in [open : BOOLEAN, name : Secret \cup {None},
                          value : Secret \cup {None}]
        /\ editModal.value \in {None, editModal.name}
    BY DEF SecretsType
  <2>1. UNCHANGED <<repo, file, deployed, flag, deploying, switches, puts>>
    BY <1>11 DEF Secrets!Type, Secrets!Cancel
  <2>2. PICK open \in BOOLEAN, value \in {editModal.value, editModal.name} :
          editModal' = [open |-> open, name |-> editModal.name, value |-> value]
    <3>1. CASE Secrets!Type
      <4>1. editModal' = [editModal EXCEPT !.value = editModal.name]
        BY <3>1 DEF Secrets!Type
      <4>2. editModal' = [open |-> editModal.open, name |-> editModal.name,
                          value |-> editModal.name]
        BY <4>1, <2>0
      <4> QED
        BY <4>2, <2>0
    <3>2. CASE Secrets!Cancel
      <4>1. editModal' = [editModal EXCEPT !.open = FALSE]
        BY <3>2 DEF Secrets!Cancel
      <4>2. editModal' = [open |-> FALSE, name |-> editModal.name,
                          value |-> editModal.value]
        BY <4>1, <2>0
      <4> QED
        BY <4>2
    <3> QED
      BY <1>11, <3>1, <3>2
  <2>3. /\ editModal' \in [open : BOOLEAN, name : Secret \cup {None},
                           value : Secret \cup {None}]
        /\ editModal'.value \in {None, editModal'.name}
    BY <2>0, <2>2
  <2> QED
    BY <2>1, <2>3 DEF SecretsType
<1>12. CASE Secrets!HandleSave
  <2> DEFINE q == [name |-> editModal.name, value |-> editModal.value,
                   edit |-> 0, base |-> {}, phase |-> "sent"]
  <2>1. /\ editModal.value # None /\ puts' = puts \cup {q}
        /\ UNCHANGED <<repo, file, deployed, flag, deploying, switches, editModal>>
    BY <1>12 DEF Secrets!HandleSave
  <2>2. editModal.value \in Secret /\ editModal.name = editModal.value
    BY <2>1 DEF SecretsType
  <2>3. q \in PutType
    BY <2>2 DEF PutType
  <2> QED
    BY <2>1, <2>3 DEF SecretsType
<1>13. CASE Secrets!HandleDeploy
  <2>1. PICK i \in 1 .. MaxDeploys :
          switches' = switches \cup {[id |-> i, at |-> {}, phase |-> "started"]}
    BY <1>13 DEF Secrets!HandleDeploy
  <2>2. [id |-> i, at |-> {}, phase |-> "started"] \in SwitchType
    BY DEF SwitchType
  <2>3. deploying' = TRUE /\ UNCHANGED <<repo, file, deployed, flag, puts, editModal>>
    BY <1>13 DEF Secrets!HandleDeploy
  <2> QED
    BY <2>1, <2>2, <2>3 DEF SecretsType
<1> QED
  BY <1>1, <1>2, <1>3, <1>4, <1>5, <1>6, <1>8, <1>9, <1>10, <1>11, <1>12, <1>13
  DEF Secrets!Next, Secrets!Deploys, Secrets!Saves, Handles

(* A deployment is under way exactly while its button is pending.          *)
OneSwitch ==
  \/ deploying = TRUE /\ \E w : switches = {w}
  \/ deploying = FALSE /\ switches = {}

(* What the daemon is held to, the edits answered with success but for the *)
(* exceptions.                                                             *)
Owed == acked \ unkept

(* The file holds them, a switch under way has read them, and none that    *)
(* does not run in the system is without a flag.                           *)
SwitchesRead ==
  /\ Owed \subseteq file
  /\ \A w \in switches : w.phase = "building" => Owed \subseteq w.at
  /\ \A n \in Owed : n \in deployed \/ flag

ValuesBelong == \A p \in puts : p.value = p.name

SecretsInv == SecretsType /\ OneSwitch /\ SwitchesRead /\ ValuesBelong

(* Steps that have nothing to do with deployments.                         *)
LEMMA NoDeployment ==
  ASSUME Secrets!Next \/ UNCHANGED secretsVars
  PROVE  \/ Secrets!Deploys \/ Secrets!HandleDeploy \/ Secrets!DaemonRestarts
         \/ UNCHANGED <<deployed, switches, deploying>>
BY DEF secretsVars, Secrets!Next, Secrets!Saves, Secrets!page, Secrets!daemon,
       Secrets!SopsReads, Secrets!SopsWrites, Secrets!Flags, Secrets!Refused,
       Secrets!Saved, Secrets!NotSaved, Secrets!Answers, Secrets!NotFetched,
       Secrets!Refresh, Secrets!Fetched, Secrets!ClickEdit, Secrets!Type,
       Secrets!Cancel, Secrets!HandleSave

(* Steps that change no request and no edit.                               *)
LEMMA NoEdit ==
  ASSUME Secrets!Next \/ UNCHANGED secretsVars
  PROVE  \/ \E w \in switches :
              Secrets!Builds(w) \/ Secrets!SwitchEnds(w) \/ Secrets!StreamRead(w)
         \/ \E p \in puts : Handles(p)
         \/ Secrets!HandleSave \/ Secrets!HandleDeploy \/ Secrets!DaemonRestarts
         \/ /\ UNCHANGED <<repo, file, deployed, flag, acked, unkept, switches>>
            /\ puts' \subseteq puts
BY DEF secretsVars, Secrets!Next, Secrets!Saves, Secrets!Deploys, Secrets!Saved, Handles,
       Secrets!NotSaved, Secrets!Answers, Secrets!NotFetched, Secrets!Refresh,
       Secrets!Fetched, Secrets!ClickEdit, Secrets!Type, Secrets!Cancel,
       Secrets!daemon

LEMMA OneSwitchStays ==
  ASSUME SecretsType, OneSwitch, Secrets!Next \/ UNCHANGED secretsVars
  PROVE  OneSwitch'
<1>1. CASE UNCHANGED <<switches, deploying>>
  BY <1>1 DEF OneSwitch
<1>2. ASSUME NEW w \in switches, Secrets!Builds(w) \/ Secrets!SwitchEnds(w)
      PROVE  OneSwitch'
  <2>1. deploying' = deploying /\ \E v : switches' = (switches \ {w}) \cup {v}
    BY <1>2 DEF Secrets!Builds, Secrets!SwitchEnds, Secrets!page
  <2> QED
    BY <1>2, <2>1 DEF OneSwitch
<1>3. ASSUME NEW w \in switches, Secrets!StreamRead(w) PROVE OneSwitch'
  <2>1. deploying' = FALSE /\ switches' = switches \ {w}
    BY <1>3 DEF Secrets!StreamRead, Secrets!DeployOver
  <2> QED
    BY <1>3, <2>1 DEF OneSwitch
<1>4. CASE Secrets!HandleDeploy
  <2>1. ~deploying /\ deploying' = TRUE /\ \E v : switches' = switches \cup {v}
    BY <1>4 DEF Secrets!HandleDeploy, Secrets!DeployEnabled
  <2> QED
    BY <2>1 DEF OneSwitch
<1>5. CASE Secrets!DaemonRestarts
  <2> DEFINE f(w) == IF w.phase \notin {"started", "building"} THEN w
                     ELSE [w EXCEPT !.at = {}, !.phase = "lost"]
  <2>1. deploying' = deploying /\ switches' = {f(w) : w \in switches}
    BY <1>5 DEF Secrets!DaemonRestarts, Secrets!page
  <2> HIDE DEF f
  <2>2. \A w : switches = {w} => switches' = {f(w)}
    BY <2>1
  <2>3. switches = {} => switches' = {}
    BY <2>1
  <2> QED
    BY <2>1, <2>2, <2>3 DEF OneSwitch
<1> QED
  BY <1>1, <1>2, <1>3, <1>4, <1>5, NoDeployment DEF Secrets!Deploys

(* A save takes its secret from the dialog it takes the value from.        *)
LEMMA ValuesStay ==
  ASSUME SecretsType, ValuesBelong, Secrets!Next \/ UNCHANGED secretsVars
  PROVE  ValuesBelong'
<1>1. CASE puts' \subseteq puts
  BY <1>1 DEF ValuesBelong
<1>2. ASSUME NEW p \in puts, Handles(p) PROVE ValuesBelong'
  <2>1. PICK q : puts' = (puts \ {p}) \cup {q} /\ q.name = p.name /\ q.value = p.value
    BY <1>2, PutStep
  <2> QED
    BY <2>1 DEF ValuesBelong
<1>3. CASE Secrets!DaemonRestarts
  <2>1. \A q \in puts' : \E p \in puts : q.name = p.name /\ q.value = p.value
    BY <1>3, RestartPuts
  <2> QED
    BY <2>1 DEF ValuesBelong
<1>4. CASE Secrets!HandleSave
  <2> DEFINE q == [name |-> editModal.name, value |-> editModal.value,
                   edit |-> 0, base |-> {}, phase |-> "sent"]
  <2>1. editModal.value # None /\ puts' = puts \cup {q}
    BY <1>4 DEF Secrets!HandleSave
  <2>2. editModal.name = editModal.value
    BY <2>1 DEF SecretsType
  <2> QED
    BY <2>1, <2>2 DEF ValuesBelong
<1>5. ASSUME NEW w \in switches,
             Secrets!Builds(w) \/ Secrets!SwitchEnds(w) \/ Secrets!StreamRead(w)
      PROVE  puts' = puts
  BY <1>5 DEF Secrets!Builds, Secrets!SwitchEnds, Secrets!StreamRead
<1>6. CASE Secrets!HandleDeploy
  BY <1>6, <1>1 DEF Secrets!HandleDeploy
<1> QED
  BY <1>1, <1>2, <1>3, <1>4, <1>5, <1>6, NoEdit

LEMMA ReadStays ==
  ASSUME SecretsType, OneSwitch, SwitchesRead, Secrets!Next \/ UNCHANGED secretsVars
  PROVE  SwitchesRead'
<1> USE DEF SwitchesRead, Owed
<1>1. ASSUME UNCHANGED <<file, deployed, flag, acked, unkept, switches>>
      PROVE  SwitchesRead'
  BY <1>1
<1>2. ASSUME NEW w \in switches, Secrets!Builds(w) PROVE SwitchesRead'
  <2>0. w \in SwitchType /\ file \in SUBSET Nat
    BY DEF SecretsType
  <2>1. PICK v : /\ v = SwitchAs(w, file, "building")
                 /\ switches' = (switches \ {w}) \cup {v}
                 /\ UNCHANGED <<file, deployed, flag, acked, unkept>>
    BY <1>2 DEF Secrets!Builds, Secrets!daemon, SwitchAs
  <2>2. v.at = file
    BY <2>0, <2>1, SwitchFields
  <2> QED
    BY <2>1, <2>2
<1>3. ASSUME NEW w \in switches, Secrets!SwitchEnds(w) PROVE SwitchesRead'
  <2>0. w \in SwitchType
    BY DEF SecretsType
  <2>1. PICK f \in {"done", "error", "lost"} :
          /\ switches' = (switches \ {w}) \cup {SwitchAs(w, {}, f)}
          /\ deployed' \in IF f = "done" THEN {w.at} ELSE {w.at, deployed}
          /\ flag' = (flag /\ f # "done")
    BY <1>3 DEF Secrets!SwitchEnds, Secrets!FlagAfter, SwitchAs
  <2>2. w.phase = "building" /\ UNCHANGED <<file, acked, unkept>>
    BY <1>3 DEF Secrets!SwitchEnds, SwitchAs
  <2>3. SwitchAs(w, {}, f).phase = f
    BY <2>0, SwitchFields
  <2>4. \A v \in switches' : v.phase # "building"
    BY <2>1, <2>3 DEF OneSwitch
  <2>5. \A n \in Owed : n \in w.at
    BY <2>2
  <2>6. \A n \in Owed : n \in deployed' \/ flag'
    BY <2>1, <2>5
  <2> QED
    BY <2>2, <2>4, <2>6
<1>4. ASSUME NEW w \in switches, Secrets!StreamRead(w) PROVE SwitchesRead'
  BY <1>4 DEF Secrets!StreamRead, Secrets!daemon
<1>5. ASSUME NEW p \in puts, Secrets!SopsReads(p) \/ Secrets!Refused(p) PROVE SwitchesRead'
  BY <1>5, <1>1 DEF Secrets!SopsReads, Secrets!Refused, Secrets!daemon
<1>6. ASSUME NEW p \in puts, Secrets!SopsWrites(p) PROVE SwitchesRead'
  <2>1. /\ unkept' = unkept \cup (acked \ file')
        /\ UNCHANGED <<deployed, flag, acked, switches>>
    BY <1>6 DEF Secrets!SopsWrites
  <2> QED
    BY <2>1
<1>7. ASSUME NEW p \in puts, Secrets!Flags(p) PROVE SwitchesRead'
  <2> DEFINE n == p.edit
  <2>1. /\ flag' \in {TRUE, flag} /\ acked' = acked \cup {n}
        /\ unkept' = IF flag' /\ n \in file /\ ~Secrets!Overlapped(n) THEN unkept
                     ELSE unkept \cup {n}
        /\ UNCHANGED <<file, deployed, switches>>
    BY <1>7 DEF Secrets!Flags
  <2> HIDE DEF n
  <2>2. CASE flag' /\ n \in file /\ ~Secrets!Overlapped(n)
    <3>1. Owed' \subseteq Owed \cup {n}
      BY <2>1, <2>2
    <3>2. \A w \in switches : w.phase = "building" => n \in w.at
      BY <2>2 DEF Secrets!Overlapped
    <3>3. Owed' \subseteq file'
      BY <3>1, <2>1, <2>2
    <3>4. \A w \in switches' : w.phase = "building" => Owed' \subseteq w.at
      BY <3>1, <3>2, <2>1
    <3> QED
      BY <3>3, <3>4, <2>2
  <2>3. CASE ~(flag' /\ n \in file /\ ~Secrets!Overlapped(n))
    <3>1. Owed' \subseteq Owed
      BY <2>1, <2>3
    <3>2. flag => flag'
      BY <2>1
    <3> QED
      BY <3>1, <3>2, <2>1
  <2> QED
    BY <2>2, <2>3
<1>8. CASE Secrets!HandleSave \/ Secrets!HandleDeploy
  <2>1. UNCHANGED <<file, deployed, flag, acked, unkept>>
    BY <1>8 DEF Secrets!HandleSave, Secrets!HandleDeploy, Secrets!daemon
  <2>2. switches' = switches
        \/ \E i : switches' = switches \cup {[id |-> i, at |-> {}, phase |-> "started"]}
    BY <1>8 DEF Secrets!HandleSave, Secrets!HandleDeploy
  <2> QED
    BY <2>1, <2>2
<1>9. CASE Secrets!DaemonRestarts
  <2>1. unkept' = unkept \cup (acked \ deployed') /\ UNCHANGED <<file, acked>>
    BY <1>9 DEF Secrets!DaemonRestarts
  <2>2. \A v \in switches' : v.phase # "building"
    BY <1>9, RestartSwitches
  <2> QED
    BY <2>1, <2>2
<1> QED
  BY <1>1, <1>2, <1>3, <1>4, <1>5, <1>6, <1>7, <1>8, <1>9, NoEdit DEF Handles

LEMMA SecretsHolds ==
  /\ Secrets!Init => SecretsInv
  /\ SecretsInv /\ (Secrets!Next \/ UNCHANGED secretsVars) => SecretsInv'
<1>1. Secrets!Init => SecretsInv
  <2> SUFFICES ASSUME Secrets!Init PROVE SecretsInv
    OBVIOUS
  <2> QED
    BY SecretsInit DEF SecretsInv, OneSwitch, SwitchesRead, Owed, ValuesBelong
<1> QED
  BY <1>1, SecretsTyped, OneSwitchStays, ValuesStay, ReadStays DEF SecretsInv

-----------------------------------------------------------------------------
(* The page of the storage pools.                                          *)

(* An action is under way exactly while the buttons are disabled.          *)
StorageInv ==
  \/ actionLoading = TRUE /\ \E r : actionRequests = {r}
  \/ actionLoading = FALSE /\ actionRequests = {}

LEMMA StorageHolds ==
  /\ Storage!Init => StorageInv
  /\ StorageInv /\ (Storage!Next \/ UNCHANGED storageVars) => StorageInv'
<1>1. Storage!Init => StorageInv
  BY DEF Storage!Init, StorageInv
<1> SUFFICES ASSUME StorageInv, Storage!Next \/ UNCHANGED storageVars PROVE StorageInv'
  BY <1>1
<1>2. CASE UNCHANGED <<actionLoading, actionRequests>>
  BY <1>2 DEF StorageInv
<1>3. ASSUME NEW r \in actionRequests, Storage!Handles(r) PROVE StorageInv'
  <2>1. /\ UNCHANGED actionLoading
        /\ \E q : actionRequests' = (actionRequests \ {r}) \cup {q}
    BY <1>3 DEF Storage!Handles
  <2> QED
    BY <1>3, <2>1 DEF StorageInv
<1>4. ASSUME NEW r \in actionRequests, Storage!ActionSettled(r) PROVE StorageInv'
  <2>1. actionLoading' = FALSE /\ actionRequests' = actionRequests \ {r}
    BY <1>4 DEF Storage!ActionSettled, Storage!BusyAfter
  <2> QED
    BY <1>4, <2>1 DEF StorageInv
<1>5. ASSUME NEW op \in Storage!Offers, Storage!Press(op) PROVE StorageInv'
  <2>1. ~actionLoading
    BY DEF Storage!Offers
  <2>2. actionLoading' = TRUE /\ \E q : actionRequests' = actionRequests \cup {q}
    BY <1>5 DEF Storage!Press, Storage!Pressed
  <2> QED
    BY <2>1, <2>2 DEF StorageInv
<1>d. \/ \E r \in actionRequests : Storage!Handles(r) \/ Storage!ActionSettled(r)
      \/ \E op \in Storage!Offers : Storage!Press(op)
      \/ UNCHANGED <<actionLoading, actionRequests>>
  BY DEF storageVars, Storage!Next, Storage!Acts, Storage!Calculates, Storage!Poll,
         Storage!DaemonChanges, Storage!CalculateUsage, Storage!UsageArrives,
         Storage!UsageSettled, Storage!Fetched, Storage!actions
<1> QED
  BY <1>2, <1>3, <1>4, <1>5, <1>d

-----------------------------------------------------------------------------
(* The dialog of the logs, on two pages.                                   *)

(* Logs that were asked for before the dialog was opened are remembered;   *)
(* the others are those of its title.                                      *)
DialogInv ==
  /\ logs \in [open : BOOLEAN, name : Unit \cup {""},
               content : Unit \cup {"", "loading", "failed"}]
  /\ logs.open => asked \subseteq pending \cup {logs.name}
  /\ logs.open /\ logs.content \in Unit \ {logs.name} => logs.content \in pending

LEMMA DialogStep ==
  ASSUME DialogInv, NEW u \in Unit,
         Backups!ShowLogs(u) \/ Backups!LogsArrive(u)
  PROVE  DialogInv'
<1>a. Unit \cap {"", "loading", "failed"} = {}
  BY DashboardAssumption DEF DashboardAssumption, Backups!DialogAssumption
<1> USE DEF DialogInv
<1>1. CASE Backups!ShowLogs(u)
  <2>1. /\ logs' = [open |-> TRUE, name |-> u, content |-> "loading"]
        /\ pending' = asked /\ asked' = asked \cup {u}
    BY <1>1 DEF Backups!ShowLogs, Backups!Opened
  <2> QED
    BY <2>1, <1>a
<1>2. CASE Backups!LogsArrive(u)
  <2>1. PICK content \in {u, "failed"} :
          /\ logs' = [logs EXCEPT !.content = content]
          /\ u \in asked /\ asked' = asked \ {u} /\ pending' = pending
    BY <1>2 DEF Backups!LogsArrive, Backups!Contents
  <2>2. logs' = [open |-> logs.open, name |-> logs.name, content |-> content]
    BY <2>1
  <2>3. /\ logs'.open = logs.open /\ logs'.name = logs.name /\ logs'.content = content
        /\ logs' \in [open : BOOLEAN, name : Unit \cup {""},
                      content : Unit \cup {"", "loading", "failed"}]
    BY <2>2
  <2> QED
    BY <2>1, <2>3, <1>a
<1> QED
  BY <1>1, <1>2

LEMMA DialogHolds ==
  /\ Backups!Init => DialogInv
  /\ DialogInv /\ (Backups!Next \/ Diagnostics!Next \/ UNCHANGED dialogVars) => DialogInv'
<1>1. Backups!Init => DialogInv
  <2> SUFFICES ASSUME Backups!Init PROVE DialogInv
    OBVIOUS
  <2>1. logs = [open |-> FALSE, name |-> "", content |-> ""]
    BY DEF Backups!Init, Backups!DialogInit
  <2>2. logs.open = FALSE /\ logs \in [open : BOOLEAN, name : Unit \cup {""},
                                      content : Unit \cup {"", "loading", "failed"}]
    BY <2>1
  <2> QED
    BY <2>2 DEF DialogInv
<1> SUFFICES ASSUME DialogInv, Backups!Next \/ Diagnostics!Next \/ UNCHANGED dialogVars
             PROVE  DialogInv'
  BY <1>1
<1>2. CASE UNCHANGED dialogVars
  BY <1>2 DEF dialogVars, DialogInv
<1>3. ASSUME NEW u \in Unit, Backups!ShowLogs(u) \/ Backups!LogsArrive(u)
      PROVE  DialogInv'
  BY <1>3, DialogStep
<1>4. CASE Backups!CloseLogs
  <2>1. logs' = [logs EXCEPT !.open = FALSE]
    BY <1>4 DEF Backups!CloseLogs
  <2>2. logs' = [open |-> FALSE, name |-> logs.name, content |-> logs.content]
    BY <2>1 DEF DialogInv
  <2> QED
    BY <2>2 DEF DialogInv
<1>5. \/ \E u \in Unit : Backups!ShowLogs(u) \/ Backups!LogsArrive(u)
      \/ Backups!CloseLogs \/ UNCHANGED dialogVars
  BY DEF dialogVars, Backups!Next, Diagnostics!Next, Backups!dialog, Diagnostics!dialog,
         Backups!Settles, Backups!Overview, Backups!EditJob, Backups!RunJob,
         Backups!RunAnswered, Backups!showLogs, Backups!Patched, Backups!JobSaved,
         Backups!TypeInDrawer, Backups!CancelEdit, Backups!SaveJob, Backups!ShowLogs,
         Backups!LogsArrive, Backups!CloseLogs, Backups!Opened, Backups!Contents,
         Diagnostics!Settles, Diagnostics!ServiceChanges, Diagnostics!FetchDiagnostics,
         Diagnostics!Polled, Diagnostics!showLogs, Diagnostics!ShowLogs,
         Diagnostics!LogsArrive, Diagnostics!CloseLogs, Diagnostics!Opened,
         Diagnostics!Contents
<1> QED
  BY <1>2, <1>3, <1>4, <1>5

-----------------------------------------------------------------------------
(* The page of the logs.                                                   *)

(* The query under way is the one the controls show, and the lines of the  *)
(* last one that ended well are kept until another is sent.                *)
LogsInv ==
  /\ config = "loading" =>
       url \in [service : Service \cup {Nothing}, window : Window,
               field : [Field -> Value]]
  /\ config # "ready" => request = Logs!Idle /\ lines = Nothing /\ debounce = FALSE
  /\ config = "ready" => Logs!LinesOfQuery
  /\ \/ request = Logs!Idle
     \/ /\ request = [query |-> request.query, phase |-> request.phase]
        /\ request.phase \in {"sent", "answered", "failed"}
  /\ debounce \in BOOLEAN /\ (~debounce => debouncedQuery = localQuery)
  /\ Logs!LinesOfService

(* A step that leaves the controls alone and sends nothing or the query    *)
(* they show.                                                              *)
LogsKeep ==
  /\ UNCHANGED <<config, url, localQuery, debouncedQuery, debounce>>
  /\ \/ UNCHANGED <<request, lines, error>>
     \/ /\ request' = [query |-> Logs!Current, phase |-> "sent"]
        /\ UNCHANGED lines
        /\ config = "ready"

LEMMA QueryService ==
  ASSUME NEW u, NEW text
  PROVE  Logs!Query(u, text).service = Logs!activeService(u)
BY DEF Logs!Query

LEMMA IdlePhase == Logs!Idle.phase = "none" /\ \A q : [query |-> q, phase |-> "sent"] # Logs!Idle
<1>1. Logs!Idle.phase = "none"
  BY DEF Logs!Idle
<1>2. \A q : [query |-> q, phase |-> "sent"].phase = "sent"
  OBVIOUS
<1> QED
  BY <1>1, <1>2

LEMMA LogsInit == Logs!Init => LogsInv
<1>a. "" \in Value
  BY DashboardAssumption DEF DashboardAssumption, Logs!LogsAssumption
<1>1. Logs!Init => url \in [service : Service \cup {Nothing}, window : Window,
                            field : [Field -> Value]]
  BY <1>a DEF Logs!Init
<1> QED
  BY <1>1 DEF Logs!Init, LogsInv, Logs!LinesOfService

LEMMA LogsKept ==
  ASSUME LogsInv, LogsKeep
  PROVE  LogsInv'
<1>1. Logs!Current' = Logs!Current
  BY DEF LogsKeep, Logs!Current, Logs!Query, Logs!activeService
<1>2. CASE UNCHANGED <<request, lines, error>>
  BY <1>1, <1>2 DEF LogsKeep, LogsInv, Logs!LinesOfQuery, Logs!LinesOfService,
                    Logs!activeService, Logs!Idle
<1>3. CASE /\ request' = [query |-> Logs!Current, phase |-> "sent"]
           /\ UNCHANGED lines /\ config = "ready"
  <2>1. request'.query = Logs!Current' /\ request'.phase = "sent" /\ request' # Logs!Idle'
    BY <1>1, <1>3, IdlePhase DEF Logs!Idle
  <2> QED
    BY <1>3, <2>1 DEF LogsKeep, LogsInv, Logs!LinesOfQuery, Logs!LinesOfService,
                      Logs!activeService
<1> QED
  BY <1>2, <1>3 DEF LogsKeep

(* A render with other parameters or another search.                       *)
LEMMA EffectsKeep ==
  ASSUME LogsInv, config = "ready", config' = "ready",
         Logs!Effects(url', debouncedQuery'), debounce' \in BOOLEAN,
         ~debounce' => debouncedQuery' = localQuery'
  PROVE  LogsInv'
<1>1. Logs!Current' = Logs!Query(url', debouncedQuery')
  BY DEF Logs!Current, Logs!Query, Logs!activeService
<1>2. CASE Logs!Query(url', debouncedQuery') = Logs!Current
  <2>1. UNCHANGED <<request, lines, error>>
    BY <1>2 DEF Logs!Effects, Logs!hook
  <2>2. Logs!activeService(url') = Logs!activeService(url)
    BY <1>2, QueryService DEF Logs!Current
  <2>3. Logs!activeService(url)' = Logs!activeService(url')
    BY DEF Logs!activeService
  <2> QED
    BY <1>1, <1>2, <2>1, <2>2, <2>3
    DEF LogsInv, Logs!LinesOfQuery, Logs!LinesOfService, Logs!Idle
<1>3. CASE Logs!Query(url', debouncedQuery') # Logs!Current
  <2>1. /\ request' = [query |-> Logs!Query(url', debouncedQuery'), phase |-> "sent"]
        /\ lines' = Logs!LinesAfter(url')
    BY <1>3 DEF Logs!Effects, Logs!FetchLogs
  <2>2. /\ request'.query = Logs!Current' /\ request'.phase = "sent"
        /\ request' # Logs!Idle'
        /\ request' = [query |-> request'.query, phase |-> request'.phase]
    BY <1>1, <2>1, IdlePhase DEF Logs!Idle
  <2>3. Logs!LinesOfService'
    <3>1. Logs!activeService(url)' = Logs!activeService(url')
      BY DEF Logs!activeService
    <3> QED
      BY <2>1, <3>1 DEF LogsInv, Logs!LinesOfService, Logs!LinesAfter
  <2> QED
    BY <2>2, <2>3 DEF LogsInv, Logs!LinesOfQuery
<1> QED
  BY <1>2, <1>3

LEMMA ConfigArrivesKeeps ==
  ASSUME LogsInv, Logs!ConfigArrives
  PROVE  LogsInv'
<1>a. FirstService \in Service /\ Nothing \notin Service
  BY DashboardAssumption DEF DashboardAssumption, Logs!LogsAssumption
<1>1. /\ config' = "ready" /\ debounce' = TRUE
      /\ url' = [url EXCEPT !.service = IF @ = Nothing THEN FirstService ELSE @]
      /\ request' = [query |-> Logs!Current, phase |-> "sent"]
      /\ lines = Nothing /\ lines' = Nothing
      /\ debouncedQuery' = debouncedQuery
      /\ url \in [service : Service \cup {Nothing}, window : Window,
                  field : [Field -> Value]]
  BY DEF LogsInv, Logs!ConfigArrives, Logs!FetchLogs
<1>2. /\ url'.window = url.window /\ url'.field = url.field
      /\ url'.service = IF url.service = Nothing THEN FirstService ELSE url.service
  BY <1>1
<1>3. Logs!Current' = Logs!Current
  BY <1>a, <1>1, <1>2 DEF Logs!Current, Logs!Query, Logs!activeService
<1>4. request'.query = Logs!Current' /\ request'.phase = "sent" /\ request' # Logs!Idle'
  BY <1>1, <1>3, IdlePhase DEF Logs!Idle
<1> QED
  BY <1>1, <1>4 DEF LogsInv, Logs!LinesOfQuery, Logs!LinesOfService

(* The answer of the query under way comes, and its callback runs.         *)
LEMMA AnswerKeeps ==
  ASSUME LogsInv, Logs!Arrives \/ Logs!Callback
  PROVE  LogsInv'
<1>1. /\ request # Logs!Idle /\ config = "ready" /\ request.query = Logs!Current
      /\ request = [query |-> request.query, phase |-> request.phase]
  BY IdlePhase DEF LogsInv, Logs!LinesOfQuery, Logs!Arrives, Logs!Callback
<1>2. /\ UNCHANGED <<config, url, localQuery, debouncedQuery, debounce>>
      /\ Logs!Current' = Logs!Current
  BY DEF Logs!Arrives, Logs!Callback, Logs!search, Logs!Current, Logs!Query,
         Logs!activeService
<1>3. CASE Logs!Arrives
  <2>1. PICK p \in {"answered", "failed"} :
          request' = [request EXCEPT !.phase = p] /\ UNCHANGED lines
    BY <1>3 DEF Logs!Arrives
  <2>2. request' = [query |-> request.query, phase |-> p]
    BY <1>1, <2>1
  <2>3. /\ request'.query = Logs!Current' /\ request'.phase = p
        /\ request' # Logs!Idle'
    BY <1>1, <1>2, <2>2, IdlePhase DEF Logs!Idle
  <2> QED
    BY <1>1, <1>2, <2>1, <2>2, <2>3
    DEF LogsInv, Logs!LinesOfQuery, Logs!LinesOfService, Logs!activeService
<1>4. CASE Logs!Callback
  <2>1. /\ request' = Logs!Idle
        /\ \/ lines' = request.query
           \/ error' = TRUE /\ lines' = lines
    BY <1>4 DEF Logs!Callback
  <2>2. Logs!Current.service = Logs!activeService(url)
    BY QueryService DEF Logs!Current
  <2> QED
    BY <1>1, <1>2, <2>1, <2>2
    DEF LogsInv, Logs!LinesOfQuery, Logs!LinesOfService, Logs!activeService, Logs!Idle
<1> QED
  BY <1>3, <1>4

LEMMA LogsStep ==
  ASSUME LogsInv, Logs!Next \/ UNCHANGED logsVars
  PROVE  LogsInv'
<1>1. CASE \/ Logs!Interval \/ Logs!Refresh \/ Logs!CallbackAborted
           \/ Logs!TimeoutFires \/ Logs!TimePasses \/ UNCHANGED logsVars
  <2>1. LogsKeep
    BY <1>1 DEF logsVars, LogsKeep, Logs!Interval, Logs!Refresh, Logs!CallbackAborted,
                Logs!LinesAborted, Logs!TimeoutFires, Logs!TimePasses, Logs!FetchLogs,
                Logs!search
  <2> QED
    BY <2>1, LogsKept
<1>2. CASE \/ \E s \in Service : Logs!ChooseService(s)
           \/ \E f \in Field, v \in Value : Logs!ChooseField(f, v)
           \/ \E w \in Window : Logs!ChooseWindow(w)
           \/ Logs!ClearFilters
  <2>1. /\ config = "ready" /\ config' = "ready" /\ debouncedQuery' = debouncedQuery
        /\ Logs!Effects(url', debouncedQuery)
        /\ \/ UNCHANGED <<debounce, localQuery>>
           \/ debounce' = (debounce \/ localQuery # "") /\ localQuery' = ""
    BY <1>2 DEF Logs!ChooseService, Logs!ChooseField, Logs!ChooseWindow,
                Logs!ClearFilters, Logs!UpdateParams
  <2>2. debounce' \in BOOLEAN /\ (~debounce' => debouncedQuery' = localQuery')
    <3>1. debounce \in BOOLEAN /\ (~debounce => debouncedQuery = localQuery)
      BY DEF LogsInv
    <3>2. CASE UNCHANGED <<debounce, localQuery>>
      BY <2>1, <3>1, <3>2
    <3>3. CASE debounce' = (debounce \/ localQuery # "") /\ localQuery' = ""
      <4>1. debounce' \in BOOLEAN /\ (debounce' <=> debounce \/ localQuery # "")
        BY <3>3, <3>1
      <4> QED
        BY <2>1, <3>1, <3>3, <4>1
    <3> QED
      BY <2>1, <3>2, <3>3
  <2>3. Logs!Effects(url', debouncedQuery')
    BY <2>1
  <2> QED
    BY <2>1, <2>2, <2>3, EffectsKeep
<1>3. ASSUME NEW t \in Text, Logs!Type(t) PROVE LogsInv'
  <2>1. /\ config = "ready" /\ config' = "ready" /\ debounce' = TRUE
        /\ UNCHANGED <<url, debouncedQuery, Logs!hook>>
    BY <1>3 DEF Logs!Type
  <2>2. Logs!Effects(url', debouncedQuery')
    BY <2>1 DEF Logs!Effects, Logs!Current
  <2> QED
    BY <2>1, <2>2, EffectsKeep
<1>4. CASE Logs!Debounce
  <2>1. /\ debounce' = FALSE /\ debouncedQuery' = localQuery
        /\ UNCHANGED <<config, url, localQuery>>
        /\ Logs!Effects(url, debouncedQuery')
    BY <1>4 DEF Logs!Debounce, Logs!DebounceTakes
  <2>2. Logs!Effects(url', debouncedQuery')
    BY <2>1
  <2>3. CASE config = "ready"
    BY <2>1, <2>2, <2>3, EffectsKeep
  <2> QED
    BY <2>3, <1>4 DEF LogsInv, Logs!Debounce
<1>5. CASE Logs!ConfigFails
  <2>1. config' = "failed" /\ config = "loading"
        /\ UNCHANGED <<url, localQuery, debouncedQuery, debounce, request, lines>>
    BY <1>5 DEF Logs!ConfigFails, Logs!hook
  <2> QED
    BY <2>1 DEF LogsInv, Logs!LinesOfService, Logs!Idle
<1> QED
  BY <1>1, <1>2, <1>3, <1>4, <1>5, ConfigArrivesKeeps, AnswerKeeps
  DEF Logs!Next, Logs!User, Logs!Answered, Logs!Passes

-----------------------------------------------------------------------------
(* The drawer of the backups, the machines and the report of a bug.        *)

DrawerInv == editingJob \in [unit : Unit \cup {None}, typed : BOOLEAN]

(* The drawer changes when a job is chosen, typed into, given up or saved. *)
LEMMA DrawerStep ==
  ASSUME DrawerInv, Backups!Next \/ UNCHANGED drawerVars
  PROVE  /\ DrawerInv'
         /\ editingJob.typed /\ editingJob' # editingJob =>
              Backups!CancelEdit \/ \E r \in saves : r.phase = "ok"
<1>n. Backups!NoJob \in [unit : Unit \cup {None}, typed : BOOLEAN]
      /\ Backups!NoJob.typed = FALSE
  BY DEF Backups!NoJob
<1>1. CASE editingJob' = editingJob
  BY <1>1 DEF DrawerInv
<1>2. ASSUME NEW u \in Unit, Backups!EditJob(u)
      PROVE  editingJob.typed = FALSE /\ DrawerInv'
  BY <1>2, <1>n DEF DrawerInv, Backups!EditJob, Backups!Reachable
<1>3. CASE Backups!TypeInDrawer
  <2>1. editingJob' = [editingJob EXCEPT !.typed = TRUE]
    BY <1>3 DEF Backups!TypeInDrawer
  <2>2. editingJob = [unit |-> editingJob.unit, typed |-> editingJob.typed]
    BY DEF DrawerInv
  <2>3. editingJob' = [unit |-> editingJob.unit, typed |-> TRUE]
    BY <2>1 DEF DrawerInv
  <2> QED
    BY <2>2, <2>3 DEF DrawerInv
<1>4. CASE Backups!CancelEdit
  BY <1>4, <1>n DEF DrawerInv, Backups!CancelEdit
<1>5. ASSUME NEW r \in saves, Backups!JobSaved(r), editingJob' # editingJob
      PROVE  r.phase = "ok" /\ DrawerInv'
  BY <1>5, <1>n DEF DrawerInv, Backups!JobSaved, Backups!DrawerAfter
<1>d. \/ editingJob' = editingJob
      \/ \E u \in Unit : Backups!EditJob(u)
      \/ Backups!TypeInDrawer \/ Backups!CancelEdit
      \/ \E r \in saves : Backups!JobSaved(r)
  BY DEF drawerVars, Backups!Next, Backups!Settles, Backups!Overview, Backups!RunJob,
         Backups!RunAnswered, Backups!showLogs, Backups!Patched, Backups!SaveJob,
         Backups!drawer
<1> QED
  BY <1>1, <1>2, <1>3, <1>4, <1>5, <1>d

LEMMA MachinesStep ==
  ASSUME VMs!Next \/ UNCHANGED vmVars, NEW v \in VM,
         [vm |-> v, op |-> "destroy"] \in requests' \ requests
  PROVE  confirmDestroy = v /\ confirmDestroy' = None
<1>1. ASSUME NEW u, NEW op, VMs!DoAction(u, op)
      PROVE  u = v /\ op = "destroy" /\ confirmDestroy' = None
  <2>1. [vm |-> v, op |-> "destroy"] = [vm |-> u, op |-> op] /\ confirmDestroy' = None
    BY <1>1 DEF VMs!DoAction
  <2> QED
    BY <2>1
<1>2. ASSUME NEW u \in VM, NEW op \in VMs!Operation, VMs!Choose(u, op) PROVE FALSE
  <2>1. op # "destroy"
    BY <1>2 DEF VMs!Choose, VMs!Entries
  <2> QED
    BY <2>1, <1>1, <1>2 DEF VMs!Choose
<1>3. CASE VMs!Confirm
  BY <1>3, <1>1 DEF VMs!Confirm
<1>4. requests' \subseteq requests \/ VMs!Confirm
      \/ \E u \in VM, op \in VMs!Operation : VMs!Choose(u, op)
  BY DEF vmVars, VMs!Next, VMs!Overview, VMs!Dismiss, VMs!MachineChanges,
         VMs!ChooseDestroy, VMs!Handles
<1> QED
  BY <1>2, <1>3, <1>4

(* A task whose end has been shown has no stream any more.                 *)
BugInv ==
  /\ over \subseteq Task
  /\ stream \in [Task -> {"none", "open", "closed"}]
  /\ toast \in [Task -> {"none", "loading", "success", "error"}]
  /\ \A t \in over : stream[t] = "closed"

LEMMA BugStep ==
  ASSUME BugInv, Bug!Next \/ UNCHANGED bugVars
  PROVE  BugInv' /\ \A t \in over : toast'[t] = toast[t]
<1> USE DEF BugInv
<1>1. CASE UNCHANGED <<stream, toast, over>>
  BY <1>1
<1>2. ASSUME NEW t \in Task, Bug!Submitted(t)
      PROVE  BugInv' /\ \A u \in over : toast'[u] = toast[u]
  BY <1>2 DEF Bug!Submitted
<1>3. ASSUME NEW t \in Task, Bug!Progress(t) \/ Bug!ExtensionError(t)
      PROVE  BugInv' /\ \A u \in over : toast'[u] = toast[u]
  BY <1>3 DEF Bug!Progress, Bug!ExtensionError
<1>4. ASSUME NEW t \in Task, Bug!Ends(t)
      PROVE  BugInv' /\ \A u \in over : toast'[u] = toast[u]
  BY <1>4 DEF Bug!Ends, Bug!CloseStream
<1>5. ASSUME NEW t \in Task, Bug!Breaks(t)
      PROVE  BugInv' /\ \A u \in over : toast'[u] = toast[u]
  BY <1>5 DEF Bug!Breaks
<1>d. \/ UNCHANGED <<stream, toast, over>>
      \/ \E t \in Task : \/ Bug!Submitted(t) \/ Bug!Progress(t) \/ Bug!ExtensionError(t)
                        \/ Bug!Ends(t) \/ Bug!Breaks(t)
  BY DEF bugVars, Bug!Next, Bug!Settles, Bug!Open, Bug!Type, Bug!Close, Bug!Submit,
         Bug!PostSettles, Bug!NotSubmitted, Bug!tasks
<1> QED
  BY <1>1, <1>2, <1>3, <1>4, <1>5, <1>d

-----------------------------------------------------------------------------
(* What holds of every visit to a page.                                    *)

DashboardInv == SecretsInv /\ StorageInv /\ DialogInv /\ LogsInv /\ DrawerInv /\ BugInv

LEMMA DashboardInit == Init => DashboardInv
<1>1. Init => DrawerInv
  <2>1. Backups!NoJob \in [unit : Unit \cup {None}, typed : BOOLEAN]
    BY DEF Backups!NoJob
  <2> QED
    BY <2>1 DEF Init, Backups!Init, DrawerInv
<1>2. Init => BugInv
  BY DEF Init, Bug!Init, BugInv
<1> QED
  BY <1>1, <1>2, SecretsHolds, StorageHolds, DialogHolds, LogsInit DEF Init, DashboardInv

LEMMA DashboardStep == DashboardInv /\ [Next]_vars => DashboardInv'
<1> SUFFICES ASSUME DashboardInv, [Next]_vars PROVE DashboardInv'
  OBVIOUS
<1> QED
  BY StepOfPage, SecretsHolds, StorageHolds, DialogHolds, LogsStep, DrawerStep, BugStep
  DEF DashboardInv

LEMMA DashboardHolds == Spec => []DashboardInv
BY DashboardInit, DashboardStep, PTL DEF Spec

(* One deployment and one action on the storage at a time, exactly while   *)
(* their buttons say so, in whatever order answers come.                   *)
THEOREM ActionsOneAtATime == Spec => []OneAtATime
<1>1. SecretsInv => Secrets!OneDeploy
  BY DEF SecretsInv, OneSwitch, Secrets!OneDeploy
<1>2. StorageInv => Storage!OneAction
  BY DEF StorageInv, Storage!OneAction
<1>3. DashboardInv => OneAtATime
  BY <1>1, <1>2 DEF DashboardInv, OneAtATime
<1> QED
  BY <1>3, DashboardHolds, PTL

(* An edit of a secret that was answered with success runs in the system   *)
(* or is flagged, through refused and overlapping PUTs, failing and killed *)
(* switches and restarts of the daemon: the exceptions (unkept) are those  *)
(* the code makes, a switch that had not read the edit, a sops that wrote  *)
(* over it, and a flag that was not written or went with /run.             *)
THEOREM EditsAreFlagged == Spec => []EditsFlagged
<1>1. DashboardInv => EditsFlagged
  BY DEF DashboardInv, SecretsInv, SwitchesRead, Owed, EditsFlagged, Secrets!EditsFlagged
<1> QED
  BY <1>1, DashboardHolds, PTL

(* The lines shown, and downloaded under the name of the active service,   *)
(* are that service's.                                                     *)
THEOREM LinesAreOfService == Spec => []LinesOfService
<1>1. DashboardInv => LinesOfService
  BY DEF DashboardInv, LogsInv, LinesOfService
<1> QED
  BY <1>1, DashboardHolds, PTL

(* The query under way and its lines are what the controls say.            *)
THEOREM LinesAreOfQuery == Spec => []LinesOfQuery
<1>1. DashboardInv => LinesOfQuery
  BY DEF DashboardInv, LogsInv, LinesOfQuery, Logs!LinesOfQuery
<1> QED
  BY <1>1, DashboardHolds, PTL

(* A value goes to the secret it was typed for; logs of another unit than  *)
(* the title says were asked for before the dialog was opened.             *)
THEOREM DialogsDoBelong == Spec => []DialogsBelong
<1>1. DashboardInv => DialogsBelong
  BY DEF DashboardInv, SecretsInv, ValuesBelong, DialogInv, DialogsBelong,
         Secrets!ValueOfSecret, Backups!ForeignOnlyLate
<1> QED
  BY <1>1, DashboardHolds, PTL

(* No page gives up what was typed, destroys a machine or changes the      *)
(* toast of a task that is over unless somebody asked for it.              *)
THEOREM NothingIsUnasked == Spec => NothingUnasked
<1> DEFINE Kept == editingJob.typed /\ editingJob' # editingJob =>
                     Backups!CancelEdit \/ \E r \in saves : r.phase = "ok"
           Confirmed == \A v \in VM :
                          [vm |-> v, op |-> "destroy"] \in requests' \ requests =>
                            confirmDestroy = v /\ confirmDestroy' = None
           Stay == \A t \in over : toast'[t] = toast[t]
<1>1. DashboardInv /\ [Next]_vars =>
        [Kept]_Backups!vars /\ [Confirmed]_VMs!vars /\ [Stay]_Bug!vars
  BY StepOfPage, DrawerStep, MachinesStep, BugStep DEF DashboardInv
<1> QED
  BY <1>1, DashboardHolds, PTL
  DEF Spec, NothingUnasked, Backups!EditKept, VMs!DestroysConfirmed, Bug!EndsStay

-----------------------------------------------------------------------------
(* The types of the page of the secrets.                                   *)

(* The instance's own copy of the operator is the library's.               *)
LEMMA SameCardinality ==
  ASSUME NEW S
  PROVE  Secrets!Cardinality(S) = Cardinality(S)
BY Zenon DEF Cardinality, Secrets!Cardinality

(* Saves that sops has still to write.                                     *)
SentPuts(P) == {p \in P : p.phase \in {"sent", "editing"}}

(* Every save that is under way has its place among the edits: the number  *)
(* of edits stays within its bound although sops runs long after the guard *)
(* of the save.                                                            *)
RoomForEdits ==
  /\ repo \in Nat /\ IsFiniteSet(puts)
  /\ repo + Cardinality(SentPuts(puts)) <= MaxEdits

(* Edits that are named anywhere have been made.                           *)
PutInRepo(p, n) ==
  /\ p.edit \in 0 .. n /\ p.base \subseteq 1 .. n
  /\ p.phase = "edited" => p.edit # 0

EditsInRepo ==
  /\ file \subseteq 1 .. repo /\ deployed \subseteq 1 .. repo
  /\ acked \subseteq 1 .. repo /\ unkept \subseteq acked
  /\ \A p \in puts : PutInRepo(p, repo)
  /\ \A w \in switches : w.at \subseteq 1 .. repo

Gets == {"sent", "yes", "no"}

GetsInv ==
  /\ gets \in [Gets -> Nat] /\ gets.sent + gets.yes + gets.no <= MaxGets
  /\ loading \in BOOLEAN /\ deployPending \in BOOLEAN

LEMMA SecretsConstants == MaxEdits \in Nat /\ MaxGets \in Nat \ {0} /\ MaxDeploys \in Nat \ {0}
BY DashboardAssumption DEF DashboardAssumption, Secrets!SecretsAssumption

LEMMA SentFewer ==
  ASSUME RoomForEdits, NEW P, P \subseteq puts
  PROVE  /\ IsFiniteSet(P) /\ Cardinality(SentPuts(P)) \in Nat
         /\ Cardinality(SentPuts(P)) <= Cardinality(SentPuts(puts))
<1>1. IsFiniteSet(puts) /\ IsFiniteSet(P)
  BY FS_Subset DEF RoomForEdits
<1>2. SentPuts(puts) \subseteq puts /\ SentPuts(P) \subseteq SentPuts(puts)
  BY DEF SentPuts
<1>3. IsFiniteSet(SentPuts(puts)) /\ IsFiniteSet(SentPuts(P))
  BY <1>1, <1>2, FS_Subset
<1> QED
  BY <1>1, <1>2, <1>3, FS_Subset, FS_CardinalityType

LEMMA RoomStays ==
  ASSUME SecretsType, RoomForEdits, Secrets!Next \/ UNCHANGED secretsVars
  PROVE  RoomForEdits'
<1>c. MaxEdits \in Nat /\ repo \in Nat /\ repo + Cardinality(SentPuts(puts)) <= MaxEdits
  BY SecretsConstants DEF RoomForEdits
<1>1. ASSUME puts' \subseteq puts, UNCHANGED repo PROVE RoomForEdits'
  <2>1. /\ IsFiniteSet(puts') /\ Cardinality(SentPuts(puts')) \in Nat
        /\ Cardinality(SentPuts(puts')) <= Cardinality(SentPuts(puts))
    BY <1>1, SentFewer
  <2>2. Cardinality(SentPuts(puts)) \in Nat
    BY SentFewer
  <2> QED
    BY <1>1, <1>c, <2>1, <2>2 DEF RoomForEdits, SentPuts
<1>2. ASSUME NEW p \in puts, NEW q, puts' = (puts \ {p}) \cup {q},
             \/ q.phase \notin {"sent", "editing"} /\ repo' = repo
             \/ /\ p.phase \in {"sent", "editing"}
                /\ \/ q.phase \in {"sent", "editing"} /\ repo' = repo
                   \/ q.phase \notin {"sent", "editing"} /\ repo' = repo + 1
      PROVE  RoomForEdits'
  <2>1. IsFiniteSet(puts \ {p}) /\ IsFiniteSet(puts')
    BY <1>2, SentFewer, FS_AddElement
  <2>f. IsFiniteSet(SentPuts(puts)) /\ IsFiniteSet(SentPuts(puts \ {p}))
    <3>1. SentPuts(puts) \subseteq puts /\ SentPuts(puts \ {p}) \subseteq puts
      BY DEF SentPuts
    <3> QED
      BY <3>1, FS_Subset DEF RoomForEdits
  <2>3. /\ Cardinality(SentPuts(puts \ {p})) \in Nat /\ Cardinality(SentPuts(puts)) \in Nat
        /\ Cardinality(SentPuts(puts \ {p})) <= Cardinality(SentPuts(puts))
    BY SentFewer
  <2>4. ASSUME p.phase \in {"sent", "editing"}
        PROVE  Cardinality(SentPuts(puts \ {p})) = Cardinality(SentPuts(puts)) - 1
    <3>1. SentPuts(puts \ {p}) = SentPuts(puts) \ {p} /\ p \in SentPuts(puts)
      BY <2>4 DEF SentPuts
    <3> QED
      BY <3>1, <2>f, FS_RemoveElement
  <2>5. ASSUME q.phase \notin {"sent", "editing"}
        PROVE  Cardinality(SentPuts(puts')) = Cardinality(SentPuts(puts \ {p}))
    <3>1. SentPuts(puts') = SentPuts(puts \ {p})
      BY <1>2, <2>5 DEF SentPuts
    <3> QED
      BY <3>1
  <2>6. ASSUME q.phase \in {"sent", "editing"}
        PROVE  /\ Cardinality(SentPuts(puts')) \in Nat
               /\ Cardinality(SentPuts(puts')) <= Cardinality(SentPuts(puts \ {p})) + 1
    <3>1. SentPuts(puts') = SentPuts(puts \ {p}) \cup {q}
      BY <1>2, <2>6 DEF SentPuts
    <3>2. CASE q \in SentPuts(puts \ {p})
      <4>1. SentPuts(puts') = SentPuts(puts \ {p})
        BY <3>1, <3>2
      <4> QED
        BY <4>1, <2>3
    <3>3. CASE q \notin SentPuts(puts \ {p})
      <4>1. Cardinality(SentPuts(puts \ {p}) \cup {q}) = Cardinality(SentPuts(puts \ {p})) + 1
        BY <3>3, <2>f, FS_AddElement
      <4>2. Cardinality(SentPuts(puts')) = Cardinality(SentPuts(puts \ {p})) + 1
        BY <3>1, <4>1
      <4> QED
        BY <4>2, <2>3
    <3> QED
      BY <3>2, <3>3
  <2>7. repo' \in Nat /\ repo' + Cardinality(SentPuts(puts')) <= MaxEdits
    <3>1. CASE q.phase \notin {"sent", "editing"} /\ repo' = repo
      BY <3>1, <1>c, <2>3, <2>5
    <3>2. CASE p.phase \in {"sent", "editing"} /\ q.phase \in {"sent", "editing"} /\ repo' = repo
      BY <3>2, <1>c, <2>3, <2>4, <2>6
    <3>3. CASE p.phase \in {"sent", "editing"} /\ q.phase \notin {"sent", "editing"}
               /\ repo' = repo + 1
      BY <3>3, <1>c, <2>3, <2>4, <2>5
    <3> QED
      BY <1>2, <3>1, <3>2, <3>3
  <2> QED
    BY <2>1, <2>7 DEF RoomForEdits, SentPuts
<1>3. ASSUME NEW p \in puts, Handles(p) PROVE RoomForEdits'
  <2>1. PICK q : /\ puts' = (puts \ {p}) \cup {q}
                 /\ \/ p.phase = "sent" /\ q.phase = "editing" /\ repo' = repo
                    \/ p.phase = "editing" /\ q.phase = "edited" /\ repo' = repo + 1
                    \/ q.phase \in {"ok", "refused"} /\ repo' = repo
    BY <1>3, PutStep
  <2> QED
    BY <2>1, <1>2
<1>4. CASE Secrets!HandleSave
  <2> DEFINE q == [name |-> editModal.name, value |-> editModal.value,
                   edit |-> 0, base |-> {}, phase |-> "sent"]
  <2>1. /\ repo + Cardinality(SentPuts(puts)) < MaxEdits
        /\ \A p \in puts : p.name # editModal.name
        /\ puts' = puts \cup {q} /\ repo' = repo
    BY <1>4, SameCardinality DEF Secrets!HandleSave, Secrets!daemon, SentPuts
  <2>2. q \notin puts /\ q.phase = "sent"
    BY <2>1
  <2> HIDE DEF q
  <2>3. IsFiniteSet(puts) /\ IsFiniteSet(puts')
    BY <2>1, FS_AddElement DEF RoomForEdits
  <2>4. SentPuts(puts') = SentPuts(puts) \cup {q} /\ q \notin SentPuts(puts)
        /\ SentPuts(puts) \subseteq puts
    BY <2>1, <2>2 DEF SentPuts
  <2>5. IsFiniteSet(SentPuts(puts)) /\ Cardinality(SentPuts(puts)) \in Nat
    BY <2>3, <2>4, FS_Subset, FS_CardinalityType
  <2>6. Cardinality(SentPuts(puts')) = Cardinality(SentPuts(puts)) + 1
    BY <2>4, <2>5, FS_AddElement
  <2>7. repo' + Cardinality(SentPuts(puts')) <= MaxEdits
    BY <1>c, <2>1, <2>5, <2>6
  <2> QED
    BY <1>c, <2>1, <2>3, <2>7 DEF RoomForEdits, SentPuts
<1>5. CASE Secrets!DaemonRestarts
  <2>1. SentPuts(puts') = {}
    <3>1. \A q \in puts' : q.phase \in {"ok", "refused"}
      BY <1>5, RestartPuts
    <3> QED
      BY <3>1 DEF SentPuts
  <2> DEFINE f(p) == IF p.phase = "ok" THEN p ELSE Secrets!Answered(p, "refused")
  <2>2. puts' = {f(p) : p \in puts} /\ repo' = repo
    BY <1>5 DEF Secrets!DaemonRestarts
  <2> HIDE DEF f
  <2>3. IsFiniteSet(puts')
    <3> DEFINE g == [p \in puts |-> f(p)]
    <3>1. IsFiniteSet(puts)
      BY DEF RoomForEdits
    <3>2. g \in Surjection(puts, puts')
      BY <2>2 DEF Surjection
    <3> HIDE DEF g
    <3> QED
      BY <3>1, <3>2, FS_Surjection
  <2>4. Cardinality(SentPuts(puts')) = 0
    BY <2>1, FS_EmptySet
  <2>5. Cardinality(SentPuts(puts)) \in Nat
    BY SentFewer
  <2> QED
    BY <1>c, <2>2, <2>3, <2>4, <2>5 DEF RoomForEdits, SentPuts
<1>6. ASSUME NEW w \in switches,
             Secrets!Builds(w) \/ Secrets!SwitchEnds(w) \/ Secrets!StreamRead(w)
      PROVE  UNCHANGED <<puts, repo>>
  BY <1>6 DEF Secrets!Builds, Secrets!SwitchEnds, Secrets!StreamRead, Secrets!daemon
<1>7. CASE Secrets!HandleDeploy
  BY <1>7, <1>1 DEF Secrets!HandleDeploy, Secrets!daemon
<1> QED
  BY <1>1, <1>3, <1>4, <1>5, <1>6, <1>7, NoEdit

LEMMA EditsStay ==
  ASSUME SecretsType, RoomForEdits, EditsInRepo, Secrets!Next \/ UNCHANGED secretsVars
  PROVE  EditsInRepo'
<1> USE DEF EditsInRepo
<1>t. repo \in Nat /\ puts \subseteq PutType /\ switches \subseteq SwitchType
      /\ file \in SUBSET Nat
  BY DEF SecretsType
<1>1. ASSUME UNCHANGED <<repo, file, deployed, acked, unkept, switches>>, puts' \subseteq puts
      PROVE  EditsInRepo'
  BY <1>1
<1>2. ASSUME NEW w \in switches, Secrets!Builds(w) \/ Secrets!SwitchEnds(w)
      PROVE  EditsInRepo'
  <2>0. w \in SwitchType /\ w.at \subseteq 1 .. repo
    BY <1>t
  <2>1. \E v : v.at \in {{}, file} /\ switches' = (switches \ {w}) \cup {v}
    <3>1. CASE Secrets!Builds(w)
      <4>1. PICK v : /\ v = SwitchAs(w, file, "building")
                     /\ switches' = (switches \ {w}) \cup {v}
        BY <3>1 DEF Secrets!Builds, SwitchAs
      <4>2. v.at = file
        BY <1>t, <2>0, <4>1, SwitchFields
      <4> QED
        BY <4>1, <4>2
    <3>2. CASE Secrets!SwitchEnds(w)
      <4>1. PICK f \in {"done", "error", "lost"} :
              switches' = (switches \ {w}) \cup {SwitchAs(w, {}, f)}
        BY <3>2 DEF Secrets!SwitchEnds, SwitchAs
      <4>2. SwitchAs(w, {}, f).at = {}
        BY <2>0, SwitchFields
      <4> QED
        BY <4>1, <4>2
    <3> QED
      BY <1>2, <3>1, <3>2
  <2>2. deployed' \in {deployed, w.at} /\ UNCHANGED <<repo, file, acked, unkept, puts>>
    BY <1>2 DEF Secrets!Builds, Secrets!SwitchEnds, Secrets!daemon
  <2> QED
    BY <2>0, <2>1, <2>2
<1>3. ASSUME NEW w \in switches, Secrets!StreamRead(w) PROVE EditsInRepo'
  BY <1>3 DEF Secrets!StreamRead, Secrets!daemon
<1>4. CASE Secrets!HandleDeploy
  <2>1. PICK i : switches' = switches \cup {[id |-> i, at |-> {}, phase |-> "started"]}
    BY <1>4 DEF Secrets!HandleDeploy
  <2> QED
    BY <1>4, <2>1 DEF Secrets!HandleDeploy, Secrets!daemon
<1>5. ASSUME NEW p \in puts, Handles(p) PROVE EditsInRepo'
  <2>p. p \in PutType /\ PutInRepo(p, repo)
    BY <1>t
  <2>r. repo' \in {repo, repo + 1} /\ UNCHANGED <<deployed, switches>>
    BY <1>5 DEF Handles, Secrets!SopsReads, Secrets!SopsWrites, Secrets!Refused,
                Secrets!Flags, Secrets!daemon
  <2>s. 1 .. repo \subseteq 1 .. repo' /\ 0 .. repo \subseteq 0 .. repo'
    BY <1>t, <2>r
  <2>1. \A r \in puts : PutInRepo(r, repo')
    BY <2>s DEF PutInRepo
  <2>2. PICK q : /\ puts' = (puts \ {p}) \cup {q}
                 /\ \/ /\ q.phase = "editing" /\ q.edit = p.edit /\ q.base = file
                    \/ /\ q.phase = "edited" /\ repo' = repo + 1
                       /\ q.edit = repo' /\ q.base = {}
                    \/ /\ q.phase \in {"ok", "refused"} /\ q.edit = 0 /\ q.base = {}
    BY <1>5, PutStep
  <2>3. PutInRepo(q, repo')
    <3>1. file \subseteq 1 .. repo' /\ p.edit \in 0 .. repo' /\ 0 \in 0 .. repo'
      BY <1>t, <2>p, <2>r, <2>s DEF PutInRepo
    <3>2. repo' = repo + 1 => repo' \in 0 .. repo' /\ repo' # 0
      BY <1>t
    <3> QED
      BY <2>2, <3>1, <3>2 DEF PutInRepo
  <2>4. \A r \in puts' : PutInRepo(r, repo')
    BY <2>1, <2>2, <2>3
  <2>5. file' \subseteq 1 .. repo'
    <3>1. CASE Secrets!SopsWrites(p)
      <4>1. repo' \in 1 .. repo' /\ file' = p.base \cup {repo'}
        BY <1>t, <3>1 DEF Secrets!SopsWrites
      <4> QED
        BY <4>1, <2>p, <2>s DEF PutInRepo
    <3>2. CASE file' = file
      BY <3>2, <2>s
    <3> QED
      BY <1>5, <3>1, <3>2
      DEF Handles, Secrets!SopsReads, Secrets!Refused, Secrets!Flags, Secrets!daemon
  <2>6. acked' \subseteq 1 .. repo' /\ unkept' \subseteq acked'
    <3>1. CASE Secrets!Flags(p)
      <4>1. p.edit \in 1 .. repo'
        BY <1>t, <2>p, <2>r, <3>1 DEF Secrets!Flags, PutInRepo
      <4>2. acked' = acked \cup {p.edit} /\ unkept' \in {unkept, unkept \cup {p.edit}}
        BY <3>1 DEF Secrets!Flags
      <4> QED
        BY <4>1, <4>2, <2>s
    <3>2. CASE acked' = acked /\ unkept' \subseteq acked
      BY <3>2, <2>s
    <3> QED
      BY <1>5, <3>1, <3>2
      DEF Handles, Secrets!SopsReads, Secrets!SopsWrites, Secrets!Refused, Secrets!daemon
  <2> QED
    BY <2>4, <2>5, <2>6, <2>r, <2>s
<1>6. CASE Secrets!DaemonRestarts
  <2>1. /\ deployed' = deployed \/ \E w \in switches : deployed' = w.at
        /\ unkept' = unkept \cup (acked \ deployed') /\ UNCHANGED <<repo, file, acked>>
    BY <1>6 DEF Secrets!DaemonRestarts
  <2>2. \A v \in switches' : \E w \in switches : v.at \in {w.at, {}}
    BY <1>6, RestartSwitches
  <2>3. ASSUME NEW q \in puts' PROVE PutInRepo(q, repo)
    <3>1. PICK p \in puts : q = p \/ (q.edit = 0 /\ q.base = {})
      BY <1>6, <2>3, RestartPuts
    <3>2. q.phase # "edited"
      BY <1>6, <2>3, RestartPuts
    <3>3. 0 \in 0 .. repo
      BY <1>t
    <3> QED
      BY <3>1, <3>2, <3>3 DEF PutInRepo
  <2>4. \A v \in switches' : v.at \subseteq 1 .. repo
    BY <2>2
  <2> QED
    BY <2>1, <2>3, <2>4
<1>7. CASE Secrets!HandleSave
  <2> DEFINE q == [name |-> editModal.name, value |-> editModal.value,
                   edit |-> 0, base |-> {}, phase |-> "sent"]
  <2>1. q.edit = 0 /\ q.base = {} /\ q.phase = "sent" /\ puts' = puts \cup {q}
    BY <1>7 DEF Secrets!HandleSave
  <2>2. UNCHANGED <<repo, file, deployed, acked, unkept, switches>>
    BY <1>7 DEF Secrets!HandleSave, Secrets!daemon
  <2> HIDE DEF q
  <2>3. PutInRepo(q, repo)
    BY <1>t, <2>1 DEF PutInRepo
  <2> QED
    BY <2>1, <2>2, <2>3
<1> QED
  BY <1>1, <1>2, <1>3, <1>4, <1>5, <1>6, <1>7, NoEdit

(* Requests for the list that are under way, answered or not.              *)
LEMMA GetsStay ==
  ASSUME GetsInv, Secrets!Next \/ UNCHANGED secretsVars
  PROVE  GetsInv'
<1> USE DEF GetsInv, Gets
<1>c. MaxGets \in Nat
  BY SecretsConstants
<1>1. ASSUME UNCHANGED <<gets, loading>>, deployPending' \in BOOLEAN PROVE GetsInv'
  BY <1>1
<1>2. ASSUME Secrets!FetchSecrets, deployPending' \in BOOLEAN, UNCHANGED loading
      PROVE  GetsInv'
  BY <1>2, <1>c DEF Secrets!FetchSecrets
<1>3. CASE Secrets!Answers
  <2>1. PICK x \in {"yes", "no"} :
          /\ gets.sent > 0 /\ gets' = [gets EXCEPT !.sent = @ - 1, ![x] = @ + 1]
          /\ UNCHANGED <<loading, deployPending>>
    BY <1>3 DEF Secrets!Answers, Secrets!page
  <2>2. /\ gets'["sent"] = gets["sent"] - 1 /\ gets'[x] = gets[x] + 1
        /\ \A y \in {"yes", "no"} \ {x} : gets'[y] = gets[y]
        /\ gets' \in [Gets -> Nat]
    BY <2>1
  <2> QED
    BY <2>1, <2>2, <1>c
<1>4. ASSUME NEW x \in Gets, gets[x] > 0, gets' = [gets EXCEPT ![x] = @ - 1],
             loading' \in BOOLEAN, deployPending' \in BOOLEAN
      PROVE  GetsInv'
  <2>1. /\ gets'[x] = gets[x] - 1 /\ \A y \in Gets \ {x} : gets'[y] = gets[y]
        /\ gets' \in [Gets -> Nat]
    BY <1>4
  <2> QED
    BY <1>4, <2>1, <1>c
<1>5. CASE Secrets!NotFetched \/ \E x \in {"yes", "no"} : Secrets!Fetched(x)
  <2>1. CASE Secrets!NotFetched
    <3>1. /\ gets["sent"] > 0 /\ gets' = [gets EXCEPT !["sent"] = @ - 1]
          /\ loading' = FALSE /\ deployPending' = deployPending
      BY <2>1 DEF Secrets!NotFetched
    <3> QED
      BY <3>1, <1>4
  <2>2. ASSUME NEW x \in {"yes", "no"}, Secrets!Fetched(x) PROVE GetsInv'
    <3>1. /\ gets[x] > 0 /\ gets' = [gets EXCEPT ![x] = @ - 1]
          /\ loading' = FALSE /\ deployPending' \in BOOLEAN
      BY <2>2 DEF Secrets!Fetched
    <3> QED
      BY <3>1, <1>4
  <2> QED
    BY <1>5, <2>1, <2>2
<1>6. CASE Secrets!Refresh
  BY <1>6, <1>2 DEF Secrets!Refresh, Secrets!page
<1>7. ASSUME NEW w \in switches, Secrets!StreamRead(w) PROVE GetsInv'
  BY <1>7, <1>1, <1>2 DEF Secrets!StreamRead
<1>8. ASSUME NEW p \in puts, Secrets!Saved(p) PROVE GetsInv'
  BY <1>8, <1>2 DEF Secrets!Saved
<1>d. \/ UNCHANGED <<gets, loading, deployPending>>
      \/ \E w \in switches : Secrets!StreamRead(w)
      \/ \E p \in puts : Secrets!Saved(p)
      \/ \E x \in {"yes", "no"} : Secrets!Fetched(x)
      \/ Secrets!Answers \/ Secrets!NotFetched \/ Secrets!Refresh
  BY DEF secretsVars, Secrets!Next, Secrets!Saves, Secrets!Deploys, Secrets!Builds,
         Secrets!SwitchEnds, Secrets!SopsReads, Secrets!SopsWrites, Secrets!Flags,
         Secrets!Refused, Secrets!DaemonRestarts, Secrets!NotSaved, Secrets!ClickEdit, Secrets!Type, Secrets!Cancel,
         Secrets!HandleSave, Secrets!HandleDeploy, Secrets!page
<1> QED
  BY <1>1, <1>3, <1>5, <1>6, <1>7, <1>8, <1>d

SecretsSizes == RoomForEdits /\ EditsInRepo /\ GetsInv

LEMMA SecretsSizesHold ==
  /\ Secrets!Init => SecretsSizes
  /\ SecretsType /\ SecretsSizes /\ (Secrets!Next \/ UNCHANGED secretsVars) => SecretsSizes'
<1>1. ASSUME Secrets!Init PROVE SecretsSizes
  <2>1. /\ repo = 0 /\ file = {} /\ deployed = {} /\ acked = {} /\ unkept = {}
        /\ puts = {}
        /\ switches = {} /\ gets = [sent |-> 1, yes |-> 0, no |-> 0]
        /\ loading = TRUE /\ deployPending = FALSE
    BY <1>1 DEF Secrets!Init
  <2>2. IsFiniteSet(puts) /\ Cardinality(SentPuts(puts)) = 0
    <3>1. SentPuts(puts) = {}
      BY <2>1 DEF SentPuts
    <3> QED
      BY <2>1, <3>1, FS_EmptySet
  <2>3. gets \in [Gets -> Nat] /\ gets.sent = 1 /\ gets.yes = 0 /\ gets.no = 0
    BY <2>1 DEF Gets
  <2>4. RoomForEdits
    BY <2>1, <2>2, SecretsConstants DEF RoomForEdits
  <2>5. EditsInRepo
    BY <2>1 DEF EditsInRepo
  <2>6. GetsInv
    <3>1. gets["sent"] + gets["yes"] + gets["no"] <= MaxGets
      BY <2>3, SecretsConstants
    <3> QED
      BY <2>1, <2>3, <3>1 DEF GetsInv
  <2> QED
    BY <2>4, <2>5, <2>6 DEF SecretsSizes
<1> QED
  BY <1>1, RoomStays, EditsStay, GetsStay DEF SecretsSizes

LEMMA SecretsTypeOK == SecretsType /\ SecretsSizes => Secrets!TypeOK
<1> SUFFICES ASSUME SecretsType, SecretsSizes PROVE Secrets!TypeOK
  OBVIOUS
<1> USE DEF SecretsSizes, RoomForEdits, EditsInRepo, GetsInv
<1>c. MaxEdits \in Nat /\ MaxGets \in Nat
  BY SecretsConstants
<1>1. repo \in 0 .. MaxEdits
  <2>1. Cardinality(SentPuts(puts)) \in Nat
    BY SentFewer
  <2> QED
    BY <1>c, <2>1
<1>s. 1 .. repo \subseteq 1 .. MaxEdits /\ 0 .. repo \subseteq 0 .. MaxEdits
  BY <1>1, <1>c
<1>2. puts \subseteq Secrets!Put
  <2> SUFFICES ASSUME NEW p \in puts PROVE p \in Secrets!Put
    OBVIOUS
  <2>1. p \in PutType
    BY DEF SecretsType
  <2>2. p.edit \in 0 .. MaxEdits /\ p.base \in SUBSET (1 .. MaxEdits)
    BY <1>s DEF PutInRepo
  <2> QED
    BY <2>1, <2>2 DEF Secrets!Put, PutType
<1>3. switches \subseteq Secrets!Switch
  <2> SUFFICES ASSUME NEW w \in switches PROVE w \in Secrets!Switch
    OBVIOUS
  <2>1. w \in SwitchType
    BY DEF SecretsType
  <2>2. w.at \in SUBSET (1 .. MaxEdits)
    BY <1>s
  <2> QED
    BY <2>1, <2>2 DEF Secrets!Switch, SwitchType
<1>4. gets \in [{"sent"} \cup Secrets!Listed -> 0 .. MaxGets]
  <2>1. \A x \in Gets : gets[x] \in 0 .. MaxGets
    BY <1>c DEF Gets
  <2>2. {"sent"} \cup Secrets!Listed = Gets
    BY DEF Secrets!Listed, Gets
  <2> QED
    BY <2>1, <2>2
<1>5. /\ flag \in BOOLEAN /\ loading \in BOOLEAN /\ deployPending \in BOOLEAN
      /\ deploying \in BOOLEAN
  BY DEF SecretsType
<1>6. editModal \in [open : BOOLEAN, name : Secret \cup {None}, value : Secret \cup {None}]
  BY DEF SecretsType
<1>7. /\ file \subseteq 1 .. repo /\ deployed \subseteq 1 .. repo
      /\ acked \subseteq 1 .. repo /\ unkept \subseteq acked
  OBVIOUS
<1> QED
  BY <1>1, <1>2, <1>3, <1>4, <1>5, <1>6, <1>7 DEF Secrets!TypeOK

-----------------------------------------------------------------------------
(* The types of the page of the storage pools.                             *)

(* All the page holds was made from a version the daemon has had.          *)
StorageSeen ==
  /\ mounted \in Seq(BOOLEAN) /\ Len(mounted) \in 1 .. MaxAt
  /\ storagePolls \subseteq 1 .. Len(mounted) /\ status \in 0 .. Len(mounted)
  /\ prevIO \in 0 .. Len(mounted)
  /\ ioRate \in Int /\ ioRate <= MaxAt /\ 0 <= ioRate + MaxAt
  /\ sizes \in 0 .. Len(mounted)
  /\ usage \subseteq [phase : {"sent", "ok", "failed"}, at : 0 .. Len(mounted)]

StorageType ==
  /\ StorageSeen
  /\ actionRequests \subseteq [op : {"mount", "unmount", "init", "create", "delete"},
                               phase : {"sent", "ok", "failed"}]
  /\ actionLoading \in BOOLEAN /\ queryLoading \in BOOLEAN /\ calculatingUsage \in BOOLEAN

LEMMA StorageLater ==
  ASSUME StorageSeen, NEW m \in BOOLEAN, Len(mounted) < MaxAt, mounted' = Append(mounted, m),
         UNCHANGED <<storagePolls, status, prevIO, ioRate, sizes, usage>>
  PROVE  StorageSeen'
<1>1. MaxAt \in Nat
  BY DashboardAssumption DEF DashboardAssumption, Storage!StorageAssumption
<1>2. mounted' \in Seq(BOOLEAN) /\ Len(mounted') = Len(mounted) + 1
  BY AppendProperties DEF StorageSeen
<1>3. /\ Len(mounted) \in Nat /\ Len(mounted') \in 1 .. MaxAt
      /\ \A n \in 0 .. Len(mounted) : n \in 0 .. Len(mounted')
      /\ \A n \in 1 .. Len(mounted) : n \in 1 .. Len(mounted')
  BY <1>1, <1>2 DEF StorageSeen
<1>4. usage' \subseteq [phase : {"sent", "ok", "failed"}, at : 0 .. Len(mounted')]
  BY <1>3 DEF StorageSeen
<1> QED
  BY <1>2, <1>3, <1>4 DEF StorageSeen

LEMMA StorageTyped ==
  ASSUME StorageType, Storage!Next \/ UNCHANGED storageVars
  PROVE  StorageType'
<1> DEFINE Others == <<storagePolls, status, prevIO, ioRate, sizes, usage>>
           Flags == /\ actionLoading' \in BOOLEAN /\ queryLoading' \in BOOLEAN
                    /\ calculatingUsage' \in BOOLEAN
           Action == [op : {"mount", "unmount", "init", "create", "delete"},
                      phase : {"sent", "ok", "failed"}]
<1>c. MaxAt \in Nat /\ Len(mounted) \in Nat \ {0} /\ Len(mounted) \in 1 .. Len(mounted)
      /\ Len(mounted) <= MaxAt
  BY DashboardAssumption
  DEF DashboardAssumption, Storage!StorageAssumption, StorageType, StorageSeen
<1>1. CASE UNCHANGED storageVars
  BY <1>1 DEF storageVars, StorageType, StorageSeen
<1>2. ASSUME NEW r \in actionRequests, Storage!Handles(r) PROVE StorageType'
  <2>1. actionRequests' \subseteq Action
    <3>1. PICK phase \in {"ok", "failed"} :
            actionRequests' = (actionRequests \ {r}) \cup {[r EXCEPT !.phase = phase]}
      BY <1>2 DEF Storage!Handles
    <3>2. r \in Action
      BY DEF StorageType
    <3>3. [r EXCEPT !.phase = phase] \in Action
      BY <3>2
    <3> QED
      BY <3>1, <3>3 DEF StorageType
  <2>2. UNCHANGED <<Others, actionLoading, queryLoading, calculatingUsage>>
    BY <1>2 DEF Storage!Handles, Storage!list, Storage!sizing
  <2>3. \/ Len(mounted) < MaxAt /\ \E m \in BOOLEAN : mounted' = Append(mounted, m)
        \/ mounted' = mounted
    BY <1>2 DEF Storage!Handles, Storage!At
  <2>4. StorageSeen'
    BY <2>2, <2>3, StorageLater DEF StorageType, StorageSeen
  <2> QED
    BY <2>1, <2>2, <2>4 DEF StorageType
<1>3. CASE Storage!DaemonChanges
  <2>1. Len(mounted) < MaxAt /\ \E m \in BOOLEAN : mounted' = Append(mounted, m)
    BY <1>3 DEF Storage!DaemonChanges, Storage!At
  <2>2. UNCHANGED <<Others, actionRequests, actionLoading, queryLoading, calculatingUsage>>
    BY <1>3 DEF Storage!DaemonChanges, Storage!list, Storage!sizing, Storage!actions
  <2>3. StorageSeen'
    BY <2>1, <2>2, StorageLater DEF StorageType
  <2> QED
    BY <2>2, <2>3 DEF StorageType
<1>4. ASSUME NEW s \in storagePolls, Storage!Fetched(s) PROVE StorageType'
  <2>1. /\ storagePolls' = storagePolls \ {s} /\ queryLoading' = FALSE
        /\ UNCHANGED <<mounted, sizes, usage, actionRequests, actionLoading, calculatingUsage>>
        /\ \/ UNCHANGED <<status, prevIO, ioRate>>
           \/ \E v \in s .. Len(mounted) :
                /\ status' = v /\ prevIO' = v
                /\ ioRate' = IF prevIO = 0 THEN ioRate ELSE v - prevIO
    BY <1>4 DEF Storage!Fetched, Storage!Counters, Storage!At, Storage!actions, Storage!sizing
  <2>2. s \in 1 .. Len(mounted) /\ prevIO \in 0 .. Len(mounted)
    BY DEF StorageType, StorageSeen
  <2>3. /\ status' \in 0 .. Len(mounted) /\ prevIO' \in 0 .. Len(mounted)
        /\ ioRate' \in Int /\ ioRate' <= MaxAt /\ 0 <= ioRate' + MaxAt
    BY <1>c, <2>1, <2>2 DEF StorageType, StorageSeen
  <2> QED
    BY <2>1, <2>3 DEF StorageType, StorageSeen
<1>5. CASE Storage!Poll
  <2>1. /\ storagePolls' = storagePolls \cup {Len(mounted)}
        /\ UNCHANGED <<mounted, status, prevIO, ioRate, sizes, usage, actionRequests,
                       actionLoading, queryLoading, calculatingUsage>>
    BY <1>5 DEF Storage!Poll, Storage!FetchStorage, Storage!At, Storage!actions,
                Storage!sizing
  <2> QED
    BY <1>c, <2>1 DEF StorageType, StorageSeen
<1>6. ASSUME NEW r \in actionRequests, Storage!ActionSettled(r) PROVE StorageType'
  <2>1. /\ storagePolls' \subseteq storagePolls \cup {Len(mounted)}
        /\ actionRequests' \subseteq actionRequests /\ actionLoading' = FALSE
        /\ UNCHANGED <<mounted, status, prevIO, ioRate, sizes, usage, queryLoading,
                       calculatingUsage>>
    BY <1>6 DEF Storage!ActionSettled, Storage!BusyAfter, Storage!FetchStorage, Storage!At,
                Storage!sizing
  <2> QED
    BY <1>c, <2>1 DEF StorageType, StorageSeen
<1>7. ASSUME NEW op \in Storage!Offers, Storage!Press(op) PROVE StorageType'
  <2>1. /\ actionRequests' = actionRequests \cup {[op |-> op, phase |-> "sent"]}
        /\ actionLoading' = TRUE
        /\ UNCHANGED <<mounted, Others, queryLoading, calculatingUsage>>
    BY <1>7 DEF Storage!Press, Storage!Pressed, Storage!list, Storage!sizing
  <2>2. op \in {"mount", "unmount", "init", "create", "delete"}
    BY DEF Storage!Offers, Storage!PoolButtons, Storage!SubvolumeButtons
  <2> QED
    BY <2>1, <2>2 DEF StorageType, StorageSeen
<1>8. CASE Storage!CalculateUsage
  <2>1. /\ usage' = usage \cup {[phase |-> "sent", at |-> 0]} /\ calculatingUsage' = TRUE
        /\ UNCHANGED <<mounted, storagePolls, status, prevIO, ioRate, sizes, actionRequests,
                       actionLoading, queryLoading>>
    BY <1>8 DEF Storage!CalculateUsage, Storage!list, Storage!actions
  <2>2. [phase |-> "sent", at |-> 0] \in [phase : {"sent", "ok", "failed"},
                                          at : 0 .. Len(mounted)]
    BY <1>c
  <2> QED
    BY <2>1, <2>2 DEF StorageType, StorageSeen
<1>9. ASSUME NEW r \in usage, Storage!UsageArrives(r) PROVE StorageType'
  <2>1. PICK phase \in {"ok", "failed"} :
          usage' = (usage \ {r}) \cup {[phase |-> phase, at |-> Len(mounted)]}
    BY <1>9 DEF Storage!UsageArrives, Storage!At
  <2>2. UNCHANGED <<mounted, storagePolls, status, prevIO, ioRate, sizes, actionRequests,
                    actionLoading, queryLoading, calculatingUsage>>
    BY <1>9 DEF Storage!UsageArrives, Storage!list, Storage!actions
  <2>3. [phase |-> phase, at |-> Len(mounted)] \in [phase : {"sent", "ok", "failed"},
                                                   at : 0 .. Len(mounted)]
    BY <1>c
  <2> QED
    BY <2>1, <2>2, <2>3 DEF StorageType, StorageSeen
<1>10. ASSUME NEW r \in usage, Storage!UsageSettled(r) PROVE StorageType'
  <2>1. /\ usage' = usage \ {r} /\ calculatingUsage' = FALSE /\ sizes' \in {sizes, r.at}
        /\ UNCHANGED <<mounted, storagePolls, status, prevIO, ioRate, actionRequests,
                       actionLoading, queryLoading>>
    BY <1>10 DEF Storage!UsageSettled, Storage!list, Storage!actions
  <2>2. r.at \in 0 .. Len(mounted)
    BY DEF StorageType, StorageSeen
  <2> QED
    BY <2>1, <2>2 DEF StorageType, StorageSeen
<1> QED
  BY <1>1, <1>2, <1>3, <1>4, <1>5, <1>6, <1>7, <1>8, <1>9, <1>10
  DEF Storage!Next, Storage!Acts, Storage!Calculates

LEMMA StorageTypes ==
  /\ Storage!Init => StorageType
  /\ StorageType => Storage!TypeOK
<1>c. MaxAt \in Nat \ {0}
  BY DashboardAssumption DEF DashboardAssumption, Storage!StorageAssumption
<1>1. ASSUME Storage!Init PROVE StorageType
  <2>1. /\ mounted = <<FALSE>> /\ storagePolls = {1} /\ status = 0 /\ queryLoading = TRUE
        /\ prevIO = 0 /\ ioRate = 0 /\ actionRequests = {} /\ actionLoading = FALSE
        /\ usage = {} /\ calculatingUsage = FALSE /\ sizes = 0
    BY <1>1 DEF Storage!Init
  <2>2. mounted \in Seq(BOOLEAN) /\ Len(mounted) = 1
    BY <2>1
  <2>3. /\ storagePolls = {1} /\ status = 0 /\ prevIO = 0 /\ ioRate = 0 /\ usage = {}
        /\ sizes = 0
    BY <2>1
  <2>4. StorageSeen
    BY <1>c, <2>2, <2>3 DEF StorageSeen
  <2> QED
    BY <2>1, <2>4 DEF StorageType
<1>2. ASSUME StorageType PROVE Storage!TypeOK
  <2>1. /\ mounted \in Seq(BOOLEAN) /\ Storage!At \in 1 .. MaxAt
        /\ storagePolls \subseteq 1 .. MaxAt /\ status \in 0 .. MaxAt
        /\ prevIO \in 0 .. MaxAt /\ sizes \in 0 .. MaxAt
    BY <1>c, <1>2 DEF StorageType, StorageSeen, Storage!At
  <2>2. ioRate \in -MaxAt .. MaxAt
    BY <1>c, <1>2 DEF StorageType, StorageSeen
  <2>3. usage \subseteq [phase : {"sent", "ok", "failed"}, at : 0 .. MaxAt]
    BY <1>c, <1>2 DEF StorageType, StorageSeen
  <2>4. /\ actionRequests \subseteq Storage!Action
        /\ actionLoading \in BOOLEAN /\ queryLoading \in BOOLEAN
        /\ calculatingUsage \in BOOLEAN
    BY <1>2 DEF StorageType, Storage!Action
  <2> QED
    BY <2>1, <2>2, <2>3, <2>4 DEF Storage!TypeOK
<1> QED
  BY <1>1, <1>2

-----------------------------------------------------------------------------
(* The types of the pages of the backups, the diagnostics and the machines *)
(* and of the report of a bug.                                             *)

(* The drawer holds a job whenever it is open.                             *)
DrawerType ==
  /\ jobs \in BOOLEAN
  /\ editingJob = Backups!NoJob \/ editingJob \in [unit : Unit, typed : BOOLEAN]
  /\ saves \subseteq [unit : Unit, phase : {"sent", "ok", "failed"}]
  /\ runs \subseteq Unit

LEMMA DrawerTyped ==
  /\ Backups!Init => DrawerType
  /\ DrawerType /\ (Backups!Next \/ UNCHANGED drawerVars) => DrawerType'
<1>n. Backups!NoJob = Backups!NoJob'
  BY DEF Backups!NoJob
<1>1. Backups!Init => DrawerType
  BY DEF Backups!Init, DrawerType
<1> SUFFICES ASSUME DrawerType, Backups!Next \/ UNCHANGED drawerVars PROVE DrawerType'
  BY <1>1
<1> USE DEF DrawerType
<1>2. ASSUME NEW u \in Unit, Backups!EditJob(u) PROVE DrawerType'
  <2>1. editingJob' = [unit |-> u, typed |-> FALSE] /\ UNCHANGED <<jobs, saves, runs>>
    BY <1>2 DEF Backups!EditJob
  <2>2. editingJob' \in [unit : Unit, typed : BOOLEAN]
    BY <2>1
  <2> QED
    BY <2>1, <2>2
<1>3. CASE Backups!TypeInDrawer
  <2>1. /\ editingJob' = [editingJob EXCEPT !.typed = TRUE]
        /\ editingJob \in [unit : Unit, typed : BOOLEAN]
        /\ UNCHANGED <<jobs, saves, runs>>
    BY <1>3 DEF Backups!TypeInDrawer
  <2>2. editingJob' \in [unit : Unit, typed : BOOLEAN]
    BY <2>1
  <2> QED
    BY <2>1, <2>2
<1>4. CASE Backups!CancelEdit
  BY <1>4, <1>n DEF Backups!CancelEdit
<1>5. CASE Backups!SaveJob
  <2>1. /\ saves' = saves \cup {[unit |-> editingJob.unit, phase |-> "sent"]}
        /\ editingJob \in [unit : Unit, typed : BOOLEAN]
        /\ UNCHANGED <<jobs, editingJob, runs>>
    BY <1>5 DEF Backups!SaveJob
  <2>2. [unit |-> editingJob.unit, phase |-> "sent"]
          \in [unit : Unit, phase : {"sent", "ok", "failed"}]
    BY <2>1
  <2> QED
    BY <2>1, <2>2
<1>6. ASSUME NEW r \in saves, Backups!Patched(r) PROVE DrawerType'
  <2>1. PICK phase \in {"ok", "failed"} :
          saves' = (saves \ {r}) \cup {[r EXCEPT !.phase = phase]}
    BY <1>6 DEF Backups!Patched
  <2>2. r \in [unit : Unit, phase : {"sent", "ok", "failed"}]
    OBVIOUS
  <2>3. [r EXCEPT !.phase = phase] \in [unit : Unit, phase : {"sent", "ok", "failed"}]
    BY <2>2
  <2>4. UNCHANGED <<jobs, editingJob, runs>>
    BY <1>6 DEF Backups!Patched
  <2> QED
    BY <2>1, <2>3, <2>4, <1>n
<1>7. ASSUME NEW r \in saves, Backups!JobSaved(r) PROVE DrawerType'
  BY <1>7, <1>n DEF Backups!JobSaved, Backups!DrawerAfter
<1>8. CASE \/ Backups!Overview \/ UNCHANGED drawerVars
           \/ \E u \in Unit : Backups!RunJob(u) \/ Backups!RunAnswered(u)
           \/ UNCHANGED Backups!drawer
  BY <1>8, <1>n DEF Backups!Overview, Backups!RunJob, Backups!RunAnswered, drawerVars,
                    Backups!drawer
<1> QED
  BY <1>2, <1>3, <1>4, <1>5, <1>6, <1>7, <1>8
  DEF Backups!Next, Backups!Settles, Backups!showLogs

(* The list of the diagnostics was made from a version the daemon has had. *)
ListType ==
  /\ at \in 1 .. MaxAt /\ polls \subseteq 1 .. at /\ services \in 0 .. at

LEMMA ListTyped ==
  /\ Diagnostics!Init => ListType
  /\ ListType /\ (Diagnostics!Next \/ UNCHANGED listVars) => ListType'
<1>c. MaxAt \in Nat \ {0}
  BY DashboardAssumption DEF DashboardAssumption, Diagnostics!DiagnosticsAssumption
<1>1. Diagnostics!Init => ListType
  BY <1>c DEF Diagnostics!Init, ListType
<1>2. ASSUME ListType, Diagnostics!ServiceChanges PROVE ListType'
  BY <1>c, <1>2 DEF ListType, Diagnostics!ServiceChanges
<1>3. ASSUME ListType, Diagnostics!FetchDiagnostics PROVE ListType'
  BY <1>c, <1>3 DEF ListType, Diagnostics!FetchDiagnostics
<1>4. ASSUME ListType, NEW s \in polls, Diagnostics!Polled(s) PROVE ListType'
  BY <1>c, <1>4 DEF ListType, Diagnostics!Polled, Diagnostics!SetServices
<1>5. ASSUME ListType, UNCHANGED listVars PROVE ListType'
  BY <1>5 DEF ListType, listVars
<1> QED
  BY <1>1, <1>2, <1>3, <1>4, <1>5
  DEF listVars, Diagnostics!list, Diagnostics!Next, Diagnostics!Settles,
      Diagnostics!showLogs

(* What has been asked for is a unit's logs.                               *)
AskedType == asked \subseteq Unit /\ pending \subseteq Unit

LEMMA AskedTyped ==
  /\ Backups!Init => AskedType
  /\ AskedType /\ (Backups!Next \/ Diagnostics!Next \/ UNCHANGED dialogVars) => AskedType'
BY DEF AskedType, dialogVars, Backups!Init, Backups!DialogInit, Backups!Next,
       Diagnostics!Next, Backups!dialog, Diagnostics!dialog,
       Backups!Settles, Backups!Overview, Backups!EditJob, Backups!RunJob,
       Backups!RunAnswered, Backups!showLogs, Backups!Patched, Backups!JobSaved,
       Backups!TypeInDrawer, Backups!CancelEdit, Backups!SaveJob, Backups!ShowLogs,
       Backups!LogsArrive, Backups!CloseLogs, Diagnostics!Settles,
       Diagnostics!ServiceChanges, Diagnostics!FetchDiagnostics, Diagnostics!Polled,
       Diagnostics!showLogs, Diagnostics!ShowLogs, Diagnostics!LogsArrive,
       Diagnostics!CloseLogs

(* virsh leaves a machine in one of its states.                            *)
LEMMA MachinesAfter ==
  ASSUME NEW s \in VMs!State, NEW op
  PROVE  VMs!After(s, op) \subseteq VMs!State
BY DEF VMs!After, VMs!State

LEMMA MachinesTyped ==
  /\ VMs!Init => VMs!TypeOK
  /\ VMs!TypeOK /\ (VMs!Next \/ UNCHANGED vmVars) => VMs!TypeOK'
<1>1. VMs!Init => VMs!TypeOK
  BY DEF VMs!Init, VMs!TypeOK, VMs!State, VMs!List
<1> SUFFICES ASSUME VMs!TypeOK, VMs!Next \/ UNCHANGED vmVars PROVE VMs!TypeOK'
  BY <1>1
<1> USE DEF VMs!TypeOK
<1>2. CASE VMs!Overview
  BY <1>2 DEF VMs!Overview, VMs!List
<1>3. ASSUME NEW u \in VM, NEW op \in VMs!Operation, VMs!DoAction(u, op)
      PROVE  VMs!TypeOK'
  BY <1>3 DEF VMs!DoAction
<1>4. ASSUME NEW u \in VM, NEW op \in VMs!Operation, VMs!Choose(u, op)
      PROVE  VMs!TypeOK'
  BY <1>4, <1>3 DEF VMs!Choose
<1>5. CASE VMs!Confirm
  <2>1. confirmDestroy \in VM /\ "destroy" \in VMs!Operation
    BY <1>5 DEF VMs!Confirm, VMs!Operation
  <2> QED
    BY <2>1, <1>3, <1>5 DEF VMs!Confirm
<1>6. ASSUME NEW u \in VM, VMs!MachineChanges(u) \/ VMs!ChooseDestroy(u)
      PROVE  VMs!TypeOK'
  BY <1>6 DEF VMs!MachineChanges, VMs!ChooseDestroy
<1>7. ASSUME NEW r \in requests, VMs!Handles(r) PROVE VMs!TypeOK'
  <2>1. r.vm \in VM /\ states[r.vm] \in VMs!State
    OBVIOUS
  <2>2. PICK s \in VMs!State : states' = [states EXCEPT ![r.vm] = s]
    BY <1>7, <2>1, MachinesAfter DEF VMs!Handles
  <2>3. requests' \subseteq requests /\ UNCHANGED <<vms, confirmDestroy>>
    BY <1>7 DEF VMs!Handles
  <2> QED
    BY <2>1, <2>2, <2>3
<1>8. CASE VMs!Dismiss \/ UNCHANGED vmVars
  BY <1>8 DEF VMs!Dismiss, vmVars
<1> QED
  BY <1>2, <1>4, <1>5, <1>6, <1>7, <1>8 DEF VMs!Next

LEMMA BugTyped ==
  /\ Bug!Init => Bug!TypeOK
  /\ Bug!TypeOK /\ (Bug!Next \/ UNCHANGED bugVars) => Bug!TypeOK'
<1>1. Bug!Init => Bug!TypeOK
  BY DEF Bug!Init, Bug!TypeOK
<1> SUFFICES ASSUME Bug!TypeOK, Bug!Next \/ UNCHANGED bugVars PROVE Bug!TypeOK'
  BY <1>1
<1> USE DEF Bug!TypeOK, Bug!form, Bug!tasks
<1>2. CASE Bug!Open \/ Bug!Type \/ Bug!Close \/ Bug!Submit \/ UNCHANGED bugVars
  BY <1>2 DEF Bug!Open, Bug!Type, Bug!Close, Bug!Submit, bugVars
<1>3. CASE Bug!Settles
  BY <1>3 DEF Bug!Settles, Bug!PostSettles, Bug!NotSubmitted, Bug!SubmissionOver,
              Bug!Submitted
<1>4. ASSUME NEW t \in Task,
             Bug!Progress(t) \/ Bug!ExtensionError(t) \/ Bug!Ends(t) \/ Bug!Breaks(t)
      PROVE  Bug!TypeOK'
  BY <1>4 DEF Bug!Progress, Bug!ExtensionError, Bug!Ends, Bug!CloseStream, Bug!Breaks
<1> QED
  BY <1>2, <1>3, <1>4 DEF Bug!Next

-----------------------------------------------------------------------------
(* The types of the page of the logs.                                      *)

(* The query the controls show is one of a service and its own fields.     *)
LEMMA QueryTyped ==
  ASSUME NEW u \in Logs!Params, NEW text \in Text
  PROVE  Logs!Query(u, text) \in Logs!Queries
<1>a. FirstService \in Service /\ FieldsOf \in [Service -> SUBSET Field]
  BY DashboardAssumption DEF DashboardAssumption, Logs!LogsAssumption
<1> DEFINE s == Logs!activeService(u)
           fields == [f \in FieldsOf[s] |-> u.field[f]]
<1>1. s \in Service
  BY <1>a DEF Logs!activeService
<1>2. u.window \in Window /\ u.field \in [Field -> Value]
  BY DEF Logs!Params
<1>3. FieldsOf[s] \subseteq Field
  BY <1>a, <1>1
<1>4. fields \in Logs!FilterOf(s)
  BY <1>2, <1>3 DEF Logs!FilterOf
<1> HIDE DEF fields, s
<1>5. fields \in UNION {Logs!FilterOf(v) : v \in Service}
  BY <1>1, <1>4
<1>6. Logs!Query(u, text) = [service |-> s, window |-> u.window, text |-> text,
                             fields |-> fields]
  BY DEF Logs!Query, s, fields
<1> QED
  BY <1>1, <1>2, <1>5, <1>6 DEF Logs!Queries

(* What the user may set in the address are parameters of the page.        *)
LEMMA ParamsTyped ==
  ASSUME NEW u \in Logs!Params
  PROVE  /\ \A s \in Service, field \in [Field -> Value] :
              [u EXCEPT !.service = s, !.field = field] \in Logs!Params
         /\ \A s \in Service : [u EXCEPT !.service = s] \in Logs!Params
         /\ \A w \in Window : [u EXCEPT !.window = w] \in Logs!Params
         /\ \A field \in [Field -> Value] : [u EXCEPT !.field = field] \in Logs!Params
<1>1. ASSUME NEW s \in Service, NEW field \in [Field -> Value]
      PROVE  [u EXCEPT !.service = s, !.field = field] \in Logs!Params
  <2>1. u \in [service : Service \cup {Nothing}, window : Window, field : [Field -> Value]]
    BY DEF Logs!Params
  <2>2. PICK q : q = [u EXCEPT !.service = s, !.field = field]
    OBVIOUS
  <2>3. q = [service |-> s, window |-> u.window, field |-> field]
    BY <2>1, <2>2
  <2>4. q \in Logs!Params
    BY <2>1, <2>3 DEF Logs!Params
  <2> QED
    BY <2>2, <2>4
<1> QED
  BY <1>1 DEF Logs!Params

(* The effects after a render send at most the query of the controls.      *)
LEMMA EffectsTyped ==
  ASSUME Logs!TypeOK, config' \in {"loading", "failed", "ready"},
         url' \in Logs!Params, localQuery' \in Text, debouncedQuery' \in Text,
         debounce' \in BOOLEAN, Logs!Effects(url', debouncedQuery')
  PROVE  Logs!TypeOK'
<1>1. CASE UNCHANGED Logs!hook
  BY <1>1 DEF Logs!TypeOK, Logs!hook, Logs!Params, Logs!Queries, Logs!FilterOf
<1>2. CASE /\ Logs!FetchLogs(Logs!Query(url', debouncedQuery'))
           /\ lines' = Logs!LinesAfter(url')
  <2>1. PICK q \in Logs!Queries :
          /\ request' = [query |-> q, phase |-> "sent"]
          /\ late' \in {request.query, late}
          /\ isLoading' = TRUE /\ error' = FALSE /\ recent' = TRUE /\ timers' = timers
          /\ lines' \in {Nothing, lines}
    BY <1>2, QueryTyped DEF Logs!FetchLogs, Logs!LinesAfter
  <2> QED
    BY <2>1 DEF Logs!TypeOK
<1> QED
  BY <1>1, <1>2 DEF Logs!Effects

LEMMA LogsTyped ==
  /\ Logs!Init => Logs!TypeOK
  /\ Logs!TypeOK /\ (Logs!Next \/ UNCHANGED logsVars) => Logs!TypeOK'
<1>a. FirstService \in Service
  BY DashboardAssumption DEF DashboardAssumption, Logs!LogsAssumption
<1>b. "" \in Value /\ "" \in Text
  BY DashboardAssumption DEF DashboardAssumption, Logs!LogsAssumption
<1>n. MaxTimers \in Nat
  BY DashboardAssumption DEF DashboardAssumption, Logs!LogsAssumption
<1>1. ASSUME Logs!Init PROVE Logs!TypeOK
  <2>1. url \in Logs!Params
    BY <1>b, <1>1 DEF Logs!Init, Logs!Params
  <2>2. request \in [query : Logs!Queries \cup {Nothing},
                     phase : {"none", "sent", "answered", "failed"}]
    BY <1>1 DEF Logs!Init, Logs!Idle
  <2>3. /\ config = "loading" /\ localQuery \in Text /\ debouncedQuery \in Text
        /\ debounce = FALSE /\ late = Nothing /\ lines = Nothing
        /\ isLoading = FALSE /\ error = FALSE /\ recent = FALSE /\ timers = 0
    BY <1>1 DEF Logs!Init
  <2>4. timers \in 0 .. MaxTimers
    BY <1>n, <2>3
  <2> QED
    BY <2>1, <2>2, <2>3, <2>4 DEF Logs!TypeOK
<1> SUFFICES ASSUME Logs!TypeOK, Logs!Next \/ UNCHANGED logsVars PROVE Logs!TypeOK'
  BY <1>1
<1>s. timers \in 0 .. MaxTimers
  BY DEF Logs!TypeOK
<1>t. /\ url \in Logs!Params /\ debounce \in BOOLEAN /\ localQuery \in Text
      /\ debouncedQuery \in Text
      /\ request \in [query : Logs!Queries \cup {Nothing},
                      phase : {"none", "sent", "answered", "failed"}]
  BY DEF Logs!TypeOK
<1>f. ASSUME config' \in {"loading", "failed", "ready"}, url' \in Logs!Params,
             UNCHANGED <<localQuery, debouncedQuery, lines>>, debounce' \in BOOLEAN,
             Logs!FetchLogs(Logs!Current)
      PROVE  Logs!TypeOK'
  <2>1. PICK q \in Logs!Queries :
          /\ request' = [query |-> q, phase |-> "sent"]
          /\ late' \in {request.query, late}
          /\ isLoading' = TRUE /\ error' = FALSE /\ recent' = TRUE /\ timers' = timers
    BY <1>f, <1>t, QueryTyped DEF Logs!FetchLogs, Logs!Current
  <2> QED
    BY <1>f, <2>1 DEF Logs!TypeOK
<1>2. CASE Logs!ConfigArrives
  <2>1. PICK s \in Service : url' = [url EXCEPT !.service = s]
    <3>1. url.service \in Service \cup {Nothing}
          /\ url' = [url EXCEPT !.service = IF url.service = Nothing THEN FirstService
                                            ELSE url.service]
      BY <1>2, <1>t DEF Logs!ConfigArrives, Logs!Params
    <3> QED
      BY <1>a, <3>1
  <2>2. url' \in Logs!Params
    BY <1>t, <2>1, ParamsTyped
  <2>3. /\ config' = "ready" /\ debounce' = TRUE /\ Logs!FetchLogs(Logs!Current)
        /\ UNCHANGED <<localQuery, debouncedQuery, lines>>
    BY <1>2 DEF Logs!ConfigArrives
  <2> QED
    BY <1>f, <2>2, <2>3
<1>3. CASE Logs!Interval \/ Logs!Refresh
  <2>1. /\ config' = "ready" /\ url' \in Logs!Params /\ debounce' \in BOOLEAN
        /\ UNCHANGED <<localQuery, debouncedQuery, lines>>
        /\ Logs!FetchLogs(Logs!Current)
    BY <1>3, <1>t DEF Logs!Interval, Logs!Refresh, Logs!search
  <2> QED
    BY <1>f, <2>1
<1>4. CASE Logs!Arrives
  <2>1. PICK phase \in {"answered", "failed"} : request' = [request EXCEPT !.phase = phase]
    BY <1>4 DEF Logs!Arrives
  <2>2. request' \in [query : Logs!Queries \cup {Nothing},
                      phase : {"none", "sent", "answered", "failed"}]
    BY <1>t, <2>1
  <2>3. UNCHANGED <<config, url, localQuery, debouncedQuery, debounce, late, lines,
                    isLoading, error, recent, timers>>
    BY <1>4 DEF Logs!Arrives, Logs!search
  <2> QED
    BY <2>2, <2>3 DEF Logs!TypeOK, Logs!Params, Logs!Queries, Logs!FilterOf
<1>5. CASE Logs!Callback
  <2>1. /\ request' = Logs!Idle /\ UNCHANGED <<late, recent>>
        /\ lines' = request.query \/ lines' = lines
        /\ error' = TRUE \/ error' = error
    BY <1>5 DEF Logs!Callback
  <2>2. isLoading' = FALSE \/ isLoading' = isLoading
    BY <1>5 DEF Logs!Callback, Logs!DoneLoading
  <2>3. timers' \in 0 .. MaxTimers
    BY <1>5, <1>n, <1>s DEF Logs!Callback, Logs!DoneLoading
  <2>4. UNCHANGED <<config, url, localQuery, debouncedQuery, debounce>>
    BY <1>5 DEF Logs!Callback, Logs!search
  <2>5. request' \in [query : Logs!Queries \cup {Nothing},
                      phase : {"none", "sent", "answered", "failed"}]
    BY <2>1 DEF Logs!Idle
  <2>6. lines' \in Logs!Queries \cup {Nothing} /\ error' \in BOOLEAN /\ isLoading' \in BOOLEAN
    BY <1>t, <2>1, <2>2 DEF Logs!TypeOK
  <2>7. late' \in Logs!Queries \cup {Nothing} /\ recent' \in BOOLEAN
    BY <2>1 DEF Logs!TypeOK
  <2> QED
    BY <2>3, <2>4, <2>5, <2>6, <2>7 DEF Logs!TypeOK, Logs!Params, Logs!Queries, Logs!FilterOf
<1>6. ASSUME config' \in {"loading", "failed", "ready"}, late' \in Logs!Queries \cup {Nothing},
             UNCHANGED <<url, localQuery, debouncedQuery, debounce, request, lines, error>>,
             isLoading' \in BOOLEAN, recent' \in BOOLEAN, timers' \in 0 .. MaxTimers
      PROVE  Logs!TypeOK'
  BY <1>6 DEF Logs!TypeOK, Logs!Params, Logs!Queries, Logs!FilterOf
<1>c. CASE Logs!CallbackAborted
  <2>1. /\ late' = Nothing
        /\ UNCHANGED <<config, url, localQuery, debouncedQuery, debounce, request, lines,
                       error, isLoading, recent, timers>>
    BY <1>c DEF Logs!CallbackAborted, Logs!LinesAborted, Logs!search
  <2> QED
    BY <2>1, <1>6 DEF Logs!TypeOK
<1>e. CASE Logs!TimeoutFires
  <2>1. /\ isLoading' = FALSE
        /\ UNCHANGED <<config, url, localQuery, debouncedQuery, debounce, request, lines,
                       error, late, recent>>
    BY <1>e DEF Logs!TimeoutFires, Logs!search
  <2>2. timers' \in 0 .. MaxTimers
    BY <1>e, <1>n, <1>s DEF Logs!TimeoutFires
  <2> QED
    BY <2>1, <2>2, <1>6 DEF Logs!TypeOK
<1>g. CASE Logs!ConfigFails \/ Logs!TimePasses \/ UNCHANGED logsVars
  <2>1. /\ config' = config \/ config' = "failed"
        /\ recent' = recent \/ recent' = FALSE
        /\ UNCHANGED <<url, localQuery, debouncedQuery, debounce, request, lines, error,
                       late, isLoading, timers>>
    BY <1>g DEF Logs!ConfigFails, Logs!TimePasses, logsVars, Logs!hook, Logs!search
  <2> QED
    BY <2>1, <1>6 DEF Logs!TypeOK
<1>7. ASSUME NEW u \in Logs!Params, Logs!UpdateParams(u), localQuery' \in Text,
             UNCHANGED <<config, debouncedQuery>>, debounce' \in BOOLEAN
      PROVE  Logs!TypeOK'
  <2>1. config' = "ready" /\ url' = u /\ Logs!Effects(url', debouncedQuery')
    BY <1>7 DEF Logs!UpdateParams
  <2> QED
    BY <1>7, <1>t, <2>1, EffectsTyped
<1>u. url.field \in [Field -> Value]
  BY <1>t DEF Logs!Params
<1>8. ASSUME NEW s \in Service, Logs!ChooseService(s) PROVE Logs!TypeOK'
  <2>1. PICK field \in [Field -> Value] :
          Logs!UpdateParams([url EXCEPT !.service = s, !.field = field])
    <3>1. [f \in Field |-> IF f \in FieldsOf[s] THEN "" ELSE url.field[f]] \in [Field -> Value]
      BY <1>b, <1>u
    <3> QED
      BY <1>8, <3>1 DEF Logs!ChooseService
  <2>2. [url EXCEPT !.service = s, !.field = field] \in Logs!Params
    BY <1>t, ParamsTyped
  <2> QED
    BY <1>8, <1>t, <1>7, <2>1, <2>2 DEF Logs!ChooseService
<1>9. ASSUME NEW f \in Field, NEW v \in Value, Logs!ChooseField(f, v) PROVE Logs!TypeOK'
  <2>1. PICK field \in [Field -> Value] : Logs!UpdateParams([url EXCEPT !.field = field])
    <3>1. [url.field EXCEPT ![f] = v] \in [Field -> Value]
      BY <1>u
    <3>2. [url EXCEPT !.field[f] = v] = [url EXCEPT !.field = [url.field EXCEPT ![f] = v]]
      BY <1>t DEF Logs!Params
    <3> QED
      BY <1>9, <3>1, <3>2 DEF Logs!ChooseField
  <2>2. [url EXCEPT !.field = field] \in Logs!Params
    BY <1>t, ParamsTyped
  <2> QED
    BY <1>9, <1>t, <1>7, <2>1, <2>2 DEF Logs!ChooseField
<1>10. ASSUME NEW w \in Window, Logs!ChooseWindow(w) PROVE Logs!TypeOK'
  <2>1. [url EXCEPT !.window = w] \in Logs!Params
    BY <1>t, ParamsTyped
  <2> QED
    BY <1>10, <1>t, <1>7, <2>1 DEF Logs!ChooseWindow
<1>11. CASE Logs!ClearFilters
  <2>1. PICK field \in [Field -> Value] : Logs!UpdateParams([url EXCEPT !.field = field])
    <3>1. [f \in Field |-> IF f \in Logs!Filters THEN "" ELSE url.field[f]] \in [Field -> Value]
      BY <1>b, <1>u
    <3> QED
      BY <1>11, <3>1 DEF Logs!ClearFilters
  <2>2. [url EXCEPT !.field = field] \in Logs!Params
    BY <1>t, ParamsTyped
  <2>3. /\ localQuery' = "" /\ debounce' = (debounce \/ localQuery # "")
        /\ UNCHANGED <<config, debouncedQuery>>
    BY <1>11 DEF Logs!ClearFilters
  <2>4. debounce' \in BOOLEAN
    BY <2>3
  <2> QED
    BY <1>b, <1>7, <2>1, <2>2, <2>3, <2>4
<1>12. ASSUME NEW t \in Text, Logs!Type(t) PROVE Logs!TypeOK'
  BY <1>12, <1>t
  DEF Logs!Type, Logs!hook, Logs!TypeOK, Logs!Params, Logs!Queries, Logs!FilterOf
<1>13. CASE Logs!Debounce
  <2>1. /\ debounce' = FALSE /\ debouncedQuery' = localQuery
        /\ UNCHANGED <<config, url, localQuery>> /\ Logs!Effects(url', debouncedQuery')
    BY <1>13 DEF Logs!Debounce, Logs!DebounceTakes
  <2> QED
    BY <1>t, <2>1, EffectsTyped DEF Logs!TypeOK
<1> QED
  BY <1>2, <1>3, <1>4, <1>5, <1>c, <1>e, <1>g, <1>8, <1>9, <1>10, <1>11, <1>12, <1>13
  DEF Logs!Next, Logs!User, Logs!Answered, Logs!Passes

-----------------------------------------------------------------------------
(* The types of all pages together.                                        *)

DashboardType ==
  /\ page \in Page /\ SecretsSizes /\ StorageType /\ DrawerType /\ ListType /\ AskedType
  /\ VMs!TypeOK /\ Bug!TypeOK /\ Logs!TypeOK /\ Overview!TypeOK

LEMMA TypesOfPages ==
  ASSUME DashboardInv, DashboardType
  PROVE  TypeOK
<1>1. Secrets!TypeOK
  BY SecretsTypeOK DEF DashboardInv, SecretsInv, DashboardType
<1>2. Storage!TypeOK
  BY StorageTypes DEF DashboardType
<1>3. Backups!DialogType
  BY DEF DashboardInv, DialogInv, DashboardType, AskedType, Backups!DialogType
<1>4. Backups!TypeOK
  <2>1. editingJob \in Backups!JobCopy
    BY DEF DashboardInv, DrawerInv, Backups!JobCopy
  <2> QED
    BY <1>3, <2>1 DEF DashboardType, DrawerType, Backups!TypeOK
<1>5. Diagnostics!TypeOK
  <2>1. Diagnostics!DialogType
    BY DEF DashboardInv, DialogInv, DashboardType, AskedType, Diagnostics!DialogType
  <2>2. at \in 1 .. MaxAt /\ polls \subseteq 1 .. MaxAt /\ services \in 0 .. MaxAt
    <3>1. MaxAt \in Nat
      BY DashboardAssumption DEF DashboardAssumption, Diagnostics!DiagnosticsAssumption
    <3> QED
      BY <3>1 DEF DashboardType, ListType
  <2> QED
    BY <2>1, <2>2 DEF Diagnostics!TypeOK
<1> QED
  BY <1>1, <1>2, <1>4, <1>5 DEF DashboardType, TypeOK

LEMMA DashboardTyped ==
  /\ Init => DashboardType
  /\ DashboardInv /\ DashboardType /\ [Next]_vars => DashboardType'
<1>1. ASSUME Init PROVE DashboardType
  <2>1. /\ page \in Page /\ Secrets!Init /\ Logs!Init /\ Backups!Init /\ Diagnostics!Init
        /\ Storage!Init /\ VMs!Init /\ Overview!Init /\ Bug!Init
    BY <1>1 DEF Init
  <2>2. Overview!TypeOK
    BY <2>1 DEF Overview!Init, Overview!TypeOK
  <2> QED
    BY <2>1, <2>2, SecretsSizesHold, StorageTypes, DrawerTyped, ListTyped, AskedTyped,
       MachinesTyped, BugTyped, LogsTyped DEF DashboardType
<1>2. ASSUME DashboardInv, DashboardType, [Next]_vars PROVE DashboardType'
  <2>1. page' \in Page
    BY <1>2, StepOfPage DEF DashboardType, Page, Links
  <2>2. SecretsSizes'
    BY <1>2, StepOfPage, SecretsSizesHold DEF DashboardType, DashboardInv, SecretsInv
  <2>3. StorageType' /\ DrawerType' /\ ListType' /\ AskedType'
    BY <1>2, StepOfPage, StorageTyped, DrawerTyped, ListTyped, AskedTyped
    DEF DashboardType
  <2>4. VMs!TypeOK' /\ Bug!TypeOK' /\ Logs!TypeOK'
    BY <1>2, StepOfPage, MachinesTyped, BugTyped, LogsTyped DEF DashboardType
  <2>5. Overview!TypeOK'
    <3>1. Overview!Next \/ layout' = layout
      BY <1>2, StepOfPage
    <3> QED
      BY <1>2, <3>1
      DEF DashboardType, Overview!TypeOK, Overview!Next, Overview!LayoutArrives
  <2> QED
    BY <2>1, <2>2, <2>3, <2>4, <2>5 DEF DashboardType
<1> QED
  BY <1>1, <1>2

(* Every variable keeps its type on every page: the edits stay within the  *)
(* file's bound although sops runs long after the guard of the save, what  *)
(* the storage page and the diagnostics show was made from a version the   *)
(* daemon has had, and the query under way is one of a service.            *)
THEOREM TypesHold == Spec => []TypeOK
<1>1. DashboardInv /\ DashboardType => TypeOK
  BY TypesOfPages
<1> QED
  BY <1>1, DashboardInit, DashboardStep, DashboardTyped, PTL DEF Spec
-----------------------------------------------------------------------------
(* Folds: induction is over sets of numbers, without operators to pass.    *)

LEMMA SetInduction ==
  ASSUME NEW P \in SUBSET Nat, 0 \in P, \A n \in P : n + 1 \in P
  PROVE  P = Nat
<1> DEFINE R == OpToRel(<, Nat)
           T == Nat \ P
<1>1. IsWellFoundedOn(R, Nat)
  BY NatLessThanWellFounded
<1>2. \A m, n \in Nat : m < n => <<m, n>> \in R
  BY DEF OpToRel
<1> HIDE DEF R
<1>3. SUFFICES ASSUME T # {} PROVE FALSE
  OBVIOUS
<1>4. PICK x \in T : \A y \in T : ~(<<y, x>> \in R)
  <2>1. T \subseteq Nat /\ T # {}
    BY <1>3
  <2> HIDE DEF T
  <2> QED
    BY <1>1, <2>1, WFMin
<1>5. x # 0 /\ x - 1 \in Nat /\ x - 1 < x
  OBVIOUS
<1>6. x - 1 \in P
  BY <1>2, <1>4, <1>5
<1> QED
  BY <1>4, <1>5, <1>6

(* The last index of a set of indices.                                     *)
LEMMA LastOf ==
  /\ \A n \in Nat : \A s \in SUBSET (1 .. n + 1) :
       n + 1 \in s => Overview!Max(s) = n + 1
  /\ \A n \in Nat : \A s \in SUBSET (1 .. n) : s # {} => Overview!Max(s) \in s
<1>1. ASSUME NEW n \in Nat, NEW s \in SUBSET (1 .. n + 1), n + 1 \in s
      PROVE  Overview!Max(s) = n + 1
  <2>1. \A y \in s : n + 1 >= y
    OBVIOUS
  <2>2. \A x \in s : (\A y \in s : x >= y) => x = n + 1
    BY <1>1
  <2> QED
    BY <1>1, <2>1, <2>2 DEF Overview!Max
<1> DEFINE P == {n \in Nat : \A s \in SUBSET (1 .. n) : s # {} => Overview!Max(s) \in s}
<1>2. 0 \in P
  <2>1. \A s \in SUBSET (1 .. 0) : s = {}
    OBVIOUS
  <2> QED
    BY <2>1
<1>3. ASSUME NEW n \in P PROVE n + 1 \in P
  <2> SUFFICES ASSUME NEW s \in SUBSET (1 .. n + 1), s # {} PROVE Overview!Max(s) \in s
    OBVIOUS
  <2>1. CASE n + 1 \in s
    BY <1>1, <2>1
  <2>2. CASE n + 1 \notin s
    <3>1. s \in SUBSET (1 .. n)
      BY <2>2
    <3> QED
      BY <3>1
  <2> QED
    BY <2>1, <2>2
<1>4. P = Nat
  <2> HIDE DEF P
  <2>1. P \in SUBSET Nat
    BY DEF P
  <2> QED
    BY <1>2, <1>3, <2>1, SetInduction
<1> QED
  BY <1>1, <1>4

(* FoldLeft of an operator that is given by the function step.             *)
Folds(iter, base, step, seq) ==
  iter = [s \in SUBSET (DOMAIN seq) |->
           IF s = {} THEN base
           ELSE step[<<iter[s \ {Overview!Max(s)}], seq[Overview!Max(s)]>>]]

(* What a fold is of: values in S from elements in E.                      *)
StepOf(base, step, S, E) == base \in S /\ step \in [S \X E -> S]

FoldOf(base, step, seq, S, E) == StepOf(base, step, S, E) /\ seq \in Seq(E)

LEMMA FoldExists ==
  ASSUME NEW S, NEW E, NEW base, NEW step, NEW seq, FoldOf(base, step, seq, S, E)
  PROVE  \E iter \in [SUBSET (DOMAIN seq) -> S] : Folds(iter, base, step, seq)
<1> DEFINE Upto(n, g) ==
             g = [s \in SUBSET (1 .. n) |->
                   IF s = {} THEN base
                   ELSE step[<<g[s \ {Overview!Max(s)}], seq[Overview!Max(s)]>>]]
           Q(n) == n <= Len(seq) => \E g \in [SUBSET (1 .. n) -> S] : Upto(n, g)
<1>0. base \in S /\ step \in [S \X E -> S] /\ seq \in Seq(E)
  BY DEF FoldOf, StepOf
<1> HIDE DEF Upto
<1>1. Q(0)
  <2> DEFINE g == [s \in SUBSET (1 .. 0) |-> base]
  <2>1. SUBSET (1 .. 0) = {{}}
    OBVIOUS
  <2>2. g \in [SUBSET (1 .. 0) -> S] /\ Upto(0, g)
    BY <1>0, <2>1 DEF Upto
  <2> QED
    BY <2>2
<1>2. ASSUME NEW n \in Nat, Q(n) PROVE Q(n + 1)
  <2> SUFFICES ASSUME n + 1 <= Len(seq)
               PROVE  \E g \in [SUBSET (1 .. n + 1) -> S] : Upto(n + 1, g)
    OBVIOUS
  <2>1. n \in Nat /\ n <= Len(seq)
    BY <1>0
  <2>2. PICK g \in [SUBSET (1 .. n) -> S] : Upto(n, g)
    BY <1>2, <2>1
  <2> DEFINE h == [s \in SUBSET (1 .. n + 1) |->
                    IF n + 1 \in s THEN step[<<g[s \ {n + 1}], seq[n + 1]>>] ELSE g[s]]
  <2>3. seq[n + 1] \in E
    BY <1>0, <2>1
  <2>4. \A s \in SUBSET (1 .. n + 1) : s \ {n + 1} \in SUBSET (1 .. n)
    BY <2>1
  <2>5. \A s \in SUBSET (1 .. n + 1) : n + 1 \notin s => s \in SUBSET (1 .. n)
    BY <2>1
  <2>6. h \in [SUBSET (1 .. n + 1) -> S]
    BY <1>0, <2>3, <2>4, <2>5
  <2>7. ASSUME NEW s \in SUBSET (1 .. n + 1)
        PROVE  h[s] = IF s = {} THEN base
                      ELSE step[<<h[s \ {Overview!Max(s)}], seq[Overview!Max(s)]>>]
    <3>1. CASE n + 1 \in s
      <4>1. Overview!Max(s) = n + 1
        BY <2>1, <3>1, LastOf
      <4>2. h[s \ {n + 1}] = g[s \ {n + 1}]
        BY <2>4
      <4> QED
        BY <3>1, <4>1, <4>2
    <3>2. CASE n + 1 \notin s
      <4>1. s \in SUBSET (1 .. n) /\ s \ {Overview!Max(s)} \in SUBSET (1 .. n)
            /\ n + 1 \notin s \ {Overview!Max(s)}
        BY <2>5, <3>2
      <4>2. h[s] = g[s] /\ h[s \ {Overview!Max(s)}] = g[s \ {Overview!Max(s)}]
        BY <2>5, <3>2, <4>1
      <4>3. g[s] = IF s = {} THEN base
                   ELSE step[<<g[s \ {Overview!Max(s)}], seq[Overview!Max(s)]>>]
        BY <2>2, <4>1 DEF Upto
      <4> QED
        BY <4>2, <4>3
    <3> QED
      BY <3>1, <3>2
  <2>8. Upto(n + 1, h)
    BY <2>7 DEF Upto
  <2> QED
    BY <2>6, <2>8
<1>3. \A n \in Nat : Q(n)
  <2> DEFINE P == {n \in Nat : Q(n)}
  <2> HIDE DEF Q
  <2>1. 0 \in P /\ P \in SUBSET Nat /\ \A n \in P : n + 1 \in P
    BY <1>1, <1>2
  <2>2. P = Nat
    BY <2>1, SetInduction
  <2> QED
    BY <2>2
<1>4. Len(seq) \in Nat /\ DOMAIN seq = 1 .. Len(seq)
  BY <1>0
<1>5. \E g \in [SUBSET (1 .. Len(seq)) -> S] : Upto(Len(seq), g)
  <2> HIDE DEF Q
  <2>1. Q(Len(seq))
    BY <1>3, <1>4
  <2>2. Len(seq) <= Len(seq)
    BY <1>4
  <2> QED
    BY <2>1, <2>2 DEF Q
<1> QED
  BY <1>4, <1>5 DEF Folds, Upto

(* It is the only one, and what it does with one element more.             *)
Shares(n, seq, longer) ==
  /\ n \in Nat /\ 1 .. n \subseteq DOMAIN seq /\ 1 .. n \subseteq DOMAIN longer
  /\ \A i \in 1 .. n : seq[i] = longer[i]

LEMMA FoldUnique ==
  ASSUME NEW base, NEW step, NEW n, NEW seq, NEW longer, Shares(n, seq, longer),
         NEW f, Folds(f, base, step, seq), NEW g, Folds(g, base, step, longer)
  PROVE  f[1 .. n] = g[1 .. n]
<1> DEFINE P == {k \in Nat : k <= n => f[1 .. k] = g[1 .. k]}
<1>a. /\ \A s \in SUBSET (DOMAIN seq) : s # {} =>
            f[s] = step[<<f[s \ {Overview!Max(s)}], seq[Overview!Max(s)]>>]
      /\ \A s \in SUBSET (DOMAIN longer) : s # {} =>
            g[s] = step[<<g[s \ {Overview!Max(s)}], longer[Overview!Max(s)]>>]
  BY DEF Folds
<1>s. /\ n \in Nat /\ \A i \in 1 .. n : i \in DOMAIN seq /\ i \in DOMAIN longer
      /\ \A i \in 1 .. n : seq[i] = longer[i]
  BY DEF Shares
<1>1. 0 \in P
  <2>1. 1 .. 0 = {} /\ {} \in SUBSET (DOMAIN seq) /\ {} \in SUBSET (DOMAIN longer)
    OBVIOUS
  <2> QED
    BY <2>1 DEF Folds
<1>2. ASSUME NEW k \in P PROVE k + 1 \in P
  <2> SUFFICES ASSUME k + 1 <= n PROVE f[1 .. k + 1] = g[1 .. k + 1]
    OBVIOUS
  <2>1. k \in Nat /\ k + 1 \in 1 .. n /\ f[1 .. k] = g[1 .. k]
    BY <1>s
  <2>3. PICK s : s = 1 .. k + 1
    OBVIOUS
  <2>4. s \in SUBSET (DOMAIN seq) /\ s \in SUBSET (DOMAIN longer) /\ s # {}
    <3>1. \A i \in 1 .. k + 1 : i \in DOMAIN seq /\ i \in DOMAIN longer
      BY <1>s, <2>1
    <3>2. 1 \in s
      BY <2>1, <2>3
    <3> QED
      BY <2>3, <3>1, <3>2
  <2>5. s \ {k + 1} = 1 .. k
    BY <2>1, <2>3
  <2>6. Overview!Max(s) = k + 1
    BY <2>1, <2>3, LastOf
  <2>7. f[s] = step[<<f[1 .. k], seq[k + 1]>>]
    <3>1. f[s] = step[<<f[s \ {Overview!Max(s)}], seq[Overview!Max(s)]>>]
      BY <1>a, <2>4
    <3> QED
      BY <2>5, <2>6, <3>1
  <2>8. g[s] = step[<<g[1 .. k], longer[k + 1]>>]
    <3>1. g[s] = step[<<g[s \ {Overview!Max(s)}], longer[Overview!Max(s)]>>]
      BY <1>a, <2>4
    <3> QED
      BY <2>5, <2>6, <3>1
  <2>9. seq[k + 1] = longer[k + 1]
    BY <1>s, <2>1
  <2> QED
    BY <2>1, <2>3, <2>7, <2>8, <2>9
<1>3. P = Nat
  <2> HIDE DEF P
  <2>1. P \in SUBSET Nat
    BY DEF P
  <2> QED
    BY <1>1, <1>2, <2>1, SetInduction
<1> QED
  BY <1>s, <1>3

Fold(base, step, seq) == (CHOOSE iter : Folds(iter, base, step, seq))[DOMAIN seq]

LEMMA FoldIs ==
  ASSUME NEW S, NEW E, NEW base, NEW step, NEW seq, FoldOf(base, step, seq, S, E),
         NEW f, Folds(f, base, step, seq)
  PROVE  Fold(base, step, seq) = f[1 .. Len(seq)] /\ Fold(base, step, seq) \in S
<1> DEFINE c == CHOOSE iter : Folds(iter, base, step, seq)
<1>1. PICK g \in [SUBSET (DOMAIN seq) -> S] : Folds(g, base, step, seq)
  BY FoldExists
<1>2. Folds(c, base, step, seq)
  BY <1>1
<1>3. DOMAIN seq = 1 .. Len(seq) /\ Len(seq) \in Nat
  BY DEF FoldOf
<1>s. Shares(Len(seq), seq, seq)
  BY <1>3 DEF Shares
<1> HIDE DEF c
<1>4. c[1 .. Len(seq)] = f[1 .. Len(seq)]
  BY <1>2, <1>s, FoldUnique
<1>5. c[1 .. Len(seq)] = g[1 .. Len(seq)]
  BY <1>1, <1>2, <1>s, FoldUnique
<1>6. g[1 .. Len(seq)] \in S
  BY <1>1, <1>3
<1> QED
  BY <1>3, <1>4, <1>5, <1>6 DEF Fold, c

LEMMA FoldSteps ==
  ASSUME NEW S, NEW E, NEW base, NEW step, StepOf(base, step, S, E)
  PROVE  /\ Fold(base, step, <<>>) = base
         /\ \A seq \in Seq(E), e \in E :
              Fold(base, step, Append(seq, e)) = step[<<Fold(base, step, seq), e>>]
<1>1. Fold(base, step, <<>>) = base
  <2>1. <<>> \in Seq(E) /\ DOMAIN <<>> = {} /\ 1 .. Len(<<>>) = {}
    OBVIOUS
  <2>0. FoldOf(base, step, <<>>, S, E)
    BY <2>1 DEF FoldOf
  <2>2. PICK f : Folds(f, base, step, <<>>)
    BY <2>0, FoldExists
  <2>3. f[{}] = base
    BY <2>1, <2>2 DEF Folds
  <2> QED
    BY <2>0, <2>1, <2>2, <2>3, FoldIs
<1>2. ASSUME NEW seq \in Seq(E), NEW e \in E
      PROVE  Fold(base, step, Append(seq, e)) = step[<<Fold(base, step, seq), e>>]
  <2> DEFINE longer == Append(seq, e)
  <2>1. /\ longer \in Seq(E) /\ Len(longer) = Len(seq) + 1
        /\ longer[Len(seq) + 1] = e /\ \A i \in 1 .. Len(seq) : seq[i] = longer[i]
        /\ Len(seq) \in Nat
    OBVIOUS
  <2> HIDE DEF longer
  <2>0. FoldOf(base, step, seq, S, E) /\ FoldOf(base, step, longer, S, E)
    BY <2>1 DEF FoldOf
  <2>2. PICK f : Folds(f, base, step, seq)
    BY <2>0, FoldExists
  <2>3. PICK g : Folds(g, base, step, longer)
    BY <2>0, FoldExists
  <2>4. f[1 .. Len(seq)] = g[1 .. Len(seq)]
    <3>1. Shares(Len(seq), seq, longer)
      BY <2>1 DEF Shares
    <3> QED
      BY <2>2, <2>3, <3>1, FoldUnique
  <2>5. g[1 .. Len(longer)] = step[<<g[1 .. Len(seq)], e>>]
    <3>1. PICK s : s = 1 .. Len(longer)
      OBVIOUS
    <3>2. s = DOMAIN longer /\ s # {} /\ s \ {Len(longer)} = 1 .. Len(seq)
          /\ Len(longer) \in s
      BY <2>1, <3>1
    <3>3. Overview!Max(s) = Len(longer)
      BY <2>1, <3>1, <3>2, LastOf
    <3>4. g[s] = step[<<g[s \ {Overview!Max(s)}], longer[Overview!Max(s)]>>]
      BY <2>3, <3>2 DEF Folds
    <3> QED
      BY <2>1, <3>1, <3>2, <3>3, <3>4
  <2>6. Fold(base, step, seq) = f[1 .. Len(seq)]
    BY <2>0, <2>2, FoldIs
  <2>7. Fold(base, step, longer) = g[1 .. Len(longer)]
    BY <2>0, <2>3, FoldIs
  <2> QED
    BY <2>4, <2>5, <2>6, <2>7 DEF longer
<1> QED
  BY <1>1, <1>2
(* Whatever steps as the fold does on the way is the fold.                 *)
StepsAs(c, base, step, seq, S) ==
  /\ c[{}] = base
  /\ \A s \in SUBSET (DOMAIN seq) :
       s # {} /\ c[s \ {Overview!Max(s)}] \in S =>
         c[s] = step[<<c[s \ {Overview!Max(s)}], seq[Overview!Max(s)]>>]

LEMMA FoldAgrees ==
  ASSUME NEW S, NEW E, NEW base, NEW step, NEW seq, FoldOf(base, step, seq, S, E),
         NEW c, StepsAs(c, base, step, seq, S)
  PROVE  c[DOMAIN seq] = Fold(base, step, seq) /\ Fold(base, step, seq) \in S
<1>1. PICK g \in [SUBSET (DOMAIN seq) -> S] : Folds(g, base, step, seq)
  BY FoldExists
<1>2. DOMAIN seq = 1 .. Len(seq) /\ Len(seq) \in Nat
  BY DEF FoldOf
<1>3. Fold(base, step, seq) = g[1 .. Len(seq)] /\ Fold(base, step, seq) \in S
  BY <1>1, FoldIs
<1> DEFINE P == {k \in Nat : k <= Len(seq) => c[1 .. k] = g[1 .. k]}
<1>4. 0 \in P
  <2>1. 1 .. 0 = {} /\ {} \in SUBSET (DOMAIN seq)
    OBVIOUS
  <2>2. g[{}] = base
    BY <1>1, <2>1 DEF Folds
  <2> QED
    BY <2>1, <2>2 DEF StepsAs
<1>5. ASSUME NEW k \in P PROVE k + 1 \in P
  <2> SUFFICES ASSUME k + 1 <= Len(seq) PROVE c[1 .. k + 1] = g[1 .. k + 1]
    OBVIOUS
  <2>1. k \in Nat /\ c[1 .. k] = g[1 .. k]
    BY <1>2
  <2>2. PICK s : s = 1 .. k + 1
    OBVIOUS
  <2>3. s \in SUBSET (DOMAIN seq) /\ s # {} /\ s \ {k + 1} = 1 .. k
    <3>1. k + 1 \in s
      BY <2>1, <2>2
    <3> QED
      BY <1>2, <2>1, <2>2, <3>1
  <2>4. Overview!Max(s) = k + 1
    BY <2>1, <2>2, LastOf
  <2>5. s \ {k + 1} \in SUBSET (DOMAIN seq)
    BY <2>3
  <2>6. g[s \ {k + 1}] \in S /\ c[s \ {k + 1}] = g[s \ {k + 1}]
    BY <1>1, <2>1, <2>3, <2>5
  <2>7. g[s] = step[<<g[s \ {k + 1}], seq[k + 1]>>]
    BY <1>1, <2>3, <2>4 DEF Folds
  <2>8. c[s] = step[<<c[s \ {k + 1}], seq[k + 1]>>]
    BY <2>3, <2>4, <2>6 DEF StepsAs
  <2> QED
    BY <2>2, <2>6, <2>7, <2>8
<1>6. P = Nat
  <2> HIDE DEF P
  <2>1. P \in SUBSET Nat
    BY DEF P
  <2> QED
    BY <1>4, <1>5, <2>1, SetInduction
<1>7. c[1 .. Len(seq)] = g[1 .. Len(seq)]
  <2>1. Len(seq) \in P
    BY <1>2, <1>6
  <2>2. Len(seq) <= Len(seq)
    BY <1>2
  <2> QED
    BY <2>1, <2>2
<1> QED
  BY <1>2, <1>3, <1>7

LEMMA LastTyped ==
  ASSUME NEW S, NEW E, NEW base, NEW step, NEW seq, FoldOf(base, step, seq, S, E)
  PROVE  \A s \in SUBSET (DOMAIN seq) : s # {} => seq[Overview!Max(s)] \in E
<1>1. DOMAIN seq = 1 .. Len(seq) /\ Len(seq) \in Nat /\ \A i \in DOMAIN seq : seq[i] \in E
  BY DEF FoldOf
<1>2. \A s \in SUBSET (DOMAIN seq) : s # {} => Overview!Max(s) \in s
  BY <1>1, LastOf
<1> QED
  BY <1>1, <1>2

-----------------------------------------------------------------------------
(* The rows of the overview.                                               *)
Id == STRING \cup
  {"cpu", "memory", "system-info", "temperature", "gpu-engines", "gpu-power", "disks",
   "network", "top-cpu", "top-memory", "storage", "services", "qbittorrent", "vpn"}

Item == [id : Id, span : Nat]
Line == Seq(Item)
Grid == Seq(Line \ {<<>>})

Spans == [p \in Nat \X Item |-> p[1] + p[2].span]

LEMMA UsedIsFold ==
  ASSUME NEW row \in Line
  PROVE  Overview!Used(row) = Fold(0, Spans, row) /\ Overview!Used(row) \in Nat
<1> DEFINE Eq(f) == f = [s \in SUBSET (DOMAIN row) |->
                          IF s = {} THEN 0
                          ELSE f[s \ {Overview!Max(s)}] + row[Overview!Max(s)].span]
           c == CHOOSE f : Eq(f)
<1>1. FoldOf(0, Spans, row, Nat, Item)
  BY DEF FoldOf, StepOf, Spans, Item, Line
<1>2. PICK g \in [SUBSET (DOMAIN row) -> Nat] : Folds(g, 0, Spans, row)
  BY <1>1, FoldExists
<1>3. \A s \in SUBSET (DOMAIN row) : s # {} => row[Overview!Max(s)] \in Item
  BY <1>1, LastTyped
<1>4. Eq(g)
  <2>1. ASSUME NEW s \in SUBSET (DOMAIN row), s # {}
        PROVE  g[s] = g[s \ {Overview!Max(s)}] + row[Overview!Max(s)].span
    <3>1. g[s] = Spans[<<g[s \ {Overview!Max(s)}], row[Overview!Max(s)]>>]
      BY <1>2, <2>1 DEF Folds
    <3> QED
      BY <1>2, <1>3, <2>1, <3>1 DEF Spans
  <2>2. g[{}] = 0
    BY <1>2 DEF Folds
  <2> QED
    BY <1>2, <2>1, <2>2
<1>5. Eq(c)
  BY <1>4
<1>6. Overview!Used(row) = c[DOMAIN row]
  BY DEF Overview!Used, Overview!FoldLeft, Overview!MapThenFoldSet
<1> HIDE DEF c
<1>7. StepsAs(c, 0, Spans, row, Nat)
  BY <1>3, <1>5 DEF StepsAs, Spans
<1> QED
  BY <1>1, <1>6, <1>7, FoldAgrees

LEMMA Cols == cols \in Nat \ {0} /\ Layouts \subseteq Seq([id : STRING, span : Nat \ {0}])
BY DashboardAssumption DEF Overview!OverviewAssumption

(* A row of one more widget uses its columns, too.                         *)
LEMMA UsedSteps ==
  /\ Overview!Used(<<>>) = 0
  /\ \A row \in Line : Overview!Used(row) \in Nat
  /\ \A row \in Line, w \in Item :
       Overview!Used(Append(row, w)) = Overview!Used(row) + w.span
<1>1. StepOf(0, Spans, Nat, Item)
  BY DEF StepOf, Spans, Item
<1>2. <<>> \in Line /\ \A row \in Line, w \in Item : Append(row, w) \in Line
  BY DEF Line
<1>3. Overview!Used(<<>>) = 0
  <2>1. Fold(0, Spans, <<>>) = 0
    BY <1>1, FoldSteps
  <2> QED
    BY <1>2, <2>1, UsedIsFold
<1>4. ASSUME NEW row \in Line PROVE Overview!Used(row) \in Nat
  BY UsedIsFold
<1>5. ASSUME NEW row \in Line, NEW w \in Item
      PROVE  Overview!Used(Append(row, w)) = Overview!Used(row) + w.span
  <2>1. Fold(0, Spans, Append(row, w)) = Spans[<<Fold(0, Spans, row), w>>]
    BY <1>1, FoldSteps DEF Line
  <2>2. Overview!Used(Append(row, w)) = Fold(0, Spans, Append(row, w))
        /\ Overview!Used(row) = Fold(0, Spans, row) /\ Overview!Used(row) \in Nat
    BY <1>2, UsedIsFold
  <2> QED
    BY <2>1, <2>2 DEF Spans
<1> QED
  BY <1>3, <1>4, <1>5

(* The widget as it is placed, and the two ways to place it.               *)
Fit(w) == [id |-> w.id, span |-> Overview!Smaller(w.span, cols)]

LEMMA FitTyped == \A w \in Item : Fit(w) \in Item /\ Fit(w).span <= cols
BY Cols DEF Fit, Item, Overview!Smaller

LEMMA PlaceCases ==
  ASSUME NEW rows \in Grid, NEW w \in Item
  PROVE  \/ /\ rows # <<>> /\ Overview!Used(rows[Len(rows)]) + Fit(w).span <= cols
            /\ Overview!Place(rows, w) =
                 [rows EXCEPT ![Len(rows)] = Append(rows[Len(rows)], Fit(w))]
         \/ /\ rows # <<>> => ~(Overview!Used(rows[Len(rows)]) + Fit(w).span <= cols)
            /\ Overview!Place(rows, w) = Append(rows, <<Fit(w)>>)
<1>1. [w EXCEPT !.span = Overview!Smaller(w.span, cols)] = Fit(w)
  BY DEF Fit, Item
<1>2. Len(rows) > 0 <=> rows # <<>>
  BY DEF Grid
<1> QED
  BY <1>1, <1>2 DEF Overview!Place, Overview!Fits

LEMMA PlaceTyped ==
  ASSUME NEW rows \in Grid, NEW w \in Item
  PROVE  Overview!Place(rows, w) \in Grid
<1>1. Fit(w) \in Item
  BY FitTyped
<1>2. <<Fit(w)>> \in Line \ {<<>>}
  BY <1>1 DEF Line
<1>3. Append(rows, <<Fit(w)>>) \in Grid
  BY <1>2 DEF Grid
<1>4. ASSUME rows # <<>>
      PROVE  [rows EXCEPT ![Len(rows)] = Append(rows[Len(rows)], Fit(w))] \in Grid
  <2>1. Len(rows) \in 1 .. Len(rows) /\ rows[Len(rows)] \in Line
    BY <1>4 DEF Grid
  <2>2. Append(rows[Len(rows)], Fit(w)) \in Line \ {<<>>}
    BY <1>1, <2>1 DEF Line
  <2> QED
    BY <2>1, <2>2 DEF Grid
<1> QED
  BY <1>3, <1>4, PlaceCases

Placing == [p \in Grid \X Item |-> Overview!Place(p[1], p[2])]

Placed(l) == Overview!FoldLeft(Overview!Place, <<>>, l)

LEMMA PlacingTyped == StepOf(<<>>, Placing, Grid, Item)
<1>1. <<>> \in Grid
  BY DEF Grid
<1>2. Placing \in [Grid \X Item -> Grid]
  BY PlaceTyped DEF Placing
<1> QED
  BY <1>1, <1>2 DEF StepOf

LEMMA PlacedIsFold ==
  ASSUME NEW l \in Line
  PROVE  Placed(l) = Fold(<<>>, Placing, l) /\ Placed(l) \in Grid
<1> DEFINE Eq(f) == f = [s \in SUBSET (DOMAIN l) |->
                          IF s = {} THEN <<>>
                          ELSE Overview!Place(f[s \ {Overview!Max(s)}], l[Overview!Max(s)])]
           c == CHOOSE f : Eq(f)
<1>1. FoldOf(<<>>, Placing, l, Grid, Item)
  BY PlacingTyped DEF FoldOf, Line
<1>2. PICK g \in [SUBSET (DOMAIN l) -> Grid] : Folds(g, <<>>, Placing, l)
  BY <1>1, FoldExists
<1>3. \A s \in SUBSET (DOMAIN l) : s # {} => l[Overview!Max(s)] \in Item
  BY <1>1, LastTyped
<1>4. Eq(g)
  <2>1. ASSUME NEW s \in SUBSET (DOMAIN l), s # {}
        PROVE  g[s] = Overview!Place(g[s \ {Overview!Max(s)}], l[Overview!Max(s)])
    <3>1. g[s] = Placing[<<g[s \ {Overview!Max(s)}], l[Overview!Max(s)]>>]
      BY <1>2, <2>1 DEF Folds
    <3> QED
      BY <1>2, <1>3, <2>1, <3>1 DEF Placing
  <2>2. g[{}] = <<>>
    BY <1>2 DEF Folds
  <2> QED
    BY <1>2, <2>1, <2>2
<1>5. Eq(c)
  BY <1>4
<1>6. Placed(l) = c[DOMAIN l]
  BY DEF Placed, Overview!FoldLeft, Overview!MapThenFoldSet
<1> HIDE DEF c
<1>7. StepsAs(c, <<>>, Placing, l, Grid)
  BY <1>3, <1>5 DEF StepsAs, Placing
<1> QED
  BY <1>1, <1>6, <1>7, FoldAgrees

LEMMA PlacedSteps ==
  /\ Placed(<<>>) = <<>>
  /\ \A l \in Line : Placed(l) \in Grid
  /\ \A l \in Line, w \in Item : Placed(Append(l, w)) = Overview!Place(Placed(l), w)
<1>2. <<>> \in Line /\ \A l \in Line, w \in Item : Append(l, w) \in Line
  BY DEF Line
<1>3. Placed(<<>>) = <<>>
  <2>1. Fold(<<>>, Placing, <<>>) = <<>>
    BY PlacingTyped, FoldSteps
  <2> QED
    BY <1>2, <2>1, PlacedIsFold
<1>4. ASSUME NEW l \in Line PROVE Placed(l) \in Grid
  BY PlacedIsFold
<1>5. ASSUME NEW l \in Line, NEW w \in Item
      PROVE  Placed(Append(l, w)) = Overview!Place(Placed(l), w)
  <2>1. Fold(<<>>, Placing, Append(l, w)) = Placing[<<Fold(<<>>, Placing, l), w>>]
    BY PlacingTyped, FoldSteps DEF Line
  <2>2. Placed(Append(l, w)) = Fold(<<>>, Placing, Append(l, w))
        /\ Placed(l) = Fold(<<>>, Placing, l) /\ Placed(l) \in Grid
    BY <1>2, PlacedIsFold
  <2> QED
    BY <2>1, <2>2 DEF Placing
<1> QED
  BY <1>3, <1>4, <1>5

(* The filter.                                                             *)
Keep(kept, w) == IF Overview!Known(w) THEN Append(kept, w) ELSE kept

Keeping == [p \in Line \X Item |-> Keep(p[1], p[2])]

LEMMA KeepingTyped == StepOf(<<>>, Keeping, Line, Item)
BY DEF StepOf, Keeping, Keep, Line

LEMMA ActiveIsFold ==
  ASSUME layout \in Line
  PROVE  Overview!Active = Fold(<<>>, Keeping, layout) /\ Overview!Active \in Line
<1> DEFINE Eq(f) == f = [s \in SUBSET (DOMAIN layout) |->
                          IF s = {} THEN <<>>
                          ELSE Keep(f[s \ {Overview!Max(s)}], layout[Overview!Max(s)])]
           c == CHOOSE f : Eq(f)
<1>1. FoldOf(<<>>, Keeping, layout, Line, Item)
  BY KeepingTyped DEF FoldOf, Line
<1>2. PICK g \in [SUBSET (DOMAIN layout) -> Line] : Folds(g, <<>>, Keeping, layout)
  BY <1>1, FoldExists
<1>3. \A s \in SUBSET (DOMAIN layout) : s # {} => layout[Overview!Max(s)] \in Item
  BY <1>1, LastTyped
<1>4. Eq(g)
  <2>1. ASSUME NEW s \in SUBSET (DOMAIN layout), s # {}
        PROVE  g[s] = Keep(g[s \ {Overview!Max(s)}], layout[Overview!Max(s)])
    <3>1. g[s] = Keeping[<<g[s \ {Overview!Max(s)}], layout[Overview!Max(s)]>>]
      BY <1>2, <2>1 DEF Folds
    <3> QED
      BY <1>2, <1>3, <2>1, <3>1 DEF Keeping
  <2>2. g[{}] = <<>>
    BY <1>2 DEF Folds
  <2> QED
    BY <1>2, <2>1, <2>2
<1>5. Eq(c)
  BY <1>4
<1>6. Overview!Active = c[DOMAIN layout]
  BY DEF Overview!Active, Keep, Overview!FoldLeft, Overview!MapThenFoldSet
<1> HIDE DEF c
<1>7. StepsAs(c, <<>>, Keeping, layout, Line)
  BY <1>3, <1>5 DEF StepsAs, Keeping
<1> QED
  BY <1>1, <1>6, <1>7, FoldAgrees

-----------------------------------------------------------------------------
(* The rows, one after the other.                                          *)
Joining == [p \in Line \X Line |-> p[1] \o p[2]]

LEMMA JoiningTyped == StepOf(<<>>, Joining, Line, Line)
BY DEF StepOf, Joining, Line

LEMMA FlattenIsFold ==
  ASSUME NEW rows \in Seq(Line)
  PROVE  /\ Overview!FlattenSeq(rows) = Fold(<<>>, Joining, rows)
         /\ Overview!FlattenSeq(rows) \in Line
<1> DEFINE Eq(f) == f = [i \in 1 .. Len(rows) |->
                          IF i = 1 THEN rows[i] ELSE f[i - 1] \o rows[i]]
           c == CHOOSE f : Eq(f)
<1>1. FoldOf(<<>>, Joining, rows, Line, Line)
  BY JoiningTyped DEF FoldOf
<1>2. PICK g \in [SUBSET (DOMAIN rows) -> Line] : Folds(g, <<>>, Joining, rows)
  BY <1>1, FoldExists
<1>3. /\ DOMAIN rows = 1 .. Len(rows) /\ Len(rows) \in Nat
      /\ \A i \in 1 .. Len(rows) : rows[i] \in Line
  OBVIOUS
<1>4. Fold(<<>>, Joining, rows) = g[1 .. Len(rows)] /\ Fold(<<>>, Joining, rows) \in Line
  BY <1>1, <1>2, FoldIs
<1>5. ASSUME NEW i \in 1 .. Len(rows)
      PROVE  g[1 .. i] = (IF i = 1 THEN rows[i] ELSE g[1 .. i - 1] \o rows[i])
  <2>1. PICK s : s = 1 .. i
    OBVIOUS
  <2>2. s \in SUBSET (DOMAIN rows) /\ s # {} /\ s \ {i} = 1 .. i - 1
        /\ s \ {i} \in SUBSET (DOMAIN rows)
    <3>1. i \in s
      BY <1>3, <2>1
    <3> QED
      BY <1>3, <2>1, <3>1
  <2>3. Overview!Max(s) = i
    <3>1. PICK n \in Nat : i = n + 1
      <4>1. i - 1 \in Nat /\ i = (i - 1) + 1
        BY <1>3
      <4> QED
        BY <4>1
    <3>2. s \in SUBSET (1 .. n + 1) /\ n + 1 \in s
      BY <2>1, <2>2, <3>1
    <3> QED
      BY <3>1, <3>2, LastOf
  <2>4. g[s] = Joining[<<g[s \ {i}], rows[i]>>]
    BY <1>2, <2>2, <2>3 DEF Folds
  <2>5. g[s \ {i}] \in Line /\ rows[i] \in Line
    BY <1>2, <1>3, <2>2
  <2>6. g[s] = g[s \ {i}] \o rows[i]
    BY <2>4, <2>5 DEF Joining
  <2>7. CASE i = 1
    <3>1. s \ {i} = {} /\ {} \in SUBSET (DOMAIN rows)
      BY <2>1, <2>7
    <3>2. g[{}] = <<>>
      BY <1>2, <3>1 DEF Folds
    <3>3. <<>> \o rows[i] = rows[i]
      BY <2>5 DEF Line
    <3>4. g[s] = rows[i]
      BY <2>6, <3>1, <3>2, <3>3
    <3> QED
      BY <2>1, <2>7, <3>4
  <2>8. CASE i # 1
    BY <2>1, <2>2, <2>6, <2>8
  <2> QED
    BY <2>7, <2>8
<1> DEFINE h == [i \in 1 .. Len(rows) |-> g[1 .. i]]
<1>6. Eq(h)
  <2>1. ASSUME NEW i \in 1 .. Len(rows)
        PROVE  h[i] = IF i = 1 THEN rows[i] ELSE h[i - 1] \o rows[i]
    <3>1. i # 1 => i - 1 \in 1 .. Len(rows)
      BY <1>3
    <3> QED
      BY <1>5, <3>1
  <2> QED
    BY <2>1
<1>7. Eq(c)
  BY <1>6
<1>8. Len(rows) # 0 => Overview!FlattenSeq(rows) = c[Len(rows)]
  BY DEF Overview!FlattenSeq
<1> HIDE DEF c
<1> DEFINE P == {k \in Nat : k \in 1 .. Len(rows) => c[k] = g[1 .. k]}
<1>9. 0 \in P
  OBVIOUS
<1>10. ASSUME NEW k \in P PROVE k + 1 \in P
  <2> SUFFICES ASSUME k + 1 \in 1 .. Len(rows) PROVE c[k + 1] = g[1 .. k + 1]
    OBVIOUS
  <2>1. g[1 .. k + 1] = (IF k + 1 = 1 THEN rows[k + 1] ELSE g[1 .. (k + 1) - 1] \o rows[k + 1])
    BY <1>5
  <2>2. c[k + 1] = IF k + 1 = 1 THEN rows[k + 1] ELSE c[(k + 1) - 1] \o rows[k + 1]
    BY <1>7
  <2>3. (k + 1) - 1 = k /\ (k + 1 # 1 => k \in 1 .. Len(rows))
    BY <1>3
  <2> QED
    BY <2>1, <2>2, <2>3
<1>11. P = Nat
  <2> HIDE DEF P
  <2>1. P \in SUBSET Nat
    BY DEF P
  <2> QED
    BY <1>9, <1>10, <2>1, SetInduction
<1>12. CASE Len(rows) = 0
  <2>1. rows = <<>>
    BY <1>12
  <2>2. Fold(<<>>, Joining, <<>>) = <<>>
    BY JoiningTyped, FoldSteps
  <2>3. Overview!FlattenSeq(rows) = rows
    BY <1>12 DEF Overview!FlattenSeq
  <2> QED
    BY <1>4, <2>1, <2>2, <2>3
<1>13. CASE Len(rows) # 0
  <2>1. Len(rows) \in P /\ Len(rows) \in 1 .. Len(rows)
    BY <1>3, <1>11, <1>13
  <2>2. c[Len(rows)] = g[1 .. Len(rows)]
    BY <2>1
  <2> QED
    BY <1>4, <1>8, <1>13, <2>2
<1> QED
  BY <1>12, <1>13

LEMMA FlattenSteps ==
  /\ Overview!FlattenSeq(<<>>) = <<>>
  /\ \A rows \in Seq(Line) : Overview!FlattenSeq(rows) \in Line
  /\ \A rows \in Seq(Line), row \in Line :
       Overview!FlattenSeq(Append(rows, row)) = Overview!FlattenSeq(rows) \o row
<1>1. Overview!FlattenSeq(<<>>) = <<>>
  BY DEF Overview!FlattenSeq
<1>2. ASSUME NEW rows \in Seq(Line), NEW row \in Line
      PROVE  Overview!FlattenSeq(Append(rows, row)) = Overview!FlattenSeq(rows) \o row
  <2>1. Fold(<<>>, Joining, Append(rows, row)) = Joining[<<Fold(<<>>, Joining, rows), row>>]
    BY JoiningTyped, FoldSteps
  <2>2. Append(rows, row) \in Seq(Line)
    OBVIOUS
  <2>3. /\ Overview!FlattenSeq(Append(rows, row)) = Fold(<<>>, Joining, Append(rows, row))
        /\ Overview!FlattenSeq(rows) = Fold(<<>>, Joining, rows)
        /\ Overview!FlattenSeq(rows) \in Line
    BY <2>2, FlattenIsFold
  <2> QED
    BY <2>1, <2>3 DEF Joining
<1> QED
  BY <1>1, <1>2, FlattenIsFold

-----------------------------------------------------------------------------
(* What placing keeps, widget by widget.                                   *)
LEMMA SeqInduction ==
  ASSUME NEW E, NEW P \in SUBSET Seq(E), <<>> \in P, \A l \in P, e \in E : Append(l, e) \in P
  PROVE  P = Seq(E)
<1> DEFINE N == {n \in Nat : \A l \in Seq(E) : Len(l) = n => l \in P}
<1>1. 0 \in N
  <2>1. \A l \in Seq(E) : Len(l) = 0 => l = <<>>
    OBVIOUS
  <2> QED
    BY <2>1
<1>2. ASSUME NEW n \in N PROVE n + 1 \in N
  <2> SUFFICES ASSUME NEW l \in Seq(E), Len(l) = n + 1 PROVE l \in P
    OBVIOUS
  <2>1. n \in Nat /\ l # <<>>
    OBVIOUS
  <2>2. PICK front \in Seq(E), e \in E : l = Append(front, e)
    BY <2>1, SequenceEmptyOrAppend
  <2>3. Len(l) = Len(front) + 1 /\ Len(front) \in Nat
    BY <2>2, AppendProperties
  <2>4. front \in P
    BY <2>1, <2>3
  <2> QED
    BY <2>2, <2>4
<1>3. N = Nat
  <2> HIDE DEF N
  <2>1. N \in SUBSET Nat
    BY DEF N
  <2> QED
    BY <1>1, <1>2, <2>1, SetInduction
<1>4. ASSUME NEW l \in Seq(E) PROVE l \in P
  <2>1. Len(l) \in Nat
    OBVIOUS
  <2> QED
    BY <1>3, <2>1
<1> QED
  BY <1>4

(* A row is another row and its last widget.                               *)
LEMMA LastSplit ==
  ASSUME NEW E, NEW s \in Seq(E), s # <<>>
  PROVE  \E front \in Seq(E) :
           s = Append(front, s[Len(s)]) /\ s[Len(s)] \in E /\ Len(s) = Len(front) + 1
<1>1. PICK front \in Seq(E), e \in E : s = Append(front, e)
  BY SequenceEmptyOrAppend
<1>2. Len(s) = Len(front) + 1 /\ s[Len(front) + 1] = e
  BY <1>1, AppendProperties
<1> QED
  BY <1>1, <1>2

(* Every widget of l is placed, in its order and width; no row is wider    *)
(* than the grid, and the first widget of a row had no room in the row     *)
(* before it.                                                              *)
InWidth(rows) == \A i \in 1 .. Len(rows) : Overview!Used(rows[i]) <= cols

NoRoom(rows) ==
  \A i \in 1 .. Len(rows) - 1 : Overview!Used(rows[i]) + rows[i + 1][1].span > cols

AllOf(rows, l) ==
  /\ Len(Overview!FlattenSeq(rows)) = Len(l)
  /\ \A j \in 1 .. Len(l) : Overview!FlattenSeq(rows)[j] = Fit(l[j])

LEMMA GridRows ==
  ASSUME NEW rows \in Grid
  PROVE  /\ rows \in Seq(Line) /\ Len(rows) \in Nat
         /\ \A i \in 1 .. Len(rows) :
              rows[i] \in Line /\ rows[i] # <<>> /\ Overview!Used(rows[i]) \in Nat
<1>1. rows \in Seq(Line) /\ Len(rows) \in Nat
      /\ \A i \in 1 .. Len(rows) : rows[i] \in Line /\ rows[i] # <<>>
  BY DEF Grid
<1> QED
  BY <1>1, UsedSteps

LEMMA NewRow ==
  ASSUME NEW rows \in Grid, NEW l \in Line, NEW w \in Item,
         InWidth(rows), NoRoom(rows), AllOf(rows, l),
         rows # <<>> => ~(Overview!Used(rows[Len(rows)]) + Fit(w).span <= cols),
         NEW more, more = Append(rows, <<Fit(w)>>)
  PROVE  InWidth(more) /\ NoRoom(more) /\ AllOf(more, Append(l, w))
<1>1. Fit(w) \in Item /\ Fit(w).span \in Nat /\ Fit(w).span <= cols /\ cols \in Nat
  BY FitTyped, Cols DEF Item
<1>2. /\ rows \in Seq(Line) /\ Len(rows) \in Nat
      /\ \A i \in 1 .. Len(rows) : rows[i] \in Line /\ Overview!Used(rows[i]) \in Nat
  BY GridRows
<1>3. /\ Len(more) = Len(rows) + 1 /\ more[Len(rows) + 1] = <<Fit(w)>>
      /\ \A i \in 1 .. Len(rows) : more[i] = rows[i]
  BY <1>2
<1>4. InWidth(more)
  <2>1. <<Fit(w)>> = Append(<<>>, Fit(w)) /\ <<>> \in Line
    BY DEF Line
  <2>2. Overview!Used(<<Fit(w)>>) = 0 + Fit(w).span
    BY <1>1, <2>1, UsedSteps
  <2>3. Overview!Used(<<Fit(w)>>) <= cols
    BY <1>1, <2>2
  <2> QED
    BY <1>2, <1>3, <2>3 DEF InWidth
<1>5. NoRoom(more)
  <2> SUFFICES ASSUME NEW i \in 1 .. Len(more) - 1
               PROVE  Overview!Used(more[i]) + more[i + 1][1].span > cols
    BY DEF NoRoom
  <2>1. CASE i = Len(rows)
    <3>1. rows # <<>> /\ more[i] = rows[Len(rows)] /\ more[i + 1] = <<Fit(w)>>
          /\ Len(rows) \in 1 .. Len(rows)
      BY <1>2, <1>3, <2>1
    <3>2. Overview!Used(rows[Len(rows)]) \in Nat
      BY <1>2, <3>1
    <3>3. more[i + 1][1] = Fit(w)
      BY <3>1
    <3> QED
      BY <1>1, <3>1, <3>2, <3>3
  <2>2. CASE i # Len(rows)
    <3>1. i \in 1 .. Len(rows) - 1 /\ i \in 1 .. Len(rows) /\ i + 1 \in 1 .. Len(rows)
      BY <1>2, <1>3, <2>2
    <3> QED
      BY <1>3, <3>1 DEF NoRoom
  <2> QED
    BY <2>1, <2>2
<1>6. AllOf(more, Append(l, w))
  <2>1. <<Fit(w)>> \in Line
    BY <1>1 DEF Line
  <2>2. PICK shown \in Line : shown = Overview!FlattenSeq(rows)
    BY <1>2, FlattenSteps
  <2>3. Overview!FlattenSeq(more) = shown \o <<Fit(w)>>
    BY <1>2, <2>1, <2>2, FlattenSteps
  <2>4. Len(shown) = Len(l) /\ \A j \in 1 .. Len(l) : shown[j] = Fit(l[j])
    BY <2>2 DEF AllOf
  <2>5. Len(l) \in Nat /\ Len(Append(l, w)) = Len(l) + 1 /\ Append(l, w)[Len(l) + 1] = w
        /\ \A j \in 1 .. Len(l) : Append(l, w)[j] = l[j]
    BY DEF Line
  <2>6. PICK all : all = shown \o <<Fit(w)>>
    OBVIOUS
  <2>7. Len(all) = Len(l) + 1 /\ all[Len(l) + 1] = Fit(w)
        /\ \A j \in 1 .. Len(l) : all[j] = shown[j]
    <3>1. all = Append(shown, Fit(w))
      BY <1>1, <2>6, AppendIsConcat DEF Line
    <3> QED
      BY <1>1, <2>4, <3>1, AppendProperties DEF Line
  <2>8. \A j \in 1 .. Len(l) + 1 : all[j] = Fit(Append(l, w)[j])
    BY <2>4, <2>5, <2>7
  <2> QED
    BY <2>3, <2>5, <2>6, <2>7, <2>8 DEF AllOf
<1> QED
  BY <1>4, <1>5, <1>6

LEMMA SameRow ==
  ASSUME NEW rows \in Grid, NEW l \in Line, NEW w \in Item,
         InWidth(rows), NoRoom(rows), AllOf(rows, l), rows # <<>>,
         Overview!Used(rows[Len(rows)]) + Fit(w).span <= cols,
         NEW more, more = [rows EXCEPT ![Len(rows)] = Append(rows[Len(rows)], Fit(w))]
  PROVE  InWidth(more) /\ NoRoom(more) /\ AllOf(more, Append(l, w))
<1>1. Fit(w) \in Item /\ Fit(w).span \in Nat /\ cols \in Nat
  BY FitTyped, Cols DEF Item
<1>2. /\ rows \in Seq(Line) /\ Len(rows) \in Nat
      /\ \A i \in 1 .. Len(rows) :
           rows[i] \in Line /\ rows[i] # <<>> /\ Overview!Used(rows[i]) \in Nat
  BY GridRows
<1>3. PICK front \in Seq(Line) :
        rows = Append(front, rows[Len(rows)]) /\ Len(rows) = Len(front) + 1
  BY <1>2, LastSplit
<1>4. PICK last \in Line : last = rows[Len(rows)] /\ last # <<>>
  BY <1>2, <1>3
<1>5. more = Append(front, Append(last, Fit(w))) /\ Append(last, Fit(w)) \in Line
  BY <1>1, <1>3, <1>4 DEF Line
<1>6. /\ Len(more) = Len(rows) /\ more[Len(rows)] = Append(last, Fit(w))
      /\ \A i \in 1 .. Len(rows) : i # Len(rows) => more[i] = rows[i]
  BY <1>2, <1>4
<1>7. Overview!Used(Append(last, Fit(w))) = Overview!Used(last) + Fit(w).span
  BY <1>1, UsedSteps
<1>8. InWidth(more)
  BY <1>4, <1>6, <1>7 DEF InWidth
<1>9. NoRoom(more)
  <2> SUFFICES ASSUME NEW i \in 1 .. Len(more) - 1
               PROVE  Overview!Used(more[i]) + more[i + 1][1].span > cols
    BY DEF NoRoom
  <2>1. i \in 1 .. Len(rows) - 1 /\ i \in 1 .. Len(rows) /\ i # Len(rows)
        /\ i + 1 \in 1 .. Len(rows)
    <3>1. i \in 1 .. Len(rows) - 1 /\ Len(rows) \in Nat
      BY <1>2, <1>6
    <3> QED
      BY <3>1
  <2>2. more[i] = rows[i]
    BY <1>6, <2>1
  <2>3. Append(last, Fit(w))[1] = last[1]
    BY <1>1, <1>4 DEF Line
  <2>4. more[i + 1][1] = rows[i + 1][1]
    BY <1>4, <1>6, <2>1, <2>3
  <2> QED
    BY <2>1, <2>2, <2>4 DEF NoRoom
<1>10. AllOf(more, Append(l, w))
  <2>1. PICK shown \in Line : shown = Overview!FlattenSeq(front)
    BY FlattenSteps
  <2>2. Overview!FlattenSeq(rows) = shown \o last
    BY <1>3, <1>4, <2>1, FlattenSteps
  <2>3. Overview!FlattenSeq(more) = shown \o Append(last, Fit(w))
    BY <1>5, <2>1, FlattenSteps
  <2>4. shown \o Append(last, Fit(w)) = Append(shown \o last, Fit(w))
    <3>1. <<Fit(w)>> \in Line /\ shown \o last \in Line
      BY <1>1 DEF Line
    <3>2. Append(last, Fit(w)) = last \o <<Fit(w)>>
          /\ Append(shown \o last, Fit(w)) = (shown \o last) \o <<Fit(w)>>
      BY <1>1, <3>1, AppendIsConcat DEF Line
    <3>3. (shown \o last) \o <<Fit(w)>> = shown \o (last \o <<Fit(w)>>)
      BY <3>1, ConcatAssociative DEF Line
    <3> QED
      BY <3>2, <3>3
  <2>5. PICK before \in Line : before = shown \o last
    <3>1. shown \o last \in Line
      BY ConcatProperties DEF Line
    <3> QED
      BY <3>1
  <2>6. Len(before) = Len(l) /\ \A j \in 1 .. Len(l) : before[j] = Fit(l[j])
    BY <2>2, <2>5 DEF AllOf
  <2>7. Len(l) \in Nat /\ Len(Append(l, w)) = Len(l) + 1 /\ Append(l, w)[Len(l) + 1] = w
        /\ \A j \in 1 .. Len(l) : Append(l, w)[j] = l[j]
    BY DEF Line
  <2>8. PICK all : all = Append(before, Fit(w))
    OBVIOUS
  <2>9. Len(all) = Len(l) + 1 /\ all[Len(l) + 1] = Fit(w)
        /\ \A j \in 1 .. Len(l) : all[j] = before[j]
    BY <2>6, <2>7, <2>8 DEF Line
  <2>10. \A j \in 1 .. Len(l) + 1 : all[j] = Fit(Append(l, w)[j])
    BY <2>6, <2>7, <2>9
  <2> QED
    BY <2>3, <2>4, <2>5, <2>7, <2>8, <2>9, <2>10 DEF AllOf
<1> QED
  BY <1>8, <1>9, <1>10

LEMMA PlacedWell ==
  ASSUME NEW l \in Line
  PROVE  InWidth(Placed(l)) /\ NoRoom(Placed(l)) /\ AllOf(Placed(l), l)
<1> DEFINE Well(k) == InWidth(Placed(k)) /\ NoRoom(Placed(k)) /\ AllOf(Placed(k), k)
           P == {k \in Line : Well(k)}
<1>1. <<>> \in P
  <2>1. Placed(<<>>) = <<>> /\ Overview!FlattenSeq(<<>>) = <<>> /\ <<>> \in Line
    BY PlacedSteps, FlattenSteps DEF Line
  <2> QED
    BY <2>1 DEF InWidth, NoRoom, AllOf
<1>2. ASSUME NEW k \in P, NEW w \in Item PROVE Append(k, w) \in P
  <2>1. k \in Line /\ Well(k) /\ Append(k, w) \in Line /\ Placed(k) \in Grid
    BY PlacedSteps DEF Line
  <2>2. Placed(Append(k, w)) = Overview!Place(Placed(k), w)
    BY <2>1, PlacedSteps
  <2>3. Well(Append(k, w))
    BY <2>1, <2>2, PlaceCases, NewRow, SameRow
  <2> QED
    BY <2>1, <2>3
<1>3. P = Line
  <2> HIDE DEF P
  <2>1. P \in SUBSET Seq(Item)
    BY DEF P, Line
  <2> QED
    BY <1>1, <1>2, <2>1, SeqInduction DEF Line
<1> QED
  BY <1>3

-----------------------------------------------------------------------------
(* What is left of a row goes to its last widget: the row is full then.    *)
Wider(a, b) ==
  /\ a \in Line /\ b \in Line /\ Len(a) = Len(b)
  /\ \A i \in 1 .. Len(b) : a[i].id = b[i].id /\ a[i].span >= b[i].span

LEMMA StretchFull ==
  ASSUME NEW row \in Line, row # <<>>, Overview!Used(row) <= cols
  PROVE  Wider(Overview!Stretch(row), row) /\ Overview!Used(Overview!Stretch(row)) = cols
<1>1. PICK front \in Line, last \in Item : row = Append(front, last)
  BY SequenceEmptyOrAppend DEF Line
<1>2. /\ Len(row) = Len(front) + 1 /\ Len(front) \in Nat
      /\ row[Len(row)] = last /\ \A i \in 1 .. Len(front) : row[i] = front[i]
  BY <1>1, AppendProperties DEF Line
<1>3. PICK free \in Nat : free = cols - Overview!Used(front)
      /\ Overview!Smaller(last.span + (cols - Overview!Used(row)), cols) = free
      /\ free >= last.span
  <2>1. /\ Overview!Used(row) = Overview!Used(front) + last.span
        /\ Overview!Used(front) \in Nat /\ last.span \in Nat /\ cols \in Nat
    BY <1>1, UsedSteps, Cols DEF Item
  <2>2. cols - Overview!Used(front) \in Nat /\ cols - Overview!Used(front) >= last.span
    BY <2>1
  <2>3. Overview!Smaller(last.span + (cols - Overview!Used(row)), cols)
          = cols - Overview!Used(front)
    BY <2>1 DEF Overview!Smaller
  <2> QED
    BY <2>2, <2>3
<1>4. PICK wide \in Item : wide = [last EXCEPT !.span = free]
                           /\ wide.id = last.id /\ wide.span = free
  <2>1. [last EXCEPT !.span = free] = [id |-> last.id, span |-> free]
    BY DEF Item
  <2>2. last.id \in Id
    BY DEF Item
  <2> QED
    BY <2>1, <2>2 DEF Item
<1>5. PICK full \in Line : full = Append(front, wide)
  BY AppendProperties DEF Line
<1>6. Len(full) = Len(row) /\ full[Len(row)] = wide
      /\ \A i \in 1 .. Len(front) : full[i] = front[i]
  BY <1>2, <1>5, AppendProperties DEF Line
<1>7. Overview!Stretch(row) = full
  <2>1. Overview!Stretch(row) = [row EXCEPT ![Len(row)] = wide]
    BY <1>2, <1>3, <1>4 DEF Overview!Stretch
  <2>2. PICK other \in Line : other = [row EXCEPT ![Len(row)] = wide]
        /\ Len(other) = Len(row)
        /\ \A i \in 1 .. Len(row) : other[i] = IF i = Len(row) THEN wide ELSE row[i]
    <3>1. Len(row) \in 1 .. Len(row) /\ row \in Seq(Item)
      BY <1>2 DEF Line
    <3>2. /\ [row EXCEPT ![Len(row)] = wide] \in Seq(Item)
          /\ Len([row EXCEPT ![Len(row)] = wide]) = Len(row)
          /\ \A i \in 1 .. Len(row) : [row EXCEPT ![Len(row)] = wide][i]
                                        = IF i = Len(row) THEN wide ELSE row[i]
      BY <3>1
    <3> QED
      BY <3>2 DEF Line
  <2>3. \A i \in 1 .. Len(row) : other[i] = full[i]
    BY <1>2, <1>6, <2>2
  <2> QED
    BY <1>6, <2>1, <2>2, <2>3, SeqEqual DEF Line
<1>8. Wider(full, row)
  <2>1. ASSUME NEW i \in 1 .. Len(row)
        PROVE  full[i].id = row[i].id /\ full[i].span >= row[i].span
    <3>1. CASE i = Len(row)
      BY <1>2, <1>3, <1>4, <1>6, <3>1
    <3>2. CASE i # Len(row)
      <4>1. i \in 1 .. Len(front)
        BY <1>2, <3>2
      <4>2. full[i] = row[i] /\ row[i].span \in Nat
        <5>1. row[i] \in Item
          BY DEF Line
        <5> QED
          BY <1>2, <1>6, <4>1, <5>1 DEF Item
      <4> QED
        BY <4>2
    <3> QED
      BY <3>1, <3>2
  <2> QED
    BY <1>6, <2>1 DEF Wider
<1>9. Overview!Used(full) = cols
  <2>1. Overview!Used(full) = Overview!Used(front) + free
        /\ Overview!Used(front) \in Nat /\ cols \in Nat
    BY <1>4, <1>5, UsedSteps, Cols
  <2> QED
    BY <1>3, <2>1
<1> QED
  BY <1>7, <1>8, <1>9

(* Wider rows give a wider line of widgets.                                *)
LEMMA WiderJoined ==
  ASSUME NEW a, NEW b, NEW c, NEW d, Wider(a, b), Wider(c, d)
  PROVE  Wider(a \o c, b \o d)
<1>1. a \in Line /\ b \in Line /\ c \in Line /\ d \in Line /\ Len(a) = Len(b)
      /\ Len(c) = Len(d) /\ Len(b) \in Nat /\ Len(d) \in Nat
  BY DEF Wider, Line
<1>2. PICK ac \in Line : ac = a \o c /\ Len(ac) = Len(b) + Len(d)
      /\ \A i \in 1 .. Len(b) + Len(d) :
           ac[i] = IF i <= Len(b) THEN a[i] ELSE c[i - Len(b)]
  <2>1. a \in Seq(Item) /\ c \in Seq(Item)
    BY <1>1 DEF Line
  <2>2. /\ a \o c \in Line /\ Len(a \o c) = Len(a) + Len(c)
        /\ \A i \in 1 .. Len(a) + Len(c) :
             (a \o c)[i] = IF i <= Len(a) THEN a[i] ELSE c[i - Len(a)]
    BY <2>1, ConcatProperties DEF Line
  <2> QED
    BY <1>1, <2>2
<1>3. PICK bd \in Line : bd = b \o d /\ Len(bd) = Len(b) + Len(d)
      /\ \A i \in 1 .. Len(b) + Len(d) :
           bd[i] = IF i <= Len(b) THEN b[i] ELSE d[i - Len(b)]
  <2>1. b \in Seq(Item) /\ d \in Seq(Item)
    BY <1>1 DEF Line
  <2>2. /\ b \o d \in Line /\ Len(b \o d) = Len(b) + Len(d)
        /\ \A i \in 1 .. Len(b) + Len(d) :
             (b \o d)[i] = IF i <= Len(b) THEN b[i] ELSE d[i - Len(b)]
    BY <2>1, ConcatProperties DEF Line
  <2> QED
    BY <1>1, <2>2
<1>4. ASSUME NEW i \in 1 .. Len(b) + Len(d)
      PROVE  ac[i].id = bd[i].id /\ ac[i].span >= bd[i].span
  <2>1. CASE i <= Len(b)
    <3>1. i \in 1 .. Len(b)
      BY <1>1, <2>1
    <3> QED
      BY <1>2, <1>3, <2>1, <3>1 DEF Wider
  <2>2. CASE ~(i <= Len(b))
    <3>1. i - Len(b) \in 1 .. Len(d)
      BY <1>1, <2>2
    <3> QED
      BY <1>2, <1>3, <2>2, <3>1 DEF Wider
  <2> QED
    BY <2>1, <2>2
<1> QED
  BY <1>2, <1>3, <1>4 DEF Wider

AllWider(wide, rows) ==
  /\ wide \in Seq(Line) /\ Len(wide) = Len(rows)
  /\ \A i \in 1 .. Len(rows) : Wider(wide[i], rows[i])

LEMMA WiderFlattened ==
  ASSUME NEW rows \in Seq(Line), NEW wide, AllWider(wide, rows)
  PROVE  Wider(Overview!FlattenSeq(wide), Overview!FlattenSeq(rows))
<1> DEFINE P == {r \in Seq(Line) : \A w \in Seq(Line) : AllWider(w, r) =>
                   Wider(Overview!FlattenSeq(w), Overview!FlattenSeq(r))}
<1>1. <<>> \in P
  <2>1. \A w \in Seq(Line) : AllWider(w, <<>>) => w = <<>>
    BY EmptySeq DEF AllWider
  <2>2. <<>> \in Seq(Line) /\ <<>> \in Line /\ Overview!FlattenSeq(<<>>) = <<>>
    BY FlattenSteps DEF Line
  <2>3. Wider(<<>>, <<>>)
    BY <2>2 DEF Wider
  <2> QED
    BY <2>1, <2>2, <2>3
<1>2. ASSUME NEW r \in P, NEW row \in Line PROVE Append(r, row) \in P
  <2>1. /\ r \in Seq(Line) /\ Append(r, row) \in Seq(Line) /\ Len(r) \in Nat
        /\ Len(Append(r, row)) = Len(r) + 1 /\ Append(r, row)[Len(r) + 1] = row
        /\ \A i \in 1 .. Len(r) : Append(r, row)[i] = r[i]
    BY AppendProperties
  <2> SUFFICES ASSUME NEW w \in Seq(Line), AllWider(w, Append(r, row))
               PROVE  Wider(Overview!FlattenSeq(w), Overview!FlattenSeq(Append(r, row)))
    BY <2>1
  <2>2. Len(w) = Len(r) + 1 /\ w # <<>>
    BY <2>1 DEF AllWider
  <2>3. PICK front \in Seq(Line), last \in Line : w = Append(front, last)
    BY <2>2, SequenceEmptyOrAppend
  <2>4. Len(w) = Len(front) + 1 /\ Len(front) \in Nat /\ w[Len(front) + 1] = last
        /\ \A i \in 1 .. Len(front) : w[i] = front[i]
    BY <2>3, AppendProperties
  <2>5. Len(front) = Len(r)
    BY <2>1, <2>2, <2>4
  <2>6. \A i \in 1 .. Len(r) + 1 : Wider(w[i], Append(r, row)[i])
    BY <2>1 DEF AllWider
  <2>7. AllWider(front, r)
    <3>1. \A i \in 1 .. Len(r) : i \in 1 .. Len(r) + 1
      BY <2>1
    <3>2. \A i \in 1 .. Len(r) : Wider(front[i], r[i])
      BY <2>1, <2>4, <2>5, <2>6, <3>1
    <3> QED
      BY <2>5, <3>2 DEF AllWider
  <2>8. Wider(last, row)
    <3>1. Len(r) + 1 \in 1 .. Len(r) + 1
      BY <2>1
    <3> QED
      BY <2>1, <2>4, <2>5, <2>6, <3>1
  <2>9. Wider(Overview!FlattenSeq(front), Overview!FlattenSeq(r))
    BY <2>7
  <2>10. /\ Overview!FlattenSeq(w) = Overview!FlattenSeq(front) \o last
         /\ Overview!FlattenSeq(Append(r, row)) = Overview!FlattenSeq(r) \o row
    BY <2>1, <2>3, FlattenSteps
  <2> QED
    BY <2>8, <2>9, <2>10, WiderJoined
<1>3. P = Seq(Line)
  <2> HIDE DEF P
  <2>1. P \in SUBSET Seq(Line)
    BY DEF P
  <2> QED
    BY <1>1, <1>2, <2>1, SeqInduction
<1>4. rows \in P /\ wide \in Seq(Line)
  BY <1>3 DEF AllWider
<1> QED
  BY <1>4

LEMMA RowsWell ==
  ASSUME NEW l \in Line, NEW rows, rows = Overview!ComputeRows(l)
  PROVE  /\ AllWider(rows, Placed(l))
         /\ \A i \in 1 .. Len(rows) : Overview!Used(rows[i]) = cols
<1>1. PICK placed \in Grid : placed = Placed(l) /\ InWidth(placed)
  BY PlacedSteps, PlacedWell
<1>2. rows = [i \in 1 .. Len(placed) |-> Overview!Stretch(placed[i])]
  BY <1>1 DEF Overview!ComputeRows, Placed
<1>3. Len(placed) \in Nat
  BY GridRows
<1>4. ASSUME NEW i \in 1 .. Len(placed)
      PROVE  /\ Wider(Overview!Stretch(placed[i]), placed[i])
             /\ Overview!Used(Overview!Stretch(placed[i])) = cols
             /\ Overview!Stretch(placed[i]) \in Line
  <2>1. placed[i] \in Line /\ placed[i] # <<>> /\ Overview!Used(placed[i]) <= cols
    BY <1>1, GridRows DEF InWidth
  <2>2. /\ Wider(Overview!Stretch(placed[i]), placed[i])
        /\ Overview!Used(Overview!Stretch(placed[i])) = cols
    BY <2>1, StretchFull
  <2> QED
    BY <2>2 DEF Wider
<1>5. rows \in Seq(Line) /\ Len(rows) = Len(placed)
  BY <1>2, <1>3, <1>4
<1> QED
  BY <1>1, <1>2, <1>4, <1>5 DEF AllWider

LEMMA ShownWell ==
  ASSUME NEW l \in Line, NEW shown, shown = Overview!FlattenSeq(Overview!ComputeRows(l))
  PROVE  /\ Len(shown) = Len(l)
         /\ \A i \in 1 .. Len(l) : /\ shown[i].id = l[i].id
                                   /\ shown[i].span >= Overview!Smaller(l[i].span, cols)
<1>1. PICK placed \in Seq(Line) : placed = Placed(l) /\ AllOf(placed, l)
  BY PlacedSteps, PlacedWell, GridRows
<1>2. AllWider(Overview!ComputeRows(l), placed)
  BY <1>1, RowsWell
<1>3. PICK flat : flat = Overview!FlattenSeq(placed)
  OBVIOUS
<1>4. Wider(shown, flat)
  BY <1>2, <1>3, WiderFlattened
<1>5. Len(flat) = Len(l) /\ \A i \in 1 .. Len(l) : flat[i] = Fit(l[i])
  BY <1>1, <1>3 DEF AllOf
<1>6. ASSUME NEW i \in 1 .. Len(l)
      PROVE  flat[i].id = l[i].id /\ flat[i].span = Overview!Smaller(l[i].span, cols)
  <2>1. flat[i] = [id |-> l[i].id, span |-> Overview!Smaller(l[i].span, cols)]
    BY <1>5 DEF Fit
  <2> QED
    BY <2>1
<1> QED
  BY <1>4, <1>5, <1>6 DEF Wider

LEMMA LayoutIsLine == Overview!TypeOK /\ layout # Nothing => layout \in Line
<1>1. ASSUME NEW l \in Layouts PROVE l \in Line
  <2>1. l \in Seq([id : STRING, span : Nat \ {0}])
    BY Cols
  <2>2. [id : STRING, span : Nat \ {0}] \subseteq Item
    BY DEF Item, Id
  <2> QED
    BY <2>1, <2>2, SeqMonotonic DEF Line
<1>2. Overview!Widgets \in Line
  <2>1. \A a, b, c, d, e, f, g, h, i, j, k, l, m, n \in Item :
          <<a, b, c, d, e, f, g, h, i, j, k, l, m, n>> \in Line
    BY DEF Line
  <2>2. /\ Overview!Widget("cpu", 2) \in Item /\ Overview!Widget("memory", 2) \in Item
        /\ Overview!Widget("system-info", 1) \in Item
        /\ Overview!Widget("temperature", 1) \in Item
        /\ Overview!Widget("gpu-engines", 1) \in Item
        /\ Overview!Widget("gpu-power", 1) \in Item
        /\ Overview!Widget("disks", 1) \in Item /\ Overview!Widget("network", 1) \in Item
        /\ Overview!Widget("top-cpu", 2) \in Item
        /\ Overview!Widget("top-memory", 2) \in Item
        /\ Overview!Widget("storage", 1) \in Item /\ Overview!Widget("services", 1) \in Item
        /\ Overview!Widget("qbittorrent", 2) \in Item /\ Overview!Widget("vpn", 1) \in Item
    BY DEF Overview!Widget, Item, Id
  <2> QED
    BY <2>1, <2>2 DEF Overview!Widgets
<1> QED
  BY <1>1, <1>2 DEF Overview!TypeOK

LEMMA TypedRowsFull == Overview!TypeOK => Overview!RowsFull
<1> SUFFICES ASSUME Overview!TypeOK, layout # Nothing PROVE Overview!RowsFull
  BY DEF Overview!RowsFull
<1>1. PICK active \in Line : active = Overview!Active
  BY LayoutIsLine, ActiveIsFold
<1>2. PICK rows : rows = Overview!ComputeRows(active)
  OBVIOUS
<1>3. Overview!Rows = rows
  BY <1>1, <1>2 DEF Overview!Rows
<1>4. \A i \in 1 .. Len(rows) : Overview!Used(rows[i]) = cols
  BY <1>2, RowsWell
<1>5. NoRoom(Placed(active))
  BY PlacedWell
<1>6. PICK shown : shown = Overview!FlattenSeq(rows)
  OBVIOUS
<1>7. /\ Len(shown) = Len(active)
      /\ \A i \in 1 .. Len(active) :
           /\ shown[i].id = active[i].id
           /\ shown[i].span >= Overview!Smaller(active[i].span, cols)
  BY <1>2, <1>6, ShownWell
<1> QED
  BY <1>1, <1>3, <1>4, <1>5, <1>6, <1>7 DEF Overview!RowsFull, NoRoom, Placed

(* computeRows loses no widget: every one of the layout that the registry  *)
(* knows is shown once, in its order and with the width asked for or more, *)
(* every row fills the grid, and a row was begun only for want of room in  *)
(* the one before: for any layouts and any number of columns.              *)
THEOREM RowsAreFull == Spec => []RowsFull
<1>1. DashboardType => RowsFull
  BY TypedRowsFull DEF DashboardType, RowsFull
<1> QED
  BY <1>1, DashboardInit, DashboardStep, DashboardTyped, PTL DEF Spec
=============================================================================
