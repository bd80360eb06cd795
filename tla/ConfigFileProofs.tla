-------------------------- MODULE ConfigFileProofs --------------------------
(***************************************************************************)
(* Theorems about ConfigFile for every set of services, of generations and *)
(* of handlers that write the configuration at the same time.              *)
(***************************************************************************)
EXTENDS ConfigFile, TLAPS

(* Handlers live as long as the daemon does.                               *)
StageInv == \A w \in Writer : stage[w] # "idle" => running

(* No contents with an unknown policy are anywhere.                        *)
PolicyInv ==
  /\ PoliciesValid(file) /\ PoliciesValid(mem) /\ PoliciesValid(merged)
  /\ \A w \in Writer : PoliciesValid(buf[w])

(* What counts as answered is wherever the file's contents will come from. *)
AskedInv ==
  \A u \in Unit : asked[u] # "none" =>
    /\ file[u].enabled = asked[u]
    /\ running => mem[u].enabled = asked[u]
    /\ merging => merged[u].enabled = asked[u]
    /\ \A w \in Writer :
         stage[w] \in {"read", "serialised"} => buf[w][u].enabled = asked[u]

(* Nothing that is on its way into the file or the memory can undo a sound *)
(* PATCH.                                                                  *)
SoundInv ==
  \A w \in Writer : sound[w] =>
    /\ stage[w] # "idle" /\ ~merging
    /\ target[w] \in Unit /\ want[w] \in {"on", "off"}
    /\ mem[target[w]].enabled = want[w]
    /\ \A x \in Writer :
         /\ stage[x] # "read"
         /\ stage[x] = "serialised" => buf[x][target[w]].enabled = want[w]

IInv == TypeOK /\ StageInv /\ PolicyInv /\ AskedInv /\ SoundInv

-----------------------------------------------------------------------------
(* Contents the daemon can load, and what keeps them so.                   *)
Good(c) == c \in Services /\ PoliciesValid(c)

LEMMA EmptyGood == Good(Empty)
BY DEF Good, Services, Entry, PoliciesValid, Empty, Absent

LEMMA KnownGood ==
  ASSUME NEW c, Good(c), NEW S
  PROVE  Good([u \in Unit |-> IF u \in S THEN c[u] ELSE Absent])
BY DEF Good, Services, Entry, PoliciesValid, Absent

LEMMA DefaultsGood ==
  ASSUME NEW S
  PROVE  Good([u \in Unit |-> IF u \in S THEN Default ELSE Absent])
BY DEF Good, Services, Entry, PoliciesValid, Absent, Default

LEMMA ChangedGood ==
  ASSUME NEW c, Good(c), NEW u \in Unit, NEW e \in {"on", "off"}
  PROVE  Good([c EXCEPT ![u].enabled = e])
<1> DEFINE d == [c EXCEPT ![u].enabled = e]
<1>1. \A v \in Unit : d[v] = IF v = u THEN [c[u] EXCEPT !.enabled = e] ELSE c[v]
  BY DEF Good, Services
<1>2. \A v \in Unit : c[v] \in Entry /\ c[v].policy = "valid"
  BY DEF Good, Services, PoliciesValid
<1>3. \A v \in Unit : d[v] \in Entry /\ d[v].policy = "valid"
  <2> SUFFICES ASSUME NEW v \in Unit
               PROVE  d[v] \in Entry /\ d[v].policy = "valid"
    OBVIOUS
  <2>1. CASE v = u
    <3>1. d[v] = [c[u] EXCEPT !.enabled = e]
      BY <1>1, <2>1
    <3>2. c[u] \in Entry /\ c[u].policy = "valid"
      BY <1>2
    <3> HIDE DEF d
    <3> QED
      BY <3>1, <3>2 DEF Entry
  <2>2. CASE v # u
    <3>1. d[v] = c[v]
      BY <1>1, <2>2
    <3> QED
      BY <1>2, <3>1
  <2> QED
    BY <2>1, <2>2
<1>4. d = [v \in Unit |-> d[v]]
  BY DEF Good, Services
<1> QED
  BY <1>3, <1>4 DEF Good, Services, PoliciesValid

LEMMA MergedGood ==
  ASSUME NEW c, Good(c), NEW g
  PROVE  Good(Merge(c, g))
BY DEF Good, Services, Entry, PoliciesValid, Merge, Default

(* Activation either saves nothing or the merged contents.                 *)
LEMMA ActivationMerges ==
  ASSUME NEW g, NEW s \in BOOLEAN, Activate(g, s)
  PROVE  merged' \in {merged, Empty, Merge(file, g)}
         /\ (merging' => merged' = Merge(file, g) \/ (merging /\ merged' = merged))
<1>1. CASE FileLoads
  <2>1. merged' = IF merging' THEN Merge(file, g) ELSE Empty
    BY <1>1 DEF Activate
  <2> QED
    BY <2>1
<1>2. CASE ~FileLoads
  BY <1>2 DEF Activate, mergeVars
<1> QED
  BY <1>1, <1>2

-----------------------------------------------------------------------------
LEMMA InitIInv == Init => IInv
<1> SUFFICES ASSUME Init PROVE IInv
  OBVIOUS
<1>1. Good(Empty) /\ Good(file)
  BY EmptyGood, DefaultsGood DEF Init
<1>2. TypeOK /\ PolicyInv
  BY <1>1 DEF Init, TypeOK, PolicyInv, Good
<1>3. StageInv /\ AskedInv /\ SoundInv
  BY DEF Init, StageInv, AskedInv, SoundInv
<1> QED
  BY <1>2, <1>3 DEF IInv

(* Every action preserves types and policies.                              *)
LEMMA TypeStep == TypeOK /\ PolicyInv /\ [Next]_vars => TypeOK' /\ PolicyInv'
<1> SUFFICES ASSUME TypeOK, PolicyInv, [Next]_vars PROVE TypeOK' /\ PolicyInv'
  OBVIOUS
<1> USE DEF TypeOK, PolicyInv, memVars, fileVars, bufVars, mergeVars, writerVars
<1>0. /\ Good(file) /\ Good(mem) /\ Good(merged) /\ Good(Empty)
      /\ \A w \in Writer : Good(buf[w])
  BY EmptyGood DEF Good
<1>1. CASE Start
  <2>1. Good(mem')
    <3>1. Good([u \in Unit |-> IF u \in Declared[gen] THEN file[u] ELSE Absent])
      BY <1>0, KnownGood
    <3> QED
      BY <1>1, <3>1 DEF Start
  <2>2. asked' \in [Unit -> {"none", "on", "off"}] /\ special' \in BOOLEAN
    BY <1>1 DEF Start
  <2> QED
    BY <1>0, <1>1, <2>1, <2>2 DEF Start, Good
<1>2. CASE Stop
  BY <1>0, <1>2 DEF Stop, Good
<1>3. ASSUME NEW w \in Writer, ReadFile(w) \/ Reload(w)
      PROVE  TypeOK' /\ PolicyInv'
  <2>1. CASE ReadFile(w)
    BY <1>0, <2>1 DEF ReadFile, Good
  <2>2. CASE Reload(w)
    BY <1>0, <2>2 DEF Reload, Idle, Good
  <2> QED
    BY <1>3, <2>1, <2>2
<1>4. ASSUME NEW w \in Writer, NEW u \in Unit, NEW e \in {"on", "off"},
             Apply(w, u, e) \/ Reject(w, u, e)
      PROVE  TypeOK' /\ PolicyInv'
  <2>0. mem' = [mem EXCEPT ![u].enabled = e]
    BY <1>4 DEF Apply, Reject
  <2>1. Good(mem')
    <3>1. Good([mem EXCEPT ![u].enabled = e])
      BY <1>0, ChangedGood
    <3> QED
      BY <2>0, <3>1
  <2>2. asked' \in [Unit -> {"none", "on", "off"}]
    BY <1>4 DEF Apply, Reject
  <2>3. CASE Apply(w, u, e)
    <3>1. SoundFromHere \in BOOLEAN
      BY DEF SoundFromHere
    <3>2. sound' \in [Writer -> BOOLEAN]
      BY <2>3, <3>1 DEF Apply, SoundAfter
    <3> QED
      BY <2>1, <2>2, <2>3, <3>2 DEF Apply, Applied, Good
  <2>4. CASE Reject(w, u, e)
    <3>1. sound' \in [Writer -> BOOLEAN]
      BY <2>4 DEF Reject, SoundAfter
    <3> QED
      BY <2>1, <2>2, <2>4, <3>1 DEF Reject, Good
  <2> QED
    BY <1>4, <2>3, <2>4
<1>5. ASSUME NEW w \in Writer, NEW q \in BOOLEAN, ApplyElsewhere(w, q)
      PROVE  TypeOK' /\ PolicyInv'
  BY <1>5 DEF ApplyElsewhere, Applied
<1>6. ASSUME NEW w \in Writer, Serialise(w)
      PROVE  TypeOK' /\ PolicyInv'
  BY <1>6 DEF Serialise
<1>7. ASSUME NEW w \in Writer, Rename(w)
      PROVE  TypeOK' /\ PolicyInv'
  <2>1. asked' \in [Unit -> {"none", "on", "off"}]
    BY <1>7 DEF Rename
  <2> QED
    BY <1>0, <1>7, <2>1 DEF Rename, Idle, Good
<1>8. ASSUME NEW w \in Writer, WriteFails(w)
      PROVE  TypeOK' /\ PolicyInv'
  BY <1>0, <1>8 DEF WriteFails, Idle, Good
<1>9. ASSUME NEW g \in Generation, NEW s \in BOOLEAN, Activate(g, s)
      PROVE  TypeOK' /\ PolicyInv'
  <2>1. Good(merged')
    BY <1>0, <1>9, ActivationMerges, MergedGood
  <2>2. merging' \in BOOLEAN
    BY <1>9 DEF Activate
  <2> QED
    BY <1>9, <2>1, <2>2 DEF Activate, Good
<1>10. ASSUME NEW ok \in BOOLEAN, MergeEnds(ok)
       PROVE  TypeOK' /\ PolicyInv'
  <2>1. qui' \in BOOLEAN
    BY <1>10 DEF MergeEnds
  <2> QED
    BY <1>0, <1>10, <2>1 DEF MergeEnds, Good
<1>11. ASSUME NEW u \in Unit, NEW e \in {"on", "off"}, Edit(u, e)
       PROVE  TypeOK' /\ PolicyInv'
  <2>1. Good(file')
    BY <1>0, <1>11, ChangedGood DEF Edit
  <2> QED
    BY <1>11, <2>1 DEF Edit, Good
<1>12. CASE UNCHANGED vars
  BY <1>12 DEF vars
<1> QED
  BY <1>1, <1>2, <1>3, <1>4, <1>5, <1>6, <1>7, <1>8, <1>9, <1>10, <1>11, <1>12
     DEF Next, Request

(* merge-config keeps every entry that is in the file.                     *)
LEMMA MergeKeeps ==
  ASSUME NEW c, NEW g, NEW u \in Unit, Has(c, u)
  PROVE  Merge(c, g)[u] = c[u]
BY DEF Merge

(* A service with an answered request has an entry in the file.            *)
LEMMA AskedHas ==
  ASSUME TypeOK, AskedInv, NEW u \in Unit, asked[u] # "none"
  PROVE  Has(file, u)
<1>1. asked[u] \in {"none", "on", "off"}
  BY DEF TypeOK
<1>2. file[u].enabled = asked[u]
  BY DEF AskedInv
<1> QED
  BY <1>1, <1>2 DEF Has

(* Each action on the answered requests and the sound ones.                *)
LEMMA AskedStep == IInv /\ [Next]_vars => (StageInv /\ AskedInv /\ SoundInv)'
<1> SUFFICES ASSUME IInv, [Next]_vars PROVE (StageInv /\ AskedInv /\ SoundInv)'
  OBVIOUS
<1> USE ConfigFileAssumption DEF IInv, TypeOK, StageInv, AskedInv, SoundInv,
        Services, Entry, memVars, fileVars, bufVars, mergeVars, writerVars
<1>1. CASE Start \/ Stop
  BY <1>1 DEF Start, Stop
<1>0. ASSUME NEW w \in Writer, ReadFile(w) \/ Reload(w)
      PROVE  (StageInv /\ AskedInv /\ SoundInv)'
  <2>1. CASE ReadFile(w)
    BY <2>1 DEF ReadFile
  <2>2. CASE Reload(w)
    BY <2>2 DEF Reload, Idle
  <2> QED
    BY <1>0, <2>1, <2>2
<1>2. ASSUME NEW w \in Writer, NEW u \in Unit, NEW e \in {"on", "off"},
             Apply(w, u, e)
      PROVE  (StageInv /\ AskedInv /\ SoundInv)'
  BY <1>2 DEF Apply, Applied, SoundAfter, SoundFromHere
<1>3. ASSUME NEW w \in Writer, NEW u \in Unit, NEW e \in {"on", "off"},
             Reject(w, u, e)
      PROVE  (StageInv /\ AskedInv /\ SoundInv)'
  BY <1>3 DEF Reject, SoundAfter
<1>4. ASSUME NEW w \in Writer, NEW q \in BOOLEAN, ApplyElsewhere(w, q)
      PROVE  (StageInv /\ AskedInv /\ SoundInv)'
  BY <1>4 DEF ApplyElsewhere, Applied
<1>5. ASSUME NEW w \in Writer, Serialise(w)
      PROVE  (StageInv /\ AskedInv /\ SoundInv)'
  BY <1>5 DEF Serialise
<1>6. ASSUME NEW w \in Writer, Rename(w)
      PROVE  (StageInv /\ AskedInv /\ SoundInv)'
  BY <1>6 DEF Rename, Idle
<1>7. ASSUME NEW w \in Writer, WriteFails(w)
      PROVE  (StageInv /\ AskedInv /\ SoundInv)'
  BY <1>7 DEF WriteFails, Idle
<1>8. ASSUME NEW g \in Generation, NEW s \in BOOLEAN, Activate(g, s)
      PROVE  (StageInv /\ AskedInv /\ SoundInv)'
  <2>1. \A u \in Unit : asked[u] # "none" => Merge(file, g)[u] = file[u]
    <3> HIDE DEF IInv, TypeOK, StageInv, AskedInv, SoundInv, Services, Entry
    <3>1. TypeOK /\ AskedInv
      BY DEF IInv
    <3> QED
      BY <3>1, AskedHas, MergeKeeps
  <2>2. merging' => merged' = Merge(file, g)
    BY <1>8, ActivationMerges DEF Activate
  <2>3. UNCHANGED <<running, mem, file, stage, buf, asked>>
    BY <1>8 DEF Activate
  <2>4. sound' = [w \in Writer |-> FALSE]
    BY <1>8 DEF Activate
  <2>5. AskedInv'
    BY <2>1, <2>2, <2>3
  <2> QED
    BY <2>3, <2>4, <2>5
<1>9. ASSUME NEW ok \in BOOLEAN, MergeEnds(ok)
      PROVE  (StageInv /\ AskedInv /\ SoundInv)'
  BY <1>9 DEF MergeEnds
<1>10. ASSUME NEW u \in Unit, NEW e \in {"on", "off"}, Edit(u, e)
       PROVE  (StageInv /\ AskedInv /\ SoundInv)'
  BY <1>10 DEF Edit
<1>11. CASE UNCHANGED vars
  BY <1>11 DEF vars
<1> QED
  BY <1>0, <1>1, <1>2, <1>3, <1>4, <1>5, <1>6, <1>7, <1>8, <1>9, <1>10, <1>11
     DEF Next, Request

LEMMA Invariance == Spec => []IInv
<1>1. IInv /\ [Next]_vars => IInv'
  BY TypeStep, AskedStep DEF IInv
<1> QED
  BY <1>1, InitIInv, PTL DEF Spec

(* What the daemon answered to have saved stays in services.yaml and in    *)
(* the daemon's memory, unless the PATCH ran while older contents were on  *)
(* their way into either, or a later one overtook it.                      *)
THEOREM Kept == Spec => []AnsweredIsKept
<1>1. IInv => AnsweredIsKept
  BY DEF IInv, AskedInv, AnsweredIsKept
<1> QED
  BY <1>1, Invariance, PTL

(* No restart policy that loadConfig refuses gets into services.yaml.      *)
THEOREM PoliciesStayValid == Spec => []PoliciesLoad
<1>1. IInv => PoliciesLoad
  BY DEF IInv, PolicyInv, PoliciesLoad
<1> QED
  BY <1>1, Invariance, PTL

(* merge-config, the writers and the daemon keep the types of the file and *)
(* of what is in memory.                                                   *)
THEOREM TypeCorrect == Spec => []TypeOK
<1>1. IInv => TypeOK
  BY DEF IInv
<1> QED
  BY <1>1, Invariance, PTL
=============================================================================
