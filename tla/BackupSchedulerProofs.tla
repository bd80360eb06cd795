----------------------- MODULE BackupSchedulerProofs -----------------------
(***************************************************************************)
(* A backup never leaves a service down, for any number of backups,        *)
(* services and concurrent runs.                                           *)
(***************************************************************************)
EXTENDS BackupScheduler, TLAPS

(* A run is about a backup, and pauses and resumes only if there is a      *)
(* service to.                                                             *)
RunInv ==
  \A r \in Runner :
    /\ pc[r] # "idle" => run[r] \in Backup
    /\ pc[r] \in {"pause", "resume"} => held[r] \in Service

IInv == TypeOK /\ RunInv /\ DownIsAccountedFor

LEMMA InitIInv == Init => IInv
BY DEF Init, IInv, TypeOK, RunInv, DownIsAccountedFor, Settings, Phase

(* A run begins, or takes a step that leaves every service as it is: what  *)
(* was owed is owed still.                                                 *)
LEMMA StepIInv ==
  ASSUME IInv, NEW r \in Runner, Step(r)
  PROVE  IInv'
<1> USE BackupAssumption DEF IInv
<1>1. CASE Check(r)
  BY <1>1 DEF Check, Goto, Finish, TypeOK, RunInv, DownIsAccountedFor, Owed,
     Settings, Phase, configVars, serviceVars
<1>2. CASE Pause(r)
  BY <1>2 DEF Pause, Goto, TypeOK, RunInv, DownIsAccountedFor, Owed,
     Settings, Phase, configVars
<1>3. CASE Launch(r)
  BY <1>3 DEF Launch, Goto, TypeOK, RunInv, DownIsAccountedFor, Owed,
     Settings, Phase, configVars, serviceVars
<1>4. CASE BackupReturns(r)
  <2>1. TypeOK' /\ RunInv'
    BY <1>4 DEF BackupReturns, AfterBackup, Goto, Finish, TypeOK, RunInv,
       Settings, Phase, configVars, serviceVars
  <2>2. ASSUME NEW s \in Service, Owed(s)
        PROVE  Owed(s)'
    BY <1>4, <2>2 DEF BackupReturns, AfterBackup, Goto, Finish, Owed, TypeOK, Phase
  <2> QED
    BY <1>4, <2>1, <2>2 DEF BackupReturns, DownIsAccountedFor, serviceVars
<1>5. CASE Resume(r)
  <2>1. TypeOK' /\ RunInv'
    BY <1>5 DEF Resume, Finish, TypeOK, RunInv, Settings, Phase, configVars
  <2>2. ASSUME NEW s \in Service, s # held[r], Owed(s)
        PROVE  Owed(s)'
    BY <1>5, <2>2 DEF Resume, Finish, Owed, TypeOK, Phase
  <2> QED
    BY <1>5, <2>1, <2>2 DEF Resume, DownIsAccountedFor, TypeOK
<1> QED
  BY <1>1, <1>2, <1>3, <1>4, <1>5 DEF Step

(* Runs begin and the world around them changes.                           *)
LEMMA OtherIInv ==
  ASSUME IInv, [Next]_vars, \A r \in Runner : ~Step(r)
  PROVE  IInv'
<1> USE BackupAssumption DEF IInv
<1>1. ASSUME NEW r \in Runner, NEW b \in Backup, Begin(r, b)
      PROVE  IInv'
  BY <1>1 DEF Begin, TypeOK, RunInv, DownIsAccountedFor, Owed, Settings, Phase,
     configVars, serviceVars
<1>2. ASSUME NEW b \in Backup, BackupUnitEnds(b)
      PROVE  IInv'
  BY <1>2 DEF BackupUnitEnds, TypeOK, RunInv, DownIsAccountedFor, Owed,
     configVars, serviceVars, runnerVars
<1>3. ASSUME NEW b \in Backup, NEW on \in BOOLEAN, NEW s \in Service \cup {None},
             Patch(b, on, s)
      PROVE  IInv'
  BY <1>3 DEF Patch, TypeOK, RunInv, DownIsAccountedFor, Owed, Settings,
     serviceVars, runnerVars
<1>4. CASE Reload
  BY <1>4 DEF Reload, LoadConfig, TypeOK, RunInv, DownIsAccountedFor, Owed,
     Settings, serviceVars, runnerVars
<1>5. CASE Killed
  BY <1>5 DEF Killed, LoadConfig, TypeOK, RunInv, DownIsAccountedFor, Settings, Phase
<1>6. ASSUME NEW s \in Service,
             UserStops(s) \/ UserStarts(s) \/ MonitorRestarts(s) \/ ServiceExits(s)
      PROVE  IInv'
  <2>1. TypeOK' /\ RunInv'
    BY <1>6 DEF UserStops, UserStarts, MonitorRestarts, ServiceExits, TypeOK,
       RunInv, configVars, runnerVars
  <2>2. ASSUME NEW q \in Service, Owed(q)
        PROVE  Owed(q)'
    BY <1>6, <2>2 DEF UserStops, UserStarts, MonitorRestarts, ServiceExits, Owed, runnerVars
  <2> QED
    BY <1>6, <2>1, <2>2 DEF UserStops, UserStarts, MonitorRestarts, ServiceExits,
       DownIsAccountedFor, TypeOK
<1>7. CASE UNCHANGED vars
  BY <1>7 DEF vars, TypeOK, RunInv, DownIsAccountedFor, Owed
<1> QED
  BY <1>1, <1>2, <1>3, <1>4, <1>5, <1>6, <1>7 DEF Next, CronFires, RunManually

(* Every reachable state satisfies the inductive invariant.                *)
LEMMA Invariant == Spec => []IInv
<1>1. IInv /\ [Next]_vars => IInv'
  BY StepIInv, OtherIInv
<1> QED
  BY InitIInv, <1>1, PTL DEF Spec

(* A service that is down was stopped by the user, failed by itself, lost  *)
(* its resume with the daemon, or is about to be started by the run that   *)
(* paused it (the deferred startUnit of RunBackup).                        *)
THEOREM NoServiceForgotten == Spec => []DownIsAccountedFor
<1>1. IInv => DownIsAccountedFor
  BY DEF IInv
<1> QED
  BY Invariant, <1>1, PTL

(* The variables keep their types.                                         *)
THEOREM TypeCorrect == Spec => []TypeOK
<1>1. IInv => TypeOK
  BY DEF IInv
<1> QED
  BY Invariant, <1>1, PTL
=============================================================================
