-------------------------- MODULE SupervisorProofs --------------------------
(***************************************************************************)
(* Theorems about Supervisor for every set of units, of goroutines, every  *)
(* configuration and every schedule of failures.                           *)
(***************************************************************************)
EXTENDS Supervisor, TLAPS

(* Where a thread stands and what it holds fit together: it has a unit in  *)
(* hand exactly while it works on one, only restarters recover units, and  *)
(* neither they nor idle threads have units left to visit.                 *)
ThreadInv ==
  \A t \in Thread :
    /\ pc[t] = "idle" <=> job[t] = "none"
    /\ cur[t] = None <=> pc[t] \in {"idle", "next"}
    /\ job[t] \in {"none", "recover"} => todo[t] = {}
    /\ job[t] = "recover" => t \in Restarter /\ pc[t] # "next"
    /\ pc[t] = "settle" => job[t] = "recover"

(* The mutex of a name is held by the thread inside systemctl by it.       *)
LockInv ==
  /\ \A t \in Thread : Locked(t) => lock[Key(t)] = t
  /\ NoLeakedLock

IInv == TypeOK /\ ThreadInv /\ LockInv /\ RestartBookkeeping

LEMMA InitIInv == Init => IInv
<1> SUFFICES ASSUME Init PROVE IInv
  OBVIOUS
<1> USE ThreadAssumption DEF Init, Thread
<1>1. TypeOK
  BY ConfigAssumption DEF TypeOK, Br!BreakerInit, Br!BreakerTypeOK, JobKind, Phase
<1>2. ThreadInv
  BY DEF ThreadInv
<1>3. LockInv
  BY DEF LockInv, NoLeakedLock, Locked, InCall, Key, Mutex
<1>4. RestartBookkeeping
  BY DEF RestartBookkeeping
<1> QED
  BY <1>1, <1>2, <1>3, <1>4 DEF IInv

-----------------------------------------------------------------------------
(* The three ways in which a thread moves.                                 *)

ThreadFacts ==
  /\ inFlight \subseteq Unit
  /\ job \in [Thread -> JobKind]
  /\ cur \in [Thread -> Unit \cup {None}]
  /\ bare \subseteq Handler
  /\ pc \in [Thread -> Phase]
  /\ todo \in [Thread -> SUBSET Unit]
  /\ ThreadInv
  /\ RestartBookkeeping

LEMMA LeaveFacts ==
  ASSUME IInv, NEW t \in Thread, pc[t] \notin {"idle", "next"}, Leave(t)
  PROVE  ThreadFacts'
<1> USE ThreadAssumption DEF IInv, TypeOK, JobKind, Phase, Leave
<1>1. ThreadInv'
  BY DEF ThreadInv, Thread
<1>2. RestartBookkeeping'
  BY DEF ThreadInv, RestartBookkeeping, Thread
<1> QED
  BY <1>1, <1>2 DEF ThreadFacts

LEMMA GotoFacts ==
  ASSUME IInv, NEW t \in Thread, NEW p \in Phase \ {"idle", "next"},
         pc[t] \notin {"idle", "next"}, p = "settle" => job[t] = "recover",
         Goto(t, p)
  PROVE  ThreadFacts'
<1> USE ThreadAssumption DEF IInv, TypeOK, JobKind, Phase, Goto
<1>1. ThreadInv'
  BY DEF ThreadInv, Thread
<1>2. RestartBookkeeping'
  BY DEF ThreadInv, RestartBookkeeping, Thread
<1> QED
  BY <1>1, <1>2 DEF ThreadFacts

LEMMA BeginFacts ==
  ASSUME IInv, NEW t \in Thread \ Restarter, pc[t] \in {"idle", "next"},
         NEW j \in {"start", "stop", "restart", "verify", "boot"},
         NEW S \in SUBSET Unit, Begin(t, j, S), bare' \subseteq Handler
  PROVE  ThreadFacts'
<1> USE ThreadAssumption DEF IInv, TypeOK, JobKind, Phase, Begin
<1>1. ThreadInv'
  BY DEF ThreadInv, Thread
<1>2. RestartBookkeeping'
  BY DEF ThreadInv, RestartBookkeeping, Thread
<1> QED
  BY <1>1, <1>2 DEF ThreadFacts

-----------------------------------------------------------------------------
(* Every step preserves the invariant, one lemma per group of actions.     *)

RestFacts ==
  /\ sysd \in [Unit -> UnitState]
  /\ mounted \subseteq Mount
  /\ enabled \subseteq Unit
  /\ userStopped \subseteq Unit
  /\ Br!BreakerTypeOK
  /\ lock \in [Mutex -> Thread \cup {None}]
  /\ monTodo \subseteq Unit
  /\ monAt \in Unit \cup {None}
  /\ snap \subseteq Unit
  /\ LockInv

LEMMA Assemble == ThreadFacts' /\ RestFacts' => IInv'
BY DEF ThreadFacts, RestFacts, IInv, TypeOK

LEMMA FailureType ==
  ASSUME Br!BreakerTypeOK, NEW u \in Unit, Br!RecordFailure(u)
  PROVE  Br!BreakerTypeOK'
BY ConfigAssumption DEF Br!BreakerTypeOK, Br!RecordFailure, Br!Saturated

LEMMA ResetType ==
  ASSUME Br!BreakerTypeOK, NEW u \in Unit, Br!Reset(u)
  PROVE  Br!BreakerTypeOK'
BY ConfigAssumption DEF Br!BreakerTypeOK, Br!Reset

LEMMA RequestPreserves ==
  ASSUME IInv, NEW h \in Handler, Request(h)
  PROVE  IInv'
<1> USE ThreadAssumption DEF envVars, monVars
<1>0. h \in Thread \ Restarter /\ Targets \subseteq SUBSET Unit
  BY DEF Thread, Targets, IInv, TypeOK
<1>1. ASSUME NEW S \in Targets, RequestStart(h, S) PROVE IInv'
  <2>1. ThreadFacts'
    BY <1>0, <1>1, BeginFacts DEF RequestStart, ByBareName, IInv, TypeOK, ThreadInv
  <2>2. RestFacts'
    BY <1>0, <1>1 DEF RequestStart, ByBareName, Begin, RestFacts, IInv, TypeOK, LockInv,
       NoLeakedLock, Locked, InCall, Key, Mutex, ThreadInv, Br!BreakerTypeOK
  <2> QED
    BY <2>1, <2>2, Assemble
<1>2. ASSUME NEW S \in Targets, RequestStop(h, S) PROVE IInv'
  <2>1. ThreadFacts'
    BY <1>0, <1>2, BeginFacts DEF RequestStop, ByBareName, IInv, TypeOK, ThreadInv
  <2>2. RestFacts'
    BY <1>0, <1>2 DEF RequestStop, ByBareName, Begin, RestFacts, IInv, TypeOK, LockInv,
       NoLeakedLock, Locked, InCall, Key, Mutex, ThreadInv, Br!BreakerTypeOK
  <2> QED
    BY <2>1, <2>2, Assemble
<1>3. ASSUME NEW u \in Unit, RequestRestart(h, u) PROVE IInv'
  <2>1. ThreadFacts'
    BY <1>0, <1>3, BeginFacts DEF RequestRestart, ByBareName, IInv, TypeOK, ThreadInv
  <2>2. RestFacts'
    BY <1>0, <1>3 DEF RequestRestart, ByBareName, Begin, RestFacts, IInv, TypeOK, LockInv,
       NoLeakedLock, Locked, InCall, Key, Mutex, ThreadInv, Br!BreakerTypeOK
  <2> QED
    BY <2>1, <2>2, Assemble
<1>4. ASSUME RequestVerify(h) PROVE IInv'
  <2>1. ThreadFacts'
    BY <1>0, <1>4, BeginFacts DEF RequestVerify, IInv, TypeOK, ThreadInv
  <2>2. RestFacts'
    BY <1>0, <1>4 DEF RequestVerify, Begin, RestFacts, IInv, TypeOK, LockInv,
       NoLeakedLock, Locked, InCall, Key, Mutex, ThreadInv, Br!BreakerTypeOK
  <2> QED
    BY <2>1, <2>2, Assemble
<1> QED
  BY <1>1, <1>2, <1>3, <1>4 DEF Request

LEMMA StartBootPreserves ==
  ASSUME IInv, StartBoot
  PROVE  IInv'
<1> USE ThreadAssumption DEF envVars, monVars
<1>0. Main \in Thread \ Restarter /\ enabled \ userStopped \in SUBSET Unit
  BY DEF Thread, IInv, TypeOK
<1>1. ThreadFacts'
  BY <1>0, BeginFacts DEF StartBoot, IInv, TypeOK
<1>2. RestFacts'
  BY <1>0 DEF StartBoot, Begin, RestFacts, IInv, TypeOK, LockInv,
     NoLeakedLock, Locked, InCall, Key, Mutex, ThreadInv, Br!BreakerTypeOK
<1> QED
  BY <1>1, <1>2, Assemble

LEMMA LoopPreserves ==
  ASSUME IInv, NEW t \in Thread,
         Finish(t) \/ \E u \in Unit : Pick(t, u)
  PROVE  IInv'
<1> USE ThreadAssumption DEF IInv, TypeOK, envVars, monVars
<1>1. ASSUME Finish(t) PROVE IInv'
  <2>1. ThreadFacts'
    BY <1>1 DEF Finish, ThreadFacts, ThreadInv, RestartBookkeeping, JobKind, Phase, Thread
  <2>2. RestFacts'
    BY <1>1 DEF Finish, RestFacts, LockInv, NoLeakedLock, Locked, InCall,
       Key, Mutex, ThreadInv, Br!BreakerTypeOK
  <2> QED
    BY <2>1, <2>2, Assemble
<1>2. ASSUME NEW u \in Unit, Pick(t, u) PROVE IInv'
  <2>0. FirstPhase(t) \in {"check", "wait", "lock"}
    BY DEF FirstPhase
  <2>1. ThreadFacts'
    BY <1>2, <2>0 DEF Pick, ThreadFacts, ThreadInv, RestartBookkeeping, JobKind, Phase, Thread
  <2>2. RestFacts'
    BY <1>2, <2>0 DEF Pick, RestFacts, LockInv, NoLeakedLock, Locked, InCall,
       Key, Mutex, ThreadInv, Br!BreakerTypeOK
  <2> QED
    BY <2>1, <2>2, Assemble
<1> QED
  BY <1>1, <1>2

LEMMA ChecksPreserve ==
  ASSUME IInv, NEW t \in Thread,
         Check(t) \/ WaitDeps(t) \/ CheckDeps(t) \/ CheckDepsAgain(t)
  PROVE  IInv'
<1> USE ThreadAssumption DEF envVars, monVars
<1>0. \/ Leave(t) /\ pc[t] \notin {"idle", "next"}
      \/ \E p \in {"deps", "deps2", "check", "lock"} :
           Goto(t, p) /\ pc[t] \notin {"idle", "next"}
  BY DEF Check, WaitDeps, CheckDeps, CheckDepsAgain
<1>1. pc[t] \notin {"run", "reset"}
  BY DEF Check, WaitDeps, CheckDeps, CheckDepsAgain
<1>2. UNCHANGED <<sysd, mounted, enabled, userStopped, fails, open, lock, bare,
               monTodo, monAt, snap>>
  BY DEF Check, WaitDeps, CheckDeps, CheckDepsAgain, Goto, Leave
<1>3. ThreadFacts'
  BY <1>0, LeaveFacts, GotoFacts DEF Phase
<1>4. CASE Leave(t) /\ pc[t] \notin {"idle", "next"}
  BY <1>1, <1>2, <1>3, <1>4, Assemble DEF Leave, IInv, TypeOK, RestFacts,
     LockInv, NoLeakedLock, Locked, InCall, Key, Mutex, ThreadInv, Br!BreakerTypeOK
<1>5. CASE \E p \in {"deps", "deps2", "check", "lock"} :
             Goto(t, p) /\ pc[t] \notin {"idle", "next"}
  BY <1>1, <1>2, <1>3, <1>5, Assemble DEF Goto, IInv, TypeOK, RestFacts,
     LockInv, NoLeakedLock, Locked, InCall, Key, Mutex, ThreadInv, Br!BreakerTypeOK
<1> QED
  BY <1>0, <1>4, <1>5

(* What the steps that end a systemctl call share: the mutex is given up   *)
(* and the thread is no longer inside the call.                            *)
LEMMA UnlockFacts ==
  ASSUME IInv, NEW t \in Thread, InCall(t), Unlock(t),
         pc' \in [Thread -> Phase], ~(pc'[t] \in {"run", "reset"}),
         \A x \in Thread \ {t} : pc'[x] = pc[x] /\ cur'[x] = cur[x] /\ job'[x] = job[x],
         bare' = bare
  PROVE  lock' \in [Mutex -> Thread \cup {None}] /\ LockInv'
<1> USE ThreadAssumption DEF IInv, TypeOK, LockInv, NoLeakedLock, Locked, InCall
<1>1. Key(t) \in Mutex
  BY DEF ThreadInv, Key, Mutex
<1>2. lock' \in [Mutex -> Thread \cup {None}]
  BY DEF Unlock
<1>3. ASSUME NEW x \in Thread, Locked(x)' PROVE lock'[Key(x)'] = x
  <2>1. x # t /\ Locked(x) /\ Key(x)' = Key(x)
    BY <1>3 DEF Key, Mutex
  <2>2. Key(x) \in Mutex
    BY <2>1 DEF ThreadInv, Key, Mutex
  <2>3. Key(x) # Key(t) \/ lock' = lock
    BY <2>1 DEF Unlock
  <2> QED
    BY <1>1, <2>1, <2>2, <2>3 DEF Unlock
<1>4. ASSUME NEW k \in Mutex, NEW x \in Thread, lock'[k] = x
      PROVE  Locked(x)' /\ Key(x)' = k
  <2>1. lock[k] = x /\ x # t
    BY <1>1, <1>4 DEF Unlock
  <2> QED
    BY <2>1 DEF Key, Mutex
<1> QED
  BY <1>2, <1>3, <1>4

LEMMA IssuePreserves ==
  ASSUME IInv, NEW t \in Thread, Issue(t)
  PROVE  IInv'
<1> USE ThreadAssumption DEF IInv, TypeOK, envVars, monVars, Issue
<1>0. cur[t] \in Unit /\ job[t] # "none"
  BY DEF ThreadInv
<1>1. ThreadFacts'
  BY GotoFacts DEF Phase, ThreadInv
<1>2. sysd' \in [Unit -> UnitState]
  BY <1>0 DEF Issued, UnitState
<1>3. lock' \in [Mutex -> Thread \cup {None}]
  BY DEF Acquire
<1>4. LockInv'
  <2>1. \A x \in Thread : Key(x)' = Key(x)
    BY DEF Goto, Key
  <2>2. Key(t) \in Mutex
    BY <1>0 DEF Key, Mutex
  <2>3. \A x \in Thread : Locked(x)' <=> Locked(x) \/ (x = t /\ job[t] # "restart")
    BY DEF Goto, Locked, InCall
  <2>4. \A x \in Thread : Locked(x) => Key(x) \in Mutex
    BY DEF Locked, InCall, ThreadInv, Key, Mutex
  <2>5. lock[Key(t)] = None \/ lock' = lock
    BY DEF Acquire
  <2> QED
    BY <2>1, <2>2, <2>3, <2>4, <2>5 DEF Acquire, LockInv, NoLeakedLock
<1>5. RestFacts'
  BY <1>2, <1>3, <1>4 DEF RestFacts, Br!BreakerTypeOK
<1> QED
  BY <1>1, <1>5, Assemble

LEMMA StartEndsPreserve ==
  ASSUME IInv, NEW t \in Thread, StartOk(t) \/ StartErr(t)
  PROVE  IInv'
<1> USE ThreadAssumption DEF IInv, TypeOK, envVars, monVars
<1>0. InCall(t) /\ cur[t] \in Unit /\ pc[t] \notin {"idle", "next"}
  BY DEF StartOk, StartErr, ThreadInv, InCall
<1>1. CASE StartOk(t)
  <2>1. ThreadFacts'
    BY <1>0, <1>1, LeaveFacts, GotoFacts DEF StartOk, Phase
  <2>2. /\ pc' \in [Thread -> Phase] /\ pc'[t] \notin {"run", "reset"}
        /\ \A x \in Thread \ {t} : pc'[x] = pc[x] /\ cur'[x] = cur[x] /\ job'[x] = job[x]
        /\ bare' = bare
    BY <2>1, <1>1 DEF StartOk, Leave, Goto, ThreadFacts
  <2>3. lock' \in [Mutex -> Thread \cup {None}] /\ LockInv'
    BY <1>0, <1>1, <2>2, UnlockFacts DEF StartOk
  <2>4. RestFacts'
    BY <1>0, <1>1, <2>3 DEF StartOk, RestFacts, UnitState, Br!BreakerTypeOK
  <2> QED
    BY <2>1, <2>4, Assemble
<1>2. CASE StartErr(t)
  <2>1. ThreadFacts'
    BY <1>0, <1>2, LeaveFacts DEF StartErr
  <2>2. /\ pc' \in [Thread -> Phase] /\ pc'[t] \notin {"run", "reset"}
        /\ \A x \in Thread \ {t} : pc'[x] = pc[x] /\ cur'[x] = cur[x] /\ job'[x] = job[x]
        /\ bare' = bare
    BY <2>1, <1>2 DEF StartErr, Leave, ThreadFacts
  <2>3. lock' \in [Mutex -> Thread \cup {None}] /\ LockInv'
    BY <1>0, <1>2, <2>2, UnlockFacts DEF StartErr
  <2>4. Br!BreakerTypeOK'
    BY <1>0, <1>2, FailureType DEF StartErr, CountFailure, Br!BreakerTypeOK
  <2>5. RestFacts'
    BY <1>0, <1>2, <2>3, <2>4 DEF StartErr, RestFacts, UnitState
  <2> QED
    BY <2>1, <2>5, Assemble
<1> QED
  BY <1>1, <1>2

LEMMA StopEndsPreserve ==
  ASSUME IInv, NEW t \in Thread, StopOk(t) \/ StopTimeout(t) \/ ResetFailed(t)
  PROVE  IInv'
<1> USE ThreadAssumption DEF IInv, TypeOK, envVars, monVars
<1>0. InCall(t) /\ cur[t] \in Unit /\ pc[t] \notin {"idle", "next"}
  BY DEF StopOk, StopTimeout, ResetFailed, ThreadInv, InCall
<1>1. ThreadFacts'
  BY <1>0, LeaveFacts, GotoFacts DEF StopOk, StopTimeout, ResetFailed, Phase
<1>2. sysd' \in [Unit -> UnitState]
  BY <1>0 DEF StopOk, StopTimeout, ResetFailed, UnitState
<1>3. CASE Leave(t) /\ Unlock(t)
  <2>1. /\ pc' \in [Thread -> Phase] /\ pc'[t] \notin {"run", "reset"}
        /\ \A x \in Thread \ {t} : pc'[x] = pc[x] /\ cur'[x] = cur[x] /\ job'[x] = job[x]
        /\ bare' = bare
    BY <1>1, <1>3 DEF Leave, ThreadFacts
  <2>2. lock' \in [Mutex -> Thread \cup {None}] /\ LockInv'
    BY <1>0, <1>3, <2>1, UnlockFacts
  <2>3. RestFacts'
    BY <1>2, <2>2 DEF StopOk, StopTimeout, ResetFailed, RestFacts, Br!BreakerTypeOK
  <2> QED
    BY <1>1, <2>3, Assemble
<1>4. CASE Goto(t, "reset") /\ UNCHANGED lock
  <2>1. pc[t] = "run"
    BY <1>4 DEF StopOk, StopTimeout, ResetFailed, Goto, Leave
  <2>2. LockInv'
    BY <1>4, <2>1 DEF Goto, LockInv, NoLeakedLock, Locked, InCall, Key, Mutex, ThreadInv
  <2>3. RestFacts'
    BY <1>2, <1>4, <2>2 DEF StopOk, StopTimeout, ResetFailed, RestFacts, Br!BreakerTypeOK
  <2> QED
    BY <1>1, <2>3, Assemble
<1> QED
  BY <1>3, <1>4 DEF StopOk, StopTimeout, ResetFailed

LEMMA SettlePreserves ==
  ASSUME IInv, NEW t \in Thread, Settle(t)
  PROVE  IInv'
<1> USE ThreadAssumption DEF IInv, TypeOK, envVars, monVars, Settle
<1>0. cur[t] \in Unit /\ pc[t] \notin {"idle", "next", "run", "reset"}
  BY DEF ThreadInv
<1>1. ThreadFacts'
  BY <1>0, LeaveFacts
<1>2. Br!BreakerTypeOK'
  BY <1>0, FailureType, ResetType
<1>3. LockInv'
  BY <1>0 DEF Leave, LockInv, NoLeakedLock, Locked, InCall, Key, Mutex, ThreadInv
<1> QED
  BY <1>1, <1>2, <1>3, Assemble DEF RestFacts

LEMMA StepPreserves ==
  ASSUME IInv, NEW t \in Thread, Step(t)
  PROVE  IInv'
BY LoopPreserves, ChecksPreserve, IssuePreserves, StartEndsPreserve,
   StopEndsPreserve, SettlePreserves DEF Step

LEMMA MonitorPreserves ==
  ASSUME IInv, Monitor
  PROVE  IInv'
<1> USE ThreadAssumption DEF IInv, TypeOK, envVars, threadVars
<1>1. CASE MonTick
  BY <1>1 DEF MonTick, ThreadInv, LockInv, NoLeakedLock, Locked, InCall, Key, Mutex,
     RestartBookkeeping, Br!BreakerTypeOK
<1>2. ASSUME NEW u \in Unit, MonHealthy(u) PROVE IInv'
  BY <1>2, ResetType DEF MonHealthy, ThreadInv, LockInv, NoLeakedLock, Locked,
     InCall, Key, Mutex, RestartBookkeeping
<1>3. ASSUME NEW u \in Unit, MonLook(u) \/ MonSkip(u) \/ MonDrop(u) PROVE IInv'
  BY <1>3 DEF MonLook, MonSkip, MonDrop, ThreadInv, LockInv, NoLeakedLock, Locked,
     InCall, Key, Mutex, RestartBookkeeping, Br!BreakerTypeOK
<1>4. ASSUME NEW u \in Unit, NEW r \in Restarter, MonSpawn(u, r) PROVE IInv'
  <2> USE <1>4 DEF MonSpawn
  <2>0. r \in Thread /\ u \notin inFlight /\ u # None
    BY DEF Thread, MonWants
  <2>1. ThreadInv'
    BY <2>0 DEF ThreadInv
  <2>2. RestartBookkeeping'
    BY <2>0 DEF RestartBookkeeping, Thread
  <2>3. ThreadFacts'
    BY <2>0, <2>1, <2>2 DEF ThreadFacts, JobKind, Phase
  <2>4. LockInv'
    BY <2>0 DEF LockInv, NoLeakedLock, Locked, InCall, Key, Mutex, ThreadInv
  <2> QED
    BY <2>3, <2>4, Assemble DEF RestFacts, Br!BreakerTypeOK
<1> QED
  BY <1>1, <1>2, <1>3, <1>4 DEF Monitor, Visit

LEMMA EnvironmentPreserves ==
  ASSUME IInv, Environment
  PROVE  IInv'
<1> USE DEF IInv, TypeOK, threadVars, monVars, envVars, ThreadInv, LockInv,
        NoLeakedLock, Locked, InCall, Key, Mutex, RestartBookkeeping
<1>1. ASSUME NEW u \in Unit, Exit(u) \/ OrphanJobEnds(u) PROVE IInv'
  BY <1>1 DEF Exit, OrphanJobEnds, UnitState, Br!BreakerTypeOK
<1>2. ASSUME NEW u \in Unit, BackoffElapses(u) PROVE IInv'
  BY <1>2 DEF BackoffElapses, Br!WindowsEnd, Br!BreakerTypeOK
<1>3. ASSUME NEW m \in Mount, MountChange(m) PROVE IInv'
  BY <1>3 DEF MountChange, Br!BreakerTypeOK
<1>4. ASSUME NEW u \in Unit, Enable(u) PROVE IInv'
  BY <1>4, ResetType DEF Enable
<1>5. ASSUME NEW u \in Unit, Disable(u) PROVE IInv'
  BY <1>5 DEF Disable, Br!BreakerTypeOK
<1> QED
  BY <1>1, <1>2, <1>3, <1>4, <1>5 DEF Environment

LEMMA StepIInv == IInv /\ [Next]_vars => IInv'
<1> SUFFICES ASSUME IInv, [Next]_vars PROVE IInv'
  OBVIOUS
<1>1. CASE UNCHANGED vars
  BY <1>1 DEF vars, IInv, TypeOK, ThreadInv, LockInv, NoLeakedLock, Locked,
     InCall, Key, Mutex, RestartBookkeeping, Br!BreakerTypeOK
<1>2. CASE Next
  BY <1>2, RequestPreserves, StepPreserves, StartBootPreserves,
     MonitorPreserves, EnvironmentPreserves DEF Next
<1> QED
  BY <1>1, <1>2

LEMMA Invariance == Spec => []IInv
<1>1. Init => IInv
  BY InitIInv
<1>2. IInv /\ [Next]_vars => IInv'
  BY StepIInv
<1> QED
  BY <1>1, <1>2, PTL DEF Spec

-----------------------------------------------------------------------------
(* Every variable keeps its type.                                          *)
THEOREM TypeCorrect == Spec => []TypeOK
<1>1. IInv => TypeOK
  BY DEF IInv
<1> QED
  BY <1>1, Invariance, PTL

(* startUnit and stopUnit are never inside systemctl for one unit twice by *)
(* the same name: follows from the mutex of that name being held by        *)
(* whoever is inside.  Nothing keeps the bare and the full name apart.     *)
THEOREM Exclusion == Spec => []MutualExclusion
<1>1. IInv => MutualExclusion
  BY DEF IInv, LockInv, MutualExclusion, Key, Mutex
<1> QED
  BY <1>1, Invariance, PTL

(* The mutex is never left locked by a thread that has moved on.           *)
THEOREM LocksAreReturned == Spec => []NoLeakedLock
<1>1. IInv => NoLeakedLock
  BY DEF IInv, LockInv
<1> QED
  BY <1>1, Invariance, PTL

(* The monitor's in-flight set is exactly the units being restarted, each  *)
(* by one goroutine.                                                       *)
THEOREM Bookkeeping == Spec => []RestartBookkeeping
<1>1. IInv => RestartBookkeeping
  BY DEF IInv
<1> QED
  BY <1>1, Invariance, PTL

-----------------------------------------------------------------------------
(* A unit that is down by the user's will, with no start left over.        *)
QuietlyStopped(u) ==
  /\ Policy[u] # "always" /\ u \in userStopped /\ u \in userStopped'
  /\ Quiet(u) /\ ~StartRequested(u)

LEMMA QuietUnderRequests ==
  ASSUME IInv, NEW u \in Unit, QuietlyStopped(u),
         (\E h \in Handler : Request(h)) \/ StartBoot
  PROVE  Quiet(u)'
<1> USE ThreadAssumption DEF IInv, TypeOK, QuietlyStopped, Quiet, StartPending,
        Begin, StartJob, envVars, monVars, Down
<1>1. ASSUME NEW h \in Handler, NEW S \in Targets, RequestStart(h, S) PROVE Quiet(u)'
  BY <1>1 DEF RequestStart, StartRequested, ThreadInv, Thread
<1>2. ASSUME NEW h \in Handler, NEW S \in Targets, RequestStop(h, S) PROVE Quiet(u)'
  BY <1>2 DEF RequestStop, ThreadInv, Thread
<1>3. ASSUME NEW h \in Handler, NEW v \in Unit, RequestRestart(h, v) PROVE Quiet(u)'
  BY <1>3 DEF RequestRestart, StartRequested, ThreadInv, Thread
<1>4. ASSUME NEW h \in Handler, RequestVerify(h) PROVE Quiet(u)'
  BY <1>4 DEF RequestVerify, ThreadInv, Thread
<1>5. CASE StartBoot
  BY <1>5 DEF StartBoot, ThreadInv, Thread
<1> QED
  BY <1>1, <1>2, <1>3, <1>4, <1>5 DEF Request

LEMMA QuietUnderSteps ==
  ASSUME IInv, NEW u \in Unit, QuietlyStopped(u), NEW t \in Thread, Step(t)
  PROVE  Quiet(u)'
<1> USE ThreadAssumption DEF IInv, TypeOK, QuietlyStopped, Quiet, StartPending,
        StartJob, envVars, monVars, Down, Leave, Goto
<1>1. ASSUME NEW v \in Unit, Pick(t, v) PROVE Quiet(u)'
  BY <1>1 DEF Pick, ThreadInv
<1>2. CASE Finish(t)
  BY <1>2 DEF Finish, ThreadInv
<1>3. CASE Check(t)
  BY <1>3 DEF Check, ThreadInv
<1>4. CASE WaitDeps(t) \/ CheckDeps(t) \/ CheckDepsAgain(t)
  BY <1>4 DEF WaitDeps, CheckDeps, CheckDepsAgain, ThreadInv
<1>5. CASE Issue(t)
  <2>1. cur[t] = u => job[t] \notin StartJob
    BY <1>5 DEF Issue
  <2>2. sysd'[u] \in Down
    BY <1>5, <2>1 DEF Issue, Issued, ThreadInv
  <2> QED
    BY <1>5, <2>2 DEF Issue, ThreadInv
<1>6. CASE StartOk(t)
  BY <1>6 DEF StartOk, ThreadInv
<1>7. CASE StartErr(t)
  BY <1>7 DEF StartErr, ThreadInv
<1>8. CASE StopOk(t)
  BY <1>8 DEF StopOk, StopJob, ThreadInv
<1>9. CASE StopTimeout(t) \/ ResetFailed(t)
  BY <1>9 DEF StopTimeout, ResetFailed, StopJob, ThreadInv
<1>10. CASE Settle(t)
  BY <1>10 DEF Settle, ThreadInv
<1> QED
  BY <1>1, <1>2, <1>3, <1>4, <1>5, <1>6, <1>7, <1>8, <1>9, <1>10 DEF Step

LEMMA QuietUnderRest ==
  ASSUME IInv, NEW u \in Unit, QuietlyStopped(u),
         Monitor \/ Environment \/ UNCHANGED vars
  PROVE  Quiet(u)'
<1> USE ThreadAssumption DEF IInv, TypeOK, QuietlyStopped, Quiet, StartPending,
        StartJob, threadVars, envVars, monVars, Down
<1>1. CASE MonTick \/ UNCHANGED vars
  BY <1>1 DEF MonTick, vars
<1>2. ASSUME NEW v \in Unit, MonHealthy(v) \/ MonSkip(v) \/ MonDrop(v) PROVE Quiet(u)'
  BY <1>2 DEF MonHealthy, MonSkip, MonDrop
<1>3. ASSUME NEW v \in Unit, NEW r \in Restarter, MonSpawn(v, r) PROVE Quiet(u)'
  <2>1. v # u
    BY <1>3 DEF MonSpawn
  <2> QED
    BY <1>3, <2>1 DEF MonSpawn, ThreadInv, Thread
<1>7. ASSUME NEW v \in Unit, MonLook(v) PROVE Quiet(u)'
  <2>1. v # u
    BY <1>7 DEF MonLook, PolicyAllows
  <2> QED
    BY <1>7, <2>1 DEF MonLook
<1>4. ASSUME NEW v \in Unit, Exit(v) \/ OrphanJobEnds(v) PROVE Quiet(u)'
  BY <1>4 DEF Exit, OrphanJobEnds
<1>5. CASE \E v \in Unit : BackoffElapses(v) \/ Enable(v) \/ Disable(v)
  BY <1>5 DEF BackoffElapses, Enable, Disable
<1>6. CASE \E m \in Mount : MountChange(m)
  BY <1>6 DEF MountChange
<1> QED
  BY <1>1, <1>2, <1>3, <1>4, <1>5, <1>6, <1>7 DEF Monitor, Visit, Environment

(* A unit the user stopped by its full name stays down while the stop      *)
(* stands and no request to start it comes, once nothing that would start  *)
(* it is left over.                                                        *)
THEOREM StopKept == Spec => StopIsKept
<1>1. IInv /\ [Next]_vars =>
        [\A u \in Unit :
           /\ Policy[u] # "always" /\ u \in userStopped /\ u \in userStopped'
           /\ Quiet(u) /\ ~StartRequested(u)
           => Quiet(u)']_vars
  BY QuietUnderRequests, QuietUnderSteps, QuietUnderRest DEF Next, QuietlyStopped
<1> QED
  BY <1>1, Invariance, PTL DEF Spec, StopIsKept

-----------------------------------------------------------------------------
(* Only boot waits for dependencies to appear, and only boot and restart   *)
(* goroutines look at them before their delay.                             *)
PhaseInv ==
  \A t \in Thread :
    /\ pc[t] = "wait" => job[t] = "boot"
    /\ pc[t] = "deps" => job[t] \in {"boot", "recover"}

LEMMA PhasePreserved == IInv /\ PhaseInv /\ [Next]_vars => PhaseInv'
<1> SUFFICES ASSUME IInv, PhaseInv, [Next]_vars PROVE PhaseInv'
  OBVIOUS
<1> USE ThreadAssumption DEF IInv, TypeOK, PhaseInv, threadVars
<1>1. ASSUME NEW h \in Handler, Request(h) PROVE PhaseInv'
  <2>1. \E j \in JobKind : Begin(h, j, todo'[h])
    BY <1>1 DEF Request, RequestStart, RequestStop, RequestRestart, RequestVerify,
       Begin, Thread, JobKind
  <2> QED
    BY <2>1 DEF Begin, Thread
<1>2. CASE StartBoot
  BY <1>2 DEF StartBoot, Begin, Thread
<1>3. ASSUME NEW t \in Thread, Step(t) PROVE PhaseInv'
  <2>1. ASSUME NEW u \in Unit, Pick(t, u) PROVE PhaseInv'
    BY <2>1 DEF Pick, FirstPhase, ThreadInv
  <2>2. CASE Finish(t)
    BY <2>2 DEF Finish
  <2>3. CASE Check(t) \/ WaitDeps(t) \/ CheckDeps(t) \/ CheckDepsAgain(t)
    BY <2>3 DEF Check, WaitDeps, CheckDeps, CheckDepsAgain, Goto, Leave
  <2>4. CASE Issue(t) \/ StartOk(t) \/ StartErr(t)
    BY <2>4 DEF Issue, StartOk, StartErr, Goto, Leave
  <2>5. CASE StopOk(t) \/ StopTimeout(t) \/ ResetFailed(t) \/ Settle(t)
    BY <2>5 DEF StopOk, StopTimeout, ResetFailed, Settle, Goto, Leave
  <2> QED
    BY <1>3, <2>1, <2>2, <2>3, <2>4, <2>5 DEF Step
<1>4. CASE Monitor
  BY <1>4 DEF Monitor, Visit, MonTick, MonHealthy, MonLook, MonSkip, MonDrop,
     MonSpawn, Thread
<1>5. CASE Environment \/ UNCHANGED vars
  BY <1>5 DEF Environment, Exit, OrphanJobEnds, BackoffElapses, MountChange,
     Enable, Disable, vars
<1> QED
  BY <1>1, <1>2, <1>3, <1>4, <1>5 DEF Next

LEMMA PhaseInvariance == Spec => [](IInv /\ PhaseInv)
<1>1. Init => IInv /\ PhaseInv
  BY InitIInv, ThreadAssumption DEF Init, PhaseInv, Thread
<1>2. (IInv /\ PhaseInv) /\ [Next]_vars => (IInv /\ PhaseInv)'
  BY StepIInv, PhasePreserved
<1> QED
  BY <1>1, <1>2, PTL DEF Spec

(* A thread whose start of the unit is past the validation of its mounts   *)
(* was so already, or goes by a request that validates none.               *)
NoneValidated(u) == (Validated(u) \ Unvalidated)' \subseteq Validated(u)

LEMMA ValidationUnderSteps ==
  ASSUME IInv, PhaseInv, NEW u \in Unit, ~CheckConstraints(u),
         NEW t \in Thread, Step(t)
  PROVE  NoneValidated(u)
<1> USE ThreadAssumption DEF IInv, TypeOK, NoneValidated, Validated, Unvalidated
<1>1. ASSUME NEW v \in Unit, Pick(t, v) PROVE NoneValidated(u)
  BY <1>1 DEF Pick, FirstPhase, ThreadInv
<1>2. CASE Finish(t)
  BY <1>2 DEF Finish
<1>3. CASE Check(t)
  BY <1>3 DEF Check, Passes, Goto, Leave
<1>4. CASE WaitDeps(t) \/ CheckDeps(t) \/ CheckDepsAgain(t)
  BY <1>4 DEF WaitDeps, CheckDeps, CheckDepsAgain, Goto, Leave, PhaseInv
<1>5. CASE Issue(t) \/ StartOk(t) \/ StartErr(t)
  BY <1>5 DEF Issue, StartOk, StartErr, Goto, Leave
<1>6. CASE StopOk(t) \/ StopTimeout(t) \/ ResetFailed(t) \/ Settle(t)
  BY <1>6 DEF StopOk, StopTimeout, ResetFailed, Settle, Goto, Leave
<1> QED
  BY <1>1, <1>2, <1>3, <1>4, <1>5, <1>6 DEF Step

LEMMA ValidationUnderNext ==
  ASSUME IInv, PhaseInv, [Next]_vars, NEW u \in Unit, ~CheckConstraints(u)
  PROVE  NoneValidated(u)
<1> USE ThreadAssumption DEF IInv, TypeOK, NoneValidated, Validated, Unvalidated,
        threadVars
<1>1. ASSUME NEW h \in Handler, Request(h) PROVE NoneValidated(u)
  <2>1. \E j \in JobKind : Begin(h, j, todo'[h])
    BY <1>1 DEF Request, RequestStart, RequestStop, RequestRestart, RequestVerify,
       Begin, Thread, JobKind
  <2>2. bare \subseteq bare' /\ job[h] = "none"
    BY <1>1 DEF Request, RequestStart, RequestStop, RequestRestart, RequestVerify,
       ByBareName
  <2>3. pc'[h] = "next" /\ cur' = cur
        /\ \A x \in Thread \ {h} : pc'[x] = pc[x] /\ job'[x] = job[x]
    BY <2>1 DEF Begin, Thread
  <2> QED
    BY <2>2, <2>3 DEF Thread
<1>2. CASE StartBoot
  BY <1>2 DEF StartBoot, Begin, ThreadInv, Thread
<1>3. CASE MonTick \/ \E v \in Unit :
             MonHealthy(v) \/ MonLook(v) \/ MonSkip(v) \/ MonDrop(v)
  BY <1>3 DEF MonTick, MonHealthy, MonLook, MonSkip, MonDrop
<1>4. ASSUME NEW v \in Unit, NEW r \in Restarter, MonSpawn(v, r)
      PROVE  NoneValidated(u)
  <2>1. v # u
    BY <1>4 DEF MonSpawn, MonWants
  <2> QED
    BY <1>4, <2>1 DEF MonSpawn, Thread
<1>5. CASE Environment \/ UNCHANGED vars
  BY <1>5 DEF Environment, Exit, OrphanJobEnds, BackoffElapses, MountChange,
     Enable, Disable, vars
<1> QED
  BY <1>1, <1>2, <1>3, <1>4, <1>5, ValidationUnderSteps DEF Next, Monitor, Visit

(* Boot, the monitor and POST /api/start by a service's full name let no   *)
(* new start of it through while a mount it requires is missing.           *)
THEOREM MountsChecked == Spec => MountsAreChecked
<1>1. (IInv /\ PhaseInv) /\ [Next]_vars =>
        [\A u \in Unit :
           ~CheckConstraints(u) /\ ~CheckConstraints(u)'
           => (Validated(u) \ Unvalidated)' \subseteq Validated(u)]_vars
  BY ValidationUnderNext DEF NoneValidated
<1> QED
  BY <1>1, PhaseInvariance, PTL DEF Spec, MountsAreChecked
-----------------------------------------------------------------------------
(* Waiting for a mutex.                                                    *)

(* A goroutine that waits for the mutex of a unit holds none itself, and   *)
(* the one it waits for is inside systemctl, where it waits for nobody.    *)
WaitsAreShort ==
  \A t \in Thread : pc[t] = "lock" =>
    /\ \A k \in Mutex : lock[k] # t
    /\ lock[Key(t)] # None =>
         /\ lock[Key(t)] \in Thread \ {t} /\ cur[lock[Key(t)]] = cur[t]
         /\ pc[lock[Key(t)]] \in {"run", "reset"}

(* No goroutine holds one mutex of startUnit and stopUnit while it waits   *)
(* for another: they cannot wait for each other in a circle.               *)
THEOREM NobodyHoldsAndWaits == Spec => []WaitsAreShort
<1>1. ASSUME IInv PROVE WaitsAreShort
  <2> SUFFICES ASSUME NEW t \in Thread, pc[t] = "lock"
               PROVE  /\ \A k \in Mutex : lock[k] # t
                      /\ lock[Key(t)] # None =>
                           /\ lock[Key(t)] \in Thread \ {t}
                           /\ cur[lock[Key(t)]] = cur[t]
                           /\ pc[lock[Key(t)]] \in {"run", "reset"}
    BY DEF WaitsAreShort
  <2>1. t # None /\ Key(t) \in Mutex
    BY <1>1, ThreadAssumption DEF IInv, TypeOK, ThreadInv, Key, Mutex
  <2>2. \A k \in Mutex : lock[k] \in Thread \cup {None}
    BY <1>1 DEF IInv, TypeOK
  <2>3. \A k \in Mutex : lock[k] # None =>
          pc[lock[k]] \in {"run", "reset"} /\ Key(lock[k]) = k
    BY <1>1 DEF IInv, LockInv, NoLeakedLock, Locked, InCall
  <2>4. \A x \in Thread : Key(x) = Key(t) => cur[x] = cur[t]
    BY DEF Key, Mutex
  <2> QED
    BY <2>1, <2>2, <2>3, <2>4
<1> QED
  BY <1>1, Invariance, PTL

-----------------------------------------------------------------------------
(* The circuit breaker as the supervisor uses it.                          *)

LEMMA BreakerUnderSteps ==
  ASSUME IInv, NEW t \in Thread, Step(t)
  PROVE  \/ UNCHANGED Br!breakerVars
         \/ \E u \in Unit : Br!RecordFailure(u) \/ Br!Reset(u)
<1>1. ASSUME pc[t] \in {"run", "settle"} PROVE cur[t] \in Unit
  BY <1>1 DEF IInv, TypeOK, ThreadInv
<1>2. CASE StartErr(t)
  <2>1. cur[t] \in Unit
    BY <1>1, <1>2 DEF StartErr
  <2>2. UNCHANGED <<fails, open>> \/ Br!RecordFailure(cur[t])
    BY <1>2 DEF StartErr, CountFailure
  <2> QED
    BY <2>1, <2>2 DEF Br!breakerVars
<1>3. CASE Settle(t)
  <2>1. cur[t] \in Unit
    BY <1>1, <1>3 DEF Settle
  <2>2. Br!Reset(cur[t]) \/ Br!RecordFailure(cur[t])
    BY <1>3 DEF Settle
  <2> QED
    BY <2>1, <2>2
<1>4. CASE ~StartErr(t) /\ ~Settle(t)
  BY <1>4 DEF Step, Br!breakerVars, Pick, Finish, Check, WaitDeps, CheckDeps,
     CheckDepsAgain, Issue, StartOk, StopOk, StopTimeout, ResetFailed
<1> QED
  BY <1>2, <1>3, <1>4

LEMMA BreakerUnderRest ==
  ASSUME IInv, \/ \E h \in Handler : Request(h)
               \/ StartBoot \/ Monitor \/ Environment
  PROVE  Br!BreakerNext \/ UNCHANGED Br!breakerVars
<1> USE DEF Br!breakerVars
<1>1. CASE StartBoot \/ \E h \in Handler : Request(h)
  BY <1>1 DEF StartBoot, Request, RequestStart, RequestStop, RequestRestart, RequestVerify
<1>2. CASE Monitor
  BY <1>2 DEF Monitor, Visit, MonTick, MonHealthy, MonLook, MonSkip, MonDrop,
     MonSpawn, Br!BreakerNext
<1>3. ASSUME NEW u \in Unit, Exit(u) \/ OrphanJobEnds(u) \/ Disable(u)
      PROVE  UNCHANGED Br!breakerVars
  BY <1>3 DEF Exit, OrphanJobEnds, Disable
<1>4. ASSUME NEW u \in Unit, BackoffElapses(u) PROVE Br!BreakerNext
  BY <1>4 DEF BackoffElapses, Br!BreakerNext
<1>5. ASSUME NEW u \in Unit, Enable(u) PROVE Br!BreakerNext
  BY <1>5 DEF Enable, Br!BreakerNext
<1>6. ASSUME NEW m \in Mount, MountChange(m) PROVE UNCHANGED Br!breakerVars
  BY <1>6 DEF MountChange
<1> QED
  BY <1>1, <1>2, <1>3, <1>4, <1>5, <1>6 DEF Environment

(* The monitor, its restart goroutines and the handlers together use the   *)
(* breaker as Breaker says, which CircuitBreaker implements: counters      *)
(* saturate, a reset takes the window down with the counter, and no window *)
(* opens but by a failure.                                                 *)
THEOREM BreakerIsUsed == Spec => Br!BreakerSpec
<1>1. Init => Br!BreakerInit
  BY DEF Init
<1>2. IInv /\ [Next]_vars => [Br!BreakerNext]_(Br!breakerVars)
  <2> SUFFICES ASSUME IInv, [Next]_vars
               PROVE  Br!BreakerNext \/ UNCHANGED Br!breakerVars
    OBVIOUS
  <2>1. CASE UNCHANGED vars
    BY <2>1 DEF vars, Br!breakerVars
  <2>2. ASSUME NEW t \in Thread, Step(t)
        PROVE  Br!BreakerNext \/ UNCHANGED Br!breakerVars
    BY <2>2, BreakerUnderSteps DEF Br!BreakerNext
  <2> QED
    BY <2>1, <2>2, BreakerUnderRest DEF Next
<1> QED
  BY <1>1, <1>2, Invariance, PTL DEF Spec, Br!BreakerSpec
=============================================================================
