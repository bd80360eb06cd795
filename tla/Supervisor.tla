----------------------------- MODULE Supervisor -----------------------------
(***************************************************************************)
(* The supervision of systemd units by homelab-daemon: the monitor loop,   *)
(* the restart goroutines it spawns, the boot sequence, the verification   *)
(* of running services and the HTTP handlers that start, stop and restart  *)
(* units, all of them sharing the per-unit mutex, the circuit breaker, the *)
(* user-stopped flags and systemd itself.                                  *)
(***************************************************************************)
EXTENDS Naturals

CONSTANTS
  Unit,           \* services of the configuration, by the names it gives them
  Bare,           \* those that clients also name without ".service"
  Mount,          \* mount points services require
  Policy,         \* restart policy of each unit
  DependsOn,      \* depends_on of each unit
  RequiresMounts, \* requires_mount of each unit
  Rank,           \* boot order of each unit
  Handler,        \* goroutines serving HTTP requests
  Restarter,      \* goroutines the monitor can have running
  Main,           \* goroutine of the boot sequence
  None,           \* no unit, no thread
  Requests,       \* kinds of request the clients make
  Moves,          \* mounts that can come and go
  MaxFails, FirstOpen

Thread == Handler \cup Restarter \cup {Main}

ASSUME ThreadAssumption ==
  /\ Handler \cap Restarter = {}
  /\ Main \notin Handler \cup Restarter
  /\ None \notin Thread \cup Unit

ASSUME NameAssumption == Bare \subseteq Unit

ASSUME ConfigAssumption ==
  /\ Policy \in [Unit -> {"no", "always", "unless-stopped", "on-failure"}]
  /\ DependsOn \in [Unit -> SUBSET Unit]
  /\ RequiresMounts \in [Unit -> SUBSET Mount]
  /\ Rank \in [Unit -> Nat]
  /\ Requests \subseteq {"start", "stop", "restart", "verify", "config"}
  /\ Moves \subseteq Mount
  /\ MaxFails \in Nat \ {0} /\ FirstOpen \in 1 .. MaxFails

VARIABLES
  sysd,         \* state of each unit in systemd
  mounted,      \* mount points present in /proc/mounts
  enabled,      \* units the configuration enables
  userStopped,  \* units the user stopped
  fails, open,  \* circuit breaker
  inFlight,     \* units with a restart goroutine, as the monitor records it
  lock,         \* holder of each mutex, one for each name of a unit
  job,          \* what each thread is doing
  cur,          \* the unit it is doing it to
  bare,         \* handlers that were given the unit's bare name
  pc,           \* where it is
  todo,         \* the units it still has to visit
  monTodo,      \* units the monitor has still to visit in this tick
  monAt,        \* the unit it is looking at, its flag already read
  snap          \* units the monitor saw active at the start of the tick

envVars    == <<mounted, enabled>>
threadVars == <<job, cur, bare, pc, todo>>
monVars    == <<monTodo, monAt, snap>>
vars == <<sysd, mounted, enabled, userStopped, fails, open, inFlight, lock,
          job, cur, bare, pc, todo, monTodo, monAt, snap>>

Br == INSTANCE Breaker

-----------------------------------------------------------------------------
(* systemd: "exited" is inactive with a non-zero ExecMainStatus.           *)

UnitState == {"inactive", "exited", "activating", "active", "deactivating", "failed"}
Down == {"inactive", "exited", "failed"}

JobKind == {"none", "start", "stop", "restart", "verify", "boot", "recover"}
Phase == {"idle", "next", "check", "wait", "deps", "deps2", "lock", "run",
          "reset", "settle"}

(* One mutex for each name a unit goes by.                                 *)
Mutex == Unit \X {"bare", "full"}

StartJob == {"start", "restart", "boot", "recover"}
StopJob  == {"stop", "verify"}

TypeOK ==
  /\ sysd \in [Unit -> UnitState]
  /\ mounted \subseteq Mount
  /\ enabled \subseteq Unit
  /\ userStopped \subseteq Unit
  /\ Br!BreakerTypeOK
  /\ inFlight \subseteq Unit
  /\ lock \in [Mutex -> Thread \cup {None}]
  /\ job \in [Thread -> JobKind]
  /\ cur \in [Thread -> Unit \cup {None}]
  /\ bare \subseteq Handler
  /\ pc \in [Thread -> Phase]
  /\ todo \in [Thread -> SUBSET Unit]
  /\ monTodo \subseteq Unit
  /\ monAt \in Unit \cup {None}
  /\ snap \subseteq Unit

IsActive(u) == sysd[u] = "active"
DepsActive(u) == \A d \in DependsOn[u] : IsActive(d)
CheckConstraints(u) == RequiresMounts[u] \subseteq mounted
ExitedWithFailure(u) == sysd[u] \in {"exited", "failed"}

(* systemctl is running for the unit on behalf of a thread.                *)
InCall(t) == pc[t] \in {"run", "reset"}
Starting(t, u) == pc[t] = "run" /\ job[t] \in StartJob /\ cur[t] = u
Stopping(t, u) == pc[t] = "run" /\ job[t] \in StopJob /\ cur[t] = u

(* The mutex a thread goes by: lockUnit is given the name as it came, so   *)
(* "foo" and "foo.service" have a mutex each.                              *)
Key(t) == <<cur[t], IF t \in bare THEN "bare" ELSE "full">>

\* Mutant: the user-stopped flag is never consulted.
PolicyAllowsAnyway(u) == Policy[u] # "no"

(* What shouldRestart decides at once; for on-failure it then asks systemd *)
(* how the last run ended.                                                 *)
PolicyAllows(u) ==
  Policy[u] = "always" \/ (Policy[u] # "no" /\ u \notin userStopped)

RunWarrants(u) == Policy[u] = "on-failure" => ExitedWithFailure(u)

-----------------------------------------------------------------------------
(* The daemon starts with nothing known about failures; main first         *)
(* verifies what is running (after auto-mount, here part of mounted).      *)

Init ==
  /\ sysd \in [Unit -> UnitState]
  /\ mounted \in {Mount, Mount \ Moves}
  /\ enabled \in IF "config" \in Requests THEN SUBSET Unit ELSE {Unit}
  /\ userStopped \in SUBSET Unit
  /\ Br!BreakerInit
  /\ inFlight = {}
  /\ lock = [k \in Mutex |-> None]
  /\ job = [t \in Thread |-> IF t = Main THEN "verify" ELSE "none"]
  /\ cur = [t \in Thread |-> None]
  /\ bare = {}
  /\ pc = [t \in Thread |-> IF t = Main THEN "next" ELSE "idle"]
  /\ todo = [t \in Thread |-> IF t = Main THEN Unit ELSE {}]
  /\ monTodo = {}
  /\ monAt = None
  /\ snap = {}

-----------------------------------------------------------------------------
(* Moving a thread about.                                                  *)

Goto(t, p) ==
  /\ pc' = [pc EXCEPT ![t] = p]
  /\ UNCHANGED <<job, cur, bare, todo, inFlight>>

Begin(t, j, S) ==
  /\ job' = [job EXCEPT ![t] = j]
  /\ todo' = [todo EXCEPT ![t] = S]
  /\ pc' = [pc EXCEPT ![t] = "next"]
  /\ UNCHANGED <<cur, inFlight>>

\* Mutant: a restart goroutine returns without its deferred Delete.
LeaveInFlight(t) ==
  /\ cur' = [cur EXCEPT ![t] = None]
  /\ IF job[t] = "recover"
     THEN /\ pc' = [pc EXCEPT ![t] = "idle"]
          /\ job' = [job EXCEPT ![t] = "none"]
     ELSE /\ pc' = [pc EXCEPT ![t] = "next"]
          /\ UNCHANGED job
  /\ UNCHANGED <<bare, todo, inFlight>>

(* A restart goroutine returns, its deferred Delete included; every other  *)
(* thread goes on with its next unit.                                      *)
Leave(t) ==
  /\ cur' = [cur EXCEPT ![t] = None]
  /\ IF job[t] = "recover"
     THEN /\ pc' = [pc EXCEPT ![t] = "idle"]
          /\ job' = [job EXCEPT ![t] = "none"]
          /\ inFlight' = inFlight \ {cur[t]}
     ELSE /\ pc' = [pc EXCEPT ![t] = "next"]
          /\ UNCHANGED <<job, inFlight>>
  /\ UNCHANGED <<bare, todo>>

Unlock(t) ==
  lock' = IF job[t] = "restart" THEN lock ELSE [lock EXCEPT ![Key(t)] = None]

CountFailure(t) ==
  IF job[t] = "recover" THEN Br!RecordFailure(cur[t]) ELSE UNCHANGED <<fails, open>>

-----------------------------------------------------------------------------
(* HTTP requests: one unit, or every enabled one (start-all, stop-all).    *)
(* isManaged lets a bare name through and the handler goes on with it as   *)
(* it is: the flag it sets or clears is that of the bare name, which       *)
(* nothing looks up, and the unit's own flag stays.                        *)

Targets == {{u} : u \in Unit} \cup {enabled}

BareTargets == {{u} : u \in Bare}

ByBareName(h, S) ==
  /\ S \in BareTargets
  /\ bare' = bare \cup {h}
  /\ UNCHANGED userStopped

RequestStart(h, S) ==
  /\ "start" \in Requests /\ job[h] = "none"
  /\ \/ userStopped' = userStopped \ S /\ UNCHANGED bare
     \/ ByBareName(h, S)
  /\ Begin(h, "start", S)
  /\ UNCHANGED <<sysd, fails, open, lock, envVars, monVars>>

RequestStop(h, S) ==
  /\ "stop" \in Requests /\ job[h] = "none"
  /\ \/ userStopped' = userStopped \cup S /\ UNCHANGED bare
     \/ ByBareName(h, S)
  /\ Begin(h, "stop", S)
  /\ UNCHANGED <<sysd, fails, open, lock, envVars, monVars>>

RequestRestart(h, u) ==
  /\ "restart" \in Requests /\ job[h] = "none"
  /\ \/ userStopped' = userStopped \ {u} /\ UNCHANGED bare
     \/ ByBareName(h, {u})
  /\ Begin(h, "restart", {u})
  /\ UNCHANGED <<sysd, fails, open, lock, envVars, monVars>>

(* POST /api/reload takes over what the file says and ends with            *)
(* verifyRunningServices.                                                  *)
RequestVerify(h) ==
  /\ "verify" \in Requests /\ job[h] = "none"
  /\ enabled' \in IF "config" \in Requests THEN SUBSET Unit ELSE {enabled}
  /\ Begin(h, "verify", Unit)
  /\ UNCHANGED <<sysd, mounted, userStopped, fails, open, lock, bare, monVars>>

(* PATCH /api/config/{unit} with "enabled".                                *)
Enable(u) ==
  /\ "config" \in Requests
  /\ enabled' = enabled \cup {u}
  /\ userStopped' = userStopped \ {u}
  /\ Br!Reset(u)
  /\ UNCHANGED <<sysd, mounted, inFlight, lock, threadVars, monVars>>

Disable(u) ==
  /\ "config" \in Requests
  /\ enabled' = enabled \ {u}
  /\ UNCHANGED <<sysd, mounted, userStopped, fails, open, inFlight, lock,
                 threadVars, monVars>>

-----------------------------------------------------------------------------
(* The loop over units of a handler, of verifyRunningServices or of boot.  *)

(* The service's mounts are looked up under the name that was given: with  *)
(* a bare name none is found, and none is checked.                         *)
FirstPhase(t) ==
  CASE job[t] = "verify" \/ (job[t] = "start" /\ t \notin bare) -> "check"
    [] job[t] = "boot" -> "wait"
    [] OTHER -> "lock"

(* Boot visits its units in order; the others in the configuration's.      *)
Pick(t, u) ==
  /\ pc[t] = "next" /\ u \in todo[t]
  /\ job[t] = "boot" => \A v \in todo[t] : Rank[u] <= Rank[v]
  /\ cur' = [cur EXCEPT ![t] = u]
  /\ todo' = [todo EXCEPT ![t] = @ \ {u}]
  /\ pc' = [pc EXCEPT ![t] = FirstPhase(t)]
  /\ UNCHANGED <<job, bare, inFlight, sysd, userStopped, fails, open, lock, envVars, monVars>>

Finish(t) ==
  /\ pc[t] = "next" /\ todo[t] = {}
  /\ job' = [job EXCEPT ![t] = "none"]
  /\ pc' = [pc EXCEPT ![t] = "idle"]
  /\ bare' = bare \ {t}
  /\ UNCHANGED <<cur, todo, inFlight, sysd, userStopped, fails, open, lock, envVars, monVars>>

\* Mutant: boot starts what the user had stopped.
StartBootAll ==
  /\ pc[Main] = "next" /\ todo[Main] = {} /\ job[Main] = "verify"
  /\ Begin(Main, "boot", enabled)
  /\ UNCHANGED <<sysd, userStopped, fails, open, lock, bare, envVars, monVars>>

(* First start of this kernel session: main goes on to boot the enabled    *)
(* units the user had not stopped.                                         *)
StartBoot ==
  /\ pc[Main] = "next" /\ todo[Main] = {} /\ job[Main] = "verify"
  /\ Begin(Main, "boot", enabled \ userStopped)
  /\ UNCHANGED <<sysd, userStopped, fails, open, lock, bare, envVars, monVars>>

Passes(t) ==
  IF job[t] = "verify"
  THEN cur[t] \in enabled /\ IsActive(cur[t]) /\ ~CheckConstraints(cur[t])
  ELSE CheckConstraints(cur[t])

Check(t) ==
  /\ pc[t] = "check"
  /\ IF Passes(t)
     THEN Goto(t, IF job[t] = "boot" THEN "deps2" ELSE "lock")
     ELSE Leave(t)
  /\ UNCHANGED <<sysd, userStopped, fails, open, lock, envVars, monVars>>

(* waitActive: every dependency shows up within two minutes, or not.       *)
WaitDeps(t) ==
  /\ pc[t] = "wait"
  /\ IF DepsActive(cur[t]) THEN Goto(t, "deps") ELSE Leave(t)
  /\ UNCHANGED <<sysd, userStopped, fails, open, lock, envVars, monVars>>
(* The first re-verification; for a restart goroutine the delay follows.   *)
CheckDeps(t) ==
  /\ pc[t] = "deps"
  /\ IF DepsActive(cur[t])
     THEN Goto(t, IF job[t] = "boot" THEN "check" ELSE "deps2")
     ELSE Leave(t)
  /\ UNCHANGED <<sysd, userStopped, fails, open, lock, envVars, monVars>>

(* After boot_delay or restart_delay the dependencies are all that is      *)
(* looked at again: not the user's stop, not the mounts.                   *)
CheckDepsAgain(t) ==
  /\ pc[t] = "deps2"
  /\ IF DepsActive(cur[t]) THEN Goto(t, "lock") ELSE Leave(t)
  /\ UNCHANGED <<sysd, userStopped, fails, open, lock, envVars, monVars>>

-----------------------------------------------------------------------------
(* startUnit, stopUnit and restartUnit around systemctl.                   *)

\* Mutant: the mutex is recorded but nobody waits for it.
AcquireAnyway(t) ==
  IF job[t] = "restart" THEN UNCHANGED lock ELSE lock' = [lock EXCEPT ![Key(t)] = t]

Acquire(t) ==
  IF job[t] = "restart"
  THEN UNCHANGED lock
  ELSE lock[Key(t)] = None /\ lock' = [lock EXCEPT ![Key(t)] = t]

(* A start job replaces a stop job of the unit in systemd, and conversely; *)
(* restart acts on a running unit, start does not.                         *)
Issued(j, s) ==
  IF j = "restart" \/ (j \in StartJob /\ s # "active") THEN "activating"
  ELSE IF j \in StopJob /\ s \notin Down THEN "deactivating" ELSE s

Issue(t) ==
  /\ pc[t] = "lock"
  /\ Acquire(t)
  /\ sysd' = [sysd EXCEPT ![cur[t]] = Issued(job[t], @)]
  /\ Goto(t, "run")
  /\ UNCHANGED <<userStopped, fails, open, envVars, monVars>>

(* systemctl start returns 0.                                              *)
StartOk(t) ==
  /\ pc[t] = "run" /\ job[t] \in StartJob
  /\ sysd[cur[t]] \in {"activating", "active"}
  /\ sysd' = [sysd EXCEPT ![cur[t]] = "active"]
  /\ Unlock(t)
  /\ IF job[t] = "recover" THEN Goto(t, "settle") ELSE Leave(t)
  /\ UNCHANGED <<userStopped, fails, open, envVars, monVars>>

(* It fails, was cancelled by a stop job, or is killed after 30 s while    *)
(* systemd carries on with the job.                                        *)
StartErr(t) ==
  /\ pc[t] = "run" /\ job[t] \in StartJob
  /\ \/ sysd[cur[t]] = "activating" /\ sysd' = [sysd EXCEPT ![cur[t]] = "failed"]
     \/ sysd[cur[t]] # "active" /\ UNCHANGED sysd
  /\ Unlock(t)
  /\ CountFailure(t)
  /\ Leave(t)
  /\ UNCHANGED <<userStopped, envVars, monVars>>

(* systemctl stop returns; a unit that ends up failed is reset next.       *)
StopOk(t) ==
  /\ pc[t] = "run" /\ job[t] \in StopJob
  /\ \/ /\ sysd[cur[t]] = "deactivating"
        /\ \E s \in {"inactive", "failed"} : sysd' = [sysd EXCEPT ![cur[t]] = s]
     \/ sysd[cur[t]] # "deactivating" /\ UNCHANGED sysd
  /\ IF sysd'[cur[t]] = "failed"
     THEN Goto(t, "reset") /\ UNCHANGED lock
     ELSE Leave(t) /\ Unlock(t)
  /\ UNCHANGED <<userStopped, fails, open, envVars, monVars>>

\* Mutant: the error return of stopUnit keeps the mutex.
StopTimeoutLeaks(t) ==
  /\ pc[t] = "run" /\ job[t] \in StopJob
  /\ sysd[cur[t]] = "deactivating"
  /\ Leave(t)
  /\ UNCHANGED <<sysd, lock, userStopped, fails, open, envVars, monVars>>

(* Killed after 30 s: the stop job goes on without the lock.               *)
StopTimeout(t) ==
  /\ pc[t] = "run" /\ job[t] \in StopJob
  /\ sysd[cur[t]] = "deactivating"
  /\ Leave(t) /\ Unlock(t)
  /\ UNCHANGED <<sysd, userStopped, fails, open, envVars, monVars>>

\* Mutant: the reset-failed detour keeps the mutex.
ResetFailedLeaks(t) ==
  /\ pc[t] = "reset"
  /\ sysd' = [sysd EXCEPT ![cur[t]] = IF @ = "failed" THEN "exited" ELSE @]
  /\ Leave(t)
  /\ UNCHANGED <<lock, userStopped, fails, open, envVars, monVars>>

ResetFailed(t) ==
  /\ pc[t] = "reset"
  /\ sysd' = [sysd EXCEPT ![cur[t]] = IF @ = "failed" THEN "exited" ELSE @]
  /\ Leave(t) /\ Unlock(t)
  /\ UNCHANGED <<userStopped, fails, open, envVars, monVars>>

(* Ten seconds after its start succeeded the restart goroutine looks.      *)
Settle(t) ==
  /\ pc[t] = "settle"
  /\ IF IsActive(cur[t]) THEN Br!Reset(cur[t]) ELSE Br!RecordFailure(cur[t])
  /\ Leave(t)
  /\ UNCHANGED <<sysd, userStopped, lock, envVars, monVars>>

-----------------------------------------------------------------------------
(* The monitor: a snapshot of what is active, then one unit after another. *)

Watched(u) == u \in enabled /\ Policy[u] # "no"

MonTick ==
  /\ monTodo = {} /\ monAt = None
  /\ monTodo' = Unit
  /\ snap' = {u \in Unit : Watched(u) /\ IsActive(u)}
  /\ UNCHANGED <<sysd, userStopped, fails, open, inFlight, lock, envVars,
                 threadVars, monAt>>

MonHealthy(u) ==
  /\ u \in monTodo /\ monAt = None /\ Watched(u) /\ u \in snap
  /\ Br!Reset(u)
  /\ monTodo' = monTodo \ {u}
  /\ UNCHANGED <<sysd, userStopped, inFlight, lock, envVars, threadVars, monAt, snap>>

(* The policy and the user's stop are looked at; nothing later in the      *)
(* visit looks at them again.                                              *)
MonLook(u) ==
  /\ u \in monTodo /\ monAt = None /\ Watched(u) /\ u \notin snap
  /\ PolicyAllows(u)
  /\ monTodo' = monTodo \ {u}
  /\ monAt' = u
  /\ UNCHANGED <<sysd, userStopped, fails, open, inFlight, lock, envVars, threadVars, snap>>

MonSkip(u) ==
  /\ u \in monTodo /\ monAt = None
  /\ ~Watched(u) \/ (u \notin snap /\ ~PolicyAllows(u))
  /\ monTodo' = monTodo \ {u}
  /\ UNCHANGED <<sysd, userStopped, fails, open, inFlight, lock, envVars,
                 threadVars, monAt, snap>>

\* Mutant: the monitor does not check mounts.
MonWantsUnchecked(u) ==
  RunWarrants(u) /\ u \notin open /\ u \notin inFlight

\* Mutant: the monitor spawns a second goroutine for a unit in flight.
MonWantsTwice(u) ==
  RunWarrants(u) /\ u \notin open /\ CheckConstraints(u)

MonWants(u) ==
  RunWarrants(u) /\ u \notin open /\ CheckConstraints(u) /\ u \notin inFlight

MonSpawn(u, r) ==
  /\ monAt = u /\ MonWants(u)
  /\ job[r] = "none"
  /\ inFlight' = inFlight \cup {u}
  /\ job' = [job EXCEPT ![r] = "recover"]
  /\ cur' = [cur EXCEPT ![r] = u]
  /\ pc' = [pc EXCEPT ![r] = "deps"]
  /\ monAt' = None
  /\ UNCHANGED <<bare, todo, sysd, userStopped, fails, open, lock, envVars, monTodo, snap>>

MonDrop(u) ==
  /\ monAt = u /\ ~MonWants(u)
  /\ monAt' = None
  /\ UNCHANGED <<sysd, userStopped, fails, open, inFlight, lock, envVars,
                 threadVars, monTodo, snap>>

-----------------------------------------------------------------------------
(* The environment: services exit, jobs nobody waits for end, mounts come  *)
(* and go, backoff windows elapse.                                         *)

Exit(u) ==
  /\ sysd[u] = "active"
  /\ \E s \in {"inactive", "failed"} : sysd' = [sysd EXCEPT ![u] = s]
  /\ UNCHANGED <<userStopped, fails, open, inFlight, lock, envVars, threadVars, monVars>>

OrphanJobEnds(u) ==
  /\ \A t \in Thread : ~Starting(t, u) /\ ~Stopping(t, u)
  /\ \/ /\ sysd[u] = "activating"
        /\ \E s \in {"active", "failed"} : sysd' = [sysd EXCEPT ![u] = s]
     \/ /\ sysd[u] = "deactivating"
        /\ \E s \in {"inactive", "failed"} : sysd' = [sysd EXCEPT ![u] = s]
  /\ UNCHANGED <<userStopped, fails, open, inFlight, lock, envVars, threadVars, monVars>>

MountChange(m) ==
  /\ m \in Moves
  /\ mounted' = IF m \in mounted THEN mounted \ {m} ELSE mounted \cup {m}
  /\ UNCHANGED <<sysd, enabled, userStopped, fails, open, inFlight, lock, threadVars, monVars>>

BackoffElapses(u) ==
  /\ Br!WindowsEnd({u})
  /\ UNCHANGED <<sysd, userStopped, inFlight, lock, envVars, threadVars, monVars>>

-----------------------------------------------------------------------------
Request(h) ==
  \/ \E S \in Targets : RequestStart(h, S) \/ RequestStop(h, S)
  \/ \E u \in Unit : RequestRestart(h, u)
  \/ RequestVerify(h)

Step(t) ==
  \/ \E u \in Unit : Pick(t, u)
  \/ Finish(t) \/ Check(t) \/ WaitDeps(t) \/ CheckDeps(t) \/ CheckDepsAgain(t)
  \/ Issue(t) \/ StartOk(t) \/ StartErr(t) \/ StopOk(t) \/ StopTimeout(t)
  \/ ResetFailed(t) \/ Settle(t)

Visit(u) ==
  \/ MonHealthy(u) \/ MonLook(u) \/ MonSkip(u) \/ MonDrop(u)
  \/ \E r \in Restarter : MonSpawn(u, r)

Monitor == MonTick \/ \E u \in Unit : Visit(u)

Environment ==
  \/ \E u \in Unit : Exit(u) \/ OrphanJobEnds(u) \/ BackoffElapses(u)
  \/ \E m \in Mount : MountChange(m)
  \/ \E u \in Unit : Enable(u) \/ Disable(u)

Next ==
  \/ \E h \in Handler : Request(h)
  \/ \E t \in Thread : Step(t)
  \/ StartBoot
  \/ Monitor
  \/ Environment

Spec == Init /\ [][Next]_vars

(* Goroutines are scheduled, sync.Mutex hands the lock to a waiter that    *)
(* waited long enough, systemctl ends within its timeout, the ticker       *)
(* ticks and windows elapse.  Nothing is assumed of clients, of mounts or  *)
(* of services that exit.                                                  *)
Fairness ==
  /\ \A t \in Thread : WF_vars(Step(t)) /\ SF_vars(Issue(t))
  /\ WF_vars(MonTick) /\ \A u \in Unit : WF_vars(Visit(u))
  /\ \A u \in Unit : WF_vars(OrphanJobEnds(u)) /\ WF_vars(BackoffElapses(u))

FairSpec == Spec /\ Fairness

(* ... and a start that is tried again and again succeeds now and then.    *)
StartsSucceed ==
  \A r \in Restarter, u \in Unit : SF_vars(StartOk(r) /\ cur[r] = u)
HealthySpec == FairSpec /\ StartsSucceed

-----------------------------------------------------------------------------
(* Properties                                                              *)

Locked(t) == InCall(t) /\ job[t] # "restart"

(* The per-unit mutex does what it can: of the threads that start and stop *)
(* units through startUnit and stopUnit, two are inside systemctl for the  *)
(* same unit only when one goes by its bare name and the other by its full *)
(* name.  What the comment at monitor.go:104 says, concurrent calls on the *)
(* same unit are serialised, does not hold between the two names.          *)
MutualExclusion ==
  \A t1, t2 \in Thread :
    t1 # t2 /\ Locked(t1) /\ Locked(t2) /\ cur[t1] = cur[t2] =>
      \/ t1 \in bare /\ t2 \notin bare
      \/ t2 \in bare /\ t1 \notin bare

(* No path out of startUnit or stopUnit (success, error, timeout, the      *)
(* reset-failed detour) keeps the mutex: its holder is inside systemctl    *)
(* for that very unit, by that very name.                                  *)
NoLeakedLock ==
  \A k \in Mutex :
    lock[k] # None => Locked(lock[k]) /\ Key(lock[k]) = k

(* The monitor's inFlight set and the restart goroutines agree: one        *)
(* goroutine at most for a unit, and no unit marked in flight without one  *)
(* (it would never be restarted again).                                    *)
RestartBookkeeping ==
  /\ \A r1, r2 \in Restarter :
       r1 # r2 /\ job[r1] = "recover" /\ job[r2] = "recover" => cur[r1] # cur[r2]
  /\ inFlight = {cur[r] : r \in {q \in Restarter : job[q] = "recover"}}

(* Something may still start the unit: a thread, or the monitor, which     *)
(* looked at the user's flag and does not look again.                      *)
StartPending(u) ==
  \/ monAt = u
  \/ \E t \in Thread :
       /\ job[t] \in StartJob
       /\ u \in todo[t] \/ (cur[t] = u /\ pc[t] # "settle")

Quiet(u) == sysd[u] \in Down /\ ~StartPending(u)

(* A request of the user to start the unit arrives.                        *)
StartRequested(u) ==
  \E h \in Handler :
    job[h] = "none" /\ job'[h] \in {"start", "restart"} /\ u \in todo'[h]

(* A unit the user stopped by its full name, once it is down and nothing   *)
(* is left over that would start it, stays down until the user asks for a  *)
(* start: neither the monitor, nor boot, nor a reload brings it back while *)
(* the stop stands.  Not so in the code, and not claimed: units with the   *)
(* policy "always"; stops by a bare name (their flag is another one); what *)
(* was past the flag when the stop arrived, a visit of the monitor that    *)
(* waits for systemctl show included (StopBeatsRestart).                   *)
StopIsKept ==
  [][\A u \in Unit :
       /\ Policy[u] # "always" /\ u \in userStopped /\ u \in userStopped'
       /\ Quiet(u) /\ ~StartRequested(u)
       => Quiet(u)']_vars

(* Threads whose start of the service got past its validation of mounts.   *)
Validated(u) ==
  {t \in Thread :
    /\ cur[t] = u
    /\ \/ job[t] \in {"start", "boot"} /\ pc[t] \in {"deps2", "lock"}
       \/ job[t] = "recover" /\ pc[t] \in {"deps", "deps2", "lock"}
       \/ job[t] = "restart" /\ pc[t] = "lock"}

(* POST /api/restart, and POST /api/start by a bare name.                  *)
Unvalidated == bare \cup {t \in Thread : job[t] = "restart"}

(* While a mount the service requires is missing, neither boot nor the     *)
(* monitor nor POST /api/start by the service's full name lets a new start *)
(* of it through.  A restart and a start by the bare name do: monitor.go's *)
(* "single validation point used by boot, monitor, and the API" (line 170) *)
(* is not on their way.                                                    *)
MountsAreChecked ==
  [][\A u \in Unit :
       ~CheckConstraints(u) /\ ~CheckConstraints(u)'
       => (Validated(u) \ Unvalidated)' \subseteq Validated(u)]_vars

(* Some thread still has to stop the unit.                                 *)
StopPending(u) ==
  \E t \in Thread : job[t] = "stop" /\ (u \in todo[t] \/ cur[t] = u)

(* The monitor does not start a unit whose stop by the user has been       *)
(* carried out: what the per-unit mutex is said to prevent.                *)
StopBeatsRestart ==
  [][\A r \in Restarter, u \in Unit :
       /\ Policy[u] # "always" /\ u \in userStopped /\ ~StopPending(u)
       /\ Starting(r, u)'
       => Starting(r, u)]_vars

(* While an attempt to restart a unit has not settled, nothing but that    *)
(* attempt or a change of the configuration clears its failure counter:    *)
(* otherwise backoff never escalates.                                      *)
CounterSurvivesSettling ==
  [][\A r \in Restarter, u \in Unit :
       /\ pc[r] = "settle" /\ cur[r] = u /\ pc'[r] = "settle"
       /\ enabled' = enabled
       => fails'[u] >= fails[u]]_vars

(* Every handler answers, boot ends and no restart goroutine hangs:        *)
(* nobody waits for ever for the mutex or for systemd.                     *)
ThreadsFinish ==
  \A t \in Thread : job[t] # "none" ~> job[t] = "none"

Wanted(u) ==
  /\ u \in enabled /\ u \notin userStopped
  /\ CheckConstraints(u) /\ DepsActive(u)

(* A unit that is wanted for good (enabled, not stopped by the user, its   *)
(* mounts and its dependencies there) comes back however often it exits:   *)
(* no breaker window, in-flight mark or lock keeps the monitor from it.    *)
Recovers ==
  \A u \in Unit : Policy[u] \in {"always", "unless-stopped"} =>
    (<>[]Wanted(u) => []<>IsActive(u))
=============================================================================
