# homelab-daemon: TLA+ models, checks and proofs

homelab-daemon supervises the systemd units of a home server: it starts them in
order after a boot, restarts those that die, stops those whose mounts are gone,
runs backups that pause services, and serves an HTTP API through which a CLI and
a web dashboard do all of this by hand. The directory holds TLA+ modules of the
daemon's concurrent core and of the dashboard's pages, configurations with which
TLC checks them, and TLAPS proofs of the main invariants for every number of
units, mounts, goroutines and mounted components.

Everything in `cmd/daemon` runs in one process: goroutines for the monitor loop,
boot, cron, HTTP requests and one goroutine for each unit that is being
restarted. They share the configuration (without a lock), the circuit breaker
and the persisted state (a mutex each), one mutex per name of a unit, and systemd,
which each of them talks to through `systemctl` processes that are killed after 30 s.

The dashboard is a React application whose pages poll the daemon. It has one
thread, but nothing orders its requests: an answer arrives after newer ones, after
the dialog it belongs to was closed, or never; a closure keeps the state of the
render it was made in; effects run again whenever one of their dependencies is a
new object. Each navigation loads a new document, so pages share nothing but the
daemon, `localStorage` and the URL.

## 1. Inventory

| Component | State | Operations | Interacts with | What is hard | What makes it correct |
|---|---|---|---|---|---|
| Service supervision (`monitor.go`, handlers in `api.go`) | units in systemd, mounts, enabled units, user-stopped flags, `inFlight`, a mutex for each name of a unit | monitor tick and visit, `restart` goroutine, `boot`, `verifyRunningServices`, start, stop, restart, start-all, stop-all, reload, PATCH enabled | breaker, state, configuration, systemd, kernel mounts | delays between check and use, systemctl timeouts that leave a job running, snapshot of active units used later, a lock on four exit paths, clients that name a unit without `.service` | mutual exclusion by name, no leaked lock, one restart goroutine per unit, a user's stop is kept, mounts are validated, wanted services come back, every thread ends |
| Circuit breaker (`monitor.go`) | failures in a row and end of the backoff window per unit | `RecordFailure`, `IsOpen`, `Reset` | monitor, restart goroutines, PATCH | end of the schedule, zero entries, resets and failures in any order | window belongs to the counter, attempts are spaced |
| Backup scheduler (`scheduler.go`) | cron entries, runs under way, mutex of the backup unit | cron, manual run, `RunBackup`, `Reload`, PATCH | systemd, configuration, monitor | a service paused across failures, timeouts, overlapping runs and changes of the configuration | no service left down, runs end, a paused service stays down during its backup |
| Persistent state, boot and crash detection (`state.go`, `main.go`) | `state.json` (user stops, boot id, last backup runs), clean-shutdown marker | load and prune, set and persist, first-start test, marker | host boots, kills, requests | a kill or a full disk at any step, a file rewritten in place | answered stops are remembered, one boot sequence per kernel session, crashes reported |
| Configuration (`config.go`, `config_writer.go`, `merge.go`, `module.nix`) | memory, `services.yaml`, Nix defaults, registry | load, PATCH and write, reload, merge-config at activation, registry filter | every component | several writers, sections that one writer drops, partial updates, text written without quotes, no lock | a change touches only its unit, memory and file agree, the daemon can load its file |
| Notifier (`internal/notifier`) and failure pass of the monitor | last mail per key, previous failure counts | `SendWithCooldown` | monitor, scheduler, start-up | one key for all services, stamp before sending | every failing service is announced in the end |
| Secrets API (`api_secrets.go`) | sops file, git, timestamps, pending marker | PUT, DELETE, deploy | git remote, `nh os switch` | partial failure, PUTs whose sops runs overlap, edits during a deployment, a client that disconnects, a marker that is lost at a restart | pending while an edit is not deployed |
| Update checker (`internal/updates`) | results, metadata, trigger channel, file | trigger, checks, pull | podman, skopeo | merged triggers, file rewritten in place | a trigger leads to a later check |
| VPN (`internal/vpn`) | status cache, reconnect channel, published port | setup, renewal, health check, reconnect | kernel, NAT-PMP gateway | two mappings, coalesced requests | published port is mapped, a request leads to a setup |
| Storage (`internal/storage/bcachefs`, handlers) | mounts, cached listing | mount, unmount guarded by dependents, listing | supervision | test and unmount are two steps, stale cache | no mount is taken from a running dependent |
| qui client (`internal/qui`) | none | paging | qui | total changes between pages | ends, no torrent twice |
| Dashboard poller (`frontend/src/hooks/use-overview.ts`) | subscribers, timer, request in flight, cached overview, stored interval | subscribe, unsubscribe, tick, delivery of data and errors, sparkline points | API, every page | leaving and coming back during a request, any number in `localStorage`, failures | one loop while someone listens, its pace, no failure unannounced, no overview replaced by an older one |
| Services page (`frontend/src/pages/ServicesPage*`) | rows, requests, refetches, dialogs, bulk action, event stream of a pull | menu entries, switch, save, bulk, pull and restart | poller, daemon | rows changed by answers against late lists, a stream reopened by a render | rows heal, a switch shows only what was true, a stream belongs to its dialog, restarts follow pulls |
| Secrets page | list, dialog, deployment stream | edit, PUT, deploy | secrets API | edits during a deployment, stale closures | edits are flagged until deployed, a value goes to its secret |
| Logs page | URL, search and its debounce, the query under way, lines, loading state | tabs, filters, search, interval, abort | VictoriaLogs | aborted requests whose answer has come, timeouts of older queries | lines and query are what the controls say, loading ends |
| Backups, diagnostics, storage and machines pages | lists, drawers, dialogs, actions under way | edit, run, logs, mount, create, start, destroy | poller, daemon | answers for something closed meanwhile, polls out of order | nothing happens unasked, one action at a time, loading ends, lists heal |
| Overview page (`OverviewPage.tsx`, `widgets/registry.ts`) | layout | packing into rows | poller | spans that do not fit | full rows in order |
| Bug report dialog | form, POST, event stream, toast | submit, progress, end | a service outside the daemon | a stream that breaks | the end of a task stands, submission ends |
| Shell, navigation, page frame | none but the document | full page loads | all pages | | pages share no state |
| Collector, VMs, command runner, doctor, middleware, metrics, log streams, CLI, API types, widgets, UI kit | none or trivial | I/O and formatting | | | |

The hazards of this code, each at its line and with the properties that cover
it, are listed in `PROJECT.json`.

## 2. Modules

| Module | What it is |
|---|---|
| `Supervisor` | supervision: all goroutines that start and stop units |
| `Breaker` | the circuit breaker without a clock, as the supervisor uses it (instantiated there) |
| `CircuitBreaker` | the breaker with clock and schedule, shown to implement `Breaker` |
| `BackupScheduler` | cron, manual runs and the pause of services |
| `DaemonState` | `state.json`, boot id and crash marker across restarts |
| `ConfigFile` | `services.yaml` and its writers: PATCH, merge-config, an editor |
| `SharedPoller` | the poller below all pages and the hooks on it |
| `OverviewFeed` | what `useOverview` promises to one component, implemented by `SharedPoller` |
| `ServicesPage` | the page of the services |
| `SecretsPage` | the page of the secrets with the part of the daemon behind it |
| `LogsPage` | the page of the logs |
| `LogDialog` | the dialog with logs of the next two modules, which extend it |
| `BackupsPage`, `DiagnosticsPage`, `StoragePage`, `VMsPage`, `OverviewPage`, `BugReport` | a page or dialog each |
| `Dashboard` | the pages above but the services, one document at a time |
| `MC...` | instances for TLC: values of the constants, symmetry |
| `...Proofs` | theorems and TLAPS proofs about the module of that name |

### Supervisor

A thread is a goroutine: `Handler` (HTTP), `Restarter` (spawned by the monitor)
or `Main` (verification and boot). It has a `job` ("start", "stop", "restart",
"verify", "boot", "recover"), the unit it is at (`cur`), the units it still has
to visit (`todo`) and a program counter:

| `pc` | Code |
|---|---|
| `next` | head of the loop over units of a handler, of `verifyRunningServices`, of `boot` |
| `check` | `checkConstraints` (for "verify": active and constraints unmet) |
| `wait` | `waitActive` on the dependencies, in `boot` |
| `deps` | first look at the dependencies; `restart_delay` or `boot_delay` follow |
| `deps2` | second look, immediately before `startUnit` |
| `lock` | waiting for the mutex in `startUnit` and `stopUnit`; `restartUnit` takes none |
| `run` | `systemctl` is running |
| `reset` | `systemctl reset-failed` at the end of `stopUnit`, mutex still held |
| `settle` | the 10 s after a successful restart |

A delay is nothing but a step boundary: any other thread may act in it. The
monitor is not a thread of that kind but `monTodo`, the units it has still to
visit in the tick, and `snap`, what `isActiveMultiple` answered at its start;
its visit to one unit is two actions, since `shouldRestart` reads the policy and
the user's flag (`MonHealthy`, `MonLook`, `MonSkip`) before it asks systemd how
the last run ended, and breaker, mounts and `inFlight` come after that
(`MonSpawn`, `MonDrop`); `monAt` is the unit in between. A tick that a reload
overtakes goes on over the live `enabled`.

The handlers accept `foo` for `foo.service` (`isManaged`) and pass it on as it
came. `Bare` is the set of units clients also name like that, `bare` the handlers
that were: their mutex is another one (`Key`), the flag they set or clear is one
nothing looks up (`ByBareName`), and `POST /api/start` finds no mounts to check
(`FirstPhase`).

The loops visit units in any order, boot by `Rank` (ties in any order: the sort
is unstable).

systemd is `sysd`: "activating" and "deactivating" carry the pending job, a new
job replaces a pending one of the other kind, "exited" is inactive with a
non-zero `ExecMainStatus`. A `systemctl` that is killed after 30 s leaves its job
behind (`StartErr`, `StopTimeout`), and `OrphanJobEnds` finishes it later.
Services exit at any time (`Exit`), mounts in `Moves` come and go
(`MountChange`), backoff windows end (`BackoffElapses`). Initially the units are
in any state and any set of units is user-stopped: the daemon may have been
restarted.

Abstracted: the order of units in the configuration, log output, the answer of
handlers. Left out: the failure notification pass of the monitor, cancellation at
shutdown (the process ends), PATCH of settings other than `enabled`. `waitActive` and the re-check after it
are `WaitDeps` and `CheckDeps`; that a dependency does not show up within two
minutes is an alternative of `WaitDeps`. A mount failing in auto-mount is an
initial state of `mounted`.

### Breaker and CircuitBreaker

`Breaker` has the failure count, saturating at `MaxFails`, and the set of units
inside a window, which end at any moment. `CircuitBreaker` is the code: an
unbounded counter, a schedule in ticks, `backoffUntil`, a clock, the attempts
of the monitor, and a history variable with the time of the last failure. The
zero entry at the head of the schedule opens no window, as in `RecordFailure`.
`ImplementsBreaker` maps the counter to its minimum with the length of the
schedule and the windows to the units that are open now: whatever is shown of
the supervisor with `Breaker` holds with the real breaker.

### BackupScheduler

A runner is a goroutine inside `RunBackup`: checks, pause, launch, wait for the
oneshot unit, resume. What it pauses is read once, at the beginning (`held`).
`systemctl` may return before the backup ends when `Slow` (its 30 s are over):
`running` keeps the backup unit. PATCH changes the configuration in memory, and
`services.yaml` and the cron entries only when the file could be written; reload
and a kill of the daemon go back to the file. Users stop and start the service,
the monitor restarts the `Supervised` ones, services exit. `excused` is history:
services that are down for a reason other than a pause. Left out: last-run times,
healthcheck pings, notifications, cron expressions, the mutex of the paused
service (each `systemctl` on it is one step here; `Supervisor` has that mutex).

### DaemonState

One action per access to `state.json`; a write is two, truncation and content,
with `writer` standing for the state's mutex, so that a kill in between leaves
no file. A write may also fail after the truncation (`WriteFails`): `persist` logs
the error and the handler answers as if nothing had happened. Start loads the
file, prunes stops under names the configuration does not have and looks at the
marker; the first-start test stamps the boot id. The user's requests, backups
(which rewrite the file) and reloads go on beside it. A request names configured
units, or one by its bare name (`Nameable`), which is kept under that name.
`asked` is history: the last request under each name the daemon has to remember,
forgotten only by a start without the name in the configuration (pruned), never by
a kill. `torn` is history, too: the units last asked about before a run of the
daemon ended with `state.json` cut off. Left out: last-run times, a loss of
power that takes back completed writes, an unreadable boot id.

### ConfigFile

`mem` and `file` map each unit to its settings: "enabled" (or "absent") and
whether its restart policy is a known one. Of all other text (schedules, names)
`special` says whether the memory holds any that YAML wants quoted, and `yaml`
whether the file can still be parsed. A PATCH is three steps of a handler: the
change in memory (`Apply`, `Reject`, `ApplyElsewhere`), the serialisation of all
of the memory (`Serialise`), the rename (`Rename`, `WriteFails`); no lock keeps
handlers, reload and merge-config apart. `Serialise` writes without quotes, so
that with `special` the buffer may or may not be YAML. `Reject` is the answer 400
to an invalid policy, which comes after "enabled" has been assigned;
`ApplyElsewhere` is a PATCH of backups or storage, which validates nothing. A
reload is two steps, `ReadFile` and `Reload`, with PATCHes in between. `Start`
applies the registry, `Reload` does not; both refuse a file that does not load
(`FileLoads`). `Activate` is the activation of a NixOS generation: merge-config
loads the file, adds missing services and, if anything changed (`synced` stands
for the structural fields), saves in a second step, `MergeEnds`, with a library
that quotes. `sound` and `asked` are history: which PATCHes nothing has interfered
with, and what they were answered to have saved. Left out: structural fields and
links, all of backups and storage but the quotes, a missing file (`Init` is the
bootstrapped one), an editor that breaks the file, the index panic of a handler
whose list a reload shortens, text that changes its meaning without quotes and
still parses.

### SharedPoller and OverviewFeed

`poller` is the singleton of `use-overview.ts` (`subscribers`, `timeoutId`,
`fetching`, `cached`) with the one request it may have; `loose` counts timers
nobody can cancel any more. A component that mounts subscribes, is delivered the
cached overview and starts `tick` when it is the first. `TimerFires` is the tick,
`OnAnswer` and `OnFailure` are what comes after its `await`, with the failure
events, the deliveries to every subscriber and the next timeout in one step, as
nothing interrupts a callback. The interval is what `localStorage` holds (any
number), clamped by `getPollInterval`, longer while the document is hidden,
2 s after a failure. Overviews are known by the version of the daemon's state,
with a flag that makes two overviews of one version different objects (`ref`),
which is what the sparkline compares. `told` is history: the failure count last
announced for a service. `OverviewFeed` is a component's view: an overview, never
an older one while mounted, marked stale after an error.

### ServicesPage

`daemon` is the sequence of states the services went through; an overview or a
refetched list is one of them. A request keeps what its continuation needs after
the `await`. `services` holds the rows; a switch flips its row in the
list as it is when the daemon has accepted (`Flip`), a stop with a disable writes
the whole row (`DisableSettled`). `late` are the refetches
under way, each with the version from which on its answer may be. Menus are those
of the row as it is rendered (`Offered`, `Entries`). A render that changes the
state of the page gives `PullDialog` a new `onRestart`, so its effect closes the
stream and opens another: `Renders`. Filter and sorting, the choice between table
and cards (both have the same entries) and the entry that leads to the logs are
left out.

### The pages of Dashboard

A behaviour of `Dashboard` is a visit to one page, since every entry of the
navigation bar sets `window.location` (`app-navbar.tsx:30-46`). A request is a
record that goes from sent to answered or failed (an action of its own, external)
to its continuation, which is the code after the `await`. What a closure holds is
in the record: a save knows the dialog it was sent from, not the one that is open
when it is answered.

* `SecretsPage` has the PUT with its steps in the daemon: sops reads the file
  (`SopsReads`) and writes it with the edit (`SopsWrites`), git follows and the
  flag (`Flags`, whose write may fail unnoticed), or an error (`Refused`). A state
  of the secrets file is the set of edits it holds, so that a sops run that read it
  earlier takes away what another one has written since. `Builds` is when `nh os
  switch` reads the file; a switch that fails or is killed may have activated what
  it built. `DaemonRestarts` empties `/run` and with it the flag, refuses the PUTs
  under way and ends the switches. `acked` and `unkept` are history: edits answered
  with success, and those of them the code then loses.
* `LogsPage`: an answer is known by its query. `late` is a query that was aborted
  after its answer had come; `CallbackAborted` is its callback. `recent` and
  `timers` are the 300 ms of the loading state.
* `LogDialog`: `asked` and `pending` are the units whose logs were asked for
  before and after the dialog was opened.
* `StoragePage`: one pool; versions of the daemon's state stand for the counters
  of its disks. The rate is the difference of two versions, negative when an older
  list comes later.
* `DiagnosticsPage`: the versions of the list of base services.
* `OverviewPage`: the `filter` and the packing of widgets are folds over the
  layout, one widget at a time as in the code, so that they can be reasoned about.
* `VMsPage`, `BugReport`.

Left out of all pages: layout, icons, toasts (but for the bug report, whose toast
tells how a task ended), column sorting, filters that only hide rows.

## 3. Runs

| Run | Instance | Checks |
|---|---|---|
| `supervisor_locks` | one unless-stopped unit with a bare name, one moving mount, one client with all requests and configuration changes, two restarters, breaker of length 2 | `TypeOK`, `MutualExclusion`, `NoLeakedLock`, `RestartBookkeeping`, `StopIsKept`, `MountsAreChecked` |
| `supervisor_pair` | an on-failure unit and an unless-stopped dependent that needs the moving mount; nobody at the API | `StopIsKept`, `MountsAreChecked` |
| `supervisor_live` | one unless-stopped unit, start and stop requests, one restarter, fairness and starts that succeed now and then | `ThreadsFinish`, `Recovers` |
| `circuit_breaker` | two units, schedule 0, 1, 2, clock to 7 | `WindowMatchesFailures`, `AttemptsAreSpaced`, `ImplementsBreaker` |
| `backup` | one backup, one supervised service, two runners, every request, slow backups | `DownIsAccountedFor`, `RunsFinish` |
| `daemon_state` | two units, one with a bare name, three kernel sessions | `StopsAreRemembered`, `BootOncePerSession` |
| `config_file` | two services, one of them declared by the second generation only, two handlers that write or reload | `AnsweredIsKept`, `PoliciesLoad` |
| `poller` | two components, one service that fails, intervals below and above the clamp, three versions, sparkline of two points | `OneLoop`, `Pace`, `NothingUntold`, `PointsFaithful`, `Catches`, `FeedKept` |
| `services` | two services, one with an image, two states of the daemon, two requests | `TypeOK`, `OneBulk`, `SwitchWasTrue`, `StreamOfDialog`, `RestartsPulled`, `Heals` |
| `dashboard` | all other pages: two secrets, edits and deployments, two log services, two units, two machines, layouts with every overflow of a row, three versions | `TypeOK`, `OneAtATime`, `EditsFlagged`, `LinesOfService`, `LinesOfQuery`, `DialogsBelong`, `RowsFull`, `NothingUnasked`, `PagesSettle` |

`supervisor_locks` declares handlers and restarters symmetric, `config_file` its
writers; no run with a liveness property uses symmetry.

Two runs end in a counterexample, each to a statement of a comment that the
code does not keep:

| Run | Statement | What happens |
|---|---|---|
| `supervisor_stop_race` | the mutex prevents a monitor restart from racing with an API stop (`monitor.go:104`) | `restart` does not look at the user's stop again after its delay and starts a unit whose stop has been carried out |
| `config_qui` | the qui block is not mutated at run time (`merge.go:121`) | `writeConfig` writes storage, services and backups only: any PATCH drops the section until the next activation |

### What the properties say

* `MutualExclusion`, `NoLeakedLock`: `systemctl` start and stop overlap on a unit
  only when one goes by the bare name and the other by the full one, and no exit
  from `startUnit` or `stopUnit` keeps a mutex. `restartUnit` takes no mutex and is
  exempt.
* `RestartBookkeeping`: `inFlight` is exactly the set of units that have a
  restart goroutine, and none has two.
* `StopIsKept`: once a unit the user stopped by its full name is down and nothing
  is left over that would start it (a thread, or a visit of the monitor that has
  read the flag), it stays so while the stop stands and no start is requested. It
  is the strongest form the code keeps: the restart already under way is the
  finding of `supervisor_stop_race`, and the policy "always" ignores stops by design.
* `MountsAreChecked`: while a required mount is missing no new start gets past
  validation. A start validated earlier may be issued after the mount has gone;
  the code does not look again. POST /api/restart, and POST /api/start by the bare
  name, do not get to `checkConstraints` at all and are exempt, although
  `monitor.go:170` calls it the single validation point of boot, monitor and API.
* `Recovers`, `ThreadsFinish`: liveness, see the fairness below.
* `WindowMatchesFailures`, `AttemptsAreSpaced`: no window survives a reset, no
  attempt comes before the scheduled wait.
* `DownIsAccountedFor`: a service that is down was stopped by the user, exited,
  could not be started, or a run that is still under way is going to start it.
* `RunsFinish`: runs that queue for the same backup unit all end.
* `StopsAreRemembered`, `BootOncePerSession`: what was answered to the user of a
  unit by its full name survives restarts, and a restart of the daemon does not boot
  again. Both but for one case each names: when the daemon ends with `state.json`
  cut off, the stops made before are lost, and it boots again; no start is forgotten
  even then.
* `AnsweredIsKept`: the "enabled" a PATCH was answered to have saved is in the
  file, and in the memory of a running daemon, until somebody asks for something
  else: through restarts, reloads, activations, and PATCHes of other services
  that overlap, fail or are refused. Exempt, since the code leaves the order
  open, is a PATCH that ran while older contents were on their way into the file,
  that began or was under way while a reload had read the file and not yet assigned
  it, or that an activation or a second PATCH of the service overtook; and a refused
  PATCH of the same service, which changes it. Services the registry
  filters at a start are forgotten with their settings.
* `PoliciesLoad`: no sequence of these leaves a restart policy in the file with which
  the daemon would refuse to start. That the file is YAML is another matter: see
  `FileLoads` below.
* `OneLoop`, `Pace`: the components of a page share one loop, which dies neither
  when the last of them leaves during a request and another comes nor after a
  failure, and never leaves a second timer behind. A poll follows an armed wait of 2 s
  to 60 s whatever was stored; only a component that subscribes when nobody did asks
  at once, however recent the last answer.
* `NothingUntold`: each rise of a failure count between two answers is announced.
* `PointsFaithful`: a sparkline has each answer once, in order, and ends with the
  overview that is shown.
* `Catches`, `FeedKept`: whoever listens sees every state of the daemon or a later
  one, never an older one after a newer.
* `SwitchWasTrue`, `Heals`: a switch shows values the daemon has had, and the page
  comes back to the state the daemon has settled in, whatever refetches are late.
* `StreamOfDialog`, `RestartsPulled`, `OneBulk`: a stream pulls for the unit of
  the dialog on the page; the dialog restarts a service only after its pull; one
  bulk action at a time.
* `EditsFlagged`: an edit of a secret answered with success is in the running
  system or flagged, through refused and overlapping PUTs, failing and killed
  switches and restarts. Exempt are those the code loses (`unkept`, see below).
* `LinesOfService`, `LinesOfQuery`: tab, search and filters, the query under way
  and the lines agree, whatever was aborted.
* `DialogsBelong`: a value goes to the secret it was typed for; foreign logs appear
  in a dialog only when they were asked for before it was opened.
* `OneAtATime`, `NothingUnasked`, `PagesSettle`, `RowsFull`: as their comments in
  `Dashboard` say. `OneAtATime`, `DialogsBelong`, `NothingUnasked` and `PagesSettle`
  gather a property of several pages each. `PROJECT.json` lists one mutant for each;
  the modules hold another for every further part: `PressedUnlessDelete`,
  `LinesAborted`, `LinesLate`, `EditKeeps`, `DestroyAtOnce`, `StreamKept`,
  `ContentsIfAnswered`, `SetServicesOnce`, `PendingAfterFailure`,
  `DeployOverOnEvent`.

### Further disagreements

Statements the models refute, without a run of their own. To see a
counterexample, add the property to the configuration named with it.

| Property | Configuration | Statement | What happens |
|---|---|---|---|
| `CounterSurvivesSettling` | `SupervisorLocks.cfg` | the counter is cleared only after settling, or backoff never escalates (`monitor.go:562`) | the monitor ticks twice in the ten seconds, sees the unit active and clears the counter |
| `PauseHolds` | `Backup.cfg` | `pause_service` is stopped before and started after (`config.go:108`) | `systemctl start` of the backup times out, the deferred start resumes the service while the backup goes on |
| `CrashIsReported` | `DaemonState.cfg` | the marker is removed on crash (`main.go:146`) | nothing removes the marker, after the first start no crash is ever seen |
| `FileLoads` | `ConfigFile.cfg` | `writeConfig` serializes the config to YAML (`config_writer.go:10`) | text is written without quotes and PATCH of a backup takes any schedule: `@daily` or `*/15 * * * *` is no YAML, and the next start or reload refuses the file |
| `RestartsOnce` | `Services.cfg` | the backend emits `done`, the dialog optionally restarts the service (`PullDialog.tsx:17-21`) | each render opens a new stream and its pull ends with a restart of its own |
| `LoadingStays` of `LogsPage` | any with `LogsPage` | the loading state stays for at least 300 ms (`LogsPage.tsx:97`) | the timeout of an older query ends the loading state of a newer one |
| `GridFull` of `OverviewPage` | any with `OverviewPage` | leftover capacity goes to the last widget of a row (`OverviewPage.tsx`) | a last widget stretched to three columns has no class and takes one |

Seen while modelling and stated by no property, since nothing in the repository
promises otherwise: answers for a unit whose dialog was closed show under the
title of the next; a save that is accepted late closes whatever dialog is open by
then (secrets, backups, services); PATCH of a backup sends four fields of a copy
that may be old; GETs of secrets are not ordered, so the banner may be stale until
the next one; the end of a deployment is missed when its event is split over two
chunks; an edit whose push failed stays in the secrets file, answered with an error
and not flagged, and the next edit carries it along; transfer rates are negative when polls overtake each other; the
machines page says there are none while the overview has not come; the error
handler of the bug report leaves a toast that loads for ever; a query of logs that
takes longer than 30 s is aborted by the interval every time.

What the code does otherwise where a property holds, and the property therefore
names as its exception:

| Property | Exception | In the code |
|---|---|---|
| `MutualExclusion` | one call by the bare, one by the full name | `unitOpMu` is to serialise start and stop of a unit (`monitor.go:104`), but `lockUnit` is keyed by the string the handler was given |
| `StopIsKept`, `StopsAreRemembered` | stops by the bare name | the flag is stored under `foo`, boot and monitor ask for `foo.service`, the next start prunes it; the answer is a success |
| `MountsAreChecked` | restart, and start by the bare name | `svc.Unit == unit` never holds (`api.go:295`), restart does not look |
| `StopIsKept` | a visit of the monitor past the flag | `shouldRestart` reads the flag before it runs `systemctl show` (`monitor.go:494-501`) |
| `StopsAreRemembered` | `torn` | the stops survive daemon and host reboots (`state.go:16`), but `persist` truncates the file first (`state.go:179`), and its errors are only logged |
| `AnsweredIsKept` | a PATCH between the two steps of a reload | the file is read at `api.go:394` and assigned at 400, without a lock |
| `Pace` | a first subscriber | `subscribe` ticks at once (`use-overview.ts:86-89`): a widget alone on its page that is remounted polls each time |
| `EditsFlagged` | `unkept`: overlapped by a switch that takes the flag down, written over by another sops, flag not written, flag lost with `/run` | `api_secrets.go:372`, 190-206, 181 (the error is dropped), `module.nix:542` |

### Bounds, and why they are enough

Locks, bookkeeping and stops are per unit, so one unit with every kind of
thread shows their interleavings; dependencies need a second unit, which
`supervisor_pair` has. Two restarters are enough for a second goroutine on one
unit; one bare name gives a second mutex beside the first. `MaxFails` and `FirstOpen` are 2 (1 in `supervisor_pair`): a free failure
and a window, the shape of the code's schedule; the counter saturates as the
schedule's index does. `MaxTime` is 7, beyond two windows of the longest wait;
`MaxSession` is 3, two host boots after the first. `ConfigFile` has no counter
and needs no bound: two services tell a PATCH's own from another's, two handlers
give every order of two writes or of a write and a reload, and merge-config is a
third writer. The proofs
hold for all values of these constants.

Of the dashboard: versions of the daemon's state are two or three, enough for an
older answer after a newer one; two requests, deployments or edits overlap; two
secrets, units or services tell a dialog's own from another's; two components
give a last subscriber and a new one. Every page is checked in all its states,
since `page` never changes; their product is not needed, as they share nothing.

### Fairness

Of `Supervisor`: each thread takes its next step (the Go scheduler, and
`systemctl` ends within its timeout); a thread waiting for the mutex gets it if
it is released again and again (`SF` on `Issue`: `sync.Mutex` hands over to a
waiter that starves); the ticker ticks and each unit is visited; a job nobody
waits for ends; a window ends. Nothing is assumed of clients, mounts or services
that exit. `Recovers` also needs that a start that is tried again and again
succeeds now and then (`HealthySpec`); without it a broken service stays down,
rightly. Of `BackupScheduler`: runners are scheduled, the mutex is granted, a
backup ends.

Of the dashboard nothing is assumed of the user. Timers fire and requests settle
(`WF`); in `SharedPoller` not always with an error (`SF` on `Answers`); in
`ServicesPage` the newest overview arrives again and again, which is `Catches` of
`SharedPoller`. In `Dashboard`, queries of logs are answered within the 30 s after
which the interval aborts them again and again (`SF` on `Arrives` and
`Callback`), and polls of the diagnostics likewise (`SF` on `PolledNow`).

## 4. Proofs

All theorems are of the form `Spec => []P` or `Spec => [][A]_vars`, or state an
implementation, for arbitrary constants under the modules' assumptions.

* `SupervisorProofs`. `TypeCorrect` is inductive by itself. The locks need the
  other half of `NoLeakedLock`: a thread inside `systemctl` for a unit holds the
  mutex of the name it goes by; with it, both lock properties follow from the same invariant.
  The same invariant gives `NobodyHoldsAndWaits`: whoever waits for a mutex holds
  none, and the holder is in a call that waits for nobody, so no circle of waiting
  goroutines exists, for any number of units and threads. The bookkeeping needs
  that an idle restarter has no job and that a restarter in flight is at a unit.
  `StopKept` is an action property: from types alone, one step per action, the
  case of the monitor being `PolicyAllows` in `MonLook`, the only step from which
  it becomes a pending start. `MountsChecked` needs to know which
  threads can be at `wait` and `deps` (`PhaseInv`).
* `CircuitBreakerProofs`. `WindowMatchesFailures` is inductive with the types and
  with `failedAt <= now`; spacing and `TypeCorrect` follow, and each step of the
  clocked breaker maps to a step of `Breaker` or a stutter, `Tick` to the windows
  that end.
* The abstract `Breaker` has two sides. `CircuitBreakerProofs!Implements` says that
  the breaker of the code implements it; `SupervisorProofs!BreakerIsUsed` that the
  supervisor takes only its steps: monitor, restart goroutines and handlers call
  the breaker at the points where `Breaker` allows it, so that what is proved of
  the breaker's counters and windows holds below the supervisor.
* `BackupSchedulerProofs`. `DownIsAccountedFor` needs that a runner past the
  pause still holds the service it read at the beginning, that is, `held` and
  `run` are consistent with `pc`.
* `DaemonStateProofs`. Both properties need what the file holds while no write is
  going on, and what its lack means: file and memory agree with what was asked but
  for `torn` (`Agrees`), a daemon that is off without a file has nothing left to
  agree with but that, and a stamped boot id is the session's.
* `ConfigFileProofs`. `AnsweredIsKept` needs the same of every copy that may
  still reach the file or the memory: buffers that are serialised, what a reload has
  read and what merge-config is going to save (`AskedInv`), and that a sound PATCH
  is in the memory and in every serialised buffer and no reload has read the file
  (`SoundInv`), so that its rename establishes it. `PoliciesLoad` likewise follows
  from all copies having valid policies (`PolicyInv`).
* `SharedPollerProofs`. `OneLoop` is inductive once the timeout is known to be
  within its bounds (`LoopInv`); `Pace`, an action property, follows from it:
  clamping holds for every stored number, and no other step sends a request. `NothingUntold` needs that counts are numbers; its step is
  the arithmetic of one announcement. `FeedKept` needs that versions only grow,
  from the views over the cached overview to the daemon (`AgesInv`).
  `PointsFaithful` needs (`PointsInv`) that every subscriber shows the cached
  answer, that its points lead to it (`LeadsTo`) and that the answer under way has
  the other reference than the cached one: then a delivery of the cached answer
  appends nothing (`SamePoint`), and a new one a later point (`NewPoint`).
  `TypeOK` needs (`KindInv`) that a unit has failed at most as often as the daemon
  has changed and that an answer is an overview, never the Null of the beginning.
* `ServicesPageProofs`. `TypeOK` needs that each restart of the dialog is one of the
  requests that were counted. `StreamOfDialog` is inductive: each render
  re-establishes it (`RendersStream`), and what does not render leaves list, dialog
  and stream alone; restarts come from `StreamEnds` only, whence `RestartsPulled`.
  `SwitchWasTrue` needs that an accepted request has happened in a state of the
  daemon, and stays so as the states grow (`Sound`, `DaemonGrows`). `OneBulk` is
  not inductive: the button that confirms a stop-all is not disabled by
  `bulkLoading`. `BulkInv` adds that the confirmation is only open while no bulk
  request is under way: it opens only then, and while it is open it covers the
  buttons that start one.
* `DashboardProofs`. A step is one page's own and a stutter of the others
  (`StepOfPage`), so each page has its invariant: in `SecretsInv` every edit that
  is owed (answered, and not `unkept`) is in the secrets file and in what the
  switch under way has read, without which `EditsFlagged` is not inductive; in `LogsInv` the query under way is the one of
  the controls also while the configuration is loading; in `DialogInv` what has
  been asked for is of the dialog's unit or was so before it opened. `TypeOK` is
  the conjunction of the pages' types, whose bounds are not inductive either
  (`DashboardType`): every save that is under way has its place among the edits
  (`RoomForEdits`, with cardinalities), all edits that are named anywhere are in
  the repository (`EditsInRepo`), requests that wait for an answer are counted by
  kind (`GetsInv`), what storage and diagnostics show was made from a version the
  daemon has had (`StorageSeen`, `ListType`), a drawer that is open holds a job
  (`DrawerType`), and the query under way has parameters of the page
  (`QueryTyped`).

  `RowsFull` is no matter of steps but of the folds that make the rows, and needs
  induction over the layout. The library's induction theorems take the predicate as
  an operator, which no backend can instantiate; `SetInduction` says the same of a
  set of numbers and follows from `<` being well-founded on `Nat`, and
  `SeqInduction` carries it over to a set of sequences. With them a fold is what its
  definition says for every sequence (`FoldExists`, `FoldUnique`) and does one step
  more for one element more (`FoldSteps`); the folds of the page and `FlattenSeq`
  are such folds (`UsedIsFold`, `PlacedIsFold`, `ActiveIsFold`, `FlattenIsFold`).
  What placing keeps (`PlacedWell`, by the two ways to place a widget, `NewRow` and
  `SameRow`): no row is wider than the grid, no row was begun while the one before
  had room, all widgets so far are there in order. A row within the grid is full
  after stretching and only wider for it (`StretchFull`), which carries over to
  the widgets of all rows (`WiderFlattened`). Assumed are at least one column and
  that layouts are sequences of widgets with a span of one or more. The ids the
  registry lists are in `Id` beside `STRING`, since the backends do not know that a
  literal is a string.

The safety properties of the runs are thus all proved. Model-checked only are the
liveness properties `ThreadsFinish`, `Recovers`, `RunsFinish`, `Catches`, `Heals`
and `PagesSettle`, which need fairness and `ENABLED`, and the two properties the
code violates, of which TLC shows the counterexample.

## 5. Not modelled

* Of `Supervisor`: the failure notification pass with the notifier, whose mails
  feed back into nothing; the agreement of start-all with stop-all, which the code
  leaves open.
* Storage pools, VPN, update checker, qui client: loops over external commands and
  gateways. What the dashboard sees of them is in `StoragePage` and `ServicesPage`
  as external actions.
* Of the secrets API: DELETE, timestamps and previews, and a kill inside sops' own
  write of its file.
* Supervision and state in one module: a crash between the boot stamp and the boot
  sequence.
* Collector, VMs, doctor, HTTP plumbing, metrics, CLI, API types, widgets and UI
  kit: they keep no state that several actions share.
