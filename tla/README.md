# uni_service in TLA+

TLA+ modules, TLC runs and TLAPS proofs about the two crates of this repository:
`uni_service` (`src/`: run a program as a service) and `uni_service_manager`
(`manager/`: install, start, stop and remove services with systemd, launchd or
`sc.exe`). Paths below are those of the repository; line numbers are in
`PROJECT.json`.

## The system

| Part | State | Operations | Talks to |
|---|---|---|---|
| `BaseService` (`src/base.rs`) | receiver and service function until `start`, `JoinHandle` from then on, a channel to the service function | `start`, `stop`, `is_running` | the user's service function, in a thread of its own |
| Interactive mode (`src/lib.rs`) | a channel for shutdown requests | `run_service`, `wait_for_shutdown`, `wait_for_shutdown_or_exit` | `BaseService`; the thread of the `ctrlc` crate, which turns signals into requests |
| Windows service mode (`src/win_service.rs`) | the registered `SERVICE_APP`, the status reported to the service control manager (SCM) | `start_service`, `service_main`, control handler, status reports, `Drop` | the SCM; the same loop and `BaseService` |
| `UniServiceManager` (`manager/src/manager.rs`) | none of its own: every call asks the platform again | `install`, `uninstall`, `start`, `stop`, their `_and_wait` forms, `install_if_needed_and_start`, `stop_if_needed_and_uninstall`, `restart`, `status`, `wait_for_status` | one `ServiceManager` of the platform |
| systemd (`manager/src/systemd.rs`, `unix_util.rs`) | the unit file; outside the crate: enablement, unit state | the trait's `install`, `uninstall`, `start`, `stop`, `status` | file system, `systemctl` |
| launchd (`manager/src/launchd.rs`, `unix_util.rs`) | the property list; outside: the loaded job and its process | the same | file system, `launchctl` |
| Windows (`manager/src/sc.rs`) | outside: service, template and per-user instance, SCM state | the same | `sc.exe`, `whoami.exe` |
| `ServiceSpec`, capabilities, string helpers | plain data | builder, validation | |
| `test_bin`, examples | | | both crates |

What is hard here:

* *Three threads per service process.* The main thread polls `is_running` and waits
  for requests; the service function may end at any time, in particular between
  the two looks that `stop()` takes at it (`is_finished`, then the send); the
  `ctrlc` thread panics when it sends to a loop that is over; a signal before the
  handler is registered kills the process.
* *No lock and no transaction in the manager.* Each call reads a status and acts
  on it later. Other clients, the end of the service and the platform's own
  restarts come in between.
* *Operations of several steps.* `install` and `uninstall` change a file and then
  the platform, or the other way round; every step may fail, the client may die
  and the machine reboot between two of them.
* *Asynchronous platforms.* `launchctl kill` and `sc stop` only send a request;
  `sc start` returns before the service runs, and `sc delete` of a service that
  runs only marks it. The waits poll until a timeout.
* *One status made of two answers.* A user service on Windows is a template and,
  once the user has logged on, an instance; `status`, `start` and `uninstall` must
  each pick the right one, while the instance ends, is started or is deleted.
* *Two parties that report for a Windows service.* The thread of `service_main`
  reports its states and the drop of the status handle reports Stopped, after which
  the process may exit; the control handler accepts Stop from the first report on.

What makes each part correct: `run_service` says Ok only when the thread is over
and did not panic, fails only for a reason, returns when asked or when the
function ends, and blocks nowhere else; an `install` or `uninstall` that succeeds
has done all of its parts, and one that is cut short leaves nothing that the
platform would run without its definition; an Ok of a method that starts (or
stops and waits) is about a process started (ended) since the call; every call
returns; and what a Windows service reports to the SCM goes forward only, ends in
Stopped, and is true. `PROJECT.json` lists the hazards line by line, each with the
properties that would catch it, or with the reason why none does.

## Modules

```
Service ──┬── RunInteractive ── RunInteractiveProofs
          └── WinService ── WinServiceProofs
                  └── WindowsStates ──────────┐
                                              │
UniServiceManager ── ManagerSteps ──┬── Sc ───┘            MCSc
                                    └── UnixManager ──┬── Systemd   MCSystemd
ServiceManagement  <- Systemd, Launchd, Sc            └── Launchd   MCLaunchd

UniServiceManagerProofs ──┬── ScProofs
                          └── UnixManagerProofs ──┬── SystemdProofs ── SystemdAloneProofs
                                                  └── LaunchdProofs
```

The program run as a service:

* **`Service.tla`**: a `BaseService` and the waiting loop, common to all modes.
  One variable per field or channel; one action per step another thread can
  interleave with. `stop()` is three of them: `Stop` (the `is_finished` test),
  `Send` (`sender_fn`, which fails when the receiver is gone) and `Join`. The
  service function (`Fn`) is the user's and does what its signature lets it: read
  the receiver, drop it, return, fail, panic. Its end is two steps, because its
  arguments are dropped before `is_finished` says so.
* **`RunInteractive.tla`** EXTENDS it with `run_interactive`: registration of the
  handler (`SetHandler`, which may fail), `Signal`, and the `ctrlc` thread
  (`HandleSignal`).
* **`WinService.tla`** EXTENDS it with `win_service.rs`. Three threads besides the
  service function's: the main thread (`StartService`, which may find `SERVICE_APP`
  set or no SCM to talk to; `DispatcherReturns`; `Exit`), the one that runs
  `service_main` (`Register`, `Report` for each `set_status`, `StartApp`, the loop,
  `DropHandle` on every way out), and the control handler (`HandleStop`, for a
  control that `SendStop` sent). Every call of the `windows-service` crate may fail;
  the observer `failed` keeps which did.
* **`WindowsStates.tla`**: the states a Windows service reports and their order. It is
  the interface of the two crates: `WinService` is checked to keep to it
  (`ReportsInOrder`), `Sc` assumes it of the service it manages (`ServiceReports`).

The manager:

* **`UniServiceManager.tla`**: the methods of the front end, per client, as legs
  (`Legs`) of check, act and poll. `Check` is the status match at the head of
  `install`, `uninstall`, `start` and `stop`, with the validation of the spec;
  `Acted` is the return of the platform's method; `Poll` is one round of
  `wait_for_status`; `Tolerated` is the error that lets the second leg go ahead.
  The platform's replies are parameters of these operators.
* **`ManagerSteps.tla`** EXTENDS it with what all platforms share: the trait's
  methods run one command after the other and return the first error. `step` is
  where a client is; `Then` goes on, `Finish` returns to the front end.
* **`UnixManager.tla`** EXTENDS that with what systemd and launchd share: the file and
  `write_file` (open, then write without truncation; the write may fail with any part
  of the text in the file, or its sync after all of it) and the removal. A text is the
  spec it was made from and a length; what is longer than its spec has the rest of an
  older text behind it.
* **`Systemd.tla`** and **`Launchd.tla`** EXTEND that with the commands each of the
  trait's methods runs, and with what the platform does by itself (`ServiceEnds`,
  `ServiceRestarts`; `JobEnds`, `JobRestarts`; `Reboot`).
* **`Sc.tla`** EXTENDS `ManagerSteps` with the commands of `sc.rs`: `Create` and
  `Configure` (description, permissions, failure actions), `FindInstance`,
  `DeleteInstance` and `Delete`, `StartService` and `StopService`; the status of a
  user service is two steps, `AskInstance` and `AskTemplate`. The SCM's side is
  `ServiceReports`, `ServiceRestarts` (failure actions) and `Restart` (a new logon or
  a reboot, which gives a user service its instance).
* **`ServiceManagement.tla`**: what the front end promises on every platform to a
  caller who has the service to himself. Four variables: `defined`, `running`, and
  per client what the platform is being asked to do (`doing`) and whether the last
  request succeeded (`ok`). Only an install defines a service and only an uninstall
  removes it, and leaves no process behind; only a defined service runs; a running
  service is asked nothing but to stop; an Ok is true when it is given.
* **`MCSystemd.tla`**, **`MCLaunchd.tla`**, **`MCSc.tla`**: the specs and methods of the
  small instances.

`Systemd`, `Launchd` and `Sc` each implement `ServiceManagement`
(`ImplementsManagement == Managed!Spec`), with `doing` the verb of a client that is
acting and `ok` its last success, and

| | `defined` | `running` |
|---|---|---|
| `Systemd` | the unit file exists | the unit is not inactive |
| `Launchd` | the property list exists or a job is loaded | the job has a process |
| `Sc` | there is an entry that is not marked for deletion | a service or instance not marked is in an active state |

so that a crash between two commands, a command that fails and a reboot are all
steps the abstract service may take. The two halves of the mapping for launchd
matter: an uninstall has removed the service only when both file and job are gone.
A marked service is on its way out: it can only stop, and its name is taken
until then.

The proofs: **`RunInteractiveProofs.tla`** and **`WinServiceProofs.tla`**;
**`UniServiceManagerProofs.tla`**, what the proofs about any platform need of the
front end, and **`UnixManagerProofs.tla`**, what systemd and launchd share besides;
**`SystemdProofs.tla`** (any number of clients) and **`SystemdAloneProofs.tla`** (a client
that has the service to itself); **`LaunchdProofs.tla`** and **`ScProofs.tla`** (both).

Operators that stand directly before a definition, have its parameters and are
used nowhere (`JoinWithoutWaiting` before `Join`) are mutants: plausible mistakes
in that code, each of which must break the property `PROJECT.json` pairs it with.

## Runs

Passing:

| Run | Configuration | Instance | Shows |
|---|---|---|---|
| `interactive` | `RunInteractive.cfg` | channel for 1 message, 3 signals, service possibly started before | `OkMeansJoined`, `JoinFollowsNotice`, `SendNeverBlocks`, `HandlerOutlivesLoop`, `ErrExplained`; under fairness `RequestStops`, `ExitNoticed` |
| `win_service` | `WinService.cfg` | channel for 1 message, 2 Stop controls, service and `SERVICE_APP` possibly used before | `StoppedExplained`, `ReportsInOrder`; under fairness `StopHonoured`, `ExitReported` |
| `systemd` | `Systemd.cfg` | 1 client, all methods, crashes and reboots | `NoDanglingEnable`, `OrphanFree`, `InstalledAsAsked`, `UninstalledForGood`, `ImplementsManagement` |
| `systemd_clients` | `SystemdClients.cfg` | 2 clients that start, stop, restart and install a service that fails and is restarted | `OkMeansStarted`; under fairness `CallsReturn` |
| `launchd` | `Launchd.cfg` | 1 client, all methods, crashes and reboots | `LoadedHasFile`, `InstalledAsAsked`, `UninstalledForGood`, `ImplementsManagement` |
| `launchd_clients` | `LaunchdClients.cfg` | 2 clients, a job with KeepAlive | `OkMeansStarted`, `OkMeansStopped`; under fairness `CallsReturn` |
| `sc_user` | `ScUser.cfg` | 1 client of a user service, all methods, crashes and new logons | `OrphanFree`, `InstalledAsAsked`, `OkMeansStopped`, `ImplementsManagement` |
| `sc_system` | `ScSystem.cfg` | 2 clients of a system service with failure actions, reboots | `OkMeansStarted`, `OkMeansStopped` |

Violated, each by what the code does against what its documentation says:

| Run | Property | What happens |
|---|---|---|
| `interactive_failure` | `FailureReported` | the service function fails: its error is logged, `run_service` returns Ok, and restart-on-failure never sees it |
| `systemd_autostart` | `AutostartHonoured` | `install` fails once after writing the unit file (its `sync_all`, or `enable`): the retry starts the service and returns Ok without enabling it |
| `launchd_autostart` | `StartsWhatItInstalls` | `install_if_needed_and_start` of an autostart service fails with `WrongState(Running)`, in the order of the README's example |
| `launchd_rewrite` | `BootstrapsItsSpec` | `install` fails after writing the property list (its `sync_all`, or `bootstrap`): the next, shorter install leaves the end of the old property list in the file |

More disagreements that the models contain, without a run of their own:

* When the signal handler cannot be set (`lib.rs`, 68), or a report to the SCM fails
  (`win_service.rs`, 114), `run_service` returns Err and leaves the service function
  at work; `ErrExplained` and `StoppedExplained` name the cases.
* The Windows mode reports Stopped with exit code 0 on every way out, so that the
  failure actions which `sc.rs` installs for restart-on-failure never apply to a
  service function that fails, only to a process that dies.
* A service that another client starts between the status check of an uninstall
  and its first command is, on systemd, uninstalled while it runs. Hence one client
  in the runs about what an uninstall leaves.
* On launchd, a failed `bootstrap`, or a failed removal after `bootout`, leaves a
  property list: `status()` says NotInstalled, and the next login starts the service.
  `ServiceManagement` allows it, for it counts the list as a definition.
* On Windows, a retry of an install that failed after `create` finds the service
  installed, and `install_if_needed_and_start` goes on without its permissions or
  failure actions, as `systemd_autostart` shows of the same code on systemd.
* `status()` and `wait_for_status` document an error for a service that is not
  installed and return, or wait for, `Ok(NotInstalled)` (`manager.rs`, 597 and 603),
  which `uninstall_and_wait` and the tests rely on.
* On systemd a unit that waits for `RestartSec` counts as Stopped, so that a service
  which keeps failing is uninstalled and then started once more (set
  `Specs <- MCResilientSpecs` in `Systemd.cfg` and `OrphanFree` and
  `ImplementsManagement` fail). That is why both are claimed for services without
  restart-on-failure only.

### Bounds

* `Capacity = 1` is the tokio channel; the proofs cover every capacity, so also the
  unbounded channel of `new_sync`. `MaxSignals = 3` is enough for a signal that
  makes the request, one that kills the handler, and one that finds it dead.
  `MaxStops = 2` is one Stop that the loop takes and one that comes later, or too
  late; `StartedBefore` and `RegisteredBefore` let the caller have used the service,
  or `run_service`, before.
* `Clients`: one where the properties are promises to a caller that has the service
  to itself, two where they hold among several. (`OrphanFree` and
  `ImplementsManagement` of `Sc` are proved for any number; `sc_user` checks them with
  the one client that `InstalledAsAsked` wants.)
* `Specs`: one without and one with autostart (and, on Windows, everything else), of
  different lengths where a file is written, and one that `install` must refuse; with
  restart-on-failure in the runs of two clients. `UserService` is TRUE in `sc_user`,
  where it makes the difference between one entry and two.
* `MaxPolls = 1`: the timeout may be over at any poll and certainly is at the
  second. More polls repeat the same choices. `Ops` in the runs of two clients
  leaves out methods whose legs another one in the set has.
* `Hazards`: crashes and reboots (on Windows also logons) in the runs of one client,
  reboots in `sc_system`. Calls are not bounded.

### Fairness

`RunInteractive`: the operating system runs the main thread and the ctrlc thread,
and the service function keeps its contract (it reads its receiver, and returns
once told to stop or when it no longer listens). Without the contract `stop()`
blocks in `join` for good: the code has no timeout there. Nothing obliges a
signal to come or a function to end.
`WinService`: the same contract; the threads of `service_main`, of the control
handler and the main one are scheduled until the process exits. Nothing obliges the
SCM to send a control, the application to exit, or a report to succeed.
`Systemd`, `Launchd`: a call that has begun goes on; every command it runs
returns, with any outcome. Nothing obliges a client to call, a process to end or
the platform to restart it. The runs of `Sc` check safety only: the front end's
polling is the same code there, and that a call of `Sc` takes boundedly many steps of
its client is proved.

## Proofs

`RunInteractiveProofs` proves, for every `Capacity`, `MaxSignals` and
`StartedBefore` that the assumptions allow, the type invariant and the five safety
properties of the run `interactive`. None is inductive as it stands. `IInv` adds

* `HandlerInv`: the handler is unset until `SetHandler`, set in the loop, and
  dead only after it;
* `NoticeInv`: before `Send` the service's channel is empty and the function has
  been told nothing, which is why a send finds room;
* `ThreadInv`: a thread that is over has an outcome and no receiver, and the
  thread exists from the loop on;
* `CauseInv`: `stop()` gets to its send only after a signal, since a loop that
  ended by itself has seen `is_finished`;
* `ResultInv`: `OkMeansJoined` and `ErrExplained` themselves.

`InitInv` and `StepInv` (one case per action) give `Spec => []IInv`; each theorem
follows from it. The only assumptions are `CapacityAssumption` and
`RunAssumption`, which TLC checks in the run.

`WinServiceProofs` proves, for every `Capacity`, `MaxStops`, `StartedBefore` and
`RegisteredBefore`, the type invariant (`TypeCorrect`), `StoppedExplained`
(`StoppedIsTrue`) and `ReportsInOrder` (`OnlyForward`). Its `IInv` adds

* `StatusInv`: what has been reported is a function of where `service_main` is, until
  it returns, which is what orders the reports;
* `HandleInv`: the handle is open from the registration to the return, nothing is
  reported without it, and Stopped only by its drop;
* `NoticeInv` and `CauseInv`, as in interactive mode, with Stop controls for signals;
* `ReturnInv`: `StoppedExplained` from the moment `run_service` returns. A failed
  registration is excepted: it may leave a service that the caller had started at
  work, but there is no handle, and nothing is reported.

Its assumptions are `CapacityAssumption` and `WinAssumption`.

### The manager

Every safety and action property of the passing runs is the statement of a theorem:

| Theorem | States | Clients | Systemd | Launchd | Sc |
|---|---|---|---|---|---|
| `TypeCorrect` | `TypeOK` | any | x | x | x |
| `StartsForReal` | `OkMeansStarted` | any | x | x | x |
| `StopsForReal` | `OkMeansStopped` | any | | x | x |
| `CallsAreShort` | what `CallsReturn` needs besides fairness | any | x | x | x |
| `TemplateOutlivesInstance` | `OrphanFree` | any | | | x |
| `DisabledBeforeGone` | `NoDanglingEnable` | one | x | | |
| `StoppedBeforeGone` | `OrphanFree` | one | x | | |
| `KeepsFileOfLoaded` | `LoadedHasFile` | one | | x | |
| `InstallsAsAsked` | `InstalledAsAsked` | one | x | x | x |
| `UninstallsForGood` | `UninstalledForGood` | one | x | x | |
| `Implements` | `ImplementsManagement` | one; in `Sc` any | x | x | x |

Each is for every set of methods and of `ServiceSpec`s, every `MaxPolls` and every
set of `Hazards`. "One" is the hypothesis `Alone`, `\A c, d \in Clients : c = d`. It
is not there for convenience: no lock keeps a second client from installing, starting
or removing the service between two commands of the first, and TLC finds each of these
properties violated with two clients. The failures, crashes and reboots of the one
client are all there. `StoppedBeforeGone` and `Implements` of systemd also want specs
without restart-on-failure, for the reason given under the violated runs.

The assumptions are `ManagerAssumption`, `SystemdAssumption`, `LaunchdAssumption` and
`ScAssumption`, which TLC checks in the runs: the specs are `ServiceSpec`s, the methods
are those of the front end, the capabilities are those that the platform's module
declares.

**The front end.** `UniServiceManagerProofs` says, for every operator of
`UniServiceManager`, that it keeps the types (`CheckTyped`, `PollTyped`, ...), where it
may lead (`CheckOutcome`, `ActedOutcome`, `PollOutcome`, ...) and that it touches one
client only (`Proceeds`). `ManagerInv` is its part of the inductive invariant: whoever
installs was given a spec (`HasSpec`), and whoever polls waits for what its leg expects
(`Waits`). That Ok is not an error in disguise is in `FailOutcome`: what `Tolerated`
forgives, it forgives in the first of two legs only. `AsksStops` and `ActedStops` say
that a method which stops the service gets to its second leg, or to its Ok, only on
an answer Stopped or NotInstalled. Each platform's invariant adds that a client that
acts is at a step of its leg's verb (`AtStep`).

**Systemd, any number of clients.** `Inv` adds, for each client,

* `Starting`: whoever is about to run `systemctl start` has found the service not
  running, so if a process is there now it was started since; without this, `start`
  on an active unit would return Ok for the old process;
* `Started`: whoever waits in the last leg of a method that starts has had a process
  started.

A step of one client cannot disturb another's part (`UntouchedInv`) because whatever
makes the unit active starts a process for all of them (`FreshProcess`).

**Launchd and Sc, any number of clients.** `kickstart -k` and `sc start` always start
a new process, so `Started` is enough. `HasStopped` is the counterpart for the methods
that stop: in its second leg such a method has seen the end of the process that ran at
its call. It rests on `NoneLeft` (in `Sc`, `WatchOK`): without a process nobody waits
for the end of one, which is what makes the answer Stopped worth something
(`StoppedIsTrue`, `TrueToState`). In `Sc` that answer may come from the template, after
the query for the instance has been in vain; `AskedOK` says that there is still no
instance then, because only a new logon makes one, and no client outlives its session.

**Template and instance.** `OrphanFree` of `Sc` becomes inductive with `OrphanInv`: when
an uninstall comes to the template, the instance is gone or marked for deletion. No
other client can undo that, which is why this one holds without `Alone`.

**Install and uninstall, one client.** What an install has done so far is the
invariant: on systemd and launchd (`InstallInv`) the file exists when it is written to
and is made from the installer's own spec when the last command reads it, and no
longer than that because an install starts without a file or fails; in `Sc` it is the
set of tasks done, which is those wanted that come before the step the client is at
(`DoneSoFar`, along `Follows`, the order in which `Proceed` takes them). An uninstall
that is at its last step has disabled the service (`EnableInv`), unloaded the job
(`LoadInv`) or dealt with the instance (`OrphanInv`); on systemd `OrphanInv` says that
it is at work only while the unit is inactive. `SuccessIsLast` (`SuccessIsDone` for
systemd) says that an install or uninstall succeeds at its last step only.

**The refinements.** `ServiceManagement` has one action per thing that the service or
a client may do; a step of a platform is mapped in two halves. `ClientsManage` says that
each client begins a request (with the status it needs, by the answer it was just
given), ends one, or rests; `DataManage` says that `defined` and `running` change as a
define, a removal, a run or an end allow. `ManageIsNext` puts the two together into
`Managed!Next`, and `AskManages`, `ActManages` and `OthersManage` go through the actions
of the platform. A failed `bootstrap`, a half-done uninstall, a crash or a reboot is
always covered by a step that the promise allows, or by none (a stutter).
`Sc` keeps the promise for any number of clients. There a second client can neither
start what is being uninstalled nor take the template from under an instance: an
uninstall marks what runs, and a service that is marked is, for `ServiceManagement`,
not running any more. On systemd the unit file goes while the unit that another client
has just started is active, and on launchd the file while another client loads it.

**Calls are short.** `Left` counts, at most, the steps that a client has to take until
its call returns: legs to come, polls, commands of the platform's method (`Ahead`).
`Togo` is that number for a platform; in `Sc` it is doubled, since a status query may
take two steps. `CallsAreShort` says that it is bounded (`2 * MaxPolls + 13`, in `Sc`
`4 * MaxPolls + 26`), is 0 exactly when no call is going on, falls with every step of
the client, and is not raised by anybody else's. This is `CallsReturn` but for one
thing: that a client which is in a call can take a step and does (fairness).

### Model-checked only

* The liveness properties: `RequestStops`, `ExitNoticed`, `StopHonoured`,
  `ExitReported`, and of `CallsReturn` what is left beside `CallsAreShort`: the
  prover has neither `ENABLED` nor leads-to under fairness.
* The four violated runs, which are counterexamples.

## Not modelled

The external side is an assumption: `systemctl`, `launchctl` and `sc.exe` do what
their exit codes are taken to mean by the code, a garbled property list is refused,
a unit or job that is to be restarted is neither running nor gone, the SCM takes a
Stop when a service's last report accepts it, and a service deleted while it
runs is marked and goes when it stops. The paused states of the SCM are left out:
a service of this crate never accepts Pause. A status query of `Sc` that fails has one
answer, `Failed`: `raw_status` maps an exit code of 1073 to AlreadyInstalled
(`sc.rs`, 213), which `sc query` does not return. `Sc` is about one
session: `new()` takes the luid of the first user service that `sc query` lists, which
need not be the caller's, and which sessions `sc query` shows is not in the code.

The contents of unit files and property lists are reduced to "made from this spec".
The constructor's checks of names and prefixes, the detection of the platform in
`new()`, the `ServiceSpec` builder, string conversion and error texts change no
state. The tests, `test_bin`, the examples and CI use the crates and are not modelled;
what `test_bin` does after `run_service` returns (exit) is in `WinService`.

## Plan

1. Done: `Service`, `RunInteractive` and its proofs; `UniServiceManager`,
   `UnixManager`, `Systemd`, `Launchd`; the first proofs about `Systemd`.
2. Done: `WinService` over `Service`, `Sc` over `UniServiceManager`, the order of
   reports as their common interface, and `ServiceManagement`, which all three
   platforms implement.
3. Done: every safety and action property of the runs proved; the refinements of
   `ServiceManagement` by all three platforms; the bound on the steps of a call.
4. To do: the same kind of bound for `RunInteractive` and `WinService` (the steps
   from a request, or from the end of the service function, to the return of
   `run_service`), which is the safety half of their liveness; what is left of
   `Alone`, that is, which of the properties of one client survive clients that
   only start and stop.
