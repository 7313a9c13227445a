# hpd in TLA+

TLA+ models of **hpd**, the handheld power daemon of this repository (`crates/`), the TLC runs that
check them, and TLAPS proofs about them. The daemon owns the power levers of a handheld PC (TDP
envelope, platform profile, fan curve, GPU clock range, charge threshold), lets clients change them
over D-Bus, pins them to maximum performance while the charger is plugged in (the *AC lock*), and
puts the battery preferences back on unplug, across suspends, crashes, reboots and failed writes.

## Inventory

| Component (source) | State it keeps | Operations | Talks to | What is hard | What makes it correct |
|---|---|---|---|---|---|
| Reducer (`hpd-core/src/reducer.rs`, `state.rs`, `transition.rs`, `effect.rs`) | none (pure) | `reduce`: one arm per transition | executor | effect order (a profile write makes the controller drop envelope and curve), snapshot and lock policy | lock pins every lever; unlock restores; effects leave the device as reported |
| Power arithmetic (`reducer.rs`, `invariants.rs`, `inference.rs`, `capabilities/profile.rs`, `fan_curve.rs`, `gpu_clock.rs`, `units.rs`) | none | presets, boosted envelope, validation, cooling tier, curves, GPU range of a tier, tuning repair | reducer, executor | boundaries, rounding, operator factors and fractions | what the daemon derives, its own validators accept; monotone |
| Executor (`hpd-core/src/executor.rs`) | `ProfileState`, cached limits and config, channel | receive, re-read on resume, reduce, publish, dispatch, roll back, exit | backends, persister, watch channel, its own channel | bounded channel it both drains and feeds; rollback races; failures in mid-list | report converges to hardware; never blocks itself |
| Persister (`hpd-core/src/persistence.rs`) | `state.toml` | load, save (write, sync, rename) | disk | crash between publish and save, power loss inside a save | nothing the user set is only in memory when idle; the file is whole |
| Boot, shutdown (`hpd-daemon/src/main.rs`, `config.rs`) | the channel, tasks | load/seed, overrides, queue `SystemResumed`, SIGHUP, SIGTERM | everything | stale file against changed hardware and charger | boot re-asserts what it reports |
| AC monitor (`hpd-netlink`) | last mains state seen | seed, re-read on any event, send edge | executor channel | seeding races with boot; blocking send | the last edge is not lost |
| Suspend monitor (`hpd-daemon/src/suspend.rs`) | logind stream | forward resume | executor channel | full channel, lost stream | every resume received is re-asserted |
| ASUS backends (`hpd-backend-asus/src/power.rs`, `profile.rs`, `fan_curve.rs`, `gpu_clock.rs`, `charge.rs`) | none (the device) | set/get each lever | sysfs | calls of many writes that fail half way or are silently not stored | a call that returns Ok did it all; one that fails leaves a known state |
| D-Bus service, polkit (`hpd-dbus/src/service.rs`, `polkit.rs`) | none (watch receiver, limits of startup) | setters, getters | executor channel, polkit | lock checked before an await; answered before reduced | an error changed nothing; a success has effect, or is one of three named losses |
| Properties emitter (`main.rs`) | last state sent | diff and emit signals | watch channel, bus | coalescing, getters that answer newer values | a mirror fed by signals ends up with the state |
| PPD shim (`hpd-dbus/src/ppd_shim.rs`) | holds, cookie counter, pre-hold snapshot | hold, release, override reconciler, disconnect watcher | executor channel, bus | three kinds of task over two mutexes and a bounded channel | profile follows the holds; snapshot drains |
| Telemetry (`hpd-backend-asus/src/hwmon.rs`, `telemetry.rs`, `thermal.rs`, `fan.rs`) | path cache per backend, last `/proc/stat` sample | sensor reads, CPU load | sysfs, D-Bus getters | reused hwmon indices, overlapping samples | readings come from the named device, loads from a real interval |
| CLI, conflicts, detection, sysfs, errors | none | reads and reports | | | not state machines |

Interactions: every producer (clients, the shim, SIGHUP, SIGTERM, the two monitors, the executor's
own rollback) sends on one bounded mpsc channel; the executor is the only consumer and the only
writer of the state, the device and the file; the shim's reconciler, the emitter and the getters see
the state through a watch channel, which keeps only the newest publication.

`PROJECT.json` lists every component with what is modelled, and every hazard with its line.

## Modules

    PowerEnvelope            the power arithmetic (operators only)
      |- Cooling             fan curves and GPU clock ranges (operators only)
      |    `- EnvelopeSweep  sweeps the SPL over device ranges and tunings   MCEnvelopeSweep
      |         `- EnvelopeSweep_proofs
      `- Reducer             transitions, effects, reduce (operators only)
           |- LockPolicy       what the AC lock promises a user (abstract)
           `- Devices        what a whole backend call leaves on the device (operators only)
                |- DeviceCalls   a backend call as the executor takes it (abstract)
                |- Backends      the same call, one sysfs or file operation at a time;
                |                implements DeviceCalls                      MCBackends
                |                `- Backends_proofs
                `- Executor      the executor's state and steps, the device, the file
                     `- Daemon   boot, producers, charger, suspend, crash; Spec, FairSpec
                          `- DaemonProperties   implements LockPolicy        MCDaemon
                               `- Daemon_proofs -> Lock_proofs -> Converge_proofs
    PpdShim                  holds and the two tasks that end them           MCPpdShim
      `- PpdShim_proofs
    Bus                      D-Bus setters and the properties emitter        MCBus
      `- Bus_proofs
    Sensors                  the hwmon name cache and the CPU load           MCSensors
      `- Sensors_proofs

* **PowerEnvelope**: `SetPreset`/`SetSpl` arithmetic, `derive_boosted_envelope`,
  `validate_power_envelope`, `infer_fan_curve_from_spl`, `sanitized`. Milliwatts are exact integers;
  f32 factors and fractions are integer percentages. Rounding is that of exact arithmetic.
* **Cooling**: the preset curves of the RC73XA, `FanCurve::validate_against`,
  `gpu_clock_range_for_tier`, `GpuClockFractions::sanitized`.
* **Reducer**: one operator per arm. `Output(state, effects)` is `ReducerOutput`, `Rejected` an
  `Err`. The effect lists are in the code's order. A GPU range is named by its tier; `Unmanaged` is
  the read-back that is no tier.
* **Executor**: variables `state` (watch channel), `limits`, `config`, `queue` (mpsc), `effects`
  (rest of the current list), `phase`, `hw`, `disk`, `ac`, `faults`. A transition is three kinds of
  step, as in `run`: reduce and publish (`ReduceTransition`, `ReduceResumed`, `ReloadConfig`), then
  one step per effect (`ApplyEffect`, `IgnoreEffect` for a missing capability, `FailEffect`,
  `SkipGpuRange`, `Persist`), then `Exit` after a `Shutdown`. Between any two of them producers
  send, the charger moves, the machine sleeps or the daemon dies. `hw.enforced` is the part no
  backend can read: whether the controller still enforces the envelope sysfs shows.
  `Devices!HalfWritten` lists where a failed multi-file write can stop; `FailEffect` then enqueues
  `SyncOf(hw')`, or drops it when the channel is full or the device is unreadable.
* **Daemon**: `Boot` is `run_daemon` up to the spawned executor (file or hardware seed, fallbacks of
  failed reads, the two overrides, the queued `SystemResumed`). The monitors keep their own state.
  A client request may be sent at any time: D-Bus checks the lock before a polkit round trip, so
  its check promises nothing when the request arrives.
  `durable` is the `state.toml` a power cut would leave: `save` does not sync the directory, so a
  `PowerCycle` may bring back an older file, always a whole one (`StateFileWhole` of Backends). The
  monitor seeds from the mains node (`MonitorSeed`) or cannot read it (`MonitorSeedUnread`), and then
  takes whatever it reads first for an edge.
  `asserted`, `prefs` and `unsaved` are history variables, read by properties only: how much of the
  device the last boot or resume wrote (and whether a rollback is still next in line), the levers that
  were published before the lock was entered, and whether the last save failed.
* **Backends**: `dev` is the device file by file (three rails, the profile string, two fans with
  mode and point table, staged and committed clock, force level), `file` the directory entries of
  `state.toml` and its temporary neighbour with what is durable of them. A call walks through the
  operations of the code in order; each may fail, be stored differently from what was written, or
  be the last before a crash. `HardwareOf` reads the device as the backends' getters do.
  `KeepsPromise` is `DeviceCalls!Spec` under the refinement mapping `hw <- the device the call
  started from` (and what the call left, once it has returned): a call that succeeds did the whole
  `Written`, one that fails or is cut off left one of `HalfWritten`. These are the very steps
  `ApplyEffect`, `FailEffect` and `Crash` of Executor take, so the Daemon runs rest on it.
* **PpdShim**: each await of the code is a boundary between steps: taking a cookie and the published
  profile, registering (both mutexes), sending (waits for room), taking the snapshot, sending it
  with the snapshot's mutex still held. `fresh` is the watch channel's changed mark. The executor is
  reduced to what the shim sees: requests in order, ignored under the lock, always published.
* **Bus**: a setter's `Invoke` (lock check and argument checks, in each method's order), one
  `Authorize` per polkit question, `SendRequest`; `Execute` reduces. The emitter wakes, signals one
  property per step, and each signal carries the value published *by then*, as a zbus getter does.
  An argument is one the device takes (`fits`), the top of the range `get_hardware_limits` answers
  (`ceiling`), or `outside`; every setter but `set_spl` refuses the last itself. `overtaken` marks
  requests whose lock check is out of date; `Stop` discards what is still queued.
* **Sensors**: `Resolve` under the cache's mutex, `Scan` and `Insert` without and with it,
  `ReadAttr` through the path; drivers come and go in between. `ReadStat`, `ReadClock` and `Sample`
  are the three steps of `get_cpu_busy_pct`, of which only the last holds the mutex.
* **LockPolicy**: the AC lock as the user is told of it. `mode` is down, settling (between a boot and
  the `SystemResumed` it queued), free or locked; `levers` are published, `kept` are the battery
  preferences to bring back, `ceiling` is the envelope a lock pins. User writes happen in free mode
  only; entering the lock forces the levers and keeps what they were (or nothing, when a resume finds
  the charger); leaving it brings back what was kept; a locked lever changes only to be pinned again
  or, once an operation has failed, to be corrected. There is no channel, device, file or charger in
  it: the refinement mapping in DaemonProperties (`Policy`) derives all five variables from the
  published state, the cached limits and the phase, and `FollowsPolicy` is `LockPolicy!Spec` under it.
* **DaemonProperties**: what is checked of Daemon. The **MC** modules give the constants.

Definitions called `Mutated X` beside `X` are plausible bugs of the code `X` models (a missing
reset, a swapped order, a blocking send). Nothing uses them; substituting one for `X` makes TLC
report the property paired with it in `PROJECT.json`, which shows that the property has teeth.

## What the runs check

| Run | Properties | Shows |
|---|---|---|
| ac_lock | `TypeOK`, `LockPinsLevers`, `ReassertConverges`, `UnlockRestoresPrefs` | the lock under toggles, edges, reload, suspend, changing limits |
| crash | `SnapshotOnlyWhileLocked`, `IdleIsDurable`, `FollowsPolicy`, `UnlockRestoresPrefs` | crash or power cycle at every step and a second boot from the same or an older file, unlocking across a reboot included, on a device without fan curves |
| rollback | `RollbackConverges`, `SetLeversReconcile`, `GpuConverges`, `ShutdownFlushes`, `FollowsPolicy`, `ReleaseEndsFollow` | every request kind with failing and half-finished writes, a one-slot channel, then a resume or SIGTERM |
| progress | `ChannelDrains`, `ResumeReasserts` | the channel drains and resumes are re-asserted, under fairness |
| envelope | `DerivedIsValid`, `PresetsAccepted`, `SanitizedIsUsable`, `CoolingAccepted`, `MorePowerNeverLess`, `CoolingFollowsPower` | all SPLs of six device ranges, 208 tunings each |
| shim | `TypeOK`, `SnapshotDrains`, `ProfileFollowsHolds`, `CookiesUnique` | two clients with holds, releases, overrides, disconnects and the AC lock |
| bus | `TypeOK`, `ErrorMeansUntouched`, `SuccessHasEffect`, `SignalsSuffice` | calls across lock check, polkit and send, with arguments in and out of range and a shutdown at any step; the emitter against coalesced publications |
| devices | `TypeOK`, `EnabledWhole`, `StateFileWhole`, `KeepsPromise`, `FansAgree`, `FailedClockReleased` | every operation of every backend call failing, mis-stored or cut off; the refinement of DeviceCalls |
| sensors | `TypeOK`, `AnswersTheNamed`, `PercentOfAnInterval`, `PollersAreAnswered` | overlapping telemetry calls and drivers that are loaded again |

Three runs expect a violation. Each checks one sentence of the repository that the code does not keep;
the finding in `PROJECT.json` quotes it.

| Run | Property | What TLC finds |
|---|---|---|
| sleep_plug | `BatteryPrefsRestored` | plugged in asleep or before the boot's re-assert: locked without a snapshot, so unplugging cannot restore |
| rollback_race | `OvertakenRollbackConverges` | a late `Sync` overwrites the report of a newer, successful write |
| ac_blip | `ChargerFollowed` | an edge between the boot's re-assert and the monitor's seed is never delivered |

The passing properties next to them are the parts that do hold: `UnlockRestoresPrefs` (once a
snapshot was taken), `ReassertConverges` (when the resume rewrote everything, and nothing failed or
crashed before), `SetLeversReconcile` (whatever failed or crashed before, for the levers that are
set), `RollbackConverges` (when nothing overtakes the rollback; unset levers too when it was the
first failure), `GpuConverges` (without a failure or a crash). The split between set and unset levers
is the code's: a resume writes nothing for a fan curve or a GPU clock that is reported as unset, so
what a lost rollback or a crash left there stays.

Other places where the models are wider than the properties, because the code does it:

* A boot or resume that restores a snapshot writes only what differs in memory (`reducer.rs:341`),
  not what a power cycle reset on the device.
* `ResetGpuClocks` finds nothing to do when no clock is recorded (`reducer.rs:183`), and the rollback
  of a first GPU write that failed records none while `gpu_follows_tdp` stays on: auto-follow then
  outlives the reset that, by `state.rs:109`, flips it off, and the next TDP change sets a clock
  again. `ReleaseEndsFollow` says that a failed write is the only way to get there.
* An unplug without a snapshot on a device whose SPL range is a single value: the quiet defaults turn
  `fan_follows_tdp` on, but the Balanced preset is the target already, so that nothing is written or
  saved (`reducer.rs:294`). `IdleIsDurable` is proved for devices with a real range.
* A crash between the first GPU clock write and its `PersistState` (`reducer.rs:177`) leaves the
  clock pinned while the next boot reports firmware auto.
* `set_spl` answers success for any `u32` (`service.rs:171`); watts outside the executor's limits are
  rejected by the reducer (`reducer.rs:97`), which only logs. So are watts at the top of the range that
  `get_hardware_limits` answers, once a resume has found a lower one (`service.rs:273`).
* Requests that were answered with success and are still queued behind a `Shutdown` are discarded
  with the channel (`executor.rs:189`).
* A fan curve whose point the controller takes but does not store is found by the read-back
  (`fan_curve.rs:245`) when both fans have been enabled already (`fan_curve.rs:237`), and they stay so; a
  custom curve that is replaced by another is rewritten while it runs. `fan_curve.rs:235` says that the
  controller never runs a half-written curve; `EnabledWhole` is the part of it that holds.
* When one of the two enable writes of a fan call fails, the fans are left in different modes, and
  what is read back is the mode of the CPU fan (`fan_curve.rs:272`).
* When the cleanup of a failed clock write fails too, the clock stays in manual mode
  (`gpu_clock.rs:180`).
* A daemon that is abandoned five seconds after its `Shutdown` (`main.rs:721`) loses what its queued
  transitions would have saved, like a crash.
* A dropped rollback of `ResetFanCurve` (`executor.rs:396`) is not made up for by a resume, which
  leaves an unmanaged curve alone.
* The override reconciler (`ppd_shim.rs:440`) compares on every publication, not only on one that
  changed the profile. It cancels a hold that is taken while the AC lock ignores its `SetProfile`,
  or whose `SetProfile` is not reduced yet when something unrelated is published, and emits
  `ProfileReleased` although nothing overrode the hold.
* An `OD_RANGE` of a single value gives a clock range of equal ends, which `validate_against`
  rejects; `CoolingAccepted` assumes a range.
* PowerSaver on a device with neither `quiet` nor `low-power` is written, and read back, as
  Balanced (`hpd-backend-asus/src/profile.rs:58`).

### Bounds

Daemon: `MaxRequests`, `MaxEdges`, `MaxSleeps`, `MaxBoots`, `MaxCrashes` and `MaxFaults` bound how
often clients, the charger, suspends, starts, crashes and failures happen; nothing else is cut off. Two
requests and two charger edges are enough for every pair of transitions to meet in the channel, for
a lock to be entered, changed and left again, and for an edge to be undone; a second boot meets the
file of the first. With no power cut left in the bounds it makes no difference which file one would
leave, and `durable` follows the file (`Surviving`). Channels of one and two slots reach the full channel; the real 32 slots only
make that rarer. `Charge`, the custom profile and curves are representatives, since the
code only compares them. The limits in `MCDaemon` are the real device's. In the sweep a watt is ten
units, so that whole-watt truncation matters while every SPL can be visited; two of the six
devices are deliberately not sane (`SaneLimits`), to exercise the operators outside the range where the
properties apply; 144 tunings of the power factors and 64 triples of GPU fractions are tried, each
with the other at its default, since the two are read by separate operators.

Shim: two clients, two holds, one outside event (an ActiveProfile write, a charger edge or an
unrelated request) and a one-slot channel. Two holds are what precedence, a drained stack and a
cookie race need; the outside event is what overrides or unlocks. Bus: two clients, two calls, two
edges or limit changes, one signal that cannot be emitted; of each shape of setter one method.
Devices: three calls in a row with two failing operations, so that a call meets what a failed one
left, and a cleanup may fail after the failure it cleans up; a fan table of two points, since only
the order of points and of fans matters; targets that are not whole watts and one without FPPT.
Sensors: two callers, three calls, two drivers that may trade places, three ticks with a minimal
gap of two. `CHECK_DEADLOCK FALSE` everywhere: a daemon may be down for good, and a run ends
when its bounds are spent.

### Fairness

`FairSpec` assumes weak fairness of the executor task and of the monitor's own steps, since tokio
polls a ready task eventually; and strong fairness of the two blocking sends (`MonitorSend`,
`ForwardResume`), since a tokio mpsc gives permits to waiting senders in order, so a sender that
waits while the channel keeps getting room does get in. Nothing makes clients, the charger, the
machine, crashes or faults happen. The shim, the bus, the backends and the sensors are checked for
safety only; `ProfileFollowsHolds` and `SignalsSuffice` say what is true once nothing is left to do.

## What is proved

For every value of the constants allowed by the named assumptions (`PowerAssumption`,
`SelectionAssumption`, `SnapshotAssumption`, `ExecutorAssumption`, `DaemonAssumption`,
`SweepAssumption`, `BusAssumption`, `ShimAssumption`, `SensorsAssumption`, `BackendAssumption`, each
a typing or disjointness condition, or the range of a device value): any channel capacity, any capabilities, device limits and
requests, any number of clients, calls, edges, suspends, boots, crashes and faults.

* `DaemonTypes` (Daemon_proofs): `Spec => []TypeOK`, from `ReduceType` (the reducer is total on its types).
* `EveryDerivedIsValid`, `EveryPresetAccepted`, `EveryTuningUsable`, `EverySweepMonotone`,
  `EveryCoolingAccepted`, `EveryCoolingFollows`: the six sweep properties, for all devices with sane
  limits, all tunings and all fractions. The last two rest on monotonicity of rounded integer
  division and on the floor of one megahertz that `gpu_clock_range_for_tier` adds.
* `LockInvariant`: `Spec => []LockInv`, and from it `SnapshotIsLocked`, `LockPins`,
  `UnlockRestores`, the three properties of the AC lock.
* `PolicyIsFollowed`: `Spec => FollowsPolicy`, the refinement of LockPolicy, and `PolicyPins`, what
  follows from the policy alone. `ResetsEndFollow`: `Spec => ReleaseEndsFollow`.
* `ConvergeInvariant`: `Spec => []ConvergeInv`, and from it `ReassertIsReported`,
  `SetLeversAreReconciled`, `GpuIsReported`, `RollbacksConverge` and `ShutdownIsFlushed`, the
  properties of what the device runs and the file holds; `IdleDurable` for devices whose SPL range
  is not a single value.
* `BusTypes`, `ErrorsUntouch`, `SuccessesAreAccounted`, `SignalsAreEnough`: the properties of Bus.
* `ShimTypes`, `SnapshotsDrain`, `CookiesAreUnique`, `HoldsAreFollowed`: the properties of PpdShim.
* `SensorsTypes`, `ReadingsAreNamed`, `LoadsAreOfIntervals`, `PollersGetLoads`: those of Sensors.
* `StateFileIsWhole`, `BackendTypes`, `FansAlwaysAgree`, `ClocksAreReleased`, `EnabledIsWhole`: the
  properties of Backends, and `BackendsKeepPromise`, its refinement of DeviceCalls.

Two assumptions are more than a type. `ExecutorAssumption` says that `None`, the model value of an
absent file, is no `ProfileState`. `DaemonAssumption` says that the factory envelope is one the power
backend reads back as it wrote it (`WrittenEnvelope(FactoryEnvelope, FactoryEnvelope) =
FactoryEnvelope`): the firmware's rails are whole watts, as every sysfs rail is.

The lock argument. `SnapshotOnlyWhileLocked` is not inductive alone. `LockInv` adds: `PrefsKnown`
(`prefs` has the levers of the snapshot where there is one, and those of the state where it is unlocked), that neither the file nor the older one a power cut
may bring back says `ac_locked` (`FilesUnlocked`; `#[serde(skip)]`, so that a boot starts unlocked until its `SystemResumed`), and, while nothing has
failed, that no `Sync*` is queued and that a locked state is pinned. The last two are needed together: a `Sync*` is the only transition
that moves a lever under the lock, and it needs a failure. Every step that reduces a transition
either keeps the lock and the snapshot, enters the lock with a snapshot of the unlocked state, or
leaves it with the snapshot consumed (`ReduceMoves`: `Kept`, `Entered`, `Left`); a resume pins or
consumes (`ResumeMoves`). Steps that do not touch the published state keep `LockInv` by `FrameKeeps`.

A `ConfigReload` under the lock does not unpin: at `spl_max` the boost rails are their own ceilings and
no operator factor enters, so `MaxEnvelope` does not depend on the tuning. A change of the limits does, and the
proof uses that the executor re-reads them only where it pins again in the same step (`ReduceResumed`).

The policy argument. Every step of Daemon is classified by what it does to the published state. A move
of the reducer (`Kept`, `Entered`, `Left`) is a `Choose` or a stutter, a `Lock`, an `Unlock`
(`MoveIsPolicy`); a resume is a `Lock`, `LockAgain`, `Repin`, `Unlock` or `Choose`, after the mode the
daemon was in; a `Sync*` needs an earlier failure (`LockInv`), which is what `Correct` asks for; a boot is a `Start`; exits,
crashes and power cycles are a `Stop`. The extra invariant is `ReportsLock`: from the boot's resume
on, `ac_locked` is what `Locked` says, so the settling mode is over after it.

The follow argument. `FollowInv`: while nothing has failed, in the state, in the snapshot it holds, in the
file and in the older one, a lever that follows the envelope has a clock of a tier. The lock clears the flag with the pin,
a snapshot is restored with its pair, and a resume that clears an `Unmanaged` clock meets no flag, as
the invariant asks for a tier. In a rollback the flag stays and the clock goes.

The convergence argument. `ReassertConverges` speaks of the moment between transitions; the invariant
has to hold in the middle of an effect list. For each part of the device the `*Due` formulas say: either
the last of the remaining effects that touch the part writes what the state reports (`Ends`), or none touches it and the
part is right already. A profile write touches the envelope and the curve too, because the controller drops
them; this is where the order of every effect list enters the proof. A list produced by the reducer
*drives* the device from one state to the next: it ends with the new value of every lever it
changed, and touches no other (`Drives`); the list of a re-assert does so from any device (`Asserts`). After a failure `asserted` says
whether the rollback is next in line; if so, the parts that are due are those with no `Sync*`
pending, and every pending one reports what the device runs and, as no later effect touches the part,
will run (`SyncsLead`, `SyncRuns`). `OffDue`, for levers reported as unset, survives the first failure
but no crash; `FileOff` carries it over a restart. `Flushed` says of a stopping daemon that its
`PersistState` is in the list or done, unless that save failed (`unsaved`), whatever failed before, and
`Durable` the same of a running daemon in which nothing failed; `Managed` keeps `Unmanaged` clocks, which a
resume clears without saving, out of a daemon in which nothing failed.

The bus argument. Calls are numbered, and the numbers of requests sent and of calls refused stay below
the counter and apart. A request that nothing overtook was checked against an unlocked state, and
the state has stayed so; one that is sent is reduced, dropped, in the channel or discarded with it, and
the limits narrow once and for good, so that an excuse stays one. For the signals, the invariant is what the client knows *during* a round:
while nothing was lost or overlapped, its mirror is the emitter's new copy in the properties already
passed and the old copy in the rest, the new copy is the published state, and between rounds the old
copy is, unless a publication waits (`Followed`).

The shim argument. `SnapshotDrains` is inductive by itself with the types. `CookiesUnique` needs that
every cookie in use, ended or not, is behind the counter. For `ProfileFollowsHolds` the invariant says
that a profile other than the one asked for always has someone to notice it: a command in the
channel, an unseen publication, a task on its way, or the reconciler holding it.

The sensors argument. A call that no driver move disturbed reads an index that has its driver's name,
and its scan has passed no index that has it (`Located`). Of any two samples, in calls or kept as
the baseline, the one taken no later counts no more jiffies (`Aged`), so an interval with new jiffies
ends with the caller's sample. A call that comes too soon leaves the baseline alone, so
that silence is counted from the baseline (`SilentSince`): polling too often starves nobody.

The refinement argument. `Mid` says of every node of the device which operations of the call have
reached it: all else is as it was on entry, the rails before the next one are the call's, a fan call
that has yet to enable a fan has left its mode, and a clock that is being committed is in manual
with what was asked staged. `ClockFree` reaches across calls: in auto the committed clocks are the
driver's, so going manual never shows the range of an earlier call. A call that returns then maps
to one step of DeviceCalls, and every other step stutters. The proof found a case beyond the bounds
of the run: a fan controller that stores nothing of a table is enabled with the one an earlier
call left (with one point per fan this takes three calls and four failures), so a failed `ApplyFanCurve` may leave *any* curve, not only the mixed one.
`HalfWritten` admits that, and the Daemon runs are checked with it.

The table argument. `TableMid` says of a fan call in which nothing failed, over fans that were in auto, that
both modes are as on entry until the first enable, that every point before the next one has been
written, and that both tables are whole once the enable writes start. The points are numbered across
both fans, so the step from "all numbers" to "all points of both fans" is arithmetic of its own
(`PlacesOfPoint`).

The file argument. `StateFileWhole` needs the temporary file: its bytes are whole before the sync,
and whole and synced before the rename, which is what makes the renamed name safe in either
directory.

Only model-checked: the liveness properties `ChannelDrains`, `ResumeReasserts` and (violated)
`ChargerFollowed`, since the prover does not do fairness or `ENABLED`; and the two other violations,
`BatteryPrefsRestored` and `OvertakenRollbackConverges`, which are false. Every safety property that
passes is proved.

## Not modelled

* The wire format of D-Bus, property getters that only read the state, and polkit's own policy: a
  question is granted or not.
* Battery, frequency and VRAM getters and their parsers: stateless reads.
* sysfs paths and formats, the reconnect loop of the AC monitor (a delay of `MonitorRead`), logging.
* A sysfs attribute is taken to hold what was last stored in it until the firmware changes it.
* An unreadable limits file at boot ends the daemon, which is a boot that does not happen.
* Diagnosis, conflict detection, CLI, device detection, packaging: no state, or only reading.
* f32 rounding: percentages are exact, so a derived rail may differ by a milliwatt from the code.
  Tunings that are not finite, which `sanitized` repairs too (`profile.rs:102`, `:256`, `:272`).
* GPU ranges that are no tier are one value, `Unmanaged`: two different ones would be unequal in
  `restore_dc_state` (`reducer.rs:839`), and a clock that is none of the daemon's would be released there.
* A mains node that becomes unreadable after the seed, which loses no more than the event of that read.

## Plan

1. *(done)* PowerEnvelope, Reducer, Executor, Daemon; the lock invariant and its proof.
2. *(done)* Cooling; the shim; the D-Bus service with the emitter; backend calls step by step and
   their refinement of DeviceCalls; telemetry.
3. **AcMonitor** with its reconnect loop, refining the monitor's steps in Daemon.
4. *(done)* LockPolicy and the proof that Daemon implements it.
5. *(done)* Proofs of the convergence, durability, flush and fan table properties.
6. An abstract specification of the shim (the profile asked for by a stack of holds) and of the D-Bus
   service (a request is answered, and then reduced or lost for one of three reasons), with PpdShim and Bus shown to
   implement them.
7. A bound on what a resume that restores a snapshot leaves unwritten (`asserted = "changed"`), which
   no property covers yet.
