------------------------------- MODULE Daemon -------------------------------
(***************************************************************************)
(* The hpd daemon around its executor: boot from state.toml, the clients   *)
(* that send requests, the udev power monitor, the logind suspend monitor, *)
(* SIGTERM, crashes and power cycles, and the charger and the suspends of  *)
(* the world outside.                                                      *)
(*                                                                         *)
(* Any client request may be in the channel at any time: the D-Bus lock    *)
(* check is made before a polkit round trip and is stale when the request  *)
(* is sent, and the power-profiles shim does not check at all.             *)
(***************************************************************************)
EXTENDS Executor

CONSTANTS
  Requests,        \* the client requests and config reloads of this instance
  RuntimeConfig,   \* config.toml at start
  DefaultProfile,  \* default_platform_profile
  DefaultCurve,    \* default_fan_curve
  DefaultLock,     \* default_ac_max_performance
  DefaultThreshold, \* default_charge_threshold
  FactoryEnvelope, \* what the firmware runs after a power cycle
  MaxRequests,     \* bounds on client requests and SIGTERMs,
  MaxEdges,        \* on charger edges,
  MaxSleeps,       \* on suspends,
  MaxBoots,        \* on daemon starts,
  MaxCrashes       \* and on crashes and power cycles

ASSUME DaemonAssumption ==
  /\ Requests \subseteq LockedWrite \cup FreeRequest
  /\ RuntimeConfig \in Config
  /\ DefaultProfile \in Profile
  /\ DefaultCurve \in Tier \cup {None}
  /\ DefaultLock \in BOOLEAN
  /\ DefaultThreshold \in Charge
  /\ FactoryEnvelope \in Envelope
  /\ WrittenEnvelope(FactoryEnvelope, FactoryEnvelope) = FactoryEnvelope
  /\ 100 \in Charge
  /\ \A n \in {MaxRequests, MaxEdges, MaxSleeps, MaxBoots, MaxCrashes} : n \in Nat

VARIABLES
  monitor,  \* the udev power monitor: started, last seen AC, unsent edge
  resumes,  \* resume signals logind has sent and the monitor not forwarded
  spent,    \* how much of each bound has been used
  durable,  \* the state.toml a power cut would leave: its directory is not synced
  asserted, \* history: how much of the device the last boot or resume wrote
  prefs,    \* history: the levers before the lock was entered, if known
  unsaved   \* history: did the last save fail

daemonVars == <<monitor, resumes, spent>>
historyVars == <<asserted, prefs, unsaved>>
vars == <<executorVars, daemonVars, durable, historyVars>>

Spend(what, max) == spent[what] < max /\ spent' = [spent EXCEPT ![what] = @ + 1]

FactoryHardware(lim) ==
  [envelope |-> FactoryEnvelope, enforced |-> TRUE, profile |-> "Balanced",
   charge |-> 100, curve |-> None, gpu |-> None, limits |-> lim]

\* The levers the AC lock takes over; a GPU clock of no tier is no choice.
Levers(s) == [Snapshot(s) EXCEPT !.active_gpu_clock = IF @ \in Tier THEN @ ELSE None]

ResumeIsNext ==
  /\ effects = <<>>
  /\ queue # <<>>
  /\ Head(queue).op = "SystemResumed"

-----------------------------------------------------------------------------
(* Boot: run_daemon up to the spawned executor.                            *)

(* A read that fails (missed) falls back: no state file, the lowest power,  *)
(* the default threshold, no charger.  Unreadable limits end the daemon.    *)

LowestEnvelope(lim) == [spl |-> lim.spl_min, sppt |-> lim.spl_min, fppt |-> lim.spl_min]

SeededState(missed) ==
  [power_target |-> IF "target" \in missed THEN LowestEnvelope(hw.limits) ELSE hw.envelope,
   active_profile |-> hw.profile,
   active_fan_curve |-> None, fan_follows_tdp |-> TRUE,
   active_gpu_clock |-> None, gpu_follows_tdp |-> FALSE,
   charge_end_threshold |-> IF "charge" \in Capability \ missed THEN hw.charge
                            ELSE DefaultThreshold,
   last_dc_state |-> None,
   ac_max_performance |-> DefaultLock, is_ac_connected |-> FALSE,
   ac_locked |-> FALSE]

BootState(missed) ==
  LET loaded == IF disk = None \/ "file" \in missed THEN SeededState(missed) ELSE disk IN
  [loaded EXCEPT !.is_ac_connected = "charge" \in Capability /\ "ac" \notin missed /\ ac,
                 !.active_fan_curve = IF @ = None THEN DefaultCurve ELSE @,
                 !.active_profile = DefaultProfile]

PrefsAtBoot(s) ==
  IF s.last_dc_state # None THEN Levers(s.last_dc_state)
  ELSE IF Locked(s) THEN None
  ELSE Levers(s)

Boot ==
  /\ phase = "off"
  /\ Spend("boots", MaxBoots)
  /\ phase' = "running"
  /\ \E missed \in SUBSET {"file", "target", "charge", "ac"} :
       /\ IF missed = {} THEN UNCHANGED faults ELSE Fault
       /\ state' = BootState(missed)
  /\ limits' = hw.limits
  /\ config' = RuntimeConfig
  /\ queue' = <<[op |-> "SystemResumed"]>>
  /\ effects' = <<>>
  /\ monitor' = [up |-> FALSE, last |-> FALSE, unsent |-> None]
  /\ resumes' = 0
  /\ asserted' = "none"
  /\ prefs' = PrefsAtBoot(state')
  /\ unsaved' = FALSE
  /\ UNCHANGED <<hw, disk, ac, durable>>

\* SIGKILL, a panic, or the 5 s shutdown bound running out, possibly in the
\* middle of a write.
Crash ==
  /\ phase # "off"
  /\ Spend("crashes", MaxCrashes)
  /\ phase' = "off"
  /\ queue' = <<>>
  /\ effects' = <<>>
  /\ \/ UNCHANGED hw
     \/ /\ effects # <<>>
        /\ Current.op # "PersistState"
        /\ Supported
        /\ hw' \in HalfWritten(hw, Current)
  /\ UNCHANGED <<state, limits, config, disk, ac, faults, monitor, resumes, durable,
                 historyVars>>

\* Power is lost, or the machine is restarted while the daemon is down.  An
\* older state.toml comes back when the last renames did not reach the disk.
PowerCycle ==
  /\ Spend("crashes", MaxCrashes)
  /\ phase' = "off"
  /\ queue' = <<>>
  /\ effects' = <<>>
  /\ \E lim \in DeviceLimits : hw' = FactoryHardware(lim)
  /\ disk' = durable
  /\ UNCHANGED <<state, limits, config, ac, faults, monitor, resumes, durable,
                 historyVars>>

-----------------------------------------------------------------------------
(* Producers.                                                              *)

RequestStep ==
  \E t \in Requests :
    /\ Send(t)
    /\ Spend("requests", MaxRequests)
    /\ UNCHANGED <<state, limits, config, effects, phase, hw, disk, ac, faults,
                   monitor, resumes, durable, historyVars>>

Terminate ==
  /\ Send([op |-> "Shutdown"])
  /\ Spend("requests", MaxRequests)
  /\ UNCHANGED <<state, limits, config, effects, phase, hw, disk, ac, faults,
                 monitor, resumes, durable, historyVars>>

\* The monitor seeds its last-seen state without emitting an edge.
MonitorSeed ==
  /\ phase # "off"
  /\ ~monitor.up
  /\ monitor' = [up |-> TRUE, last |-> ac, unsent |-> None]
  /\ UNCHANGED <<executorVars, resumes, spent, durable, historyVars>>

\* The mains node can not be read while seeding: whatever the first read then
\* finds is an edge.
MonitorSeedUnread ==
  /\ phase # "off"
  /\ ~monitor.up
  /\ Fault
  /\ monitor' = [up |-> TRUE, last |-> None, unsent |-> None]
  /\ UNCHANGED <<state, limits, config, queue, effects, phase, hw, disk, ac,
                 resumes, spent, durable, historyVars>>

\* Any power_supply event re-reads the mains node; only a change against the
\* monitor's own last-seen state is an edge.
MonitorRead ==
  /\ phase # "off"
  /\ monitor.up
  /\ monitor.unsent = None
  /\ monitor.last # ac
  /\ monitor' = [monitor EXCEPT !.last = ac, !.unsent = ac]
  /\ UNCHANGED <<executorVars, resumes, spent, durable, historyVars>>

MonitorSend ==
  /\ monitor.unsent # None
  /\ Send([op |-> "AcPowerChanged", plugged |-> monitor.unsent])
  /\ monitor' = [monitor EXCEPT !.unsent = None]
  /\ UNCHANGED <<state, limits, config, effects, phase, hw, disk, ac, faults,
                 resumes, spent, durable, historyVars>>

\* Mutated ForwardResume: try_send, the signal is lost on a full channel.
ForwardResumeIfRoom ==
  /\ phase # "off"
  /\ resumes > 0
  /\ queue' = IF Room THEN Append(queue, [op |-> "SystemResumed"]) ELSE queue
  /\ resumes' = resumes - 1
  /\ UNCHANGED <<state, limits, config, effects, phase, hw, disk, ac, faults,
                 monitor, spent, durable, historyVars>>

ForwardResume ==
  /\ resumes > 0
  /\ Send([op |-> "SystemResumed"])
  /\ resumes' = resumes - 1
  /\ UNCHANGED <<state, limits, config, effects, phase, hw, disk, ac, faults,
                 monitor, spent, durable, historyVars>>

\* The logind stream was down when the signal was sent.
MissResume ==
  /\ phase # "off"
  /\ resumes > 0
  /\ Fault
  /\ resumes' = resumes - 1
  /\ UNCHANGED <<state, limits, config, queue, effects, phase, hw, disk, ac,
                 monitor, spent, durable, historyVars>>

-----------------------------------------------------------------------------
(* The world.                                                              *)

ChargerEdge ==
  /\ Spend("edges", MaxEdges)
  /\ ac' = ~ac
  /\ UNCHANGED <<state, limits, config, queue, effects, phase, hw, disk, faults,
                 monitor, resumes, durable, historyVars>>

\* The controller may lose the curve and the envelope across a suspend, and
\* a firmware update may change the advertised limits.
Sleep ==
  /\ phase # "off"
  /\ Spend("sleeps", MaxSleeps)
  /\ \E lim \in DeviceLimits, lost \in {hw, DropsControl(hw)} :
       hw' = [lost EXCEPT !.limits = lim]
  /\ ac' \in BOOLEAN
  /\ resumes' = resumes + 1
  /\ asserted' = "none"
  /\ UNCHANGED <<state, limits, config, queue, effects, phase, disk, faults,
                 monitor, durable, prefs, unsaved>>

-----------------------------------------------------------------------------
(* History.  asserted says what the last boot or resume wrote ("all", or   *)
(* only what "changed") and, after a failed write, whether its rollback is *)
(* next in line ("rolled") or "overtaken": queued behind other transitions *)
(* or outrun by a later effect of the same one.                            *)

RewritesAll(s) == Locked(s) \/ s.last_dc_state = None

IsSync(t) == t.op \in SyncOps

Syncs(q) == {i \in 1..Len(q) : IsSync(q[i])}

AfterResume ==
  IF Syncs(queue') # {} THEN "overtaken"
  ELSE IF RewritesAll([state EXCEPT !.is_ac_connected = state'.is_ac_connected])
  THEN "all" ELSE "changed"

\* A later effect of this transition writes the part that just failed.
Retried ==
  \E i \in DOMAIN effects' :
    /\ effects'[i].op # "PersistState"
    /\ RequiredCapability(effects'[i]) = RequiredCapability(Current)

AfterFault ==
  IF Len(queue') = Len(queue) \/ asserted \in {"none", "changed"} THEN "none"
  ELSE IF asserted = "overtaken" \/ Syncs(queue) # 1..Len(queue) \/ Retried
  THEN "overtaken"
  ELSE "rolled"

Saving == effects # <<>> /\ Current.op = "PersistState"

\* The directory may reach the disk with any step, or only after the next
\* save; with no power cut left in the bounds it makes no difference when.
Surviving == IF spent.crashes = MaxCrashes THEN {disk'} ELSE {durable, disk'}

Executing ==
  /\ ExecutorStep
  /\ asserted' = IF ResumeIsNext /\ phase = "running" THEN AfterResume
                 ELSE IF faults' # faults THEN AfterFault
                 ELSE asserted
  /\ prefs' = IF Locked(state') THEN prefs ELSE Levers(state')
  /\ unsaved' = IF Saving THEN faults' # faults ELSE unsaved
  /\ durable' \in Surviving
  /\ UNCHANGED daemonVars

Init ==
  /\ phase = "off"
  /\ \E lim \in DeviceLimits : hw = FactoryHardware(lim)
  /\ disk = None
  /\ ac \in BOOLEAN
  /\ limits = hw.limits
  /\ config = RuntimeConfig
  /\ state = SeededState({})
  /\ queue = <<>>
  /\ effects = <<>>
  /\ faults = 0
  /\ monitor = [up |-> FALSE, last |-> FALSE, unsent |-> None]
  /\ resumes = 0
  /\ spent = [requests |-> 0, edges |-> 0, sleeps |-> 0, boots |-> 0, crashes |-> 0]
  /\ durable = None
  /\ asserted = "none"
  /\ prefs = Levers(state)
  /\ unsaved = FALSE

Producers ==
  RequestStep \/ Terminate \/ MonitorSeed \/ MonitorSeedUnread \/ MonitorRead
  \/ MonitorSend \/ ForwardResume \/ MissResume

World == ChargerEdge \/ Sleep \/ Boot \/ Crash \/ PowerCycle

Next == Executing \/ Producers \/ World

Spec == Init /\ [][Next]_vars

\* The runtime schedules the executor and the monitors' tasks; nothing makes
\* a client, the charger, the machine or a failure act.
Fairness ==
  /\ WF_vars(Executing)
  /\ WF_vars(MonitorSeed)
  /\ WF_vars(MonitorRead)
  /\ SF_vars(MonitorSend)
  /\ SF_vars(ForwardResume)

FairSpec == Spec /\ Fairness
=============================================================================
