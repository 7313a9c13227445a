------------------------------ MODULE Reducer ------------------------------
(***************************************************************************)
(* The pure reducer of hpd-core: reduce(state, transition, limits, config) *)
(* gives the next state and the ordered list of hardware effects, or       *)
(* rejects the transition.  One operator per arm of its match.             *)
(***************************************************************************)
EXTENDS PowerEnvelope, Sequences

CONSTANTS
  CustomProfile,   \* vendor profiles, ProfileName::Custom
  CustomCurve,     \* user fan curves, FanCurveSelection::Custom
  Charge,          \* charge thresholds, 20..100 in the code
  DefaultCharge,   \* DEFAULT_CHARGE_THRESHOLD
  None,            \* Option::None of a selection or a snapshot
  Unmanaged        \* GpuClockSelection::Unmanaged, a range of no tier

Profile == {"PowerSaver", "Balanced", "Performance"} \cup CustomProfile
Curve == Tier \cup CustomCurve
GpuClock == Tier \cup {Unmanaged}

ASSUME SelectionAssumption ==
  /\ DefaultCharge \in Charge
  /\ None \notin Curve \cup GpuClock
  /\ Unmanaged \notin Tier

DcSnapshot ==
  [power_target : Envelope, active_profile : Profile,
   active_fan_curve : Curve \cup {None}, fan_follows_tdp : BOOLEAN,
   active_gpu_clock : GpuClock \cup {None}, gpu_follows_tdp : BOOLEAN]

ASSUME SnapshotAssumption == None \notin DcSnapshot

ProfileState ==
  [power_target : Envelope, active_profile : Profile,
   active_fan_curve : Curve \cup {None}, fan_follows_tdp : BOOLEAN,
   active_gpu_clock : GpuClock \cup {None}, gpu_follows_tdp : BOOLEAN,
   charge_end_threshold : Charge, last_dc_state : DcSnapshot \cup {None},
   ac_max_performance : BOOLEAN, is_ac_connected : BOOLEAN,
   ac_locked : BOOLEAN]

-----------------------------------------------------------------------------
(* The transitions the executor receives and the effects it dispatches.    *)

Bare(ops) == [op : ops]

LockedWrite ==
  [op : {"SetPreset"}, preset : TdpPreset]
  \cup [op : {"SetSpl"}, watts : Nat]
  \cup [op : {"SetEnvelope"}, target : Envelope]
  \cup [op : {"SetProfile"}, profile : Profile]
  \cup [op : {"SetCoolingLevel"}, curve : Tier]
  \cup [op : {"SetCustomFanCurve"}, curve : CustomCurve]
  \cup Bare({"EnableFanAuto", "ResetFanCurve", "EnableGpuAutoFollow",
             "ResetGpuClocks", "RestoreDefaults"})

FreeRequest ==
  [op : {"ChargeThresholdChanged"}, charge : Charge]
  \cup [op : {"SetAcMaxPerformance"}, enabled : BOOLEAN]
  \cup [op : {"ConfigReload"}, config : Config]

Sync ==
  [op : {"SyncPowerTarget"}, target : Envelope]
  \cup [op : {"SyncPlatformProfile"}, profile : Profile]
  \cup [op : {"SyncChargeThreshold"}, charge : Charge]
  \cup [op : {"SyncFanCurve"}, curve : Curve \cup {None}]
  \cup [op : {"SyncGpuClockRange"}, gpu : {Unmanaged, None}]

SystemEvent ==
  [op : {"AcPowerChanged"}, plugged : BOOLEAN]
  \cup Bare({"SystemResumed", "Shutdown"})

Transition == LockedWrite \cup FreeRequest \cup Sync \cup SystemEvent

ApplyPowerEnvelope(e) == [op |-> "ApplyPowerEnvelope", target |-> e]
ApplyPlatformProfile(p) == [op |-> "ApplyPlatformProfile", profile |-> p]
ApplyChargeThreshold(c) == [op |-> "ApplyChargeThreshold", charge |-> c]
ApplyFanCurve(c) == [op |-> "ApplyFanCurve", curve |-> c]
ApplyGpuClockRange(t) == [op |-> "ApplyGpuClockRange", tier |-> t]
ResetFanCurveEffect == [op |-> "ResetFanCurve"]
ResetGpuClocksEffect == [op |-> "ResetGpuClocks"]
PersistState == [op |-> "PersistState"]

Effect ==
  [op : {"ApplyPowerEnvelope"}, target : Envelope]
  \cup [op : {"ApplyPlatformProfile"}, profile : Profile]
  \cup [op : {"ApplyChargeThreshold"}, charge : Charge]
  \cup [op : {"ApplyFanCurve"}, curve : Curve]
  \cup [op : {"ApplyGpuClockRange"}, tier : Tier]
  \cup Bare({"ResetFanCurve", "ResetGpuClocks", "PersistState"})

Output(s, fx) == [ok |-> TRUE, new_state |-> s, effects |-> fx]
Rejected(s) == [ok |-> FALSE, new_state |-> s, effects |-> <<>>]

\* A lever that did something ends its effects with PersistState.
Persisted(o) ==
  IF o.effects = <<>> THEN o
  ELSE [o EXCEPT !.effects = Append(@, PersistState)]

When(cond, effect) == IF cond THEN <<effect>> ELSE <<>>

-----------------------------------------------------------------------------
(* The user's levers, each without the PersistState it ends with.          *)

FanTier(s, lim, cfg) == InferTier(s.power_target, lim, cfg)

\* Mutated ApplyPowerTarget: the GPU clock follows in the report only.
ApplyPowerTargetReportOnly(s, e, lim, cfg) ==
  LET tier == InferTier(e, lim, cfg)
      fan  == s.fan_follows_tdp /\ s.active_fan_curve # tier
      gpu  == s.gpu_follows_tdp /\ s.active_gpu_clock # tier
  IN  IF s.power_target = e THEN Output(s, <<>>)
      ELSE Output([s EXCEPT !.power_target = e,
                            !.active_fan_curve = IF fan THEN tier ELSE @,
                            !.active_gpu_clock = IF gpu THEN tier ELSE @],
                  <<ApplyPowerEnvelope(e)>> \o When(fan, ApplyFanCurve(tier)))

\* apply_power_target: the fan curve and the GPU clock follow when asked to.
ApplyPowerTarget(s, e, lim, cfg) ==
  LET tier == InferTier(e, lim, cfg)
      fan  == s.fan_follows_tdp /\ s.active_fan_curve # tier
      gpu  == s.gpu_follows_tdp /\ s.active_gpu_clock # tier
  IN  IF s.power_target = e THEN Output(s, <<>>)
      ELSE Output([s EXCEPT !.power_target = e,
                            !.active_fan_curve = IF fan THEN tier ELSE @,
                            !.active_gpu_clock = IF gpu THEN tier ELSE @],
                  <<ApplyPowerEnvelope(e)>> \o When(fan, ApplyFanCurve(tier))
                    \o When(gpu, ApplyGpuClockRange(tier)))

SetEnvelope(s, e, lim, cfg) ==
  IF ValidEnvelope(e, lim) THEN ApplyPowerTarget(s, e, lim, cfg) ELSE Rejected(s)

SetSpl(s, watts, lim, cfg) ==
  LET spl == FromWatts(watts) IN
  IF /\ FitsInMilliwatts(watts)
     /\ spl >= lim.spl_min
     /\ spl <= lim.spl_max
  THEN SetEnvelope(s, DeriveBoostedEnvelope(spl, lim, cfg), lim, cfg)
  ELSE Rejected(s)

SetPreset(s, preset, lim, cfg) == SetSpl(s, PresetWatts(preset, lim, cfg), lim, cfg)

\* Mutated SetProfile: only the envelope is written again.
SetProfileEnvelopeOnly(s, profile) ==
  IF s.active_profile = profile THEN Output(s, <<>>)
  ELSE Output([s EXCEPT !.active_profile = profile],
              <<ApplyPlatformProfile(profile), ApplyPowerEnvelope(s.power_target)>>)

\* The embedded controller drops the envelope and the custom curve on a
\* profile write, so both are written again after it.
SetProfile(s, profile) ==
  IF s.active_profile = profile THEN Output(s, <<>>)
  ELSE Output([s EXCEPT !.active_profile = profile],
              <<ApplyPlatformProfile(profile), ApplyPowerEnvelope(s.power_target)>>
                \o When(s.active_fan_curve # None, ApplyFanCurve(s.active_fan_curve)))

SetFanCurve(s, curve) ==
  Output([s EXCEPT !.active_fan_curve = curve, !.fan_follows_tdp = FALSE],
         <<ApplyFanCurve(curve)>>)

EnableFanAuto(s, lim, cfg) ==
  LET tier == FanTier(s, lim, cfg) IN
  IF s.fan_follows_tdp THEN Output(s, <<>>)
  ELSE Output([s EXCEPT !.active_fan_curve = tier, !.fan_follows_tdp = TRUE],
              <<ApplyFanCurve(tier)>>)

ResetFanCurve(s) ==
  IF s.active_fan_curve = None /\ ~s.fan_follows_tdp THEN Output(s, <<>>)
  ELSE Output([s EXCEPT !.active_fan_curve = None, !.fan_follows_tdp = FALSE],
              <<ResetFanCurveEffect>>)

EnableGpuAutoFollow(s, lim, cfg) ==
  LET tier == FanTier(s, lim, cfg) IN
  IF s.gpu_follows_tdp THEN Output(s, <<>>)
  ELSE Output([s EXCEPT !.active_gpu_clock = tier, !.gpu_follows_tdp = TRUE],
              <<ApplyGpuClockRange(tier)>>)

ResetGpuClocks(s) ==
  IF s.active_gpu_clock = None THEN Output(s, <<>>)
  ELSE Output([s EXCEPT !.active_gpu_clock = None, !.gpu_follows_tdp = FALSE],
              <<ResetGpuClocksEffect>>)

ChargeThresholdChanged(s, charge) ==
  IF s.charge_end_threshold = charge THEN Output(s, <<>>)
  ELSE Output([s EXCEPT !.charge_end_threshold = charge],
              <<ApplyChargeThreshold(charge)>>)

\* Five levers chained over one state, in the order the code documents;
\* their five PersistState collapse into the one Persisted appends.
RestoreDefaults(s, lim, cfg) ==
  LET o1 == SetPreset(s, "Balanced", lim, cfg)
      o2 == SetProfile(o1.new_state, "Performance")
      o3 == ChargeThresholdChanged(o2.new_state, DefaultCharge)
      o4 == EnableFanAuto(o3.new_state, lim, cfg)
      o5 == ResetGpuClocks(o4.new_state)
  IN  IF o1.ok
      THEN Output(o5.new_state,
                  o1.effects \o o2.effects \o o3.effects \o o4.effects \o o5.effects)
      ELSE Rejected(s)

-----------------------------------------------------------------------------
(* The "AC = maximum performance" policy.                                  *)

Snapshot(s) ==
  [power_target     |-> s.power_target,     active_profile  |-> s.active_profile,
   active_fan_curve |-> s.active_fan_curve, fan_follows_tdp |-> s.fan_follows_tdp,
   active_gpu_clock |-> s.active_gpu_clock, gpu_follows_tdp |-> s.gpu_follows_tdp]

ForceAcMaxPerformance(s, lim, cfg) ==
  LET e   == MaxEnvelope(lim, cfg)
      gpu == s.active_gpu_clock # None
  IN  Output([s EXCEPT !.power_target = e,
                       !.active_profile = "Performance",
                       !.active_fan_curve = "Aggressive",
                       !.fan_follows_tdp = FALSE,
                       !.active_gpu_clock = IF gpu THEN "Aggressive" ELSE None,
                       !.gpu_follows_tdp = ~gpu /\ @],
             <<ApplyPlatformProfile("Performance"), ApplyPowerEnvelope(e),
               ApplyFanCurve("Aggressive")>>
               \o When(gpu, ApplyGpuClockRange("Aggressive")))

\* Only what differs from the snapshot is written; an Unmanaged GPU clock
\* was never a user's choice and resolves to firmware auto.  All ranges of no
\* tier are one value here: two different ones compare equal and are kept.
RestoreDcState(s, snap) ==
  LET profile == s.active_profile # snap.active_profile
      target  == profile \/ s.power_target # snap.power_target
      curve   == s.active_fan_curve # snap.active_fan_curve
      gpu     == s.active_gpu_clock # snap.active_gpu_clock
      tier    == snap.active_gpu_clock \in Tier
  IN  Output([s EXCEPT !.last_dc_state = None,
                       !.active_profile = snap.active_profile,
                       !.power_target = snap.power_target,
                       !.active_fan_curve = snap.active_fan_curve,
                       !.fan_follows_tdp = snap.fan_follows_tdp,
                       !.active_gpu_clock = IF gpu /\ ~tier THEN None
                                            ELSE snap.active_gpu_clock,
                       !.gpu_follows_tdp = snap.gpu_follows_tdp],
             When(profile, ApplyPlatformProfile(snap.active_profile))
               \o When(target, ApplyPowerEnvelope(snap.power_target))
               \o When((curve \/ profile) /\ snap.active_fan_curve # None,
                       ApplyFanCurve(snap.active_fan_curve))
               \o When(curve /\ snap.active_fan_curve = None, ResetFanCurveEffect)
               \o When(gpu /\ tier, ApplyGpuClockRange(snap.active_gpu_clock))
               \o When(gpu /\ ~tier, ResetGpuClocksEffect)
               \o <<PersistState>>)

\* First unplug of a session that was locked from the start: quiet defaults.
\* The inner SetPreset runs on an unplugged view, so the lock does not gate it.
QuietDefaults(s, lim, cfg) ==
  Persisted(SetPreset([s EXCEPT !.is_ac_connected = FALSE, !.fan_follows_tdp = TRUE],
                      "Balanced", lim, cfg))

ForceWithSnapshot(s, snap, lim, cfg) ==
  LET o == ForceAcMaxPerformance(s, lim, cfg) IN
  Output([o.new_state EXCEPT !.last_dc_state = snap], Append(o.effects, PersistState))

AcEdge(s, plugged, lim, cfg) ==
  IF plugged
  THEN IF s.ac_max_performance THEN ForceWithSnapshot(s, Snapshot(s), lim, cfg)
       ELSE Output(s, <<>>)
  ELSE IF s.last_dc_state # None THEN RestoreDcState(s, s.last_dc_state)
  ELSE IF s.ac_max_performance THEN QuietDefaults(s, lim, cfg)
  ELSE Output(s, <<>>)

\* Mutated AcPowerChanged: no debounce.
AcPowerChangedEveryEvent(s, plugged, lim, cfg) ==
  LET o == AcEdge(s, plugged, lim, cfg) IN
  IF o.ok THEN Output([o.new_state EXCEPT !.is_ac_connected = plugged], o.effects)
  ELSE Rejected(s)

\* Debounced, or a repeated plug event would snapshot the forced levers.
AcPowerChanged(s, plugged, lim, cfg) ==
  LET o == AcEdge(s, plugged, lim, cfg) IN
  IF s.is_ac_connected = plugged THEN Output(s, <<>>)
  ELSE IF o.ok
  THEN Output([o.new_state EXCEPT !.is_ac_connected = plugged], o.effects)
  ELSE Rejected(s)

\* Mutated SetAcMaxPerformance: turning it off only stores the preference.
SetAcMaxPerformanceFlagOnly(s, enabled, lim, cfg) ==
  LET snap == IF s.last_dc_state = None THEN Snapshot(s) ELSE s.last_dc_state
      o    == IF s.is_ac_connected /\ enabled THEN ForceWithSnapshot(s, snap, lim, cfg)
              ELSE Output(s, <<PersistState>>)
  IN  IF s.ac_max_performance = enabled THEN Output(s, <<>>)
      ELSE Output([o.new_state EXCEPT !.ac_max_performance = enabled], o.effects)

SetAcMaxPerformance(s, enabled, lim, cfg) ==
  LET snap == IF s.last_dc_state = None THEN Snapshot(s) ELSE s.last_dc_state
      o    == IF ~s.is_ac_connected THEN Output(s, <<PersistState>>)
              ELSE IF enabled THEN ForceWithSnapshot(s, snap, lim, cfg)
              ELSE IF s.last_dc_state # None THEN RestoreDcState(s, s.last_dc_state)
              ELSE Output(s, <<PersistState>>)
  IN  IF s.ac_max_performance = enabled THEN Output(s, <<>>)
      ELSE Output([o.new_state EXCEPT !.ac_max_performance = enabled], o.effects)

-----------------------------------------------------------------------------
(* Boot and resume.                                                        *)

\* Mutated ReassertAll: the profile is written last.
ReassertAllProfileLast(s) ==
  LET gpu == s.active_gpu_clock # None
      tier == s.active_gpu_clock \in Tier
  IN  Output([s EXCEPT !.active_gpu_clock = IF gpu /\ ~tier THEN None ELSE @],
             <<ApplyPowerEnvelope(s.power_target),
               ApplyChargeThreshold(s.charge_end_threshold)>>
               \o When(s.active_fan_curve # None, ApplyFanCurve(s.active_fan_curve))
               \o When(gpu, ResetGpuClocksEffect)
               \o When(tier, ApplyGpuClockRange(s.active_gpu_clock))
               \o <<ApplyPlatformProfile(s.active_profile)>>)

\* Mutated ReassertAll: whatever clock was set is cleared with its reset.
ReassertAllClearsClock(s) ==
  LET gpu == s.active_gpu_clock # None IN
      Output([s EXCEPT !.active_gpu_clock = None],
             <<ApplyPlatformProfile(s.active_profile),
               ApplyPowerEnvelope(s.power_target),
               ApplyChargeThreshold(s.charge_end_threshold)>>
               \o When(s.active_fan_curve # None, ApplyFanCurve(s.active_fan_curve))
               \o When(gpu, ResetGpuClocksEffect))

\* Battery, nothing to restore: every lever is written, profile first, and
\* a GPU clock of no tier is cleared along with its reset.
ReassertAll(s) ==
  LET gpu == s.active_gpu_clock # None
      tier == s.active_gpu_clock \in Tier
  IN  Output([s EXCEPT !.active_gpu_clock = IF gpu /\ ~tier THEN None ELSE @],
             <<ApplyPlatformProfile(s.active_profile),
               ApplyPowerEnvelope(s.power_target),
               ApplyChargeThreshold(s.charge_end_threshold)>>
               \o When(s.active_fan_curve # None, ApplyFanCurve(s.active_fan_curve))
               \o When(gpu, ResetGpuClocksEffect)
               \o When(tier, ApplyGpuClockRange(s.active_gpu_clock)))

\* Mutated SystemResumed: a snapshot left over from a locked session stays.
SystemResumedKeepsSnapshot(s, lim, cfg) ==
  LET charge == ApplyChargeThreshold(s.charge_end_threshold)
      forced == ForceAcMaxPerformance(s, lim, cfg)
  IN  IF s.is_ac_connected /\ s.ac_max_performance
      THEN Output(forced.new_state, forced.effects \o <<charge, PersistState>>)
      ELSE ReassertAll(s)

\* Mutated SystemResumed: the forced levers are taken for the preferences.
SystemResumedSnapshotsAgain(s, lim, cfg) ==
  LET charge == ApplyChargeThreshold(s.charge_end_threshold)
      forced == ForceAcMaxPerformance(s, lim, cfg)
      restored == RestoreDcState(s, s.last_dc_state)
  IN  IF s.is_ac_connected /\ s.ac_max_performance
      THEN Output([forced.new_state EXCEPT !.last_dc_state = Snapshot(s)],
                  forced.effects \o <<charge, PersistState>>)
      ELSE IF s.last_dc_state # None
      THEN Output(restored.new_state, Append(restored.effects, charge))
      ELSE ReassertAll(s)

SystemResumed(s, lim, cfg) ==
  LET charge == ApplyChargeThreshold(s.charge_end_threshold)
      forced == ForceAcMaxPerformance(s, lim, cfg)
      restored == RestoreDcState(s, s.last_dc_state)
  IN  IF s.is_ac_connected /\ s.ac_max_performance
      THEN Output(forced.new_state, forced.effects \o <<charge, PersistState>>)
      ELSE IF s.last_dc_state # None
      THEN Output(restored.new_state, Append(restored.effects, charge))
      ELSE ReassertAll(s)

-----------------------------------------------------------------------------
Locked(s) == s.is_ac_connected /\ s.ac_max_performance

SyncState(s, t) ==
  CASE t.op = "SyncPowerTarget"     -> [s EXCEPT !.power_target = t.target]
    [] t.op = "SyncPlatformProfile" -> [s EXCEPT !.active_profile = t.profile]
    [] t.op = "SyncChargeThreshold" -> [s EXCEPT !.charge_end_threshold = t.charge]
    [] t.op = "SyncFanCurve"        -> [s EXCEPT !.active_fan_curve = t.curve]
    [] t.op = "SyncGpuClockRange"   -> [s EXCEPT !.active_gpu_clock = t.gpu]

UserLever(s, t, lim, cfg) ==
  CASE t.op = "SetPreset"           -> SetPreset(s, t.preset, lim, cfg)
    [] t.op = "SetSpl"              -> SetSpl(s, t.watts, lim, cfg)
    [] t.op = "SetEnvelope"         -> SetEnvelope(s, t.target, lim, cfg)
    [] t.op = "SetProfile"          -> SetProfile(s, t.profile)
    [] t.op = "SetCoolingLevel"     -> SetFanCurve(s, t.curve)
    [] t.op = "SetCustomFanCurve"   -> SetFanCurve(s, t.curve)
    [] t.op = "EnableFanAuto"       -> EnableFanAuto(s, lim, cfg)
    [] t.op = "ResetFanCurve"       -> ResetFanCurve(s)
    [] t.op = "EnableGpuAutoFollow" -> EnableGpuAutoFollow(s, lim, cfg)
    [] t.op = "ResetGpuClocks"      -> ResetGpuClocks(s)
    [] t.op = "RestoreDefaults"     -> RestoreDefaults(s, lim, cfg)

\* is_locked_write of the source is membership in LockedWrite.
LockedWriteOps ==
  {"SetPreset", "SetSpl", "SetEnvelope", "SetProfile", "SetCoolingLevel",
   "SetCustomFanCurve", "EnableFanAuto", "ResetFanCurve",
   "EnableGpuAutoFollow", "ResetGpuClocks", "RestoreDefaults"}

SyncOps == {"SyncPowerTarget", "SyncPlatformProfile", "SyncChargeThreshold",
            "SyncFanCurve", "SyncGpuClockRange"}

IsLockedWrite(t) == t.op \in LockedWriteOps

Reduce(s, t, lim, cfg) ==
  CASE IsLockedWrite(t) /\ Locked(s)       -> Output(s, <<>>)
    [] IsLockedWrite(t) /\ ~Locked(s)      -> Persisted(UserLever(s, t, lim, cfg))
    [] t.op = "ChargeThresholdChanged"     -> Persisted(ChargeThresholdChanged(s, t.charge))
    [] t.op \in SyncOps                    -> Output(SyncState(s, t), <<>>)
    [] t.op = "AcPowerChanged"             -> AcPowerChanged(s, t.plugged, lim, cfg)
    [] t.op = "SystemResumed"              -> SystemResumed(s, lim, cfg)
    [] t.op = "SetAcMaxPerformance"        -> SetAcMaxPerformance(s, t.enabled, lim, cfg)
    [] t.op = "ConfigReload"               -> Output(s, <<>>)
    [] t.op = "Shutdown"                   -> Output(s, <<PersistState>>)
=============================================================================
