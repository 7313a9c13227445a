--------------------------- MODULE Daemon_proofs ---------------------------
(***************************************************************************)
(* The types of the reducer and the daemon, for every channel capacity,    *)
(* backend, request mix and bound: every arm of the reducer maps a typed   *)
(* state to a typed state and a typed list of effects, and every step of   *)
(* the daemon keeps its types.                                             *)
(***************************************************************************)
EXTENDS DaemonProperties, TLAPS

OutputOK(o) ==
  o \in [ok : BOOLEAN, new_state : ProfileState, effects : Seq(Effect)]

-----------------------------------------------------------------------------
(* The power arithmetic.                                                   *)

LEMMA DeriveType ==
  ASSUME NEW spl \in Nat, NEW lim \in Limits, NEW cfg \in Config
  PROVE  DeriveBoostedEnvelope(spl, lim, cfg) \in Envelope
<1> DEFINE x == spl * cfg.sppt_factor
           y == spl * cfg.fppt_factor
<1>1. /\ \A f \in {"spl_min", "spl_max", "sppt_min", "sppt_max",
                    "fppt_min", "fppt_max"} : lim[f] \in Nat
      /\ cfg.sppt_factor \in Nat /\ cfg.fppt_factor \in Nat
  BY DEF Limits, Config
<1>2. x \in Nat /\ y \in Nat
  BY <1>1
<1> HIDE DEF x, y
<1>3. x \div 100 \in Nat /\ y \div 100 \in Nat
  BY <1>2
<1> DEFINE sppt == BoostRail(spl, cfg.sppt_factor, spl, lim.sppt_min, lim.sppt_max, lim)
           fppt == BoostRail(spl, cfg.fppt_factor, sppt, lim.fppt_min, lim.fppt_max, lim)
<1>4. sppt \in Nat
  BY <1>1, <1>3 DEF BoostRail, AtLeast, AtMost, x
<1> HIDE DEF sppt
<1>5. fppt \in Nat
  BY <1>1, <1>3, <1>4 DEF BoostRail, AtLeast, AtMost, y
<1> HIDE DEF fppt
<1>6. DeriveBoostedEnvelope(spl, lim, cfg) = [spl |-> spl, sppt |-> sppt, fppt |-> fppt]
  BY DEF DeriveBoostedEnvelope, sppt, fppt
<1>7. QED
  BY <1>4, <1>5, <1>6 DEF Envelope

LEMMA MaxEnvelopeType ==
  ASSUME NEW lim \in Limits, NEW cfg \in Config
  PROVE  MaxEnvelope(lim, cfg) \in Envelope
<1>1. lim.spl_max \in Nat
  BY DEF Limits
<1>2. QED
  BY <1>1, DeriveType DEF MaxEnvelope

LEMMA InferTierType ==
  ASSUME NEW e, NEW lim, NEW cfg
  PROVE  InferTier(e, lim, cfg) \in Tier
  BY DEF InferTier, Tier

LEMMA TierType == \A t \in Tier : t \in Curve /\ t \in GpuClock
  BY DEF Curve, GpuClock

LEMMA FromWattsType == \A w \in Nat : FromWatts(w) \in Nat
  BY PowerAssumption DEF FromWatts

LEMMA PresetWattsType ==
  ASSUME NEW p \in TdpPreset, NEW lim \in Limits, NEW cfg \in Config
  PROVE  PresetWatts(p, lim, cfg) \in Nat
<1> DEFINE a == AsWatts(lim.spl_min)
           b == AsWatts(lim.spl_max)
           d == SaturatingSub(b, a)
           n == d * cfg.efficiency_frac
<1>1. lim.spl_min \in Nat /\ lim.spl_max \in Nat /\ cfg.efficiency_frac \in Nat
  BY DEF Limits, Config
<1>2. a \in Nat /\ b \in Nat
  BY <1>1, PowerAssumption DEF AsWatts
<1> HIDE DEF a, b
<1>3. d \in Nat
  BY <1>2 DEF SaturatingSub
<1> HIDE DEF d
<1>4. n \in Nat /\ 2 * d * cfg.efficiency_frac = 2 * n
  BY <1>1, <1>3
<1> HIDE DEF n
<1>5. RoundPercent(d, cfg.efficiency_frac) \in Nat
  BY <1>4 DEF RoundPercent
<1>6. (a + b) \div 2 \in Nat /\ a + RoundPercent(d, cfg.efficiency_frac) \in Nat
  BY <1>2, <1>5
<1>7. PresetWatts(p, lim, cfg)
        \in {a, b, (a + b) \div 2, a + RoundPercent(d, cfg.efficiency_frac)}
  BY Zenon DEF PresetWatts, TdpPreset, a, b, d
<1>8. QED
  BY <1>2, <1>6, <1>7

-----------------------------------------------------------------------------
(* Effects.                                                                *)

LEMMA EffectTypes ==
  /\ \A e \in Envelope : ApplyPowerEnvelope(e) \in Effect
  /\ \A p \in Profile : ApplyPlatformProfile(p) \in Effect
  /\ \A c \in Charge : ApplyChargeThreshold(c) \in Effect
  /\ \A c \in Curve : ApplyFanCurve(c) \in Effect
  /\ \A t \in Tier : ApplyGpuClockRange(t) \in Effect
  /\ ResetFanCurveEffect \in Effect
  /\ ResetGpuClocksEffect \in Effect
  /\ PersistState \in Effect
  BY DEF Effect, Bare, ApplyPowerEnvelope, ApplyPlatformProfile,
         ApplyChargeThreshold, ApplyFanCurve, ApplyGpuClockRange,
         ResetFanCurveEffect, ResetGpuClocksEffect, PersistState

LEMMA SeqTypes ==
  ASSUME NEW S
  PROVE  /\ <<>> \in Seq(S)
         /\ \A x \in S : <<x>> \in Seq(S)
         /\ \A x, y \in S : <<x, y>> \in Seq(S)
         /\ \A x, y, z \in S : <<x, y, z>> \in Seq(S)
         /\ \A a \in Seq(S), b \in Seq(S) : a \o b \in Seq(S)
         /\ \A a \in Seq(S), x \in S : Append(a, x) \in Seq(S)
  OBVIOUS

LEMMA WhenType ==
  ASSUME NEW cond, NEW e, cond => e \in Effect
  PROVE  When(cond, e) \in Seq(Effect)
  BY SeqTypes DEF When
-----------------------------------------------------------------------------
(* The user's levers.                                                      *)

\* What the state's fields are, without its eleven-field record set.
LEMMA StateFields ==
  ASSUME NEW s \in ProfileState
  PROVE  /\ s.power_target \in Envelope
         /\ s.active_profile \in Profile
         /\ s.active_fan_curve \in Curve \cup {None}
         /\ s.fan_follows_tdp \in BOOLEAN
         /\ s.active_gpu_clock \in GpuClock \cup {None}
         /\ s.gpu_follows_tdp \in BOOLEAN
         /\ s.charge_end_threshold \in Charge
         /\ s.last_dc_state \in DcSnapshot \cup {None}
         /\ s.ac_max_performance \in BOOLEAN
         /\ s.is_ac_connected \in BOOLEAN
  BY DEF ProfileState

LEMMA OutputTypes ==
  ASSUME NEW s \in ProfileState, NEW fx \in Seq(Effect)
  PROVE  OutputOK(Output(s, fx)) /\ OutputOK(Output(s, <<>>)) /\ OutputOK(Rejected(s))
  BY SeqTypes DEF OutputOK, Output, Rejected

LEMMA PersistedType ==
  ASSUME NEW o, OutputOK(o)
  PROVE  OutputOK(Persisted(o))
<1>1. Append(o.effects, PersistState) \in Seq(Effect)
  BY EffectTypes, SeqTypes DEF OutputOK
<1>2. CASE o.effects = <<>>
  BY <1>2 DEF Persisted
<1>3. CASE o.effects # <<>>
  BY <1>1, <1>3 DEF OutputOK, Persisted
<1>4. QED
  BY <1>2, <1>3

LEMMA ApplyPowerTargetType ==
  ASSUME NEW s \in ProfileState, NEW e \in Envelope, NEW lim, NEW cfg
  PROVE  OutputOK(ApplyPowerTarget(s, e, lim, cfg))
<1> DEFINE tier == InferTier(e, lim, cfg)
           fan  == s.fan_follows_tdp /\ s.active_fan_curve # tier
           gpu  == s.gpu_follows_tdp /\ s.active_gpu_clock # tier
           n == [s EXCEPT !.power_target = e,
                          !.active_fan_curve = IF fan THEN tier ELSE @,
                          !.active_gpu_clock = IF gpu THEN tier ELSE @]
           fx == <<ApplyPowerEnvelope(e)>> \o When(fan, ApplyFanCurve(tier))
                    \o When(gpu, ApplyGpuClockRange(tier))
<1>1. tier \in Tier /\ tier \in Curve /\ tier \in GpuClock
  BY InferTierType, TierType
<1> HIDE DEF tier
<1>2. n \in ProfileState
  BY <1>1, StateFields DEF ProfileState
<1>3. /\ <<ApplyPowerEnvelope(e)>> \in Seq(Effect)
      /\ When(fan, ApplyFanCurve(tier)) \in Seq(Effect)
      /\ When(gpu, ApplyGpuClockRange(tier)) \in Seq(Effect)
  BY <1>1, EffectTypes, SeqTypes, WhenType
<1>4. fx \in Seq(Effect)
  BY <1>3, SeqTypes
<1>5. ApplyPowerTarget(s, e, lim, cfg)
        = IF s.power_target = e THEN Output(s, <<>>) ELSE Output(n, fx)
  BY DEF ApplyPowerTarget, tier
<1> HIDE DEF n, fx
<1>6. QED
  BY <1>2, <1>4, <1>5, OutputTypes

LEMMA SetEnvelopeType ==
  ASSUME NEW s \in ProfileState, NEW e \in Envelope, NEW lim, NEW cfg
  PROVE  OutputOK(SetEnvelope(s, e, lim, cfg))
  BY ApplyPowerTargetType, OutputTypes, SeqTypes DEF SetEnvelope

LEMMA SetSplType ==
  ASSUME NEW s \in ProfileState, NEW w \in Nat, NEW lim \in Limits, NEW cfg \in Config
  PROVE  OutputOK(SetSpl(s, w, lim, cfg))
<1>1. DeriveBoostedEnvelope(FromWatts(w), lim, cfg) \in Envelope
  BY FromWattsType, DeriveType
<1>2. QED
  BY <1>1, SetEnvelopeType, OutputTypes, SeqTypes DEF SetSpl

LEMMA SetPresetType ==
  ASSUME NEW s \in ProfileState, NEW p \in TdpPreset, NEW lim \in Limits, NEW cfg \in Config
  PROVE  OutputOK(SetPreset(s, p, lim, cfg))
  BY PresetWattsType, SetSplType DEF SetPreset

LEMMA SetProfileType ==
  ASSUME NEW s \in ProfileState, NEW p \in Profile
  PROVE  OutputOK(SetProfile(s, p))
<1> DEFINE n  == [s EXCEPT !.active_profile = p]
           c  == s.active_fan_curve
           ab == <<ApplyPlatformProfile(p), ApplyPowerEnvelope(s.power_target)>>
           fx == ab \o When(c # None, ApplyFanCurve(c))
<1>1. n \in ProfileState
  BY StateFields DEF ProfileState
<1>2. ApplyPlatformProfile(p) \in Effect /\ ApplyPowerEnvelope(s.power_target) \in Effect
  BY EffectTypes, StateFields
<1>3. c # None => ApplyFanCurve(c) \in Effect
  BY EffectTypes, StateFields
<1> HIDE DEF c
<1>4. ab \in Seq(Effect) /\ When(c # None, ApplyFanCurve(c)) \in Seq(Effect)
  <2>1. ab \in Seq(Effect)
    BY <1>2, SeqTypes
  <2>2. When(c # None, ApplyFanCurve(c)) \in Seq(Effect)
    BY <1>3, WhenType
  <2>3. QED
    BY <2>1, <2>2
<1>5. fx \in Seq(Effect)
  BY <1>4, SeqTypes
<1>6. SetProfile(s, p) = IF s.active_profile = p THEN Output(s, <<>>) ELSE Output(n, fx)
  BY DEF SetProfile, c
<1> HIDE DEF n, fx
<1>7. QED
  BY <1>1, <1>5, <1>6, OutputTypes

LEMMA SetFanCurveType ==
  ASSUME NEW s \in ProfileState, NEW c \in Curve
  PROVE  OutputOK(SetFanCurve(s, c))
<1> DEFINE n == [s EXCEPT !.active_fan_curve = c, !.fan_follows_tdp = FALSE]
<1>1. n \in ProfileState
  BY StateFields DEF ProfileState
<1>2. <<ApplyFanCurve(c)>> \in Seq(Effect)
  BY EffectTypes, SeqTypes
<1>3. SetFanCurve(s, c) = Output(n, <<ApplyFanCurve(c)>>)
  BY DEF SetFanCurve
<1> HIDE DEF n
<1>4. QED
  BY <1>1, <1>2, <1>3, OutputTypes

LEMMA FollowTypes ==
  ASSUME NEW s \in ProfileState, NEW lim, NEW cfg
  PROVE  /\ OutputOK(EnableFanAuto(s, lim, cfg))
         /\ OutputOK(EnableGpuAutoFollow(s, lim, cfg))
<1> DEFINE tier == FanTier(s, lim, cfg)
           n == [s EXCEPT !.active_fan_curve = tier, !.fan_follows_tdp = TRUE]
           m == [s EXCEPT !.active_gpu_clock = tier, !.gpu_follows_tdp = TRUE]
<1>1. tier \in Tier /\ tier \in Curve /\ tier \in GpuClock
  BY InferTierType, TierType DEF FanTier
<1> HIDE DEF tier
<1>2. n \in ProfileState /\ m \in ProfileState
  BY <1>1, StateFields DEF ProfileState
<1>3. <<ApplyFanCurve(tier)>> \in Seq(Effect) /\ <<ApplyGpuClockRange(tier)>> \in Seq(Effect)
  BY <1>1, EffectTypes, SeqTypes
<1>4. /\ EnableFanAuto(s, lim, cfg)
           = IF s.fan_follows_tdp THEN Output(s, <<>>) ELSE Output(n, <<ApplyFanCurve(tier)>>)
      /\ EnableGpuAutoFollow(s, lim, cfg)
           = IF s.gpu_follows_tdp THEN Output(s, <<>>) ELSE Output(m, <<ApplyGpuClockRange(tier)>>)
  BY DEF EnableFanAuto, EnableGpuAutoFollow, tier
<1> HIDE DEF n, m
<1>5. QED
  BY <1>2, <1>3, <1>4, OutputTypes

LEMMA ResetTypes ==
  ASSUME NEW s \in ProfileState
  PROVE  OutputOK(ResetFanCurve(s)) /\ OutputOK(ResetGpuClocks(s))
<1> DEFINE n == [s EXCEPT !.active_fan_curve = None, !.fan_follows_tdp = FALSE]
           m == [s EXCEPT !.active_gpu_clock = None, !.gpu_follows_tdp = FALSE]
<1>1. n \in ProfileState /\ m \in ProfileState
  BY StateFields DEF ProfileState
<1>2. <<ResetFanCurveEffect>> \in Seq(Effect) /\ <<ResetGpuClocksEffect>> \in Seq(Effect)
  BY EffectTypes, SeqTypes
<1>3. /\ ResetFanCurve(s) \in {Output(s, <<>>), Output(n, <<ResetFanCurveEffect>>)}
      /\ ResetGpuClocks(s) \in {Output(s, <<>>), Output(m, <<ResetGpuClocksEffect>>)}
  BY DEF ResetFanCurve, ResetGpuClocks
<1> HIDE DEF n, m
<1>4. QED
  BY <1>1, <1>2, <1>3, OutputTypes

LEMMA ChargeThresholdType ==
  ASSUME NEW s \in ProfileState, NEW c \in Charge
  PROVE  OutputOK(ChargeThresholdChanged(s, c))
<1> DEFINE n == [s EXCEPT !.charge_end_threshold = c]
<1>1. n \in ProfileState
  BY StateFields DEF ProfileState
<1>2. <<ApplyChargeThreshold(c)>> \in Seq(Effect)
  BY EffectTypes, SeqTypes
<1>3. ChargeThresholdChanged(s, c) \in {Output(s, <<>>), Output(n, <<ApplyChargeThreshold(c)>>)}
  BY DEF ChargeThresholdChanged
<1> HIDE DEF n
<1>4. QED
  BY <1>1, <1>2, <1>3, OutputTypes

LEMMA RestoreDefaultsType ==
  ASSUME NEW s \in ProfileState, NEW lim \in Limits, NEW cfg \in Config
  PROVE  OutputOK(RestoreDefaults(s, lim, cfg))
<1> DEFINE o1 == SetPreset(s, "Balanced", lim, cfg)
           o2 == SetProfile(o1.new_state, "Performance")
           o3 == ChargeThresholdChanged(o2.new_state, DefaultCharge)
           o4 == EnableFanAuto(o3.new_state, lim, cfg)
           o5 == ResetGpuClocks(o4.new_state)
           fx == o1.effects \o o2.effects \o o3.effects \o o4.effects \o o5.effects
<1>1. OutputOK(o1)
  BY SetPresetType DEF TdpPreset
<1> HIDE DEF o1
<1>2. OutputOK(o2)
  BY <1>1, SetProfileType DEF OutputOK, Profile
<1> HIDE DEF o2
<1>3. OutputOK(o3)
  BY <1>2, ChargeThresholdType, SelectionAssumption DEF OutputOK
<1> HIDE DEF o3
<1>4. OutputOK(o4)
  BY <1>3, FollowTypes DEF OutputOK
<1> HIDE DEF o4
<1>5. OutputOK(o5)
  BY <1>4, ResetTypes DEF OutputOK
<1> HIDE DEF o5
<1>6. fx \in Seq(Effect)
  BY <1>1, <1>2, <1>3, <1>4, <1>5, SeqTypes DEF OutputOK
<1>7. RestoreDefaults(s, lim, cfg) \in {Output(o5.new_state, fx), Rejected(s)}
  BY DEF RestoreDefaults, o1, o2, o3, o4, o5
<1> HIDE DEF fx
<1>8. o5.new_state \in ProfileState
  BY <1>5 DEF OutputOK
<1>9. QED
  BY <1>6, <1>7, <1>8, OutputTypes

-----------------------------------------------------------------------------
(* The AC policy, boot and resume.                                         *)

LEMMA SnapshotType ==
  ASSUME NEW s \in ProfileState
  PROVE  Snapshot(s) \in DcSnapshot
  BY StateFields DEF Snapshot, DcSnapshot

LEMMA ForceType ==
  ASSUME NEW s \in ProfileState, NEW lim \in Limits, NEW cfg \in Config
  PROVE  OutputOK(ForceAcMaxPerformance(s, lim, cfg))
<1> DEFINE e   == MaxEnvelope(lim, cfg)
           gpu == s.active_gpu_clock # None
           n   == [s EXCEPT !.power_target = e,
                            !.active_profile = "Performance",
                            !.active_fan_curve = "Aggressive",
                            !.fan_follows_tdp = FALSE,
                            !.active_gpu_clock = IF gpu THEN "Aggressive" ELSE None,
                            !.gpu_follows_tdp = ~gpu /\ @]
           abc == <<ApplyPlatformProfile("Performance"), ApplyPowerEnvelope(e),
                    ApplyFanCurve("Aggressive")>>
           fx  == abc \o When(gpu, ApplyGpuClockRange("Aggressive"))
<1>1. e \in Envelope /\ "Performance" \in Profile /\ "Aggressive" \in Tier
      /\ "Aggressive" \in Curve /\ "Aggressive" \in GpuClock
  BY MaxEnvelopeType DEF Profile, Tier, Curve, GpuClock
<1> HIDE DEF e
<1>2. n \in ProfileState
  <2> DEFINE clock == IF gpu THEN "Aggressive" ELSE None
             follows == ~gpu /\ s.gpu_follows_tdp
  <2>1. clock \in GpuClock \cup {None} /\ follows \in BOOLEAN
    BY <1>1, StateFields
  <2> HIDE DEF clock, follows
  <2>2. [s EXCEPT !.power_target = e, !.active_profile = "Performance",
                  !.active_fan_curve = "Aggressive", !.fan_follows_tdp = FALSE,
                  !.active_gpu_clock = clock, !.gpu_follows_tdp = follows]
          \in ProfileState
    BY <1>1, <2>1 DEF ProfileState
  <2>3. QED
    BY <2>2 DEF clock, follows
<1>3. /\ ApplyPlatformProfile("Performance") \in Effect /\ ApplyPowerEnvelope(e) \in Effect
      /\ ApplyFanCurve("Aggressive") \in Effect /\ ApplyGpuClockRange("Aggressive") \in Effect
  BY <1>1, EffectTypes
<1>4. abc \in Seq(Effect)
  BY <1>3, SeqTypes
<1>5. When(gpu, ApplyGpuClockRange("Aggressive")) \in Seq(Effect)
  BY <1>3, WhenType
<1>6. fx \in Seq(Effect)
  BY <1>4, <1>5, SeqTypes
<1>7. ForceAcMaxPerformance(s, lim, cfg) = Output(n, fx)
  BY DEF ForceAcMaxPerformance, e
<1> HIDE DEF n, fx
<1>8. QED
  BY <1>2, <1>6, <1>7, OutputTypes

LEMMA RestoreDcType ==
  ASSUME NEW s \in ProfileState, NEW snap \in DcSnapshot
  PROVE  OutputOK(RestoreDcState(s, snap))
<1> DEFINE profile == s.active_profile # snap.active_profile
           target  == profile \/ s.power_target # snap.power_target
           curve   == s.active_fan_curve # snap.active_fan_curve
           gpu     == s.active_gpu_clock # snap.active_gpu_clock
           tier    == snap.active_gpu_clock \in Tier
           n == [s EXCEPT !.last_dc_state = None,
                          !.active_profile = snap.active_profile,
                          !.power_target = snap.power_target,
                          !.active_fan_curve = snap.active_fan_curve,
                          !.fan_follows_tdp = snap.fan_follows_tdp,
                          !.active_gpu_clock = IF gpu /\ ~tier THEN None
                                               ELSE snap.active_gpu_clock,
                          !.gpu_follows_tdp = snap.gpu_follows_tdp]
           f1 == When(profile, ApplyPlatformProfile(snap.active_profile))
           f2 == When(target, ApplyPowerEnvelope(snap.power_target))
           f3 == When((curve \/ profile) /\ snap.active_fan_curve # None,
                      ApplyFanCurve(snap.active_fan_curve))
           f4 == When(curve /\ snap.active_fan_curve = None, ResetFanCurveEffect)
           f5 == When(gpu /\ tier, ApplyGpuClockRange(snap.active_gpu_clock))
           f6 == When(gpu /\ ~tier, ResetGpuClocksEffect)
           fx == f1 \o f2 \o f3 \o f4 \o f5 \o f6 \o <<PersistState>>
<1>1. /\ snap.power_target \in Envelope
      /\ snap.active_profile \in Profile
      /\ snap.active_fan_curve \in Curve \cup {None}
      /\ snap.fan_follows_tdp \in BOOLEAN
      /\ snap.active_gpu_clock \in GpuClock \cup {None}
      /\ snap.gpu_follows_tdp \in BOOLEAN
  BY DEF DcSnapshot
<1>2. n \in ProfileState
  BY <1>1, StateFields DEF ProfileState
<1>3. /\ ApplyPlatformProfile(snap.active_profile) \in Effect
      /\ ApplyPowerEnvelope(snap.power_target) \in Effect
      /\ snap.active_fan_curve # None => ApplyFanCurve(snap.active_fan_curve) \in Effect
      /\ tier => ApplyGpuClockRange(snap.active_gpu_clock) \in Effect
  BY <1>1, EffectTypes
<1>4. f1 \in Seq(Effect)
  BY <1>3, WhenType
<1>5. f2 \in Seq(Effect)
  BY <1>3, WhenType
<1>6. f3 \in Seq(Effect)
  BY <1>3, WhenType
<1>7. f4 \in Seq(Effect)
  BY EffectTypes, WhenType
<1>8. f5 \in Seq(Effect)
  BY <1>3, WhenType
<1>9. f6 \in Seq(Effect)
  BY EffectTypes, WhenType
<1>10. <<PersistState>> \in Seq(Effect)
  BY EffectTypes, SeqTypes
<1> HIDE DEF f1, f2, f3, f4, f5, f6
<1>11. fx \in Seq(Effect)
  BY <1>4, <1>5, <1>6, <1>7, <1>8, <1>9, <1>10, SeqTypes
<1>12. RestoreDcState(s, snap) = Output(n, fx)
  BY DEF RestoreDcState, f1, f2, f3, f4, f5, f6
<1> HIDE DEF n, fx
<1>13. QED
  BY <1>2, <1>11, <1>12, OutputTypes

\* Setting one of the flags of an output's state keeps it well typed.
LEMMA FlagTypes ==
  ASSUME NEW o, OutputOK(o), NEW fx \in Seq(Effect), NEW b \in BOOLEAN
  PROVE  /\ OutputOK(Output([o.new_state EXCEPT !.is_ac_connected = b], fx))
         /\ OutputOK(Output([o.new_state EXCEPT !.ac_max_performance = b], fx))
<1>1. /\ [o.new_state EXCEPT !.is_ac_connected = b] \in ProfileState
      /\ [o.new_state EXCEPT !.ac_max_performance = b] \in ProfileState
  BY DEF OutputOK, ProfileState
<1>2. QED
  BY <1>1, OutputTypes

LEMMA ForceWithSnapshotType ==
  ASSUME NEW s \in ProfileState, NEW snap \in DcSnapshot, NEW lim \in Limits, NEW cfg \in Config
  PROVE  OutputOK(ForceWithSnapshot(s, snap, lim, cfg))
<1> DEFINE o == ForceAcMaxPerformance(s, lim, cfg)
           n == [o.new_state EXCEPT !.last_dc_state = snap]
<1>1. OutputOK(o)
  BY ForceType
<1> HIDE DEF o
<1>2. n \in ProfileState
  BY <1>1 DEF OutputOK, ProfileState
<1>3. Append(o.effects, PersistState) \in Seq(Effect)
  BY <1>1, EffectTypes, SeqTypes DEF OutputOK
<1>4. ForceWithSnapshot(s, snap, lim, cfg) = Output(n, Append(o.effects, PersistState))
  BY DEF ForceWithSnapshot, o
<1> HIDE DEF n
<1>5. QED
  BY <1>2, <1>3, <1>4, OutputTypes

LEMMA QuietDefaultsType ==
  ASSUME NEW s \in ProfileState, NEW lim \in Limits, NEW cfg \in Config
  PROVE  OutputOK(QuietDefaults(s, lim, cfg))
<1> DEFINE n == [s EXCEPT !.is_ac_connected = FALSE, !.fan_follows_tdp = TRUE]
<1>1. n \in ProfileState
  BY DEF ProfileState
<1> HIDE DEF n
<1>2. OutputOK(SetPreset(n, "Balanced", lim, cfg))
  BY <1>1, SetPresetType DEF TdpPreset
<1>3. QED
  BY <1>2, PersistedType DEF QuietDefaults, n

LEMMA AcPowerChangedType ==
  ASSUME NEW s \in ProfileState, NEW b \in BOOLEAN, NEW lim \in Limits, NEW cfg \in Config
  PROVE  OutputOK(AcPowerChanged(s, b, lim, cfg))
<1> DEFINE o == AcEdge(s, b, lim, cfg)
<1>1. s.last_dc_state # None => OutputOK(RestoreDcState(s, s.last_dc_state))
  BY RestoreDcType, StateFields
<1>2. OutputOK(Output(s, <<>>)) /\ OutputOK(Rejected(s))
  BY OutputTypes, SeqTypes
<1>3. OutputOK(ForceWithSnapshot(s, Snapshot(s), lim, cfg))
  BY SnapshotType, ForceWithSnapshotType
<1>4. OutputOK(o)
  BY <1>1, <1>2, <1>3, QuietDefaultsType DEF AcEdge
<1> HIDE DEF o
<1>5. OutputOK(Output([o.new_state EXCEPT !.is_ac_connected = b], o.effects))
  BY <1>4, FlagTypes DEF OutputOK
<1>6. QED
  BY <1>2, <1>5 DEF AcPowerChanged, o

LEMMA SetAcMaxPerformanceType ==
  ASSUME NEW s \in ProfileState, NEW b \in BOOLEAN, NEW lim \in Limits, NEW cfg \in Config
  PROVE  OutputOK(SetAcMaxPerformance(s, b, lim, cfg))
<1> DEFINE snap == IF s.last_dc_state = None THEN Snapshot(s) ELSE s.last_dc_state
           o    == IF ~s.is_ac_connected THEN Output(s, <<PersistState>>)
                   ELSE IF b THEN ForceWithSnapshot(s, snap, lim, cfg)
                   ELSE IF s.last_dc_state # None THEN RestoreDcState(s, s.last_dc_state)
                   ELSE Output(s, <<PersistState>>)
<1>1. s.last_dc_state # None => OutputOK(RestoreDcState(s, s.last_dc_state))
  BY RestoreDcType, StateFields
<1>2. snap \in DcSnapshot
  BY SnapshotType, StateFields
<1> HIDE DEF snap
<1>3. OutputOK(ForceWithSnapshot(s, snap, lim, cfg))
  BY <1>2, ForceWithSnapshotType
<1>4. OutputOK(Output(s, <<>>)) /\ OutputOK(Output(s, <<PersistState>>))
  BY OutputTypes, EffectTypes, SeqTypes
<1>5. OutputOK(o)
  BY <1>1, <1>3, <1>4
<1> HIDE DEF o
<1>6. OutputOK(Output([o.new_state EXCEPT !.ac_max_performance = b], o.effects))
  BY <1>5, FlagTypes DEF OutputOK
<1>7. SetAcMaxPerformance(s, b, lim, cfg)
        = IF s.ac_max_performance = b THEN Output(s, <<>>)
          ELSE Output([o.new_state EXCEPT !.ac_max_performance = b], o.effects)
  BY DEF SetAcMaxPerformance, o, snap
<1>8. QED
  BY <1>4, <1>6, <1>7

LEMMA ReassertAllType ==
  ASSUME NEW s \in ProfileState
  PROVE  OutputOK(ReassertAll(s))
<1> DEFINE gpu == s.active_gpu_clock # None
           tier == s.active_gpu_clock \in Tier
           n == [s EXCEPT !.active_gpu_clock = IF gpu /\ ~tier THEN None ELSE @]
           f0 == <<ApplyPlatformProfile(s.active_profile),
                   ApplyPowerEnvelope(s.power_target),
                   ApplyChargeThreshold(s.charge_end_threshold)>>
           f1 == When(s.active_fan_curve # None, ApplyFanCurve(s.active_fan_curve))
           f2 == When(gpu, ResetGpuClocksEffect)
           f3 == When(tier, ApplyGpuClockRange(s.active_gpu_clock))
           fx == f0 \o f1 \o f2 \o f3
<1>1. n \in ProfileState
  BY StateFields DEF ProfileState
<1>2. /\ ApplyPlatformProfile(s.active_profile) \in Effect
      /\ ApplyPowerEnvelope(s.power_target) \in Effect
      /\ ApplyChargeThreshold(s.charge_end_threshold) \in Effect
      /\ s.active_fan_curve # None => ApplyFanCurve(s.active_fan_curve) \in Effect
      /\ tier => ApplyGpuClockRange(s.active_gpu_clock) \in Effect
  BY EffectTypes, StateFields
<1>3. f0 \in Seq(Effect)
  BY <1>2, SeqTypes
<1>4. f1 \in Seq(Effect)
  BY <1>2, WhenType
<1>5. f2 \in Seq(Effect)
  BY EffectTypes, WhenType
<1>6. f3 \in Seq(Effect)
  BY <1>2, WhenType
<1> HIDE DEF f0, f1, f2, f3
<1>7. fx \in Seq(Effect)
  BY <1>3, <1>4, <1>5, <1>6, SeqTypes
<1>8. ReassertAll(s) = Output(n, fx)
  BY DEF ReassertAll, f0, f1, f2, f3
<1> HIDE DEF n, fx
<1>9. QED
  BY <1>1, <1>7, <1>8, OutputTypes

LEMMA SystemResumedType ==
  ASSUME NEW s \in ProfileState, NEW lim \in Limits, NEW cfg \in Config
  PROVE  OutputOK(SystemResumed(s, lim, cfg))
<1> DEFINE charge == ApplyChargeThreshold(s.charge_end_threshold)
           forced == ForceAcMaxPerformance(s, lim, cfg)
           restored == RestoreDcState(s, s.last_dc_state)
           o1 == Output(forced.new_state, forced.effects \o <<charge, PersistState>>)
           o2 == Output(restored.new_state, Append(restored.effects, charge))
<1>1. charge \in Effect /\ PersistState \in Effect
  BY EffectTypes, StateFields
<1> HIDE DEF charge
<1>2. OutputOK(forced)
  BY ForceType
<1>3. s.last_dc_state # None => OutputOK(restored)
  BY RestoreDcType, StateFields
<1> HIDE DEF forced, restored
<1>4. OutputOK(o1)
  <2>1. forced.effects \o <<charge, PersistState>> \in Seq(Effect)
    BY <1>1, <1>2, SeqTypes DEF OutputOK
  <2>2. QED
    BY <1>2, <2>1, OutputTypes DEF OutputOK
<1>5. s.last_dc_state # None => OutputOK(o2)
  <2>1. s.last_dc_state # None => Append(restored.effects, charge) \in Seq(Effect)
    BY <1>1, <1>3, SeqTypes DEF OutputOK
  <2>2. QED
    BY <1>3, <2>1, OutputTypes DEF OutputOK
<1>6. SystemResumed(s, lim, cfg)
        = IF s.is_ac_connected /\ s.ac_max_performance THEN o1
          ELSE IF s.last_dc_state # None THEN o2
          ELSE ReassertAll(s)
  BY DEF SystemResumed, charge, forced, restored
<1> HIDE DEF o1, o2
<1>7. QED
  BY <1>4, <1>5, <1>6, ReassertAllType

-----------------------------------------------------------------------------
(* The whole reducer.                                                      *)

LEMMA SyncStateType ==
  ASSUME NEW s \in ProfileState, NEW t \in Sync
  PROVE  SyncState(s, t) \in ProfileState
<1>1. CASE t \in [op : {"SyncPowerTarget"}, target : Envelope]
  <2>1. t.op = "SyncPowerTarget" /\ t.target \in Envelope
    BY <1>1
  <2>2. SyncState(s, t) = [s EXCEPT !.power_target = t.target]
    BY <2>1 DEF SyncState
  <2>3. QED
    BY <2>1, <2>2 DEF ProfileState
<1>2. CASE t \in [op : {"SyncPlatformProfile"}, profile : Profile]
  <2>1. t.op = "SyncPlatformProfile" /\ t.profile \in Profile
    BY <1>2
  <2>2. SyncState(s, t) = [s EXCEPT !.active_profile = t.profile]
    BY <2>1 DEF SyncState
  <2>3. QED
    BY <2>1, <2>2 DEF ProfileState
<1>3. CASE t \in [op : {"SyncChargeThreshold"}, charge : Charge]
  <2>1. t.op = "SyncChargeThreshold" /\ t.charge \in Charge
    BY <1>3
  <2>2. SyncState(s, t) = [s EXCEPT !.charge_end_threshold = t.charge]
    BY <2>1 DEF SyncState
  <2>3. QED
    BY <2>1, <2>2 DEF ProfileState
<1>4. CASE t \in [op : {"SyncFanCurve"}, curve : Curve \cup {None}]
  <2>1. t.op = "SyncFanCurve" /\ t.curve \in Curve \cup {None}
    BY <1>4
  <2>2. SyncState(s, t) = [s EXCEPT !.active_fan_curve = t.curve]
    BY <2>1 DEF SyncState
  <2>3. QED
    BY <2>1, <2>2 DEF ProfileState
<1>5. CASE t \in [op : {"SyncGpuClockRange"}, gpu : {Unmanaged, None}]
  <2>1. t.op = "SyncGpuClockRange" /\ t.gpu \in GpuClock \cup {None}
    BY <1>5 DEF GpuClock
  <2>2. SyncState(s, t) = [s EXCEPT !.active_gpu_clock = t.gpu]
    BY <2>1 DEF SyncState
  <2>3. QED
    BY <2>1, <2>2 DEF ProfileState
<1>6. QED
  BY <1>1, <1>2, <1>3, <1>4, <1>5 DEF Sync

\* Which lever an operation is, and what it carries.
LEMMA LockedWriteFields ==
  ASSUME NEW t \in Transition, IsLockedWrite(t)
  PROVE  /\ t.op = "SetPreset" => t.preset \in TdpPreset
         /\ t.op = "SetSpl" => t.watts \in Nat
         /\ t.op = "SetEnvelope" => t.target \in Envelope
         /\ t.op = "SetProfile" => t.profile \in Profile
         /\ t.op = "SetCoolingLevel" => t.curve \in Tier
         /\ t.op = "SetCustomFanCurve" => t.curve \in CustomCurve
<1>1. t \in LockedWrite
  BY DEF IsLockedWrite, LockedWriteOps, Transition, FreeRequest, Sync, SystemEvent, Bare
<1>2. QED
  BY <1>1 DEF LockedWrite, Bare

LEMMA UserLeverType ==
  ASSUME NEW s \in ProfileState, NEW t \in Transition, IsLockedWrite(t),
         NEW lim \in Limits, NEW cfg \in Config
  PROVE  OutputOK(UserLever(s, t, lim, cfg))
<1> USE LockedWriteFields
<1>1. CASE t.op = "SetPreset"
  <2>1. UserLever(s, t, lim, cfg) = SetPreset(s, t.preset, lim, cfg)
    BY <1>1 DEF UserLever
  <2>2. QED
    BY <1>1, <2>1, SetPresetType
<1>2. CASE t.op = "SetSpl"
  <2>1. UserLever(s, t, lim, cfg) = SetSpl(s, t.watts, lim, cfg)
    BY <1>2 DEF UserLever
  <2>2. QED
    BY <1>2, <2>1, SetSplType
<1>3. CASE t.op = "SetEnvelope"
  <2>1. UserLever(s, t, lim, cfg) = SetEnvelope(s, t.target, lim, cfg)
    BY <1>3 DEF UserLever
  <2>2. QED
    BY <1>3, <2>1, SetEnvelopeType
<1>4. CASE t.op = "SetProfile"
  <2>1. UserLever(s, t, lim, cfg) = SetProfile(s, t.profile)
    BY <1>4 DEF UserLever
  <2>2. QED
    BY <1>4, <2>1, SetProfileType
<1>5. CASE t.op \in {"SetCoolingLevel", "SetCustomFanCurve"}
  <2>1. UserLever(s, t, lim, cfg) = SetFanCurve(s, t.curve)
    BY <1>5 DEF UserLever
  <2>2. t.curve \in Curve
    BY <1>5 DEF Curve
  <2>3. QED
    BY <2>1, <2>2, SetFanCurveType
<1>6. CASE t.op = "EnableFanAuto"
  <2>1. UserLever(s, t, lim, cfg) = EnableFanAuto(s, lim, cfg)
    BY <1>6 DEF UserLever
  <2>2. QED
    BY <2>1, FollowTypes
<1>7. CASE t.op = "EnableGpuAutoFollow"
  <2>1. UserLever(s, t, lim, cfg) = EnableGpuAutoFollow(s, lim, cfg)
    BY <1>7 DEF UserLever
  <2>2. QED
    BY <2>1, FollowTypes
<1>8. CASE t.op = "ResetFanCurve"
  <2>1. UserLever(s, t, lim, cfg) = ResetFanCurve(s)
    BY <1>8 DEF UserLever
  <2>2. QED
    BY <2>1, ResetTypes
<1>9. CASE t.op = "ResetGpuClocks"
  <2>1. UserLever(s, t, lim, cfg) = ResetGpuClocks(s)
    BY <1>9 DEF UserLever
  <2>2. QED
    BY <2>1, ResetTypes
<1>10. CASE t.op = "RestoreDefaults"
  <2>1. UserLever(s, t, lim, cfg) = RestoreDefaults(s, lim, cfg)
    BY <1>10 DEF UserLever
  <2>2. QED
    BY <2>1, RestoreDefaultsType
<1>11. QED
  BY <1>1, <1>2, <1>3, <1>4, <1>5, <1>6, <1>7, <1>8, <1>9, <1>10
     DEF IsLockedWrite, LockedWriteOps

\* Reduce, one equation per arm.
LEMMA ReduceArms ==
  ASSUME NEW s, NEW t, NEW lim, NEW cfg
  PROVE  /\ IsLockedWrite(t) /\ Locked(s) =>
              Reduce(s, t, lim, cfg) = Output(s, <<>>)
         /\ IsLockedWrite(t) /\ ~Locked(s) =>
              Reduce(s, t, lim, cfg) = Persisted(UserLever(s, t, lim, cfg))
         /\ t.op = "ChargeThresholdChanged" =>
              Reduce(s, t, lim, cfg) = Persisted(ChargeThresholdChanged(s, t.charge))
         /\ t.op \in SyncOps =>
              Reduce(s, t, lim, cfg) = Output(SyncState(s, t), <<>>)
         /\ t.op = "AcPowerChanged" =>
              Reduce(s, t, lim, cfg) = AcPowerChanged(s, t.plugged, lim, cfg)
         /\ t.op = "SystemResumed" =>
              Reduce(s, t, lim, cfg) = SystemResumed(s, lim, cfg)
         /\ t.op = "SetAcMaxPerformance" =>
              Reduce(s, t, lim, cfg) = SetAcMaxPerformance(s, t.enabled, lim, cfg)
         /\ t.op = "ConfigReload" =>
              Reduce(s, t, lim, cfg) = Output(s, <<>>)
         /\ t.op = "Shutdown" =>
              Reduce(s, t, lim, cfg) = Output(s, <<PersistState>>)
  BY DEF Reduce, IsLockedWrite, LockedWriteOps, SyncOps

\* What a transition that is no locked write is.
LEMMA OtherTransitions ==
  ASSUME NEW t \in Transition, ~IsLockedWrite(t)
  PROVE  \/ t.op = "ChargeThresholdChanged" /\ t.charge \in Charge
         \/ t.op \in SyncOps /\ t \in Sync
         \/ t.op = "AcPowerChanged" /\ t.plugged \in BOOLEAN
         \/ t.op = "SystemResumed"
         \/ t.op = "SetAcMaxPerformance" /\ t.enabled \in BOOLEAN
         \/ t.op = "ConfigReload" /\ t.config \in Config
         \/ t.op = "Shutdown"
<1>1. CASE t \in LockedWrite
  BY <1>1 DEF LockedWrite, IsLockedWrite, LockedWriteOps, Bare
<1>2. CASE t \in FreeRequest
  BY <1>2 DEF FreeRequest
<1>3. CASE t \in Sync
  BY <1>3 DEF Sync, SyncOps
<1>4. CASE t \in SystemEvent
  BY <1>4 DEF SystemEvent, Bare
<1>5. QED
  BY <1>1, <1>2, <1>3, <1>4 DEF Transition

\* The reducer is total: every transition maps a well-typed state to a
\* well-typed output, whatever the device ranges and the tuning.
THEOREM ReduceType ==
  ASSUME NEW s \in ProfileState, NEW t \in Transition,
         NEW lim \in Limits, NEW cfg \in Config
  PROVE  OutputOK(Reduce(s, t, lim, cfg))
<1>0. OutputOK(Output(s, <<>>)) /\ OutputOK(Output(s, <<PersistState>>))
  BY OutputTypes, EffectTypes, SeqTypes
<1>1. CASE IsLockedWrite(t)
  <2>1. OutputOK(UserLever(s, t, lim, cfg))
    BY <1>1, UserLeverType
  <2>2. OutputOK(Persisted(UserLever(s, t, lim, cfg)))
    BY <2>1, PersistedType
  <2>3. QED
    BY <1>0, <1>1, <2>2, ReduceArms
<1>2. CASE t.op = "ChargeThresholdChanged" /\ t.charge \in Charge
  <2>1. OutputOK(ChargeThresholdChanged(s, t.charge))
    BY <1>2, ChargeThresholdType
  <2>2. OutputOK(Persisted(ChargeThresholdChanged(s, t.charge)))
    BY <2>1, PersistedType
  <2>3. QED
    BY <1>2, <2>2, ReduceArms
<1>3. CASE t.op \in SyncOps /\ t \in Sync
  <2>1. OutputOK(Output(SyncState(s, t), <<>>))
    BY <1>3, SyncStateType, OutputTypes, SeqTypes
  <2>2. QED
    BY <1>3, <2>1, ReduceArms
<1>4. CASE t.op = "AcPowerChanged" /\ t.plugged \in BOOLEAN
  BY <1>4, AcPowerChangedType, ReduceArms
<1>5. CASE t.op = "SystemResumed"
  BY <1>5, SystemResumedType, ReduceArms
<1>6. CASE t.op = "SetAcMaxPerformance" /\ t.enabled \in BOOLEAN
  BY <1>6, SetAcMaxPerformanceType, ReduceArms
<1>7. CASE t.op \in {"ConfigReload", "Shutdown"}
  BY <1>0, <1>7, ReduceArms
<1>8. QED
  BY <1>1, <1>2, <1>3, <1>4, <1>5, <1>6, <1>7, OtherTransitions

-----------------------------------------------------------------------------
(* The daemon.                                                             *)

ExecutorTypes ==
  /\ state \in ProfileState
  /\ limits \in Limits
  /\ config \in Config
  /\ queue \in Seq(Transition) /\ Len(queue) <= Capacity
  /\ effects \in Seq(Effect)
  /\ phase \in {"off", "running", "stopping"}
  /\ hw \in Hardware
  /\ disk \in ProfileState \cup {None}
  /\ ac \in BOOLEAN
  /\ faults \in 0..MaxFaults

HistoryTypes ==
  /\ asserted \in {"none", "changed", "all", "rolled", "overtaken"}
  /\ prefs \in DcSnapshot \cup {None}
  /\ durable \in ProfileState \cup {None}
  /\ unsaved \in BOOLEAN

-----------------------------------------------------------------------------
(* Queues.                                                                 *)

LEMMA ReceiveTypes ==
  ASSUME queue \in Seq(Transition), Len(queue) <= Capacity, Receive
  PROVE  /\ Head(queue) \in Transition
         /\ queue' \in Seq(Transition) /\ Len(queue') <= Capacity
<1>1. queue # <<>> /\ queue' = Tail(queue)
  BY DEF Receive
<1>2. Len(Tail(queue)) = Len(queue) - 1 /\ Len(queue) \in Nat
  BY <1>1
<1>3. QED
  BY <1>1, <1>2, ExecutorAssumption

LEMMA SendTypes ==
  ASSUME queue \in Seq(Transition), NEW t \in Transition, Len(queue) < Capacity,
         queue' = Append(queue, t)
  PROVE  queue' \in Seq(Transition) /\ Len(queue') <= Capacity
  BY ExecutorAssumption

LEMMA DispatchTypes ==
  ASSUME effects \in Seq(Effect), Dispatch
  PROVE  Current \in Effect /\ effects' \in Seq(Effect)
  BY DEF Dispatch, Current

-----------------------------------------------------------------------------
(* The device.                                                             *)

LEMMA HardwareFields ==
  ASSUME NEW h \in Hardware
  PROVE  /\ h.envelope \in Envelope /\ h.enforced \in BOOLEAN
         /\ h.profile \in Profile /\ h.charge \in Charge
         /\ h.curve \in Curve \cup {None} /\ h.gpu \in GpuClock \cup {None}
         /\ h.limits \in Limits
  BY DEF Hardware

LEMMA EffectFields ==
  ASSUME NEW e \in Effect
  PROVE  \/ e.op = "ApplyPowerEnvelope" /\ e.target \in Envelope
         \/ e.op = "ApplyPlatformProfile" /\ e.profile \in Profile
         \/ e.op = "ApplyChargeThreshold" /\ e.charge \in Charge
         \/ e.op = "ApplyFanCurve" /\ e.curve \in Curve
         \/ e.op = "ApplyGpuClockRange" /\ e.tier \in Tier
         \/ e.op = "ResetFanCurve"
         \/ e.op = "ResetGpuClocks"
         \/ e.op = "PersistState"
  BY DEF Effect, Bare

LEMMA WholeWattsType ==
  ASSUME NEW mw \in Nat
  PROVE  WholeWatts(mw) \in Nat
<1>1. AsWatts(mw) \in Nat
  BY PowerAssumption DEF AsWatts
<1>2. QED
  BY <1>1, PowerAssumption DEF WholeWatts, FromWatts

LEMMA WrittenEnvelopeType ==
  ASSUME NEW old \in Envelope, NEW e \in Envelope
  PROVE  WrittenEnvelope(old, e) \in Envelope
<1>1. WholeWatts(e.spl) \in Nat /\ WholeWatts(e.sppt) \in Nat
  BY WholeWattsType DEF Envelope
<1>2. e.fppt # NoFppt => WholeWatts(e.fppt) \in Nat
  BY WholeWattsType DEF Envelope
<1>3. old.fppt \in Nat \cup {NoFppt}
  BY DEF Envelope
<1>4. QED
  BY <1>1, <1>2, <1>3 DEF WrittenEnvelope, Envelope

LEMMA WrittenTypes ==
  ASSUME NEW h \in Hardware, NEW e \in Effect, e.op # "PersistState",
         NEW g \in Written(h, e)
  PROVE  g \in Hardware
<1>1. CASE e.op = "ApplyPowerEnvelope" /\ e.target \in Envelope
  <2>1. g = [h EXCEPT !.envelope = WrittenEnvelope(h.envelope, e.target), !.enforced = TRUE]
    BY <1>1 DEF Written
  <2>2. WrittenEnvelope(h.envelope, e.target) \in Envelope
    BY <1>1, HardwareFields, WrittenEnvelopeType
  <2>3. QED
    BY <2>1, <2>2 DEF Hardware
<1>2. CASE e.op = "ApplyPlatformProfile" /\ e.profile \in Profile
  <2>1. g \in {DropsControl([h EXCEPT !.profile = e.profile]), h}
    BY <1>2 DEF Written
  <2>2. QED
    BY <1>2, <2>1 DEF Hardware, DropsControl
<1>3. CASE e.op = "ApplyChargeThreshold" /\ e.charge \in Charge
  <2>1. g = [h EXCEPT !.charge = e.charge]
    BY <1>3 DEF Written
  <2>2. QED
    BY <1>3, <2>1 DEF Hardware
<1>4. CASE e.op = "ApplyFanCurve" /\ e.curve \in Curve
  <2>1. g = [h EXCEPT !.curve = e.curve]
    BY <1>4 DEF Written
  <2>2. QED
    BY <1>4, <2>1 DEF Hardware
<1>5. CASE e.op = "ApplyGpuClockRange" /\ e.tier \in Tier
  <2>1. g = [h EXCEPT !.gpu = e.tier]
    BY <1>5 DEF Written
  <2>2. QED
    BY <1>5, <2>1, TierType DEF Hardware
<1>6. CASE e.op = "ResetFanCurve"
  <2>1. g = [h EXCEPT !.curve = None]
    BY <1>6 DEF Written
  <2>2. QED
    BY <2>1 DEF Hardware
<1>7. CASE e.op = "ResetGpuClocks"
  <2>1. g = [h EXCEPT !.gpu = None]
    BY <1>7 DEF Written
  <2>2. QED
    BY <2>1 DEF Hardware
<1>8. QED
  BY <1>1, <1>2, <1>3, <1>4, <1>5, <1>6, <1>7, EffectFields

LEMMA HalfWrittenTypes ==
  ASSUME NEW h \in Hardware, NEW e \in Effect, e.op # "PersistState",
         NEW g \in HalfWritten(h, e)
  PROVE  g \in Hardware
<1>1. CASE e.op = "ApplyPowerEnvelope" /\ e.target \in Envelope
  <2> DEFINE w == WrittenEnvelope(h.envelope, e.target)
  <2>1. g \in {h, [h EXCEPT !.envelope = [@ EXCEPT !.spl = w.spl]],
               [h EXCEPT !.envelope = [@ EXCEPT !.spl = w.spl, !.sppt = w.sppt]]}
    BY <1>1 DEF HalfWritten
  <2>2. w \in Envelope /\ h.envelope \in Envelope
    BY <1>1, HardwareFields, WrittenEnvelopeType
  <2> HIDE DEF w
  <2>3. /\ [h.envelope EXCEPT !.spl = w.spl] \in Envelope
        /\ [h.envelope EXCEPT !.spl = w.spl, !.sppt = w.sppt] \in Envelope
    BY <2>2 DEF Envelope
  <2>4. QED
    BY <2>1, <2>3 DEF Hardware
<1>2. CASE e.op \in {"ApplyPlatformProfile", "ApplyChargeThreshold"}
  <2>1. g = h
    BY <1>2 DEF HalfWritten
  <2>2. QED
    BY <2>1
<1>3. CASE e.op = "ApplyFanCurve" /\ e.curve \in Curve
  <2>1. g \in {h} \cup {[h EXCEPT !.curve = c] : c \in Curve}
    BY <1>3 DEF HalfWritten
  <2>2. QED
    BY <2>1 DEF Hardware
<1>4. CASE e.op = "ApplyGpuClockRange" /\ e.tier \in Tier
  <2>1. g \in {h} \cup {[h EXCEPT !.gpu = c] : c \in {None, Unmanaged, e.tier}}
    BY <1>4 DEF HalfWritten
  <2>2. QED
    BY <1>4, <2>1 DEF Hardware, GpuClock
<1>5. CASE e.op = "ResetFanCurve"
  <2>1. g \in {h, [h EXCEPT !.curve = None]}
    BY <1>5 DEF HalfWritten
  <2>2. QED
    BY <2>1 DEF Hardware
<1>6. CASE e.op = "ResetGpuClocks"
  <2>1. g \in {h, [h EXCEPT !.gpu = Unmanaged]}
    BY <1>6 DEF HalfWritten
  <2>2. QED
    BY <2>1 DEF Hardware, GpuClock
<1>7. QED
  BY <1>1, <1>2, <1>3, <1>4, <1>5, <1>6, EffectFields

LEMMA SyncOfTypes ==
  ASSUME NEW h \in Hardware, NEW e \in Effect, e.op # "PersistState"
  PROVE  SyncOf(h, e) \in Sync
<1>1. CASE e.op = "ApplyPowerEnvelope"
  <2>1. SyncOf(h, e) = [op |-> "SyncPowerTarget", target |-> h.envelope]
    BY <1>1 DEF SyncOf
  <2>2. QED
    BY <2>1, HardwareFields DEF Sync
<1>2. CASE e.op = "ApplyPlatformProfile"
  <2>1. SyncOf(h, e) = [op |-> "SyncPlatformProfile", profile |-> h.profile]
    BY <1>2 DEF SyncOf
  <2>2. QED
    BY <2>1, HardwareFields DEF Sync
<1>3. CASE e.op = "ApplyChargeThreshold"
  <2>1. SyncOf(h, e) = [op |-> "SyncChargeThreshold", charge |-> h.charge]
    BY <1>3 DEF SyncOf
  <2>2. QED
    BY <2>1, HardwareFields DEF Sync
<1>4. CASE e.op \in {"ApplyFanCurve", "ResetFanCurve"}
  <2>1. SyncOf(h, e) = [op |-> "SyncFanCurve", curve |-> h.curve]
    BY <1>4 DEF SyncOf
  <2>2. QED
    BY <2>1, HardwareFields DEF Sync
<1>5. CASE e.op \in {"ApplyGpuClockRange", "ResetGpuClocks"}
  <2>1. SyncOf(h, e)
          = [op |-> "SyncGpuClockRange", gpu |-> IF h.gpu = None THEN None ELSE Unmanaged]
    BY <1>5 DEF SyncOf
  <2>2. QED
    BY <2>1 DEF Sync
<1>6. QED
  BY <1>1, <1>2, <1>3, <1>4, <1>5, EffectFields

-----------------------------------------------------------------------------
(* The executor's steps.                                                   *)

LEMMA ReduceWithTypes ==
  ASSUME NEW s \in ProfileState, NEW t \in Transition, NEW lim \in Limits,
         state \in ProfileState, config \in Config,
         phase \in {"off", "running", "stopping"},
         ReduceWith(s, t, lim)
  PROVE  /\ state' \in ProfileState
         /\ effects' \in Seq(Effect)
         /\ phase' \in {"off", "running", "stopping"}
<1> DEFINE o == Reduce(s, t, lim, config)
           n == o.new_state
<1>1. OutputOK(o)
  BY ReduceType
<1>2. /\ state' = IF o.ok THEN [n EXCEPT !.ac_locked = Locked(n)] ELSE state
      /\ effects' = o.effects
      /\ phase' = IF t.op = "Shutdown" THEN "stopping" ELSE phase
  BY DEF ReduceWith
<1> HIDE DEF o
<1>3. [n EXCEPT !.ac_locked = Locked(n)] \in ProfileState
  BY <1>1 DEF OutputOK, ProfileState, Locked
<1>4. QED
  BY <1>1, <1>2, <1>3 DEF OutputOK

LEMMA FaultTypes ==
  ASSUME faults \in 0..MaxFaults, Faults(1) \/ Faults(2)
  PROVE  faults' \in 0..MaxFaults
  BY ExecutorAssumption DEF Faults

LEMMA ExecutorStepTypes ==
  ASSUME ExecutorTypes, ExecutorStep
  PROVE  ExecutorTypes'
<1>1. CASE ReloadConfig
  <2>1. Head(queue) \in Transition /\ queue' \in Seq(Transition) /\ Len(queue') <= Capacity
    BY <1>1, ReceiveTypes DEF ExecutorTypes, ReloadConfig
  <2>2. config' = Head(queue).config /\ Head(queue).op = "ConfigReload"
    BY <1>1 DEF ReloadConfig
  <2>3. config' \in Config
    BY <2>1, <2>2, OtherTransitions DEF IsLockedWrite, LockedWriteOps, SyncOps
  <2>4. QED
    BY <1>1, <2>1, <2>3 DEF ExecutorTypes, ReloadConfig
<1>2. CASE ReduceTransition
  <2>1. Head(queue) \in Transition /\ queue' \in Seq(Transition) /\ Len(queue') <= Capacity
    BY <1>2, ReceiveTypes DEF ExecutorTypes, ReduceTransition
  <2>2. /\ state' \in ProfileState /\ effects' \in Seq(Effect)
        /\ phase' \in {"off", "running", "stopping"}
    BY <1>2, <2>1, ReduceWithTypes DEF ExecutorTypes, ReduceTransition
  <2>3. QED
    BY <1>2, <2>1, <2>2 DEF ExecutorTypes, ReduceTransition
<1>3. CASE ReduceResumed
  <2>1. Head(queue) \in Transition /\ queue' \in Seq(Transition) /\ Len(queue') <= Capacity
    BY <1>3, ReceiveTypes DEF ExecutorTypes, ReduceResumed
  <2>2. PICK missed \in SUBSET {"ac", "limits"} :
          LET ac_known == "charge" \in Capability /\ "ac" \notin missed IN
          /\ IF missed = {} THEN UNCHANGED faults ELSE Fault
          /\ limits' = IF "limits" \in missed THEN limits ELSE hw.limits
          /\ ReduceWith([state EXCEPT !.is_ac_connected = IF ac_known THEN ac ELSE @],
                        Head(queue), limits')
    BY <1>3 DEF ReduceResumed
  <2>3. faults' \in 0..MaxFaults
    BY <2>2, FaultTypes DEF ExecutorTypes, Fault
  <2>4. limits' \in Limits
    BY <2>2, HardwareFields DEF ExecutorTypes
  <2> DEFINE s == [state EXCEPT !.is_ac_connected =
                     IF "charge" \in Capability /\ "ac" \notin missed THEN ac ELSE @]
  <2>5. s \in ProfileState /\ ReduceWith(s, Head(queue), limits')
    BY <2>2 DEF ExecutorTypes, ProfileState
  <2> HIDE DEF s
  <2>6. /\ state' \in ProfileState /\ effects' \in Seq(Effect)
        /\ phase' \in {"off", "running", "stopping"}
    BY <2>1, <2>4, <2>5, ReduceWithTypes DEF ExecutorTypes
  <2>7. QED
    BY <1>3, <2>1, <2>3, <2>4, <2>6 DEF ExecutorTypes, ReduceResumed
<1>4. CASE ApplyEffect
  <2>1. Current \in Effect /\ Current.op # "PersistState" /\ effects' \in Seq(Effect)
    BY <1>4, DispatchTypes DEF ExecutorTypes, ApplyEffect
  <2>2. hw' \in Hardware
    BY <1>4, <2>1, WrittenTypes DEF ExecutorTypes, ApplyEffect
  <2>3. QED
    BY <1>4, <2>1, <2>2 DEF ExecutorTypes, ApplyEffect
<1>5. CASE IgnoreEffect
  <2>1. effects' \in Seq(Effect)
    BY <1>5, DispatchTypes DEF ExecutorTypes, IgnoreEffect
  <2>2. QED
    BY <1>5, <2>1 DEF ExecutorTypes, IgnoreEffect
<1>6. CASE FailEffect
  <2>1. Current \in Effect /\ Current.op # "PersistState" /\ effects' \in Seq(Effect)
    BY <1>6, DispatchTypes DEF ExecutorTypes, FailEffect
  <2>2. hw' \in Hardware
    BY <1>6, <2>1, HalfWrittenTypes DEF ExecutorTypes, FailEffect
  <2>3. SyncOf(hw', Current) \in Transition
    BY <2>1, <2>2, SyncOfTypes DEF Transition
  <2>4. faults' \in 0..MaxFaults
    BY <1>6, FaultTypes DEF ExecutorTypes, FailEffect, Fault
  <2>5. queue' = queue \/ (Len(queue) < Capacity /\ queue' = Append(queue, SyncOf(hw', Current)))
    BY <1>6 DEF FailEffect, Room
  <2>6. queue' \in Seq(Transition) /\ Len(queue') <= Capacity
    BY <2>3, <2>5, SendTypes DEF ExecutorTypes
  <2>7. QED
    BY <1>6, <2>1, <2>2, <2>4, <2>6 DEF ExecutorTypes, FailEffect
<1>7. CASE SkipGpuRange
  <2>1. effects' \in Seq(Effect) /\ faults' \in 0..MaxFaults
    BY <1>7, DispatchTypes, FaultTypes DEF ExecutorTypes, SkipGpuRange, Fault
  <2>2. QED
    BY <1>7, <2>1 DEF ExecutorTypes, SkipGpuRange
<1>8. CASE Persist
  <2>1. effects' \in Seq(Effect)
    BY <1>8, DispatchTypes DEF ExecutorTypes, Persist
  <2>2. faults' \in 0..MaxFaults
    BY <1>8, FaultTypes DEF ExecutorTypes, Persist, Fault
  <2>3. disk' \in ProfileState \cup {None}
    BY <1>8 DEF ExecutorTypes, Persist, DiskImage, ProfileState
  <2>4. QED
    BY <1>8, <2>1, <2>2, <2>3 DEF ExecutorTypes, Persist
<1>9. CASE Exit
  <2>1. <<>> \in Seq(Transition) /\ Len(<<>>) <= Capacity
    BY ExecutorAssumption
  <2>2. QED
    BY <1>9, <2>1 DEF ExecutorTypes, Exit
<1>10. QED
  BY <1>1, <1>2, <1>3, <1>4, <1>5, <1>6, <1>7, <1>8, <1>9 DEF ExecutorStep

-----------------------------------------------------------------------------
(* Boot, the producers and the world.                                      *)

LEMMA LeversType ==
  ASSUME NEW s, s \in ProfileState \/ s \in DcSnapshot
  PROVE  Levers(s) \in DcSnapshot
<1>1. Snapshot(s) \in DcSnapshot
  BY DEF Snapshot, DcSnapshot, ProfileState
<1>2. QED
  BY <1>1 DEF Levers, DcSnapshot

LEMMA FactoryType ==
  ASSUME NEW lim \in DeviceLimits
  PROVE  FactoryHardware(lim) \in Hardware /\ lim \in Limits
  BY ExecutorAssumption, DaemonAssumption DEF FactoryHardware, Hardware, Profile

LEMMA SeededType ==
  ASSUME hw \in Hardware, NEW missed
  PROVE  SeededState(missed) \in ProfileState
<1>1. LowestEnvelope(hw.limits) \in Envelope
  BY HardwareFields DEF LowestEnvelope, Limits, Envelope
<1>2. QED
  BY <1>1, HardwareFields, SelectionAssumption, DaemonAssumption DEF SeededState, ProfileState

LEMMA BootStateType ==
  ASSUME hw \in Hardware, disk \in ProfileState \cup {None}, ac \in BOOLEAN, NEW missed
  PROVE  BootState(missed) \in ProfileState
<1> DEFINE loaded == IF disk = None \/ "file" \in missed THEN SeededState(missed) ELSE disk
<1>1. loaded \in ProfileState
  BY SeededType
<1> HIDE DEF loaded
<1>2. DefaultCurve \in Curve \cup {None} /\ DefaultProfile \in Profile
  BY DaemonAssumption DEF Curve
<1>3. BootState(missed) = [loaded EXCEPT
        !.is_ac_connected = "charge" \in Capability /\ "ac" \notin missed /\ ac,
        !.active_fan_curve = IF @ = None THEN DefaultCurve ELSE @,
        !.active_profile = DefaultProfile]
  BY DEF BootState, loaded
<1>4. QED
  BY <1>1, <1>2, <1>3 DEF ProfileState

LEMMA SpendTypes ==
  ASSUME spent \in Spent
  PROVE  /\ Spend("requests", MaxRequests) => spent' \in Spent
         /\ Spend("edges", MaxEdges) => spent' \in Spent
         /\ Spend("sleeps", MaxSleeps) => spent' \in Spent
         /\ Spend("boots", MaxBoots) => spent' \in Spent
         /\ Spend("crashes", MaxCrashes) => spent' \in Spent
  BY DaemonAssumption DEF Spend, Spent

LEMMA InitTypes == Init => TypeOK
<1> SUFFICES ASSUME Init PROVE TypeOK
  OBVIOUS
<1>1. hw \in Hardware /\ limits \in Limits
  BY FactoryType, HardwareFields DEF Init
<1>2. state \in ProfileState
  BY <1>1, SeededType DEF Init
<1>3. prefs \in DcSnapshot
  BY <1>2, LeversType DEF Init
<1>4. spent \in Spent
  BY DaemonAssumption DEF Init, Spent
<1>5. queue \in Seq(Transition) /\ Len(queue) <= Capacity /\ effects \in Seq(Effect)
  BY ExecutorAssumption DEF Init
<1>6. monitor \in [up : BOOLEAN, last : BOOLEAN \cup {None}, unsent : BOOLEAN \cup {None}]
  BY DEF Init
<1>7. /\ phase \in {"off", "running", "stopping"}
      /\ disk \in ProfileState \cup {None} /\ durable \in ProfileState \cup {None}
      /\ asserted \in {"none", "changed", "all", "rolled", "overtaken"}
      /\ unsaved \in BOOLEAN /\ ac \in BOOLEAN /\ resumes \in Nat
  BY DEF Init
<1>8. config \in Config /\ faults \in 0..MaxFaults
  BY ExecutorAssumption, DaemonAssumption DEF Init
<1>9. QED
  BY <1>1, <1>2, <1>3, <1>4, <1>5, <1>6, <1>7, <1>8 DEF TypeOK

LEMMA ExecutingTypes ==
  ASSUME TypeOK, Executing
  PROVE  TypeOK'
<1>1. ExecutorTypes'
  BY ExecutorStepTypes DEF TypeOK, ExecutorTypes, Executing
<1>2. asserted' \in {"none", "changed", "all", "rolled", "overtaken"}
  BY DEF TypeOK, Executing, AfterResume, AfterFault
<1>3. prefs' \in DcSnapshot \cup {None}
  <2>1. state' \in ProfileState
    BY <1>1 DEF ExecutorTypes
  <2>2. Levers(state') \in DcSnapshot
    BY <2>1, LeversType
  <2>3. QED
    BY <2>2 DEF TypeOK, Executing
<1>4. durable' \in ProfileState \cup {None}
  <2>1. durable' \in {durable, disk'}
    BY DEF Executing, Surviving
  <2>2. QED
    BY <1>1, <2>1 DEF TypeOK, ExecutorTypes
<1>6. unsaved' \in BOOLEAN
  <2>1. CASE Saving
    BY <2>1 DEF Executing
  <2>2. CASE ~Saving
    BY <2>2 DEF Executing, TypeOK
  <2>3. QED
    BY <2>1, <2>2
<1>5. QED
  BY <1>1, <1>2, <1>3, <1>4, <1>6 DEF TypeOK, ExecutorTypes, Executing, daemonVars, Spent

LEMMA ProducersTypes ==
  ASSUME TypeOK, Producers
  PROVE  TypeOK'
<1>1. CASE RequestStep
  <2>1. PICK t \in Requests : Send(t)
    BY <1>1 DEF RequestStep
  <2>2. t \in Transition
    BY <2>1, DaemonAssumption DEF Transition
  <2>3. queue' \in Seq(Transition) /\ Len(queue') <= Capacity
    BY <2>1, <2>2, SendTypes DEF TypeOK, Send, Room
  <2>4. spent' \in Spent
    BY <1>1, SpendTypes DEF TypeOK, RequestStep
  <2>5. QED
    BY <1>1, <2>3, <2>4 DEF TypeOK, RequestStep, historyVars
<1>2. CASE Terminate
  <2>1. [op |-> "Shutdown"] \in Transition
    BY DEF Transition, SystemEvent, Bare
  <2>2. queue' \in Seq(Transition) /\ Len(queue') <= Capacity
    BY <1>2, <2>1, SendTypes DEF TypeOK, Terminate, Send, Room
  <2>3. spent' \in Spent
    BY <1>2, SpendTypes DEF TypeOK, Terminate
  <2>4. QED
    BY <1>2, <2>2, <2>3 DEF TypeOK, Terminate, historyVars
<1>3. CASE MonitorSeed
  BY <1>3 DEF TypeOK, MonitorSeed, executorVars, historyVars, Spent
<1>9. CASE MonitorSeedUnread
  <2>1. faults' \in 0..MaxFaults
    BY <1>9, FaultTypes DEF TypeOK, MonitorSeedUnread, Fault
  <2>2. QED
    BY <1>9, <2>1 DEF TypeOK, MonitorSeedUnread, historyVars, Spent
<1>4. CASE MonitorRead
  BY <1>4 DEF TypeOK, MonitorRead, executorVars, historyVars, Spent
<1>5. CASE MonitorSend
  <2> DEFINE t == [op |-> "AcPowerChanged", plugged |-> monitor.unsent]
  <2>1. monitor.unsent \in BOOLEAN
    BY <1>5 DEF TypeOK, MonitorSend
  <2>2. t \in Transition
    BY <2>1 DEF Transition, SystemEvent
  <2>3. Send(t)
    BY <1>5 DEF MonitorSend
  <2> HIDE DEF t
  <2>4. queue' \in Seq(Transition) /\ Len(queue') <= Capacity
    BY <2>2, <2>3, SendTypes DEF TypeOK, Send, Room
  <2>5. monitor' \in [up : BOOLEAN, last : BOOLEAN \cup {None}, unsent : BOOLEAN \cup {None}]
    BY <1>5 DEF TypeOK, MonitorSend
  <2>6. QED
    BY <1>5, <2>4, <2>5 DEF TypeOK, MonitorSend, historyVars, Spent
<1>6. CASE ForwardResume
  <2>1. [op |-> "SystemResumed"] \in Transition
    BY DEF Transition, SystemEvent, Bare
  <2>2. queue' \in Seq(Transition) /\ Len(queue') <= Capacity
    BY <1>6, <2>1, SendTypes DEF TypeOK, ForwardResume, Send, Room
  <2>3. resumes' \in Nat
    BY <1>6 DEF TypeOK, ForwardResume
  <2>4. QED
    BY <1>6, <2>2, <2>3 DEF TypeOK, ForwardResume, historyVars, Spent
<1>7. CASE MissResume
  <2>1. faults' \in 0..MaxFaults /\ resumes' \in Nat
    BY <1>7, FaultTypes DEF TypeOK, MissResume, Fault
  <2>2. QED
    BY <1>7, <2>1 DEF TypeOK, MissResume, historyVars, Spent
<1>8. QED
  BY <1>1, <1>2, <1>3, <1>4, <1>5, <1>6, <1>7, <1>9 DEF Producers

LEMMA WorldTypes ==
  ASSUME TypeOK, World
  PROVE  TypeOK'
<1>1. <<>> \in Seq(Transition) /\ Len(<<>>) <= Capacity /\ <<>> \in Seq(Effect)
  BY ExecutorAssumption
<1>2. CASE ChargerEdge
  <2>1. spent' \in Spent
    BY <1>2, SpendTypes DEF TypeOK, ChargerEdge
  <2>2. QED
    BY <1>2, <2>1 DEF TypeOK, ChargerEdge, historyVars
<1>3. CASE Sleep
  <2>1. spent' \in Spent
    BY <1>3, SpendTypes DEF TypeOK, Sleep
  <2>2. hw' \in Hardware
    BY <1>3, ExecutorAssumption DEF TypeOK, Sleep, Hardware, DropsControl
  <2>3. QED
    BY <1>3, <2>1, <2>2 DEF TypeOK, Sleep
<1>4. CASE Boot
  <2>1. spent' \in Spent
    BY <1>4, SpendTypes DEF TypeOK, Boot
  <2>2. state' \in ProfileState /\ hw.limits \in Limits
    BY <1>4, BootStateType, HardwareFields DEF TypeOK, Boot
  <2>3. queue' \in Seq(Transition) /\ Len(queue') <= Capacity
    <3>1. [op |-> "SystemResumed"] \in Transition
      BY DEF Transition, SystemEvent, Bare
    <3>2. <<[op |-> "SystemResumed"]>> \in Seq(Transition)
          /\ Len(<<[op |-> "SystemResumed"]>>) = 1
      BY <3>1
    <3>3. QED
      BY <1>4, <3>2, ExecutorAssumption DEF Boot
  <2>4. prefs' \in DcSnapshot \cup {None}
    <3>1. state'.last_dc_state # None => state'.last_dc_state \in DcSnapshot
      BY <2>2, StateFields
    <3>2. QED
      BY <1>4, <2>2, <3>1, LeversType DEF Boot, PrefsAtBoot
  <2>5. faults' \in 0..MaxFaults
    BY <1>4, FaultTypes DEF TypeOK, Boot, Fault
  <2>6. QED
    BY <1>1, <1>4, <2>1, <2>2, <2>3, <2>4, <2>5, DaemonAssumption DEF TypeOK, Boot
<1>5. CASE Crash
  <2>1. spent' \in Spent
    BY <1>5, SpendTypes DEF TypeOK, Crash
  <2>2. effects # <<>> => Current \in Effect
    BY DEF TypeOK, Current
  <2>3. hw' \in Hardware
    BY <1>5, <2>2, HalfWrittenTypes DEF TypeOK, Crash
  <2>4. QED
    BY <1>1, <1>5, <2>1, <2>3 DEF TypeOK, Crash, historyVars
<1>6. CASE PowerCycle
  <2>1. spent' \in Spent
    BY <1>6, SpendTypes DEF TypeOK, PowerCycle
  <2>2. hw' \in Hardware
    BY <1>6, FactoryType DEF PowerCycle
  <2>3. QED
    BY <1>1, <1>6, <2>1, <2>2 DEF TypeOK, PowerCycle, historyVars
<1>7. QED
  BY <1>2, <1>3, <1>4, <1>5, <1>6 DEF World

LEMMA NextTypes == TypeOK /\ [Next]_vars => TypeOK'
<1> SUFFICES ASSUME TypeOK, [Next]_vars PROVE TypeOK'
  OBVIOUS
<1>1. CASE UNCHANGED vars
  BY <1>1 DEF TypeOK, vars, executorVars, daemonVars, historyVars, Spent
<1>2. QED
  BY <1>1, ExecutingTypes, ProducersTypes, WorldTypes DEF Next

\* Every variable of the daemon keeps its type, for every capacity, backend,
\* request mix and number of failures; the channel never exceeds its capacity.
THEOREM DaemonTypes == Spec => []TypeOK
  BY InitTypes, NextTypes, PTL DEF Spec
=============================================================================
