--------------------------- MODULE EnvelopeSweep ---------------------------
(***************************************************************************)
(* The power arithmetic over every SPL of a device: one behaviour per      *)
(* device range and per operator tuning, sweeping the SPL upwards by the   *)
(* finest step the code can express.                                       *)
(***************************************************************************)
EXTENDS Cooling

CONSTANTS
  Machines,  \* the devices swept: their power limits and GPU clock bounds
  Tunings,   \* operator tunings, as written in config.toml
  SweepEnd   \* bound on the SPL

ASSUME SweepAssumption ==
  /\ Machines \subseteq [lim : Limits, od : ClockConstraints]
  /\ Tunings \subseteq [tuning : Config, fractions : Fractions]
  /\ SweepEnd \in Nat

VARIABLES
  lim,        \* DeviceLimits
  od,         \* the GPU's OD_RANGE
  tuning,     \* the tuning as written,
  fractions,  \* its GPU clock fractions apart
  spl         \* the SPL asked for, in milliwatts

vars == <<lim, od, tuning, fractions, spl>>

Init ==
  /\ spl = 0
  /\ \E m \in Machines : lim = m.lim /\ od = m.od
  /\ \E t \in Tunings : tuning = t.tuning /\ fractions = t.fractions

Sweep == spl < SweepEnd /\ spl' = spl + 1 /\ UNCHANGED <<lim, od, tuning, fractions>>

Next == Sweep

Spec == Init /\ [][Next]_vars

-----------------------------------------------------------------------------
\* The tuning the daemon runs with.
Cfg == Sanitized(tuning)

Derived == DeriveBoostedEnvelope(spl, lim, Cfg)

InRange == spl >= lim.spl_min /\ spl <= lim.spl_max

\* On a device with sane ranges every SPL in range derives an envelope the
\* validator accepts, whatever factors the operator wrote: no TDP request in
\* range is rejected for the boost rails the daemon itself computed.
DerivedIsValid == SaneLimits(lim) /\ InRange => ValidEnvelope(Derived, lim)

\* Every preset is a request the reducer accepts: its watts, converted to
\* milliwatts again, lie in the device's SPL range, and the presets are
\* ordered from Eco to Max.  The first unplug without a snapshot relies on it.
PresetsAccepted ==
  SaneLimits(lim) =>
    \A p \in TdpPreset :
      LET w == PresetWatts(p, lim, Cfg) IN
      /\ FitsInMilliwatts(w)
      /\ FromWatts(w) >= lim.spl_min
      /\ FromWatts(w) <= lim.spl_max
      /\ PresetWatts("Eco", lim, Cfg) <= w
      /\ w <= PresetWatts("Max", lim, Cfg)

UsableConfig(c) ==
  /\ c.sppt_factor >= 100
  /\ c.fppt_factor >= 100
  /\ c.low_frac <= c.high_frac
  /\ c.high_frac <= 100
  /\ c.efficiency_frac <= 100

\* Sanitizing yields a usable tuning and leaves a usable one as written, so
\* the cooling thresholds never invert.
SanitizedIsUsable ==
  UsableConfig(Cfg) /\ (UsableConfig(tuning) => Cfg = tuning)

Rank == [Silent |-> 1, Balanced |-> 2, Aggressive |-> 3]

\* Asking for more power never lowers a boost rail and never picks a quieter
\* cooling tier, across the jump to the ceilings at spl_max included.
MorePowerNeverLess ==
  [][ SaneLimits(lim) =>
        /\ Derived'.sppt >= Derived.sppt
        /\ Derived'.fppt >= Derived.fppt
        /\ Rank[InferTier(Derived', lim, Cfg)] >= Rank[InferTier(Derived, lim, Cfg)]
    ]_vars

-----------------------------------------------------------------------------
\* The fractions the daemon runs with.
GpuFractions == SanitizedFractions(fractions)

TierAt(power) == InferTier(DeriveBoostedEnvelope(power, lim, Cfg), lim, Cfg)

ClocksAt(power) == GpuClockRangeForTier(TierAt(power), od, GpuFractions)

\* The tiers whose curve passes the check a user's curve must pass.
AcceptedTier == {t \in Tier : ValidCurve(PresetCurve[t], FanCurveConstraints)}

\* Whatever tier the SPL infers, its cooling is accepted: the preset's curve
\* passes the check a user's curve must pass, and on every device whose clock
\* bounds are a range the GPU range it follows passes validate_against,
\* whatever fractions the operator wrote.
CoolingAccepted ==
  /\ TierAt(spl) \in AcceptedTier
  /\ od.range_min < od.range_max => ValidClockRange(ClocksAt(spl), od)

\* The tiers whose curve is, point by point, no hotter and no slower than the
\* tier's: no interpolation between the points gives it less air.
NoLessAir ==
  [tier \in Tier |->
     {t \in Tier : \A i \in FanCurvePoints :
        /\ PresetCurve[t][i].temp <= PresetCurve[tier][i].temp
        /\ PresetCurve[t][i].pwm >= PresetCurve[tier][i].pwm}]

\* Asking for more power never slows the fans at any temperature and never
\* lowers the ceiling of a GPU that follows it, across tier changes and
\* whatever thresholds and fractions the operator wrote.
CoolingFollowsPower ==
  [][ /\ TierAt(spl') \in NoLessAir[TierAt(spl)]
      /\ ClocksAt(spl').max >= ClocksAt(spl).max
    ]_vars
=============================================================================
