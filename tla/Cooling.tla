------------------------------ MODULE Cooling ------------------------------
(***************************************************************************)
(* What a cooling tier means on a device: the fan curve of the preset      *)
(* table (fan_curve.rs), which curves a device accepts (validate_against), *)
(* the GPU clock ceiling of the tier (gpu_clock_range_for_tier) and the    *)
(* repair of the operator's fractions (GpuClockFractions::sanitized).      *)
(*                                                                         *)
(* Temperatures are in degrees, duties in 0..255, clocks in megahertz and  *)
(* fractions in percent.                                                   *)
(***************************************************************************)
EXTENDS PowerEnvelope

FanCurvePoints == 1..8

\* FanCurvePoint::new
At(t, d) == [temp |-> t, pwm |-> d]

PresetCurve ==
  [Silent     |-> <<At(50, 15), At(58, 28), At(65, 55), At(72, 95),
                    At(78, 150), At(83, 200), At(88, 235), At(93, 255)>>,
   Balanced   |-> <<At(45, 20), At(54, 50), At(62, 95), At(69, 145),
                    At(75, 190), At(80, 225), At(85, 255), At(92, 255)>>,
   Aggressive |-> <<At(40, 45), At(48, 90), At(55, 135), At(62, 180),
                    At(68, 220), At(74, 255), At(82, 255), At(90, 255)>>]

FanCurveConstraints ==
  [temp_min |-> 30, temp_max |-> 95, pwm_min |-> 0, pwm_max |-> 255,
   safety_floor |-> {At(85, 150), At(90, 200)}]

\* What a curve drawn by a user must satisfy: hotter points, duty that never
\* falls, the device's ranges, and the floor of every threshold reached.
ValidCurve(curve, k) ==
  /\ \A i, j \in FanCurvePoints :
       i < j => curve[i].temp < curve[j].temp /\ curve[i].pwm <= curve[j].pwm
  /\ \A i \in FanCurvePoints :
       /\ curve[i].temp >= k.temp_min /\ curve[i].temp <= k.temp_max
       /\ curve[i].pwm >= k.pwm_min /\ curve[i].pwm <= k.pwm_max
       /\ \A f \in k.safety_floor : curve[i].temp >= f.temp => curve[i].pwm >= f.pwm

-----------------------------------------------------------------------------
ClockConstraints == [range_min : Nat, range_max : Nat]

ValidClockRange(r, od) ==
  /\ r.min < r.max
  /\ od.range_min <= r.min /\ r.min <= od.range_max
  /\ od.range_min <= r.max /\ r.max <= od.range_max

\* Mutated GpuClockRangeForTier: a fraction of nothing leaves no range.
GpuClockRangeUnfloored(tier, od, fractions) ==
  LET span    == SaturatingSub(od.range_max, od.range_min)
      ceiling == od.range_min + RoundPercent(span, fractions[tier])
  IN  [min |-> od.range_min, max |-> AtMost(ceiling, od.range_max)]

GpuClockRangeForTier(tier, od, fractions) ==
  LET span    == SaturatingSub(od.range_max, od.range_min)
      ceiling == od.range_min + RoundPercent(span, fractions[tier])
  IN  [min |-> od.range_min,
       max |-> AtMost(AtLeast(ceiling, od.range_min + 1), od.range_max)]

-----------------------------------------------------------------------------
NotFinite == -1   \* a NaN or an infinity in config.toml

Fractions == [Tier -> Nat \cup {NotFinite}]

DefaultFractions == [Silent |-> 55, Balanced |-> 80, Aggressive |-> 100]

\* Mutated SanitizedFractions: clamps, but keeps an inverted order.
SanitizedFractionsClampOnly(fractions) ==
  IF \E t \in Tier : fractions[t] = NotFinite THEN DefaultFractions
  ELSE [t \in Tier |-> Percent(fractions[t])]

\* One bad fraction, or an order that gives a cooler tier less clock, and the
\* whole triple falls back to the defaults.
SanitizedFractions(fractions) ==
  LET clamped == [t \in Tier |-> Percent(fractions[t])] IN
  IF \/ \E t \in Tier : fractions[t] = NotFinite
     \/ clamped["Silent"] > clamped["Balanced"]
     \/ clamped["Balanced"] > clamped["Aggressive"]
  THEN DefaultFractions
  ELSE clamped
=============================================================================
