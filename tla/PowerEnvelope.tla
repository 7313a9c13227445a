--------------------------- MODULE PowerEnvelope ---------------------------
(***************************************************************************)
(* The power arithmetic of hpd: what a TDP preset or an SPL request means  *)
(* on a device (SetPreset, SetSpl, derive_boosted_envelope), which         *)
(* envelopes are acceptable (validate_power_envelope), which cooling tier  *)
(* belongs to an SPL (infer_fan_curve_from_spl), and how operator-supplied *)
(* tuning is repaired (sanitized).                                         *)
(*                                                                         *)
(* Power is in milliwatts.  The f32 factors and fractions of the code are  *)
(* integer percentages here, so rounding is exact where f32 rounds.        *)
(***************************************************************************)
EXTENDS Integers

CONSTANTS
  MilliwattsPerWatt,  \* 1000 in the code
  MaxMilliwatts       \* largest PowerMilliwatts; u32::MAX in the code

ASSUME PowerAssumption ==
  /\ MilliwattsPerWatt \in Nat \ {0}
  /\ MaxMilliwatts \in Nat

NoFppt == -1          \* the None of PowerEnvelopeTarget::fppt

Envelope == [spl : Nat, sppt : Nat, fppt : Nat \cup {NoFppt}]

Limits == [spl_min : Nat, spl_max : Nat, sppt_min : Nat, sppt_max : Nat,
           fppt_min : Nat, fppt_max : Nat]

Config == [sppt_factor : Nat, fppt_factor : Nat, low_frac : Nat,
           high_frac : Nat, efficiency_frac : Nat]

TdpPreset == {"Eco", "Efficiency", "Balanced", "Max"}

Tier == {"Silent", "Balanced", "Aggressive"}

-----------------------------------------------------------------------------
AtLeast(a, b) == IF a >= b THEN a ELSE b
AtMost(a, b) == IF a <= b THEN a ELSE b

SaturatingSub(a, b) == IF a >= b THEN a - b ELSE 0

\* Half away from zero, as f32::round, of x percent of n.
RoundPercent(n, x) == (2 * n * x + 100) \div 200

FromWatts(w) == w * MilliwattsPerWatt
FitsInMilliwatts(w) == w <= MaxMilliwatts \div MilliwattsPerWatt
AsWatts(mw) == mw \div MilliwattsPerWatt

\* What the device is left with: sysfs takes and gives whole watts.
WholeWatts(mw) == FromWatts(AsWatts(mw))

-----------------------------------------------------------------------------
ValidEnvelope(e, lim) ==
  /\ e.sppt >= e.spl
  /\ e.fppt # NoFppt => e.fppt >= e.sppt
  /\ e.spl >= lim.spl_min /\ e.spl <= lim.spl_max
  /\ e.sppt >= lim.sppt_min /\ e.sppt <= lim.sppt_max
  /\ e.fppt # NoFppt => e.fppt >= lim.fppt_min /\ e.fppt <= lim.fppt_max

\* Mutated BoostRail: not floored at the rail under it.
BoostRailUnfloored(spl, factor, below, rail_min, rail_max, lim) ==
  LET raw == IF spl >= lim.spl_max THEN rail_max
             ELSE AtMost((spl * factor) \div 100, rail_max)
  IN  AtLeast(raw, rail_min)

\* Mutated BoostRail: a multiple of SPL beyond the rail's ceiling.
BoostRailUncapped(spl, factor, below, rail_min, rail_max, lim) ==
  LET raw == IF spl >= lim.spl_max THEN rail_max ELSE (spl * factor) \div 100
  IN  AtLeast(AtLeast(raw, below), rail_min)

\* A boost rail: its own ceiling at spl_max, a multiple of SPL below it,
\* floored at the rail under it and at its own hardware minimum.
BoostRail(spl, factor, below, rail_min, rail_max, lim) ==
  LET raw == IF spl >= lim.spl_max THEN rail_max
             ELSE AtMost((spl * factor) \div 100, rail_max)
  IN  AtLeast(AtLeast(raw, below), rail_min)

DeriveBoostedEnvelope(spl, lim, cfg) ==
  LET sppt == BoostRail(spl, cfg.sppt_factor, spl, lim.sppt_min, lim.sppt_max, lim)
      fppt == BoostRail(spl, cfg.fppt_factor, sppt, lim.fppt_min, lim.fppt_max, lim)
  IN  [spl |-> spl, sppt |-> sppt, fppt |-> fppt]

MaxEnvelope(lim, cfg) == DeriveBoostedEnvelope(lim.spl_max, lim, cfg)

\* Mutated PresetWatts: a fraction of the ceiling instead of the range.
PresetWattsOfCeiling(preset, lim, cfg) ==
  LET min_w == AsWatts(lim.spl_min)
      max_w == AsWatts(lim.spl_max)
  IN  CASE preset = "Eco"        -> min_w
        [] preset = "Efficiency" -> min_w + RoundPercent(max_w, cfg.efficiency_frac)
        [] preset = "Balanced"   -> (min_w + max_w) \div 2
        [] preset = "Max"        -> max_w

PresetWatts(preset, lim, cfg) ==
  LET min_w == AsWatts(lim.spl_min)
      max_w == AsWatts(lim.spl_max)
  IN  CASE preset = "Eco"        -> min_w
        [] preset = "Efficiency" ->
             min_w + RoundPercent(SaturatingSub(max_w, min_w), cfg.efficiency_frac)
        [] preset = "Balanced"   -> (min_w + max_w) \div 2
        [] preset = "Max"        -> max_w

InferTier(e, lim, cfg) ==
  LET range  == SaturatingSub(lim.spl_max, lim.spl_min)
      offset == SaturatingSub(e.spl, lim.spl_min)
  IN  IF range = 0 THEN "Balanced"
      ELSE IF offset * 100 < cfg.low_frac * range THEN "Silent"
      ELSE IF offset * 100 < cfg.high_frac * range THEN "Balanced"
      ELSE "Aggressive"

-----------------------------------------------------------------------------
(* RuntimeConfig::sanitized: operator input is repaired, never rejected.   *)

DefaultConfig ==
  [sppt_factor |-> 115, fppt_factor |-> 125, low_frac |-> 33,
   high_frac |-> 67, efficiency_frac |-> 30]

Percent(x) == AtMost(AtLeast(x, 0), 100)

\* Mutated Sanitized: clamps, but does not repair inverted thresholds.
SanitizedClampOnly(cfg) ==
  [sppt_factor |-> AtLeast(cfg.sppt_factor, 100),
   fppt_factor |-> AtLeast(cfg.fppt_factor, 100),
   low_frac    |-> Percent(cfg.low_frac),
   high_frac   |-> Percent(cfg.high_frac),
   efficiency_frac |-> Percent(cfg.efficiency_frac)]

\* Tunings are finite here: an infinite or NaN factor or fraction, which the
\* code repairs like an inverted pair, has no counterpart.
Sanitized(cfg) ==
  LET low  == Percent(cfg.low_frac)
      high == Percent(cfg.high_frac)
  IN  [sppt_factor |-> IF cfg.sppt_factor >= 100 THEN cfg.sppt_factor
                       ELSE DefaultConfig.sppt_factor,
       fppt_factor |-> IF cfg.fppt_factor >= 100 THEN cfg.fppt_factor
                       ELSE DefaultConfig.fppt_factor,
       low_frac    |-> IF low > high THEN DefaultConfig.low_frac ELSE low,
       high_frac   |-> IF low > high THEN DefaultConfig.high_frac ELSE high,
       efficiency_frac |-> Percent(cfg.efficiency_frac)]

\* What a device's firmware attributes give: every rail is a range, no boost
\* ceiling is below the rail under it, and the SPL bounds are whole watts.
SaneLimits(lim) ==
  /\ lim.spl_min <= lim.spl_max
  /\ lim.sppt_min <= lim.sppt_max
  /\ lim.fppt_min <= lim.fppt_max
  /\ lim.spl_max <= lim.sppt_max
  /\ lim.sppt_max <= lim.fppt_max
  /\ lim.fppt_max <= MaxMilliwatts
  /\ \A f \in {"spl_min", "spl_max"} : lim[f] % MilliwattsPerWatt = 0
=============================================================================
