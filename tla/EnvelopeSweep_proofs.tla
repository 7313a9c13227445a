------------------------ MODULE EnvelopeSweep_proofs ------------------------
(* What the power arithmetic promises on every device and every tuning.    *)
EXTENDS EnvelopeSweep, TLAPS

TypeOK ==
  /\ lim \in Limits /\ od \in ClockConstraints
  /\ tuning \in Config /\ fractions \in Fractions
  /\ spl \in Nat

\* A rail derived between its floors and its ceiling stays between them,
\* whatever the factor multiplies the SPL to.
LEMMA BoostRailBounds ==
  ASSUME NEW s \in Nat, NEW factor \in Nat, NEW below \in Nat,
         NEW rail_min \in Nat, NEW rail_max \in Nat, NEW l \in Limits,
         below <= rail_max, rail_min <= rail_max
  PROVE  LET r == BoostRail(s, factor, below, rail_min, rail_max, l) IN
         r \in Nat /\ r >= below /\ r >= rail_min /\ r <= rail_max
<1>1. (s * factor) \div 100 \in Nat
  OBVIOUS
<1>2. QED
  BY <1>1 DEF BoostRail, AtLeast, AtMost, Limits

\* The tuning the daemon runs with is usable, whatever was written.
LEMMA SanitizedConfig ==
  ASSUME NEW c \in Config
  PROVE  /\ Sanitized(c) \in Config
         /\ UsableConfig(Sanitized(c))
         /\ UsableConfig(c) => Sanitized(c) = c
  BY DEF Sanitized, UsableConfig, Config, Percent, AtLeast, AtMost, DefaultConfig

\* x percent of n, rounded, is at most n.
LEMMA RoundPercentBounds ==
  ASSUME NEW n \in Nat, NEW x \in Nat, x <= 100
  PROVE  RoundPercent(n, x) \in Nat /\ RoundPercent(n, x) <= n
<1>1. n * x \in Nat /\ n * x <= n * 100
  OBVIOUS
<1> DEFINE m == n * x
<1>2. 2 * n * x = 2 * m
  OBVIOUS
<1>3. m \in Nat /\ m <= 100 * n
  BY <1>1
<1> HIDE DEF m
<1>4. (2 * m + 100) \div 200 \in Nat /\ (2 * m + 100) \div 200 <= n
  BY <1>3
<1>5. QED
  BY <1>2, <1>4 DEF RoundPercent

\* Whole watts survive the truncation to watts and back.
LEMMA WholeWattsBack ==
  ASSUME NEW mw \in Nat, mw % MilliwattsPerWatt = 0
  PROVE  AsWatts(mw) \in Nat /\ FromWatts(AsWatts(mw)) = mw
  BY PowerAssumption DEF AsWatts, FromWatts

\* Milliwatts and watts are ordered alike.
LEMMA FromWattsMonotone ==
  ASSUME NEW a \in Nat, NEW b \in Nat, a <= b
  PROVE  FromWatts(a) \in Nat /\ FromWatts(a) <= FromWatts(b)
  BY PowerAssumption DEF FromWatts

LEMMA AsWattsMonotone ==
  ASSUME NEW a \in Nat, NEW b \in Nat,
         FromWatts(a) <= FromWatts(b)
  PROVE  a <= b
  BY PowerAssumption DEF FromWatts

\* An envelope derived from an SPL in range is valid.
LEMMA DerivedValid ==
  ASSUME NEW s \in Nat, NEW l \in Limits, NEW c \in Config,
         SaneLimits(l), s >= l.spl_min, s <= l.spl_max
  PROVE  ValidEnvelope(DeriveBoostedEnvelope(s, l, c), l)
<1> DEFINE sppt == BoostRail(s, c.sppt_factor, s, l.sppt_min, l.sppt_max, l)
           fppt == BoostRail(s, c.fppt_factor, sppt, l.fppt_min, l.fppt_max, l)
<1>1. /\ \A f \in {"spl_min", "spl_max", "sppt_min", "sppt_max",
                    "fppt_min", "fppt_max"} : l[f] \in Nat
      /\ c.sppt_factor \in Nat /\ c.fppt_factor \in Nat
  BY DEF Limits, Config
<1>2. /\ s <= l.sppt_max /\ l.sppt_min <= l.sppt_max
      /\ l.sppt_max <= l.fppt_max /\ l.fppt_min <= l.fppt_max
  BY <1>1 DEF SaneLimits
<1>3. sppt \in Nat /\ sppt >= s /\ sppt >= l.sppt_min /\ sppt <= l.sppt_max
  BY <1>1, <1>2, BoostRailBounds
<1>4. sppt <= l.fppt_max
  BY <1>1, <1>2, <1>3
<1> HIDE DEF sppt
<1>5. fppt \in Nat /\ fppt >= sppt /\ fppt >= l.fppt_min /\ fppt <= l.fppt_max
  BY <1>1, <1>2, <1>3, <1>4, BoostRailBounds
<1> HIDE DEF fppt
<1>6. DeriveBoostedEnvelope(s, l, c) = [spl |-> s, sppt |-> sppt, fppt |-> fppt]
  BY DEF DeriveBoostedEnvelope, sppt, fppt
<1>7. QED
  BY <1>3, <1>5, <1>6 DEF ValidEnvelope

LEMMA PresetInRange ==
  ASSUME NEW l \in Limits, NEW c \in Config, SaneLimits(l), UsableConfig(c),
         NEW p \in TdpPreset
  PROVE  LET w == PresetWatts(p, l, c) IN
         /\ FitsInMilliwatts(w)
         /\ FromWatts(w) >= l.spl_min
         /\ FromWatts(w) <= l.spl_max
         /\ PresetWatts("Eco", l, c) <= w
         /\ w <= PresetWatts("Max", l, c)
<1> DEFINE min_w == AsWatts(l.spl_min)
           max_w == AsWatts(l.spl_max)
           w     == PresetWatts(p, l, c)
<1>1. /\ l.spl_min \in Nat /\ l.spl_max \in Nat /\ l.spl_min <= l.spl_max
      /\ l.spl_max <= MaxMilliwatts
      /\ c.efficiency_frac \in Nat /\ c.efficiency_frac <= 100
  BY PowerAssumption DEF Limits, Config, SaneLimits, UsableConfig
<1>2. /\ min_w \in Nat /\ FromWatts(min_w) = l.spl_min
      /\ max_w \in Nat /\ FromWatts(max_w) = l.spl_max
  BY <1>1, WholeWattsBack DEF SaneLimits
<1>3. min_w <= max_w
  BY <1>1, <1>2, AsWattsMonotone
<1>4. PresetWatts("Eco", l, c) = min_w /\ PresetWatts("Max", l, c) = max_w
  BY DEF PresetWatts
<1> HIDE DEF min_w, max_w
<1>5. w \in Nat /\ min_w <= w /\ w <= max_w
  <2>1. CASE p \in {"Eco", "Max"}
    BY <2>1, <1>2, <1>3, <1>4
  <2>2. CASE p = "Balanced"
    BY <2>2, <1>2, <1>3 DEF PresetWatts, min_w, max_w
  <2>3. CASE p = "Efficiency"
    <3>1. SaturatingSub(max_w, min_w) = max_w - min_w /\ max_w - min_w \in Nat
      BY <1>2, <1>3 DEF SaturatingSub
    <3>2. /\ RoundPercent(max_w - min_w, c.efficiency_frac) \in Nat
          /\ RoundPercent(max_w - min_w, c.efficiency_frac) <= max_w - min_w
      BY <1>1, <3>1, RoundPercentBounds
    <3>3. w = min_w + RoundPercent(max_w - min_w, c.efficiency_frac)
      BY <2>3, <3>1 DEF PresetWatts, min_w, max_w
    <3>4. QED
      BY <1>2, <3>1, <3>2, <3>3
  <2>4. QED
    BY <2>1, <2>2, <2>3 DEF TdpPreset
<1> HIDE DEF w
<1>6. /\ FromWatts(w) \in Nat
      /\ FromWatts(min_w) <= FromWatts(w)
      /\ FromWatts(w) <= FromWatts(max_w)
  BY <1>2, <1>5, FromWattsMonotone
<1>7. FitsInMilliwatts(w)
  <2>1. w * MilliwattsPerWatt <= MaxMilliwatts
    BY <1>1, <1>2, <1>6, PowerAssumption DEF FromWatts
  <2>2. QED
    BY <2>1, <1>5, PowerAssumption DEF FitsInMilliwatts
<1>8. QED
  BY <1>1, <1>2, <1>4, <1>5, <1>6, <1>7 DEF w

\* The fractions the daemon runs with are percentages that rise with the
\* tier, whatever was written.
LEMMA SanitizedRises ==
  ASSUME NEW f \in Fractions
  PROVE  LET g == SanitizedFractions(f) IN
         /\ \A t \in Tier : g[t] \in Nat /\ g[t] <= 100
         /\ g["Silent"] <= g["Balanced"] /\ g["Balanced"] <= g["Aggressive"]
<1> DEFINE clamped == [t \in Tier |-> Percent(f[t])]
<1>1. \A t \in Tier : clamped[t] \in Nat /\ clamped[t] <= 100
  BY DEF Fractions, NotFinite, Percent, AtLeast, AtMost
<1>2. CASE SanitizedFractions(f) = DefaultFractions
  BY <1>2 DEF DefaultFractions, Tier
<1>3. CASE SanitizedFractions(f) # DefaultFractions
  <2>1. /\ SanitizedFractions(f) = clamped
        /\ ~(clamped["Silent"] > clamped["Balanced"])
        /\ ~(clamped["Balanced"] > clamped["Aggressive"])
    BY <1>3 DEF SanitizedFractions
  <2>2. QED
    BY <1>1, <2>1 DEF Tier
<1>4. QED
  BY <1>2, <1>3

\* The range of a tier lies in a device's bounds.
LEMMA ClockRangeValid ==
  ASSUME NEW bounds \in ClockConstraints, bounds.range_min < bounds.range_max,
         NEW g, NEW t \in Tier, g[t] \in Nat, g[t] <= 100
  PROVE  ValidClockRange(GpuClockRangeForTier(t, bounds, g), bounds)
<1> DEFINE low == bounds.range_min
           high == bounds.range_max
           span == SaturatingSub(high, low)
           above == RoundPercent(span, g[t])
<1>1. low \in Nat /\ high \in Nat /\ low < high
  BY DEF ClockConstraints
<1>2. span \in Nat
  BY <1>1 DEF SaturatingSub
<1> HIDE DEF span
<1>3. above \in Nat
  BY <1>2, RoundPercentBounds
<1>4. GpuClockRangeForTier(t, bounds, g) =
        [min |-> low, max |-> AtMost(AtLeast(low + above, low + 1), high)]
  BY DEF GpuClockRangeForTier, span
<1> HIDE DEF low, high, above
<1>5. /\ low < AtMost(AtLeast(low + above, low + 1), high)
      /\ AtMost(AtLeast(low + above, low + 1), high) <= high
  BY <1>1, <1>3 DEF AtLeast, AtMost
<1>6. AtMost(AtLeast(low + above, low + 1), high) \in Nat
  BY <1>1, <1>3 DEF AtLeast, AtMost
<1> DEFINE r == GpuClockRangeForTier(t, bounds, g)
<1>7. r.min = low /\ r.max \in Nat /\ low < r.max /\ r.max <= high
  BY <1>4, <1>5, <1>6
<1> HIDE DEF r
<1>8. ValidClockRange(r, bounds)
  <2>1. bounds.range_min = low /\ bounds.range_max = high
    BY DEF low, high
  <2>2. QED
    BY <1>1, <1>7, <2>1 DEF ValidClockRange
<1>9. QED
  BY <1>8 DEF r

\* A larger fraction never lowers the ceiling.
LEMMA ClockRangeMonotone ==
  ASSUME NEW bounds \in ClockConstraints, NEW g, NEW t \in Tier, NEW u \in Tier,
         g[t] \in Nat, g[u] \in Nat, g[t] <= g[u]
  PROVE  GpuClockRangeForTier(u, bounds, g).max >= GpuClockRangeForTier(t, bounds, g).max
<1> DEFINE low == bounds.range_min
           high == bounds.range_max
           span == SaturatingSub(high, low)
           a == RoundPercent(span, g[t])
           b == RoundPercent(span, g[u])
<1>1. low \in Nat /\ high \in Nat
  BY DEF ClockConstraints
<1>2. span \in Nat
  BY <1>1 DEF SaturatingSub
<1> HIDE DEF span
<1>3. a \in Nat /\ b \in Nat /\ a <= b
  <2> DEFINE p == span * g[t]
             q == span * g[u]
  <2>1. p \in Nat /\ q \in Nat /\ p <= q
    BY <1>2
  <2>2. a = (2 * p + 100) \div 200 /\ b = (2 * q + 100) \div 200
    <3>1. 2 * span * g[t] = 2 * p /\ 2 * span * g[u] = 2 * q
      BY <1>2
    <3>2. QED
      BY <3>1 DEF RoundPercent
  <2> HIDE DEF p, q
  <2>3. QED
    BY <2>1, <2>2
<1>4. /\ GpuClockRangeForTier(t, bounds, g).max = AtMost(AtLeast(low + a, low + 1), high)
      /\ GpuClockRangeForTier(u, bounds, g).max = AtMost(AtLeast(low + b, low + 1), high)
  BY DEF GpuClockRangeForTier, span
<1> HIDE DEF a, b, low, high
<1>5. QED
  BY <1>1, <1>3, <1>4 DEF AtLeast, AtMost

\* Every curve of the preset table passes the check of a user's curve.
LEMMA PresetCurvesValid ==
  \A t \in Tier : ValidCurve(PresetCurve[t], FanCurveConstraints)
<1> SUFFICES ASSUME NEW t \in Tier
             PROVE  ValidCurve(PresetCurve[t], FanCurveConstraints)
  OBVIOUS
<1>1. \A i \in FanCurvePoints : i \in {1, 2, 3, 4, 5, 6, 7, 8}
  BY DEF FanCurvePoints
<1>2. CASE t = "Silent"
  BY <1>1, <1>2 DEF ValidCurve, PresetCurve, FanCurveConstraints, At
<1>3. CASE t = "Balanced"
  BY <1>1, <1>3 DEF ValidCurve, PresetCurve, FanCurveConstraints, At
<1>4. CASE t = "Aggressive"
  BY <1>1, <1>4 DEF ValidCurve, PresetCurve, FanCurveConstraints, At
<1>5. QED
  BY <1>2, <1>3, <1>4 DEF Tier

\* A tier that ranks higher never moves less air.
LEMMA AirRises ==
  /\ NoLessAir["Silent"] = Tier
  /\ NoLessAir["Balanced"] = {"Balanced", "Aggressive"}
  /\ NoLessAir["Aggressive"] = {"Aggressive"}
<1>1. \A i \in FanCurvePoints : i \in {1, 2, 3, 4, 5, 6, 7, 8}
  BY DEF FanCurvePoints
<1>2. 1 \in FanCurvePoints
  BY DEF FanCurvePoints
<1>3. QED
  BY <1>1, <1>2 DEF NoLessAir, PresetCurve, At, Tier

-----------------------------------------------------------------------------
\* The sweep stays within the types.
THEOREM SweepTypes == Spec => []TypeOK
<1>1. Init => TypeOK
  BY SweepAssumption DEF Init, TypeOK
<1>2. TypeOK /\ [Next]_vars => TypeOK'
  BY DEF TypeOK, Next, Sweep, vars
<1>3. QED
  BY <1>1, <1>2, PTL DEF Spec

\* On every sane device, for every tuning and every SPL in range, the derived
\* envelope passes validate_power_envelope.
THEOREM EveryDerivedIsValid == Spec => []DerivedIsValid
<1>1. TypeOK => DerivedIsValid
  <2> SUFFICES ASSUME TypeOK, SaneLimits(lim), InRange
               PROVE  ValidEnvelope(Derived, lim)
    BY DEF DerivedIsValid
  <2>1. Cfg \in Config
    BY SanitizedConfig DEF TypeOK, Cfg
  <2>2. QED
    BY <2>1, DerivedValid DEF TypeOK, InRange, Derived
<1>2. QED
  BY <1>1, SweepTypes, PTL

\* On every sane device, every preset is accepted and ordered.
THEOREM EveryPresetAccepted == Spec => []PresetsAccepted
<1>1. TypeOK => PresetsAccepted
  <2> SUFFICES ASSUME TypeOK, SaneLimits(lim)
               PROVE  PresetsAccepted
    BY DEF PresetsAccepted
  <2>1. Cfg \in Config /\ UsableConfig(Cfg)
    BY SanitizedConfig DEF TypeOK, Cfg
  <2>2. QED
    BY <2>1, PresetInRange DEF TypeOK, PresetsAccepted
<1>2. QED
  BY <1>1, SweepTypes, PTL

\* Every tuning, however wrong, is repaired to a usable one.
THEOREM EveryTuningUsable == Spec => []SanitizedIsUsable
<1>1. TypeOK => SanitizedIsUsable
  BY SanitizedConfig DEF TypeOK, Cfg, SanitizedIsUsable
<1>2. QED
  BY <1>1, SweepTypes, PTL

-----------------------------------------------------------------------------
(* Monotonicity.                                                           *)

\* One more milliwatt of SPL never lowers a rail, if it does not lower the
\* rail under it.
LEMMA BoostRailMonotone ==
  ASSUME NEW s \in Nat, NEW factor \in Nat, NEW b1 \in Nat, NEW b2 \in Nat,
         b1 <= b2, NEW rail_min \in Nat, NEW rail_max \in Nat, NEW l \in Limits
  PROVE  /\ BoostRail(s, factor, b1, rail_min, rail_max, l) \in Nat
         /\ BoostRail(s + 1, factor, b2, rail_min, rail_max, l) \in Nat
         /\ BoostRail(s, factor, b1, rail_min, rail_max, l)
              <= BoostRail(s + 1, factor, b2, rail_min, rail_max, l)
<1>1. l.spl_max \in Nat
  BY DEF Limits
<1> DEFINE x == s * factor
           y == (s + 1) * factor
<1>2. x \in Nat /\ y \in Nat /\ x <= y
  OBVIOUS
<1> DEFINE p == x \div 100
           q == y \div 100
<1> HIDE DEF x, y
<1>3. p \in Nat /\ q \in Nat /\ p <= q
  BY <1>2
<1>4. /\ BoostRail(s, factor, b1, rail_min, rail_max, l)
           = AtLeast(AtLeast(IF s >= l.spl_max THEN rail_max ELSE AtMost(p, rail_max), b1), rail_min)
      /\ BoostRail(s + 1, factor, b2, rail_min, rail_max, l)
           = AtLeast(AtLeast(IF s + 1 >= l.spl_max THEN rail_max ELSE AtMost(q, rail_max), b2), rail_min)
  BY DEF BoostRail, x, y
<1> HIDE DEF p, q
<1>5. QED
  BY <1>1, <1>3, <1>4 DEF AtLeast, AtMost

\* The tier of an SPL, by where it lies in the range.
LEMMA TierMonotone ==
  ASSUME NEW l \in Limits, NEW c \in Config, UsableConfig(c),
         NEW e1, NEW e2, e1.spl \in Nat, e2.spl \in Nat, e1.spl <= e2.spl
  PROVE  /\ Rank[InferTier(e1, l, c)] \in Nat /\ Rank[InferTier(e2, l, c)] \in Nat
         /\ Rank[InferTier(e1, l, c)] <= Rank[InferTier(e2, l, c)]
<1> DEFINE range == SaturatingSub(l.spl_max, l.spl_min)
           o1 == SaturatingSub(e1.spl, l.spl_min)
           o2 == SaturatingSub(e2.spl, l.spl_min)
           low == c.low_frac * range
           high == c.high_frac * range
<1>1. /\ l.spl_min \in Nat /\ l.spl_max \in Nat
      /\ c.low_frac \in Nat /\ c.high_frac \in Nat /\ c.low_frac <= c.high_frac
  BY DEF Limits, Config, UsableConfig
<1>2. o1 \in Nat /\ o2 \in Nat /\ o1 <= o2 /\ range \in Nat
  BY <1>1 DEF SaturatingSub
<1> HIDE DEF range, o1, o2
<1>3. low \in Nat /\ high \in Nat /\ low <= high
  BY <1>1, <1>2
<1>4. /\ InferTier(e1, l, c) = (IF range = 0 THEN "Balanced"
                                ELSE IF o1 * 100 < low THEN "Silent"
                                ELSE IF o1 * 100 < high THEN "Balanced"
                                ELSE "Aggressive")
      /\ InferTier(e2, l, c) = (IF range = 0 THEN "Balanced"
                                ELSE IF o2 * 100 < low THEN "Silent"
                                ELSE IF o2 * 100 < high THEN "Balanced"
                                ELSE "Aggressive")
  BY DEF InferTier, range, o1, o2
<1> HIDE DEF low, high
<1>5. QED
  BY <1>2, <1>3, <1>4 DEF Rank

\* The derived envelope, rail by rail.
LEMMA DerivedMonotone ==
  ASSUME NEW s \in Nat, NEW l \in Limits, NEW c \in Config
  PROVE  LET e1 == DeriveBoostedEnvelope(s, l, c)
             e2 == DeriveBoostedEnvelope(s + 1, l, c)
         IN  /\ e1.spl = s /\ e2.spl = s + 1
             /\ e2.sppt >= e1.sppt
             /\ e2.fppt >= e1.fppt
<1> DEFINE k  == c.sppt_factor
           n  == c.fppt_factor
           t  == s + 1
           s1 == BoostRail(s, k, s, l.sppt_min, l.sppt_max, l)
           s2 == BoostRail(t, k, t, l.sppt_min, l.sppt_max, l)
           f1 == BoostRail(s, n, s1, l.fppt_min, l.fppt_max, l)
           f2 == BoostRail(t, n, s2, l.fppt_min, l.fppt_max, l)
<1>1. /\ k \in Nat /\ n \in Nat
      /\ l.sppt_min \in Nat /\ l.sppt_max \in Nat
      /\ l.fppt_min \in Nat /\ l.fppt_max \in Nat
  BY DEF Limits, Config
<1>2. t \in Nat /\ t = s + 1 /\ s <= t
  OBVIOUS
<1>3. /\ DeriveBoostedEnvelope(s, l, c) = [spl |-> s, sppt |-> s1, fppt |-> f1]
      /\ DeriveBoostedEnvelope(s + 1, l, c) = [spl |-> s + 1, sppt |-> s2, fppt |-> f2]
  BY DEF DeriveBoostedEnvelope
<1> HIDE DEF k, n
<1>4. s1 \in Nat /\ s2 \in Nat /\ s1 <= s2
  BY <1>1, <1>2, BoostRailMonotone
<1> HIDE DEF s1, s2
<1>5. f1 \in Nat /\ f2 \in Nat /\ f1 <= f2
  BY <1>1, <1>2, <1>4, BoostRailMonotone
<1> HIDE DEF f1, f2
<1>6. QED
  BY <1>3, <1>4, <1>5

\* Asking for more power never yields less, on every sane device.
THEOREM EverySweepMonotone == Spec => MorePowerNeverLess
<1>1. TypeOK /\ [Next]_vars =>
        [ SaneLimits(lim) =>
            /\ Derived'.sppt >= Derived.sppt
            /\ Derived'.fppt >= Derived.fppt
            /\ Rank[InferTier(Derived', lim, Cfg)] >= Rank[InferTier(Derived, lim, Cfg)]
        ]_vars
  <2> SUFFICES ASSUME TypeOK, Sweep
               PROVE  /\ Derived'.sppt >= Derived.sppt
                      /\ Derived'.fppt >= Derived.fppt
                      /\ Rank[InferTier(Derived', lim, Cfg)] >= Rank[InferTier(Derived, lim, Cfg)]
    BY DEF Next
  <2> DEFINE d1 == DeriveBoostedEnvelope(spl, lim, Cfg)
             d2 == DeriveBoostedEnvelope(spl + 1, lim, Cfg)
  <2>1. /\ spl \in Nat /\ spl' = spl + 1 /\ lim' = lim /\ tuning' = tuning /\ lim \in Limits
        /\ Cfg' = Cfg /\ Cfg \in Config /\ UsableConfig(Cfg)
    BY SanitizedConfig DEF TypeOK, Sweep, Cfg
  <2>2. Derived = d1 /\ Derived' = d2
    BY <2>1 DEF Derived
  <2>3. d1.spl = spl /\ d2.spl = spl + 1 /\ d2.sppt >= d1.sppt /\ d2.fppt >= d1.fppt
    BY <2>1, DerivedMonotone
  <2> HIDE DEF d1, d2
  <2>4. Rank[InferTier(d2, lim, Cfg)] >= Rank[InferTier(d1, lim, Cfg)]
    BY <2>1, <2>3, TierMonotone
  <2>5. QED
    BY <2>2, <2>3, <2>4, Zenon
<1>2. QED
  BY <1>1, SweepTypes, PTL DEF Spec, MorePowerNeverLess

\* Every tier's cooling is accepted on every device whose OD_RANGE is a range.
THEOREM EveryCoolingAccepted == Spec => []CoolingAccepted
<1>1. TypeOK => CoolingAccepted
  <2> SUFFICES ASSUME TypeOK
               PROVE  CoolingAccepted
    OBVIOUS
  <2> DEFINE t == TierAt(spl)
  <2>1. t \in Tier
    BY DEF TierAt, InferTier, Tier
  <2> HIDE DEF t
  <2>2. t \in AcceptedTier
    BY <2>1, PresetCurvesValid DEF AcceptedTier
  <2>3. GpuFractions[t] \in Nat /\ GpuFractions[t] <= 100
    BY <2>1, SanitizedRises DEF TypeOK, GpuFractions
  <2>4. ASSUME od.range_min < od.range_max
        PROVE  ValidClockRange(GpuClockRangeForTier(t, od, GpuFractions), od)
    BY <2>1, <2>3, <2>4, ClockRangeValid DEF TypeOK
  <2>5. QED
    BY <2>2, <2>4 DEF CoolingAccepted, ClocksAt, t
<1>2. QED
  BY <1>1, SweepTypes, PTL

\* Asking for more power never moves less air nor lowers the GPU's ceiling,
\* on every device and for every tuning.
THEOREM EveryCoolingFollows == Spec => CoolingFollowsPower
<1>1. TypeOK /\ [Next]_vars =>
        [ /\ TierAt(spl') \in NoLessAir[TierAt(spl)]
          /\ ClocksAt(spl').max >= ClocksAt(spl).max
        ]_vars
  <2> SUFFICES ASSUME TypeOK, Sweep
               PROVE  /\ TierAt(spl') \in NoLessAir[TierAt(spl)]
                      /\ ClocksAt(spl').max >= ClocksAt(spl).max
    BY DEF Next
  <2> DEFINE t == TierAt(spl)
             u == TierAt(spl + 1)
  <2>1. spl \in Nat /\ spl' = spl + 1 /\ Cfg \in Config /\ UsableConfig(Cfg)
    BY SanitizedConfig DEF TypeOK, Sweep, Cfg
  <2>2. t \in Tier /\ u \in Tier
    BY DEF TierAt, InferTier, Tier
  <2>3. Rank[t] <= Rank[u]
    <3> DEFINE e1 == DeriveBoostedEnvelope(spl, lim, Cfg)
               e2 == DeriveBoostedEnvelope(spl + 1, lim, Cfg)
    <3>1. e1.spl = spl /\ e2.spl = spl + 1
      BY DEF DeriveBoostedEnvelope
    <3> HIDE DEF e1, e2
    <3>2. Rank[InferTier(e1, lim, Cfg)] <= Rank[InferTier(e2, lim, Cfg)]
      BY <2>1, <3>1, TierMonotone DEF TypeOK
    <3>3. QED
      BY <3>2 DEF TierAt, e1, e2
  <2> HIDE DEF t, u
  <2>4. <<t, u>> \in {<<"Silent", "Silent">>, <<"Silent", "Balanced">>,
                      <<"Silent", "Aggressive">>, <<"Balanced", "Balanced">>,
                      <<"Balanced", "Aggressive">>, <<"Aggressive", "Aggressive">>}
    BY <2>2, <2>3 DEF Rank, Tier
  <2>5. u \in NoLessAir[t]
    BY <2>2, <2>4, AirRises DEF Tier
  <2> DEFINE g == GpuFractions
  <2>6. /\ g[t] \in Nat /\ g[u] \in Nat
        /\ g["Silent"] <= g["Balanced"] /\ g["Balanced"] <= g["Aggressive"]
        /\ \A x \in Tier : g[x] \in Nat
    BY <2>2, SanitizedRises DEF TypeOK, GpuFractions
  <2> HIDE DEF g
  <2>7. g[t] <= g[u]
    BY <2>2, <2>4, <2>6 DEF Tier
  <2>8. GpuClockRangeForTier(u, od, g).max >= GpuClockRangeForTier(t, od, g).max
    BY <2>2, <2>6, <2>7, ClockRangeMonotone DEF TypeOK
  <2>9. QED
    BY <2>1, <2>5, <2>8 DEF ClocksAt, g, t, u
<1>2. QED
  BY <1>1, SweepTypes, PTL DEF Spec, CoolingFollowsPower
=============================================================================
