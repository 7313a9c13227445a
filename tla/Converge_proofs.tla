--------------------------- MODULE Converge_proofs ---------------------------
(***************************************************************************)
(* What the device is left running, and what the state file holds, for     *)
(* every capacity, backend, request mix and bound.                         *)
(*                                                                         *)
(* The argument: of every part of the device, either the effects still to  *)
(* be dispatched end with a write of what the state reports, or they do    *)
(* not touch the part and it already is what the state, or the rollback in *)
(* the channel, says (the *Due formulas).  Every transition but a rollback *)
(* leads from a state to the next one in that sense (Drives), and a resume *)
(* that rewrites all levers does so from any device (Asserts).             *)
(***************************************************************************)
EXTENDS Lock_proofs

-----------------------------------------------------------------------------
(* Effect lists.                                                           *)

Has(fx, ops) == \E i \in 1..Len(fx) : fx[i].op \in ops

\* Of the effects with an operation in ops, e is the last.
Ends(fx, ops, e) ==
  \E i \in 1..Len(fx) :
    /\ fx[i] = e
    /\ \A j \in 1..Len(fx) : j > i => fx[j].op \notin ops

\* The effects that a part of the device depends on.  A profile write drops the
\* envelope and the curve.
EnvelopeOps == {"ApplyPlatformProfile", "ApplyPowerEnvelope"}
ProfileOps == {"ApplyPlatformProfile"}
ChargeOps == {"ApplyChargeThreshold"}
FanOps == {"ApplyFanCurve", "ResetFanCurve"}
CurveOps == {"ApplyPlatformProfile", "ApplyFanCurve", "ResetFanCurve"}
GpuOps == {"ApplyGpuClockRange", "ResetGpuClocks"}
SaveOps == {"PersistState"}

-----------------------------------------------------------------------------
(* What a device h that is still to be given the effects fx owes a state.  *)

EnvelopeDue(fx, s, h) ==
  \/ Ends(fx, EnvelopeOps, ApplyPowerEnvelope(s.power_target))
  \/ ~Has(fx, EnvelopeOps) /\ WrittenEnvelope(h.envelope, s.power_target) = h.envelope

EnforceDue(fx, s, h) ==
  \/ Ends(fx, EnvelopeOps, ApplyPowerEnvelope(s.power_target))
  \/ ~Has(fx, EnvelopeOps) /\ h.enforced

ProfileDue(fx, s, h) ==
  "profile" \in Capability =>
    \/ Ends(fx, ProfileOps, ApplyPlatformProfile(s.active_profile))
    \/ ~Has(fx, ProfileOps) /\ h.profile = s.active_profile

ChargeDue(fx, s, h) ==
  "charge" \in Capability =>
    \/ Ends(fx, ChargeOps, ApplyChargeThreshold(s.charge_end_threshold))
    \/ ~Has(fx, ChargeOps) /\ h.charge = s.charge_end_threshold

CurveDue(fx, s, h) ==
  "curve" \in Capability /\ s.active_fan_curve # None =>
    \/ Ends(fx, CurveOps, ApplyFanCurve(s.active_fan_curve))
    \/ ~Has(fx, CurveOps) /\ h.curve = s.active_fan_curve

\* An unset curve survives a profile write.
CurveOffDue(fx, s, h) ==
  "curve" \in Capability /\ s.active_fan_curve = None =>
    \/ Ends(fx, CurveOps, ResetFanCurveEffect)
    \/ ~Has(fx, FanOps) /\ h.curve = None

GpuDue(fx, s, h) ==
  "gpu" \in Capability /\ s.active_gpu_clock # None =>
    \/ /\ s.active_gpu_clock \in Tier
       /\ Ends(fx, GpuOps, ApplyGpuClockRange(s.active_gpu_clock))
    \/ /\ ~Has(fx, GpuOps)
       /\ IF s.active_gpu_clock = Unmanaged THEN h.gpu # None
          ELSE h.gpu = s.active_gpu_clock

GpuOffDue(fx, s, h) ==
  "gpu" \in Capability /\ s.active_gpu_clock = None =>
    \/ Ends(fx, GpuOps, ResetGpuClocksEffect)
    \/ ~Has(fx, GpuOps) /\ h.gpu = None

\* No curve write of a state without a curve comes before a profile write.
FanOrder(fx, s) ==
  s.active_fan_curve = None /\ Has(fx, FanOps) => Ends(fx, CurveOps, ResetFanCurveEffect)

\* A rollback t reports what the device runs and will run.
SyncRuns(t, fx, h) ==
  /\ t.op = "SyncPowerTarget" =>
       ~Has(fx, EnvelopeOps) /\ WrittenEnvelope(h.envelope, t.target) = h.envelope
  /\ t.op = "SyncPlatformProfile" => ~Has(fx, ProfileOps) /\ h.profile = t.profile
  /\ t.op = "SyncChargeThreshold" => ~Has(fx, ChargeOps) /\ h.charge = t.charge
  /\ t.op = "SyncFanCurve" => ~Has(fx, CurveOps) /\ h.curve = t.curve
  /\ t.op = "SyncGpuClockRange" =>
       ~Has(fx, GpuOps) /\ (t.gpu = None <=> h.gpu = None)

-----------------------------------------------------------------------------
(* The invariant.                                                          *)

Pending(q, op) == \E i \in 1..Len(q) : q[i].op = op

SetDue(q, fx, s, h) ==
  /\ ~Pending(q, "SyncPowerTarget") => EnvelopeDue(fx, s, h)
  /\ ~Pending(q, "SyncPlatformProfile") => ProfileDue(fx, s, h)
  /\ ~Pending(q, "SyncChargeThreshold") => ChargeDue(fx, s, h)
  /\ ~Pending(q, "SyncFanCurve") => CurveDue(fx, s, h)
  /\ ~Pending(q, "SyncGpuClockRange") => GpuDue(fx, s, h)

OffDue(q, fx, s, h) ==
  /\ ~Pending(q, "SyncFanCurve") => CurveOffDue(fx, s, h)
  /\ ~Pending(q, "SyncGpuClockRange") => GpuOffDue(fx, s, h)

\* Rollbacks are next in line, and report what the device will run.
SyncsLead(q, fx, h) ==
  \A i \in Syncs(q) : SyncRuns(q[i], fx, h) /\ 1..i \subseteq Syncs(q)

Up == phase # "off"

\* Nothing failed and nothing crashed, or one write did and its rollback is
\* next in line.
Clean == spent.crashes = 0 /\ (faults = 0 \/ (faults = 1 /\ asserted = "rolled"))

DeviceDue ==
  Up =>
    /\ FanOrder(effects, state)
    /\ asserted \in {"all", "rolled"} => SetDue(queue, effects, state, hw)
    /\ asserted = "all" => EnforceDue(effects, state, hw) /\ Syncs(queue) = {}
    /\ asserted = "rolled" => SyncsLead(queue, effects, hw)
    /\ Clean => OffDue(queue, effects, state, hw)

\* What the next boot finds: levers that the file does not set are not set.
FileOff ==
  ~Up /\ faults = 0 /\ spent.crashes = 0 =>
    /\ "curve" \in Capability /\ (disk = None \/ disk.active_fan_curve = None) =>
         hw.curve = None
    /\ "gpu" \in Capability /\ (disk = None \/ disk.active_gpu_clock = None) =>
         hw.gpu = None

\* An Unmanaged clock is only ever reported by a rollback.
Tiered(s) ==
  /\ s.active_gpu_clock # Unmanaged
  /\ s.last_dc_state # None => s.last_dc_state.active_gpu_clock # Unmanaged

Managed ==
  faults = 0 =>
    /\ Tiered(state)
    /\ disk # None => Tiered(disk)
    /\ durable # None => Tiered(durable)

Flushed ==
  phase = "stopping" /\ ~unsaved => disk = DiskImage(state) \/ Has(effects, SaveOps)

Sound ==
  /\ limits \in DeviceLimits /\ hw.limits \in DeviceLimits
  /\ WrittenEnvelope(hw.envelope, hw.envelope) = hw.envelope
  /\ asserted = "rolled" => faults > 0
  /\ unsaved => faults > 0
  /\ disk # None => DiskImage(disk) = disk
  /\ durable # None => DiskImage(durable) = durable

ConvergeInv == Sound /\ DeviceDue /\ FileOff /\ Flushed

\* Holds where no device's SPL range is a single value.
Durable ==
  /\ Managed
  /\ Up /\ faults = 0 /\ disk # None => SameOnDisk(state) \/ Has(effects, SaveOps)

-----------------------------------------------------------------------------
(* Lemmas on effect lists.                                                 *)

LEMMA EffectOps ==
  /\ \A x : ApplyPowerEnvelope(x).op = "ApplyPowerEnvelope"
  /\ \A x : ApplyPlatformProfile(x).op = "ApplyPlatformProfile"
  /\ \A x : ApplyChargeThreshold(x).op = "ApplyChargeThreshold"
  /\ \A x : ApplyFanCurve(x).op = "ApplyFanCurve"
  /\ \A x : ApplyGpuClockRange(x).op = "ApplyGpuClockRange"
  /\ ResetFanCurveEffect.op = "ResetFanCurve"
  /\ ResetGpuClocksEffect.op = "ResetGpuClocks"
  /\ PersistState.op = "PersistState"
  BY DEF ApplyPowerEnvelope, ApplyPlatformProfile, ApplyChargeThreshold, ApplyFanCurve,
         ApplyGpuClockRange, ResetFanCurveEffect, ResetGpuClocksEffect, PersistState

LEMMA EmptyList ==
  /\ \A ops : ~Has(<<>>, ops)
  /\ \A ops, e : ~Ends(<<>>, ops, e)
  BY DEF Has, Ends

LEMMA UnitList ==
  ASSUME NEW e \in Effect
  PROVE  /\ <<e>> \in Seq(Effect)
         /\ \A ops : Has(<<e>>, ops) <=> e.op \in ops
         /\ \A ops, d : Ends(<<e>>, ops, d) <=> d = e
<1>1. Len(<<e>>) = 1 /\ <<e>>[1] = e /\ <<e>> \in Seq(Effect)
  OBVIOUS
<1>2. QED
  BY <1>1 DEF Has, Ends

LEMMA JoinedList ==
  ASSUME NEW f \in Seq(Effect), NEW g \in Seq(Effect)
  PROVE  /\ f \o g \in Seq(Effect)
         /\ \A ops : Has(f \o g, ops) <=> Has(f, ops) \/ Has(g, ops)
         /\ \A ops, e : Ends(g, ops, e) => Ends(f \o g, ops, e)
         /\ \A ops, e : Ends(f, ops, e) /\ ~Has(g, ops) => Ends(f \o g, ops, e)
<1> DEFINE h == f \o g
           m == Len(f)
           k == Len(g)
<1>1. /\ h \in Seq(Effect) /\ Len(h) = m + k /\ m \in Nat /\ k \in Nat
      /\ \A i \in 1..m : h[i] = f[i]
      /\ \A i \in 1..k : h[m + i] = g[i]
  OBVIOUS
<1> HIDE DEF h
<1>2. \A i \in 1..Len(h) : i > m => i - m \in 1..k /\ h[i] = g[i - m]
  <2> TAKE i \in 1..Len(h)
  <2> HAVE i > m
  <2>1. i - m \in 1..k /\ m + (i - m) = i
    BY <1>1
  <2>2. QED
    BY <1>1, <2>1
<1>3. /\ \A i \in 1..m : i \in 1..Len(h)
      /\ \A i \in 1..k : m + i \in 1..Len(h) /\ m + i > m
  BY <1>1
<1>4. \A ops : Has(h, ops) <=> Has(f, ops) \/ Has(g, ops)
  <2> TAKE ops
  <2>1. ASSUME Has(h, ops) PROVE Has(f, ops) \/ Has(g, ops)
    <3>1. PICK i \in 1..Len(h) : h[i].op \in ops
      BY <2>1 DEF Has
    <3>2. CASE i > m
      BY <1>2, <3>1, <3>2 DEF Has
    <3>3. CASE i <= m
      <4>1. i \in 1..m
        BY <1>1, <3>1, <3>3
      <4>2. QED
        BY <1>1, <3>1, <4>1 DEF Has
    <3>4. QED
      BY <1>1, <3>2, <3>3
  <2>2. Has(f, ops) => Has(h, ops)
    BY <1>1, <1>3 DEF Has
  <2>3. Has(g, ops) => Has(h, ops)
    BY <1>1, <1>3 DEF Has
  <2>4. QED
    BY <2>1, <2>2, <2>3
<1>5. ASSUME NEW ops, NEW e, Ends(g, ops, e) PROVE Ends(h, ops, e)
  <2>1. PICK i \in 1..k : g[i] = e /\ \A j \in 1..k : j > i => g[j].op \notin ops
    BY <1>5 DEF Ends
  <2>2. h[m + i] = e /\ m + i \in 1..Len(h)
    BY <1>1, <1>3, <2>1
  <2>3. ASSUME NEW j \in 1..Len(h), j > m + i PROVE h[j].op \notin ops
    <3>1. j > m /\ j - m > i
      BY <1>1, <2>3
    <3>2. QED
      BY <1>2, <2>1, <3>1
  <2>4. QED
    BY <2>2, <2>3 DEF Ends
<1>6. ASSUME NEW ops, NEW e, Ends(f, ops, e), ~Has(g, ops) PROVE Ends(h, ops, e)
  <2>1. PICK i \in 1..m : f[i] = e /\ \A j \in 1..m : j > i => f[j].op \notin ops
    BY <1>6 DEF Ends
  <2>2. h[i] = e /\ i \in 1..Len(h)
    BY <1>1, <1>3, <2>1
  <2>3. ASSUME NEW j \in 1..Len(h), j > i PROVE h[j].op \notin ops
    <3>1. CASE j > m
      BY <1>2, <1>6, <3>1 DEF Has
    <3>2. CASE j <= m
      <4>1. j \in 1..m
        BY <1>1, <3>2
      <4>2. QED
        BY <1>1, <2>1, <2>3, <4>1
    <3>3. QED
      BY <1>1, <3>1, <3>2
  <2>4. QED
    BY <2>2, <2>3 DEF Ends
<1>7. QED
  BY <1>1, <1>4, <1>5, <1>6 DEF h

LEMMA WhenList ==
  ASSUME NEW c, NEW e, c => e \in Effect
  PROVE  /\ When(c, e) \in Seq(Effect)
         /\ \A ops : Has(When(c, e), ops) <=> c /\ e.op \in ops
         /\ \A ops : c => Ends(When(c, e), ops, e)
  BY UnitList, EmptyList DEF When

\* What remains of a list once its head is dispatched.
LEMMA RestOfList ==
  ASSUME NEW fx \in Seq(Effect), fx # <<>>
  PROVE  /\ Tail(fx) \in Seq(Effect) /\ Head(fx) \in Effect
         /\ \A ops : ~Has(fx, ops) => ~Has(Tail(fx), ops) /\ Head(fx).op \notin ops
         /\ \A ops : Has(fx, ops) => Head(fx).op \in ops \/ Has(Tail(fx), ops)
         /\ \A ops, e : Ends(fx, ops, e) =>
              Ends(Tail(fx), ops, e) \/ (Head(fx) = e /\ ~Has(Tail(fx), ops))
<1> DEFINE g == Tail(fx)
           n == Len(fx)
<1>1. /\ n \in Nat \ {0} /\ Head(fx) = fx[1] /\ Head(fx) \in Effect
      /\ g \in Seq(Effect) /\ Len(g) = n - 1
      /\ \A i \in 1..Len(g) : g[i] = fx[i + 1]
  OBVIOUS
<1> HIDE DEF g
<1>2. /\ 1 \in 1..n
      /\ \A i \in 1..Len(g) : i + 1 \in 1..n /\ g[i] = fx[i + 1]
      /\ \A i \in 1..n : i # 1 => i - 1 \in 1..Len(g) /\ g[i - 1] = fx[i]
  <2>1. \A i \in 1..n : i # 1 => i - 1 \in 1..Len(g) /\ (i - 1) + 1 = i
    BY <1>1
  <2>2. QED
    BY <1>1, <2>1
<1>3. \A ops : ~Has(fx, ops) => ~Has(g, ops) /\ Head(fx).op \notin ops
  BY <1>1, <1>2 DEF Has
<1>4. \A ops : Has(fx, ops) => Head(fx).op \in ops \/ Has(g, ops)
  BY <1>1, <1>2 DEF Has
<1>5. ASSUME NEW ops, NEW e, Ends(fx, ops, e)
      PROVE  Ends(g, ops, e) \/ (Head(fx) = e /\ ~Has(g, ops))
  <2>1. PICK i \in 1..n : fx[i] = e /\ \A j \in 1..n : j > i => fx[j].op \notin ops
    BY <1>5 DEF Ends
  <2>2. \A j \in 1..Len(g) : j + 1 > i => g[j].op \notin ops
    BY <1>1, <1>2, <2>1
  <2>3. CASE i = 1
    BY <1>1, <2>1, <2>2, <2>3 DEF Has
  <2>4. CASE i # 1
    <3>1. i - 1 \in 1..Len(g) /\ g[i - 1] = e
      BY <1>2, <2>1, <2>4
    <3>2. \A j \in 1..Len(g) : j > i - 1 => j + 1 > i
      OBVIOUS
    <3>3. QED
      BY <2>2, <3>1, <3>2 DEF Ends
  <2>5. QED
    BY <2>3, <2>4
<1>6. QED
  BY <1>1, <1>3, <1>4, <1>5 DEF g

-----------------------------------------------------------------------------
(* What a transition that leads from s to n by the effects fx does to each *)
(* part of the device.                                                     *)

EnvelopeDrive(fx, s, n) ==
  \/ Ends(fx, EnvelopeOps, ApplyPowerEnvelope(n.power_target))
  \/ ~Has(fx, EnvelopeOps) /\ n.power_target = s.power_target

ProfileDrive(fx, s, n) ==
  \/ Ends(fx, ProfileOps, ApplyPlatformProfile(n.active_profile))
  \/ ~Has(fx, ProfileOps) /\ n.active_profile = s.active_profile

ChargeDrive(fx, s, n) ==
  \/ Ends(fx, ChargeOps, ApplyChargeThreshold(n.charge_end_threshold))
  \/ ~Has(fx, ChargeOps) /\ n.charge_end_threshold = s.charge_end_threshold

CurveDrive(fx, s, n) ==
  IF n.active_fan_curve # None
  THEN \/ Ends(fx, CurveOps, ApplyFanCurve(n.active_fan_curve))
       \/ ~Has(fx, CurveOps) /\ n.active_fan_curve = s.active_fan_curve
  ELSE \/ Ends(fx, CurveOps, ResetFanCurveEffect)
       \/ ~Has(fx, FanOps) /\ s.active_fan_curve = None

GpuDrive(fx, s, n) ==
  \/ n.active_gpu_clock \in Tier /\ Ends(fx, GpuOps, ApplyGpuClockRange(n.active_gpu_clock))
  \/ n.active_gpu_clock = None /\ Ends(fx, GpuOps, ResetGpuClocksEffect)
  \/ ~Has(fx, GpuOps) /\ n.active_gpu_clock = s.active_gpu_clock

Drives(fx, s, n) ==
  /\ EnvelopeDrive(fx, s, n) /\ ProfileDrive(fx, s, n) /\ ChargeDrive(fx, s, n)
  /\ CurveDrive(fx, s, n) /\ GpuDrive(fx, s, n)

Ops == {EnvelopeOps, ProfileOps, ChargeOps, FanOps, CurveOps, GpuOps}

\* An output that says nothing changes nothing.
Follows(o, s) ==
  /\ OutputOK(o)
  /\ o.effects = <<>> => o.new_state = s
  /\ ~o.ok => o.effects = <<>>
  /\ Drives(o.effects, s, o.new_state)

\* A lever that may be chained: none but ResetFanCurve resets the curve.
Chains(o, s) == Follows(o, s) /\ ~Has(o.effects, {"ResetFanCurve"})

LEMMA NothingDrives ==
  ASSUME NEW s, NEW n,
         /\ n.power_target = s.power_target /\ n.active_profile = s.active_profile
         /\ n.charge_end_threshold = s.charge_end_threshold
         /\ n.active_fan_curve = s.active_fan_curve
         /\ n.active_gpu_clock = s.active_gpu_clock
  PROVE  Drives(<<>>, s, n)
  BY EmptyList DEF Drives, EnvelopeDrive, ProfileDrive, ChargeDrive, CurveDrive, GpuDrive

LEMMA NothingFollows ==
  ASSUME NEW s \in ProfileState
  PROVE  Chains(Output(s, <<>>), s) /\ Chains(Rejected(s), s)
  BY NothingDrives, OutputTypes, SeqTypes, EmptyList DEF Chains, Follows, Output, Rejected

LEMMA ApplyPowerTargetFollows ==
  ASSUME NEW s \in ProfileState, NEW e \in Envelope, NEW lim, NEW cfg
  PROVE  Chains(ApplyPowerTarget(s, e, lim, cfg), s)
<1> DEFINE tier == InferTier(e, lim, cfg)
           fan  == s.fan_follows_tdp /\ s.active_fan_curve # tier
           gpu  == s.gpu_follows_tdp /\ s.active_gpu_clock # tier
           n == [s EXCEPT !.power_target = e,
                          !.active_fan_curve = IF fan THEN tier ELSE @,
                          !.active_gpu_clock = IF gpu THEN tier ELSE @]
           f1 == <<ApplyPowerEnvelope(e)>>
           f2 == When(fan, ApplyFanCurve(tier))
           f3 == When(gpu, ApplyGpuClockRange(tier))
           o == Output(n, f1 \o f2 \o f3)
<1>1. CASE s.power_target = e
  BY <1>1, NothingFollows DEF ApplyPowerTarget
<1>2. CASE s.power_target # e
  <2>1. ApplyPowerTarget(s, e, lim, cfg) = o
    BY <1>2 DEF ApplyPowerTarget
  <2>2. OutputOK(o)
    BY <2>1, ApplyPowerTargetType
  <2>3. /\ n.power_target = e /\ n.active_profile = s.active_profile
        /\ n.charge_end_threshold = s.charge_end_threshold
        /\ n.active_fan_curve = IF fan THEN tier ELSE s.active_fan_curve
        /\ n.active_gpu_clock = IF gpu THEN tier ELSE s.active_gpu_clock
    BY DEF ProfileState
  <2>4. tier \in Tier /\ tier # None
    BY InferTierType, SelectionAssumption DEF Curve
  <2> HIDE DEF n, tier
  <2>5. f1 \in Seq(Effect) /\ f2 \in Seq(Effect) /\ f3 \in Seq(Effect) /\ f1 \o f2 \in Seq(Effect)
    BY <2>4, EffectTypes, TierType, UnitList, WhenList, JoinedList
  <2>6. \A ops : /\ Has(f1, ops) <=> "ApplyPowerEnvelope" \in ops
                 /\ Has(f2, ops) <=> fan /\ "ApplyFanCurve" \in ops
                 /\ Has(f3, ops) <=> gpu /\ "ApplyGpuClockRange" \in ops
                 /\ Ends(f1, ops, ApplyPowerEnvelope(e))
                 /\ fan => Ends(f2, ops, ApplyFanCurve(tier))
                 /\ gpu => Ends(f3, ops, ApplyGpuClockRange(tier))
    <3>1. ApplyPowerEnvelope(e) \in Effect /\ ApplyFanCurve(tier) \in Effect
          /\ ApplyGpuClockRange(tier) \in Effect
      BY <2>4, EffectTypes, TierType
    <3>2. \A ops : /\ Has(f1, ops) <=> ApplyPowerEnvelope(e).op \in ops
                   /\ Ends(f1, ops, ApplyPowerEnvelope(e))
      BY <3>1, UnitList
    <3>3. \A ops : /\ Has(f2, ops) <=> fan /\ ApplyFanCurve(tier).op \in ops
                   /\ fan => Ends(f2, ops, ApplyFanCurve(tier))
      BY <3>1, WhenList
    <3>4. \A ops : /\ Has(f3, ops) <=> gpu /\ ApplyGpuClockRange(tier).op \in ops
                   /\ gpu => Ends(f3, ops, ApplyGpuClockRange(tier))
      BY <3>1, WhenList
    <3> HIDE DEF f1, f2, f3, fan, gpu
    <3>5. QED
      BY <3>2, <3>3, <3>4, EffectOps
  <2> HIDE DEF f1, f2, f3, fan, gpu
  <2> DEFINE fx == f1 \o f2 \o f3
  <2>7. /\ \A ops : Has(fx, ops) <=> Has(f1, ops) \/ Has(f2, ops) \/ Has(f3, ops)
        /\ \A ops, d : Ends(f3, ops, d) => Ends(fx, ops, d)
        /\ \A ops, d : Ends(f2, ops, d) /\ ~Has(f3, ops) => Ends(fx, ops, d)
        /\ \A ops, d : Ends(f1, ops, d) /\ ~Has(f2, ops) /\ ~Has(f3, ops) => Ends(fx, ops, d)
    BY <2>5, JoinedList
  <2>8. fx # <<>>
    BY <2>6, <2>7, EmptyList
  <2> HIDE DEF fx
  <2>9. EnvelopeDrive(fx, s, n) /\ ProfileDrive(fx, s, n) /\ ChargeDrive(fx, s, n)
    BY <2>3, <2>6, <2>7 DEF EnvelopeDrive, ProfileDrive, ChargeDrive, EnvelopeOps, ProfileOps, ChargeOps
  <2>10. CurveDrive(fx, s, n)
    BY <2>3, <2>4, <2>6, <2>7 DEF CurveDrive, CurveOps, FanOps
  <2>11. GpuDrive(fx, s, n)
    BY <2>3, <2>4, <2>6, <2>7 DEF GpuDrive, GpuOps
  <2>12. ~Has(fx, {"ResetFanCurve"})
    BY <2>6, <2>7
  <2>13. o = Output(n, fx)
    BY DEF fx
  <2> HIDE DEF o
  <2>14. Chains(o, s)
    BY <2>2, <2>8, <2>9, <2>10, <2>11, <2>12, <2>13 DEF Chains, Follows, Drives, Output
  <2>15. QED
    BY <2>1, <2>14
<1>3. QED
  BY <1>1, <1>2

LEMMA SetPresetFollows ==
  ASSUME NEW s \in ProfileState, NEW lim \in Limits, NEW cfg \in Config
  PROVE  /\ \A e \in Envelope : Chains(SetEnvelope(s, e, lim, cfg), s)
         /\ \A w \in Nat : Chains(SetSpl(s, w, lim, cfg), s)
         /\ \A p \in TdpPreset : Chains(SetPreset(s, p, lim, cfg), s)
<1>1. \A e \in Envelope : Chains(SetEnvelope(s, e, lim, cfg), s)
  BY ApplyPowerTargetFollows, NothingFollows DEF SetEnvelope
<1>2. ASSUME NEW w \in Nat PROVE Chains(SetSpl(s, w, lim, cfg), s)
  <2>1. DeriveBoostedEnvelope(FromWatts(w), lim, cfg) \in Envelope
    BY FromWattsType, DeriveType
  <2>2. QED
    BY <1>1, <2>1, NothingFollows DEF SetSpl
<1>3. \A p \in TdpPreset : Chains(SetPreset(s, p, lim, cfg), s)
  BY <1>2, PresetWattsType DEF SetPreset
<1>4. QED
  BY <1>1, <1>2, <1>3

LEMMA SetProfileFollows ==
  ASSUME NEW s \in ProfileState, NEW p \in Profile
  PROVE  Chains(SetProfile(s, p), s)
<1> DEFINE n == [s EXCEPT !.active_profile = p]
           c == s.active_fan_curve
           a1 == <<ApplyPlatformProfile(p)>>
           a2 == <<ApplyPowerEnvelope(s.power_target)>>
           ab == <<ApplyPlatformProfile(p), ApplyPowerEnvelope(s.power_target)>>
           f3 == When(c # None, ApplyFanCurve(c))
           o == Output(n, ab \o f3)
<1>1. CASE s.active_profile = p
  BY <1>1, NothingFollows DEF SetProfile
<1>2. CASE s.active_profile # p
  <2>1. SetProfile(s, p) = o
    BY <1>2 DEF SetProfile
  <2>2. OutputOK(o)
    BY <2>1, SetProfileType
  <2>3. /\ n.active_profile = p /\ n.power_target = s.power_target
        /\ n.charge_end_threshold = s.charge_end_threshold
        /\ n.active_fan_curve = c
        /\ n.active_gpu_clock = s.active_gpu_clock
    BY DEF ProfileState
  <2>4. /\ ApplyPlatformProfile(p) \in Effect /\ ApplyPowerEnvelope(s.power_target) \in Effect
        /\ c # None => ApplyFanCurve(c) \in Effect
    BY StateFields, EffectTypes
  <2>5. ab = a1 \o a2
    BY <2>4
  <2>6. \A ops : /\ Has(a1, ops) <=> ApplyPlatformProfile(p).op \in ops
                 /\ Ends(a1, ops, ApplyPlatformProfile(p))
                 /\ a1 \in Seq(Effect)
    BY <2>4, UnitList
  <2>7. \A ops : /\ Has(a2, ops) <=> ApplyPowerEnvelope(s.power_target).op \in ops
                 /\ Ends(a2, ops, ApplyPowerEnvelope(s.power_target))
                 /\ a2 \in Seq(Effect)
    BY <2>4, UnitList
  <2>8. \A ops : /\ Has(f3, ops) <=> c # None /\ ApplyFanCurve(c).op \in ops
                 /\ c # None => Ends(f3, ops, ApplyFanCurve(c))
                 /\ f3 \in Seq(Effect)
    BY <2>4, WhenList
  <2> HIDE DEF a1, a2, ab, f3, n
  <2> DEFINE fx == ab \o f3
  <2>9. ab \in Seq(Effect)
    BY <2>5, <2>6, <2>7, JoinedList
  <2>10. /\ \A ops : Has(fx, ops) <=> Has(a1, ops) \/ Has(a2, ops) \/ Has(f3, ops)
         /\ \A ops, d : Ends(f3, ops, d) => Ends(fx, ops, d)
         /\ \A ops, d : Ends(a2, ops, d) /\ ~Has(f3, ops) => Ends(fx, ops, d)
         /\ \A ops, d : Ends(a1, ops, d) /\ ~Has(a2, ops) /\ ~Has(f3, ops) => Ends(fx, ops, d)
    BY <2>5, <2>6, <2>7, <2>8, <2>9, JoinedList
  <2>11. fx # <<>> /\ ~Has(fx, {"ResetFanCurve"})
    BY <2>6, <2>7, <2>8, <2>10, EmptyList, EffectOps
  <2> HIDE DEF fx
  <2>12. EnvelopeDrive(fx, s, n) /\ ProfileDrive(fx, s, n) /\ ChargeDrive(fx, s, n)
    BY <2>3, <2>6, <2>7, <2>8, <2>10, EffectOps
       DEF EnvelopeDrive, ProfileDrive, ChargeDrive, EnvelopeOps, ProfileOps, ChargeOps
  <2>13. CurveDrive(fx, s, n) /\ GpuDrive(fx, s, n)
    BY <2>3, <2>6, <2>7, <2>8, <2>10, EffectOps DEF CurveDrive, GpuDrive, CurveOps, FanOps, GpuOps
  <2>14. o = Output(n, fx)
    BY DEF fx
  <2> HIDE DEF o
  <2>15. Chains(o, s)
    BY <2>2, <2>11, <2>12, <2>13, <2>14 DEF Chains, Follows, Drives, Output
  <2>16. QED
    BY <2>1, <2>15
<1>3. QED
  BY <1>1, <1>2

\* The levers that write one part each.
LEMMA UnitFollows ==
  ASSUME NEW s \in ProfileState, NEW n \in ProfileState, NEW e \in Effect,
         Drives(<<e>>, s, n)
  PROVE  /\ Follows(Output(n, <<e>>), s)
         /\ e.op # "ResetFanCurve" => Chains(Output(n, <<e>>), s)
<1>1. /\ <<e>> \in Seq(Effect) /\ <<e>> # <<>>
      /\ Has(<<e>>, {"ResetFanCurve"}) <=> e.op = "ResetFanCurve"
  BY UnitList
<1>2. QED
  BY <1>1, OutputTypes DEF Follows, Chains, Output

LEMMA UnitDrives ==
  ASSUME NEW s, NEW n, NEW e \in Effect
  PROVE  /\ EnvelopeDrive(<<e>>, s, n) <=>
              \/ e = ApplyPowerEnvelope(n.power_target)
              \/ e.op \notin EnvelopeOps /\ n.power_target = s.power_target
         /\ ProfileDrive(<<e>>, s, n) <=>
              \/ e = ApplyPlatformProfile(n.active_profile)
              \/ e.op \notin ProfileOps /\ n.active_profile = s.active_profile
         /\ ChargeDrive(<<e>>, s, n) <=>
              \/ e = ApplyChargeThreshold(n.charge_end_threshold)
              \/ e.op \notin ChargeOps /\ n.charge_end_threshold = s.charge_end_threshold
         /\ CurveDrive(<<e>>, s, n) <=>
              IF n.active_fan_curve # None
              THEN \/ e = ApplyFanCurve(n.active_fan_curve)
                   \/ e.op \notin CurveOps /\ n.active_fan_curve = s.active_fan_curve
              ELSE \/ e = ResetFanCurveEffect
                   \/ e.op \notin FanOps /\ s.active_fan_curve = None
         /\ GpuDrive(<<e>>, s, n) <=>
              \/ n.active_gpu_clock \in Tier /\ e = ApplyGpuClockRange(n.active_gpu_clock)
              \/ n.active_gpu_clock = None /\ e = ResetGpuClocksEffect
              \/ e.op \notin GpuOps /\ n.active_gpu_clock = s.active_gpu_clock
<1>1. \A ops : Has(<<e>>, ops) <=> e.op \in ops
  BY UnitList
<1>2. \A ops, d : Ends(<<e>>, ops, d) <=> d = e
  BY UnitList
<1> DEFINE fx == <<e>>
<1> HIDE DEF fx
<1>3. (\A ops : Has(fx, ops) <=> e.op \in ops) /\ (\A ops, d : Ends(fx, ops, d) <=> d = e)
  BY <1>1, <1>2 DEF fx
<1>4. EnvelopeDrive(fx, s, n) <=>
        \/ e = ApplyPowerEnvelope(n.power_target)
        \/ e.op \notin EnvelopeOps /\ n.power_target = s.power_target
  BY <1>3 DEF EnvelopeDrive
<1>5. ProfileDrive(fx, s, n) <=>
        \/ e = ApplyPlatformProfile(n.active_profile)
        \/ e.op \notin ProfileOps /\ n.active_profile = s.active_profile
  BY <1>3 DEF ProfileDrive
<1>6. ChargeDrive(fx, s, n) <=>
        \/ e = ApplyChargeThreshold(n.charge_end_threshold)
        \/ e.op \notin ChargeOps /\ n.charge_end_threshold = s.charge_end_threshold
  BY <1>3 DEF ChargeDrive
<1>7. CurveDrive(fx, s, n) <=>
        IF n.active_fan_curve # None
        THEN \/ e = ApplyFanCurve(n.active_fan_curve)
             \/ e.op \notin CurveOps /\ n.active_fan_curve = s.active_fan_curve
        ELSE \/ e = ResetFanCurveEffect
             \/ e.op \notin FanOps /\ s.active_fan_curve = None
  BY <1>3 DEF CurveDrive
<1>8. GpuDrive(fx, s, n) <=>
        \/ n.active_gpu_clock \in Tier /\ e = ApplyGpuClockRange(n.active_gpu_clock)
        \/ n.active_gpu_clock = None /\ e = ResetGpuClocksEffect
        \/ e.op \notin GpuOps /\ n.active_gpu_clock = s.active_gpu_clock
  BY <1>3 DEF GpuDrive
<1>9. QED
  BY <1>4, <1>5, <1>6, <1>7, <1>8 DEF fx

LEMMA FanLeversFollow ==
  ASSUME NEW s \in ProfileState, NEW lim, NEW cfg
  PROVE  /\ \A c \in Curve : Follows(SetFanCurve(s, c), s)
         /\ Chains(EnableFanAuto(s, lim, cfg), s)
         /\ Follows(ResetFanCurve(s), s)
<1>1. ASSUME NEW c \in Curve PROVE Follows(SetFanCurve(s, c), s)
  <2> DEFINE n == [s EXCEPT !.active_fan_curve = c, !.fan_follows_tdp = FALSE]
  <2>1. /\ n \in ProfileState /\ n.active_fan_curve = c
        /\ n.power_target = s.power_target /\ n.active_profile = s.active_profile
        /\ n.charge_end_threshold = s.charge_end_threshold
        /\ n.active_gpu_clock = s.active_gpu_clock
    BY DEF ProfileState
  <2>2. c # None /\ ApplyFanCurve(c) \in Effect
    BY SelectionAssumption, EffectTypes
  <2>3. SetFanCurve(s, c) = Output(n, <<ApplyFanCurve(c)>>)
    BY DEF SetFanCurve
  <2> HIDE DEF n
  <2>4. Drives(<<ApplyFanCurve(c)>>, s, n)
    BY <2>1, <2>2, UnitDrives, EffectOps
       DEF Drives, EnvelopeOps, ProfileOps, ChargeOps, CurveOps, FanOps, GpuOps
  <2>5. QED
    BY <2>1, <2>2, <2>3, <2>4, UnitFollows
<1>2. Chains(EnableFanAuto(s, lim, cfg), s)
  <2> DEFINE tier == FanTier(s, lim, cfg)
             n == [s EXCEPT !.active_fan_curve = tier, !.fan_follows_tdp = TRUE]
  <2>1. tier \in Curve /\ tier # None
    BY InferTierType, TierType, SelectionAssumption DEF FanTier
  <2>2. EnableFanAuto(s, lim, cfg) \in {Output(s, <<>>), Output(n, <<ApplyFanCurve(tier)>>)}
    BY DEF EnableFanAuto
  <2> HIDE DEF tier
  <2>3. /\ n \in ProfileState /\ n.active_fan_curve = tier
        /\ n.power_target = s.power_target /\ n.active_profile = s.active_profile
        /\ n.charge_end_threshold = s.charge_end_threshold
        /\ n.active_gpu_clock = s.active_gpu_clock
    BY <2>1 DEF ProfileState
  <2>4. ApplyFanCurve(tier) \in Effect
    BY <2>1, EffectTypes
  <2> HIDE DEF n
  <2>5. Drives(<<ApplyFanCurve(tier)>>, s, n)
    BY <2>1, <2>3, <2>4, UnitDrives, EffectOps
       DEF Drives, EnvelopeOps, ProfileOps, ChargeOps, CurveOps, FanOps, GpuOps
  <2>6. Chains(Output(n, <<ApplyFanCurve(tier)>>), s)
    BY <2>3, <2>4, <2>5, UnitFollows, EffectOps
  <2>7. QED
    BY <2>2, <2>6, NothingFollows
<1>3. Follows(ResetFanCurve(s), s)
  <2> DEFINE n == [s EXCEPT !.active_fan_curve = None, !.fan_follows_tdp = FALSE]
  <2>1. ResetFanCurve(s) \in {Output(s, <<>>), Output(n, <<ResetFanCurveEffect>>)}
    BY DEF ResetFanCurve
  <2>2. /\ n \in ProfileState /\ n.active_fan_curve = None
        /\ n.power_target = s.power_target /\ n.active_profile = s.active_profile
        /\ n.charge_end_threshold = s.charge_end_threshold
        /\ n.active_gpu_clock = s.active_gpu_clock
    BY DEF ProfileState
  <2>3. ResetFanCurveEffect \in Effect
    BY EffectTypes
  <2> HIDE DEF n
  <2>4. Drives(<<ResetFanCurveEffect>>, s, n)
    BY <2>2, <2>3, UnitDrives, EffectOps
       DEF Drives, EnvelopeOps, ProfileOps, ChargeOps, CurveOps, FanOps, GpuOps
  <2>5. QED
    BY <2>1, <2>2, <2>3, <2>4, UnitFollows, NothingFollows DEF Chains
<1>4. QED
  BY <1>1, <1>2, <1>3

LEMMA GpuLeversFollow ==
  ASSUME NEW s \in ProfileState, NEW lim, NEW cfg
  PROVE  Chains(EnableGpuAutoFollow(s, lim, cfg), s) /\ Chains(ResetGpuClocks(s), s)
<1>1. Chains(EnableGpuAutoFollow(s, lim, cfg), s)
  <2> DEFINE tier == FanTier(s, lim, cfg)
             n == [s EXCEPT !.active_gpu_clock = tier, !.gpu_follows_tdp = TRUE]
  <2>1. tier \in Tier /\ tier \in GpuClock
    BY InferTierType, TierType DEF FanTier
  <2>2. EnableGpuAutoFollow(s, lim, cfg)
          \in {Output(s, <<>>), Output(n, <<ApplyGpuClockRange(tier)>>)}
    BY DEF EnableGpuAutoFollow
  <2> HIDE DEF tier
  <2>3. /\ n \in ProfileState /\ n.active_gpu_clock = tier
        /\ n.power_target = s.power_target /\ n.active_profile = s.active_profile
        /\ n.charge_end_threshold = s.charge_end_threshold
        /\ n.active_fan_curve = s.active_fan_curve
    BY <2>1 DEF ProfileState
  <2>4. ApplyGpuClockRange(tier) \in Effect
    BY <2>1, EffectTypes
  <2> HIDE DEF n
  <2>5. Drives(<<ApplyGpuClockRange(tier)>>, s, n)
    BY <2>1, <2>3, <2>4, UnitDrives, EffectOps
       DEF Drives, EnvelopeOps, ProfileOps, ChargeOps, CurveOps, FanOps, GpuOps
  <2>6. Chains(Output(n, <<ApplyGpuClockRange(tier)>>), s)
    BY <2>3, <2>4, <2>5, UnitFollows, EffectOps
  <2>7. QED
    BY <2>2, <2>6, NothingFollows
<1>2. Chains(ResetGpuClocks(s), s)
  <2> DEFINE n == [s EXCEPT !.active_gpu_clock = None, !.gpu_follows_tdp = FALSE]
  <2>1. ResetGpuClocks(s) \in {Output(s, <<>>), Output(n, <<ResetGpuClocksEffect>>)}
    BY DEF ResetGpuClocks
  <2>2. /\ n \in ProfileState /\ n.active_gpu_clock = None
        /\ n.power_target = s.power_target /\ n.active_profile = s.active_profile
        /\ n.charge_end_threshold = s.charge_end_threshold
        /\ n.active_fan_curve = s.active_fan_curve
    BY DEF ProfileState
  <2>3. ResetGpuClocksEffect \in Effect
    BY EffectTypes
  <2> HIDE DEF n
  <2>4. Drives(<<ResetGpuClocksEffect>>, s, n)
    BY <2>2, <2>3, UnitDrives, EffectOps
       DEF Drives, EnvelopeOps, ProfileOps, ChargeOps, CurveOps, FanOps, GpuOps
  <2>5. Chains(Output(n, <<ResetGpuClocksEffect>>), s)
    BY <2>2, <2>3, <2>4, UnitFollows, EffectOps
  <2>6. QED
    BY <2>1, <2>5, NothingFollows
<1>3. QED
  BY <1>1, <1>2

LEMMA ChargeLeverFollows ==
  ASSUME NEW s \in ProfileState, NEW c \in Charge
  PROVE  Chains(ChargeThresholdChanged(s, c), s)
<1> DEFINE n == [s EXCEPT !.charge_end_threshold = c]
<1>1. ChargeThresholdChanged(s, c) \in {Output(s, <<>>), Output(n, <<ApplyChargeThreshold(c)>>)}
  BY DEF ChargeThresholdChanged
<1>2. /\ n \in ProfileState /\ n.charge_end_threshold = c
      /\ n.power_target = s.power_target /\ n.active_profile = s.active_profile
      /\ n.active_fan_curve = s.active_fan_curve
      /\ n.active_gpu_clock = s.active_gpu_clock
  BY DEF ProfileState
<1>3. ApplyChargeThreshold(c) \in Effect
  BY EffectTypes
<1> HIDE DEF n
<1>4. Drives(<<ApplyChargeThreshold(c)>>, s, n)
  BY <1>2, <1>3, UnitDrives, EffectOps
     DEF Drives, EnvelopeOps, ProfileOps, ChargeOps, CurveOps, FanOps, GpuOps
<1>5. Chains(Output(n, <<ApplyChargeThreshold(c)>>), s)
  BY <1>2, <1>3, <1>4, UnitFollows, EffectOps
<1>6. QED
  BY <1>1, <1>5, NothingFollows

-----------------------------------------------------------------------------
(* Levers one after the other.                                             *)

\* A list without curve resets leaves an unset curve unset by not touching it.
LEMMA JoinedDrive ==
  ASSUME NEW f \in Seq(Effect), NEW g \in Seq(Effect), NEW s, NEW m, NEW n,
         Drives(f, s, m), Drives(g, m, n), ~Has(f, {"ResetFanCurve"})
  PROVE  Drives(f \o g, s, n)
<1> DEFINE fx == f \o g
<1>1. /\ \A ops : Has(fx, ops) <=> Has(f, ops) \/ Has(g, ops)
      /\ \A ops, e : Ends(g, ops, e) => Ends(fx, ops, e)
      /\ \A ops, e : Ends(f, ops, e) /\ ~Has(g, ops) => Ends(fx, ops, e)
  BY JoinedList
<1>2. ~Ends(f, CurveOps, ResetFanCurveEffect)
  BY EffectOps DEF Has, Ends
<1> HIDE DEF fx
<1>3. EnvelopeDrive(fx, s, n)
  BY <1>1 DEF Drives, EnvelopeDrive
<1>4. ProfileDrive(fx, s, n)
  BY <1>1 DEF Drives, ProfileDrive
<1>5. ChargeDrive(fx, s, n)
  BY <1>1 DEF Drives, ChargeDrive
<1>6. CurveDrive(fx, s, n)
  BY <1>1, <1>2 DEF Drives, CurveDrive
<1>7. GpuDrive(fx, s, n)
  BY <1>1 DEF Drives, GpuDrive
<1>8. QED
  BY <1>3, <1>4, <1>5, <1>6, <1>7 DEF fx, Drives

LEMMA RestoreDefaultsFollows ==
  ASSUME NEW s \in ProfileState, NEW lim \in Limits, NEW cfg \in Config
  PROVE  Follows(RestoreDefaults(s, lim, cfg), s)
<1> DEFINE o1 == SetPreset(s, "Balanced", lim, cfg)
           o2 == SetProfile(o1.new_state, "Performance")
           o3 == ChargeThresholdChanged(o2.new_state, DefaultCharge)
           o4 == EnableFanAuto(o3.new_state, lim, cfg)
           o5 == ResetGpuClocks(o4.new_state)
           o == Output(o5.new_state,
                  o1.effects \o o2.effects \o o3.effects \o o4.effects \o o5.effects)
<1>0. RestoreDefaults(s, lim, cfg) \in {o, Rejected(s)} /\ OutputOK(RestoreDefaults(s, lim, cfg))
  BY RestoreDefaultsType DEF RestoreDefaults, o1, o2, o3, o4, o5
<1>1. Chains(o1, s)
  BY SetPresetFollows DEF TdpPreset
<1> HIDE DEF o1
<1>2. Chains(o2, o1.new_state)
  BY <1>1, SetProfileFollows DEF Chains, Follows, OutputOK, Profile
<1> HIDE DEF o2
<1>3. Chains(o3, o2.new_state)
  BY <1>2, ChargeLeverFollows, SelectionAssumption DEF Chains, Follows, OutputOK
<1> HIDE DEF o3
<1>4. Chains(o4, o3.new_state)
  <2>1. o3.new_state \in ProfileState
    BY <1>3 DEF Chains, Follows, OutputOK
  <2>2. QED
    BY <2>1, FanLeversFollow
<1> HIDE DEF o4
<1>5. Chains(o5, o4.new_state)
  BY <1>4, GpuLeversFollow DEF Chains, Follows, OutputOK
<1> HIDE DEF o5
<1> DEFINE f1 == o1.effects
           f2 == o2.effects
           f3 == o3.effects
           f4 == o4.effects
           f5 == o5.effects
           g2 == f1 \o f2
           g3 == g2 \o f3
           g4 == g3 \o f4
           g5 == g4 \o f5
<1>6. f1 \in Seq(Effect) /\ f2 \in Seq(Effect) /\ f3 \in Seq(Effect)
      /\ f4 \in Seq(Effect) /\ f5 \in Seq(Effect)
  BY <1>1, <1>2, <1>3, <1>4, <1>5 DEF Chains, Follows, OutputOK
<1>7. /\ g2 \in Seq(Effect) /\ Drives(g2, s, o2.new_state) /\ ~Has(g2, {"ResetFanCurve"})
      /\ g2 = <<>> => f1 = <<>> /\ f2 = <<>>
  BY <1>1, <1>2, <1>6, JoinedList, JoinedDrive DEF Chains, Follows
<1> HIDE DEF g2
<1>8. /\ g3 \in Seq(Effect) /\ Drives(g3, s, o3.new_state) /\ ~Has(g3, {"ResetFanCurve"})
      /\ g3 = <<>> => g2 = <<>> /\ f3 = <<>>
  BY <1>3, <1>6, <1>7, JoinedList, JoinedDrive DEF Chains, Follows
<1> HIDE DEF g3
<1>9. /\ g4 \in Seq(Effect) /\ Drives(g4, s, o4.new_state) /\ ~Has(g4, {"ResetFanCurve"})
      /\ g4 = <<>> => g3 = <<>> /\ f4 = <<>>
  BY <1>4, <1>6, <1>8, JoinedList, JoinedDrive DEF Chains, Follows
<1> HIDE DEF g4
<1>10. /\ g5 \in Seq(Effect) /\ Drives(g5, s, o5.new_state)
       /\ g5 = <<>> => g4 = <<>> /\ f5 = <<>>
  BY <1>5, <1>6, <1>9, JoinedList, JoinedDrive DEF Chains, Follows
<1>11. g5 = <<>> => o5.new_state = s
  BY <1>1, <1>2, <1>3, <1>4, <1>5, <1>7, <1>8, <1>9, <1>10 DEF Chains, Follows
<1>12. o = Output(o5.new_state, g5)
  BY DEF g2, g3, g4, g5
<1> HIDE DEF g5, o
<1>13. o.ok /\ o.effects = g5 /\ o.new_state = o5.new_state
  BY <1>12 DEF Output
<1>14. QED
  BY <1>0, <1>10, <1>11, <1>13, NothingFollows DEF Chains, Follows

-----------------------------------------------------------------------------
(* Saving, and publishing the flags.                                       *)

SameReport(n, m) ==
  /\ n.power_target = m.power_target /\ n.active_profile = m.active_profile
  /\ n.charge_end_threshold = m.charge_end_threshold
  /\ n.active_fan_curve = m.active_fan_curve
  /\ n.active_gpu_clock = m.active_gpu_clock

LEMMA SameReportDrives ==
  ASSUME NEW fx, NEW s, NEW m, NEW n, NEW r,
         Drives(fx, s, m), SameReport(n, m), SameReport(r, s)
  PROVE  Drives(fx, r, n)
  BY DEF Drives, SameReport, EnvelopeDrive, ProfileDrive, ChargeDrive, CurveDrive, GpuDrive

LEMMA SavedList ==
  ASSUME NEW fx \in Seq(Effect)
  PROVE  /\ Append(fx, PersistState) \in Seq(Effect)
         /\ Has(Append(fx, PersistState), SaveOps)
         /\ \A ops : "PersistState" \notin ops =>
              /\ Has(Append(fx, PersistState), ops) <=> Has(fx, ops)
              /\ \A e : Ends(fx, ops, e) => Ends(Append(fx, PersistState), ops, e)
<1>1. Append(fx, PersistState) = fx \o <<PersistState>> /\ PersistState \in Effect
  BY EffectTypes
<1>2. \A ops : Has(<<PersistState>>, ops) <=> "PersistState" \in ops
  BY <1>1, UnitList, EffectOps
<1>3. <<PersistState>> \in Seq(Effect)
  BY <1>1
<1> DEFINE g == <<PersistState>>
<1> HIDE DEF g
<1>4. /\ fx \o g \in Seq(Effect)
      /\ \A ops : Has(fx \o g, ops) <=> Has(fx, ops) \/ "PersistState" \in ops
      /\ \A ops, e : Ends(fx, ops, e) /\ "PersistState" \notin ops => Ends(fx \o g, ops, e)
  BY <1>2, <1>3, JoinedList DEF g
<1>5. QED
  BY <1>1, <1>4 DEF g, SaveOps

LEMMA SavedDrives ==
  ASSUME NEW fx \in Seq(Effect), NEW s, NEW n, Drives(fx, s, n)
  PROVE  Drives(Append(fx, PersistState), s, n)
<1> DEFINE g == Append(fx, PersistState)
<1>1. \A ops \in Ops : /\ Has(g, ops) <=> Has(fx, ops)
                       /\ \A e : Ends(fx, ops, e) => Ends(g, ops, e)
  <2>1. \A ops \in Ops : "PersistState" \notin ops
    BY DEF Ops, EnvelopeOps, ProfileOps, ChargeOps, FanOps, CurveOps, GpuOps
  <2>2. QED
    BY <2>1, SavedList
<1> HIDE DEF g
<1>2. QED
  BY <1>1 DEF g, Ops, Drives, EnvelopeDrive, ProfileDrive, ChargeDrive, CurveDrive, GpuDrive

\* What the executor may rely on: a rejected transition has no effects, an
\* accepted one leads to its new state and saves what the file holds of it.
Leads(o, s) ==
  /\ OutputOK(o)
  /\ ~o.ok => o.effects = <<>>
  /\ o.ok => Drives(o.effects, s, o.new_state)

Saves(o, s) ==
  o.ok => Has(o.effects, SaveOps) \/ DiskImage(o.new_state) = DiskImage(s)

LEMMA PersistedLeads ==
  ASSUME NEW s, NEW o, Follows(o, s)
  PROVE  Leads(Persisted(o), s) /\ Saves(Persisted(o), s)
<1>1. CASE o.effects = <<>>
  BY <1>1 DEF Follows, Persisted, Leads, Saves
<1>2. CASE o.effects # <<>>
  <2> DEFINE p == [o EXCEPT !.effects = Append(@, PersistState)]
  <2>1. /\ p.ok = o.ok /\ p.new_state = o.new_state
        /\ p.effects = Append(o.effects, PersistState)
    BY DEF Follows, OutputOK
  <2>2. Persisted(o) = p /\ OutputOK(p)
    BY <1>2, PersistedType DEF Persisted, Follows
  <2>3. o.effects \in Seq(Effect) /\ o.ok
    BY <1>2 DEF Follows, OutputOK
  <2> HIDE DEF p
  <2>4. QED
    BY <2>1, <2>2, <2>3, SavedDrives, SavedList DEF Follows, Leads, Saves
<1>3. QED
  BY <1>1, <1>2

-----------------------------------------------------------------------------
(* The AC policy.                                                          *)

LEMMA TripleList ==
  ASSUME NEW a \in Effect, NEW b \in Effect, NEW c \in Effect
  PROVE  /\ <<a, b, c>> \in Seq(Effect)
         /\ \A ops : Has(<<a, b, c>>, ops) <=> a.op \in ops \/ b.op \in ops \/ c.op \in ops
         /\ \A ops : Ends(<<a, b, c>>, ops, c)
         /\ \A ops : c.op \notin ops => Ends(<<a, b, c>>, ops, b)
         /\ \A ops : c.op \notin ops /\ b.op \notin ops => Ends(<<a, b, c>>, ops, a)
<1> DEFINE f == <<a, b, c>>
<1>1. Len(f) = 3 /\ f[1] = a /\ f[2] = b /\ f[3] = c /\ f \in Seq(Effect)
  OBVIOUS
<1>2. \A i \in 1..3 : i = 1 \/ i = 2 \/ i = 3
  OBVIOUS
<1> HIDE DEF f
<1>3. \A ops : Has(f, ops) <=> a.op \in ops \/ b.op \in ops \/ c.op \in ops
  BY <1>1, <1>2 DEF Has
<1>4. \A ops : Ends(f, ops, c)
  BY <1>1, <1>2 DEF Ends
<1>5. \A ops : c.op \notin ops => Ends(f, ops, b)
  BY <1>1, <1>2 DEF Ends
<1>6. \A ops : c.op \notin ops /\ b.op \notin ops => Ends(f, ops, a)
  BY <1>1, <1>2 DEF Ends
<1>7. QED
  BY <1>1, <1>3, <1>4, <1>5, <1>6 DEF f

\* The effects that pin everything to maximum performance.
LEMMA ForceList ==
  ASSUME NEW s \in ProfileState, NEW lim \in Limits, NEW cfg \in Config
  PROVE  LET o == ForceAcMaxPerformance(s, lim, cfg)
             n == o.new_state
             fx == o.effects
         IN  /\ o.ok /\ n \in ProfileState /\ fx \in Seq(Effect)
             /\ Ends(fx, EnvelopeOps, ApplyPowerEnvelope(n.power_target))
             /\ Ends(fx, ProfileOps, ApplyPlatformProfile(n.active_profile))
             /\ n.active_fan_curve # None
             /\ Ends(fx, CurveOps, ApplyFanCurve(n.active_fan_curve))
             /\ ~Has(fx, ChargeOps) /\ n.charge_end_threshold = s.charge_end_threshold
             /\ IF s.active_gpu_clock = None
                THEN n.active_gpu_clock = None /\ ~Has(fx, GpuOps)
                ELSE /\ n.active_gpu_clock \in Tier
                     /\ Ends(fx, GpuOps, ApplyGpuClockRange(n.active_gpu_clock))
<1> DEFINE e == MaxEnvelope(lim, cfg)
           gpu == s.active_gpu_clock # None
           n == [s EXCEPT !.power_target = e,
                          !.active_profile = "Performance",
                          !.active_fan_curve = "Aggressive",
                          !.fan_follows_tdp = FALSE,
                          !.active_gpu_clock = IF gpu THEN "Aggressive" ELSE None,
                          !.gpu_follows_tdp = ~gpu /\ @]
           a == ApplyPlatformProfile("Performance")
           b == ApplyPowerEnvelope(e)
           c == ApplyFanCurve("Aggressive")
           d == ApplyGpuClockRange("Aggressive")
           f == <<a, b, c>>
           g == When(gpu, d)
           o == ForceAcMaxPerformance(s, lim, cfg)
<1>1. o = Output(n, f \o g) /\ n \in ProfileState
  <2>1. o = Output(n, f \o g)
    BY DEF ForceAcMaxPerformance
  <2>2. OutputOK(o)
    BY ForceType
  <2>3. QED
    BY <2>1, <2>2 DEF OutputOK, Output
<1>2. o.ok /\ o.new_state = n /\ o.effects = f \o g
  BY <1>1 DEF Output
<1>3. /\ n.power_target = e /\ n.active_profile = "Performance"
      /\ n.active_fan_curve = "Aggressive"
      /\ n.charge_end_threshold = s.charge_end_threshold
      /\ n.active_gpu_clock = IF gpu THEN "Aggressive" ELSE None
  BY DEF ProfileState
<1>4. "Aggressive" \in Tier /\ "Aggressive" # None
  BY SelectionAssumption DEF Tier, Curve
<1>5. a \in Effect /\ b \in Effect /\ c \in Effect /\ d \in Effect
  BY <1>4, MaxEnvelopeType, EffectTypes, TierType DEF Profile
<1>6. /\ a.op = "ApplyPlatformProfile" /\ b.op = "ApplyPowerEnvelope"
      /\ c.op = "ApplyFanCurve" /\ d.op = "ApplyGpuClockRange"
  BY EffectOps
<1> HIDE DEF e, n, o, gpu
<1>7. /\ Ends(f, EnvelopeOps, b) /\ Ends(f, ProfileOps, a) /\ Ends(f, CurveOps, c)
      /\ ~Has(f, ChargeOps) /\ ~Has(f, GpuOps) /\ f \in Seq(Effect)
  <2> HIDE DEF a, b, c, d
  <2>1. /\ c.op \notin EnvelopeOps /\ c.op \notin ProfileOps /\ b.op \notin ProfileOps
        /\ \A x \in {a.op, b.op, c.op} : x \notin ChargeOps /\ x \notin GpuOps
    BY <1>6 DEF EnvelopeOps, ProfileOps, ChargeOps, GpuOps
  <2>2. QED
    BY <1>5, <2>1, TripleList
<1>8. /\ g \in Seq(Effect)
      /\ \A ops : Has(g, ops) <=> gpu /\ d.op \in ops
      /\ \A ops : gpu => Ends(g, ops, d)
  BY <1>5, WhenList
<1> HIDE DEF f, g
<1>9. /\ f \o g \in Seq(Effect)
      /\ Ends(f \o g, EnvelopeOps, b) /\ Ends(f \o g, ProfileOps, a) /\ Ends(f \o g, CurveOps, c)
      /\ ~Has(f \o g, ChargeOps)
      /\ gpu => Ends(f \o g, GpuOps, d)
      /\ ~gpu => ~Has(f \o g, GpuOps)
  <2>1. ~Has(g, EnvelopeOps) /\ ~Has(g, ProfileOps) /\ ~Has(g, CurveOps) /\ ~Has(g, ChargeOps)
    BY <1>6, <1>8 DEF EnvelopeOps, ProfileOps, ChargeOps, CurveOps
  <2>2. QED
    BY <1>7, <1>8, <2>1, JoinedList
<1>10. QED
  BY <1>1, <1>2, <1>3, <1>4, <1>9 DEF o, gpu

LEMMA ForceDrives ==
  ASSUME NEW s \in ProfileState, NEW lim \in Limits, NEW cfg \in Config
  PROVE  LET o == ForceAcMaxPerformance(s, lim, cfg) IN Drives(o.effects, s, o.new_state)
<1> DEFINE o == ForceAcMaxPerformance(s, lim, cfg)
<1>1. /\ Ends(o.effects, EnvelopeOps, ApplyPowerEnvelope(o.new_state.power_target))
      /\ Ends(o.effects, ProfileOps, ApplyPlatformProfile(o.new_state.active_profile))
      /\ o.new_state.active_fan_curve # None
      /\ Ends(o.effects, CurveOps, ApplyFanCurve(o.new_state.active_fan_curve))
      /\ ~Has(o.effects, ChargeOps)
      /\ o.new_state.charge_end_threshold = s.charge_end_threshold
      /\ IF s.active_gpu_clock = None
         THEN o.new_state.active_gpu_clock = None /\ ~Has(o.effects, GpuOps)
         ELSE /\ o.new_state.active_gpu_clock \in Tier
              /\ Ends(o.effects, GpuOps, ApplyGpuClockRange(o.new_state.active_gpu_clock))
  BY ForceList
<1> HIDE DEF o
<1>2. QED
  BY <1>1 DEF o, Drives, EnvelopeDrive, ProfileDrive, ChargeDrive, CurveDrive, GpuDrive

LEMMA ForceWithSnapshotLeads ==
  ASSUME NEW s \in ProfileState, NEW snap \in DcSnapshot,
         NEW lim \in Limits, NEW cfg \in Config
  PROVE  LET o == ForceWithSnapshot(s, snap, lim, cfg) IN
         o.ok /\ Drives(o.effects, s, o.new_state) /\ Has(o.effects, SaveOps)
<1> DEFINE o == ForceAcMaxPerformance(s, lim, cfg)
           n == [o.new_state EXCEPT !.last_dc_state = snap]
           fx == Append(o.effects, PersistState)
<1>1. ForceWithSnapshot(s, snap, lim, cfg) = Output(n, fx)
  BY DEF ForceWithSnapshot
<1>2. o.new_state \in ProfileState /\ o.effects \in Seq(Effect)
  BY ForceList
<1>3. Drives(o.effects, s, o.new_state)
  BY ForceDrives
<1> HIDE DEF o
<1>4. Drives(fx, s, o.new_state) /\ Has(fx, SaveOps)
  BY <1>2, <1>3, SavedDrives, SavedList
<1>5. SameReport(n, o.new_state) /\ SameReport(s, s)
  BY <1>2 DEF SameReport, ProfileState
<1> HIDE DEF n, fx
<1>6. Drives(fx, s, n)
  BY <1>4, <1>5, SameReportDrives
<1>7. QED
  BY <1>1, <1>4, <1>6 DEF Output

\* What fx has and ends with, of six optional effects one after the other.
SixList(fx, w1, w2, w3, w4, w5, w6, ops) ==
  /\ Has(fx, ops) <=> \/ Has(w1, ops) \/ Has(w2, ops) \/ Has(w3, ops)
                      \/ Has(w4, ops) \/ Has(w5, ops) \/ Has(w6, ops)
  /\ \A d : Ends(w1, ops, d) /\ ~Has(w2, ops) /\ ~Has(w3, ops) /\ ~Has(w4, ops)
              /\ ~Has(w5, ops) /\ ~Has(w6, ops) => Ends(fx, ops, d)
  /\ \A d : Ends(w2, ops, d) /\ ~Has(w3, ops) /\ ~Has(w4, ops)
              /\ ~Has(w5, ops) /\ ~Has(w6, ops) => Ends(fx, ops, d)
  /\ \A d : Ends(w3, ops, d) /\ ~Has(w4, ops)
              /\ ~Has(w5, ops) /\ ~Has(w6, ops) => Ends(fx, ops, d)
  /\ \A d : Ends(w4, ops, d) /\ ~Has(w5, ops) /\ ~Has(w6, ops) => Ends(fx, ops, d)
  /\ \A d : Ends(w5, ops, d) /\ ~Has(w6, ops) => Ends(fx, ops, d)
  /\ \A d : Ends(w6, ops, d) => Ends(fx, ops, d)

LEMMA OptionalList ==
  ASSUME NEW w1 \in Seq(Effect), NEW w2 \in Seq(Effect), NEW w3 \in Seq(Effect),
         NEW w4 \in Seq(Effect), NEW w5 \in Seq(Effect), NEW w6 \in Seq(Effect),
         NEW ops, "PersistState" \notin ops
  PROVE  SixList(w1 \o w2 \o w3 \o w4 \o w5 \o w6 \o <<PersistState>>,
                 w1, w2, w3, w4, w5, w6, ops)
<1> DEFINE p == <<PersistState>>
           g2 == w1 \o w2
           g3 == g2 \o w3
           g4 == g3 \o w4
           g5 == g4 \o w5
           g6 == g5 \o w6
           fx == g6 \o p
<1>1. p \in Seq(Effect) /\ ~Has(p, ops)
  BY EffectTypes, EffectOps, UnitList
<1> HIDE DEF p
<1>2. /\ g2 \in Seq(Effect) /\ (Has(g2, ops) <=> Has(w1, ops) \/ Has(w2, ops))
      /\ \A d : Ends(w2, ops, d) => Ends(g2, ops, d)
      /\ \A d : Ends(w1, ops, d) /\ ~Has(w2, ops) => Ends(g2, ops, d)
  BY JoinedList
<1> HIDE DEF g2
<1>3. /\ g3 \in Seq(Effect) /\ (Has(g3, ops) <=> Has(g2, ops) \/ Has(w3, ops))
      /\ \A d : Ends(w3, ops, d) => Ends(g3, ops, d)
      /\ \A d : Ends(g2, ops, d) /\ ~Has(w3, ops) => Ends(g3, ops, d)
  BY <1>2, JoinedList
<1> HIDE DEF g3
<1>4. /\ g4 \in Seq(Effect) /\ (Has(g4, ops) <=> Has(g3, ops) \/ Has(w4, ops))
      /\ \A d : Ends(w4, ops, d) => Ends(g4, ops, d)
      /\ \A d : Ends(g3, ops, d) /\ ~Has(w4, ops) => Ends(g4, ops, d)
  BY <1>3, JoinedList
<1> HIDE DEF g4
<1>5. /\ g5 \in Seq(Effect) /\ (Has(g5, ops) <=> Has(g4, ops) \/ Has(w5, ops))
      /\ \A d : Ends(w5, ops, d) => Ends(g5, ops, d)
      /\ \A d : Ends(g4, ops, d) /\ ~Has(w5, ops) => Ends(g5, ops, d)
  BY <1>4, JoinedList
<1> HIDE DEF g5
<1>6. /\ g6 \in Seq(Effect) /\ (Has(g6, ops) <=> Has(g5, ops) \/ Has(w6, ops))
      /\ \A d : Ends(w6, ops, d) => Ends(g6, ops, d)
      /\ \A d : Ends(g5, ops, d) /\ ~Has(w6, ops) => Ends(g6, ops, d)
  BY <1>5, JoinedList
<1> HIDE DEF g6
<1>7. /\ Has(fx, ops) <=> Has(g6, ops)
      /\ \A d : Ends(g6, ops, d) => Ends(fx, ops, d)
  BY <1>1, <1>6, JoinedList
<1> HIDE DEF fx
<1>8. SixList(fx, w1, w2, w3, w4, w5, w6, ops)
  BY <1>2, <1>3, <1>4, <1>5, <1>6, <1>7 DEF SixList
<1>9. fx = w1 \o w2 \o w3 \o w4 \o w5 \o w6 \o <<PersistState>>
  BY DEF p, g2, g3, g4, g5, g6, fx
<1>10. QED
  BY <1>8, <1>9

LEMMA RestoreDrives ==
  ASSUME NEW s \in ProfileState, NEW snap \in DcSnapshot
  PROVE  LET o == RestoreDcState(s, snap) IN
         o.ok /\ Drives(o.effects, s, o.new_state) /\ Has(o.effects, SaveOps)
<1> DEFINE profile == s.active_profile # snap.active_profile
           target  == profile \/ s.power_target # snap.power_target
           curve   == s.active_fan_curve # snap.active_fan_curve
           gpu     == s.active_gpu_clock # snap.active_gpu_clock
           tier    == snap.active_gpu_clock \in Tier
           some    == (curve \/ profile) /\ snap.active_fan_curve # None
           off     == curve /\ snap.active_fan_curve = None
           clock == IF gpu /\ ~tier THEN None ELSE snap.active_gpu_clock
           n == [s EXCEPT !.last_dc_state = None,
                          !.active_profile = snap.active_profile,
                          !.power_target = snap.power_target,
                          !.active_fan_curve = snap.active_fan_curve,
                          !.fan_follows_tdp = snap.fan_follows_tdp,
                          !.active_gpu_clock = clock,
                          !.gpu_follows_tdp = snap.gpu_follows_tdp]
           a1 == ApplyPlatformProfile(snap.active_profile)
           a2 == ApplyPowerEnvelope(snap.power_target)
           a3 == ApplyFanCurve(snap.active_fan_curve)
           a5 == ApplyGpuClockRange(snap.active_gpu_clock)
           w1 == When(profile, a1)
           w2 == When(target, a2)
           w3 == When(some, a3)
           w4 == When(off, ResetFanCurveEffect)
           w5 == When(gpu /\ tier, a5)
           w6 == When(gpu /\ ~tier, ResetGpuClocksEffect)
           fx == w1 \o w2 \o w3 \o w4 \o w5 \o w6 \o <<PersistState>>
<1>1. RestoreDcState(s, snap) = Output(n, fx)
  BY DEF RestoreDcState
<1>2. /\ n.active_profile = snap.active_profile /\ n.power_target = snap.power_target
      /\ n.active_fan_curve = snap.active_fan_curve /\ n.active_gpu_clock = clock
      /\ n.charge_end_threshold = s.charge_end_threshold
  BY DEF ProfileState
<1>3. /\ snap.active_profile \in Profile /\ snap.power_target \in Envelope
      /\ snap.active_fan_curve \in Curve \cup {None}
  BY DEF DcSnapshot
<1>4. /\ a1 \in Effect /\ a2 \in Effect
      /\ some => a3 \in Effect
      /\ gpu /\ tier => a5 \in Effect
      /\ ResetFanCurveEffect \in Effect /\ ResetGpuClocksEffect \in Effect
      /\ PersistState \in Effect
  BY <1>3, EffectTypes
<1>5. /\ a1.op = "ApplyPlatformProfile" /\ a2.op = "ApplyPowerEnvelope"
      /\ a3.op = "ApplyFanCurve" /\ a5.op = "ApplyGpuClockRange"
      /\ ResetFanCurveEffect.op = "ResetFanCurve"
      /\ ResetGpuClocksEffect.op = "ResetGpuClocks"
  BY EffectOps
<1> HIDE DEF n, a1, a2, a3, a5, some, off
<1>6. /\ w1 \in Seq(Effect) /\ (\A ops : Has(w1, ops) <=> profile /\ a1.op \in ops)
      /\ \A ops : profile => Ends(w1, ops, a1)
  BY <1>4, WhenList
<1>7. /\ w2 \in Seq(Effect) /\ (\A ops : Has(w2, ops) <=> target /\ a2.op \in ops)
      /\ \A ops : target => Ends(w2, ops, a2)
  BY <1>4, WhenList
<1>8. /\ w3 \in Seq(Effect) /\ (\A ops : Has(w3, ops) <=> some /\ a3.op \in ops)
      /\ \A ops : some => Ends(w3, ops, a3)
  BY <1>4, WhenList
<1>9. /\ w4 \in Seq(Effect) /\ (\A ops : Has(w4, ops) <=> off /\ ResetFanCurveEffect.op \in ops)
      /\ \A ops : off => Ends(w4, ops, ResetFanCurveEffect)
  BY <1>4, WhenList
<1>10. /\ w5 \in Seq(Effect) /\ (\A ops : Has(w5, ops) <=> (gpu /\ tier) /\ a5.op \in ops)
       /\ \A ops : gpu /\ tier => Ends(w5, ops, a5)
  BY <1>4, WhenList
<1>11. /\ w6 \in Seq(Effect)
       /\ \A ops : Has(w6, ops) <=> (gpu /\ ~tier) /\ ResetGpuClocksEffect.op \in ops
       /\ \A ops : gpu /\ ~tier => Ends(w6, ops, ResetGpuClocksEffect)
  BY <1>4, WhenList
<1> HIDE DEF w1, w2, w3, w4, w5, w6
<1>12. /\ Has(fx, SaveOps)
       /\ \A ops : "PersistState" \notin ops => SixList(fx, w1, w2, w3, w4, w5, w6, ops)
  <2> DEFINE g == w1 \o w2 \o w3 \o w4 \o w5 \o w6
  <2>1. g \in Seq(Effect) /\ fx = g \o <<PersistState>>
    BY <1>6, <1>7, <1>8, <1>9, <1>10, <1>11
  <2>2. fx = Append(g, PersistState)
    BY <1>4, <2>1
  <2>3. Has(fx, SaveOps)
    BY <2>1, <2>2, SavedList
  <2>4. /\ w1 \in Seq(Effect) /\ w2 \in Seq(Effect) /\ w3 \in Seq(Effect)
        /\ w4 \in Seq(Effect) /\ w5 \in Seq(Effect) /\ w6 \in Seq(Effect)
    BY <1>6, <1>7, <1>8, <1>9, <1>10, <1>11
  <2>5. QED
    BY <2>3, <2>4, OptionalList
<1> HIDE DEF fx
<1>13. EnvelopeDrive(fx, s, n)
  <2>1. "PersistState" \notin EnvelopeOps
    BY DEF EnvelopeOps
  <2>2. QED
    BY <1>2, <1>5, <1>6, <1>7, <1>8, <1>9, <1>10, <1>11, <1>12, <2>1
       DEF SixList, EnvelopeDrive, EnvelopeOps, a2
<1>14. ProfileDrive(fx, s, n) /\ ChargeDrive(fx, s, n)
  <2>1. "PersistState" \notin ProfileOps /\ "PersistState" \notin ChargeOps
    BY DEF ProfileOps, ChargeOps
  <2>2. QED
    BY <1>2, <1>5, <1>6, <1>7, <1>8, <1>9, <1>10, <1>11, <1>12, <2>1
       DEF SixList, ProfileDrive, ChargeDrive, ProfileOps, ChargeOps, a1
<1>15. CurveDrive(fx, s, n)
  <2>1. "PersistState" \notin CurveOps /\ "PersistState" \notin FanOps
    BY DEF CurveOps, FanOps
  <2>2. QED
    BY <1>2, <1>5, <1>6, <1>7, <1>8, <1>9, <1>10, <1>11, <1>12, <2>1
       DEF SixList, CurveDrive, CurveOps, FanOps, a3, some, off
<1>16. GpuDrive(fx, s, n)
  <2>1. "PersistState" \notin GpuOps
    BY DEF GpuOps
  <2>2. QED
    BY <1>2, <1>5, <1>6, <1>7, <1>8, <1>9, <1>10, <1>11, <1>12, <2>1
       DEF SixList, GpuDrive, GpuOps, a5
<1>17. QED
  BY <1>1, <1>12, <1>13, <1>14, <1>15, <1>16 DEF Output, Drives

-----------------------------------------------------------------------------
(* Boot and resume.                                                        *)

\* The effects fx bring any device to every lever that n reports as set.
Asserts(fx, n) ==
  /\ Ends(fx, EnvelopeOps, ApplyPowerEnvelope(n.power_target))
  /\ Ends(fx, ProfileOps, ApplyPlatformProfile(n.active_profile))
  /\ Ends(fx, ChargeOps, ApplyChargeThreshold(n.charge_end_threshold))
  /\ n.active_fan_curve # None => Ends(fx, CurveOps, ApplyFanCurve(n.active_fan_curve))
  /\ n.active_gpu_clock # None =>
       /\ n.active_gpu_clock \in Tier
       /\ Ends(fx, GpuOps, ApplyGpuClockRange(n.active_gpu_clock))

LEMMA ReassertAllLeads ==
  ASSUME NEW s \in ProfileState
  PROVE  LET o == ReassertAll(s) IN
         /\ o.ok /\ Drives(o.effects, s, o.new_state) /\ Asserts(o.effects, o.new_state)
         /\ s.active_gpu_clock # Unmanaged => o.new_state = s
<1> DEFINE gpu == s.active_gpu_clock # None
           tier == s.active_gpu_clock \in Tier
           clock == IF gpu /\ ~tier THEN None ELSE s.active_gpu_clock
           n == [s EXCEPT !.active_gpu_clock = clock]
           some == s.active_fan_curve # None
           a == ApplyPlatformProfile(s.active_profile)
           b == ApplyPowerEnvelope(s.power_target)
           c == ApplyChargeThreshold(s.charge_end_threshold)
           d1 == ApplyFanCurve(s.active_fan_curve)
           d3 == ApplyGpuClockRange(s.active_gpu_clock)
           f == <<a, b, c>>
           w1 == When(some, d1)
           w2 == When(gpu, ResetGpuClocksEffect)
           w3 == When(tier, d3)
           fx == f \o w1 \o w2 \o w3
<1>1. ReassertAll(s) = Output(n, fx)
  BY DEF ReassertAll
<1>2. /\ n.power_target = s.power_target /\ n.active_profile = s.active_profile
      /\ n.charge_end_threshold = s.charge_end_threshold
      /\ n.active_fan_curve = s.active_fan_curve /\ n.active_gpu_clock = clock
  BY DEF ProfileState
<1>3. /\ a \in Effect /\ b \in Effect /\ c \in Effect
      /\ some => d1 \in Effect
      /\ tier => d3 \in Effect
      /\ ResetGpuClocksEffect \in Effect
  BY StateFields, EffectTypes
<1>4. /\ a.op = "ApplyPlatformProfile" /\ b.op = "ApplyPowerEnvelope"
      /\ c.op = "ApplyChargeThreshold" /\ d1.op = "ApplyFanCurve"
      /\ d3.op = "ApplyGpuClockRange" /\ ResetGpuClocksEffect.op = "ResetGpuClocks"
  BY EffectOps
<1>5. tier => gpu
  BY SelectionAssumption DEF Curve
<1>6. s.active_gpu_clock # Unmanaged => n = s
  <2>1. s.active_gpu_clock \in GpuClock \cup {None}
    BY StateFields
  <2>2. s.active_gpu_clock # Unmanaged => clock = s.active_gpu_clock
    BY <2>1 DEF GpuClock
  <2>3. [s EXCEPT !.active_gpu_clock = s.active_gpu_clock] = s
    BY DEF ProfileState
  <2>4. QED
    BY <2>2, <2>3
<1> HIDE DEF n, a, b, c, d1, d3, some
<1>7. /\ f \in Seq(Effect)
      /\ \A ops : Has(f, ops) <=> a.op \in ops \/ b.op \in ops \/ c.op \in ops
      /\ \A ops : Ends(f, ops, c)
      /\ \A ops : c.op \notin ops => Ends(f, ops, b)
      /\ \A ops : c.op \notin ops /\ b.op \notin ops => Ends(f, ops, a)
  BY <1>3, TripleList
<1>8. /\ w1 \in Seq(Effect) /\ (\A ops : Has(w1, ops) <=> some /\ d1.op \in ops)
      /\ \A ops : some => Ends(w1, ops, d1)
  BY <1>3, WhenList
<1>9. /\ w2 \in Seq(Effect)
      /\ \A ops : Has(w2, ops) <=> gpu /\ ResetGpuClocksEffect.op \in ops
      /\ \A ops : gpu => Ends(w2, ops, ResetGpuClocksEffect)
  BY <1>3, WhenList
<1>10. /\ w3 \in Seq(Effect) /\ (\A ops : Has(w3, ops) <=> tier /\ d3.op \in ops)
       /\ \A ops : tier => Ends(w3, ops, d3)
  BY <1>3, WhenList
<1> HIDE DEF f, w1, w2, w3
<1>11. /\ \A ops : Has(fx, ops) <=> Has(f, ops) \/ Has(w1, ops) \/ Has(w2, ops) \/ Has(w3, ops)
       /\ \A ops, d : Ends(f, ops, d) /\ ~Has(w1, ops) /\ ~Has(w2, ops) /\ ~Has(w3, ops)
                        => Ends(fx, ops, d)
       /\ \A ops, d : Ends(w1, ops, d) /\ ~Has(w2, ops) /\ ~Has(w3, ops) => Ends(fx, ops, d)
       /\ \A ops, d : Ends(w2, ops, d) /\ ~Has(w3, ops) => Ends(fx, ops, d)
       /\ \A ops, d : Ends(w3, ops, d) => Ends(fx, ops, d)
  <2> DEFINE g1 == f \o w1
             g2 == g1 \o w2
  <2>1. /\ g1 \in Seq(Effect)
        /\ \A ops : Has(g1, ops) <=> Has(f, ops) \/ Has(w1, ops)
        /\ \A ops, d : Ends(w1, ops, d) => Ends(g1, ops, d)
        /\ \A ops, d : Ends(f, ops, d) /\ ~Has(w1, ops) => Ends(g1, ops, d)
    BY <1>7, <1>8, JoinedList
  <2> HIDE DEF g1
  <2>2. /\ g2 \in Seq(Effect)
        /\ \A ops : Has(g2, ops) <=> Has(g1, ops) \/ Has(w2, ops)
        /\ \A ops, d : Ends(w2, ops, d) => Ends(g2, ops, d)
        /\ \A ops, d : Ends(g1, ops, d) /\ ~Has(w2, ops) => Ends(g2, ops, d)
    BY <1>9, <2>1, JoinedList
  <2>3. fx = g2 \o w3
    BY DEF g1
  <2> HIDE DEF g2
  <2>4. /\ \A ops : Has(fx, ops) <=> Has(g2, ops) \/ Has(w3, ops)
        /\ \A ops, d : Ends(w3, ops, d) => Ends(fx, ops, d)
        /\ \A ops, d : Ends(g2, ops, d) /\ ~Has(w3, ops) => Ends(fx, ops, d)
    BY <1>10, <2>2, <2>3, JoinedList
  <2> HIDE DEF fx
  <2>5. QED
    BY <2>1, <2>2, <2>4
<1> HIDE DEF fx
<1>12. Ends(fx, EnvelopeOps, ApplyPowerEnvelope(n.power_target))
  BY <1>2, <1>4, <1>7, <1>8, <1>9, <1>10, <1>11 DEF EnvelopeOps, b
<1>13. Ends(fx, ProfileOps, ApplyPlatformProfile(n.active_profile))
  BY <1>2, <1>4, <1>7, <1>8, <1>9, <1>10, <1>11 DEF ProfileOps, a
<1>14. Ends(fx, ChargeOps, ApplyChargeThreshold(n.charge_end_threshold))
  BY <1>2, <1>4, <1>7, <1>8, <1>9, <1>10, <1>11 DEF ChargeOps, c
<1>15. /\ some => Ends(fx, CurveOps, ApplyFanCurve(n.active_fan_curve))
       /\ ~some => ~Has(fx, FanOps)
  BY <1>2, <1>4, <1>7, <1>8, <1>9, <1>10, <1>11 DEF CurveOps, FanOps, d1
<1>16. /\ tier => Ends(fx, GpuOps, d3)
       /\ gpu /\ ~tier => Ends(fx, GpuOps, ResetGpuClocksEffect)
       /\ ~gpu => ~Has(fx, GpuOps)
  BY <1>4, <1>5, <1>7, <1>8, <1>9, <1>10, <1>11 DEF GpuOps
<1>17. Asserts(fx, n)
  BY <1>2, <1>12, <1>13, <1>14, <1>15, <1>16 DEF Asserts, some, d3
<1>18. EnvelopeDrive(fx, s, n) /\ ProfileDrive(fx, s, n) /\ ChargeDrive(fx, s, n)
  BY <1>12, <1>13, <1>14 DEF EnvelopeDrive, ProfileDrive, ChargeDrive
<1>19. CurveDrive(fx, s, n)
  BY <1>2, <1>15 DEF CurveDrive, some
<1>20. GpuDrive(fx, s, n)
  BY <1>2, <1>5, <1>16 DEF GpuDrive, d3
<1>21. QED
  BY <1>1, <1>6, <1>17, <1>18, <1>19, <1>20 DEF Output, Drives

\* A forced or restored state, the charge threshold after it.
LEMMA ChargedList ==
  ASSUME NEW fx \in Seq(Effect), NEW c \in Charge, NEW s, NEW n, Drives(fx, s, n),
         n.charge_end_threshold = c
  PROVE  LET g == Append(fx, ApplyChargeThreshold(c)) IN
         /\ g \in Seq(Effect) /\ Drives(g, s, n)
         /\ Ends(g, ChargeOps, ApplyChargeThreshold(c))
         /\ \A ops \in (Ops \cup {SaveOps}) \ {ChargeOps} :
              /\ Has(g, ops) <=> Has(fx, ops)
              /\ \A e : Ends(fx, ops, e) => Ends(g, ops, e)
<1> DEFINE a == ApplyChargeThreshold(c)
           u == <<a>>
           g == fx \o u
<1>1. a \in Effect /\ a.op = "ApplyChargeThreshold" /\ Append(fx, a) = g
  BY EffectTypes, EffectOps
<1> HIDE DEF a
<1>2. /\ u \in Seq(Effect)
      /\ \A ops : Has(u, ops) <=> a.op \in ops
      /\ \A ops, d : Ends(u, ops, d) <=> d = a
  BY <1>1, UnitList
<1> HIDE DEF u
<1>3. /\ g \in Seq(Effect)
      /\ \A ops : Has(g, ops) <=> Has(fx, ops) \/ a.op \in ops
      /\ \A ops : Ends(g, ops, a)
      /\ \A ops, e : Ends(fx, ops, e) /\ a.op \notin ops => Ends(g, ops, e)
  BY <1>2, JoinedList
<1> HIDE DEF g
<1>4. \A ops \in (Ops \cup {SaveOps}) \ {ChargeOps} : a.op \notin ops
  BY <1>1 DEF Ops, SaveOps, EnvelopeOps, ProfileOps, ChargeOps, FanOps, CurveOps, GpuOps
<1>5. \A ops \in (Ops \cup {SaveOps}) \ {ChargeOps} :
        /\ Has(g, ops) <=> Has(fx, ops)
        /\ \A e : Ends(fx, ops, e) => Ends(g, ops, e)
  BY <1>3, <1>4
<1>6. EnvelopeOps # ChargeOps /\ ProfileOps # ChargeOps /\ FanOps # ChargeOps
      /\ CurveOps # ChargeOps /\ GpuOps # ChargeOps
  BY DEF EnvelopeOps, ProfileOps, ChargeOps, FanOps, CurveOps, GpuOps
<1>7. \A ops \in {EnvelopeOps, ProfileOps, FanOps, CurveOps, GpuOps} :
        /\ Has(g, ops) <=> Has(fx, ops)
        /\ \A e : Ends(fx, ops, e) => Ends(g, ops, e)
  BY <1>5, <1>6 DEF Ops
<1>8. EnvelopeDrive(g, s, n) /\ ProfileDrive(g, s, n)
  BY <1>7 DEF Drives, EnvelopeDrive, ProfileDrive
<1>9. ChargeDrive(g, s, n)
  BY <1>3 DEF ChargeDrive, a
<1>10. CurveDrive(g, s, n) /\ GpuDrive(g, s, n)
  BY <1>7 DEF Drives, CurveDrive, GpuDrive
<1>11. QED
  BY <1>1, <1>3, <1>5, <1>8, <1>9, <1>10 DEF a, Drives

LEMMA SystemResumedLeads ==
  ASSUME NEW s \in ProfileState, NEW lim \in Limits, NEW cfg \in Config
  PROVE  LET o == SystemResumed(s, lim, cfg) IN
         /\ Leads(o, s) /\ o.ok
         /\ RewritesAll(s) => Asserts(o.effects, o.new_state)
         /\ s.active_gpu_clock # Unmanaged => Saves(o, s)
<1> DEFINE o == SystemResumed(s, lim, cfg)
           c == s.charge_end_threshold
           charge == ApplyChargeThreshold(c)
<1>1. OutputOK(o) /\ o.ok /\ c \in Charge
  BY SystemResumedType, ResumeAccepted, StateFields
<1>2. CASE Locked(s)
  <2> DEFINE r == ForceAcMaxPerformance(s, lim, cfg)
             g == Append(r.effects, charge)
             fx == Append(g, PersistState)
  <2>1. /\ r.new_state \in ProfileState /\ r.effects \in Seq(Effect)
        /\ Ends(r.effects, EnvelopeOps, ApplyPowerEnvelope(r.new_state.power_target))
        /\ Ends(r.effects, ProfileOps, ApplyPlatformProfile(r.new_state.active_profile))
        /\ Ends(r.effects, CurveOps, ApplyFanCurve(r.new_state.active_fan_curve))
        /\ r.new_state.charge_end_threshold = c
        /\ r.new_state.active_gpu_clock # None =>
             /\ r.new_state.active_gpu_clock \in Tier
             /\ Ends(r.effects, GpuOps, ApplyGpuClockRange(r.new_state.active_gpu_clock))
    BY ForceList
  <2>2. Drives(r.effects, s, r.new_state)
    BY ForceDrives
  <2>3. o = Output(r.new_state, r.effects \o <<charge, PersistState>>)
    BY <1>2 DEF SystemResumed, Locked
  <2> HIDE DEF r
  <2>4. charge \in Effect /\ PersistState \in Effect
    BY <1>1, EffectTypes
  <2>5. r.effects \o <<charge, PersistState>> = fx
    BY <2>1, <2>4
  <2>6. /\ g \in Seq(Effect) /\ Drives(g, s, r.new_state)
        /\ Ends(g, ChargeOps, charge)
        /\ \A ops \in (Ops \cup {SaveOps}) \ {ChargeOps} :
             \A e : Ends(r.effects, ops, e) => Ends(g, ops, e)
    BY <1>1, <2>1, <2>2, ChargedList
  <2>7. EnvelopeOps # ChargeOps /\ ProfileOps # ChargeOps /\ CurveOps # ChargeOps
        /\ GpuOps # ChargeOps
    BY DEF EnvelopeOps, ProfileOps, ChargeOps, CurveOps, GpuOps
  <2>8. \A ops \in {EnvelopeOps, ProfileOps, CurveOps, GpuOps} :
          \A e : Ends(r.effects, ops, e) => Ends(g, ops, e)
    BY <2>6, <2>7 DEF Ops
  <2> HIDE DEF g
  <2>9. Drives(fx, s, r.new_state) /\ Has(fx, SaveOps)
    BY <2>6, SavedDrives, SavedList
  <2>10. \A ops \in Ops : \A e : Ends(g, ops, e) => Ends(fx, ops, e)
    <3>1. \A ops \in Ops : "PersistState" \notin ops
      BY DEF Ops, EnvelopeOps, ProfileOps, ChargeOps, FanOps, CurveOps, GpuOps
    <3>2. QED
      BY <2>6, <3>1, SavedList
  <2> HIDE DEF fx
  <2>11. /\ Ends(fx, EnvelopeOps, ApplyPowerEnvelope(r.new_state.power_target))
         /\ Ends(fx, ProfileOps, ApplyPlatformProfile(r.new_state.active_profile))
         /\ Ends(fx, CurveOps, ApplyFanCurve(r.new_state.active_fan_curve))
         /\ Ends(fx, ChargeOps, charge)
         /\ r.new_state.active_gpu_clock # None =>
              Ends(fx, GpuOps, ApplyGpuClockRange(r.new_state.active_gpu_clock))
    BY <2>1, <2>6, <2>8, <2>10 DEF Ops
  <2>12. Asserts(fx, r.new_state)
    BY <2>1, <2>11 DEF Asserts
  <2>13. o.new_state = r.new_state /\ o.effects = fx
    <3> DEFINE h == r.effects \o <<charge, PersistState>>
    <3>1. o = Output(r.new_state, h) /\ h = fx
      BY <2>3, <2>5
    <3> HIDE DEF h, o
    <3>2. QED
      BY <3>1 DEF Output
  <2> HIDE DEF o
  <2>14. Leads(o, s) /\ o.ok /\ Asserts(o.effects, o.new_state) /\ Saves(o, s)
    BY <1>1, <2>9, <2>12, <2>13 DEF Leads, Saves
  <2>15. QED
    BY <2>14 DEF o
<1>3. CASE ~Locked(s) /\ s.last_dc_state # None
  <2> DEFINE r == RestoreDcState(s, s.last_dc_state)
             g == Append(r.effects, charge)
  <2>1. s.last_dc_state \in DcSnapshot
    BY <1>3, StateFields
  <2>2. /\ r.effects \in Seq(Effect) /\ Drives(r.effects, s, r.new_state)
        /\ Has(r.effects, SaveOps)
    BY <2>1, RestoreDrives, RestoreDcType DEF OutputOK
  <2>3. r.new_state.charge_end_threshold = c
    BY DEF RestoreDcState, Output, ProfileState
  <2>4. o = Output(r.new_state, g)
    BY <1>3 DEF SystemResumed, Locked
  <2> HIDE DEF r
  <2>5. SaveOps \in (Ops \cup {SaveOps}) \ {ChargeOps}
    BY DEF SaveOps, ChargeOps
  <2>6. Drives(g, s, r.new_state) /\ Has(g, SaveOps)
    BY <1>1, <2>2, <2>3, <2>5, ChargedList
  <2>7. ~RewritesAll(s)
    BY <1>3 DEF RewritesAll
  <2>8. o.effects = g /\ o.new_state = r.new_state
    BY <2>4 DEF Output
  <2> HIDE DEF g, o
  <2>9. QED
    BY <1>1, <2>6, <2>7, <2>8 DEF Leads, Saves, o
<1>4. CASE ~Locked(s) /\ s.last_dc_state = None
  <2>1. o = ReassertAll(s)
    BY <1>4 DEF SystemResumed, Locked
  <2> HIDE DEF o
  <2>2. /\ Drives(o.effects, s, o.new_state) /\ Asserts(o.effects, o.new_state)
        /\ s.active_gpu_clock # Unmanaged => o.new_state = s
    BY <2>1, ReassertAllLeads
  <2>3. QED
    BY <1>1, <2>2 DEF Leads, Saves, o
<1>5. QED
  BY <1>2, <1>3, <1>4

-----------------------------------------------------------------------------
(* Every other transition but a rollback.                                  *)

LEMMA FlagsOnDisk ==
  ASSUME NEW s \in ProfileState, NEW b
  PROVE  /\ DiskImage([s EXCEPT !.is_ac_connected = b]) = DiskImage(s)
         /\ DiskImage([s EXCEPT !.ac_locked = b]) = DiskImage(s)
         /\ DiskImage(DiskImage(s)) = DiskImage(s)
  BY DEF DiskImage, ProfileState

LEMMA FlagsReport ==
  ASSUME NEW s \in ProfileState, NEW b
  PROVE  /\ SameReport([s EXCEPT !.is_ac_connected = b], s)
         /\ SameReport([s EXCEPT !.ac_max_performance = b], s)
         /\ SameReport([s EXCEPT !.ac_locked = b], s)
         /\ SameReport([s EXCEPT !.last_dc_state = b], s)
         /\ SameReport(s, s)
  BY DEF SameReport, ProfileState

\* A pinned target is not the middle of the range: the unplug defaults write.
LEMMA QuietSaves ==
  ASSUME NEW s \in ProfileState, NEW lim \in Limits, NEW cfg \in Config,
         s.power_target = MaxEnvelope(lim, cfg), lim.spl_min # lim.spl_max,
         QuietDefaults(s, lim, cfg).ok
  PROVE  Has(QuietDefaults(s, lim, cfg).effects, SaveOps)
<1> DEFINE m == [s EXCEPT !.is_ac_connected = FALSE, !.fan_follows_tdp = TRUE]
           w == PresetWatts("Balanced", lim, cfg)
           spl == FromWatts(w)
           e == DeriveBoostedEnvelope(spl, lim, cfg)
           o == SetPreset(m, "Balanced", lim, cfg)
           a == ApplyPowerTarget(m, e, lim, cfg)
<1>1. m \in ProfileState /\ m.power_target = s.power_target
  BY DEF ProfileState
<1>2. QuietDefaults(s, lim, cfg) = Persisted(o)
  BY DEF QuietDefaults
<1>3. OutputOK(o)
  BY <1>1, SetPresetType DEF TdpPreset
<1>4. Persisted(o).ok = o.ok
  BY <1>3 DEF Persisted, OutputOK
<1>5. o = a /\ spl >= lim.spl_min /\ spl <= lim.spl_max
  <2> HIDE DEF m, w
  <2>1. o.ok
    BY <1>2, <1>4
  <2>2. ~Rejected(m).ok
    BY DEF Rejected
  <2>3. o = SetSpl(m, w, lim, cfg)
    BY DEF SetPreset, w
  <2>4. spl >= lim.spl_min /\ spl <= lim.spl_max /\ o = SetEnvelope(m, e, lim, cfg)
    BY <2>1, <2>2, <2>3 DEF SetSpl
  <2>5. o = a
    BY <2>1, <2>2, <2>4 DEF SetEnvelope
  <2>6. QED
    BY <2>4, <2>5
<1>6. spl # lim.spl_max
  <2> DEFINE k == MilliwattsPerWatt
             lo == lim.spl_min \div k
             hi == lim.spl_max \div k
  <2>1. k \in Nat \ {0} /\ lim.spl_min \in Nat /\ lim.spl_max \in Nat
    BY PowerAssumption DEF Limits
  <2>2. w = (lo + hi) \div 2
    BY DEF PresetWatts, AsWatts
  <2>3. /\ lo \in Nat /\ hi \in Nat
        /\ k * lo <= lim.spl_min /\ k * hi <= lim.spl_max
        /\ lim.spl_min < k * lo + k /\ lim.spl_max < k * hi + k
    BY <2>1
  <2>4. spl = w * k
    BY DEF FromWatts
  <2> HIDE DEF w, spl, lo, hi, k
  <2>5. SUFFICES ASSUME spl = lim.spl_max PROVE FALSE
    OBVIOUS
  <2>6. w \in Nat /\ 2 * w <= lo + hi
    BY <2>2, <2>3
  <2>7. w * k = k * w /\ k * w \in Nat
    BY <2>1, <2>6
  <2>8. hi = w
    <3>1. ~(hi < w)
      <4>1. hi < w => k * hi + k <= k * w
        <5>1. hi < w => hi + 1 <= w
          BY <2>3, <2>6
        <5>2. \A x, y \in Nat : x <= y => k * x <= k * y
          BY <2>1
        <5>3. k * (hi + 1) = k * hi + k
          BY <2>1, <2>3
        <5>4. QED
          BY <2>3, <2>6, <5>1, <5>2, <5>3
      <4>2. QED
        BY <2>1, <2>3, <2>4, <2>5, <2>7, <4>1
    <3>2. ~(w < hi)
      <4>1. w < hi => k * w + k <= k * hi
        <5>1. w < hi => w + 1 <= hi
          BY <2>3, <2>6
        <5>2. \A x, y \in Nat : x <= y => k * x <= k * y
          BY <2>1
        <5>3. k * (w + 1) = k * w + k
          BY <2>1, <2>6
        <5>4. QED
          BY <2>3, <2>6, <5>1, <5>2, <5>3
      <4>2. QED
        BY <2>1, <2>3, <2>4, <2>5, <2>7, <4>1
    <3>3. QED
      BY <2>3, <2>6, <3>1, <3>2
  <2>9. w <= lo
    BY <2>3, <2>6, <2>8
  <2>10. k * w <= k * lo
    BY <2>1, <2>3, <2>6, <2>9
  <2>11. QED
    BY <1>5, <2>1, <2>3, <2>4, <2>5, <2>7, <2>10
<1>7. e # m.power_target
  <2>1. e.spl = spl
    BY DEF DeriveBoostedEnvelope
  <2>2. MaxEnvelope(lim, cfg).spl = lim.spl_max
    BY DEF MaxEnvelope, DeriveBoostedEnvelope
  <2> HIDE DEF e, spl, m
  <2>3. QED
    BY <1>1, <1>6, <2>1, <2>2
<1>8. a.effects # <<>>
  <2> DEFINE tier == InferTier(e, lim, cfg)
             fan  == m.fan_follows_tdp /\ m.active_fan_curve # tier
             gpu  == m.gpu_follows_tdp /\ m.active_gpu_clock # tier
             u == <<ApplyPowerEnvelope(e)>>
             v == When(fan, ApplyFanCurve(tier))
             x == When(gpu, ApplyGpuClockRange(tier))
  <2>1. a.effects = u \o v \o x
    BY <1>7 DEF ApplyPowerTarget, Output
  <2>2. tier \in Tier
    BY InferTierType
  <2>3. w \in Nat
    BY PresetWattsType DEF TdpPreset
  <2>4. ApplyPowerEnvelope(e) \in Effect /\ ApplyFanCurve(tier) \in Effect
        /\ ApplyGpuClockRange(tier) \in Effect
    BY <2>2, <2>3, FromWattsType, DeriveType, EffectTypes, TierType
  <2> HIDE DEF tier, fan, gpu, e
  <2>5. u \in Seq(Effect) /\ Has(u, {"ApplyPowerEnvelope"})
    BY <2>4, UnitList, EffectOps
  <2>6. v \in Seq(Effect) /\ x \in Seq(Effect)
    BY <2>4, WhenList
  <2> HIDE DEF u, v, x
  <2>7. Has(u \o v \o x, {"ApplyPowerEnvelope"})
    BY <2>5, <2>6, JoinedList
  <2>8. QED
    BY <2>1, <2>7, EmptyList
<1>9. QED
  <2> HIDE DEF o, a
  <2>1. o.effects # <<>> /\ o.effects \in Seq(Effect)
    BY <1>3, <1>5, <1>8 DEF OutputOK
  <2>2. Persisted(o).effects = Append(o.effects, PersistState)
    BY <1>3, <2>1 DEF Persisted, OutputOK
  <2>3. QED
    BY <1>2, <2>1, <2>2, SavedList

LEMMA QuietLeads ==
  ASSUME NEW s \in ProfileState, NEW lim \in Limits, NEW cfg \in Config
  PROVE  Leads(QuietDefaults(s, lim, cfg), s)
<1> DEFINE m == [s EXCEPT !.is_ac_connected = FALSE, !.fan_follows_tdp = TRUE]
           o == SetPreset(m, "Balanced", lim, cfg)
           p == Persisted(o)
<1>1. m \in ProfileState /\ SameReport(s, m)
  BY DEF ProfileState, SameReport
<1>2. QuietDefaults(s, lim, cfg) = p
  BY DEF QuietDefaults
<1> HIDE DEF m
<1>3. Follows(o, m)
  BY <1>1, SetPresetFollows DEF TdpPreset, Chains
<1> HIDE DEF o
<1>4. Leads(p, m)
  BY <1>3, PersistedLeads
<1> HIDE DEF p
<1>5. SameReport(p.new_state, p.new_state)
  BY DEF SameReport
<1>6. p.ok => Drives(p.effects, s, p.new_state)
  BY <1>1, <1>4, <1>5, SameReportDrives DEF Leads
<1>7. Leads(p, s)
  BY <1>4, <1>6 DEF Leads
<1>8. QED
  BY <1>2, <1>7

\* What a step needs for the file to be owed nothing: no clock of no tier, an
\* SPL range to speak of, and a locked target that is the maximum.
Savable(s, lim, cfg) ==
  /\ s.active_gpu_clock # Unmanaged
  /\ lim.spl_min # lim.spl_max
  /\ Locked(s) => s.power_target = MaxEnvelope(lim, cfg)

LEMMA NothingLeads ==
  ASSUME NEW s \in ProfileState
  PROVE  /\ Leads(Output(s, <<>>), s) /\ Saves(Output(s, <<>>), s)
         /\ Leads(Rejected(s), s) /\ Saves(Rejected(s), s)
         /\ Leads(Output(s, <<PersistState>>), s) /\ Saves(Output(s, <<PersistState>>), s)
<1>1. Leads(Output(s, <<>>), s) /\ Saves(Output(s, <<>>), s)
  BY NothingFollows DEF Chains, Follows, Leads, Saves, Output
<1>2. Leads(Rejected(s), s) /\ Saves(Rejected(s), s)
  BY NothingFollows DEF Chains, Follows, Leads, Saves, Rejected
<1>3. Leads(Output(s, <<PersistState>>), s) /\ Saves(Output(s, <<PersistState>>), s)
  <2>1. <<PersistState>> \in Seq(Effect) /\ Has(<<PersistState>>, SaveOps)
    BY EffectTypes, EffectOps, UnitList DEF SaveOps
  <2>2. Append(<<>>, PersistState) = <<PersistState>> /\ <<>> \in Seq(Effect)
    BY EffectTypes
  <2>3. Drives(<<>>, s, s)
    BY NothingDrives
  <2>4. Drives(<<PersistState>>, s, s)
    BY <2>2, <2>3, SavedDrives
  <2>5. OutputOK(Output(s, <<PersistState>>))
    BY <2>1, OutputTypes
  <2>6. QED
    BY <2>1, <2>4, <2>5 DEF Leads, Saves, Output
<1>4. QED
  BY <1>1, <1>2, <1>3

\* An output with one of the flags changed.
LEMMA FlaggedLeads ==
  ASSUME NEW o, NEW s \in ProfileState, Leads(o, s), o.ok, NEW n \in ProfileState,
         SameReport(n, o.new_state)
  PROVE  /\ Leads(Output(n, o.effects), s)
         /\ Has(o.effects, SaveOps) => Saves(Output(n, o.effects), s)
<1>1. o.effects \in Seq(Effect)
  BY DEF Leads, OutputOK
<1>2. SameReport(s, s)
  BY DEF SameReport
<1>3. Drives(o.effects, s, n)
  BY <1>2, SameReportDrives DEF Leads
<1>4. OutputOK(Output(n, o.effects))
  BY <1>1, OutputTypes
<1>5. QED
  BY <1>3, <1>4 DEF Leads, Saves, Output

LEMMA AcPowerChangedLeads ==
  ASSUME NEW s \in ProfileState, NEW b \in BOOLEAN, NEW lim \in Limits, NEW cfg \in Config
  PROVE  LET o == AcPowerChanged(s, b, lim, cfg) IN
         Leads(o, s) /\ (Savable(s, lim, cfg) => Saves(o, s))
<1> DEFINE o == AcEdge(s, b, lim, cfg)
           n == [o.new_state EXCEPT !.is_ac_connected = b]
           r == AcPowerChanged(s, b, lim, cfg)
<1>1. s.last_dc_state \in DcSnapshot \cup {None} /\ s.is_ac_connected \in BOOLEAN
  BY StateFields
<1>2. CASE s.is_ac_connected = b
  <2>1. r = Output(s, <<>>)
    BY <1>2 DEF AcPowerChanged
  <2>2. QED
    BY <2>1, NothingLeads
<1>3. CASE s.is_ac_connected # b /\ ~o.ok
  <2>1. r = Rejected(s)
    BY <1>3 DEF AcPowerChanged
  <2>2. QED
    BY <2>1, NothingLeads
<1>4. CASE s.is_ac_connected # b /\ o.ok
  <2>1. r = Output(n, o.effects)
    BY <1>4 DEF AcPowerChanged
  <2>2. \/ o = ForceWithSnapshot(s, Snapshot(s), lim, cfg)
        \/ s.last_dc_state # None /\ o = RestoreDcState(s, s.last_dc_state)
        \/ Locked(s) /\ o = QuietDefaults(s, lim, cfg)
        \/ o = Output(s, <<>>)
    BY <1>1, <1>4 DEF AcEdge, Locked
  <2> HIDE DEF o
  <2>3. CASE o = ForceWithSnapshot(s, Snapshot(s), lim, cfg)
    <3>1. OutputOK(o) /\ Drives(o.effects, s, o.new_state) /\ Has(o.effects, SaveOps)
      BY <2>3, SnapshotType, ForceWithSnapshotType, ForceWithSnapshotLeads
    <3>2. Leads(o, s) /\ n \in ProfileState /\ SameReport(n, o.new_state)
      BY <1>4, <3>1, WithAc, FlagsReport DEF Leads, OutputOK
    <3> HIDE DEF n, r
    <3>3. Leads(r, s) /\ Saves(r, s)
      BY <1>4, <2>1, <3>1, <3>2, FlaggedLeads
    <3>4. QED
      BY <3>3 DEF r
  <2>4. CASE s.last_dc_state # None /\ o = RestoreDcState(s, s.last_dc_state)
    <3>1. OutputOK(o) /\ Drives(o.effects, s, o.new_state) /\ Has(o.effects, SaveOps)
      BY <1>1, <2>4, RestoreDcType, RestoreDrives
    <3>2. Leads(o, s) /\ n \in ProfileState /\ SameReport(n, o.new_state)
      BY <1>4, <3>1, WithAc, FlagsReport DEF Leads, OutputOK
    <3> HIDE DEF n, r
    <3>3. Leads(r, s) /\ Saves(r, s)
      BY <1>4, <2>1, <3>1, <3>2, FlaggedLeads
    <3>4. QED
      BY <3>3 DEF r
  <2>5. CASE Locked(s) /\ o = QuietDefaults(s, lim, cfg)
    <3>1. Leads(o, s)
      BY <2>5, QuietLeads
    <3>2. n \in ProfileState /\ SameReport(n, o.new_state)
      BY <3>1, WithAc, FlagsReport DEF Leads, OutputOK
    <3>3. Savable(s, lim, cfg) => Has(o.effects, SaveOps)
      BY <1>4, <2>5, QuietSaves DEF Savable
    <3> HIDE DEF n, r
    <3>4. Leads(r, s) /\ (Savable(s, lim, cfg) => Saves(r, s))
      BY <1>4, <2>1, <3>1, <3>2, <3>3, FlaggedLeads
    <3>5. QED
      BY <3>4 DEF r
  <2>6. CASE o = Output(s, <<>>)
    <3>1. o.ok /\ o.new_state = s /\ o.effects = <<>> /\ Leads(o, s)
      BY <2>6, NothingLeads DEF Output
    <3>2. n \in ProfileState /\ SameReport(n, s) /\ DiskImage(n) = DiskImage(s)
      BY <3>1, WithAc, FlagsReport, FlagsOnDisk
    <3> HIDE DEF n, r
    <3>3. Leads(r, s)
      BY <2>1, <3>1, <3>2, FlaggedLeads
    <3>4. Saves(r, s)
      BY <2>1, <3>2 DEF Saves, Output
    <3>5. QED
      BY <3>3, <3>4 DEF r
  <2>7. QED
    BY <2>2, <2>3, <2>4, <2>5, <2>6
<1>5. QED
  BY <1>2, <1>3, <1>4

LEMMA SetAcMaxPerformanceLeads ==
  ASSUME NEW s \in ProfileState, NEW b \in BOOLEAN, NEW lim \in Limits, NEW cfg \in Config
  PROVE  LET o == SetAcMaxPerformance(s, b, lim, cfg) IN Leads(o, s) /\ Saves(o, s)
<1> DEFINE snap == IF s.last_dc_state = None THEN Snapshot(s) ELSE s.last_dc_state
           o == IF ~s.is_ac_connected THEN Output(s, <<PersistState>>)
                ELSE IF b THEN ForceWithSnapshot(s, snap, lim, cfg)
                ELSE IF s.last_dc_state # None THEN RestoreDcState(s, s.last_dc_state)
                ELSE Output(s, <<PersistState>>)
           n == [o.new_state EXCEPT !.ac_max_performance = b]
           r == SetAcMaxPerformance(s, b, lim, cfg)
<1>1. s.last_dc_state \in DcSnapshot \cup {None} /\ Snapshot(s) \in DcSnapshot
  BY StateFields, SnapshotType
<1>2. CASE s.ac_max_performance = b
  <2>1. r = Output(s, <<>>)
    BY <1>2 DEF SetAcMaxPerformance
  <2>2. QED
    BY <2>1, NothingLeads
<1>3. CASE s.ac_max_performance # b
  <2>1. r = Output(n, o.effects)
    BY <1>3 DEF SetAcMaxPerformance
  <2>2. snap \in DcSnapshot
    BY <1>1
  <2>3. \/ o = Output(s, <<PersistState>>)
        \/ o = ForceWithSnapshot(s, snap, lim, cfg)
        \/ s.last_dc_state # None /\ o = RestoreDcState(s, s.last_dc_state)
    OBVIOUS
  <2> HIDE DEF o, snap
  <2>4. o.ok /\ Leads(o, s) /\ Has(o.effects, SaveOps)
    <3>1. CASE o = Output(s, <<PersistState>>)
      BY <3>1, NothingLeads, EffectTypes, EffectOps, UnitList DEF Output, SaveOps
    <3>2. CASE o = ForceWithSnapshot(s, snap, lim, cfg)
      BY <2>2, <3>2, ForceWithSnapshotType, ForceWithSnapshotLeads DEF Leads
    <3>3. CASE s.last_dc_state # None /\ o = RestoreDcState(s, s.last_dc_state)
      BY <1>1, <3>3, RestoreDcType, RestoreDrives DEF Leads
    <3>4. QED
      BY <2>3, <3>1, <3>2, <3>3
  <2>5. n \in ProfileState /\ SameReport(n, o.new_state)
    BY <2>4, WithLock, FlagsReport DEF Leads, OutputOK
  <2> HIDE DEF n, r
  <2>6. Leads(r, s) /\ Saves(r, s)
    BY <2>1, <2>4, <2>5, FlaggedLeads
  <2>7. QED
    BY <2>6 DEF r
<1>4. QED
  BY <1>2, <1>3

LEMMA UserLeverFollows ==
  ASSUME NEW s \in ProfileState, NEW t \in Transition, IsLockedWrite(t),
         NEW lim \in Limits, NEW cfg \in Config
  PROVE  Follows(UserLever(s, t, lim, cfg), s)
<1> DEFINE o == UserLever(s, t, lim, cfg)
<1>1. CASE t.op = "SetPreset"
  <2>1. o = SetPreset(s, t.preset, lim, cfg)
    BY <1>1 DEF UserLever
  <2>2. QED
    BY <1>1, <2>1, LockedWriteFields, SetPresetFollows DEF Chains
<1>2. CASE t.op = "SetSpl"
  <2>1. o = SetSpl(s, t.watts, lim, cfg)
    BY <1>2 DEF UserLever
  <2>2. QED
    BY <1>2, <2>1, LockedWriteFields, SetPresetFollows DEF Chains
<1>3. CASE t.op = "SetEnvelope"
  <2>1. o = SetEnvelope(s, t.target, lim, cfg)
    BY <1>3 DEF UserLever
  <2>2. QED
    BY <1>3, <2>1, LockedWriteFields, SetPresetFollows DEF Chains
<1>4. CASE t.op = "SetProfile"
  <2>1. o = SetProfile(s, t.profile)
    BY <1>4 DEF UserLever
  <2>2. QED
    BY <1>4, <2>1, LockedWriteFields, SetProfileFollows DEF Chains
<1>5. CASE t.op \in {"SetCoolingLevel", "SetCustomFanCurve"}
  <2>1. o = SetFanCurve(s, t.curve)
    BY <1>5 DEF UserLever
  <2>2. t.curve \in Curve
    BY <1>5, LockedWriteFields DEF Curve
  <2>3. QED
    BY <2>1, <2>2, FanLeversFollow
<1>6. CASE t.op = "EnableFanAuto"
  <2>1. o = EnableFanAuto(s, lim, cfg)
    BY <1>6 DEF UserLever
  <2>2. QED
    BY <2>1, FanLeversFollow DEF Chains
<1>7. CASE t.op = "ResetFanCurve"
  <2>1. o = ResetFanCurve(s)
    BY <1>7 DEF UserLever
  <2>2. QED
    BY <2>1, FanLeversFollow
<1>8. CASE t.op = "EnableGpuAutoFollow"
  <2>1. o = EnableGpuAutoFollow(s, lim, cfg)
    BY <1>8 DEF UserLever
  <2>2. QED
    BY <2>1, GpuLeversFollow DEF Chains
<1>9. CASE t.op = "ResetGpuClocks"
  <2>1. o = ResetGpuClocks(s)
    BY <1>9 DEF UserLever
  <2>2. QED
    BY <2>1, GpuLeversFollow DEF Chains
<1>10. CASE t.op = "RestoreDefaults"
  <2>1. o = RestoreDefaults(s, lim, cfg)
    BY <1>10 DEF UserLever
  <2>2. QED
    BY <2>1, RestoreDefaultsFollows
<1>11. QED
  BY <1>1, <1>2, <1>3, <1>4, <1>5, <1>6, <1>7, <1>8, <1>9, <1>10
     DEF IsLockedWrite, LockedWriteOps

\* Every transition but a rollback leads to its new state, and, but for a
\* resume, saves it.
LEMMA ReduceLeads ==
  ASSUME NEW s \in ProfileState, NEW t \in Transition, t.op \notin SyncOps,
         t.op # "SystemResumed", NEW lim \in Limits, NEW cfg \in Config
  PROVE  LET o == Reduce(s, t, lim, cfg) IN
         Leads(o, s) /\ (Savable(s, lim, cfg) => Saves(o, s))
<1> DEFINE o == Reduce(s, t, lim, cfg)
<1>1. CASE IsLockedWrite(t) /\ Locked(s)
  BY <1>1, ReduceArms, NothingLeads
<1>2. CASE IsLockedWrite(t) /\ ~Locked(s)
  BY <1>2, ReduceArms, UserLeverFollows, PersistedLeads
<1>3. CASE t.op = "ChargeThresholdChanged" /\ t.charge \in Charge
  <2>1. Follows(ChargeThresholdChanged(s, t.charge), s)
    BY <1>3, ChargeLeverFollows DEF Chains
  <2>2. QED
    BY <1>3, <2>1, ReduceArms, PersistedLeads
<1>4. CASE t.op = "AcPowerChanged" /\ t.plugged \in BOOLEAN
  <2>1. o = AcPowerChanged(s, t.plugged, lim, cfg)
    BY <1>4, ReduceArms
  <2> HIDE DEF o
  <2>2. Leads(o, s) /\ (Savable(s, lim, cfg) => Saves(o, s))
    BY <1>4, <2>1, AcPowerChangedLeads
  <2>3. QED
    BY <2>2 DEF o
<1>5. CASE t.op = "SetAcMaxPerformance" /\ t.enabled \in BOOLEAN
  <2>1. o = SetAcMaxPerformance(s, t.enabled, lim, cfg)
    BY <1>5, ReduceArms
  <2> HIDE DEF o
  <2>2. Leads(o, s) /\ Saves(o, s)
    BY <1>5, <2>1, SetAcMaxPerformanceLeads
  <2>3. QED
    BY <2>2 DEF o
<1>6. CASE t.op \in {"ConfigReload", "Shutdown"}
  BY <1>6, ReduceArms, NothingLeads
<1>7. QED
  BY <1>1, <1>2, <1>3, <1>4, <1>5, <1>6, OtherTransitions

-----------------------------------------------------------------------------
(* From one transition to the next.                                        *)

\* What was owed nothing before a transition is given, or owed, what the
\* transition reports.
LEMMA DrivesDue ==
  ASSUME NEW fx, NEW s, NEW n, NEW h, Drives(fx, s, n)
  PROVE  /\ EnvelopeDue(<<>>, s, h) => EnvelopeDue(fx, n, h)
         /\ EnforceDue(<<>>, s, h) => EnforceDue(fx, n, h)
         /\ ProfileDue(<<>>, s, h) => ProfileDue(fx, n, h)
         /\ ChargeDue(<<>>, s, h) => ChargeDue(fx, n, h)
         /\ CurveDue(<<>>, s, h) => CurveDue(fx, n, h)
         /\ CurveOffDue(<<>>, s, h) => CurveOffDue(fx, n, h)
         /\ GpuDue(<<>>, s, h) => GpuDue(fx, n, h)
         /\ GpuOffDue(<<>>, s, h) => GpuOffDue(fx, n, h)
         /\ FanOrder(fx, n)
<1>1. EnvelopeDue(<<>>, s, h) => EnvelopeDue(fx, n, h)
  BY EmptyList DEF Drives, EnvelopeDrive, EnvelopeDue
<1>2. EnforceDue(<<>>, s, h) => EnforceDue(fx, n, h)
  BY EmptyList DEF Drives, EnvelopeDrive, EnforceDue
<1>3. ProfileDue(<<>>, s, h) => ProfileDue(fx, n, h)
  BY EmptyList DEF Drives, ProfileDrive, ProfileDue
<1>4. ChargeDue(<<>>, s, h) => ChargeDue(fx, n, h)
  BY EmptyList DEF Drives, ChargeDrive, ChargeDue
<1>5. CurveDue(<<>>, s, h) => CurveDue(fx, n, h)
  BY EmptyList DEF Drives, CurveDrive, CurveDue
<1>6. CurveOffDue(<<>>, s, h) => CurveOffDue(fx, n, h)
  BY EmptyList DEF Drives, CurveDrive, CurveOffDue
<1>7. None \notin Tier
  BY SelectionAssumption DEF Curve
<1>8. GpuDue(<<>>, s, h) => GpuDue(fx, n, h)
  BY EmptyList DEF Drives, GpuDrive, GpuDue
<1>9. GpuOffDue(<<>>, s, h) => GpuOffDue(fx, n, h)
  BY <1>7, EmptyList DEF Drives, GpuDrive, GpuOffDue
<1>10. FanOrder(fx, n)
  BY DEF Drives, CurveDrive, FanOrder
<1>11. QED
  BY <1>1, <1>2, <1>3, <1>4, <1>5, <1>6, <1>8, <1>9, <1>10

LEMMA AssertsDue ==
  ASSUME NEW fx, NEW n, NEW h, Asserts(fx, n)
  PROVE  /\ EnvelopeDue(fx, n, h) /\ EnforceDue(fx, n, h) /\ ProfileDue(fx, n, h)
         /\ ChargeDue(fx, n, h) /\ CurveDue(fx, n, h) /\ GpuDue(fx, n, h)
  BY DEF Asserts, EnvelopeDue, EnforceDue, ProfileDue, ChargeDue, CurveDue, GpuDue

\* Published flags are no lever.
LEMMA SameReportAsserts ==
  ASSUME NEW fx, NEW m, NEW n, SameReport(n, m), Asserts(fx, m)
  PROVE  Asserts(fx, n)
  BY DEF Asserts, SameReport

-----------------------------------------------------------------------------
(* Dispatching an effect, whatever becomes of it.                          *)

\* An effect e took the device from h to g without touching what it does not
\* write.
Frames(e, h, g) ==
  /\ e.op \notin EnvelopeOps => g.envelope = h.envelope /\ g.enforced = h.enforced
  /\ e.op \notin ProfileOps => g.profile = h.profile
  /\ e.op \notin ChargeOps => g.charge = h.charge
  /\ e.op \notin CurveOps => g.curve = h.curve
  /\ e.op \notin FanOps => g.curve \in {h.curve, None}
  /\ e.op \notin GpuOps => g.gpu = h.gpu
  /\ g.limits = h.limits

\* What it writes is written, where the backend has it.
TookEnvelope(e, h, g) ==
  e.op = "ApplyPowerEnvelope" =>
    g.envelope = WrittenEnvelope(h.envelope, e.target) /\ g.enforced

TookProfile(e, g) ==
  e.op = "ApplyPlatformProfile" /\ "profile" \in Capability => g.profile = e.profile

TookCharge(e, g) ==
  e.op = "ApplyChargeThreshold" /\ "charge" \in Capability => g.charge = e.charge

TookCurve(e, g) ==
  "curve" \in Capability =>
    /\ e.op = "ApplyFanCurve" => g.curve = e.curve
    /\ e.op = "ResetFanCurve" => g.curve = None

TookGpu(e, g) ==
  "gpu" \in Capability =>
    /\ e.op = "ApplyGpuClockRange" => g.gpu = e.tier
    /\ e.op = "ResetGpuClocks" => g.gpu = None

Took(e, h, g) ==
  /\ TookEnvelope(e, h, g) /\ TookProfile(e, g) /\ TookCharge(e, g)
  /\ TookCurve(e, g) /\ TookGpu(e, g)

LEMMA OpSets ==
  /\ EnvelopeOps = {"ApplyPlatformProfile", "ApplyPowerEnvelope"}
  /\ ProfileOps = {"ApplyPlatformProfile"}
  /\ ChargeOps = {"ApplyChargeThreshold"}
  /\ FanOps = {"ApplyFanCurve", "ResetFanCurve"}
  /\ CurveOps = {"ApplyPlatformProfile", "ApplyFanCurve", "ResetFanCurve"}
  /\ GpuOps = {"ApplyGpuClockRange", "ResetGpuClocks"}
  /\ SaveOps = {"PersistState"}
  BY DEF EnvelopeOps, ProfileOps, ChargeOps, FanOps, CurveOps, GpuOps, SaveOps

LEMMA WrittenTook ==
  ASSUME NEW h \in Hardware, NEW e \in Effect, e.op # "PersistState",
         NEW g \in Written(h, e)
  PROVE  Frames(e, h, g) /\ Took(e, h, g)
<1> USE OpSets DEF Took, TookEnvelope, TookProfile, TookCharge, TookCurve, TookGpu
<1>1. CASE e.op = "ApplyPowerEnvelope"
  <2>1. g = [h EXCEPT !.envelope = WrittenEnvelope(h.envelope, e.target), !.enforced = TRUE]
    BY <1>1 DEF Written
  <2>2. QED
    BY <1>1, <2>1 DEF Frames, Hardware
<1>2. CASE e.op = "ApplyPlatformProfile"
  <2>1. g = DropsControl([h EXCEPT !.profile = e.profile]) \/ (g = h /\ h.profile = e.profile)
    BY <1>2 DEF Written
  <2>2. QED
    BY <1>2, <2>1 DEF Frames, Hardware, DropsControl
<1>3. CASE e.op = "ApplyChargeThreshold"
  <2>1. g = [h EXCEPT !.charge = e.charge]
    BY <1>3 DEF Written
  <2>2. QED
    BY <1>3, <2>1 DEF Frames, Hardware
<1>4. CASE e.op = "ApplyFanCurve"
  <2>1. g = [h EXCEPT !.curve = e.curve]
    BY <1>4 DEF Written
  <2>2. QED
    BY <1>4, <2>1 DEF Frames, Hardware
<1>5. CASE e.op = "ResetFanCurve"
  <2>1. g = [h EXCEPT !.curve = None]
    BY <1>5 DEF Written
  <2>2. QED
    BY <1>5, <2>1 DEF Frames, Hardware
<1>6. CASE e.op = "ApplyGpuClockRange"
  <2>1. g = [h EXCEPT !.gpu = e.tier]
    BY <1>6 DEF Written
  <2>2. QED
    BY <1>6, <2>1 DEF Frames, Hardware
<1>7. CASE e.op = "ResetGpuClocks"
  <2>1. g = [h EXCEPT !.gpu = None]
    BY <1>7 DEF Written
  <2>2. QED
    BY <1>7, <2>1 DEF Frames, Hardware
<1>8. QED
  BY <1>1, <1>2, <1>3, <1>4, <1>5, <1>6, <1>7, EffectFields

LEMMA HalfWrittenFrames ==
  ASSUME NEW h \in Hardware, NEW e \in Effect, e.op # "PersistState",
         NEW g \in HalfWritten(h, e)
  PROVE  Frames(e, h, g) /\ (e.op = "ApplyPlatformProfile" => g = h)
<1> USE OpSets
<1>1. CASE e.op = "ApplyPowerEnvelope"
  <2> DEFINE w == WrittenEnvelope(h.envelope, e.target)
  <2>1. g \in {h, [h EXCEPT !.envelope = [@ EXCEPT !.spl = w.spl]],
               [h EXCEPT !.envelope = [@ EXCEPT !.spl = w.spl, !.sppt = w.sppt]]}
    BY <1>1 DEF HalfWritten
  <2> HIDE DEF w
  <2>2. QED
    BY <1>1, <2>1 DEF Frames, Hardware
<1>2. CASE e.op \in {"ApplyPlatformProfile", "ApplyChargeThreshold"}
  <2>1. g = h
    BY <1>2 DEF HalfWritten
  <2>2. QED
    BY <1>2, <2>1 DEF Frames
<1>3. CASE e.op = "ApplyFanCurve"
  <2>1. g \in {h} \cup {[h EXCEPT !.curve = c] : c \in Curve}
    BY <1>3 DEF HalfWritten
  <2>2. QED
    BY <1>3, <2>1 DEF Frames, Hardware
<1>4. CASE e.op = "ApplyGpuClockRange"
  <2>1. g \in {h} \cup {[h EXCEPT !.gpu = c] : c \in {None, Unmanaged, e.tier}}
    BY <1>4 DEF HalfWritten
  <2>2. QED
    BY <1>4, <2>1 DEF Frames, Hardware
<1>5. CASE e.op = "ResetFanCurve"
  <2>1. g \in {h, [h EXCEPT !.curve = None]}
    BY <1>5 DEF HalfWritten
  <2>2. QED
    BY <1>5, <2>1 DEF Frames, Hardware
<1>6. CASE e.op = "ResetGpuClocks"
  <2>1. g \in {h, [h EXCEPT !.gpu = Unmanaged]}
    BY <1>6 DEF HalfWritten
  <2>2. QED
    BY <1>6, <2>1 DEF Frames, Hardware
<1>7. QED
  BY <1>1, <1>2, <1>3, <1>4, <1>5, <1>6, EffectFields

\* An effect the backend has not got is owed to nobody.
LEMMA IgnoredTook ==
  ASSUME NEW h, NEW e \in Effect, ~(RequiredCapability(e) \subseteq Capability)
  PROVE  Frames(e, h, h) /\ Took(e, h, h) /\ e.op # "PersistState"
<1>1. CASE e.op = "ApplyPowerEnvelope" \/ e.op = "PersistState"
  BY <1>1 DEF RequiredCapability
<1>2. CASE e.op = "ApplyPlatformProfile"
  BY <1>2 DEF RequiredCapability, Frames, Took, TookEnvelope, TookProfile, TookCharge,
              TookCurve, TookGpu
<1>3. CASE e.op = "ApplyChargeThreshold"
  BY <1>3 DEF RequiredCapability, Frames, Took, TookEnvelope, TookProfile, TookCharge,
              TookCurve, TookGpu
<1>4. CASE e.op \in {"ApplyFanCurve", "ResetFanCurve"}
  <2>1. RequiredCapability(e) = {"curve"}
    BY <1>4 DEF RequiredCapability
  <2>2. QED
    BY <1>4, <2>1 DEF Frames, Took, TookEnvelope, TookProfile, TookCharge, TookCurve, TookGpu
<1>5. CASE e.op \in {"ApplyGpuClockRange", "ResetGpuClocks"}
  <2>1. RequiredCapability(e) = {"gpu"}
    BY <1>5 DEF RequiredCapability
  <2>2. QED
    BY <1>5, <2>1 DEF Frames, Took, TookEnvelope, TookProfile, TookCharge, TookCurve, TookGpu
<1>6. QED
  BY <1>1, <1>2, <1>3, <1>4, <1>5, EffectFields

\* What is owed once the first effect was dispatched.
LEMMA RestDue ==
  ASSUME NEW fx \in Seq(Effect), fx # <<>>, NEW s, NEW h, NEW g, Frames(Head(fx), h, g)
  PROVE  LET e == Head(fx)
             r == Tail(fx)
         IN  /\ TookEnvelope(e, h, g) /\ EnvelopeDue(fx, s, h) => EnvelopeDue(r, s, g)
             /\ TookEnvelope(e, h, g) /\ EnforceDue(fx, s, h) => EnforceDue(r, s, g)
             /\ TookProfile(e, g) /\ ProfileDue(fx, s, h) => ProfileDue(r, s, g)
             /\ TookCharge(e, g) /\ ChargeDue(fx, s, h) => ChargeDue(r, s, g)
             /\ TookCurve(e, g) /\ CurveDue(fx, s, h) => CurveDue(r, s, g)
             /\ TookCurve(e, g) /\ CurveOffDue(fx, s, h) => CurveOffDue(r, s, g)
             /\ TookGpu(e, g) /\ GpuDue(fx, s, h) => GpuDue(r, s, g)
             /\ TookGpu(e, g) /\ GpuOffDue(fx, s, h) => GpuOffDue(r, s, g)
<1> DEFINE e == Head(fx)
           r == Tail(fx)
<1>1. /\ \A ops : ~Has(fx, ops) => ~Has(r, ops) /\ e.op \notin ops
      /\ \A ops, d : Ends(fx, ops, d) => Ends(r, ops, d) \/ (e = d /\ ~Has(r, ops))
      /\ Frames(e, h, g)
  BY RestOfList
<1> HIDE DEF e, r
<1>2. TookEnvelope(e, h, g) /\ EnvelopeDue(fx, s, h) => EnvelopeDue(r, s, g)
  <2> SUFFICES ASSUME TookEnvelope(e, h, g), EnvelopeDue(fx, s, h) PROVE EnvelopeDue(r, s, g)
    OBVIOUS
  <2> DEFINE d == ApplyPowerEnvelope(s.power_target)
  <2>1. CASE ~Has(fx, EnvelopeOps)
    <3>1. WrittenEnvelope(h.envelope, s.power_target) = h.envelope
      BY <2>1 DEF EnvelopeDue, Ends, Has, EnvelopeOps, ApplyPowerEnvelope
    <3>2. QED
      BY <1>1, <2>1, <3>1 DEF EnvelopeDue, Frames
  <2>2. CASE Ends(r, EnvelopeOps, d)
    BY <2>2 DEF EnvelopeDue
  <2>3. CASE e = d /\ ~Has(r, EnvelopeOps)
    <3>1. e.op = "ApplyPowerEnvelope" /\ e.target = s.power_target
      BY <2>3 DEF ApplyPowerEnvelope
    <3>2. g.envelope = WrittenEnvelope(h.envelope, s.power_target)
      BY <3>1 DEF TookEnvelope
    <3>3. WrittenEnvelope(g.envelope, s.power_target) = g.envelope
      BY <3>2 DEF WrittenEnvelope
    <3>4. QED
      BY <2>3, <3>3 DEF EnvelopeDue
  <2>4. QED
    BY <1>1, <2>1, <2>2, <2>3 DEF EnvelopeDue
<1>3. TookEnvelope(e, h, g) /\ EnforceDue(fx, s, h) => EnforceDue(r, s, g)
  BY <1>1, EffectOps DEF EnforceDue, Frames, TookEnvelope
<1>4. TookProfile(e, g) /\ ProfileDue(fx, s, h) => ProfileDue(r, s, g)
  BY <1>1 DEF ProfileDue, Frames, TookProfile, ApplyPlatformProfile
<1>5. TookCharge(e, g) /\ ChargeDue(fx, s, h) => ChargeDue(r, s, g)
  BY <1>1 DEF ChargeDue, Frames, TookCharge, ApplyChargeThreshold
<1>6. TookCurve(e, g) /\ CurveDue(fx, s, h) => CurveDue(r, s, g)
  BY <1>1 DEF CurveDue, Frames, TookCurve, ApplyFanCurve
<1>7. TookCurve(e, g) /\ CurveOffDue(fx, s, h) => CurveOffDue(r, s, g)
  <2>1. ~Has(r, CurveOps) => ~Has(r, FanOps)
    BY OpSets DEF Has
  <2>2. QED
    BY <1>1, <2>1 DEF CurveOffDue, Frames, TookCurve, ResetFanCurveEffect
<1>8. TookGpu(e, g) /\ GpuDue(fx, s, h) => GpuDue(r, s, g)
  <2>1. s.active_gpu_clock \in Tier => s.active_gpu_clock # Unmanaged
    BY SelectionAssumption
  <2>2. QED
    BY <1>1, <2>1 DEF GpuDue, Frames, TookGpu, ApplyGpuClockRange
<1>9. TookGpu(e, g) /\ GpuOffDue(fx, s, h) => GpuOffDue(r, s, g)
  BY <1>1 DEF GpuOffDue, Frames, TookGpu, ResetGpuClocksEffect
<1>10. QED
  BY <1>2, <1>3, <1>4, <1>5, <1>6, <1>7, <1>8, <1>9 DEF e, r

LEMMA RestOrder ==
  ASSUME NEW fx \in Seq(Effect), fx # <<>>, NEW s, FanOrder(fx, s)
  PROVE  FanOrder(Tail(fx), s)
<1>1. Has(Tail(fx), FanOps) => Has(fx, FanOps)
  BY RestOfList
<1>2. Has(Tail(fx), FanOps) => Has(Tail(fx), CurveOps)
  BY OpSets DEF Has
<1>3. QED
  BY <1>1, <1>2, RestOfList DEF FanOrder

LEMMA RestRuns ==
  ASSUME NEW fx \in Seq(Effect), fx # <<>>, NEW h, NEW g, Frames(Head(fx), h, g),
         NEW t, SyncRuns(t, fx, h)
  PROVE  SyncRuns(t, Tail(fx), g)
<1>1. \A ops : ~Has(fx, ops) => ~Has(Tail(fx), ops) /\ Head(fx).op \notin ops
  BY RestOfList
<1>2. QED
  BY <1>1 DEF SyncRuns, Frames

-----------------------------------------------------------------------------
(* The rails of the device are whole watts.                                *)

Whole(w) == WrittenEnvelope(w, w) = w

LEMMA WholeWattsAgain ==
  ASSUME NEW mw \in Nat
  PROVE  WholeWatts(WholeWatts(mw)) = WholeWatts(mw)
<1> DEFINE w == AsWatts(mw)
<1>1. w \in Nat
  BY PowerAssumption DEF AsWatts
<1> HIDE DEF w
<1>2. AsWatts(FromWatts(w)) = w
  BY <1>1, PowerAssumption DEF AsWatts, FromWatts
<1>3. QED
  BY <1>2 DEF w, WholeWatts

LEMMA WholeRails ==
  ASSUME NEW w \in Envelope
  PROVE  Whole(w) <=> /\ WholeWatts(w.spl) = w.spl
                      /\ WholeWatts(w.sppt) = w.sppt
                      /\ w.fppt # NoFppt => WholeWatts(w.fppt) = w.fppt
<1> DEFINE f == IF w.fppt = NoFppt THEN w.fppt ELSE WholeWatts(w.fppt)
<1>1. WrittenEnvelope(w, w) = [spl |-> WholeWatts(w.spl), sppt |-> WholeWatts(w.sppt),
                               fppt |-> f]
  BY DEF WrittenEnvelope
<1>2. w = [spl |-> w.spl, sppt |-> w.sppt, fppt |-> w.fppt]
  BY DEF Envelope
<1> HIDE DEF f
<1>3. Whole(w) <=> WholeWatts(w.spl) = w.spl /\ WholeWatts(w.sppt) = w.sppt /\ f = w.fppt
  BY <1>1, <1>2 DEF Whole
<1>4. QED
  BY <1>3 DEF f

LEMMA WrittenWhole ==
  ASSUME NEW old \in Envelope, Whole(old), NEW e \in Envelope
  PROVE  LET w == WrittenEnvelope(old, e) IN
         /\ Whole(w)
         /\ Whole([old EXCEPT !.spl = w.spl])
         /\ e.fppt # NoFppt => Whole([old EXCEPT !.spl = w.spl, !.sppt = w.sppt])
<1> DEFINE w == WrittenEnvelope(old, e)
           a == [old EXCEPT !.spl = w.spl]
           b == [old EXCEPT !.spl = w.spl, !.sppt = w.sppt]
<1>1. /\ w \in Envelope
      /\ w.spl = WholeWatts(e.spl) /\ w.sppt = WholeWatts(e.sppt)
      /\ w.fppt = IF e.fppt = NoFppt THEN old.fppt ELSE WholeWatts(e.fppt)
  BY WrittenEnvelopeType DEF WrittenEnvelope
<1> HIDE DEF w
<1>2. /\ e.spl \in Nat /\ e.sppt \in Nat /\ e.fppt \in Nat \cup {NoFppt}
      /\ w.spl \in Nat /\ w.sppt \in Nat
  BY <1>1 DEF Envelope
<1>3. /\ WholeWatts(w.spl) = w.spl /\ WholeWatts(w.sppt) = w.sppt
      /\ e.fppt # NoFppt => WholeWatts(w.fppt) = w.fppt
      /\ e.fppt = NoFppt => w.fppt = old.fppt
  BY <1>1, <1>2, WholeWattsAgain
<1>4. /\ WholeWatts(old.spl) = old.spl /\ WholeWatts(old.sppt) = old.sppt
      /\ old.fppt # NoFppt => WholeWatts(old.fppt) = old.fppt
  BY WholeRails
<1>5. Whole(w)
  BY <1>1, <1>3, <1>4, WholeRails
<1>6. /\ a \in Envelope /\ a.spl = w.spl /\ a.sppt = old.sppt /\ a.fppt = old.fppt
      /\ b \in Envelope /\ b.spl = w.spl /\ b.sppt = w.sppt /\ b.fppt = old.fppt
  BY <1>2 DEF Envelope
<1> HIDE DEF a, b
<1>7. Whole(a) /\ Whole(b)
  BY <1>3, <1>4, <1>6, WholeRails
<1>8. QED
  BY <1>5, <1>7 DEF w, a, b

LEMMA DeviceWhole ==
  ASSUME NEW h \in Hardware, Whole(h.envelope), NEW e \in Effect, e.op # "PersistState",
         NEW g \in Written(h, e) \cup HalfWritten(h, e)
  PROVE  Whole(g.envelope)
<1>1. CASE e.op = "ApplyPowerEnvelope" /\ e.target \in Envelope
  <2> DEFINE w == WrittenEnvelope(h.envelope, e.target)
             a == [h.envelope EXCEPT !.spl = w.spl]
             b == [h.envelope EXCEPT !.spl = w.spl, !.sppt = w.sppt]
  <2>1. \/ g = h
        \/ g = [h EXCEPT !.envelope = w, !.enforced = TRUE]
        \/ g = [h EXCEPT !.envelope = a]
        \/ e.target.fppt # NoFppt /\ g = [h EXCEPT !.envelope = b]
    BY <1>1 DEF Written, HalfWritten
  <2>2. h.envelope \in Envelope
    BY HardwareFields
  <2>3. Whole(w) /\ Whole(a) /\ (e.target.fppt # NoFppt => Whole(b))
    BY <1>1, <2>2, WrittenWhole
  <2> HIDE DEF w, a, b
  <2>4. g.envelope \in {h.envelope, w, a} \/ (e.target.fppt # NoFppt /\ g.envelope = b)
    BY <2>1 DEF Hardware
  <2>5. QED
    BY <2>3, <2>4
<1>2. CASE e.op \notin EnvelopeOps
  BY <1>2, WrittenTook, HalfWrittenFrames DEF Frames
<1>3. CASE e.op = "ApplyPlatformProfile"
  <2>1. g \in {h, DropsControl([h EXCEPT !.profile = e.profile])}
    BY <1>3, HalfWrittenFrames DEF Written
  <2>2. g.envelope = h.envelope
    BY <2>1 DEF DropsControl, Hardware
  <2>3. QED
    BY <2>2
<1>4. QED
  BY <1>1, <1>2, <1>3, EffectFields, OpSets

-----------------------------------------------------------------------------
(* Rollbacks in the channel.                                               *)

LEMMA NoneQueued ==
  ASSUME NEW q
  PROVE  /\ Syncs(q) = {} => \A op \in SyncOps : ~Pending(q, op)
         /\ Syncs(q) = {} <=> \A i \in 1..Len(q) : q[i].op \notin SyncOps
         /\ Syncs(q) = {} => \A fx, h : SyncsLead(q, fx, h)
         /\ Syncs(<<>>) = {}
  BY DEF Syncs, IsSync, Pending, SyncsLead

LEMMA QueueRest ==
  ASSUME NEW q \in Seq(Transition), q # <<>>
  PROVE  LET r == Tail(q) IN
         /\ r \in Seq(Transition)
         /\ \A op : Pending(q, op) => Head(q).op = op \/ Pending(r, op)
         /\ Syncs(q) = {} => Syncs(r) = {} /\ ~IsSync(Head(q))
         /\ \A fx, h : SyncsLead(q, fx, h) =>
              /\ SyncsLead(r, fx, h)
              /\ IF IsSync(Head(q)) THEN SyncRuns(Head(q), fx, h) ELSE Syncs(q) = {}
<1> DEFINE r == Tail(q)
           n == Len(q)
<1>1. /\ n \in Nat \ {0} /\ Head(q) = q[1] /\ r \in Seq(Transition) /\ Len(r) = n - 1
      /\ \A i \in 1..Len(r) : r[i] = q[i + 1]
  OBVIOUS
<1> HIDE DEF r
<1>2. /\ 1 \in 1..n
      /\ \A i \in 1..Len(r) : i + 1 \in 1..n
      /\ \A i \in 1..n : i # 1 => i - 1 \in 1..Len(r) /\ r[i - 1] = q[i]
  <2>1. \A i \in 1..n : i # 1 => i - 1 \in 1..Len(r) /\ (i - 1) + 1 = i
    BY <1>1
  <2>2. QED
    BY <1>1, <2>1
<1>3. \A op : Pending(q, op) => Head(q).op = op \/ Pending(r, op)
  BY <1>1, <1>2 DEF Pending
<1>4. \A i \in 1..Len(r) : i \in Syncs(r) <=> i + 1 \in Syncs(q)
  BY <1>1, <1>2 DEF Syncs
<1>5. /\ Syncs(q) \subseteq 1..n /\ Syncs(r) \subseteq 1..Len(r)
      /\ 1 \in Syncs(q) <=> IsSync(Head(q))
  BY <1>1, <1>2 DEF Syncs
<1>6. Syncs(q) = {} => Syncs(r) = {} /\ ~IsSync(Head(q))
  BY <1>4, <1>5
<1>7. ASSUME NEW fx, NEW h, SyncsLead(q, fx, h)
      PROVE  /\ SyncsLead(r, fx, h)
             /\ IF IsSync(Head(q)) THEN SyncRuns(Head(q), fx, h) ELSE Syncs(q) = {}
  <2>1. \A i \in Syncs(q) : SyncRuns(q[i], fx, h) /\ 1..i \subseteq Syncs(q)
    BY <1>7 DEF SyncsLead
  <2>2. ASSUME NEW i \in Syncs(r) PROVE SyncRuns(r[i], fx, h) /\ 1..i \subseteq Syncs(r)
    <3>1. i \in 1..Len(r) /\ i + 1 \in Syncs(q) /\ r[i] = q[i + 1]
      BY <1>1, <1>4, <1>5
    <3>2. \A j \in 1..i : j + 1 \in 1..(i + 1) /\ j \in 1..Len(r)
      BY <1>1, <3>1
    <3>3. QED
      BY <1>4, <2>1, <3>1, <3>2
  <2>3. \A i \in Syncs(q) : 1 \in 1..i
    BY <1>1, <1>5
  <2>4. QED
    BY <1>1, <1>5, <2>1, <2>2, <2>3 DEF SyncsLead
<1>8. QED
  BY <1>1, <1>3, <1>6, <1>7 DEF r

LEMMA QueueMore ==
  ASSUME NEW q \in Seq(Transition), NEW t \in Transition
  PROVE  LET r == Append(q, t) IN
         /\ \A op : Pending(r, op) <=> Pending(q, op) \/ t.op = op
         /\ ~IsSync(t) => Syncs(r) = Syncs(q)
         /\ \A fx, h : ~IsSync(t) /\ SyncsLead(q, fx, h) => SyncsLead(r, fx, h)
         /\ \A fx, h : /\ SyncsLead(q, fx, h) /\ Syncs(q) = 1..Len(q)
                       /\ IsSync(t) /\ SyncRuns(t, fx, h)
                       => SyncsLead(r, fx, h)
<1> DEFINE r == Append(q, t)
           n == Len(q)
<1>1. /\ n \in Nat /\ Len(r) = n + 1 /\ r[n + 1] = t
      /\ \A i \in 1..n : r[i] = q[i]
  OBVIOUS
<1> HIDE DEF r
<1>2. /\ \A i \in 1..n : i \in 1..Len(r)
      /\ n + 1 \in 1..Len(r)
      /\ \A i \in 1..Len(r) : i \in 1..n \/ i = n + 1
  BY <1>1
<1>3. \A op : Pending(r, op) <=> Pending(q, op) \/ t.op = op
  BY <1>1, <1>2 DEF Pending
<1>4. n + 1 \notin 1..n
  BY <1>1
<1>5. /\ \A i \in 1..n : i \in Syncs(r) <=> i \in Syncs(q)
      /\ n + 1 \in Syncs(r) <=> IsSync(t)
      /\ Syncs(q) \subseteq 1..n /\ Syncs(r) \subseteq 1..Len(r)
  BY <1>1, <1>2 DEF Syncs
<1>6. ~IsSync(t) => Syncs(r) = Syncs(q)
  BY <1>2, <1>4, <1>5
<1>7. ASSUME NEW fx, NEW h, ~IsSync(t), SyncsLead(q, fx, h) PROVE SyncsLead(r, fx, h)
  BY <1>1, <1>5, <1>6, <1>7 DEF SyncsLead
<1>8. ASSUME NEW fx, NEW h, SyncsLead(q, fx, h), Syncs(q) = 1..n, IsSync(t),
             SyncRuns(t, fx, h)
      PROVE  SyncsLead(r, fx, h)
  <2>1. Syncs(r) = 1..Len(r)
    BY <1>2, <1>5, <1>8
  <2>2. \A i \in 1..Len(r) : 1..i \subseteq 1..Len(r)
    BY <1>1
  <2>3. \A i \in 1..Len(r) : SyncRuns(r[i], fx, h)
    BY <1>1, <1>2, <1>8 DEF SyncsLead
  <2>4. QED
    BY <2>1, <2>2, <2>3 DEF SyncsLead
<1>9. QED
  BY <1>3, <1>6, <1>7, <1>8 DEF r

-----------------------------------------------------------------------------
(* What a transition is owed.                                              *)

LEMMA DrivenDue ==
  ASSUME NEW q, Syncs(q) = {}, NEW fx, NEW s, NEW n, NEW h, Drives(fx, s, n), NEW r
  PROVE  /\ SetDue(q, <<>>, s, h) => SetDue(r, fx, n, h)
         /\ OffDue(q, <<>>, s, h) => OffDue(r, fx, n, h)
<1>1. \A op \in SyncOps : ~Pending(q, op)
  BY NoneQueued
<1>2. QED
  BY <1>1, DrivesDue DEF SetDue, OffDue, SyncOps

LEMMA SameDue ==
  ASSUME NEW fx, NEW s, NEW n, NEW h
  PROVE  /\ n.power_target = s.power_target /\ EnvelopeDue(fx, s, h) => EnvelopeDue(fx, n, h)
         /\ n.active_profile = s.active_profile /\ ProfileDue(fx, s, h) => ProfileDue(fx, n, h)
         /\ n.charge_end_threshold = s.charge_end_threshold /\ ChargeDue(fx, s, h)
              => ChargeDue(fx, n, h)
         /\ n.active_fan_curve = s.active_fan_curve /\ CurveDue(fx, s, h) => CurveDue(fx, n, h)
         /\ n.active_fan_curve = s.active_fan_curve /\ CurveOffDue(fx, s, h)
              => CurveOffDue(fx, n, h)
         /\ n.active_gpu_clock = s.active_gpu_clock /\ GpuDue(fx, s, h) => GpuDue(fx, n, h)
         /\ n.active_gpu_clock = s.active_gpu_clock /\ GpuOffDue(fx, s, h)
              => GpuOffDue(fx, n, h)
  BY DEF EnvelopeDue, ProfileDue, ChargeDue, CurveDue, CurveOffDue, GpuDue, GpuOffDue

\* A rollback is reported.
LEMMA SyncedDue ==
  ASSUME NEW q \in Seq(Transition), q # <<>>, NEW s \in ProfileState, NEW h,
         IsSync(Head(q)), SyncRuns(Head(q), <<>>, h), NEW n,
         SameReport(n, SyncState(s, Head(q)))
  PROVE  /\ SetDue(q, <<>>, s, h) => SetDue(Tail(q), <<>>, n, h)
         /\ OffDue(q, <<>>, s, h) => OffDue(Tail(q), <<>>, n, h)
<1> DEFINE t == Head(q)
           r == Tail(q)
<1>1. /\ t \in Transition /\ IsSync(t) /\ SyncRuns(t, <<>>, h)
      /\ SameReport(n, SyncState(s, t))
      /\ \A op : ~Pending(r, op) => t.op = op \/ ~Pending(q, op)
  BY QueueRest
<1>2. t \in Sync
  BY <1>1, OtherTransitions DEF IsSync, IsLockedWrite, LockedWriteOps, SyncOps
<1>3. \A ops : ~Has(<<>>, ops)
  BY EmptyList
<1> HIDE DEF t, r
<1>4. CASE t.op = "SyncPowerTarget"
  <2>1. /\ n.power_target = t.target /\ n.active_profile = s.active_profile
        /\ n.charge_end_threshold = s.charge_end_threshold
        /\ n.active_fan_curve = s.active_fan_curve
        /\ n.active_gpu_clock = s.active_gpu_clock
    BY <1>1, <1>4 DEF SyncState, SameReport, ProfileState
  <2>2. EnvelopeDue(<<>>, n, h)
    BY <1>1, <1>3, <1>4, <2>1 DEF SyncRuns, EnvelopeDue
  <2>3. QED
    BY <1>1, <1>4, <2>1, <2>2, SameDue DEF SetDue, OffDue, r
<1>5. CASE t.op = "SyncPlatformProfile"
  <2>1. /\ n.power_target = s.power_target /\ n.active_profile = t.profile
        /\ n.charge_end_threshold = s.charge_end_threshold
        /\ n.active_fan_curve = s.active_fan_curve
        /\ n.active_gpu_clock = s.active_gpu_clock
    BY <1>1, <1>5 DEF SyncState, SameReport, ProfileState
  <2>2. ProfileDue(<<>>, n, h)
    BY <1>1, <1>3, <1>5, <2>1 DEF SyncRuns, ProfileDue
  <2>3. QED
    BY <1>1, <1>5, <2>1, <2>2, SameDue DEF SetDue, OffDue, r
<1>6. CASE t.op = "SyncChargeThreshold"
  <2>1. /\ n.power_target = s.power_target /\ n.active_profile = s.active_profile
        /\ n.charge_end_threshold = t.charge
        /\ n.active_fan_curve = s.active_fan_curve
        /\ n.active_gpu_clock = s.active_gpu_clock
    BY <1>1, <1>6 DEF SyncState, SameReport, ProfileState
  <2>2. ChargeDue(<<>>, n, h)
    BY <1>1, <1>3, <1>6, <2>1 DEF SyncRuns, ChargeDue
  <2>3. QED
    BY <1>1, <1>6, <2>1, <2>2, SameDue DEF SetDue, OffDue, r
<1>7. CASE t.op = "SyncFanCurve"
  <2>1. /\ n.power_target = s.power_target /\ n.active_profile = s.active_profile
        /\ n.charge_end_threshold = s.charge_end_threshold
        /\ n.active_fan_curve = t.curve
        /\ n.active_gpu_clock = s.active_gpu_clock
    BY <1>1, <1>7 DEF SyncState, SameReport, ProfileState
  <2>2. CurveDue(<<>>, n, h) /\ CurveOffDue(<<>>, n, h)
    BY <1>1, <1>3, <1>7, <2>1 DEF SyncRuns, CurveDue, CurveOffDue
  <2>3. QED
    BY <1>1, <1>7, <2>1, <2>2, SameDue DEF SetDue, OffDue, r
<1>8. CASE t.op = "SyncGpuClockRange"
  <2>1. /\ n.power_target = s.power_target /\ n.active_profile = s.active_profile
        /\ n.charge_end_threshold = s.charge_end_threshold
        /\ n.active_fan_curve = s.active_fan_curve
        /\ n.active_gpu_clock = t.gpu
    BY <1>1, <1>8 DEF SyncState, SameReport, ProfileState
  <2>2. t.gpu \in {Unmanaged, None}
    BY <1>2, <1>8 DEF Sync
  <2>3. GpuDue(<<>>, n, h) /\ GpuOffDue(<<>>, n, h)
    BY <1>1, <1>3, <1>8, <2>1, <2>2 DEF SyncRuns, GpuDue, GpuOffDue
  <2>4. QED
    BY <1>1, <1>8, <2>1, <2>3, SameDue DEF SetDue, OffDue, r
<1>9. QED
  BY <1>1, <1>4, <1>5, <1>6, <1>7, <1>8 DEF t, r, IsSync, SyncOps

-----------------------------------------------------------------------------
(* The executor receives.                                                  *)

\* A transition that is no rollback leads from what was owed to what is.
LEMMA DrivenKeepsDue ==
  ASSUME TypeOK, LockInv, ConvergeInv, Receive, ~IsSync(Head(queue)),
         Drives(effects', state, state'), phase' # "off",
         UNCHANGED <<hw, asserted, faults, spent>>
  PROVE  DeviceDue'
<1>1. /\ queue \in Seq(Transition) /\ queue # <<>> /\ queue' = Tail(queue)
      /\ Up /\ effects = <<>>
  BY DEF TypeOK, Receive, Idle, Up
<1>2. /\ asserted \in {"all", "rolled"} => SetDue(queue, <<>>, state, hw)
      /\ asserted = "all" => EnforceDue(<<>>, state, hw) /\ Syncs(queue) = {}
      /\ asserted = "rolled" => SyncsLead(queue, <<>>, hw)
      /\ Clean => OffDue(queue, <<>>, state, hw)
  BY <1>1 DEF ConvergeInv, DeviceDue
<1>3. asserted = "rolled" => Syncs(queue) = {}
  BY <1>1, <1>2, QueueRest
<1>4. faults = 0 => Syncs(queue) = {}
  BY NoneQueued DEF LockInv, NoSyncQueued
<1>5. Clean => Syncs(queue) = {}
  BY <1>3, <1>4 DEF Clean
<1>6. Syncs(queue) = {} => Syncs(queue') = {}
  BY <1>1, QueueRest
<1>7. FanOrder(effects', state')
  BY DrivesDue
<1>8. asserted \in {"all", "rolled"} => SetDue(queue', effects', state', hw)
  BY <1>2, <1>3, DrivenDue
<1>9. asserted = "all" => EnforceDue(effects', state', hw) /\ Syncs(queue') = {}
  BY <1>2, <1>6, DrivesDue
<1>10. asserted = "rolled" => SyncsLead(queue', effects', hw)
  BY <1>3, <1>6, NoneQueued
<1>11. Clean => OffDue(queue', effects', state', hw)
  BY <1>2, <1>5, DrivenDue
<1>12. Clean' <=> Clean
  BY DEF Clean
<1>13. QED
  BY <1>7, <1>8, <1>9, <1>10, <1>11, <1>12 DEF DeviceDue

LEMMA PublishedDrives ==
  ASSUME NEW s \in ProfileState, NEW o, Leads(o, s),
         NEW n, n = IF o.ok THEN [o.new_state EXCEPT !.ac_locked = Locked(o.new_state)] ELSE s
  PROVE  Drives(o.effects, s, n)
<1>1. CASE o.ok
  <2>1. o.new_state \in ProfileState /\ Drives(o.effects, s, o.new_state)
    BY <1>1 DEF Leads, OutputOK
  <2>2. SameReport(n, o.new_state) /\ SameReport(s, s)
    BY <1>1, <2>1, FlagsReport
  <2>3. QED
    BY <2>1, <2>2, SameReportDrives
<1>2. CASE ~o.ok
  BY <1>2, NothingDrives DEF Leads
<1>3. QED
  BY <1>1, <1>2

LEMMA ReduceTransitionDue ==
  ASSUME TypeOK, LockInv, ConvergeInv, ReduceTransition, UNCHANGED <<asserted, spent>>
  PROVE  DeviceDue'
<1> DEFINE t == Head(queue)
           o == Reduce(state, t, limits, config)
<1>1. /\ Receive /\ phase = "running" /\ queue # <<>> /\ queue' = Tail(queue)
      /\ effects = <<>> /\ queue \in Seq(Transition)
      /\ t.op \notin {"ConfigReload", "SystemResumed"}
      /\ UNCHANGED <<hw, faults>>
  BY DEF ReduceTransition, Receive, Idle, TypeOK
<1>2. /\ t \in Transition /\ state \in ProfileState /\ limits \in Limits /\ config \in Config
  BY <1>1 DEF TypeOK
<1>3. /\ state' = IF o.ok THEN [o.new_state EXCEPT !.ac_locked = Locked(o.new_state)]
                  ELSE state
      /\ effects' = o.effects
      /\ phase' # "off"
  BY <1>1 DEF ReduceTransition, ReduceWith
<1>4. CASE ~IsSync(t)
  <2>1. Leads(o, state)
    BY <1>1, <1>2, <1>4, ReduceLeads DEF IsSync
  <2> HIDE DEF o
  <2>2. Drives(effects', state, state')
    BY <1>2, <1>3, <2>1, PublishedDrives
  <2>3. QED
    BY <1>1, <1>3, <1>4, <2>2, DrivenKeepsDue
<1>5. CASE IsSync(t)
  <2>1. o = Output(SyncState(state, t), <<>>)
    BY <1>2, <1>5, ReduceArms DEF IsSync
  <2>2. o.ok /\ o.new_state = SyncState(state, t) /\ o.effects = <<>> /\ OutputOK(o)
    BY <1>2, <2>1, ReduceType DEF Output
  <2>3. SyncState(state, t) \in ProfileState /\ effects' = <<>>
    BY <1>3, <2>2 DEF OutputOK
  <2> DEFINE n == SyncState(state, t)
  <2>4. state' = [n EXCEPT !.ac_locked = Locked(n)]
    BY <1>3, <2>2
  <2>5. SameReport(state', n)
    <3> HIDE DEF n
    <3>1. QED
      BY <2>3, <2>4, FlagsReport DEF n
  <2>6. /\ asserted \in {"all", "rolled"} => SetDue(queue, <<>>, state, hw)
        /\ asserted = "all" => Syncs(queue) = {}
        /\ asserted = "rolled" => SyncsLead(queue, <<>>, hw)
        /\ Clean => OffDue(queue, <<>>, state, hw)
    BY <1>1 DEF ConvergeInv, DeviceDue, Up
  <2>7. Syncs(queue) # {}
    BY <1>1, <1>5, QueueRest
  <2>8. asserted # "all" /\ faults # 0
    BY <2>6, <2>7, NoneQueued DEF LockInv, NoSyncQueued
  <2>9. asserted = "rolled" => /\ SyncsLead(queue', <<>>, hw)
                               /\ SyncRuns(t, <<>>, hw)
    BY <1>1, <1>5, <2>6, QueueRest
  <2>10. asserted = "rolled" =>
           /\ SetDue(queue', <<>>, state', hw)
           /\ Clean => OffDue(queue', <<>>, state', hw)
    BY <1>1, <1>2, <1>5, <2>5, <2>6, <2>9, SyncedDue
  <2>11. FanOrder(<<>>, state')
    BY EmptyList DEF FanOrder
  <2>12. Clean' => Clean /\ asserted = "rolled"
    BY <1>1, <2>8 DEF Clean
  <2>13. QED
    BY <1>1, <2>3, <2>8, <2>9, <2>10, <2>11, <2>12 DEF DeviceDue
<1>6. QED
  BY <1>4, <1>5

LEMMA ReloadConfigDue ==
  ASSUME TypeOK, LockInv, ConvergeInv, ReloadConfig, UNCHANGED <<asserted, spent>>
  PROVE  DeviceDue'
<1>1. /\ Receive /\ phase' # "off" /\ effects = <<>> /\ ~IsSync(Head(queue))
      /\ UNCHANGED <<state, effects, hw, faults>>
  BY DEF ReloadConfig, Receive, Idle, IsSync, SyncOps
<1>2. Drives(effects', state, state')
  BY <1>1, NothingDrives
<1>3. QED
  BY <1>1, <1>2, DrivenKeepsDue

\* A resume accepts; what it gives is of the state with the charger re-read.
LEMMA ResumedAs ==
  ASSUME TypeOK, ReduceResumed
  PROVE  \E b \in BOOLEAN, missed \in SUBSET {"ac", "limits"} :
           LET s == [state EXCEPT !.is_ac_connected = b]
               o == SystemResumed(s, limits', config)
           IN  /\ s \in ProfileState /\ limits' \in {limits, hw.limits}
               /\ limits' \in Limits
               /\ IF missed = {} THEN UNCHANGED faults ELSE Fault
               /\ state' = [o.new_state EXCEPT !.ac_locked = Locked(o.new_state)]
               /\ effects' = o.effects
               /\ state'.is_ac_connected = b
<1>1. PICK missed \in SUBSET {"ac", "limits"} :
        LET ac_known == "charge" \in Capability /\ "ac" \notin missed IN
        /\ IF missed = {} THEN UNCHANGED faults ELSE Fault
        /\ limits' = IF "limits" \in missed THEN limits ELSE hw.limits
        /\ ReduceWith([state EXCEPT !.is_ac_connected = IF ac_known THEN ac ELSE @],
                      Head(queue), limits')
  BY DEF ReduceResumed
<1> DEFINE b == IF "charge" \in Capability /\ "ac" \notin missed THEN ac
                ELSE state.is_ac_connected
           s == [state EXCEPT !.is_ac_connected = b]
           o == SystemResumed(s, limits', config)
           n == o.new_state
<1>2. /\ state \in ProfileState /\ hw.limits \in Limits /\ ac \in BOOLEAN
      /\ state.is_ac_connected \in BOOLEAN /\ limits \in Limits /\ config \in Config
  BY HardwareFields, StateFields DEF TypeOK
<1>3. b \in BOOLEAN /\ limits' \in Limits /\ limits' \in {limits, hw.limits}
  BY <1>1, <1>2
<1>4. s \in ProfileState /\ s.is_ac_connected = b
  BY <1>2, <1>3, WithAc
<1>5. ReduceWith(s, Head(queue), limits')
  BY <1>1
<1> HIDE DEF b, s
<1>6. Reduce(s, Head(queue), limits', config) = o
  BY ReduceArms DEF ReduceResumed
<1>7. o.ok /\ OutputOK(o)
  BY <1>2, <1>3, <1>4, SystemResumedType, ResumeAccepted
<1>8. state' = [n EXCEPT !.ac_locked = Locked(n)] /\ effects' = o.effects
  BY <1>5, <1>6, <1>7 DEF ReduceWith
<1>9. n.is_ac_connected = s.is_ac_connected
  <2>1. CASE Locked(s)
    <3>1. n = ForceAcMaxPerformance(s, limits', config).new_state
      BY <2>1 DEF SystemResumed, Output, Locked
    <3>2. QED
      BY <1>2, <1>3, <1>4, <3>1, ForcePins DEF SameLock
  <2>2. CASE ~Locked(s) /\ s.last_dc_state # None
    <3>1. n = RestoreDcState(s, s.last_dc_state).new_state /\ s.last_dc_state \in DcSnapshot
      BY <1>4, <2>2, StateFields DEF SystemResumed, Output, Locked
    <3>2. QED
      BY <1>4, <3>1, RestoreConsumes
  <2>3. CASE ~Locked(s) /\ s.last_dc_state = None
    <3>1. o = ReassertAll(s)
      BY <2>3 DEF SystemResumed, Locked
    <3>2. QED
      BY <1>4, <3>1 DEF ReassertAll, Output, ProfileState
  <2>4. QED
    BY <2>1, <2>2, <2>3
<1>10. n \in ProfileState
  BY <1>7 DEF OutputOK
<1> HIDE DEF n
<1>11. state'.is_ac_connected = b
  BY <1>4, <1>8, <1>9, <1>10 DEF ProfileState
<1>12. QED
  BY <1>1, <1>3, <1>4, <1>8, <1>11 DEF n, s

LEMMA ReduceResumedDue ==
  ASSUME TypeOK, LockInv, ConvergeInv, ReduceResumed, asserted' = AfterResume,
         UNCHANGED spent
  PROVE  DeviceDue'
<1>1. PICK b \in BOOLEAN, missed \in SUBSET {"ac", "limits"} :
        LET s == [state EXCEPT !.is_ac_connected = b]
            o == SystemResumed(s, limits', config)
        IN  /\ s \in ProfileState /\ limits' \in {limits, hw.limits}
            /\ limits' \in Limits
            /\ IF missed = {} THEN UNCHANGED faults ELSE Fault
            /\ state' = [o.new_state EXCEPT !.ac_locked = Locked(o.new_state)]
            /\ effects' = o.effects
            /\ state'.is_ac_connected = b
  BY ResumedAs
<1> DEFINE s == [state EXCEPT !.is_ac_connected = b]
           o == SystemResumed(s, limits', config)
           n == o.new_state
<1>2. /\ s \in ProfileState /\ limits' \in Limits /\ config \in Config
      /\ state' = [n EXCEPT !.ac_locked = Locked(n)] /\ effects' = o.effects
      /\ SameReport(s, state)
      /\ s = [state EXCEPT !.is_ac_connected = state'.is_ac_connected]
  BY <1>1, FlagsReport DEF TypeOK
<1>3. /\ phase # "off" /\ effects = <<>> /\ UNCHANGED hw
      /\ queue # <<>> /\ queue \in Seq(Transition) /\ queue' = Tail(queue)
  BY DEF ReduceResumed, Receive, Idle, TypeOK
<1>4. faults' = 0 => faults = 0
  BY <1>1 DEF Fault, Faults, TypeOK
<1>5. AfterResume = IF Syncs(queue') # {} THEN "overtaken"
                    ELSE IF RewritesAll(s) THEN "all" ELSE "changed"
  BY <1>2 DEF AfterResume
<1> HIDE DEF s
<1>6. Leads(o, s) /\ o.ok /\ (RewritesAll(s) => Asserts(o.effects, n))
  BY <1>2, SystemResumedLeads
<1>7. n \in ProfileState
  BY <1>6 DEF Leads, OutputOK
<1> HIDE DEF o
<1>8. SameReport(state', n)
  <2> HIDE DEF n
  <2>1. QED
    BY <1>2, <1>7, FlagsReport
<1>9. Drives(effects', s, n)
  BY <1>2, <1>6 DEF Leads
<1> HIDE DEF n
<1>10. SameReport(state, s)
  BY <1>2 DEF SameReport
<1>11. Drives(effects', state, state')
  BY <1>8, <1>9, <1>10, SameReportDrives
<1>12. RewritesAll(s) => Asserts(effects', state')
  BY <1>2, <1>6, <1>8, SameReportAsserts DEF n
<1>13. asserted' = "all" => Syncs(queue') = {} /\ Asserts(effects', state')
  BY <1>5, <1>12
<1>14. asserted' # "rolled"
  BY <1>5
<1>15. asserted' = "all" => SetDue(queue', effects', state', hw) /\ EnforceDue(effects', state', hw)
  BY <1>13, AssertsDue DEF SetDue
<1>16. FanOrder(effects', state')
  BY <1>11, DrivesDue
<1>17. Clean' => OffDue(queue', effects', state', hw)
  <2>1. SUFFICES ASSUME Clean' PROVE OffDue(queue', effects', state', hw)
    OBVIOUS
  <2>2. faults = 0 /\ spent.crashes = 0
    BY <1>4, <1>14, <2>1 DEF Clean
  <2>3. OffDue(queue, <<>>, state, hw)
    BY <1>3, <2>2 DEF ConvergeInv, DeviceDue, Clean, Up
  <2>4. Syncs(queue) = {}
    BY <2>2, NoneQueued DEF LockInv, NoSyncQueued
  <2>5. QED
    BY <1>11, <2>3, <2>4, DrivenDue
<1>18. QED
  BY <1>3, <1>13, <1>14, <1>15, <1>16, <1>17 DEF DeviceDue

-----------------------------------------------------------------------------
(* The executor dispatches.                                                *)

\* An effect that succeeded, was ignored, or was saved.
LEMMA TakenDue ==
  ASSUME TypeOK, ConvergeInv, Dispatch, Frames(Current, hw, hw'), Took(Current, hw, hw'),
         UNCHANGED <<state, queue, phase, faults, asserted, spent>>
  PROVE  DeviceDue'
<1>1. /\ effects \in Seq(Effect) /\ effects # <<>> /\ effects' = Tail(effects) /\ Up
  BY DEF TypeOK, Dispatch, Up
<1>2. Took(Head(effects), hw, hw') /\ Frames(Head(effects), hw, hw')
  BY DEF Current
<1>3. SetDue(queue, effects, state, hw) => SetDue(queue, Tail(effects), state, hw')
  BY <1>1, <1>2, RestDue DEF SetDue, Took
<1>4. OffDue(queue, effects, state, hw) => OffDue(queue, Tail(effects), state, hw')
  BY <1>1, <1>2, RestDue DEF OffDue, Took
<1>5. EnforceDue(effects, state, hw) => EnforceDue(Tail(effects), state, hw')
  BY <1>1, <1>2, RestDue DEF Took
<1>6. SyncsLead(queue, effects, hw) => SyncsLead(queue, Tail(effects), hw')
  BY <1>1, <1>2, RestRuns DEF SyncsLead
<1>7. FanOrder(effects, state) => FanOrder(Tail(effects), state)
  BY <1>1, RestOrder
<1>8. Clean' <=> Clean
  BY DEF Clean
<1>9. QED
  BY <1>1, <1>3, <1>4, <1>5, <1>6, <1>7, <1>8 DEF ConvergeInv, DeviceDue

LEMMA ApplyEffectDue ==
  ASSUME TypeOK, ConvergeInv, ApplyEffect, UNCHANGED <<asserted, spent>>
  PROVE  DeviceDue'
<1>1. /\ Dispatch /\ Current \in Effect /\ Current.op # "PersistState"
      /\ hw' \in Written(hw, Current) /\ hw \in Hardware
      /\ UNCHANGED <<state, queue, phase, faults>>
  BY DispatchTypes DEF ApplyEffect, TypeOK
<1>2. Frames(Current, hw, hw') /\ Took(Current, hw, hw')
  BY <1>1, WrittenTook
<1>3. QED
  BY <1>1, <1>2, TakenDue

LEMMA IgnoreEffectDue ==
  ASSUME TypeOK, ConvergeInv, IgnoreEffect, UNCHANGED <<asserted, spent>>
  PROVE  DeviceDue'
<1>1. /\ Dispatch /\ Current \in Effect
      /\ ~(RequiredCapability(Current) \subseteq Capability)
      /\ hw' = hw /\ UNCHANGED <<state, queue, phase, faults>>
  BY DispatchTypes DEF IgnoreEffect, TypeOK, Supported
<1>2. Frames(Current, hw, hw') /\ Took(Current, hw, hw')
  BY <1>1, IgnoredTook
<1>3. QED
  BY <1>1, <1>2, TakenDue

\* A failure that sends no rollback leaves nothing owed.
LEMMA FailedDue ==
  ASSUME TypeOK, ConvergeInv, Dispatch, UNCHANGED state,
         asserted' \in {"none", "overtaken"}, faults' > faults
  PROVE  DeviceDue'
<1>1. /\ effects \in Seq(Effect) /\ effects # <<>> /\ effects' = Tail(effects)
      /\ FanOrder(effects, state) /\ faults' # 0
  BY DEF TypeOK, Dispatch, ConvergeInv, DeviceDue, Up
<1>2. ~Clean'
  BY <1>1 DEF Clean
<1>3. QED
  BY <1>1, <1>2, RestOrder DEF DeviceDue

LEMMA PersistDue ==
  ASSUME TypeOK, ConvergeInv, Persist, UNCHANGED spent,
         asserted' = IF faults' # faults THEN AfterFault ELSE asserted
  PROVE  DeviceDue'
<1>1. Dispatch /\ UNCHANGED <<state, queue, phase, hw>> /\ Current.op = "PersistState"
  BY DEF Persist
<1>2. CASE UNCHANGED faults
  <2>1. Frames(Current, hw, hw') /\ Took(Current, hw, hw')
    BY <1>1, OpSets DEF Frames, Took, TookEnvelope, TookProfile, TookCharge, TookCurve, TookGpu
  <2>2. QED
    BY <1>1, <1>2, <2>1, TakenDue
<1>3. CASE Fault
  <2>1. faults' > faults
    BY <1>3 DEF Fault, Faults, TypeOK
  <2>2. asserted' = "none"
    BY <1>1, <2>1 DEF AfterFault, TypeOK
  <2>3. QED
    BY <1>1, <2>1, <2>2, FailedDue
<1>4. QED
  BY <1>2, <1>3 DEF Persist

LEMMA SkipGpuRangeDue ==
  ASSUME TypeOK, ConvergeInv, SkipGpuRange, UNCHANGED spent,
         asserted' = IF faults' # faults THEN AfterFault ELSE asserted
  PROVE  DeviceDue'
<1>1. Dispatch /\ UNCHANGED <<state, queue>> /\ faults' > faults
  BY DEF SkipGpuRange, Fault, Faults, TypeOK
<1>2. asserted' = "none"
  BY <1>1 DEF AfterFault, TypeOK
<1>3. QED
  BY <1>1, <1>2, FailedDue

\* What the effects that need no capability, or the same one, have in common.
Kinds == {{"ApplyPowerEnvelope"}, ProfileOps, ChargeOps, FanOps, GpuOps}

LEMMA NotRetried ==
  ASSUME ~Retried, effects' \in Seq(Effect), NEW kind \in Kinds, Current.op \in kind
  PROVE  ~Has(effects', kind)
<1>1. \A d : d.op \in kind =>
        d.op # "PersistState" /\ RequiredCapability(d) = RequiredCapability(Current)
  BY OpSets DEF Kinds, RequiredCapability
<1>2. DOMAIN effects' = 1..Len(effects')
  OBVIOUS
<1>3. QED
  BY <1>1, <1>2 DEF Retried, Has

\* The last write of a part is a write of the part.
LEMMA EndsHas ==
  ASSUME NEW fx, NEW ops, NEW e, Ends(fx, ops, e), NEW kind, e.op \in kind
  PROVE  Has(fx, kind)
  BY DEF Ends, Has

\* Nothing that is still to be dispatched touches what just failed.
LEMMA FailedLast ==
  ASSUME NEW fx \in Seq(Effect), fx # <<>>, NEW s, NEW h,
         NEW kind \in Kinds, Head(fx).op \in kind, ~Has(Tail(fx), kind),
         Head(fx).op \in EnvelopeOps => EnvelopeDue(fx, s, h),
         Head(fx).op \in FanOps /\ "curve" \in Capability => CurveDue(fx, s, h),
         FanOrder(fx, s), RequiredCapability(Head(fx)) \subseteq Capability
  PROVE  /\ Head(fx).op = "ApplyPowerEnvelope" => ~Has(Tail(fx), EnvelopeOps)
         /\ Head(fx).op = "ApplyPlatformProfile" => ~Has(Tail(fx), ProfileOps)
         /\ Head(fx).op = "ApplyChargeThreshold" => ~Has(Tail(fx), ChargeOps)
         /\ Head(fx).op \in FanOps => ~Has(Tail(fx), CurveOps)
         /\ Head(fx).op \in GpuOps => ~Has(Tail(fx), GpuOps)
<1> DEFINE e == Head(fx)
           r == Tail(fx)
<1>1. /\ \A ops : ~Has(fx, ops) => e.op \notin ops
      /\ \A ops, d : Ends(fx, ops, d) => Ends(r, ops, d) \/ ~Has(r, ops)
      /\ e.op \in kind /\ ~Has(r, kind)
      /\ RequiredCapability(e) \subseteq Capability
      /\ e.op \in EnvelopeOps => EnvelopeDue(fx, s, h)
      /\ e.op \in FanOps /\ "curve" \in Capability => CurveDue(fx, s, h)
  BY RestOfList
<1> HIDE DEF e, r
<1>2. /\ e.op = "ApplyPowerEnvelope" => kind = {"ApplyPowerEnvelope"}
      /\ e.op = "ApplyPlatformProfile" => kind = ProfileOps
      /\ e.op = "ApplyChargeThreshold" => kind = ChargeOps
      /\ e.op \in FanOps => kind = FanOps
      /\ e.op \in GpuOps => kind = GpuOps
  BY <1>1, OpSets DEF Kinds
<1>3. e.op = "ApplyPowerEnvelope" => ~Has(r, EnvelopeOps)
  <2> SUFFICES ASSUME e.op = "ApplyPowerEnvelope" PROVE ~Has(r, EnvelopeOps)
    OBVIOUS
  <2> DEFINE d == ApplyPowerEnvelope(s.power_target)
  <2>1. Ends(fx, EnvelopeOps, d)
    BY <1>1, OpSets DEF EnvelopeDue
  <2>2. d.op \in kind
    BY <1>2, EffectOps
  <2> HIDE DEF d
  <2>3. ~Ends(r, EnvelopeOps, d)
    BY <1>1, <2>2, EndsHas
  <2>4. QED
    BY <1>1, <2>1, <2>3
<1>4. e.op \in FanOps => ~Has(r, CurveOps)
  <2> SUFFICES ASSUME e.op \in FanOps PROVE ~Has(r, CurveOps)
    OBVIOUS
  <2> DEFINE d == IF s.active_fan_curve # None THEN ApplyFanCurve(s.active_fan_curve)
                  ELSE ResetFanCurveEffect
  <2>1. "curve" \in Capability /\ e.op \in CurveOps
    BY <1>1, OpSets DEF RequiredCapability
  <2>2. Ends(fx, CurveOps, d)
    BY <1>1, <2>1 DEF CurveDue, FanOrder
  <2>3. d.op \in kind
    BY <1>2, EffectOps, OpSets
  <2> HIDE DEF d
  <2>4. ~Ends(r, CurveOps, d)
    BY <1>1, <2>3, EndsHas
  <2>5. QED
    BY <1>1, <2>2, <2>4
<1>5. QED
  BY <1>1, <1>2, <1>3, <1>4 DEF e, r

\* The rollback of e covers the part e writes.
LEMMA CoveredBySync ==
  ASSUME NEW e \in Effect, e.op # "PersistState", NEW h, NEW g
  PROVE  LET t == SyncOf(g, e) IN
         /\ t.op # "SyncPowerTarget" => TookEnvelope(e, h, g)
         /\ t.op # "SyncPlatformProfile" => TookProfile(e, g)
         /\ t.op # "SyncChargeThreshold" => TookCharge(e, g)
         /\ t.op # "SyncFanCurve" => TookCurve(e, g)
         /\ t.op # "SyncGpuClockRange" => TookGpu(e, g)
<1>1. /\ e.op = "ApplyPowerEnvelope" => SyncOf(g, e).op = "SyncPowerTarget"
      /\ e.op = "ApplyPlatformProfile" => SyncOf(g, e).op = "SyncPlatformProfile"
      /\ e.op = "ApplyChargeThreshold" => SyncOf(g, e).op = "SyncChargeThreshold"
      /\ e.op \in {"ApplyFanCurve", "ResetFanCurve"} => SyncOf(g, e).op = "SyncFanCurve"
      /\ e.op \in {"ApplyGpuClockRange", "ResetGpuClocks"} =>
           SyncOf(g, e).op = "SyncGpuClockRange"
  BY DEF SyncOf
<1>2. QED
  BY <1>1 DEF TookEnvelope, TookProfile, TookCharge, TookCurve, TookGpu

\* What is read back right after the failure is what the device will run.
LEMMA ReadBackRuns ==
  ASSUME NEW e \in Effect, e.op # "PersistState", NEW r, NEW g, Whole(g.envelope),
         /\ e.op = "ApplyPowerEnvelope" => ~Has(r, EnvelopeOps)
         /\ e.op = "ApplyPlatformProfile" => ~Has(r, ProfileOps)
         /\ e.op = "ApplyChargeThreshold" => ~Has(r, ChargeOps)
         /\ e.op \in FanOps => ~Has(r, CurveOps)
         /\ e.op \in GpuOps => ~Has(r, GpuOps)
  PROVE  SyncRuns(SyncOf(g, e), r, g)
<1>1. CASE e.op = "ApplyPowerEnvelope"
  <2>1. SyncOf(g, e) = [op |-> "SyncPowerTarget", target |-> g.envelope]
    BY <1>1 DEF SyncOf
  <2>2. QED
    BY <1>1, <2>1 DEF SyncRuns, Whole
<1>2. CASE e.op = "ApplyPlatformProfile"
  <2>1. SyncOf(g, e) = [op |-> "SyncPlatformProfile", profile |-> g.profile]
    BY <1>2 DEF SyncOf
  <2>2. QED
    BY <1>2, <2>1 DEF SyncRuns
<1>3. CASE e.op = "ApplyChargeThreshold"
  <2>1. SyncOf(g, e) = [op |-> "SyncChargeThreshold", charge |-> g.charge]
    BY <1>3 DEF SyncOf
  <2>2. QED
    BY <1>3, <2>1 DEF SyncRuns
<1>4. CASE e.op \in FanOps
  <2>1. SyncOf(g, e) = [op |-> "SyncFanCurve", curve |-> g.curve]
    BY <1>4, OpSets DEF SyncOf
  <2>2. QED
    BY <1>4, <2>1 DEF SyncRuns
<1>5. CASE e.op \in GpuOps
  <2>1. SyncOf(g, e)
          = [op |-> "SyncGpuClockRange", gpu |-> IF g.gpu = None THEN None ELSE Unmanaged]
    BY <1>5, OpSets DEF SyncOf
  <2>2. None # Unmanaged
    BY SelectionAssumption DEF GpuClock
  <2>3. QED
    BY <1>5, <2>1, <2>2 DEF SyncRuns
<1>6. QED
  BY <1>1, <1>2, <1>3, <1>4, <1>5, EffectFields, OpSets

\* The rollback is next in line: whatever the part, it is covered.
LEMMA RolledDue ==
  ASSUME TypeOK, ConvergeInv, FailEffect, UNCHANGED spent, asserted' = AfterFault,
         asserted' = "rolled"
  PROVE  DeviceDue'
<1> DEFINE e == Current
           r == Tail(effects)
           t == SyncOf(hw', e)
<1>1. /\ effects \in Seq(Effect) /\ effects # <<>> /\ effects' = r /\ Up
      /\ e \in Effect /\ e = Head(effects) /\ r \in Seq(Effect)
      /\ e.op # "PersistState" /\ RequiredCapability(e) \subseteq Capability
      /\ hw \in Hardware /\ queue \in Seq(Transition)
      /\ hw' \in HalfWritten(hw, e) /\ UNCHANGED state
  BY DispatchTypes DEF FailEffect, Dispatch, TypeOK, Up, Current, Supported
<1>2. /\ Len(queue') # Len(queue)
      /\ asserted \in {"all", "rolled"}
      /\ Syncs(queue) = 1..Len(queue)
      /\ ~Retried
  BY DEF AfterFault, TypeOK
<1>3. queue' = Append(queue, t) /\ faults' = faults + 1
  BY <1>2 DEF FailEffect, Faults
<1>4. Frames(e, hw, hw') /\ hw' \in Hardware /\ Whole(hw'.envelope)
  BY <1>1, HalfWrittenFrames, HalfWrittenTypes, DeviceWhole DEF ConvergeInv, Sound, Whole
<1>5. t \in Transition /\ IsSync(t)
  <2>1. t \in Sync
    BY <1>1, <1>4, SyncOfTypes
  <2>2. QED
    BY <2>1 DEF Transition, Sync, IsSync, SyncOps
<1>6. /\ FanOrder(effects, state) /\ SetDue(queue, effects, state, hw)
      /\ asserted = "all" => Syncs(queue) = {}
      /\ asserted = "rolled" => SyncsLead(queue, effects, hw)
      /\ Clean => OffDue(queue, effects, state, hw)
  BY <1>1, <1>2 DEF ConvergeInv, DeviceDue
<1>7. SyncsLead(queue, effects, hw)
  BY <1>2, <1>6, NoneQueued
<1>8. /\ \A ops : e.op \in ops => Has(effects, ops)
      /\ \A i \in 1..Len(queue) : SyncRuns(queue[i], effects, hw)
  <2>1. \A ops : ~Has(effects, ops) => Head(effects).op \notin ops
    BY <1>1, RestOfList
  <2>2. \A i \in Syncs(queue) : SyncRuns(queue[i], effects, hw)
    BY <1>7 DEF SyncsLead
  <2>3. QED
    BY <1>1, <1>2, <2>1, <2>2
<1>9. /\ e.op \in EnvelopeOps => EnvelopeDue(effects, state, hw)
      /\ e.op \in FanOps => CurveDue(effects, state, hw)
  <2>1. e.op \in EnvelopeOps => ~Pending(queue, "SyncPowerTarget")
    BY <1>8 DEF Pending, SyncRuns
  <2>2. e.op \in FanOps => ~Pending(queue, "SyncFanCurve")
    <3>1. e.op \in FanOps => e.op \in CurveOps
      BY OpSets
    <3>2. QED
      BY <1>8, <3>1 DEF Pending, SyncRuns
  <2>3. QED
    BY <1>6, <2>1, <2>2 DEF SetDue
<1>10. PICK kind \in Kinds : e.op \in kind
  <2>1. \/ e.op = "ApplyPowerEnvelope" \/ e.op \in ProfileOps \/ e.op \in ChargeOps
        \/ e.op \in FanOps \/ e.op \in GpuOps
    BY <1>1, EffectFields, OpSets
  <2>2. QED
    BY <2>1 DEF Kinds
<1>11. ~Has(r, kind)
  BY <1>1, <1>2, <1>10, NotRetried
<1> HIDE DEF e, r, t
<1>12. /\ e.op = "ApplyPowerEnvelope" => ~Has(r, EnvelopeOps)
       /\ e.op = "ApplyPlatformProfile" => ~Has(r, ProfileOps)
       /\ e.op = "ApplyChargeThreshold" => ~Has(r, ChargeOps)
       /\ e.op \in FanOps => ~Has(r, CurveOps)
       /\ e.op \in GpuOps => ~Has(r, GpuOps)
  <2>1. /\ Head(effects).op \in kind /\ ~Has(Tail(effects), kind)
        /\ Head(effects).op \in EnvelopeOps => EnvelopeDue(effects, state, hw)
        /\ Head(effects).op \in FanOps /\ "curve" \in Capability =>
             CurveDue(effects, state, hw)
        /\ RequiredCapability(Head(effects)) \subseteq Capability
    BY <1>1, <1>9, <1>10, <1>11 DEF r
  <2>2. QED
    BY <1>1, <1>6, <2>1, FailedLast DEF r
<1>13. SyncRuns(t, r, hw')
  BY <1>1, <1>4, <1>12, ReadBackRuns DEF t
<1>14. SyncsLead(queue, r, hw')
  BY <1>1, <1>4, <1>7, RestRuns DEF SyncsLead, r
<1>15. SyncsLead(queue', r, hw')
  BY <1>1, <1>2, <1>3, <1>5, <1>13, <1>14, QueueMore
<1>16. \A op : Pending(queue', op) <=> Pending(queue, op) \/ t.op = op
  BY <1>1, <1>3, <1>5, QueueMore
<1>17. /\ t.op # "SyncPowerTarget" => TookEnvelope(e, hw, hw')
       /\ t.op # "SyncPlatformProfile" => TookProfile(e, hw')
       /\ t.op # "SyncChargeThreshold" => TookCharge(e, hw')
       /\ t.op # "SyncFanCurve" => TookCurve(e, hw')
       /\ t.op # "SyncGpuClockRange" => TookGpu(e, hw')
  BY <1>1, CoveredBySync DEF t
<1>18. /\ t.op # "SyncPowerTarget" /\ EnvelopeDue(effects, state, hw) => EnvelopeDue(r, state, hw')
       /\ t.op # "SyncPlatformProfile" /\ ProfileDue(effects, state, hw) => ProfileDue(r, state, hw')
       /\ t.op # "SyncChargeThreshold" /\ ChargeDue(effects, state, hw) => ChargeDue(r, state, hw')
       /\ t.op # "SyncFanCurve" /\ CurveDue(effects, state, hw) => CurveDue(r, state, hw')
       /\ t.op # "SyncFanCurve" /\ CurveOffDue(effects, state, hw) => CurveOffDue(r, state, hw')
       /\ t.op # "SyncGpuClockRange" /\ GpuDue(effects, state, hw) => GpuDue(r, state, hw')
       /\ t.op # "SyncGpuClockRange" /\ GpuOffDue(effects, state, hw) => GpuOffDue(r, state, hw')
  BY <1>1, <1>4, <1>17, RestDue DEF r
<1>19. SetDue(queue', r, state, hw')
  BY <1>6, <1>16, <1>18 DEF SetDue
<1>20. Clean' => OffDue(queue', r, state, hw')
  <2>1. SUFFICES ASSUME Clean' PROVE OffDue(queue', r, state, hw')
    OBVIOUS
  <2>2. faults = 0 /\ spent.crashes = 0
    BY <1>3, <2>1 DEF Clean, TypeOK
  <2>3. OffDue(queue, effects, state, hw)
    BY <1>6, <2>2 DEF Clean
  <2>4. QED
    BY <1>16, <1>18, <2>3 DEF OffDue
<1>21. FanOrder(r, state)
  BY <1>1, <1>6, RestOrder DEF r
<1>22. QED
  BY <1>1, <1>15, <1>19, <1>20, <1>21 DEF DeviceDue

LEMMA FailEffectDue ==
  ASSUME TypeOK, ConvergeInv, FailEffect, UNCHANGED spent,
         asserted' = IF faults' # faults THEN AfterFault ELSE asserted
  PROVE  DeviceDue'
<1>1. Dispatch /\ UNCHANGED state /\ faults' > faults
  BY DEF FailEffect, Faults, TypeOK
<1>2. asserted' = AfterFault
  BY <1>1 DEF TypeOK
<1>3. CASE asserted' = "rolled"
  BY <1>2, <1>3, RolledDue
<1>4. CASE asserted' # "rolled"
  <2>1. asserted' \in {"none", "overtaken"}
    BY <1>2, <1>4 DEF AfterFault
  <2>2. QED
    BY <1>1, <2>1, FailedDue
<1>5. QED
  BY <1>3, <1>4

-----------------------------------------------------------------------------
(* The executor's steps.                                                   *)

LEMMA ExecutingDue ==
  ASSUME TypeOK, LockInv, ConvergeInv, Executing
  PROVE  DeviceDue'
<1>1. /\ asserted' = IF ResumeIsNext /\ phase = "running" THEN AfterResume
                     ELSE IF faults' # faults THEN AfterFault
                     ELSE asserted
      /\ UNCHANGED spent
  BY DEF Executing, daemonVars
<1>2. CASE ReloadConfig
  <2>1. ~ResumeIsNext /\ UNCHANGED faults
    BY <1>2 DEF ReloadConfig, ResumeIsNext
  <2>2. QED
    BY <1>1, <1>2, <2>1, ReloadConfigDue
<1>3. CASE ReduceTransition
  <2>1. ~ResumeIsNext /\ UNCHANGED faults
    BY <1>3 DEF ReduceTransition, ResumeIsNext
  <2>2. QED
    BY <1>1, <1>3, <2>1, ReduceTransitionDue
<1>4. CASE ReduceResumed
  <2>1. ResumeIsNext /\ phase = "running"
    BY <1>4 DEF ReduceResumed, Receive, Idle, ResumeIsNext
  <2>2. QED
    BY <1>1, <1>4, <2>1, ReduceResumedDue
<1>5. CASE ApplyEffect \/ IgnoreEffect
  <2>1. ~ResumeIsNext /\ UNCHANGED faults
    BY <1>5 DEF ApplyEffect, IgnoreEffect, Dispatch, ResumeIsNext
  <2>2. QED
    BY <1>1, <1>5, <2>1, ApplyEffectDue, IgnoreEffectDue
<1>6. CASE FailEffect \/ SkipGpuRange \/ Persist
  <2>1. ~ResumeIsNext
    BY <1>6 DEF FailEffect, SkipGpuRange, Persist, Dispatch, ResumeIsNext
  <2>2. QED
    BY <1>1, <1>6, <2>1, FailEffectDue, SkipGpuRangeDue, PersistDue
<1>7. CASE Exit
  BY <1>7 DEF Exit, DeviceDue, Up
<1>8. QED
  BY <1>2, <1>3, <1>4, <1>5, <1>6, <1>7 DEF Executing, ExecutorStep

LEMMA DiskImageType ==
  ASSUME NEW s \in ProfileState
  PROVE  /\ DiskImage(s) \in ProfileState /\ DiskImage(s) # None
         /\ DiskImage(DiskImage(s)) = DiskImage(s)
         /\ SameReport(DiskImage(s), s)
         /\ DiskImage(s).last_dc_state = s.last_dc_state
<1>1. DiskImage(s) \in ProfileState
  BY DEF DiskImage, ProfileState
<1>2. SameReport(DiskImage(s), s) /\ DiskImage(s).last_dc_state = s.last_dc_state
  BY DEF DiskImage, ProfileState, SameReport
<1>3. QED
  BY <1>1, <1>2, FlagsOnDisk, ExecutorAssumption

LEMMA ExecutingSound ==
  ASSUME TypeOK, Sound, Executing
  PROVE  Sound'
<1>1. ExecutorStep /\ hw \in Hardware
  BY DEF Executing, TypeOK
<1>2. faults' >= faults
  <2>1. UNCHANGED faults \/ Faults(1) \/ Faults(2)
    BY <1>1 DEF ExecutorStep, ReloadConfig, ReduceTransition, ReduceResumed, ApplyEffect,
       IgnoreEffect, FailEffect, SkipGpuRange, Persist, Exit, Fault
  <2>2. faults \in Nat
    BY DEF TypeOK
  <2>3. QED
    BY <2>1, <2>2 DEF Faults
<1>3. asserted' = "rolled" => faults' > 0
  <2>1. faults \in Nat /\ faults' \in Nat
    BY ExecutingTypes DEF TypeOK
  <2>2. AfterResume # "rolled"
    BY DEF AfterResume
  <2>3. asserted' = "rolled" => faults' # faults \/ asserted = "rolled"
    BY <2>2 DEF Executing
  <2>4. QED
    BY <1>2, <2>1, <2>3 DEF Sound
<1>4. hw' = hw \/ (effects # <<>> /\ Current.op # "PersistState"
                   /\ hw' \in Written(hw, Current) \cup HalfWritten(hw, Current))
  BY <1>1 DEF ExecutorStep, ReloadConfig, ReduceTransition, ReduceResumed, ApplyEffect,
     IgnoreEffect, FailEffect, SkipGpuRange, Persist, Exit, Dispatch
<1>5. Whole(hw'.envelope) /\ hw'.limits = hw.limits
  <2>1. CASE hw' = hw
    BY <2>1 DEF Sound, Whole
  <2>2. CASE effects # <<>> /\ Current.op # "PersistState"
             /\ hw' \in Written(hw, Current) \cup HalfWritten(hw, Current)
    <3>1. Current \in Effect
      BY <2>2 DEF Current, TypeOK
    <3>2. Frames(Current, hw, hw')
      BY <1>1, <2>2, <3>1, WrittenTook, HalfWrittenFrames
    <3>3. QED
      BY <1>1, <2>2, <3>1, <3>2, DeviceWhole DEF Sound, Whole, Frames
  <2>3. QED
    BY <1>4, <2>1, <2>2
<1>6. limits' \in {limits, hw.limits}
  BY <1>1 DEF ExecutorStep, ReloadConfig, ReduceTransition, ReduceResumed, ApplyEffect,
     IgnoreEffect, FailEffect, SkipGpuRange, Persist, Exit
<1>7. disk' \in {disk, DiskImage(state)}
  BY <1>1 DEF ExecutorStep, ReloadConfig, ReduceTransition, ReduceResumed, ApplyEffect,
     IgnoreEffect, FailEffect, SkipGpuRange, Persist, Exit
<1>8. disk' # None => DiskImage(disk') = disk'
  BY <1>7, DiskImageType DEF Sound, TypeOK
<1>9. durable' # None => DiskImage(durable') = durable'
  <2>1. durable' \in {durable, disk'}
    BY DEF Executing, Surviving
  <2>2. QED
    BY <1>8, <2>1 DEF Sound
<1>10. unsaved' => faults' > 0
  <2>1. faults \in Nat /\ faults' \in Nat /\ (faults' = faults \/ faults' > faults)
    BY <1>2, ExecutingTypes DEF TypeOK
  <2>2. unsaved' => unsaved \/ faults' # faults
    BY DEF Executing
  <2>3. QED
    BY <2>1, <2>2 DEF Sound
<1>11. QED
  BY <1>3, <1>5, <1>6, <1>8, <1>9, <1>10 DEF Sound, Whole

\* A missing capability drops anything but a save.
LEMMA IgnoredIsNoSave ==
  ASSUME TypeOK, IgnoreEffect
  PROVE  Current.op # "PersistState"
<1>1. Current \in Effect /\ ~(RequiredCapability(Current) \subseteq Capability)
  BY DEF IgnoreEffect, Dispatch, TypeOK, Supported, Current
<1>2. QED
  BY <1>1, IgnoredTook

LEMMA ExecutingFlushed ==
  ASSUME TypeOK, Flushed, Executing
  PROVE  Flushed'
<1>1. CASE ReloadConfig
  BY <1>1 DEF ReloadConfig, Receive, Idle, Flushed
<1>2. CASE ReduceTransition
  <2> DEFINE t == Head(queue)
             o == Reduce(state, t, limits, config)
  <2>1. /\ phase = "running" /\ t \in Transition /\ effects' = o.effects
        /\ phase' = IF t.op = "Shutdown" THEN "stopping" ELSE phase
    BY <1>2 DEF ReduceTransition, Receive, Idle, ReduceWith, TypeOK
  <2>2. CASE t.op = "Shutdown"
    <3>1. o = Output(state, <<PersistState>>)
      BY <2>2, ReduceArms
    <3>2. effects' = <<PersistState>>
      BY <2>1, <3>1 DEF Output
    <3>3. Has(<<PersistState>>, SaveOps)
      BY EffectTypes, EffectOps, UnitList DEF SaveOps
    <3>4. QED
      BY <3>2, <3>3 DEF Flushed
  <2>3. QED
    BY <2>1, <2>2 DEF Flushed
<1>3. CASE ReduceResumed
  <2>1. phase' = "running"
    BY <1>3 DEF ReduceResumed, Receive, Idle, ReduceWith
  <2>2. QED
    BY <2>1 DEF Flushed
<1>4. CASE ApplyEffect \/ IgnoreEffect \/ FailEffect \/ SkipGpuRange
  <2>1. /\ effects \in Seq(Effect) /\ effects # <<>> /\ effects' = Tail(effects)
        /\ Current.op # "PersistState"
        /\ UNCHANGED <<state, phase, disk>>
    BY <1>4, IgnoredIsNoSave DEF ApplyEffect, IgnoreEffect, FailEffect, SkipGpuRange,
       Dispatch, TypeOK
  <2>2. Has(effects, SaveOps) => Has(effects', SaveOps)
    BY <2>1, RestOfList DEF Current, SaveOps
  <2>3. unsaved' = unsaved
    BY <2>1 DEF Executing, Saving
  <2>4. QED
    BY <2>1, <2>2, <2>3 DEF Flushed
<1>6. CASE Persist
  <2>1. Saving
    BY <1>6 DEF Persist, Dispatch, Saving
  <2>2. (disk' = DiskImage(state) /\ UNCHANGED state) \/ faults' # faults
    BY <1>6 DEF Persist, Fault, Faults, TypeOK
  <2>3. ~unsaved' => faults' = faults
    BY <2>1 DEF Executing
  <2>4. QED
    BY <2>2, <2>3 DEF Flushed
<1>7. CASE Exit
  BY <1>7 DEF Exit, Flushed
<1>8. QED
  BY <1>1, <1>2, <1>3, <1>4, <1>6, <1>7 DEF Executing, ExecutorStep

\* A daemon that stops in an orderly way leaves no lever set that its file
\* does not know of.
LEMMA ExecutingFileOff ==
  ASSUME TypeOK, LockInv, ConvergeInv, Executing
  PROVE  FileOff'
<1>1. CASE Exit
  <2>1. SUFFICES ASSUME faults = 0, spent.crashes = 0
                 PROVE  /\ "curve" \in Capability
                             /\ (disk = None \/ disk.active_fan_curve = None)
                             => hw.curve = None
                        /\ "gpu" \in Capability
                             /\ (disk = None \/ disk.active_gpu_clock = None)
                             => hw.gpu = None
    BY <1>1 DEF Exit, FileOff, Executing, daemonVars
  <2>2. phase = "stopping" /\ effects = <<>>
    BY <1>1 DEF Exit
  <2>3. disk = DiskImage(state)
    BY <2>1, <2>2, EmptyList DEF ConvergeInv, Flushed, Sound
  <2>4. OffDue(queue, <<>>, state, hw)
    BY <2>1, <2>2 DEF ConvergeInv, DeviceDue, Clean, Up
  <2>5. Syncs(queue) = {}
    BY <2>1, NoneQueued DEF LockInv, NoSyncQueued
  <2>6. CurveOffDue(<<>>, state, hw) /\ GpuOffDue(<<>>, state, hw)
    BY <2>4, <2>5, NoneQueued DEF OffDue, SyncOps
  <2>7. SameReport(disk, state) /\ disk # None
    BY <2>3, DiskImageType DEF TypeOK
  <2>8. QED
    BY <2>6, <2>7, EmptyList DEF CurveOffDue, GpuOffDue, SameReport
<1>2. CASE ~Exit
  <2>1. phase # "off" /\ phase' # "off"
    BY <1>2 DEF Executing, ExecutorStep, ReloadConfig, ReduceTransition, ReduceResumed,
       ApplyEffect, IgnoreEffect, FailEffect, SkipGpuRange, Persist, Receive, Idle, Dispatch,
       ReduceWith
  <2>2. QED
    BY <2>1 DEF FileOff, Up
<1>3. QED
  BY <1>1, <1>2

-----------------------------------------------------------------------------
(* The producers and the world.                                            *)

LEMMA SpendsNoCrash ==
  ASSUME spent \in Spent, NEW what \in {"requests", "edges", "sleeps", "boots"}, NEW max,
         Spend(what, max)
  PROVE  spent'.crashes = spent.crashes
  BY DEF Spend, Spent

LEMMA SpendsCrash ==
  ASSUME spent \in Spent, Spend("crashes", MaxCrashes)
  PROVE  spent'.crashes > 0
  BY DaemonAssumption DEF Spend, Spent

\* A step that leaves the daemon and the device alone, a fault aside.
LEMMA FrameConverges ==
  ASSUME TypeOK, ConvergeInv,
         UNCHANGED <<state, limits, effects, phase, hw, disk, durable, asserted, unsaved>>,
         spent'.crashes = spent.crashes,
         faults' = faults \/ faults' > faults, faults' \in Nat,
         \/ queue' = queue
         \/ \E t \in Transition : ~IsSync(t) /\ queue' = Append(queue, t)
  PROVE  ConvergeInv'
<1>1. faults \in Nat /\ queue \in Seq(Transition)
  BY DEF TypeOK
<1>2. /\ \A op : Pending(queue, op) => Pending(queue', op)
      /\ Syncs(queue') = Syncs(queue)
      /\ SyncsLead(queue, effects, hw) => SyncsLead(queue', effects, hw)
  <2>1. CASE queue' = queue
    BY <2>1
  <2>2. ASSUME NEW t \in Transition, ~IsSync(t), queue' = Append(queue, t)
        PROVE  /\ \A op : Pending(queue, op) => Pending(queue', op)
               /\ Syncs(queue') = Syncs(queue)
               /\ SyncsLead(queue, effects, hw) => SyncsLead(queue', effects, hw)
    <3>1. \A op : Pending(Append(queue, t), op) <=> Pending(queue, op) \/ t.op = op
      BY <1>1, QueueMore
    <3>2. Syncs(Append(queue, t)) = Syncs(queue)
      BY <1>1, <2>2, QueueMore
    <3>3. SyncsLead(queue, effects, hw) => SyncsLead(Append(queue, t), effects, hw)
      BY <1>1, <2>2, QueueMore
    <3>4. QED
      BY <2>2, <3>1, <3>2, <3>3
  <2>3. QED
    BY <2>1, <2>2
<1>3. Sound'
  BY <1>1 DEF ConvergeInv, Sound
<1>4. Clean' => Clean
  BY <1>1 DEF ConvergeInv, Sound, Clean
<1>5. /\ SetDue(queue, effects, state, hw) => SetDue(queue', effects, state, hw)
      /\ OffDue(queue, effects, state, hw) => OffDue(queue', effects, state, hw)
  BY <1>2 DEF SetDue, OffDue
<1>6. DeviceDue'
  BY <1>2, <1>4, <1>5 DEF ConvergeInv, DeviceDue, Up
<1>7. FileOff' /\ Flushed'
  BY <1>1 DEF ConvergeInv, FileOff, Flushed, Up
<1>8. QED
  BY <1>3, <1>6, <1>7 DEF ConvergeInv

LEMMA ProducersConverge ==
  ASSUME TypeOK, ConvergeInv, Producers
  PROVE  ConvergeInv'
<1>1. UNCHANGED <<state, limits, effects, phase, hw, disk, durable, asserted, unsaved>>
  BY DEF Producers, RequestStep, Terminate, MonitorSeed, MonitorSeedUnread, MonitorRead, MonitorSend,
     ForwardResume, MissResume, executorVars, historyVars
<1>2. faults' = faults \/ faults' > faults
  <2>1. UNCHANGED faults \/ Fault
    BY DEF Producers, RequestStep, Terminate, MonitorSeed, MonitorSeedUnread, MonitorRead, MonitorSend,
       ForwardResume, MissResume, executorVars
  <2>2. QED
    BY <2>1 DEF Fault, Faults, TypeOK
<1>3. faults' \in Nat
  BY ProducersTypes DEF TypeOK
<1>4. spent'.crashes = spent.crashes
  <2>1. UNCHANGED spent \/ Spend("requests", MaxRequests)
    BY DEF Producers, RequestStep, Terminate, MonitorSeed, MonitorSeedUnread, MonitorRead, MonitorSend,
       ForwardResume, MissResume
  <2>2. QED
    BY <2>1, SpendsNoCrash DEF TypeOK
<1>5. queue' = queue \/ \E t \in Transition : ~IsSync(t) /\ queue' = Append(queue, t)
  <2>1. CASE RequestStep
    <3>1. PICK t \in Requests : Send(t)
      BY <2>1 DEF RequestStep
    <3>2. t \in Transition /\ ~IsSync(t)
      BY DaemonAssumption DEF Transition, LockedWrite, FreeRequest, Bare, IsSync, SyncOps
    <3>3. QED
      BY <3>1, <3>2 DEF Send
  <2>2. CASE Terminate \/ ForwardResume
    <3>1. PICK t \in {[op |-> "Shutdown"], [op |-> "SystemResumed"]} : Send(t)
      BY <2>2 DEF Terminate, ForwardResume
    <3>2. t \in Transition /\ ~IsSync(t)
      BY DEF Transition, SystemEvent, Bare, IsSync, SyncOps
    <3>3. QED
      BY <3>1, <3>2 DEF Send
  <2>3. CASE MonitorSend
    <3> DEFINE t == [op |-> "AcPowerChanged", plugged |-> monitor.unsent]
    <3>1. t \in Transition /\ ~IsSync(t)
      BY <2>3 DEF MonitorSend, TypeOK, Transition, SystemEvent, IsSync, SyncOps
    <3>2. Send(t)
      BY <2>3 DEF MonitorSend
    <3> HIDE DEF t
    <3>3. QED
      BY <3>1, <3>2 DEF Send
  <2>4. QED
    BY <2>1, <2>2, <2>3
       DEF Producers, MonitorSeed, MonitorSeedUnread, MonitorRead, MissResume, executorVars
<1>6. QED
  BY <1>1, <1>2, <1>3, <1>4, <1>5, FrameConverges

\* The controller may lose the envelope and the curve, never gain a lever.
LEMMA SleepConverges ==
  ASSUME TypeOK, ConvergeInv, Sleep
  PROVE  ConvergeInv'
<1>1. PICK lim \in DeviceLimits, lost \in {hw, DropsControl(hw)} :
        hw' = [lost EXCEPT !.limits = lim]
  BY DEF Sleep
<1>2. /\ phase # "off" /\ asserted' = "none" /\ Spend("sleeps", MaxSleeps)
      /\ UNCHANGED <<state, limits, effects, queue, phase, disk, durable, faults, unsaved>>
  BY DEF Sleep
<1>3. /\ hw'.limits = lim /\ hw'.envelope = hw.envelope /\ hw'.gpu = hw.gpu
      /\ hw'.curve \in {hw.curve, None}
  BY <1>1 DEF TypeOK, Hardware, DropsControl
<1>4. spent'.crashes = spent.crashes
  BY <1>2, SpendsNoCrash DEF TypeOK
<1>5. Sound'
  BY <1>2, <1>3 DEF ConvergeInv, Sound
<1>6. Clean' => Clean
  BY <1>2, <1>4 DEF Clean
<1>7. CurveOffDue(effects, state, hw) => CurveOffDue(effects, state, hw')
  BY <1>3 DEF CurveOffDue
<1>8. GpuOffDue(effects, state, hw) => GpuOffDue(effects, state, hw')
  BY <1>3 DEF GpuOffDue
<1>9. OffDue(queue, effects, state, hw) => OffDue(queue, effects, state, hw')
  BY <1>7, <1>8 DEF OffDue
<1>10. DeviceDue'
  BY <1>2, <1>6, <1>9 DEF ConvergeInv, DeviceDue, Up
<1>11. FileOff' /\ Flushed'
  BY <1>2 DEF ConvergeInv, FileOff, Flushed, Up
<1>12. QED
  BY <1>5, <1>10, <1>11 DEF ConvergeInv

LEMMA BootConverges ==
  ASSUME TypeOK, ConvergeInv, Boot
  PROVE  ConvergeInv'
<1>1. PICK missed \in SUBSET {"file", "target", "charge", "ac"} :
        /\ IF missed = {} THEN UNCHANGED faults ELSE Fault
        /\ state' = BootState(missed)
  BY DEF Boot
<1>2. /\ phase = "off" /\ phase' = "running" /\ Spend("boots", MaxBoots)
      /\ limits' = hw.limits /\ asserted' = "none"
      /\ queue' = <<[op |-> "SystemResumed"]>> /\ effects' = <<>>
      /\ unsaved' = FALSE /\ UNCHANGED <<hw, disk, durable>>
  BY DEF Boot
<1>3. spent'.crashes = spent.crashes
  BY <1>2, SpendsNoCrash DEF TypeOK
<1>4. faults' = 0 => faults = 0 /\ missed = {}
  BY <1>1 DEF Fault, Faults, TypeOK
<1>5. Sound'
  BY <1>2 DEF ConvergeInv, Sound
<1>6. Flushed'
  BY <1>2 DEF Flushed
<1>7. FileOff'
  BY <1>2 DEF FileOff, Up
<1>8. FanOrder(effects', state')
  BY <1>2, EmptyList DEF FanOrder
<1>9. Clean' => OffDue(queue', effects', state', hw')
  <2>1. SUFFICES ASSUME Clean' PROVE OffDue(queue', effects', state', hw')
    OBVIOUS
  <2>2. faults = 0 /\ missed = {} /\ spent.crashes = 0
    BY <1>2, <1>3, <1>4, <2>1 DEF Clean
  <2>3. /\ "curve" \in Capability /\ (disk = None \/ disk.active_fan_curve = None)
             => hw.curve = None
        /\ "gpu" \in Capability /\ (disk = None \/ disk.active_gpu_clock = None)
             => hw.gpu = None
    BY <1>2, <2>2 DEF ConvergeInv, FileOff, Up
  <2> DEFINE loaded == IF disk = None THEN SeededState(missed) ELSE disk
  <2>4. loaded \in ProfileState
    BY SeededType DEF TypeOK
  <2>5. state' = [loaded EXCEPT
          !.is_ac_connected = "charge" \in Capability /\ "ac" \notin missed /\ ac,
          !.active_fan_curve = IF @ = None THEN DefaultCurve ELSE @,
          !.active_profile = DefaultProfile]
    BY <1>1, <2>2 DEF BootState
  <2>6. /\ disk # None => loaded = disk
        /\ disk = None => loaded.active_fan_curve = None /\ loaded.active_gpu_clock = None
    BY DEF SeededState
  <2> HIDE DEF loaded
  <2>7. /\ state'.active_fan_curve = None => loaded.active_fan_curve = None
        /\ state'.active_gpu_clock = loaded.active_gpu_clock
    BY <2>4, <2>5 DEF ProfileState
  <2>8. /\ "curve" \in Capability /\ state'.active_fan_curve = None => hw.curve = None
        /\ "gpu" \in Capability /\ state'.active_gpu_clock = None => hw.gpu = None
    BY <2>3, <2>6, <2>7
  <2>9. CurveOffDue(<<>>, state', hw) /\ GpuOffDue(<<>>, state', hw)
    BY <2>8, EmptyList DEF CurveOffDue, GpuOffDue
  <2>10. QED
    BY <1>2, <2>9 DEF OffDue
<1>10. DeviceDue'
  BY <1>2, <1>8, <1>9 DEF DeviceDue
<1>11. QED
  BY <1>5, <1>6, <1>7, <1>10 DEF ConvergeInv

LEMMA CrashConverges ==
  ASSUME TypeOK, ConvergeInv, Crash \/ PowerCycle
  PROVE  ConvergeInv'
<1>1. /\ phase' = "off" /\ Spend("crashes", MaxCrashes)
      /\ disk' \in {disk, durable}
      /\ UNCHANGED <<state, limits, durable, faults, asserted, unsaved>>
  BY DEF Crash, PowerCycle, historyVars
<1>2. spent'.crashes > 0
  BY <1>1, SpendsCrash DEF TypeOK
<1>3. spent'.crashes # 0
  BY <1>1, SpendTypes, <1>2 DEF TypeOK, Spent
<1>4. Whole(hw'.envelope) /\ hw'.limits \in DeviceLimits
  <2>1. CASE Crash
    <3>1. hw' = hw \/ (effects # <<>> /\ Current.op # "PersistState"
                       /\ hw' \in HalfWritten(hw, Current))
      BY <2>1 DEF Crash
    <3>2. CASE hw' = hw
      BY <3>2 DEF ConvergeInv, Sound, Whole
    <3>3. CASE effects # <<>> /\ Current.op # "PersistState" /\ hw' \in HalfWritten(hw, Current)
      <4>1. Current \in Effect /\ hw \in Hardware
        BY <3>3 DEF TypeOK, Current
      <4>2. Frames(Current, hw, hw') /\ Whole(hw'.envelope)
        BY <3>3, <4>1, HalfWrittenFrames, DeviceWhole DEF ConvergeInv, Sound, Whole
      <4>3. QED
        BY <4>2 DEF Frames, ConvergeInv, Sound
    <3>4. QED
      BY <3>1, <3>2, <3>3
  <2>2. CASE PowerCycle
    <3>1. PICK lim \in DeviceLimits : hw' = FactoryHardware(lim)
      BY <2>2 DEF PowerCycle
    <3>2. QED
      BY <3>1, DaemonAssumption DEF FactoryHardware, Whole
  <2>3. QED
    BY <2>1, <2>2
<1>5. Sound'
  BY <1>1, <1>4 DEF ConvergeInv, Sound, Whole
<1>6. DeviceDue' /\ FileOff' /\ Flushed'
  BY <1>1, <1>3 DEF DeviceDue, FileOff, Flushed, Up
<1>7. QED
  BY <1>5, <1>6 DEF ConvergeInv

LEMMA InitConverges == Init => ConvergeInv
<1> SUFFICES ASSUME Init PROVE ConvergeInv
  OBVIOUS
<1>1. PICK lim \in DeviceLimits : hw = FactoryHardware(lim)
  BY DEF Init
<1>2. /\ hw.envelope = FactoryEnvelope /\ hw.curve = None /\ hw.gpu = None
      /\ hw.limits = lim
  BY <1>1 DEF FactoryHardware
<1>3. Sound
  BY <1>2, DaemonAssumption DEF Init, Sound
<1>4. DeviceDue /\ FileOff /\ Flushed
  BY <1>2 DEF Init, DeviceDue, FileOff, Flushed, Up
<1>5. QED
  BY <1>3, <1>4 DEF ConvergeInv

LEMMA NextConverges ==
  TypeOK /\ LockInv /\ ConvergeInv /\ [Next]_vars => ConvergeInv'
<1> SUFFICES ASSUME TypeOK, LockInv, ConvergeInv, [Next]_vars PROVE ConvergeInv'
  OBVIOUS
<1>1. CASE UNCHANGED vars
  <2>1. faults \in Nat
    BY DEF TypeOK
  <2>2. QED
    BY <1>1, <2>1, FrameConverges DEF vars, executorVars, daemonVars, historyVars
<1>2. CASE Executing
  BY <1>2, ExecutingDue, ExecutingSound, ExecutingFlushed, ExecutingFileOff DEF ConvergeInv
<1>3. CASE Producers
  BY <1>3, ProducersConverge
<1>4. CASE ChargerEdge
  <2>1. spent'.crashes = spent.crashes
    BY <1>4, SpendsNoCrash DEF ChargerEdge, TypeOK
  <2>2. faults \in Nat
    BY DEF TypeOK
  <2>3. QED
    BY <1>4, <2>1, <2>2, FrameConverges DEF ChargerEdge, historyVars
<1>5. CASE Sleep \/ Boot \/ Crash \/ PowerCycle
  BY <1>5, SleepConverges, BootConverges, CrashConverges
<1>6. QED
  BY <1>1, <1>2, <1>3, <1>4, <1>5 DEF Next, World

-----------------------------------------------------------------------------
(* What the invariant gives between transitions.                           *)

\* ConvergeInv holds in every reachable state: each lever that was not yet
\* written is written by a queued effect or named by a queued correction.
THEOREM ConvergeInvariant == Spec => []ConvergeInv
<1>1. Init => ConvergeInv
  BY InitConverges
<1>2. TypeOK /\ LockInv /\ ConvergeInv /\ [Next]_vars => ConvergeInv'
  BY NextConverges
<1>3. Spec => []TypeOK
  BY DaemonTypes
<1>4. Spec => []LockInv
  BY LockInvariant
<1>5. QED
  BY <1>1, <1>2, <1>3, <1>4, PTL DEF Spec

\* With the effects dispatched and nothing pending, the report of every lever
\* that is set is what the device runs.
LEMMA SetDueMatches ==
  ASSUME NEW q, NEW s \in ProfileState, NEW h, SetDue(q, <<>>, s, h),
         \A op \in SyncOps : ~Pending(q, op)
  PROVE  /\ WrittenEnvelope(h.envelope, s.power_target) = h.envelope
         /\ "profile" \in Capability => h.profile = s.active_profile
         /\ "charge" \in Capability => h.charge = s.charge_end_threshold
         /\ "curve" \in Capability /\ s.active_fan_curve # None =>
              h.curve = s.active_fan_curve
         /\ "gpu" \in Capability /\ s.active_gpu_clock # None =>
              IF s.active_gpu_clock = Unmanaged THEN h.gpu # None
              ELSE h.gpu = s.active_gpu_clock
<1>1. /\ EnvelopeDue(<<>>, s, h) /\ ProfileDue(<<>>, s, h) /\ ChargeDue(<<>>, s, h)
      /\ CurveDue(<<>>, s, h) /\ GpuDue(<<>>, s, h)
  BY DEF SetDue, SyncOps
<1>2. QED
  BY <1>1, EmptyList DEF EnvelopeDue, ProfileDue, ChargeDue, CurveDue, GpuDue

\* The same of the levers that are reported as unset.
LEMMA OffDueMatches ==
  ASSUME NEW q, NEW s \in ProfileState, NEW h, OffDue(q, <<>>, s, h),
         \A op \in SyncOps : ~Pending(q, op)
  PROVE  /\ "curve" \in Capability /\ s.active_fan_curve = None => h.curve = None
         /\ "gpu" \in Capability /\ s.active_gpu_clock = None => h.gpu = None
<1>1. CurveOffDue(<<>>, s, h) /\ GpuOffDue(<<>>, s, h)
  BY DEF OffDue, SyncOps
<1>2. QED
  BY <1>1, EmptyList DEF CurveOffDue, GpuOffDue

LEMMA NoSyncPending ==
  ASSUME NEW q, Syncs(q) = {}
  PROVE  \A op \in SyncOps : ~Pending(q, op)
  BY DEF Syncs, IsSync, Pending

\* A settled daemon whose corrections lead the channel reports what runs.
LEMMA SettledMatches ==
  ASSUME TypeOK, ConvergeInv, Settled, asserted \in {"all", "rolled"}
  PROVE  SetLeversMatch /\ (Clean => ReportedMatches /\ ("gpu" \in Capability => GpuMatches))
<1>1. /\ state \in ProfileState /\ effects = <<>>
      /\ SetDue(queue, effects, state, hw)
      /\ Clean => OffDue(queue, effects, state, hw)
      /\ \A op \in SyncOps : ~Pending(queue, op)
  BY NoSyncPending DEF TypeOK, Settled, Idle, ConvergeInv, DeviceDue, Up
<1>2. /\ WrittenEnvelope(hw.envelope, state.power_target) = hw.envelope
      /\ "profile" \in Capability => hw.profile = state.active_profile
      /\ "charge" \in Capability => hw.charge = state.charge_end_threshold
      /\ "curve" \in Capability /\ state.active_fan_curve # None =>
           hw.curve = state.active_fan_curve
      /\ "gpu" \in Capability /\ state.active_gpu_clock # None =>
           IF state.active_gpu_clock = Unmanaged THEN hw.gpu # None
           ELSE hw.gpu = state.active_gpu_clock
  BY <1>1, SetDueMatches
<1>3. "gpu" \in Capability /\ state.active_gpu_clock # None => GpuMatches
  BY <1>2 DEF GpuMatches
<1>4. SetLeversMatch
  BY <1>2, <1>3 DEF SetLeversMatch
<1>5. ASSUME Clean
      PROVE  /\ "curve" \in Capability /\ state.active_fan_curve = None => hw.curve = None
             /\ "gpu" \in Capability /\ state.active_gpu_clock = None => hw.gpu = None
  BY <1>1, <1>5, OffDueMatches
<1>6. Clean => ReportedMatches
  BY <1>2, <1>5 DEF ReportedMatches
<1>7. Clean /\ "gpu" \in Capability => GpuMatches
  <2>1. Clean /\ "gpu" \in Capability /\ state.active_gpu_clock = None => GpuMatches
    BY <1>5, SelectionAssumption DEF GpuMatches, GpuClock
  <2>2. QED
    BY <1>3, <2>1
<1>8. QED
  BY <1>4, <1>6, <1>7

LEMMA ReassertedMatches ==
  TypeOK /\ ConvergeInv => ReassertConverges /\ SetLeversReconcile /\ GpuConverges
<1> SUFFICES ASSUME TypeOK, ConvergeInv, Idle, asserted = "all"
             PROVE  /\ SetLeversMatch /\ hw.enforced
                    /\ faults = 0 /\ spent.crashes = 0 =>
                         ReportedMatches /\ ("gpu" \in Capability => GpuMatches)
  BY DEF ReassertConverges, SetLeversReconcile, GpuConverges
<1>1. Settled
  BY DEF ConvergeInv, DeviceDue, Settled, Idle, Up
<1>2. faults = 0 /\ spent.crashes = 0 => Clean
  BY DEF Clean
<1>3. EnforceDue(<<>>, state, hw)
  BY DEF ConvergeInv, DeviceDue, Idle, Up
<1>4. hw.enforced
  BY <1>3, EmptyList DEF EnforceDue
<1>5. /\ SetLeversMatch
      /\ Clean => ReportedMatches /\ ("gpu" \in Capability => GpuMatches)
  BY <1>1, SettledMatches
<1>6. QED
  BY <1>2, <1>4, <1>5

\* After a boot or a resume that rewrote every lever, and until something
\* fails or the machine sleeps again, the device runs what is reported.
THEOREM ReassertIsReported == Spec => []ReassertConverges
<1>1. Spec => []TypeOK
  BY DaemonTypes
<1>2. Spec => []ConvergeInv
  BY ConvergeInvariant
<1>3. TypeOK /\ ConvergeInv => ReassertConverges
  BY ReassertedMatches
<1>4. QED
  BY <1>1, <1>2, <1>3, PTL

\* Whatever failed or crashed before, the next rewrite of all levers leaves
\* the set ones as reported and the controller enforcing them.
THEOREM SetLeversAreReconciled == Spec => []SetLeversReconcile
<1>1. Spec => []TypeOK
  BY DaemonTypes
<1>2. Spec => []ConvergeInv
  BY ConvergeInvariant
<1>3. TypeOK /\ ConvergeInv => SetLeversReconcile
  BY ReassertedMatches
<1>4. QED
  BY <1>1, <1>2, <1>3, PTL

\* The GPU clock, a released one included, is what the report says after a
\* rewrite of all levers.
THEOREM GpuIsReported == Spec => []GpuConverges
<1>1. Spec => []TypeOK
  BY DaemonTypes
<1>2. Spec => []ConvergeInv
  BY ConvergeInvariant
<1>3. TypeOK /\ ConvergeInv => GpuConverges
  BY ReassertedMatches
<1>4. QED
  BY <1>1, <1>2, <1>3, PTL

\* A failed write that nothing overtakes ends with the report following the
\* device.
THEOREM RollbacksConverge == Spec => []RollbackConverges
<1>1. Spec => []TypeOK
  BY DaemonTypes
<1>2. Spec => []ConvergeInv
  BY ConvergeInvariant
<1>3. TypeOK /\ ConvergeInv => RollbackConverges
  <2>1. asserted = "rolled" /\ faults = 1 /\ spent.crashes = 0 => Clean
    BY DEF Clean
  <2>2. QED
    BY <2>1, SettledMatches DEF RollbackConverges
<1>4. QED
  BY <1>1, <1>2, <1>3, PTL

\* A SIGTERM that is processed stops the daemon only after the state file
\* holds everything that was reported, corrections of failed writes included,
\* unless the last save itself failed.
THEOREM ShutdownIsFlushed == Spec => ShutdownFlushes
<1> DEFINE Step == phase = "stopping" /\ phase' = "off" /\ spent' = spent /\ ~unsaved
                     => disk = DiskImage(state)
<1>1. TypeOK /\ ConvergeInv /\ [Next]_vars => Step
  <2> SUFFICES ASSUME TypeOK, ConvergeInv, [Next]_vars, phase = "stopping", phase' = "off",
                      spent' = spent, ~unsaved
               PROVE  disk = DiskImage(state)
    OBVIOUS
  <2>1. ~(Crash \/ PowerCycle)
    <3>1. ~Spend("crashes", MaxCrashes)
      BY DEF Spend, TypeOK, Spent
    <3>2. QED
      BY <3>1 DEF Crash, PowerCycle
  <2>2. ~(Producers \/ ChargerEdge \/ Sleep \/ Boot) /\ ~UNCHANGED vars
    <3>1. ~UNCHANGED vars
      BY DEF vars, executorVars
    <3>2. ~Producers
      BY DEF Producers, RequestStep, Terminate, MonitorSeed, MonitorSeedUnread, MonitorRead, MonitorSend,
         ForwardResume, MissResume, executorVars
    <3>3. ~(ChargerEdge \/ Sleep \/ Boot)
      BY DEF ChargerEdge, Sleep, Boot
    <3>4. QED
      BY <3>1, <3>2, <3>3
  <2>3. Executing
    BY <2>1, <2>2 DEF Next, World
  <2>4. effects = <<>>
    BY <2>3 DEF Executing, ExecutorStep, Exit, ReloadConfig, ReduceTransition, ReduceResumed,
       ApplyEffect, IgnoreEffect, FailEffect, SkipGpuRange, Persist, Receive, Idle, Dispatch,
       ReduceWith
  <2>5. QED
    BY <2>4, EmptyList DEF ConvergeInv, Flushed
<1>2. Spec => []TypeOK
  BY DaemonTypes
<1>3. Spec => []ConvergeInv
  BY ConvergeInvariant
<1>4. Step => [Step]_<<phase, disk>>
  OBVIOUS
<1> HIDE DEF Step
<1>5. Spec => [][Step]_<<phase, disk>>
  BY <1>1, <1>2, <1>3, PTL DEF Spec
<1>6. QED
  BY <1>5 DEF ShutdownFlushes, Step

-----------------------------------------------------------------------------
(* An Unmanaged GPU clock is never the choice of a lever, a boot or a lock. *)

\* A lever keeps the snapshot and sets clocks of tiers only.
Levered(n, s) ==
  /\ n.active_gpu_clock \in Tier \cup {None, s.active_gpu_clock}
  /\ n.last_dc_state = s.last_dc_state

LEMMA PowerLevered ==
  ASSUME NEW s \in ProfileState, NEW e, NEW w, NEW lim, NEW cfg
  PROVE  /\ Levered(ApplyPowerTarget(s, e, lim, cfg).new_state, s)
         /\ Levered(SetEnvelope(s, e, lim, cfg).new_state, s)
         /\ Levered(SetSpl(s, w, lim, cfg).new_state, s)
         /\ Levered(SetPreset(s, w, lim, cfg).new_state, s)
<1>1. ASSUME NEW d
      PROVE  Levered(ApplyPowerTarget(s, d, lim, cfg).new_state, s)
  <2> DEFINE tier == InferTier(d, lim, cfg)
             fan  == s.fan_follows_tdp /\ s.active_fan_curve # tier
             gpu  == s.gpu_follows_tdp /\ s.active_gpu_clock # tier
             n == [s EXCEPT !.power_target = d,
                            !.active_fan_curve = IF fan THEN tier ELSE @,
                            !.active_gpu_clock = IF gpu THEN tier ELSE @]
  <2>1. tier \in Tier
    BY InferTierType
  <2> HIDE DEF tier
  <2>2. Levered(n, s) /\ Levered(s, s)
    BY <2>1 DEF Levered, ProfileState
  <2>3. ApplyPowerTarget(s, d, lim, cfg).new_state \in {s, n}
    BY DEF ApplyPowerTarget, Output, tier
  <2>4. QED
    BY <2>2, <2>3
<1>2. Levered(Rejected(s).new_state, s)
  BY DEF Levered, Rejected
<1>3. \A d : Levered(SetEnvelope(s, d, lim, cfg).new_state, s)
  BY <1>1, <1>2 DEF SetEnvelope
<1>4. \A v : Levered(SetSpl(s, v, lim, cfg).new_state, s)
  BY <1>2, <1>3 DEF SetSpl
<1>5. QED
  BY <1>1, <1>3, <1>4 DEF SetPreset

LEMMA FieldLevered ==
  ASSUME NEW s \in ProfileState, NEW p, NEW c, NEW lim, NEW cfg
  PROVE  /\ Levered(SetProfile(s, p).new_state, s)
         /\ Levered(SetFanCurve(s, c).new_state, s)
         /\ Levered(EnableFanAuto(s, lim, cfg).new_state, s)
         /\ Levered(ResetFanCurve(s).new_state, s)
         /\ Levered(EnableGpuAutoFollow(s, lim, cfg).new_state, s)
         /\ Levered(ResetGpuClocks(s).new_state, s)
         /\ Levered(ChargeThresholdChanged(s, c).new_state, s)
<1>1. FanTier(s, lim, cfg) \in Tier
  BY InferTierType DEF FanTier
<1>2. Levered(SetProfile(s, p).new_state, s)
  BY DEF Levered, SetProfile, Output, ProfileState
<1>3. Levered(SetFanCurve(s, c).new_state, s)
  BY DEF Levered, SetFanCurve, Output, ProfileState
<1>4. Levered(EnableFanAuto(s, lim, cfg).new_state, s)
  BY DEF Levered, EnableFanAuto, Output, ProfileState
<1>5. Levered(ResetFanCurve(s).new_state, s)
  BY DEF Levered, ResetFanCurve, Output, ProfileState
<1>6. Levered(EnableGpuAutoFollow(s, lim, cfg).new_state, s)
  BY <1>1 DEF Levered, EnableGpuAutoFollow, Output, ProfileState
<1>7. Levered(ResetGpuClocks(s).new_state, s)
  BY DEF Levered, ResetGpuClocks, Output, ProfileState
<1>8. Levered(ChargeThresholdChanged(s, c).new_state, s)
  BY DEF Levered, ChargeThresholdChanged, Output, ProfileState
<1>9. QED
  BY <1>2, <1>3, <1>4, <1>5, <1>6, <1>7, <1>8

LEMMA LeveredChain ==
  ASSUME NEW s, NEW m, NEW n, Levered(m, s), Levered(n, m)
  PROVE  Levered(n, s)
  BY DEF Levered

LEMMA RestoreDefaultsLevered ==
  ASSUME NEW s \in ProfileState, NEW lim \in Limits, NEW cfg \in Config
  PROVE  Levered(RestoreDefaults(s, lim, cfg).new_state, s)
<1> DEFINE o1 == SetPreset(s, "Balanced", lim, cfg)
           o2 == SetProfile(o1.new_state, "Performance")
           o3 == ChargeThresholdChanged(o2.new_state, DefaultCharge)
           o4 == EnableFanAuto(o3.new_state, lim, cfg)
           o5 == ResetGpuClocks(o4.new_state)
           fx == o1.effects \o o2.effects \o o3.effects \o o4.effects \o o5.effects
<1>0. RestoreDefaults(s, lim, cfg) = IF o1.ok THEN Output(o5.new_state, fx) ELSE Rejected(s)
  BY DEF RestoreDefaults
<1>1. OutputOK(o1) /\ Levered(o1.new_state, s)
  BY SetPresetType, PowerLevered DEF TdpPreset
<1> HIDE DEF o1
<1>2. OutputOK(o2) /\ Levered(o2.new_state, o1.new_state)
  BY <1>1, SetProfileType, FieldLevered DEF OutputOK, Profile
<1> HIDE DEF o2
<1>3. OutputOK(o3) /\ Levered(o3.new_state, o2.new_state)
  BY <1>2, ChargeThresholdType, SelectionAssumption, FieldLevered DEF OutputOK
<1> HIDE DEF o3
<1>4. OutputOK(o4) /\ Levered(o4.new_state, o3.new_state)
  BY <1>3, FollowTypes, FieldLevered DEF OutputOK
<1> HIDE DEF o4
<1>5. Levered(o5.new_state, o4.new_state)
  BY <1>4, FieldLevered DEF OutputOK
<1> HIDE DEF o5, fx
<1>6. Levered(o5.new_state, s)
  BY <1>1, <1>2, <1>3, <1>4, <1>5, LeveredChain
<1>7. Levered(s, s)
  BY DEF Levered
<1>8. QED
  BY <1>0, <1>6, <1>7 DEF Output, Rejected

LEMMA LeveredTiered ==
  ASSUME NEW s, NEW n, Levered(n, s), Tiered(s)
  PROVE  Tiered(n)
  BY SelectionAssumption DEF Levered, Tiered, GpuClock

LEMMA UserLeverTiered ==
  ASSUME NEW s \in ProfileState, NEW t \in Transition, IsLockedWrite(t),
         NEW lim \in Limits, NEW cfg \in Config, Tiered(s)
  PROVE  Tiered(UserLever(s, t, lim, cfg).new_state)
<1>1. UserLever(s, t, lim, cfg) \in
        {SetPreset(s, t.preset, lim, cfg), SetSpl(s, t.watts, lim, cfg),
         SetEnvelope(s, t.target, lim, cfg), SetProfile(s, t.profile),
         SetFanCurve(s, t.curve), EnableFanAuto(s, lim, cfg), ResetFanCurve(s),
         EnableGpuAutoFollow(s, lim, cfg), ResetGpuClocks(s),
         RestoreDefaults(s, lim, cfg)}
  BY Zenon DEF UserLever, IsLockedWrite, LockedWriteOps
<1>2. Levered(UserLever(s, t, lim, cfg).new_state, s)
  BY <1>1, PowerLevered, FieldLevered, RestoreDefaultsLevered
<1>3. QED
  BY <1>2, LeveredTiered

LEMMA ForceTiered ==
  ASSUME NEW s \in ProfileState, NEW lim, NEW cfg, Tiered(s)
  PROVE  /\ Tiered(ForceAcMaxPerformance(s, lim, cfg).new_state)
         /\ \A snap : snap \in {Snapshot(s), s.last_dc_state} =>
              Tiered(ForceWithSnapshot(s, snap, lim, cfg).new_state)
<1> DEFINE e == MaxEnvelope(lim, cfg)
           gpu == s.active_gpu_clock # None
           n == [s EXCEPT !.power_target = e,
                          !.active_profile = "Performance",
                          !.active_fan_curve = "Aggressive",
                          !.fan_follows_tdp = FALSE,
                          !.active_gpu_clock = IF gpu THEN "Aggressive" ELSE None,
                          !.gpu_follows_tdp = ~gpu /\ @]
<1>1. ForceAcMaxPerformance(s, lim, cfg).new_state = n
  BY DEF ForceAcMaxPerformance, Output
<1>2. /\ n.active_gpu_clock \in {None, "Aggressive"} /\ n.last_dc_state = s.last_dc_state
      /\ \A snap : /\ [n EXCEPT !.last_dc_state = snap].last_dc_state = snap
                   /\ [n EXCEPT !.last_dc_state = snap].active_gpu_clock = n.active_gpu_clock
  BY DEF ProfileState
<1>3. None # Unmanaged /\ "Aggressive" # Unmanaged
  BY SelectionAssumption DEF GpuClock, Tier
<1>4. \A snap : ForceWithSnapshot(s, snap, lim, cfg).new_state = [n EXCEPT !.last_dc_state = snap]
  BY <1>1 DEF ForceWithSnapshot, Output
<1>5. Snapshot(s).active_gpu_clock # Unmanaged
  BY DEF Tiered, Snapshot
<1> HIDE DEF n
<1>6. Tiered(n)
  BY <1>2, <1>3 DEF Tiered
<1>7. ASSUME NEW snap \in {Snapshot(s), s.last_dc_state}
      PROVE  Tiered([n EXCEPT !.last_dc_state = snap])
  <2> DEFINE m == [n EXCEPT !.last_dc_state = snap]
  <2>1. m.last_dc_state = snap /\ m.active_gpu_clock # Unmanaged
    BY <1>2, <1>3
  <2>2. snap # None => snap.active_gpu_clock # Unmanaged
    BY <1>5 DEF Tiered
  <2> HIDE DEF m
  <2>3. Tiered(m)
    BY <2>1, <2>2 DEF Tiered
  <2>4. QED
    BY <2>3 DEF m
<1>8. QED
  BY <1>1, <1>4, <1>6, <1>7

LEMMA RestoreTiered ==
  ASSUME NEW s \in ProfileState, s.last_dc_state # None, Tiered(s)
  PROVE  Tiered(RestoreDcState(s, s.last_dc_state).new_state)
<1> DEFINE n == RestoreDcState(s, s.last_dc_state).new_state
<1>1. /\ n.last_dc_state = None
      /\ n.active_gpu_clock \in {None, s.last_dc_state.active_gpu_clock}
  BY DEF RestoreDcState, Output, ProfileState
<1>2. QED
  BY <1>1, SelectionAssumption DEF Tiered, GpuClock

\* The flags of the AC lock do not bear on the clocks.
LEMMA FlagsTiered ==
  ASSUME NEW s \in ProfileState, NEW b
  PROVE  /\ Tiered([s EXCEPT !.is_ac_connected = b]) <=> Tiered(s)
         /\ Tiered([s EXCEPT !.ac_max_performance = b]) <=> Tiered(s)
         /\ Tiered([s EXCEPT !.ac_locked = b]) <=> Tiered(s)
         /\ Tiered(DiskImage(s)) <=> Tiered(s)
  BY DEF Tiered, ProfileState, DiskImage

LEMMA QuietTiered ==
  ASSUME NEW s \in ProfileState, NEW lim \in Limits, NEW cfg \in Config, Tiered(s)
  PROVE  Tiered(QuietDefaults(s, lim, cfg).new_state)
<1> DEFINE m == [s EXCEPT !.is_ac_connected = FALSE, !.fan_follows_tdp = TRUE]
           o == SetPreset(m, "Balanced", lim, cfg)
<1>1. m \in ProfileState
  BY DEF ProfileState
<1>2. Tiered(m)
  BY DEF Tiered, ProfileState
<1> HIDE DEF m
<1>3. OutputOK(o) /\ Tiered(o.new_state)
  BY <1>1, <1>2, SetPresetType, PowerLevered, LeveredTiered DEF TdpPreset
<1>4. QuietDefaults(s, lim, cfg) = Persisted(o)
  BY DEF QuietDefaults, m
<1> HIDE DEF o
<1>5. QED
  BY <1>3, <1>4, PersistedKeeps

LEMMA AcPowerChangedTiered ==
  ASSUME NEW s \in ProfileState, NEW b \in BOOLEAN, NEW lim \in Limits, NEW cfg \in Config,
         Tiered(s)
  PROVE  Tiered(AcPowerChanged(s, b, lim, cfg).new_state)
<1> DEFINE o == AcEdge(s, b, lim, cfg)
           r == AcPowerChanged(s, b, lim, cfg)
<1>1. \/ o = ForceWithSnapshot(s, Snapshot(s), lim, cfg)
      \/ s.last_dc_state # None /\ o = RestoreDcState(s, s.last_dc_state)
      \/ o = QuietDefaults(s, lim, cfg)
      \/ o = Output(s, <<>>)
  BY DEF AcEdge
<1>2. o.new_state \in ProfileState /\ Tiered(o.new_state)
  <2> HIDE DEF o
  <2>1. CASE o = ForceWithSnapshot(s, Snapshot(s), lim, cfg)
    BY <2>1, SnapshotType, ForceWithSnapshotType, ForceTiered DEF OutputOK
  <2>2. CASE s.last_dc_state # None /\ o = RestoreDcState(s, s.last_dc_state)
    BY <2>2, StateFields, RestoreDcType, RestoreTiered DEF OutputOK
  <2>3. CASE o = QuietDefaults(s, lim, cfg)
    BY <2>3, QuietDefaultsType, QuietTiered DEF OutputOK
  <2>4. CASE o = Output(s, <<>>)
    BY <2>4 DEF Output
  <2>5. QED
    BY <1>1, <2>1, <2>2, <2>3, <2>4
<1>3. r.new_state \in {s, [o.new_state EXCEPT !.is_ac_connected = b]}
  BY DEF AcPowerChanged, Output, Rejected
<1> HIDE DEF o, r
<1>4. \A n \in ProfileState : Tiered(n) => Tiered([n EXCEPT !.is_ac_connected = b])
  BY FlagsTiered
<1>5. Tiered([o.new_state EXCEPT !.is_ac_connected = b])
  BY <1>2, <1>4
<1>6. Tiered(r.new_state)
  BY <1>3, <1>5
<1>7. QED
  BY <1>6 DEF r

LEMMA SetAcMaxPerformanceTiered ==
  ASSUME NEW s \in ProfileState, NEW b \in BOOLEAN, NEW lim \in Limits, NEW cfg \in Config,
         Tiered(s)
  PROVE  Tiered(SetAcMaxPerformance(s, b, lim, cfg).new_state)
<1> DEFINE snap == IF s.last_dc_state = None THEN Snapshot(s) ELSE s.last_dc_state
           o == IF ~s.is_ac_connected THEN Output(s, <<PersistState>>)
                ELSE IF b THEN ForceWithSnapshot(s, snap, lim, cfg)
                ELSE IF s.last_dc_state # None THEN RestoreDcState(s, s.last_dc_state)
                ELSE Output(s, <<PersistState>>)
           r == SetAcMaxPerformance(s, b, lim, cfg)
<1>1. snap \in DcSnapshot /\ snap \in {Snapshot(s), s.last_dc_state}
  BY StateFields, SnapshotType
<1>2. \/ o = Output(s, <<PersistState>>)
      \/ o = ForceWithSnapshot(s, snap, lim, cfg)
      \/ s.last_dc_state # None /\ o = RestoreDcState(s, s.last_dc_state)
  OBVIOUS
<1>3. r.new_state \in {s, [o.new_state EXCEPT !.ac_max_performance = b]}
  BY DEF SetAcMaxPerformance, Output
<1> HIDE DEF snap, o, r
<1>4. o.new_state \in ProfileState /\ Tiered(o.new_state)
  <2>1. CASE o = Output(s, <<PersistState>>)
    BY <2>1 DEF Output
  <2>2. CASE o = ForceWithSnapshot(s, snap, lim, cfg)
    BY <1>1, <2>2, ForceWithSnapshotType, ForceTiered DEF OutputOK
  <2>3. CASE s.last_dc_state # None /\ o = RestoreDcState(s, s.last_dc_state)
    BY <2>3, StateFields, RestoreDcType, RestoreTiered DEF OutputOK
  <2>4. QED
    BY <1>2, <2>1, <2>2, <2>3
<1>5. \A n \in ProfileState : Tiered(n) => Tiered([n EXCEPT !.ac_max_performance = b])
  BY FlagsTiered
<1>6. Tiered([o.new_state EXCEPT !.ac_max_performance = b])
  BY <1>4, <1>5
<1>7. Tiered(r.new_state)
  BY <1>3, <1>6
<1>8. QED
  BY <1>7 DEF r

LEMMA ResumedTiered ==
  ASSUME NEW s \in ProfileState, NEW lim \in Limits, NEW cfg \in Config, Tiered(s)
  PROVE  Tiered(SystemResumed(s, lim, cfg).new_state)
<1>1. Tiered(ReassertAll(s).new_state)
  BY SelectionAssumption DEF ReassertAll, Output, ProfileState, Tiered, GpuClock
<1>2. \/ SystemResumed(s, lim, cfg).new_state = ForceAcMaxPerformance(s, lim, cfg).new_state
      \/ s.last_dc_state # None
         /\ SystemResumed(s, lim, cfg).new_state = RestoreDcState(s, s.last_dc_state).new_state
      \/ SystemResumed(s, lim, cfg).new_state = ReassertAll(s).new_state
  BY DEF SystemResumed, Output
<1>3. QED
  BY <1>1, <1>2, ForceTiered, RestoreTiered

\* Only a rollback reports a clock of no tier.
LEMMA ReduceTiered ==
  ASSUME NEW s \in ProfileState, NEW t \in Transition, t.op \notin SyncOps,
         NEW lim \in Limits, NEW cfg \in Config, Tiered(s)
  PROVE  Tiered(Reduce(s, t, lim, cfg).new_state)
<1> DEFINE o == Reduce(s, t, lim, cfg)
<1>0. \A fx : Output(s, fx).new_state = s
  BY DEF Output
<1>1. CASE IsLockedWrite(t) /\ Locked(s)
  BY <1>0, <1>1, ReduceArms
<1>2. CASE IsLockedWrite(t) /\ ~Locked(s)
  BY <1>2, ReduceArms, UserLeverType, UserLeverTiered, PersistedKeeps
<1>3. CASE t.op = "ChargeThresholdChanged" /\ t.charge \in Charge
  BY <1>3, ReduceArms, ChargeThresholdType, FieldLevered, LeveredTiered, PersistedKeeps
<1>4. CASE t.op = "AcPowerChanged" /\ t.plugged \in BOOLEAN
  BY <1>4, ReduceArms, AcPowerChangedTiered
<1>5. CASE t.op = "SetAcMaxPerformance" /\ t.enabled \in BOOLEAN
  BY <1>5, ReduceArms, SetAcMaxPerformanceTiered
<1>6. CASE t.op = "SystemResumed"
  BY <1>6, ReduceArms, ResumedTiered
<1>7. CASE t.op \in {"ConfigReload", "Shutdown"}
  BY <1>0, <1>7, ReduceArms
<1>8. QED
  BY <1>1, <1>2, <1>3, <1>4, <1>5, <1>6, <1>7, OtherTransitions

-----------------------------------------------------------------------------
(* What the state file misses is about to be saved.                        *)

OnDisk(d, s) ==
  [d EXCEPT !.active_profile = s.active_profile,
            !.active_fan_curve = IF @ = None THEN s.active_fan_curve ELSE @]
    = DiskImage(s)

LEMMA OnDiskKept ==
  ASSUME NEW d, NEW s \in ProfileState, NEW n \in ProfileState,
         DiskImage(n) = DiskImage(s), OnDisk(d, s)
  PROVE  OnDisk(d, n)
<1>1. /\ DiskImage(s).active_profile = s.active_profile
      /\ DiskImage(s).active_fan_curve = s.active_fan_curve
      /\ DiskImage(n).active_profile = n.active_profile
      /\ DiskImage(n).active_fan_curve = n.active_fan_curve
  BY DEF DiskImage, ProfileState
<1>2. QED
  BY <1>1 DEF OnDisk

LEMMA OnDiskSaved ==
  ASSUME NEW s \in ProfileState
  PROVE  OnDisk(DiskImage(s), s)
<1>1. DiskImage(s) \in ProfileState
  BY DiskImageType
<1>2. /\ DiskImage(s).active_profile = s.active_profile
      /\ DiskImage(s).active_fan_curve = s.active_fan_curve
  BY DEF DiskImage, ProfileState
<1>3. QED
  BY <1>1, <1>2 DEF OnDisk, ProfileState

\* A step that neither publishes nor dispatches, of which faults may tell.
LEMMA FrameDurable ==
  ASSUME Durable, UNCHANGED <<state, effects, disk>>, phase' \in {phase, "off"},
         durable' \in {durable, disk'},
         faults' = 0 => faults = 0
  PROVE  Durable'
<1>1. Managed'
  BY DEF Durable, Managed
<1>2. Up' => Up
  BY DEF Up
<1>3. SameOnDisk(state)' <=> SameOnDisk(state)
  BY DEF SameOnDisk
<1>4. QED
  BY <1>1, <1>2, <1>3 DEF Durable

\* A published state of the transitions that save what they change.
LEMMA PublishedDurable ==
  ASSUME NEW s \in ProfileState, NEW o, Leads(o, s), Saves(o, s), Tiered(s),
         disk # None => OnDisk(disk, s), UNCHANGED disk, Managed, faults = 0,
         durable' \in {durable, disk'},
         effects' = o.effects, Tiered(o.new_state),
         state' = IF o.ok THEN [o.new_state EXCEPT !.ac_locked = Locked(o.new_state)] ELSE s
  PROVE  Durable'
<1> DEFINE n == o.new_state
           b == Locked(o.new_state)
<1>1. CASE ~o.ok
  <2>1. state' = s
    BY <1>1
  <2>2. SameOnDisk(state)' \/ disk' = None
    BY <2>1 DEF SameOnDisk, OnDisk
  <2>3. QED
    BY <2>1, <2>2 DEF Durable, Managed
<1>2. CASE o.ok
  <2>1. n \in ProfileState /\ b \in BOOLEAN /\ state' = [n EXCEPT !.ac_locked = b]
    BY <1>2 DEF Leads, OutputOK, Locked, ProfileState
  <2> HIDE DEF n, b
  <2>2. /\ DiskImage([n EXCEPT !.ac_locked = b]) = DiskImage(n)
        /\ Tiered([n EXCEPT !.ac_locked = b]) <=> Tiered(n)
    BY <2>1, FlagsOnDisk, FlagsTiered
  <2>3. [n EXCEPT !.ac_locked = b] \in ProfileState
    BY <2>1 DEF ProfileState
  <2>4. DiskImage(state') = DiskImage(n) /\ state' \in ProfileState /\ Tiered(state')
    BY <2>1, <2>2, <2>3 DEF n
  <2>5. Has(effects', SaveOps) \/ DiskImage(n) = DiskImage(s)
    BY <1>2 DEF Saves, n
  <2>6. disk # None /\ DiskImage(n) = DiskImage(s) => OnDisk(disk, state')
    BY <2>4, OnDiskKept
  <2>7. OnDisk(disk', state') => SameOnDisk(state)'
    BY DEF OnDisk, SameOnDisk
  <2>8. Managed'
    BY <2>4 DEF Managed
  <2>9. QED
    BY <2>5, <2>6, <2>7, <2>8 DEF Durable
<1>3. QED
  BY <1>1, <1>2

LEMMA ReduceTransitionDurable ==
  ASSUME TypeOK, LockInv, Sound, Durable, ReduceTransition, durable' \in {durable, disk'},
         \A lim \in DeviceLimits : lim.spl_min # lim.spl_max
  PROVE  Durable'
<1> DEFINE t == Head(queue)
           o == Reduce(state, t, limits, config)
<1>1. /\ phase = "running" /\ queue # <<>> /\ effects = <<>> /\ queue \in Seq(Transition)
      /\ t.op # "SystemResumed" /\ UNCHANGED <<disk, faults>>
      /\ state' = IF o.ok THEN [o.new_state EXCEPT !.ac_locked = Locked(o.new_state)]
                  ELSE state
      /\ effects' = o.effects
  BY DEF ReduceTransition, Receive, Idle, TypeOK, ReduceWith
<1>2. t \in Transition /\ state \in ProfileState /\ limits \in Limits /\ config \in Config
  BY <1>1 DEF TypeOK
<1>3. CASE faults # 0
  BY <1>1, <1>3 DEF Durable, Managed
<1>4. CASE faults = 0
  <2>1. t.op \notin SyncOps
    BY <1>1, <1>4 DEF LockInv, NoSyncQueued
  <2>2. Locked(state) => state.power_target = MaxEnvelope(limits, config)
    BY <1>1, <1>4 DEF LockInv, PinnedWhileLocked, ResumeIsNext, Pinned
  <2>3. Tiered(state) /\ (disk # None => OnDisk(disk, state))
    BY <1>1, <1>4, EmptyList DEF Durable, Managed, SameOnDisk, OnDisk, Up
  <2>4. Savable(state, limits, config)
    BY <2>2, <2>3 DEF Savable, Tiered, Sound
  <2>5. Leads(o, state) /\ Saves(o, state) /\ Tiered(o.new_state)
    BY <1>1, <1>2, <2>1, <2>3, <2>4, ReduceLeads, ReduceTiered
  <2> HIDE DEF o
  <2>6. QED
    BY <1>1, <1>2, <1>4, <2>3, <2>5, PublishedDurable DEF Durable
<1>5. QED
  BY <1>3, <1>4

LEMMA ReduceResumedDurable ==
  ASSUME TypeOK, Durable, ReduceResumed, durable' \in {durable, disk'}
  PROVE  Durable'
<1>1. PICK b \in BOOLEAN, missed \in SUBSET {"ac", "limits"} :
        LET s == [state EXCEPT !.is_ac_connected = b]
            o == SystemResumed(s, limits', config)
        IN  /\ s \in ProfileState /\ limits' \in {limits, hw.limits}
            /\ limits' \in Limits
            /\ IF missed = {} THEN UNCHANGED faults ELSE Fault
            /\ state' = [o.new_state EXCEPT !.ac_locked = Locked(o.new_state)]
            /\ effects' = o.effects
            /\ state'.is_ac_connected = b
  BY ResumedAs
<1> DEFINE s == [state EXCEPT !.is_ac_connected = b]
           o == SystemResumed(s, limits', config)
<1>2. /\ s \in ProfileState /\ limits' \in Limits
      /\ IF missed = {} THEN UNCHANGED faults ELSE Fault
      /\ state' = [o.new_state EXCEPT !.ac_locked = Locked(o.new_state)]
      /\ effects' = o.effects
  BY <1>1
<1>3. /\ effects = <<>> /\ phase = "running" /\ UNCHANGED disk
      /\ state \in ProfileState /\ config \in Config
  BY DEF ReduceResumed, Receive, Idle, TypeOK
<1>4. CASE faults # 0 \/ missed # {}
  <2>1. faults' # 0
    BY <1>2, <1>4 DEF Fault, Faults, TypeOK
  <2>2. QED
    BY <2>1 DEF Durable, Managed
<1>5. CASE faults = 0 /\ missed = {}
  <2>1. Tiered(state) /\ (disk # None => OnDisk(disk, state))
    BY <1>3, <1>5, EmptyList DEF Durable, Managed, SameOnDisk, OnDisk, Up
  <2>2. DiskImage(s) = DiskImage(state) /\ Tiered(s)
    BY <1>3, <2>1, FlagsOnDisk, FlagsTiered
  <2> HIDE DEF s
  <2>3. disk # None => OnDisk(disk, s)
    BY <1>2, <1>3, <2>1, <2>2, OnDiskKept
  <2>4. Leads(o, s) /\ o.ok /\ Saves(o, s) /\ Tiered(o.new_state)
    BY <1>2, <1>3, <2>2, SystemResumedLeads, ResumedTiered DEF Tiered
  <2>5. UNCHANGED disk /\ Managed /\ faults = 0
    BY <1>3, <1>5 DEF Durable
  <2> HIDE DEF o
  <2>6. QED
    BY <1>2, <2>2, <2>3, <2>4, <2>5, PublishedDurable
<1>6. QED
  BY <1>4, <1>5

LEMMA ExecutingDurable ==
  ASSUME TypeOK, LockInv, Sound, Durable, Executing,
         \A lim \in DeviceLimits : lim.spl_min # lim.spl_max
  PROVE  Durable'
<1>0. durable' \in {durable, disk'}
  BY DEF Executing, Surviving
<1>1. CASE ReloadConfig
  BY <1>0, <1>1, FrameDurable DEF ReloadConfig, Receive, Idle
<1>2. CASE ReduceTransition
  BY <1>0, <1>2, ReduceTransitionDurable
<1>3. CASE ReduceResumed
  BY <1>0, <1>3, ReduceResumedDurable
<1>4. CASE ApplyEffect \/ IgnoreEffect
  <2>1. /\ effects \in Seq(Effect) /\ effects # <<>> /\ effects' = Tail(effects)
        /\ Current.op # "PersistState"
        /\ UNCHANGED <<state, phase, disk, faults>>
    BY <1>4, IgnoredIsNoSave DEF ApplyEffect, IgnoreEffect, Dispatch, TypeOK
  <2>2. Has(effects, SaveOps) => Has(effects', SaveOps)
    BY <2>1, RestOfList DEF Current, SaveOps
  <2>3. SameOnDisk(state)' <=> SameOnDisk(state)
    BY <2>1 DEF SameOnDisk
  <2>4. QED
    BY <1>0, <2>1, <2>2, <2>3 DEF Durable, Managed, Up
<1>5. CASE FailEffect \/ SkipGpuRange
  <2>1. faults' # 0
    BY <1>5 DEF FailEffect, SkipGpuRange, Fault, Faults, TypeOK
  <2>2. QED
    BY <2>1 DEF Durable, Managed
<1>6. CASE Persist
  <2>1. CASE disk' = DiskImage(state) /\ UNCHANGED <<state, faults>>
    <3>1. state \in ProfileState
      BY DEF TypeOK
    <3>2. OnDisk(disk', state') /\ (Tiered(disk') <=> Tiered(state))
      BY <2>1, <3>1, OnDiskSaved, FlagsTiered
    <3>3. SameOnDisk(state)'
      BY <3>2 DEF SameOnDisk, OnDisk
    <3>4. Managed'
      BY <1>0, <2>1, <3>2 DEF Durable, Managed
    <3>5. QED
      BY <3>3, <3>4 DEF Durable
  <2>2. CASE faults' # 0
    BY <2>2 DEF Durable, Managed
  <2>3. QED
    BY <1>6, <2>1, <2>2 DEF Persist, Fault, Faults, TypeOK
<1>7. CASE Exit
  BY <1>0, <1>7, FrameDurable DEF Exit
<1>8. QED
  BY <1>1, <1>2, <1>3, <1>4, <1>5, <1>6, <1>7 DEF Executing, ExecutorStep

LEMMA BootDurable ==
  ASSUME TypeOK, Sound, Durable, Boot
  PROVE  Durable'
<1>1. PICK missed \in SUBSET {"file", "target", "charge", "ac"} :
        /\ IF missed = {} THEN UNCHANGED faults ELSE Fault
        /\ state' = BootState(missed)
  BY DEF Boot
<1>2. effects' = <<>> /\ UNCHANGED <<disk, durable>>
  BY DEF Boot
<1>3. CASE faults # 0 \/ missed # {}
  <2>1. faults \in Nat
    BY DEF TypeOK
  <2>2. (UNCHANGED faults /\ faults # 0) \/ faults' = faults + 1
    BY <1>1, <1>3 DEF Fault, Faults
  <2>3. faults' # 0
    BY <2>1, <2>2
  <2>4. QED
    BY <2>3 DEF Durable, Managed
<1>4. CASE faults = 0 /\ missed = {}
  <2> DEFINE loaded == IF disk = None THEN SeededState({}) ELSE disk
             c == "charge" \in Capability /\ ac
  <2>1. loaded \in ProfileState
    BY SeededType DEF TypeOK
  <2>2. state' = [loaded EXCEPT
          !.is_ac_connected = c,
          !.active_fan_curve = IF @ = None THEN DefaultCurve ELSE @,
          !.active_profile = DefaultProfile]
    BY <1>1, <1>4 DEF BootState
  <2>3. Tiered(loaded)
    <3>1. Tiered(SeededState({}))
      BY SelectionAssumption DEF Tiered, SeededState, GpuClock
    <3>2. QED
      BY <1>4, <3>1 DEF Durable, Managed
  <2>4. disk # None => loaded = disk /\ DiskImage(disk) = disk
    BY DEF Sound
  <2> HIDE DEF loaded, c
  <2>5. Tiered(state')
    BY <2>1, <2>2, <2>3 DEF Tiered, ProfileState
  <2>6. disk # None => OnDisk(disk, state')
    <3>1. SUFFICES ASSUME disk # None PROVE OnDisk(disk, state')
      OBVIOUS
    <3>2. /\ state'.active_profile = DefaultProfile
          /\ state'.active_fan_curve = IF disk.active_fan_curve = None THEN DefaultCurve
                                       ELSE disk.active_fan_curve
      BY <2>1, <2>2, <2>4, <3>1 DEF ProfileState
    <3>3. DiskImage(state')
            = [DiskImage(disk) EXCEPT !.active_fan_curve = state'.active_fan_curve,
                                      !.active_profile = DefaultProfile]
      BY <2>1, <2>2, <2>4, <3>1, <3>2 DEF DiskImage, ProfileState
    <3>4. QED
      BY <2>1, <2>4, <3>1, <3>2, <3>3 DEF OnDisk, ProfileState
  <2>7. disk' # None => SameOnDisk(state)'
    BY <1>2, <2>6 DEF SameOnDisk, OnDisk
  <2>8. Managed'
    BY <1>2, <1>4, <2>5 DEF Durable, Managed
  <2>9. QED
    BY <2>7, <2>8 DEF Durable
<1>5. QED
  BY <1>3, <1>4

LEMMA NextDurable ==
  ASSUME TypeOK, LockInv, Sound, Durable, [Next]_vars,
         \A lim \in DeviceLimits : lim.spl_min # lim.spl_max
  PROVE  Durable'
<1>1. CASE UNCHANGED vars
  BY <1>1, FrameDurable DEF vars, executorVars
<1>2. CASE Executing
  BY <1>2, ExecutingDurable
<1>3. CASE Producers
  <2>1. UNCHANGED <<state, effects, disk, durable, phase>>
    BY <1>3 DEF Producers, RequestStep, Terminate, MonitorSeed, MonitorSeedUnread, MonitorRead, MonitorSend,
       ForwardResume, MissResume, executorVars
  <2>2. UNCHANGED faults \/ Fault
    BY <1>3 DEF Producers, RequestStep, Terminate, MonitorSeed, MonitorSeedUnread, MonitorRead, MonitorSend,
       ForwardResume, MissResume, executorVars
  <2>3. faults' = 0 => faults = 0
    BY <2>2 DEF Fault, Faults, TypeOK
  <2>4. QED
    BY <2>1, <2>3, FrameDurable
<1>4. CASE ChargerEdge \/ Sleep \/ Crash \/ PowerCycle
  <2>1. UNCHANGED <<state, durable, faults>> /\ disk' \in {disk, durable}
    BY <1>4 DEF ChargerEdge, Sleep, Crash, PowerCycle, historyVars
  <2>2. UNCHANGED <<effects, disk, phase>> \/ phase' = "off"
    BY <1>4 DEF ChargerEdge, Sleep, Crash, PowerCycle
  <2>3. CASE UNCHANGED <<effects, disk, phase>>
    BY <2>1, <2>3, FrameDurable
  <2>4. CASE phase' = "off"
    BY <2>1, <2>4 DEF Durable, Managed, Up
  <2>5. QED
    BY <2>2, <2>3, <2>4
<1>5. CASE Boot
  BY <1>5, BootDurable
<1>6. QED
  BY <1>1, <1>2, <1>3, <1>4, <1>5 DEF Next, World

LEMMA InitDurable == Init => Durable
<1> SUFFICES ASSUME Init PROVE Durable
  OBVIOUS
<1>1. Tiered(SeededState({}))
  BY SelectionAssumption DEF Tiered, SeededState, GpuClock
<1>2. QED
  BY <1>1 DEF Init, Durable, Managed

\* Between transitions, and until a write fails, nothing that was reported is
\* held in memory only: every transition that changes what the state file
\* holds ends with PersistState, and boots and resumes report nothing that the
\* file does not give again.  A range of a single value is left out: there
\* the quiet defaults of an unplug follow the fan without writing, or saving.
THEOREM IdleDurable ==
  ASSUME \A lim \in DeviceLimits : lim.spl_min # lim.spl_max
  PROVE  Spec => []IdleIsDurable
<1>1. Init => Durable
  BY InitDurable
<1>2. TypeOK /\ LockInv /\ ConvergeInv /\ Durable /\ [Next]_vars => Durable'
  BY NextDurable DEF ConvergeInv
<1>3. Spec => []TypeOK
  BY DaemonTypes
<1>4. Spec => []LockInv
  BY LockInvariant
<1>5. Spec => []ConvergeInv
  BY ConvergeInvariant
<1>6. Durable => IdleIsDurable
  BY EmptyList DEF Durable, IdleIsDurable, Idle, Up
<1>7. QED
  BY <1>1, <1>2, <1>3, <1>4, <1>5, <1>6, PTL DEF Spec
=============================================================================
