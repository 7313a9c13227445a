------------------------------ MODULE Devices ------------------------------
(***************************************************************************)
(* The device as the executor sees it through the backends: what a write   *)
(* that succeeds, and one that fails part way, leaves behind, and what a   *)
(* read then reports.  Backends refines it to the sysfs operations.        *)
(*                                                                         *)
(* The enforced flag is the part no backend can read: whether the embedded *)
(* controller still enforces the envelope that sysfs reports.              *)
(***************************************************************************)
EXTENDS Reducer

CONSTANT MixedCurve  \* what a half-written fan table reads back as

ASSUME MixedCurveAssumption == MixedCurve \in CustomCurve

Hardware ==
  [envelope : Envelope, enforced : BOOLEAN, profile : Profile, charge : Charge,
   curve : Curve \cup {None}, gpu : GpuClock \cup {None}, limits : Limits]

-----------------------------------------------------------------------------
\* set_target truncates to whole watts and leaves FPPT alone when the target
\* has none.
WrittenEnvelope(old, e) ==
  [spl |-> WholeWatts(e.spl), sppt |-> WholeWatts(e.sppt),
   fppt |-> IF e.fppt = NoFppt THEN old.fppt ELSE WholeWatts(e.fppt)]

\* A profile write that changes the value makes the controller drop the
\* envelope and the fan curve; a same-value write may do so.
DropsControl(h) == [h EXCEPT !.enforced = FALSE, !.curve = None]

Written(h, e) ==
  CASE e.op = "ApplyPowerEnvelope" ->
         {[h EXCEPT !.envelope = WrittenEnvelope(h.envelope, e.target), !.enforced = TRUE]}
    [] e.op = "ApplyPlatformProfile" ->
         {DropsControl([h EXCEPT !.profile = e.profile])}
           \cup (IF h.profile = e.profile THEN {h} ELSE {})
    [] e.op = "ApplyChargeThreshold" -> {[h EXCEPT !.charge = e.charge]}
    [] e.op = "ApplyFanCurve"        -> {[h EXCEPT !.curve = e.curve]}
    [] e.op = "ResetFanCurve"        -> {[h EXCEPT !.curve = None]}
    [] e.op = "ApplyGpuClockRange"   -> {[h EXCEPT !.gpu = e.tier]}
    [] e.op = "ResetGpuClocks"       -> {[h EXCEPT !.gpu = None]}

\* Where a write that failed, or that a crash cut short, can leave the device.
\* set_target writes SPL, then SPPT, then FPPT.  apply writes the curve's points
\* before enabling it, so a live curve is left mixed, as is one the controller
\* stored otherwise than asked; a controller that stored nothing is left with the
\* curve its table still held.  set_range tries to hand the clock back to auto,
\* which may fail as well.
HalfWritten(h, e) ==
  CASE e.op = "ApplyPowerEnvelope" ->
         LET w == WrittenEnvelope(h.envelope, e.target) IN
         {h, [h EXCEPT !.envelope = [@ EXCEPT !.spl = w.spl]]}
           \cup IF e.target.fppt = NoFppt THEN {}
                ELSE {[h EXCEPT !.envelope = [@ EXCEPT !.spl = w.spl, !.sppt = w.sppt]]}
    [] e.op \in {"ApplyPlatformProfile", "ApplyChargeThreshold"} -> {h}
    [] e.op = "ApplyFanCurve" ->
         {h} \cup {[h EXCEPT !.curve = c] : c \in Curve}
    [] e.op = "ResetFanCurve"      -> {h, [h EXCEPT !.curve = None]}
    [] e.op = "ApplyGpuClockRange" ->
         {h} \cup {[h EXCEPT !.gpu = g] : g \in {None, Unmanaged, e.tier}}
    [] e.op = "ResetGpuClocks"     ->
         {h} \cup IF h.gpu = None THEN {} ELSE {[h EXCEPT !.gpu = Unmanaged]}

\* The Sync* transition rollback builds from what the hardware reports.
SyncOf(h, e) ==
  CASE e.op = "ApplyPowerEnvelope" -> [op |-> "SyncPowerTarget", target |-> h.envelope]
    [] e.op = "ApplyPlatformProfile" -> [op |-> "SyncPlatformProfile", profile |-> h.profile]
    [] e.op = "ApplyChargeThreshold" -> [op |-> "SyncChargeThreshold", charge |-> h.charge]
    [] e.op \in {"ApplyFanCurve", "ResetFanCurve"} ->
         [op |-> "SyncFanCurve", curve |-> h.curve]
    [] e.op \in {"ApplyGpuClockRange", "ResetGpuClocks"} ->
         [op |-> "SyncGpuClockRange", gpu |-> IF h.gpu = None THEN None ELSE Unmanaged]
=============================================================================
