------------------------------ MODULE Backends ------------------------------
(***************************************************************************)
(* The ASUS backends, one sysfs operation per step: the three rails of     *)
(* set_target with their settle retry, the fan tables written point by     *)
(* point, enabled and read back, the amdgpu clock switched to manual,      *)
(* staged, committed, confirmed and, on any failure, released, the         *)
(* platform profile and the charge threshold; and the state file, written  *)
(* beside the old one, synced and renamed over it.  Any operation may      *)
(* fail; the embedded controller and the driver may also accept a fan      *)
(* point or a clock and not store it, which is what the read-backs are     *)
(* for; and power may be lost, of which only the file's side is here.      *)
(***************************************************************************)
EXTENDS Devices

CONSTANTS
  Points,       \* FAN_CURVE_POINTS, 8 in the code
  Choices,      \* platform_profile_choices
  InvalidCurve, \* custom curves the model's constraints reject
  Stock,        \* what tables and clocks hold that nobody asked for
  Calls,        \* the effects the executor calls with
  DeviceRange,  \* the limits the firmware advertises
  MaxCalls,     \* bounds on calls
  MaxFaults     \* and on operations that fail

Rail == {"spl", "sppt", "fppt"}

ASSUME BackendAssumption ==
  /\ Points \in Nat \ {0}
  /\ {"balanced", "performance"} \cup CustomProfile \subseteq Choices
  /\ Choices \cap {"quiet", "low-power"} # {}
  /\ CustomProfile \cap {"quiet", "low-power", "balanced", "performance"} = {}
  /\ InvalidCurve \subseteq CustomCurve
  /\ Stock \notin Curve
  /\ Calls \subseteq Effect
  /\ \A e \in Calls : e.op = "ApplyPowerEnvelope" =>
       \A r \in Rail : e.target[r] <= MaxMilliwatts
  /\ DeviceRange \in Limits
  /\ MaxCalls \in Nat
  /\ MaxFaults \in Nat

VARIABLES
  dev,      \* the sysfs nodes
  file,     \* state.toml and its temporary neighbour
  call,     \* the effect being applied, or NoCall
  pc,       \* the next operation of the call
  failed,   \* operations of the call that failed
  entry,    \* history: the device when the call began
  outcome,  \* how the last call ended
  begun,    \* calls so far
  faults    \* failed operations so far

vars == <<dev, file, call, pc, failed, entry, outcome, begun, faults>>

NoCall == [op |-> "none"]

Rails == <<"spl", "sppt", "fppt">>
Fan == {"cpu", "gpu"}
Fans == <<"cpu", "gpu">>

\* A table entry or a clock bound is known by the curve or tier it belongs to.
Point == [temp : Curve \cup {Stock}, pwm : Curve \cup {Stock}]
Clock == [min : Tier \cup {Stock}, max : Tier \cup {Stock}]

Sysfs ==
  [rails : [Rail -> 0..AsWatts(MaxMilliwatts)], enforced : BOOLEAN,
   profile : Choices, charge : Charge,
   mode : [Fan -> {"auto", "custom"}], table : [Fan -> [1..Points -> Point]],
   level : {"auto", "manual"}, staged : Clock, committed : Clock, limits : Limits]

\* A file's content is known by the call that wrote it.
Torn == -1

Content == [image : {Torn} \cup Nat, synced : BOOLEAN]

\* The names' contents, and what the directory on the disk still says of
\* state.toml: a rename reaches it some time later.
Files == [state : Content, tmp : Content, durable : Content]

-----------------------------------------------------------------------------
(* What the backends read: get_target, get_active_profile,                 *)
(* get_end_threshold, active_selection (which asks the CPU fan only for    *)
(* the mode) and active_range.                                             *)

ParseProfile(s) ==
  CASE s \in {"quiet", "low-power"} -> "PowerSaver"
    [] s = "balanced"              -> "Balanced"
    [] s = "performance"           -> "Performance"
    [] OTHER                       -> s

Whole(table, c) == \A k \in 1..Points : table[k] = [temp |-> c, pwm |-> c]

Stored(d, c) == \A f \in Fan : Whole(d.table[f], c)

ActiveSelection(d) ==
  IF d.mode["cpu"] = "auto" THEN None
  ELSE IF \E c \in Curve : Stored(d, c) THEN CHOOSE c \in Curve : Stored(d, c)
  ELSE MixedCurve

ActiveRange(d) ==
  IF d.level = "auto" THEN None
  ELSE IF d.committed.min = d.committed.max /\ d.committed.min \in Tier
  THEN d.committed.min
  ELSE Unmanaged

HardwareOf(d) ==
  [envelope |-> [rail \in Rail |-> FromWatts(d.rails[rail])],
   enforced |-> d.enforced, profile |-> ParseProfile(d.profile), charge |-> d.charge,
   curve |-> ActiveSelection(d), gpu |-> ActiveRange(d), limits |-> d.limits]

-----------------------------------------------------------------------------
(* The steps of a call.                                                    *)

At(op, place) == call.op \in op /\ pc.at = place

GotoNth(place, n) == pc' = [at |-> place, n |-> n] /\ UNCHANGED <<call, entry, outcome, begun>>

Goto(place) == GotoNth(place, 1)

Again == GotoNth(pc.at, pc.n + 1)

Return(how) ==
  /\ outcome' = how
  /\ call' = NoCall
  /\ pc' = [at |-> "idle", n |-> 1]
  /\ UNCHANGED <<entry, begun>>

Works == UNCHANGED <<faults, failed>>

Fault == faults < MaxFaults /\ faults' = faults + 1 /\ failed' = failed + 1

\* A failed operation that touches nothing and ends the call.
Aborts == Fault /\ Return("error") /\ UNCHANGED dev

FirstStep(e) ==
  CASE e.op = "ApplyPowerEnvelope"   -> "rail"
    [] e.op = "ApplyPlatformProfile" -> "profile"
    [] e.op = "ApplyChargeThreshold" -> "threshold"
    [] e.op = "ApplyFanCurve"        -> "resolve"
    [] e.op = "ResetFanCurve"        -> "mode"
    [] e.op = "ApplyGpuClockRange"   -> "constraints"
    [] e.op = "ResetGpuClocks"       -> "release"
    [] e.op = "PersistState"         -> "create"

Begin ==
  /\ call = NoCall
  /\ begun < MaxCalls
  /\ begun' = begun + 1
  /\ call' \in Calls
  /\ pc' = [at |-> FirstStep(call'), n |-> 1]
  /\ failed' = 0
  /\ entry' = dev
  /\ UNCHANGED <<dev, file, outcome, faults>>

-----------------------------------------------------------------------------
(* set_target.  A boost rail gets a second try.                            *)

LastRail == IF call.target.fppt = NoFppt THEN 2 ELSE 3

\* Mutated WriteRail: milliwatts where the kernel takes watts.
WriteRailMilliwatts ==
  /\ call.op = "ApplyPowerEnvelope"
  /\ dev' = [dev EXCEPT !.rails[Rails[pc.n]] = call.target[Rails[pc.n]],
                        !.enforced = @ \/ pc.n = LastRail]
  /\ IF pc.n = LastRail THEN Return("ok") ELSE GotoNth("rail", pc.n + 1)
  /\ Works

\* The controller enforces the envelope once all of it has been written.
WriteRail ==
  /\ call.op = "ApplyPowerEnvelope"
  /\ dev' = [dev EXCEPT !.rails[Rails[pc.n]] = AsWatts(call.target[Rails[pc.n]]),
                        !.enforced = @ \/ pc.n = LastRail]
  /\ IF pc.n = LastRail THEN Return("ok") ELSE GotoNth("rail", pc.n + 1)
  /\ Works

FailRail ==
  /\ call.op = "ApplyPowerEnvelope"
  /\ IF pc.at = "rail" /\ pc.n > 1
     THEN Fault /\ GotoNth("retry", pc.n) /\ UNCHANGED dev
     ELSE Aborts

-----------------------------------------------------------------------------
(* set_active_profile and set_end_threshold.                               *)

TargetString(p) ==
  CASE p = "PowerSaver" -> IF "quiet" \in Choices THEN "quiet"
                           ELSE IF "low-power" \in Choices THEN "low-power"
                           ELSE "balanced"
    [] p = "Balanced"    -> "balanced"
    [] p = "Performance" -> "performance"
    [] OTHER             -> p

\* The controller drops the envelope and the curve when the profile changes,
\* and may when it does not.
LosesControl(d) ==
  [d EXCEPT !.enforced = FALSE, !.mode = [f \in Fan |-> "auto"]]

WriteProfile ==
  /\ At({"ApplyPlatformProfile"}, "profile")
  /\ LET written == [dev EXCEPT !.profile = TargetString(call.profile)] IN
     \/ dev' = LosesControl(written)
     \/ written = dev /\ dev' = dev
  /\ Return("ok")
  /\ Works

WriteThreshold ==
  /\ At({"ApplyChargeThreshold"}, "threshold")
  /\ dev' = [dev EXCEPT !.charge = call.charge]
  /\ Return("ok")
  /\ Works

FailWrite ==
  \/ At({"ApplyPlatformProfile"}, "profile") /\ Aborts
  \/ At({"ApplyChargeThreshold"}, "threshold") /\ Aborts

-----------------------------------------------------------------------------
(* apply and reset_to_auto of the fan curve.                               *)

ResolveCurve ==
  /\ At({"ApplyFanCurve"}, "resolve")
  /\ IF call.curve \in InvalidCurve THEN Return("error") ELSE Goto("point")
  /\ Works
  /\ UNCHANGED dev

\* The CPU fan's points, then the GPU fan's; of each point the temperature,
\* then the duty.
LastPoint == 4 * Points
FanAt(n) == Fans[1 + (n - 1) \div (2 * Points)]
PointAt(n) == 1 + ((n - 1) % (2 * Points)) \div 2
StorePoint(d, n, c) ==
  IF n % 2 = 1 THEN [d EXCEPT !.table[FanAt(n)][PointAt(n)].temp = c]
  ELSE [d EXCEPT !.table[FanAt(n)][PointAt(n)].pwm = c]

\* Mutated WritePoint: the fans are enabled before the last point.
WritePointShort ==
  /\ At({"ApplyFanCurve"}, "point")
  /\ \/ dev' = StorePoint(dev, pc.n, call.curve) /\ Works
     \/ Fault /\ UNCHANGED dev
  /\ IF pc.n = LastPoint - 1 THEN Goto("mode") ELSE Again

\* The controller may take a value and not store it.
WritePoint ==
  /\ At({"ApplyFanCurve"}, "point")
  /\ \/ dev' = StorePoint(dev, pc.n, call.curve) /\ Works
     \/ Fault /\ UNCHANGED dev
  /\ IF pc.n = LastPoint THEN Goto("mode") ELSE Again

\* Mutated SwitchFan: the CPU fan only.
SwitchFanOne ==
  /\ At({"ApplyFanCurve", "ResetFanCurve"}, "mode")
  /\ dev' = [dev EXCEPT !.mode["cpu"] = IF call.op = "ApplyFanCurve" THEN "custom" ELSE "auto"]
  /\ IF call.op = "ApplyFanCurve" THEN Goto("confirm") ELSE Return("ok")
  /\ Works

SwitchFan ==
  /\ At({"ApplyFanCurve", "ResetFanCurve"}, "mode")
  /\ dev' = [dev EXCEPT !.mode[Fans[pc.n]] =
               IF call.op = "ApplyFanCurve" THEN "custom" ELSE "auto"]
  /\ IF pc.n = 1 THEN Again
     ELSE IF call.op = "ApplyFanCurve" THEN Goto("confirm")
     ELSE Return("ok")
  /\ Works

\* Mutated ConfirmCurve: whatever the controller stored is a success.
ConfirmCurveUnread ==
  /\ At({"ApplyFanCurve"}, "confirm")
  /\ Return("ok")
  /\ Works
  /\ UNCHANGED dev

ConfirmCurve ==
  /\ At({"ApplyFanCurve"}, "confirm")
  /\ Return(IF Stored(dev, call.curve) THEN "ok" ELSE "error")
  /\ Works
  /\ UNCHANGED dev

FailFan == call.op \in {"ApplyFanCurve", "ResetFanCurve"} /\ Aborts

-----------------------------------------------------------------------------
(* set_range and reset_to_auto of the GPU clock.  "release" and "auto" are *)
(* reset_to_auto, of its own or as the cleanup of a set_range that failed. *)

Clocked == {"ApplyGpuClockRange"}

ReadConstraints ==
  /\ At(Clocked, "constraints")
  /\ Goto(IF dev.level = "manual" THEN "min" ELSE "manual")
  /\ Works
  /\ UNCHANGED dev

SetManual ==
  /\ At(Clocked, "manual")
  /\ dev' = [dev EXCEPT !.level = "manual"]
  /\ Goto("min")
  /\ Works

StageMin ==
  /\ At(Clocked, "min")
  /\ dev' = [dev EXCEPT !.staged.min = call.tier]
  /\ Goto("max")
  /\ Works

StageMax ==
  /\ At(Clocked, "max")
  /\ dev' = [dev EXCEPT !.staged.max = call.tier]
  /\ Goto("commit")
  /\ Works

\* The driver may take the commit and keep its clocks.
Commit ==
  /\ At(Clocked, "commit")
  /\ \/ dev' = [dev EXCEPT !.committed = dev.staged] /\ Works
     \/ Fault /\ UNCHANGED dev
  /\ Goto("confirm")

ConfirmClock ==
  /\ At(Clocked, "confirm")
  /\ IF dev.committed = [min |-> call.tier, max |-> call.tier]
     THEN Return("ok") /\ Works
     ELSE Goto("release") /\ Works
  /\ UNCHANGED dev

\* Mutated FailClock: returns at once, without the cleanup.
FailClockBare == call.op = "ApplyGpuClockRange" /\ Aborts

\* Unreadable constraints return at once; everything later cleans up first.
FailClock ==
  /\ call.op = "ApplyGpuClockRange"
  /\ pc.at \notin {"release", "auto"}
  /\ IF pc.at = "constraints" THEN Aborts ELSE Fault /\ Goto("release") /\ UNCHANGED dev

Release ==
  /\ pc.at = "release"
  /\ dev' = [dev EXCEPT !.staged = [min |-> Stock, max |-> Stock],
                        !.committed = [min |-> Stock, max |-> Stock]]
  /\ Goto("auto")
  /\ Works

SetAuto ==
  /\ pc.at = "auto"
  /\ dev' = [dev EXCEPT !.level = "auto"]
  /\ Return(IF call.op = "ResetGpuClocks" THEN "ok" ELSE "error")
  /\ Works

FailRelease == pc.at \in {"release", "auto"} /\ Aborts

-----------------------------------------------------------------------------
(* StatePersister::save.  Its failures are logged and not returned.        *)

CreateTmp ==
  /\ pc.at = "create"
  /\ file' = [file EXCEPT !.tmp = [image |-> Torn, synced |-> FALSE]]
  /\ Goto("write")
  /\ Works

WriteTmp ==
  /\ pc.at = "write"
  /\ file' = [file EXCEPT !.tmp.image = begun]
  /\ Goto("sync")
  /\ Works

\* Mutated SyncTmp: the bytes are left to the page cache.
SyncTmpNever ==
  /\ pc.at = "sync"
  /\ UNCHANGED file
  /\ Goto("rename")
  /\ Works

SyncTmp ==
  /\ pc.at = "sync"
  /\ file' = [file EXCEPT !.tmp.synced = TRUE]
  /\ Goto("rename")
  /\ Works

RenameTmp ==
  /\ pc.at = "rename"
  /\ file' = [file EXCEPT !.state = file.tmp]
  /\ Return("ok")
  /\ Works

FailSave == call.op = "PersistState" /\ Fault /\ Return("ok") /\ UNCHANGED file

\* The file system gets round to the directory.
CommitDirectory ==
  /\ file' = [file EXCEPT !.durable = file.state]
  /\ file' # file
  /\ UNCHANGED <<dev, call, pc, failed, entry, outcome, begun, faults>>

Surviving(content) == IF content.synced THEN content ELSE [image |-> Torn, synced |-> TRUE]

LosePower ==
  /\ Fault
  /\ Return("crash")
  /\ \E c \in {file.state, file.durable} :
       file' = [file EXCEPT !.state = Surviving(c), !.durable = Surviving(c),
                            !.tmp = Surviving(@)]
  /\ UNCHANGED dev

-----------------------------------------------------------------------------
\* The daemon dies in the middle of a call.
Die ==
  /\ call # NoCall
  /\ Fault
  /\ Return("crash")
  /\ UNCHANGED <<dev, file>>

\* Between calls the controller may lose the envelope and the curve.
Lose ==
  /\ call = NoCall
  /\ dev' = LosesControl(dev)
  /\ UNCHANGED <<file, call, pc, failed, entry, outcome, begun, faults>>

Init ==
  /\ dev = [rails |-> [r \in Rail |-> AsWatts(MaxMilliwatts)],
            enforced |-> TRUE, profile |-> "balanced", charge |-> DefaultCharge,
            mode |-> [f \in Fan |-> "auto"],
            table |-> [f \in Fan |-> [k \in 1..Points |-> [temp |-> Stock, pwm |-> Stock]]],
            level |-> "auto", staged |-> [min |-> Stock, max |-> Stock],
            committed |-> [min |-> Stock, max |-> Stock],
            limits |-> DeviceRange]
  /\ file = [f \in {"state", "tmp", "durable"} |-> [image |-> 0, synced |-> TRUE]]
  /\ call = NoCall
  /\ pc = [at |-> "idle", n |-> 1]
  /\ failed = 0
  /\ entry = dev
  /\ outcome = "ok"
  /\ begun = 0
  /\ faults = 0

DeviceStep ==
  \/ WriteRail \/ FailRail
  \/ WriteProfile \/ WriteThreshold \/ FailWrite
  \/ ResolveCurve \/ WritePoint \/ SwitchFan \/ ConfirmCurve \/ FailFan
  \/ ReadConstraints \/ SetManual \/ StageMin \/ StageMax \/ Commit \/ ConfirmClock
  \/ FailClock \/ Release \/ SetAuto \/ FailRelease

FileStep == CreateTmp \/ WriteTmp \/ SyncTmp \/ RenameTmp \/ FailSave

Next ==
  \/ Begin
  \/ DeviceStep /\ UNCHANGED file
  \/ FileStep /\ UNCHANGED dev
  \/ Die \/ Lose \/ CommitDirectory \/ LosePower

Spec == Init /\ [][Next]_vars

-----------------------------------------------------------------------------
(* Properties.                                                             *)

Place ==
  {"idle", "rail", "retry", "profile", "threshold", "resolve", "point", "mode", "constraints",
   "manual", "min", "max", "commit", "confirm", "release", "auto", "create", "write", "sync",
   "rename"}

\* The type invariant: the rails hold watts.
TypeOK ==
  /\ dev \in Sysfs /\ entry \in Sysfs /\ file \in Files
  /\ call \in Calls \cup {NoCall}
  /\ pc \in [at : Place, n : 1..LastPoint]
  /\ failed \in 0..MaxFaults /\ faults \in 0..MaxFaults /\ begun \in 0..MaxCalls
  /\ outcome \in {"ok", "error", "crash"}

\* Every call, whatever fails in it and whenever the daemon dies, is one of
\* the outcomes the executor's rollback was written for: a success that stored
\* what was asked, or one of the half-written devices of HalfWritten.
Promised ==
  INSTANCE DeviceCalls WITH
    hw <- IF call = NoCall THEN HardwareOf(dev) ELSE HardwareOf(entry)

KeepsPromise == Promised!Spec

\* Wherever power is lost, even inside a save or before the directory with
\* its rename has reached the disk, the file the next boot loads is one that
\* some save wrote whole.
StateFileWhole ==
  \A c \in {file.state, file.durable} : Surviving(c).image # Torn

\* The points come before the switches: in a fan call in which nothing has
\* failed, and that found both fans in auto, a fan is enabled only once its
\* whole table is the one asked for.  Two half-written tables are outside: a
\* value the controller takes without storing is found by the read-back, but
\* only after both fans were enabled and without disabling them again; and a
\* fan that already runs a custom curve is rewritten while it does.
EnabledWhole ==
  call.op = "ApplyFanCurve" /\ failed = 0 /\ entry.mode = [f \in Fan |-> "auto"] =>
    \A f \in Fan : dev.mode[f] = "custom" => Whole(dev.table[f], call.curve)

\* After a fan call that succeeds both fans are in the same mode, although
\* what is reported is read from the CPU fan's mode alone.
FansAgree ==
  [][ call.op \in {"ApplyFanCurve", "ResetFanCurve"} /\ call' = NoCall /\ outcome' = "ok"
      => dev'.mode["cpu"] = dev'.mode["gpu"] ]_vars

\* A set_range that fails never leaves the clock in manual mode with a range
\* that was not committed whole, unless its cleanup fails as well: the clock is
\* back in auto, or nothing was touched.
FailedClockReleased ==
  [][ call.op = "ApplyGpuClockRange" /\ call' = NoCall /\ outcome' = "error" /\ failed' <= 1
      => dev'.level = "auto" \/ dev' = entry ]_vars
=============================================================================
