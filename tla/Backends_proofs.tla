--------------------------- MODULE Backends_proofs --------------------------
(***************************************************************************)
(* A proof about the state file, for any calls, failures and power losses. *)
(***************************************************************************)
EXTENDS Backends, TLAPS

Saved(content) == content.synced /\ content.image # Torn

\* Both contents that state.toml may have are whole and on the disk; the
\* temporary neighbour has its bytes before the sync and is as good as they
\* are after it.
FileSafe ==
  /\ file \in Files
  /\ begun \in Nat
  /\ Saved(file.state) /\ Saved(file.durable)
  /\ pc.at = "sync" => file.tmp.image # Torn
  /\ pc.at = "rename" => Saved(file.tmp)

Saving == {"sync", "rename"}

LEMMA TornTypes == Torn \in Int /\ \A n \in Nat : n # Torn
  BY DEF Torn

LEMMA FileFields ==
  ASSUME file \in Files
  PROVE  /\ file.state \in Content /\ file.tmp \in Content /\ file.durable \in Content
         /\ file = [state |-> file.state, tmp |-> file.tmp, durable |-> file.durable]
  BY DEF Files

LEMMA ContentFields ==
  ASSUME NEW c \in Content
  PROVE  c = [image |-> c.image, synced |-> c.synced] /\ c.image \in {Torn} \cup Nat
           /\ c.synced \in BOOLEAN
  BY DEF Content

\* Every step that leaves the file alone and is not about to touch it.
LEMMA ElsewhereSafe ==
  ASSUME FileSafe, UNCHANGED file, begun' \in Nat, pc'.at \notin Saving
  PROVE  FileSafe'
  BY DEF FileSafe, Saving, Saved

LEMMA ReturnSafe ==
  ASSUME FileSafe, UNCHANGED file, NEW how, Return(how)
  PROVE  FileSafe'
  BY ElsewhereSafe DEF Return, Saving, FileSafe

LEMMA GotoSafe ==
  ASSUME FileSafe, UNCHANGED file, NEW place, NEW n, place \notin Saving, GotoNth(place, n)
  PROVE  FileSafe'
  BY ElsewhereSafe DEF GotoNth, FileSafe

LEMMA BeginSafe ==
  ASSUME FileSafe, Begin
  PROVE  FileSafe'
<1>1. call' \in Effect
  BY BackendAssumption DEF Begin
<1>2. call'.op \in {"ApplyPowerEnvelope", "ApplyPlatformProfile", "ApplyChargeThreshold",
                   "ApplyFanCurve", "ApplyGpuClockRange", "ResetFanCurve",
                   "ResetGpuClocks", "PersistState"}
  BY <1>1 DEF Effect, Bare
<1>3. FirstStep(call') \notin Saving
  BY <1>2 DEF FirstStep, Saving
<1>4. QED
  BY <1>3, ElsewhereSafe DEF Begin, FileSafe

LEMMA DeviceSafe ==
  ASSUME FileSafe, DeviceStep, UNCHANGED file
  PROVE  FileSafe'
<1>1. CASE WriteRail \/ FailRail
  BY <1>1, ReturnSafe, GotoSafe DEF WriteRail, FailRail, Aborts, Saving
<1>2. CASE WriteProfile \/ WriteThreshold \/ FailWrite
  BY <1>2, ReturnSafe DEF WriteProfile, WriteThreshold, FailWrite, Aborts
<1>3. CASE ResolveCurve \/ WritePoint \/ SwitchFan \/ ConfirmCurve \/ FailFan
  BY <1>3, ReturnSafe, GotoSafe
     DEF ResolveCurve, WritePoint, SwitchFan, ConfirmCurve, FailFan, Aborts, Goto, Again, At, Saving
<1>4. CASE ReadConstraints \/ SetManual \/ StageMin \/ StageMax \/ Commit \/ ConfirmClock
  BY <1>4, ReturnSafe, GotoSafe
     DEF ReadConstraints, SetManual, StageMin, StageMax, Commit, ConfirmClock, Goto, Saving
<1>5. CASE FailClock \/ Release \/ SetAuto \/ FailRelease
  BY <1>5, ReturnSafe, GotoSafe
     DEF FailClock, Release, SetAuto, FailRelease, Aborts, Goto, Saving
<1>6. QED
  BY <1>1, <1>2, <1>3, <1>4, <1>5 DEF DeviceStep

LEMMA SaveSafe ==
  ASSUME FileSafe, FileStep
  PROVE  FileSafe'
<1>1. /\ file \in Files /\ file.state \in Content /\ file.tmp \in Content
      /\ file.durable \in Content /\ file.tmp.image \in {Torn} \cup Nat
      /\ file.tmp.synced \in BOOLEAN /\ begun \in Nat
  BY FileFields, ContentFields DEF FileSafe
<1>2. ASSUME NEW tmp \in Content, file' = [file EXCEPT !.tmp = tmp]
      PROVE  /\ file' \in Files /\ file'.tmp = tmp
             /\ file'.state = file.state /\ file'.durable = file.durable
  BY <1>1, <1>2 DEF Files
<1>3. CASE CreateTmp
  <2>1. [image |-> Torn, synced |-> FALSE] \in Content
    BY DEF Content
  <2>2. QED
    BY <1>1, <1>2, <1>3, <2>1 DEF CreateTmp, Goto, GotoNth, FileSafe, Saved
<1>4. CASE WriteTmp
  <2>1. [file.tmp EXCEPT !.image = begun] \in Content
        /\ [file.tmp EXCEPT !.image = begun].image = begun
    BY <1>1 DEF Content
  <2>2. file' = [file EXCEPT !.tmp = [file.tmp EXCEPT !.image = begun]]
    BY <1>4 DEF WriteTmp
  <2>3. QED
    BY <1>1, <1>2, <1>4, <2>1, <2>2, TornTypes DEF WriteTmp, Goto, GotoNth, FileSafe, Saved
<1>5. CASE SyncTmp
  <2>1. /\ [file.tmp EXCEPT !.synced = TRUE] \in Content
        /\ [file.tmp EXCEPT !.synced = TRUE].image = file.tmp.image
        /\ [file.tmp EXCEPT !.synced = TRUE].synced
    BY <1>1 DEF Content
  <2>2. file' = [file EXCEPT !.tmp = [file.tmp EXCEPT !.synced = TRUE]]
    BY <1>5 DEF SyncTmp
  <2>3. QED
    BY <1>1, <1>2, <1>5, <2>1, <2>2 DEF SyncTmp, Goto, GotoNth, FileSafe, Saved
<1>6. CASE RenameTmp
  <2>1. /\ file' \in Files /\ file'.state = file.tmp /\ file'.tmp = file.tmp
        /\ file'.durable = file.durable
    BY <1>1, <1>6 DEF RenameTmp, Files
  <2>2. pc.at = "rename" /\ pc'.at = "idle" /\ begun' = begun
    BY <1>6 DEF RenameTmp, Return
  <2>3. QED
    BY <1>1, <2>1, <2>2 DEF FileSafe, Saved
<1>7. CASE FailSave
  BY <1>7, ReturnSafe DEF FailSave
<1>8. QED
  BY <1>3, <1>4, <1>5, <1>6, <1>7 DEF FileStep

LEMMA DiskSafe ==
  ASSUME FileSafe, CommitDirectory \/ LosePower
  PROVE  FileSafe'
<1>1. file \in Files /\ file.state \in Content /\ file.tmp \in Content /\ file.durable \in Content
  BY FileFields DEF FileSafe
<1>2. CASE CommitDirectory
  <2>1. /\ file' \in Files /\ file'.state = file.state /\ file'.tmp = file.tmp
        /\ file'.durable = file.state
    BY <1>1, <1>2 DEF CommitDirectory, Files
  <2>2. QED
    BY <1>2, <2>1 DEF CommitDirectory, FileSafe, Saved
<1>3. CASE LosePower
  <2>1. PICK c \in {file.state, file.durable} :
          file' = [file EXCEPT !.state = Surviving(c), !.durable = Surviving(c),
                               !.tmp = Surviving(@)]
    BY <1>3 DEF LosePower
  <2>2. Surviving(c) = c /\ Saved(c) /\ c \in Content
    BY <1>1 DEF FileSafe, Surviving, Saved
  <2>3. Surviving(file.tmp) \in Content
    BY <1>1 DEF Surviving, Content
  <2>4. file' \in Files /\ file'.state = c /\ file'.durable = c
    BY <1>1, <2>1, <2>2, <2>3 DEF Files
  <2>5. pc'.at = "idle" /\ begun' = begun
    BY <1>3 DEF LosePower, Return
  <2>6. QED
    BY <2>2, <2>4, <2>5 DEF FileSafe
<1>4. QED
  BY <1>2, <1>3

LEMMA InitSafe == Init => FileSafe
<1> SUFFICES ASSUME Init PROVE FileSafe
  OBVIOUS
<1>1. [image |-> 0, synced |-> TRUE] \in Content
  BY DEF Content
<1>2. /\ file \in Files /\ file.state = [image |-> 0, synced |-> TRUE]
      /\ file.durable = [image |-> 0, synced |-> TRUE]
  BY <1>1 DEF Init, Files
<1>3. QED
  BY <1>2, TornTypes DEF Init, FileSafe, Saved

LEMMA StepSafe == FileSafe /\ [Next]_vars => FileSafe'
<1> SUFFICES ASSUME FileSafe, [Next]_vars PROVE FileSafe'
  OBVIOUS
<1>1. CASE Begin
  BY <1>1, BeginSafe
<1>2. CASE DeviceStep /\ UNCHANGED file
  BY <1>2, DeviceSafe
<1>3. CASE FileStep
  BY <1>3, SaveSafe
<1>4. CASE Die
  BY <1>4, ReturnSafe DEF Die
<1>5. CASE Lose \/ UNCHANGED vars
  BY <1>5 DEF Lose, vars, FileSafe, Saved
<1>6. CASE CommitDirectory \/ LosePower
  BY <1>6, DiskSafe
<1>7. QED
  BY <1>1, <1>2, <1>3, <1>4, <1>5, <1>6 DEF Next

\* The next boot loads a file that some save wrote whole, wherever in a save,
\* or after it, power is lost, and however often.
THEOREM StateFileIsWhole == Spec => []StateFileWhole
<1>1. FileSafe => StateFileWhole
  BY DEF FileSafe, Saved, StateFileWhole, Surviving
<1>2. QED
  BY <1>1, InitSafe, StepSafe, PTL DEF Spec

-----------------------------------------------------------------------------
(* Where a call stands: its operation belongs to it, and the device is the *)
(* one it began with but for what its steps so far have written.           *)

Node == {"rails", "enforced", "profile", "charge", "mode", "table", "level", "staged",
         "committed", "limits"}

Freed == [min |-> Stock, max |-> Stock]

Asked == [min |-> call.tier, max |-> call.tier]

SameBut(nodes) == \A f \in Node \ nodes : dev[f] = entry[f]

PlacesOf(op) ==
  CASE op = "none"                 -> {"idle"}
    [] op = "ApplyPowerEnvelope"   -> {"rail", "retry"}
    [] op = "ApplyPlatformProfile" -> {"profile"}
    [] op = "ApplyChargeThreshold" -> {"threshold"}
    [] op = "ApplyFanCurve"        -> {"resolve", "point", "mode", "confirm"}
    [] op = "ResetFanCurve"        -> {"mode"}
    [] op = "ApplyGpuClockRange"   -> {"constraints", "manual", "min", "max", "commit", "confirm",
                                       "release", "auto"}
    [] op = "ResetGpuClocks"       -> {"release", "auto"}
    [] op = "PersistState"         -> {"create", "write", "sync", "rename"}

Placed ==
  /\ pc.at \in PlacesOf(call.op)
  /\ call.op = "ApplyPowerEnvelope" => pc.n <= LastRail
  /\ pc.at = "mode" => pc.n <= 2
  /\ failed <= faults

Untouched ==
  call.op \in {"ApplyPlatformProfile", "ApplyChargeThreshold", "PersistState"} => SameBut({})

\* The rails before the next one are the call's.
RailsMid ==
  call.op = "ApplyPowerEnvelope" =>
    /\ SameBut({"rails"})
    /\ \A i \in 1..3 :
         dev.rails[Rails[i]] =
           IF i < pc.n THEN AsWatts(call.target[Rails[i]]) ELSE entry.rails[Rails[i]]

FanMid ==
  /\ call.op = "ApplyFanCurve" =>
       /\ SameBut({"mode", "table"})
       /\ dev.mode["cpu"] = "auto" => entry.mode["cpu"] = "auto"
       /\ pc.at = "mode" /\ pc.n = 2 => dev.mode["cpu"] = "custom"
       /\ pc.at = "confirm" => \A f \in Fan : dev.mode[f] = "custom"
  /\ call.op = "ResetFanCurve" =>
       /\ SameBut({"mode"})
       /\ pc.n = 1 => dev.mode = entry.mode
       /\ pc.n = 2 => dev.mode["cpu"] = "auto"

\* In auto the clocks are the driver's, so that going manual shows no range
\* of an earlier call.
ClockFree(d) == d.level = "auto" => d.committed = Freed

ClockMid ==
  /\ ClockFree(dev) /\ ClockFree(entry)
  /\ call.op \in {"ApplyGpuClockRange", "ResetGpuClocks"} =>
       /\ SameBut({"level", "staged", "committed"})
       /\ dev.level = "auto" => entry.level = "auto"
       /\ pc.at = "auto" => dev.committed = Freed
  /\ call.op = "ResetGpuClocks" =>
       /\ dev.level = entry.level
       /\ pc.at = "release" => dev.committed = entry.committed
  /\ call.op = "ApplyGpuClockRange" =>
       /\ dev.committed \in {entry.committed, Freed, Asked}
       /\ pc.at = "constraints" => SameBut({}) /\ failed = 0
       /\ pc.at \in {"min", "max", "commit", "confirm"} => dev.level = "manual"
       /\ pc.at = "max" => dev.staged.min = call.tier
       /\ pc.at = "commit" => dev.staged = Asked
       /\ pc.at = "confirm" => dev.committed = Asked \/ failed > 0
       /\ pc.at \in {"release", "auto"} => failed > 0

Mid == Untouched /\ RailsMid /\ FanMid /\ ClockMid

LEMMA Numbers ==
  /\ Points \in Nat /\ Points >= 1
  /\ LastPoint \in Nat /\ LastPoint >= 4 /\ MaxCalls \in Nat /\ MaxFaults \in Nat
  BY BackendAssumption DEF LastPoint

LEMMA CallFields ==
  ASSUME NEW e \in Calls
  PROVE  /\ e.op \in {"ApplyPowerEnvelope", "ApplyPlatformProfile", "ApplyChargeThreshold",
                      "ApplyFanCurve", "ApplyGpuClockRange", "ResetFanCurve",
                      "ResetGpuClocks", "PersistState"}
         /\ e # NoCall
         /\ e.op = "ApplyPowerEnvelope" => e.target \in Envelope
         /\ e.op = "ApplyPlatformProfile" => e.profile \in Profile
         /\ e.op = "ApplyChargeThreshold" => e.charge \in Charge
         /\ e.op = "ApplyFanCurve" => e.curve \in Curve
         /\ e.op = "ApplyGpuClockRange" => e.tier \in Tier
         /\ e.op = "PersistState" => e = PersistState
<1>1. e \in Effect
  BY BackendAssumption
<1>2. e.op \in {"ApplyPowerEnvelope", "ApplyPlatformProfile", "ApplyChargeThreshold",
                "ApplyFanCurve", "ApplyGpuClockRange", "ResetFanCurve",
                "ResetGpuClocks", "PersistState"}
  BY <1>1 DEF Effect, Bare
<1>3. e.op = "PersistState" => e = PersistState
  BY <1>1 DEF Effect, Bare, PersistState
<1>4. /\ e.op = "ApplyPowerEnvelope" => e.target \in Envelope
      /\ e.op = "ApplyPlatformProfile" => e.profile \in Profile
      /\ e.op = "ApplyChargeThreshold" => e.charge \in Charge
      /\ e.op = "ApplyFanCurve" => e.curve \in Curve
      /\ e.op = "ApplyGpuClockRange" => e.tier \in Tier
  BY <1>1 DEF Effect, Bare
<1>5. e # NoCall
  BY <1>2 DEF NoCall
<1>6. QED
  BY <1>2, <1>3, <1>4, <1>5

LEMMA SysfsFields ==
  ASSUME NEW d \in Sysfs
  PROVE  /\ d.rails \in [Rail -> 0..AsWatts(MaxMilliwatts)] /\ d.enforced \in BOOLEAN
         /\ d.profile \in Choices /\ d.charge \in Charge
         /\ d.mode \in [Fan -> {"auto", "custom"}]
         /\ d.table \in [Fan -> [1..Points -> Point]]
         /\ d.level \in {"auto", "manual"} /\ d.staged \in Clock /\ d.committed \in Clock
         /\ d.limits \in Limits
         /\ DOMAIN d = Node
  BY DEF Sysfs, Node

\* A node is written in place: it gets the value and every other one stays.
LEMMA NodeWrite ==
  ASSUME NEW d \in Sysfs, NEW f \in Node, NEW v
  PROVE  /\ [d EXCEPT ![f] = v][f] = v
         /\ \A g \in Node \ {f} : [d EXCEPT ![f] = v][g] = d[g]
  BY SysfsFields

LEMMA NodeTypes ==
  ASSUME NEW d \in Sysfs
  PROVE  /\ \A v \in [Rail -> 0..AsWatts(MaxMilliwatts)] : [d EXCEPT !.rails = v] \in Sysfs
         /\ \A v \in Choices : [d EXCEPT !.profile = v] \in Sysfs
         /\ \A v \in Charge : [d EXCEPT !.charge = v] \in Sysfs
         /\ \A v \in [Fan -> {"auto", "custom"}] : [d EXCEPT !.mode = v] \in Sysfs
         /\ \A v \in [Fan -> [1..Points -> Point]] : [d EXCEPT !.table = v] \in Sysfs
         /\ \A v \in {"auto", "manual"} : [d EXCEPT !.level = v] \in Sysfs
         /\ \A v \in Clock : [d EXCEPT !.staged = v] \in Sysfs
         /\ \A v \in Clock : [d EXCEPT !.committed = v] \in Sysfs
         /\ \A v \in BOOLEAN : [d EXCEPT !.enforced = v] \in Sysfs
  BY DEF Sysfs

LEMMA WattsBounded ==
  ASSUME NEW mw \in Nat, mw <= MaxMilliwatts
  PROVE  AsWatts(mw) \in 0..AsWatts(MaxMilliwatts)
<1>1. MilliwattsPerWatt \in Nat \ {0} /\ MaxMilliwatts \in Nat
  BY PowerAssumption
<1> DEFINE k == MilliwattsPerWatt
           a == mw \div k
           b == MaxMilliwatts \div k
<1>2. /\ a \in Nat /\ b \in Nat
      /\ mw = k * a + (mw % k) /\ MaxMilliwatts = k * b + (MaxMilliwatts % k)
      /\ (mw % k) \in 0..(k - 1) /\ (MaxMilliwatts % k) \in 0..(k - 1)
  BY <1>1
<1>3. k * a < k * (b + 1)
  <2> HIDE DEF a, b
  <2>1. k * a <= mw /\ mw <= MaxMilliwatts /\ MaxMilliwatts < k * b + k
    BY <1>1, <1>2
  <2>2. k * (b + 1) = k * b + k
    BY <1>1, <1>2
  <2>3. k * a \in Nat /\ k * b \in Nat
    BY <1>1, <1>2
  <2>4. QED
    BY <1>1, <2>1, <2>2, <2>3
<1>4. a <= b
  <2> HIDE DEF a, b
  <2>1. CASE a >= b + 1
    <3>1. k * a >= k * (b + 1)
      BY <1>1, <1>2, <2>1
    <3>2. QED
      BY <1>1, <1>2, <1>3, <3>1
  <2>2. QED
    BY <1>2, <2>1
<1>5. QED
  BY <1>2, <1>4 DEF AsWatts

-----------------------------------------------------------------------------
(* Types, together with the places of the operations.                      *)

Standing == TypeOK /\ Placed

Op == {"none", "ApplyPowerEnvelope", "ApplyPlatformProfile", "ApplyChargeThreshold",
       "ApplyFanCurve", "ApplyGpuClockRange", "ResetFanCurve", "ResetGpuClocks", "PersistState"}

LEMMA OpTypes ==
  ASSUME Standing
  PROVE  /\ call.op \in Op /\ (call.op = "none" <=> call = NoCall)
         /\ call.op # "none" => call \in Calls
  BY CallFields DEF Standing, TypeOK, NoCall, Op

LEMMA PlaceValues ==
  /\ PlacesOf("none") = {"idle"}
  /\ PlacesOf("ApplyPowerEnvelope") = {"rail", "retry"}
  /\ PlacesOf("ApplyPlatformProfile") = {"profile"}
  /\ PlacesOf("ApplyChargeThreshold") = {"threshold"}
  /\ PlacesOf("ApplyFanCurve") = {"resolve", "point", "mode", "confirm"}
  /\ PlacesOf("ResetFanCurve") = {"mode"}
  /\ PlacesOf("ApplyGpuClockRange") =
       {"constraints", "manual", "min", "max", "commit", "confirm", "release", "auto"}
  /\ PlacesOf("ResetGpuClocks") = {"release", "auto"}
  /\ PlacesOf("PersistState") = {"create", "write", "sync", "rename"}
  BY DEF PlacesOf

LEMMA PlacesAreKnown ==
  ASSUME NEW op \in Op, NEW place \in PlacesOf(op)
  PROVE  place \in Place
  BY DEF PlacesOf, Op, Place

LEMMA RailsHold ==
  ASSUME Standing, call.op = "ApplyPowerEnvelope"
  PROVE  /\ LastRail \in {2, 3} /\ LastRail \in 1..LastPoint /\ pc.n \in 1..LastRail
         /\ Rails[pc.n] \in Rail
         /\ AsWatts(call.target[Rails[pc.n]]) \in 0..AsWatts(MaxMilliwatts)
<1>1. call \in Calls /\ call.target \in Envelope
  BY CallFields, OpTypes
<1>2. LastRail \in {2, 3} /\ (LastRail = 3 => call.target.fppt # NoFppt)
  BY DEF LastRail
<1>3. pc.n \in 1..LastRail /\ LastRail \in 1..LastPoint
  BY <1>2, Numbers DEF Standing, TypeOK, Placed
<1>4. Rails[pc.n] \in Rail /\ call.target[Rails[pc.n]] \in Nat
  BY <1>1, <1>2, <1>3 DEF Rails, Rail, Envelope
<1>5. call.target[Rails[pc.n]] <= MaxMilliwatts
  BY <1>1, <1>4, BackendAssumption
<1>6. QED
  BY <1>2, <1>3, <1>4, <1>5, WattsBounded

LEMMA Counted ==
  ASSUME Standing, Works \/ Fault
  PROVE  failed' \in 0..MaxFaults /\ faults' \in 0..MaxFaults /\ failed' <= faults'
  BY Numbers DEF Standing, TypeOK, Placed, Works, Fault

LEMMA ReturnStanding ==
  ASSUME Standing, Works \/ Fault, NEW how \in {"ok", "error", "crash"}, Return(how),
         dev' \in Sysfs, file' \in Files
  PROVE  Standing'
<1>1. /\ call' = NoCall /\ outcome' = how /\ entry' = entry /\ begun' = begun
      /\ pc' = [at |-> "idle", n |-> 1]
  BY DEF Return
<1>2. TypeOK'
  <2>1. pc' \in [at : Place, n : 1..LastPoint]
    BY <1>1, Numbers DEF Place
  <2>2. QED
    BY <1>1, <2>1, Counted DEF Standing, TypeOK
<1>3. Placed'
  BY <1>1, Counted DEF Placed, PlacesOf, NoCall
<1>4. QED
  BY <1>2, <1>3 DEF Standing

LEMMA GotoStanding ==
  ASSUME Standing, Works \/ Fault, NEW place, NEW n \in 1..LastPoint, GotoNth(place, n),
         place \in PlacesOf(call.op), dev' \in Sysfs, file' \in Files,
         call.op = "ApplyPowerEnvelope" => n <= LastRail,
         place = "mode" => n <= 2
  PROVE  Standing'
<1>1. /\ call' = call /\ outcome' = outcome /\ entry' = entry /\ begun' = begun
      /\ pc' = [at |-> place, n |-> n]
  BY DEF GotoNth
<1>2. place \in Place
  BY OpTypes, PlacesAreKnown
<1>3. TypeOK'
  BY <1>1, <1>2, Counted DEF Standing, TypeOK
<1>4. Placed'
  BY <1>1, Counted DEF Placed, LastRail
<1>5. QED
  BY <1>3, <1>4 DEF Standing

LEMMA Places ==
  ASSUME NEW n \in 1..LastPoint
  PROVE  PointAt(n) \in 1..Points /\ FanAt(n) \in Fan
<1> DEFINE m == 2 * Points
           q == (n - 1) \div m
           r == (n - 1) % m
<1>1. /\ Points \in Nat /\ m \in Nat /\ m >= 2 /\ n - 1 \in Nat /\ n - 1 < 2 * m
  BY Numbers DEF LastPoint
<1>2. q \in Nat /\ r \in 0..(m - 1) /\ n - 1 = m * q + r
  <2> HIDE DEF m
  <2>1. QED
    BY <1>1
<1>3. q \in {0, 1}
  <2> HIDE DEF q, r
  <2>1. CASE q >= 2
    <3> HIDE DEF m
    <3>1. m * q >= m * 2
      BY <1>1, <1>2, <2>1
    <3>2. QED
      BY <1>1, <1>2, <3>1
  <2>2. QED
    BY <1>2, <2>1
<1>4. r \div 2 \in 0..(Points - 1)
  <2> HIDE DEF r
  <2>1. QED
    BY <1>1, <1>2
<1>5. FanAt(n) \in Fan
  <2>1. FanAt(n) = Fans[1 + q]
    BY DEF FanAt
  <2> HIDE DEF q
  <2>2. QED
    BY <1>3, <2>1 DEF Fans, Fan
<1>6. PointAt(n) \in 1..Points
  <2>1. PointAt(n) = 1 + (r \div 2)
    BY DEF PointAt
  <2> HIDE DEF r
  <2>2. QED
    BY <1>1, <1>4, <2>1
<1>7. QED
  BY <1>5, <1>6

LEMMA TableTypes ==
  ASSUME NEW d \in Sysfs, NEW n \in 1..LastPoint, NEW c \in Curve
  PROVE  /\ StorePoint(d, n, c) \in Sysfs
         /\ \A g \in Node \ {"table"} : StorePoint(d, n, c)[g] = d[g]
<1> DEFINE f == FanAt(n)
           k == PointAt(n)
<1>1. k \in 1..Points /\ f \in Fan
  BY Places
<1> HIDE DEF f, k
<1>2. d.table \in [Fan -> [1..Points -> Point]] /\ d.table[f][k] \in Point
  <2>1. d.table \in [Fan -> [1..Points -> Point]]
    BY SysfsFields
  <2>2. d.table[f] \in [1..Points -> Point]
    BY <1>1, <2>1
  <2>3. QED
    BY <1>1, <2>1, <2>2
<1>3. [d.table[f][k] EXCEPT !.temp = c] \in Point /\ [d.table[f][k] EXCEPT !.pwm = c] \in Point
  BY <1>2 DEF Point
<1>4. PICK p \in Point : StorePoint(d, n, c) = [d EXCEPT !.table[f][k] = p]
  <2>1. StorePoint(d, n, c) = [d EXCEPT !.table[f][k].temp = c]
          \/ StorePoint(d, n, c) = [d EXCEPT !.table[f][k].pwm = c]
    BY DEF StorePoint, f, k
  <2>2. /\ [d EXCEPT !.table[f][k].temp = c]
             = [d EXCEPT !.table[f][k] = [d.table[f][k] EXCEPT !.temp = c]]
        /\ [d EXCEPT !.table[f][k].pwm = c]
             = [d EXCEPT !.table[f][k] = [d.table[f][k] EXCEPT !.pwm = c]]
    OBVIOUS
  <2>3. QED
    BY <1>3, <2>1, <2>2
<1>5. [d.table EXCEPT ![f][k] = p] \in [Fan -> [1..Points -> Point]]
  BY <1>1, <1>2
<1>6. StorePoint(d, n, c) = [d EXCEPT !.table = [d.table EXCEPT ![f][k] = p]]
  BY <1>4
<1> DEFINE t == [d.table EXCEPT ![f][k] = p]
<1> HIDE DEF t
<1>7. StorePoint(d, n, c) \in Sysfs
  <2>1. \A v \in [Fan -> [1..Points -> Point]] : [d EXCEPT !.table = v] \in Sysfs
    BY NodeTypes
  <2>2. t \in [Fan -> [1..Points -> Point]]
    BY <1>5 DEF t
  <2>3. StorePoint(d, n, c) = [d EXCEPT !.table = t]
    BY <1>6 DEF t
  <2>4. QED
    BY <2>1, <2>2, <2>3
<1>8. StorePoint(d, n, c) = [d EXCEPT !["table"] = t]
  BY <1>6 DEF t
<1>9. \A g \in Node \ {"table"} : StorePoint(d, n, c)[g] = d[g]
  <2>1. \A g \in Node \ {"table"} : [d EXCEPT !["table"] = t][g] = d[g]
    BY NodeWrite DEF Node
  <2>2. QED
    BY <1>8, <2>1
<1>10. QED
  BY <1>7, <1>9

LEMMA RailTypes ==
  ASSUME Standing, WriteRail
  PROVE  /\ dev' \in Sysfs
         /\ dev'["rails"] = [dev.rails EXCEPT ![Rails[pc.n]] = AsWatts(call.target[Rails[pc.n]])]
         /\ dev'["enforced"] = (dev.enforced \/ pc.n = LastRail)
         /\ \A g \in Node \ {"rails", "enforced"} : dev'[g] = dev[g]
<1> DEFINE w == AsWatts(call.target[Rails[pc.n]])
           b == dev.enforced \/ pc.n = LastRail
           r == [dev.rails EXCEPT ![Rails[pc.n]] = w]
           c == [dev EXCEPT !["rails"] = r]
<1>1. dev \in Sysfs /\ call.op = "ApplyPowerEnvelope"
  BY DEF Standing, TypeOK, WriteRail
<1>2. r \in [Rail -> 0..AsWatts(MaxMilliwatts)]
  BY <1>1, RailsHold, SysfsFields
<1>3. dev' = [dev EXCEPT !.rails = r, !.enforced = b]
  BY DEF WriteRail
<1>4. b \in BOOLEAN
  OBVIOUS
<1> HIDE DEF r, b
<1>5. c \in Sysfs
  BY <1>1, <1>2, NodeTypes
<1>6. dev' = [c EXCEPT !["enforced"] = b]
  BY <1>1, <1>3, SysfsFields
<1>7. c["rails"] = r /\ \A g \in Node \ {"rails"} : c[g] = dev[g]
  BY <1>1, NodeWrite DEF Node
<1> HIDE DEF c
<1>8. [c EXCEPT !["enforced"] = b] \in Sysfs
  BY <1>4, <1>5, NodeTypes
<1>9. /\ [c EXCEPT !["enforced"] = b]["enforced"] = b
      /\ \A g \in Node \ {"enforced"} : [c EXCEPT !["enforced"] = b][g] = c[g]
  BY <1>5, NodeWrite DEF Node
<1>10. QED
  BY <1>6, <1>7, <1>8, <1>9 DEF r, b, Node

LEMMA LossTypes ==
  ASSUME NEW d \in Sysfs
  PROVE  /\ LosesControl(d) \in Sysfs
         /\ LosesControl(d)["enforced"] = FALSE
         /\ LosesControl(d)["mode"] = [f \in Fan |-> "auto"]
         /\ \A g \in Node \ {"enforced", "mode"} : LosesControl(d)[g] = d[g]
<1> DEFINE off == [f \in Fan |-> "auto"]
<1>1. off \in [Fan -> {"auto", "custom"}]
  OBVIOUS
<1>2. LosesControl(d) = [[d EXCEPT !["enforced"] = FALSE] EXCEPT !["mode"] = off]
  BY SysfsFields DEF LosesControl
<1> HIDE DEF off
<1> DEFINE c == [d EXCEPT !["enforced"] = FALSE]
<1>3. c \in Sysfs
  BY NodeTypes
<1>4. \A g \in Node \ {"enforced"} : c[g] = d[g]
  BY NodeWrite DEF Node
<1>5. c["enforced"] = FALSE
  BY NodeWrite DEF Node
<1> HIDE DEF c
<1>6. [c EXCEPT !["mode"] = off] \in Sysfs
  BY <1>1, <1>3, NodeTypes
<1>7. /\ [c EXCEPT !["mode"] = off]["mode"] = off
      /\ \A g \in Node \ {"mode"} : [c EXCEPT !["mode"] = off][g] = c[g]
  BY <1>3, NodeWrite DEF Node
<1>8. LosesControl(d) = [c EXCEPT !["mode"] = off]
  BY <1>2 DEF c
<1>9. QED
  BY <1>4, <1>5, <1>6, <1>7, <1>8 DEF off, Node

\* The fan that SwitchFan is at, and what it switches it to.
LEMMA FanTypes ==
  ASSUME Standing, SwitchFan
  PROVE  /\ dev' \in Sysfs /\ pc.n \in {1, 2}
         /\ \A g \in Node \ {"mode"} : dev'[g] = dev[g]
         /\ dev'["mode"] = [dev.mode EXCEPT ![Fans[pc.n]] =
                              IF call.op = "ApplyFanCurve" THEN "custom" ELSE "auto"]
<1> DEFINE m == [dev.mode EXCEPT ![Fans[pc.n]] =
                   IF call.op = "ApplyFanCurve" THEN "custom" ELSE "auto"]
<1>1. dev \in Sysfs /\ pc.n \in {1, 2}
  BY Numbers DEF Standing, TypeOK, Placed, SwitchFan, At
<1>2. m \in [Fan -> {"auto", "custom"}]
  BY <1>1, SysfsFields DEF Fans, Fan
<1>3. dev' = [dev EXCEPT !["mode"] = m]
  BY DEF SwitchFan
<1> HIDE DEF m
<1>4. [dev EXCEPT !["mode"] = m] \in Sysfs
  BY <1>1, <1>2, NodeTypes
<1>5. /\ [dev EXCEPT !["mode"] = m]["mode"] = m
      /\ \A g \in Node \ {"mode"} : [dev EXCEPT !["mode"] = m][g] = dev[g]
  BY <1>1, NodeWrite DEF Node
<1>6. QED
  BY <1>1, <1>3, <1>4, <1>5 DEF m

LEMMA TargetTypes ==
  ASSUME NEW p \in Profile
  PROVE  TargetString(p) \in Choices /\ ParseProfile(TargetString(p)) = p
<1>1. CASE p = "PowerSaver"
  <2>1. TargetString(p) \in Choices \cap {"quiet", "low-power"}
    BY <1>1, BackendAssumption DEF TargetString
  <2>2. QED
    BY <1>1, <2>1 DEF ParseProfile
<1>2. CASE p \in {"Balanced", "Performance"}
  BY <1>2, BackendAssumption DEF TargetString, ParseProfile
<1>3. CASE p \in CustomProfile \ {"PowerSaver", "Balanced", "Performance"}
  BY <1>3, BackendAssumption DEF TargetString, ParseProfile
<1>4. QED
  BY <1>1, <1>2, <1>3 DEF Profile

LEMMA FreeTypes ==
  ASSUME NEW d \in Sysfs
  PROVE  /\ [d EXCEPT !.staged = Freed, !.committed = Freed] \in Sysfs
         /\ [d EXCEPT !.staged = Freed, !.committed = Freed]["committed"] = Freed
         /\ \A g \in Node \ {"staged", "committed"} :
              [d EXCEPT !.staged = Freed, !.committed = Freed][g] = d[g]
<1> DEFINE c == [d EXCEPT !["staged"] = Freed]
<1>1. Freed \in Clock
  BY DEF Freed, Clock
<1>2. c \in Sysfs
  BY <1>1, NodeTypes
<1>3. \A g \in Node \ {"staged"} : c[g] = d[g]
  BY NodeWrite DEF Node
<1>4. [d EXCEPT !.staged = Freed, !.committed = Freed] = [c EXCEPT !["committed"] = Freed]
  BY SysfsFields
<1> HIDE DEF c
<1>5. [c EXCEPT !["committed"] = Freed] \in Sysfs
  BY <1>1, <1>2, NodeTypes
<1>6. /\ [c EXCEPT !["committed"] = Freed]["committed"] = Freed
      /\ \A g \in Node \ {"committed"} : [c EXCEPT !["committed"] = Freed][g] = c[g]
  BY <1>2, NodeWrite DEF Node
<1>7. QED
  BY <1>3, <1>4, <1>5, <1>6 DEF Node

-----------------------------------------------------------------------------
(* The steps.                                                              *)

LEMMA ReturnMid ==
  ASSUME Mid, NEW how, Return(how), ClockFree(dev')
  PROVE  Mid'
<1>1. call'.op = "none" /\ entry' = entry
  BY DEF Return, NoCall
<1>2. ClockFree(entry)'
  BY <1>1 DEF Mid, ClockMid, ClockFree
<1>3. ClockFree(dev)'
  BY DEF ClockFree
<1>4. QED
  BY <1>1, <1>2, <1>3 DEF Mid, Untouched, RailsMid, FanMid, ClockMid

LEMMA SameReturns ==
  ASSUME Standing, Mid, Works \/ Fault, NEW how \in {"ok", "error", "crash"}, Return(how),
         dev' = dev, file' \in Files
  PROVE  Standing' /\ Mid'
<1>1. ClockFree(dev') /\ dev' \in Sysfs
  BY DEF Mid, ClockMid, ClockFree, Standing, TypeOK
<1>2. QED
  BY <1>1, ReturnMid, ReturnStanding

LEMMA RailStep ==
  ASSUME Standing, Mid, file' \in Files, WriteRail \/ FailRail
  PROVE  Standing' /\ Mid'
<1>1. /\ call.op = "ApplyPowerEnvelope" /\ dev \in Sysfs
      /\ SameBut({"rails"})
      /\ \A i \in 1..3 : dev.rails[Rails[i]] =
           IF i < pc.n THEN AsWatts(call.target[Rails[i]]) ELSE entry.rails[Rails[i]]
  BY DEF WriteRail, FailRail, Standing, TypeOK, Mid, RailsMid
<1>2. pc.n \in 1..LastRail /\ LastRail \in {2, 3} /\ LastRail \in 1..LastPoint
  BY <1>1, RailsHold
<1>3. ClockFree(dev) /\ ClockFree(entry)
  BY DEF Mid, ClockMid
<1>4. CASE WriteRail /\ pc.n = LastRail
  <2>1. dev' \in Sysfs /\ dev'["level"] = dev["level"] /\ dev'["committed"] = dev["committed"]
    BY <1>4, RailTypes DEF Node
  <2>2. ClockFree(dev') /\ Return("ok") /\ Works
    BY <1>3, <1>4, <2>1 DEF ClockFree, WriteRail
  <2>3. QED
    BY <2>1, <2>2, ReturnMid, ReturnStanding
<1>5. CASE WriteRail /\ pc.n # LastRail
  <2>1. GotoNth("rail", pc.n + 1) /\ Works /\ pc.n + 1 \in 1..LastRail
    BY <1>2, <1>5 DEF WriteRail
  <2>2. "rail" \in PlacesOf(call.op) /\ pc.n + 1 \in 1..LastPoint
    <3>1. "rail" \in PlacesOf(call.op)
      BY <1>1, PlaceValues
    <3>2. pc.n + 1 \in 1..LastPoint
      BY <1>1, <1>2, <2>1, Numbers
    <3>3. QED
      BY <3>1, <3>2
  <2>3. /\ dev' \in Sysfs /\ \A g \in Node \ {"rails", "enforced"} : dev'[g] = dev[g]
        /\ dev'["rails"] = [dev.rails EXCEPT ![Rails[pc.n]] = AsWatts(call.target[Rails[pc.n]])]
        /\ dev'["enforced"] = dev.enforced
    <3>1. dev.enforced \in BOOLEAN
      BY <1>1, SysfsFields
    <3>2. (dev.enforced \/ pc.n = LastRail) = dev.enforced
      BY <1>5, <3>1
    <3>3. QED
      BY <1>5, <3>2, RailTypes
  <2>4. Standing'
    BY <1>2, <2>1, <2>2, <2>3, GotoStanding
  <2>5. call' = call /\ entry' = entry /\ pc'.n = pc.n + 1
    BY <2>1 DEF GotoNth
  <2>6. SameBut({"rails"})'
    BY <1>1, <2>3, <2>5 DEF SameBut, Node
  <2>7. \A i \in 1..3 : dev'.rails[Rails[i]] =
          IF i < pc.n + 1 THEN AsWatts(call.target[Rails[i]]) ELSE entry.rails[Rails[i]]
    <3>1. dev.rails \in [Rail -> 0..AsWatts(MaxMilliwatts)]
      BY <1>1, SysfsFields
    <3>2. \A i, j \in 1..3 : Rails[i] \in Rail /\ (Rails[i] = Rails[j] => i = j)
      BY DEF Rails, Rail
    <3>3. QED
      BY <1>1, <1>2, <2>3, <3>1, <3>2
  <2>8. ClockFree(dev)' /\ ClockFree(entry)'
    BY <1>3, <2>3, <2>5 DEF ClockFree, Node
  <2>9. QED
    BY <1>1, <2>4, <2>5, <2>6, <2>7, <2>8 DEF Mid, Untouched, RailsMid, FanMid, ClockMid
<1>6. CASE FailRail /\ Aborts
  BY <1>6, SameReturns DEF Aborts
<1>7. CASE FailRail /\ ~Aborts
  <2>1. Fault /\ GotoNth("retry", pc.n) /\ dev' = dev
    BY <1>7 DEF FailRail
  <2>2. "retry" \in PlacesOf(call.op) /\ pc.n \in 1..LastPoint
    <3>1. "retry" \in PlacesOf(call.op)
      BY <1>1, PlaceValues
    <3>2. pc.n \in 1..LastPoint
      BY <1>1, <1>2, Numbers
    <3>3. QED
      BY <3>1, <3>2
  <2>3. Standing'
    BY <1>1, <1>2, <2>1, <2>2, GotoStanding
  <2>4. call' = call /\ entry' = entry /\ pc'.n = pc.n
    BY <2>1 DEF GotoNth
  <2>5. QED
    BY <1>1, <1>3, <2>1, <2>3, <2>4
       DEF Mid, Untouched, RailsMid, FanMid, ClockMid, SameBut, ClockFree
<1>8. QED
  BY <1>4, <1>5, <1>6, <1>7

LEMMA WriteStep ==
  ASSUME Standing, Mid, file' \in Files, WriteProfile \/ WriteThreshold \/ FailWrite
  PROVE  Standing' /\ Mid'
<1>1. dev \in Sysfs /\ call.op \in {"ApplyPlatformProfile", "ApplyChargeThreshold"}
  BY DEF Standing, TypeOK, WriteProfile, WriteThreshold, FailWrite, At
<1>2. call \in Calls /\ ClockFree(dev)
  BY <1>1, OpTypes DEF Mid, ClockMid
<1>3. CASE WriteProfile
  <2> DEFINE written == [dev EXCEPT !["profile"] = TargetString(call.profile)]
  <2>1. call.profile \in Profile
    BY <1>2, <1>3, CallFields DEF WriteProfile, At
  <2>2. written \in Sysfs
    BY <1>1, <2>1, TargetTypes, NodeTypes
  <2>3. \A g \in Node \ {"profile"} : written[g] = dev[g]
    BY <1>1, NodeWrite DEF Node
  <2>4. dev' = LosesControl(written) \/ dev' = dev
    BY <1>3 DEF WriteProfile
  <2> HIDE DEF written
  <2>5. /\ dev' \in Sysfs
        /\ dev'["level"] = dev["level"] /\ dev'["committed"] = dev["committed"]
    BY <1>1, <2>2, <2>3, <2>4, LossTypes DEF Node
  <2>6. ClockFree(dev')
    BY <1>2, <2>5 DEF ClockFree
  <2>7. QED
    BY <1>3, <2>5, <2>6, ReturnMid, ReturnStanding DEF WriteProfile
<1>4. CASE WriteThreshold
  <2>1. call.charge \in Charge
    BY <1>2, <1>4, CallFields DEF WriteThreshold, At
  <2>2. dev' = [dev EXCEPT !["charge"] = call.charge]
    BY <1>4 DEF WriteThreshold
  <2>3. dev' \in Sysfs
    BY <1>1, <2>1, <2>2, NodeTypes
  <2>4. \A g \in Node \ {"charge"} : [dev EXCEPT !["charge"] = call.charge][g] = dev[g]
    BY <1>1, NodeWrite DEF Node
  <2>5. ClockFree(dev')
    BY <1>2, <2>2, <2>4 DEF ClockFree, Node
  <2>6. QED
    BY <1>4, <2>3, <2>5, ReturnMid, ReturnStanding DEF WriteThreshold
<1>5. CASE FailWrite
  BY <1>5, SameReturns DEF FailWrite, Aborts
<1>6. QED
  BY <1>3, <1>4, <1>5

\* A step of a fan call that goes on, by what it does to the nodes.
LEMMA FanGoesOn ==
  ASSUME Standing, Mid, file' \in Files, call.op \in {"ApplyFanCurve", "ResetFanCurve"},
         Works \/ Fault,
         NEW place \in PlacesOf(call.op), NEW n \in 1..LastPoint, GotoNth(place, n),
         place = "mode" => n <= 2,
         dev' \in Sysfs, \A g \in Node \ {"mode", "table"} : dev'[g] = dev[g],
         FanMid'
  PROVE  Standing' /\ Mid'
<1>1. Standing'
  BY GotoStanding
<1>2. call' = call /\ entry' = entry
  BY DEF GotoNth
<1>3. ClockFree(dev)' /\ ClockFree(entry)'
  BY <1>2 DEF Mid, ClockMid, ClockFree, Node
<1>4. QED
  BY <1>1, <1>2, <1>3 DEF Mid, Untouched, RailsMid, ClockMid

LEMMA FanStep ==
  ASSUME Standing, Mid, file' \in Files,
         ResolveCurve \/ WritePoint \/ SwitchFan \/ ConfirmCurve \/ FailFan
  PROVE  Standing' /\ Mid'
<1>1. dev \in Sysfs /\ pc.n \in 1..LastPoint /\ 1 \in 1..LastPoint /\ dev["mode"] = dev.mode
  BY Numbers DEF Standing, TypeOK
<1>2. FanMid /\ ClockFree(dev) /\ ClockFree(entry)
  BY DEF Mid, ClockMid
<1>3. CASE ResolveCurve /\ call.curve \in InvalidCurve
  BY <1>3, SameReturns DEF ResolveCurve
<1>4. CASE ResolveCurve /\ call.curve \notin InvalidCurve
  <2>1. call.op = "ApplyFanCurve" /\ GotoNth("point", 1) /\ Works /\ dev' = dev
    BY <1>4 DEF ResolveCurve, At, Goto
  <2>2. "point" \in PlacesOf(call.op)
    BY <2>1, PlaceValues
  <2>3. call' = call /\ entry' = entry /\ pc' = [at |-> "point", n |-> 1]
    BY <2>1 DEF GotoNth
  <2>4. FanMid'
    BY <1>2, <2>1, <2>3 DEF FanMid, SameBut
  <2>5. QED
    BY <1>1, <2>1, <2>2, <2>4, FanGoesOn
<1>5. CASE WritePoint
  <2>1. call.op = "ApplyFanCurve" /\ pc.at = "point" /\ call \in Calls /\ call.curve \in Curve
    BY <1>5, OpTypes, CallFields DEF WritePoint, At
  <2>2. /\ dev' \in Sysfs /\ \A g \in Node \ {"table"} : dev'[g] = dev[g]
        /\ Works \/ Fault
    BY <1>1, <1>5, <2>1, TableTypes DEF WritePoint
  <2>3. PICK place \in {"mode", "point"}, n \in 1..LastPoint :
          GotoNth(place, n) /\ (place = "mode" => n = 1)
    <3>1. CASE pc.n = LastPoint
      BY <1>1, <1>5, <3>1 DEF WritePoint, Goto
    <3>2. CASE pc.n # LastPoint
      <4>1. pc.n + 1 \in 1..LastPoint
        BY <1>1, <3>2, Numbers
      <4>2. QED
        BY <1>5, <2>1, <3>2, <4>1 DEF WritePoint, Again
    <3>3. QED
      BY <3>1, <3>2
  <2>4. place \in PlacesOf(call.op)
    BY <2>1, PlaceValues
  <2>5. call' = call /\ entry' = entry /\ pc' = [at |-> place, n |-> n]
    BY <2>3 DEF GotoNth
  <2>6. FanMid'
    BY <1>2, <2>1, <2>2, <2>3, <2>5 DEF FanMid, SameBut, Node
  <2>7. QED
    BY <2>1, <2>2, <2>3, <2>4, <2>6, FanGoesOn
<1>6. CASE SwitchFan
  <2>1. /\ dev' \in Sysfs /\ pc.n \in {1, 2} /\ pc.at = "mode" /\ Works
        /\ \A g \in Node \ {"mode"} : dev'[g] = dev[g]
        /\ dev'["mode"] = [dev.mode EXCEPT ![Fans[pc.n]] =
                             IF call.op = "ApplyFanCurve" THEN "custom" ELSE "auto"]
    BY <1>6, FanTypes DEF SwitchFan, At
  <2>2. dev.mode \in [Fan -> {"auto", "custom"}]
    BY <1>1, SysfsFields
  <2>3. ClockFree(dev')
    BY <1>2, <2>1 DEF ClockFree, Node
  <2>4. CASE call.op = "ResetFanCurve" /\ pc.n = 2
    BY <1>6, <2>1, <2>3, <2>4, ReturnMid, ReturnStanding DEF SwitchFan
  <2>5. CASE call.op = "ResetFanCurve" /\ pc.n = 1
    <3>1. GotoNth("mode", 2)
      BY <1>6, <2>1, <2>5 DEF SwitchFan, Again
    <3>2. call' = call /\ entry' = entry /\ pc' = [at |-> "mode", n |-> 2]
      BY <3>1 DEF GotoNth
    <3>3. dev'.mode["cpu"] = "auto"
      BY <2>1, <2>2, <2>5 DEF Fans, Fan
    <3>4. FanMid'
      BY <1>2, <2>1, <2>5, <3>2, <3>3 DEF FanMid, SameBut, Node
    <3>5. "mode" \in PlacesOf(call.op) /\ 2 \in 1..LastPoint
      BY <2>5, PlaceValues, Numbers
    <3>6. QED
      BY <2>1, <2>5, <3>1, <3>4, <3>5, FanGoesOn
  <2>6. CASE call.op = "ApplyFanCurve" /\ pc.n = 1
    <3>1. GotoNth("mode", 2)
      BY <1>6, <2>1, <2>6 DEF SwitchFan, Again
    <3>2. call' = call /\ entry' = entry /\ pc' = [at |-> "mode", n |-> 2]
      BY <3>1 DEF GotoNth
    <3>3. dev'.mode["cpu"] = "custom"
      BY <2>1, <2>2, <2>6 DEF Fans, Fan
    <3>4. FanMid'
      BY <1>2, <2>1, <2>6, <3>2, <3>3 DEF FanMid, SameBut, Node
    <3>5. "mode" \in PlacesOf(call.op) /\ 2 \in 1..LastPoint
      BY <2>6, PlaceValues, Numbers
    <3>6. QED
      BY <2>1, <2>6, <3>1, <3>4, <3>5, FanGoesOn
  <2>7. CASE call.op = "ApplyFanCurve" /\ pc.n = 2
    <3>1. GotoNth("confirm", 1)
      BY <1>6, <2>1, <2>7 DEF SwitchFan, Goto
    <3>2. call' = call /\ entry' = entry /\ pc' = [at |-> "confirm", n |-> 1]
      BY <3>1 DEF GotoNth
    <3>3. dev.mode["cpu"] = "custom"
      BY <1>2, <2>1, <2>7 DEF FanMid
    <3>4. \A f \in Fan : dev'.mode[f] = "custom"
      BY <2>1, <2>2, <2>7, <3>3 DEF Fans, Fan
    <3>5. FanMid'
      BY <1>2, <2>1, <2>7, <3>2, <3>4 DEF FanMid, SameBut, Node, Fan
    <3>6. "confirm" \in PlacesOf(call.op)
      BY <2>7, PlaceValues
    <3>7. QED
      BY <1>1, <2>1, <2>7, <3>1, <3>5, <3>6, FanGoesOn
  <2>8. QED
    BY <1>6, <2>1, <2>4, <2>5, <2>6, <2>7 DEF SwitchFan, At
<1>7. CASE ConfirmCurve \/ FailFan
  <2>1. /\ dev' = dev
        /\ Works \/ Fault
        /\ \E how \in {"ok", "error"} : Return(how)
    <3>1. CASE ConfirmCurve /\ Stored(dev, call.curve)
      BY <3>1 DEF ConfirmCurve
    <3>2. CASE ConfirmCurve /\ ~Stored(dev, call.curve)
      BY <3>2 DEF ConfirmCurve
    <3>3. CASE FailFan
      BY <3>3 DEF FailFan, Aborts
    <3>4. QED
      BY <1>7, <3>1, <3>2, <3>3
  <2>2. QED
    BY <2>1, SameReturns
<1>8. QED
  BY <1>3, <1>4, <1>5, <1>6, <1>7

Clocks == {"ApplyGpuClockRange", "ResetGpuClocks"}

\* A step of a clock call that goes on.
LEMMA ClockGoesOn ==
  ASSUME Standing, Mid, file' \in Files, call.op \in Clocks, Works \/ Fault,
         NEW place \in PlacesOf(call.op) \ {"mode"}, GotoNth(place, 1), dev' \in Sysfs,
         ClockMid'
  PROVE  Standing' /\ Mid'
<1>1. 1 \in 1..LastPoint /\ 1 <= 2
  BY Numbers
<1>2. Standing'
  BY <1>1, GotoStanding DEF Clocks
<1>3. call' = call
  BY DEF GotoNth
<1>4. QED
  BY <1>2, <1>3 DEF Mid, Untouched, RailsMid, FanMid, Clocks

LEMMA StageStep ==
  ASSUME Standing, Mid, file' \in Files,
         ReadConstraints \/ SetManual \/ StageMin \/ StageMax
  PROVE  Standing' /\ Mid'
<1>1. /\ call.op = "ApplyGpuClockRange" /\ call.op \in Clocks /\ dev \in Sysfs /\ ClockMid
      /\ Works
  BY DEF ReadConstraints, SetManual, StageMin, StageMax, At, Clocked, Clocks, Standing, TypeOK, Mid
<1>2. call.tier \in Tier
  BY <1>1, OpTypes, CallFields
<1>3. dev.level \in {"auto", "manual"}
  BY <1>1, SysfsFields
<1>4. ASSUME NEW place, GotoNth(place, 1)
      PROVE  call' = call /\ entry' = entry /\ pc'.at = place
  BY <1>4 DEF GotoNth
<1>5. CASE ReadConstraints
  <2>1. PICK place \in {"min", "manual"} :
          GotoNth(place, 1) /\ (place = "min" => dev.level = "manual")
    BY <1>5 DEF ReadConstraints, Goto
  <2>2. dev' = dev /\ failed' = failed /\ pc.at = "constraints"
    BY <1>5 DEF ReadConstraints, Works, At
  <2>3. ClockMid'
    BY <1>1, <1>4, <2>1, <2>2 DEF ClockMid, SameBut, ClockFree, Asked
  <2>4. place \in PlacesOf(call.op) \ {"mode"}
    BY <1>1, <2>1, PlaceValues
  <2>5. QED
    BY <1>1, <2>1, <2>2, <2>3, <2>4, ClockGoesOn
<1>6. CASE SetManual
  <2>1. GotoNth("min", 1) /\ dev' = [dev EXCEPT !["level"] = "manual"]
    BY <1>6 DEF SetManual, Goto
  <2>2. dev' \in Sysfs
    BY <1>1, <2>1, NodeTypes
  <2>3. dev'["level"] = "manual" /\ \A g \in Node \ {"level"} : dev'[g] = dev[g]
    BY <1>1, <2>1, NodeWrite DEF Node
  <2>4. ClockMid'
    BY <1>1, <1>4, <2>1, <2>3 DEF ClockMid, SameBut, ClockFree, Asked, Node
  <2>5. "min" \in PlacesOf(call.op) \ {"mode"}
    BY <1>1, PlaceValues
  <2>6. QED
    BY <1>1, <2>1, <2>2, <2>4, <2>5, ClockGoesOn
<1>7. CASE StageMin
  <2>1. GotoNth("max", 1) /\ dev' = [dev EXCEPT !.staged.min = call.tier] /\ pc.at = "min"
    BY <1>7 DEF StageMin, Goto, At
  <2>2. /\ dev' \in Sysfs /\ dev'["staged"].min = call.tier
        /\ \A g \in Node \ {"staged"} : dev'[g] = dev[g]
    <3> DEFINE v == [dev.staged EXCEPT !.min = call.tier]
               m == [dev EXCEPT !["staged"] = v]
    <3>1. v \in Clock /\ v.min = call.tier
      BY <1>1, <1>2, SysfsFields DEF Clock
    <3>2. dev' = m
      BY <2>1
    <3> HIDE DEF v
    <3>3. m \in Sysfs
      BY <1>1, <3>1, NodeTypes
    <3>4. m["staged"] = v /\ \A g \in Node \ {"staged"} : m[g] = dev[g]
      BY <1>1, NodeWrite DEF Node
    <3> HIDE DEF m
    <3>5. QED
      BY <3>1, <3>2, <3>3, <3>4
  <2>3. ClockMid'
    BY <1>1, <1>4, <2>1, <2>2 DEF ClockMid, SameBut, ClockFree, Asked, Node
  <2>4. "max" \in PlacesOf(call.op) \ {"mode"}
    BY <1>1, PlaceValues
  <2>5. QED
    BY <1>1, <2>1, <2>2, <2>3, <2>4, ClockGoesOn
<1>8. CASE StageMax
  <2>1. GotoNth("commit", 1) /\ dev' = [dev EXCEPT !.staged.max = call.tier] /\ pc.at = "max"
    BY <1>8 DEF StageMax, Goto, At
  <2>2. /\ dev' \in Sysfs /\ dev'["staged"] = [min |-> dev.staged.min, max |-> call.tier]
        /\ \A g \in Node \ {"staged"} : dev'[g] = dev[g]
    <3> DEFINE v == [dev.staged EXCEPT !.max = call.tier]
               m == [dev EXCEPT !["staged"] = v]
    <3>1. v \in Clock /\ v = [min |-> dev.staged.min, max |-> call.tier]
      BY <1>1, <1>2, SysfsFields DEF Clock
    <3>2. dev' = m
      BY <2>1
    <3> HIDE DEF v
    <3>3. m \in Sysfs
      BY <1>1, <3>1, NodeTypes
    <3>4. m["staged"] = v /\ \A g \in Node \ {"staged"} : m[g] = dev[g]
      BY <1>1, NodeWrite DEF Node
    <3> HIDE DEF m
    <3>5. QED
      BY <3>1, <3>2, <3>3, <3>4
  <2>3. dev'["staged"] = Asked
    BY <1>1, <2>1, <2>2 DEF ClockMid, Asked
  <2>4. ClockMid'
    BY <1>1, <1>4, <2>1, <2>2, <2>3 DEF ClockMid, SameBut, ClockFree, Asked, Node
  <2>5. "commit" \in PlacesOf(call.op) \ {"mode"}
    BY <1>1, PlaceValues
  <2>6. QED
    BY <1>1, <2>1, <2>2, <2>4, <2>5, ClockGoesOn
<1>9. QED
  BY <1>5, <1>6, <1>7, <1>8

LEMMA CommitStep ==
  ASSUME Standing, Mid, file' \in Files, Commit \/ ConfirmClock
  PROVE  Standing' /\ Mid'
<1>1. /\ call.op = "ApplyGpuClockRange" /\ call.op \in Clocks /\ dev \in Sysfs /\ ClockMid
      /\ failed \in Nat
  BY Numbers DEF Commit, ConfirmClock, At, Clocked, Clocks, Standing, TypeOK, Mid
<1>2. ASSUME NEW place, GotoNth(place, 1)
      PROVE  call' = call /\ entry' = entry /\ pc'.at = place
  BY <1>2 DEF GotoNth
<1>3. CASE Commit
  <2>1. GotoNth("confirm", 1) /\ pc.at = "commit" /\ dev.staged = Asked
    BY <1>1, <1>3 DEF Commit, Goto, At, ClockMid
  <2>2. "confirm" \in PlacesOf(call.op) \ {"mode"}
    BY <1>1, PlaceValues
  <2>3. CASE Fault /\ dev' = dev
    <3>1. failed' > 0
      BY <1>1, <2>3 DEF Fault
    <3>2. ClockMid'
      BY <1>1, <1>2, <2>1, <2>3, <3>1 DEF ClockMid, SameBut, ClockFree, Asked
    <3>3. QED
      BY <1>1, <2>1, <2>2, <2>3, <3>2, ClockGoesOn
  <2>4. CASE Works /\ dev' = [dev EXCEPT !.committed = dev.staged]
    <3>1. dev' = [dev EXCEPT !["committed"] = Asked] /\ Asked \in Clock
      BY <1>1, <2>1, <2>4, SysfsFields
    <3>2. dev' \in Sysfs
      BY <1>1, <3>1, NodeTypes
    <3>3. dev'["committed"] = Asked /\ \A g \in Node \ {"committed"} : dev'[g] = dev[g]
      BY <1>1, <3>1, NodeWrite DEF Node
    <3>4. ClockMid'
      BY <1>1, <1>2, <2>1, <3>3 DEF ClockMid, SameBut, ClockFree, Asked, Node
    <3>5. QED
      BY <1>1, <2>1, <2>2, <2>4, <3>2, <3>4, ClockGoesOn
  <2>5. QED
    BY <1>3, <2>3, <2>4 DEF Commit
<1>4. CASE ConfirmClock /\ dev.committed = Asked
  <2>1. Return("ok") /\ Works /\ dev' = dev
    BY <1>4 DEF ConfirmClock, Asked
  <2>2. QED
    BY <2>1, SameReturns
<1>5. CASE ConfirmClock /\ dev.committed # Asked
  <2>1. GotoNth("release", 1) /\ Works /\ dev' = dev /\ failed' = failed /\ failed > 0
    BY <1>1, <1>5 DEF ConfirmClock, Asked, Goto, Works, At, ClockMid
  <2>2. "release" \in PlacesOf(call.op) \ {"mode"}
    BY <1>1, PlaceValues
  <2>3. ClockMid'
    BY <1>1, <1>2, <2>1 DEF ClockMid, SameBut, ClockFree, Asked
  <2>4. QED
    BY <1>1, <2>1, <2>2, <2>3, ClockGoesOn
<1>6. QED
  BY <1>3, <1>4, <1>5

LEMMA ReleaseStep ==
  ASSUME Standing, Mid, file' \in Files, FailClock \/ Release \/ SetAuto \/ FailRelease
  PROVE  Standing' /\ Mid'
<1>1. dev \in Sysfs /\ ClockMid /\ failed \in Nat
  BY Numbers DEF Standing, TypeOK, Mid
<1>2. pc.at \in {"release", "auto"} => call.op \in Clocks
  BY OpTypes, PlaceValues DEF Standing, Placed, Op, Clocks
<1>3. ASSUME NEW place, GotoNth(place, 1)
      PROVE  call' = call /\ entry' = entry /\ pc'.at = place
  BY <1>3 DEF GotoNth
<1>4. CASE FailClock /\ pc.at = "constraints"
  BY <1>4, SameReturns DEF FailClock, Aborts
<1>5. CASE FailClock /\ pc.at # "constraints"
  <2>1. /\ GotoNth("release", 1) /\ Fault /\ dev' = dev /\ call.op = "ApplyGpuClockRange"
        /\ call.op \in Clocks
    BY <1>5 DEF FailClock, Goto, Clocks
  <2>2. failed' > 0
    BY <1>1, <2>1 DEF Fault
  <2>3. ClockMid'
    BY <1>1, <1>3, <2>1, <2>2 DEF ClockMid, SameBut, ClockFree, Asked
  <2>4. "release" \in PlacesOf(call.op) \ {"mode"}
    BY <2>1, PlaceValues
  <2>5. QED
    BY <2>1, <1>1, <2>3, <2>4, ClockGoesOn
<1>6. CASE Release
  <2>1. /\ GotoNth("auto", 1) /\ Works /\ call.op \in Clocks /\ failed' = failed
        /\ pc.at = "release"
    BY <1>2, <1>6 DEF Release, Goto, Works
  <2>2. dev' = [dev EXCEPT !.staged = Freed, !.committed = Freed]
    BY <1>6 DEF Release, Freed
  <2>3. /\ dev' \in Sysfs /\ dev'["committed"] = Freed
        /\ \A g \in Node \ {"staged", "committed"} : dev'[g] = dev[g]
    BY <1>1, <2>2, FreeTypes
  <2>4. ClockMid'
    BY <1>1, <1>3, <2>1, <2>3 DEF ClockMid, SameBut, ClockFree, Asked, Node, Clocks
  <2>5. "auto" \in PlacesOf(call.op) \ {"mode"}
    BY <2>1, PlaceValues DEF Clocks
  <2>6. QED
    BY <2>1, <2>3, <2>4, <2>5, ClockGoesOn
<1>7. CASE SetAuto
  <2>1. dev' = [dev EXCEPT !["level"] = "auto"] /\ Works /\ pc.at = "auto"
        /\ \E how \in {"ok", "error"} : Return(how)
    BY <1>7 DEF SetAuto
  <2>2. dev' \in Sysfs
    BY <1>1, <2>1, NodeTypes
  <2>3. \A g \in Node \ {"level"} : dev'[g] = dev[g]
    BY <1>1, <2>1, NodeWrite DEF Node
  <2>4. dev.committed = Freed
    BY <1>1, <1>2, <2>1 DEF ClockMid, Clocks
  <2>5. ClockFree(dev')
    BY <2>3, <2>4 DEF ClockFree, Node
  <2>6. QED
    BY <2>1, <2>2, <2>5, ReturnMid, ReturnStanding
<1>8. CASE FailRelease
  BY <1>8, SameReturns DEF FailRelease, Aborts
<1>9. QED
  BY <1>4, <1>5, <1>6, <1>7, <1>8

LEMMA PlacedFile ==
  ASSUME Standing, FileStep
  PROVE  call.op = "PersistState" /\ (Works \/ Fault)
<1>1. pc.at \in {"create", "write", "sync", "rename"} => call.op = "PersistState"
  BY OpTypes, PlaceValues DEF Standing, Placed, Op
<1>2. QED
  BY <1>1 DEF FileStep, CreateTmp, WriteTmp, SyncTmp, RenameTmp, FailSave

LEMMA FileMid ==
  ASSUME Standing, Mid, file' \in Files, FileStep, dev' = dev
  PROVE  Standing' /\ Mid'
<1>1. call.op = "PersistState" /\ (Works \/ Fault) /\ dev \in Sysfs
  BY PlacedFile DEF Standing, TypeOK
<1>2. CASE CreateTmp \/ WriteTmp \/ SyncTmp
  <2>1. PICK place \in {"write", "sync", "rename"} : GotoNth(place, 1)
    BY <1>2 DEF CreateTmp, WriteTmp, SyncTmp, Goto
  <2>2. place \in PlacesOf(call.op) /\ 1 \in 1..LastPoint /\ place # "mode"
    BY <1>1, <2>1, PlaceValues, Numbers
  <2>3. Standing'
    BY <1>1, <2>1, <2>2, GotoStanding
  <2>4. call' = call /\ entry' = entry
    BY <2>1 DEF GotoNth
  <2>5. QED
    BY <1>1, <2>3, <2>4 DEF Mid, Untouched, RailsMid, FanMid, ClockMid, SameBut, ClockFree
<1>3. CASE RenameTmp \/ FailSave
  BY <1>1, <1>3, SameReturns DEF RenameTmp, FailSave
<1>4. QED
  BY <1>2, <1>3 DEF FileStep

LEMMA BeginMid ==
  ASSUME Standing, Mid, Begin
  PROVE  Standing' /\ Mid'
<1>1. /\ call' \in Calls /\ pc' = [at |-> FirstStep(call'), n |-> 1]
      /\ dev' = dev /\ entry' = dev /\ failed' = 0 /\ faults' = faults
      /\ outcome' = outcome /\ file' = file /\ begun' = begun + 1 /\ begun < MaxCalls
  BY DEF Begin
<1>2. call'.op \in Op \ {"none"}
  BY <1>1, CallFields DEF Op
<1>3. FirstStep(call') \in PlacesOf(call'.op)
  BY <1>2, PlaceValues DEF FirstStep, Op
<1>4. FirstStep(call') \in Place
  BY <1>2, <1>3, PlacesAreKnown
<1>5. call'.op \in Clocks => FirstStep(call') \in {"constraints", "release"}
        /\ (call'.op = "ApplyGpuClockRange" => FirstStep(call') = "constraints")
  BY DEF Clocks, FirstStep
<1>6. Standing'
  <2>1. TypeOK'
    <3>1. begun' \in 0..MaxCalls
      BY <1>1, Numbers DEF Standing, TypeOK
    <3>2. pc' \in [at : Place, n : 1..LastPoint] /\ faults' \in 0..MaxFaults /\ failed' \in 0..MaxFaults
      BY <1>1, <1>4, Numbers DEF Standing, TypeOK
    <3>3. QED
      BY <1>1, <3>1, <3>2 DEF Standing, TypeOK
  <2>2. (call.op = "ApplyPowerEnvelope" => pc.n <= LastRail)'
    BY <1>1 DEF LastRail
  <2>3. faults \in Nat
    BY Numbers DEF Standing, TypeOK
  <2>4. QED
    BY <1>1, <1>3, <2>1, <2>2, <2>3 DEF Standing, Placed
<1>7. SameBut({})' /\ SameBut({"rails"})' /\ SameBut({"mode", "table"})' /\ SameBut({"mode"})'
        /\ SameBut({"level", "staged", "committed"})'
  BY <1>1 DEF SameBut
<1>8. ClockFree(dev)' /\ ClockFree(entry)'
  BY <1>1 DEF Mid, ClockMid, ClockFree
<1>9. (RailsMid /\ Untouched)'
  BY <1>1, <1>7 DEF RailsMid, Untouched
<1>10. FanMid'
  <2>1. call'.op = "ApplyFanCurve" => FirstStep(call') = "resolve"
    BY DEF FirstStep
  <2>2. QED
    BY <1>1, <1>7, <2>1 DEF FanMid
<1>11. ClockMid'
  <2>1. pc'.at # "auto" \/ call'.op \notin Clocks
    BY <1>1, <1>5
  <2>2. QED
    BY <1>1, <1>5, <1>7, <1>8, <2>1 DEF ClockMid, Clocks
<1>12. QED
  BY <1>6, <1>9, <1>10, <1>11 DEF Mid

LEMMA LoseMid ==
  ASSUME Standing, Mid, Lose
  PROVE  Standing' /\ Mid'
<1>1. /\ dev \in Sysfs /\ dev' = LosesControl(dev) /\ call = NoCall
      /\ UNCHANGED <<file, call, pc, failed, entry, outcome, begun, faults>>
  BY DEF Lose, Standing, TypeOK
<1>2. /\ dev' \in Sysfs
      /\ dev'["level"] = dev["level"] /\ dev'["committed"] = dev["committed"]
  BY <1>1, LossTypes DEF Node
<1>3. Standing'
  BY <1>1, <1>2 DEF Standing, TypeOK, Placed, LastRail
<1>4. ClockFree(dev)' /\ ClockFree(entry)'
  BY <1>1, <1>2 DEF Mid, ClockMid, ClockFree
<1>5. call'.op = "none"
  BY <1>1 DEF NoCall
<1>6. QED
  BY <1>3, <1>4, <1>5 DEF Mid, Untouched, RailsMid, FanMid, ClockMid

LEMMA FrameMid ==
  ASSUME Standing, Mid, file' \in Files,
         UNCHANGED <<dev, call, pc, failed, entry, outcome, begun, faults>>
  PROVE  Standing' /\ Mid'
<1>1. Standing'
  BY DEF Standing, TypeOK, Placed, LastRail
<1>2. QED
  BY <1>1 DEF Mid, Untouched, RailsMid, FanMid, ClockMid, ClockFree, SameBut, Asked

LEMMA InitMid == Init => Standing /\ Mid
<1> SUFFICES ASSUME Init PROVE Standing /\ Mid
  OBVIOUS
<1>1. /\ call = NoCall /\ pc = [at |-> "idle", n |-> 1] /\ failed = 0 /\ faults = 0 /\ begun = 0
      /\ entry = dev /\ outcome = "ok"
  BY DEF Init
<1>2. file \in Files
  BY InitSafe DEF FileSafe
<1>3. dev \in Sysfs
  <2>1. MaxMilliwatts \in Nat /\ MaxMilliwatts <= MaxMilliwatts
    BY PowerAssumption
  <2>2. [r \in Rail |-> AsWatts(MaxMilliwatts)] \in [Rail -> 0..AsWatts(MaxMilliwatts)]
    BY <2>1, WattsBounded
  <2>3. [f \in Fan |-> [k \in 1..Points |-> [temp |-> Stock, pwm |-> Stock]]]
          \in [Fan -> [1..Points -> Point]]
    BY DEF Point
  <2>4. /\ [f \in Fan |-> "auto"] \in [Fan -> {"auto", "custom"}]
        /\ [min |-> Stock, max |-> Stock] \in Clock
        /\ "balanced" \in Choices /\ DefaultCharge \in Charge /\ DeviceRange \in Limits
    BY BackendAssumption, SelectionAssumption DEF Clock
  <2>5. QED
    BY <2>2, <2>3, <2>4 DEF Init, Sysfs
<1>4. TypeOK
  <2>1. pc \in [at : Place, n : 1..LastPoint]
    BY <1>1, Numbers DEF Place
  <2>2. failed \in 0..MaxFaults /\ faults \in 0..MaxFaults /\ begun \in 0..MaxCalls
    BY <1>1, Numbers
  <2>3. QED
    BY <1>1, <1>2, <1>3, <2>1, <2>2 DEF TypeOK
<1>5. Placed
  BY <1>1, PlaceValues DEF Placed, NoCall
<1>6. ClockFree(dev) /\ ClockFree(entry)
  BY <1>1 DEF Init, ClockFree, Freed
<1>7. call.op = "none"
  BY <1>1 DEF NoCall
<1>8. QED
  BY <1>4, <1>5, <1>6, <1>7 DEF Standing, Mid, Untouched, RailsMid, FanMid, ClockMid

LEMMA StepMid == FileSafe /\ Standing /\ Mid /\ [Next]_vars => Standing' /\ Mid'
<1> SUFFICES ASSUME FileSafe, Standing, Mid, [Next]_vars PROVE Standing' /\ Mid'
  OBVIOUS
<1>1. file' \in Files
  BY StepSafe DEF FileSafe
<1>2. CASE Begin
  BY <1>2, BeginMid
<1>3. CASE DeviceStep
  BY <1>1, <1>3, RailStep, WriteStep, FanStep, StageStep, CommitStep, ReleaseStep DEF DeviceStep
<1>4. CASE FileStep /\ UNCHANGED dev
  BY <1>1, <1>4, FileMid
<1>5. CASE Die \/ LosePower
  BY <1>1, <1>5, SameReturns DEF Die, LosePower
<1>6. CASE Lose
  BY <1>6, LoseMid
<1>7. CASE CommitDirectory \/ UNCHANGED vars
  BY <1>1, <1>7, FrameMid DEF CommitDirectory, vars
<1>8. QED
  BY <1>2, <1>3, <1>4, <1>5, <1>6, <1>7 DEF Next

\* The rails hold whole watts that fit, operations belong to their call, and
\* every node keeps its type, for any calls, failures and power losses.
THEOREM BackendTypes == Spec => []TypeOK
<1>1. Standing => TypeOK
  BY DEF Standing
<1>2. QED
  BY <1>1, InitSafe, InitMid, StepSafe, StepMid, PTL DEF Spec

-----------------------------------------------------------------------------
(* Calls that end.                                                         *)

LEMMA SameDevice ==
  ASSUME Standing, SameBut({})
  PROVE  dev = entry
<1>1. dev \in Sysfs /\ entry \in Sysfs
  BY DEF Standing, TypeOK
<1>2. \A g \in Node : dev[g] = entry[g]
  BY DEF SameBut
<1>3. QED
  BY <1>1, <1>2 DEF Sysfs, Node

LEMMA GoesOn ==
  ASSUME NEW place, NEW n, GotoNth(place, n)
  PROVE  call' = call
  BY DEF GotoNth

\* A clock call that fails has released the clock or touched nothing, for any
\* calls and for failures of all operations but its own cleanup.
THEOREM ClocksAreReleased == Spec => FailedClockReleased
<1>1. FileSafe /\ Standing /\ Mid /\ [Next]_vars =>
        (call.op = "ApplyGpuClockRange" /\ call' = NoCall /\ outcome' = "error" /\ failed' <= 1
           => dev'.level = "auto" \/ dev' = entry)
  <2> SUFFICES ASSUME Standing, Mid, [Next]_vars, call.op = "ApplyGpuClockRange",
                      call' = NoCall, outcome' = "error", failed' <= 1
               PROVE  dev'.level = "auto" \/ dev' = entry
    OBVIOUS
  <2>1. call # NoCall /\ dev \in Sysfs /\ failed \in Nat /\ ClockMid
    BY Numbers DEF NoCall, Standing, TypeOK, Mid
  <2>2. CASE FailClock
    <3>1. pc.at = "constraints" /\ dev' = dev
      BY <2>1, <2>2, GoesOn DEF FailClock, Goto, Aborts
    <3>2. QED
      BY <2>1, <3>1, SameDevice DEF ClockMid
  <2>3. CASE SetAuto
    <3>1. dev' = [dev EXCEPT !["level"] = "auto"]
      BY <2>3 DEF SetAuto
    <3>2. QED
      BY <2>1, <3>1, NodeWrite DEF Node
  <2>4. CASE FailRelease
    <3>1. failed > 0 /\ failed' = failed + 1
      BY <2>1, <2>4 DEF FailRelease, Aborts, Fault, ClockMid
    <3>2. QED
      BY <2>1, <3>1
  <2>5. ~Begin /\ ~Lose /\ ~CommitDirectory /\ ~UNCHANGED vars
    BY <2>1 DEF Begin, Lose, CommitDirectory, vars
  <2>6. ~Die /\ ~LosePower
    BY DEF Die, LosePower, Return
  <2>7. ~FileStep
    BY PlacedFile
  <2>8. ~(WriteRail \/ FailRail \/ WriteProfile \/ WriteThreshold \/ FailWrite)
    BY DEF WriteRail, FailRail, WriteProfile, WriteThreshold, FailWrite, At
  <2>9. ~(ResolveCurve \/ WritePoint \/ SwitchFan \/ ConfirmCurve \/ FailFan)
    BY DEF ResolveCurve, WritePoint, SwitchFan, ConfirmCurve, FailFan, At
  <2>10. ~(ReadConstraints \/ SetManual \/ StageMin \/ StageMax \/ Commit \/ Release)
    BY <2>1, GoesOn DEF ReadConstraints, SetManual, StageMin, StageMax, Commit, Release, Goto
  <2>11. ~ConfirmClock
    BY <2>1, GoesOn DEF ConfirmClock, Goto, Return
  <2>12. QED
    BY <2>2, <2>3, <2>4, <2>5, <2>6, <2>7, <2>8, <2>9, <2>10, <2>11 DEF Next, DeviceStep
<1>2. QED
  BY <1>1, InitSafe, InitMid, StepSafe, StepMid, PTL DEF Spec, FailedClockReleased

\* After a fan call that succeeds both fans are in the same mode, whatever
\* failed in it and in earlier calls.
THEOREM FansAlwaysAgree == Spec => FansAgree
<1>1. FileSafe /\ Standing /\ Mid /\ [Next]_vars =>
        (call.op \in {"ApplyFanCurve", "ResetFanCurve"} /\ call' = NoCall /\ outcome' = "ok"
           => dev'.mode["cpu"] = dev'.mode["gpu"])
  <2> SUFFICES ASSUME Standing, Mid, [Next]_vars,
                      call.op \in {"ApplyFanCurve", "ResetFanCurve"},
                      call' = NoCall, outcome' = "ok"
               PROVE  dev'.mode["cpu"] = dev'.mode["gpu"]
    OBVIOUS
  <2>1. call # NoCall /\ dev \in Sysfs /\ FanMid
    BY DEF NoCall, Standing, TypeOK, Mid
  <2>2. CASE ConfirmCurve
    BY <2>1, <2>2 DEF ConfirmCurve, At, FanMid, Fan
  <2>3. CASE SwitchFan
    <3>1. pc.n \in {1, 2} /\ dev.mode \in [Fan -> {"auto", "custom"}]
      BY <2>1, <2>3, FanTypes, SysfsFields
    <3>2. pc.n = 2 /\ call.op = "ResetFanCurve"
      BY <2>1, <2>3, <3>1, GoesOn DEF SwitchFan, Again, Goto
    <3>3. dev.mode["cpu"] = "auto"
      BY <2>1, <3>2 DEF FanMid
    <3>4. dev'["mode"] = [dev.mode EXCEPT !["gpu"] = "auto"]
      BY <2>3, <3>2, FanTypes DEF Fans
    <3>5. QED
      BY <3>1, <3>3, <3>4 DEF Fan
  <2>4. ~Begin /\ ~Lose /\ ~CommitDirectory /\ ~UNCHANGED vars
    BY <2>1 DEF Begin, Lose, CommitDirectory, vars
  <2>5. ~Die /\ ~LosePower
    BY DEF Die, LosePower, Return
  <2>6. ~FileStep
    BY PlacedFile
  <2>7. ~(WriteRail \/ FailRail \/ WriteProfile \/ WriteThreshold \/ FailWrite)
    BY DEF WriteRail, FailRail, WriteProfile, WriteThreshold, FailWrite, At
  <2>8. ~(ResolveCurve \/ WritePoint \/ FailFan)
    BY <2>1, GoesOn DEF ResolveCurve, WritePoint, FailFan, Aborts, Again, Goto, Return
  <2>9. ~(ReadConstraints \/ SetManual \/ StageMin \/ StageMax \/ Commit \/ ConfirmClock)
    BY DEF ReadConstraints, SetManual, StageMin, StageMax, Commit, ConfirmClock, At, Clocked
  <2>10. ~(FailClock \/ Release \/ SetAuto \/ FailRelease)
    <3>1. pc.at \notin {"release", "auto"}
      BY PlaceValues DEF Standing, Placed
    <3>2. QED
      BY <3>1 DEF FailClock, Release, SetAuto, FailRelease
  <2>11. QED
    BY <2>2, <2>3, <2>4, <2>5, <2>6, <2>7, <2>8, <2>9, <2>10 DEF Next, DeviceStep
<1>2. QED
  BY <1>1, InitSafe, InitMid, StepSafe, StepMid, PTL DEF Spec, FansAgree

-----------------------------------------------------------------------------
(* The refinement: what a call leaves when it ends, by operation.          *)

LEMMA SameCurve ==
  ASSUME NEW d, NEW e, d.mode = e.mode, d.table = e.table
  PROVE  ActiveSelection(d) = ActiveSelection(e)
<1> DEFINE Of(table) ==
             IF \E c \in Curve : \A f \in Fan : Whole(table[f], c)
             THEN CHOOSE c \in Curve : \A f \in Fan : Whole(table[f], c)
             ELSE MixedCurve
<1>1. /\ ActiveSelection(d) = IF d.mode["cpu"] = "auto" THEN None ELSE Of(d.table)
      /\ ActiveSelection(e) = IF e.mode["cpu"] = "auto" THEN None ELSE Of(e.table)
  BY DEF ActiveSelection, Stored
<1> HIDE DEF Of
<1>2. QED
  BY <1>1

LEMMA SameRange ==
  ASSUME NEW d, NEW e, d.level = e.level, d.committed = e.committed
  PROVE  ActiveRange(d) = ActiveRange(e)
  BY DEF ActiveRange

LEMMA SameHardware ==
  ASSUME NEW d, NEW e, d.rails = e.rails, d.enforced = e.enforced, d.profile = e.profile,
         d.charge = e.charge, d.limits = e.limits
  PROVE  /\ ActiveRange(d) = ActiveRange(e) =>
              HardwareOf(d) = [HardwareOf(e) EXCEPT !.curve = ActiveSelection(d)]
         /\ ActiveSelection(d) = ActiveSelection(e) =>
              HardwareOf(d) = [HardwareOf(e) EXCEPT !.gpu = ActiveRange(d)]
         /\ ActiveRange(d) = ActiveRange(e) /\ ActiveSelection(d) = ActiveSelection(e) =>
              HardwareOf(d) = HardwareOf(e)
<1> DEFINE env(rails) == [rail \in Rail |-> FromWatts(rails[rail])]
<1>1. /\ HardwareOf(d) =
           [envelope |-> env(d.rails), enforced |-> d.enforced,
            profile |-> ParseProfile(d.profile), charge |-> d.charge,
            curve |-> ActiveSelection(d), gpu |-> ActiveRange(d), limits |-> d.limits]
      /\ HardwareOf(e) =
           [envelope |-> env(e.rails), enforced |-> e.enforced,
            profile |-> ParseProfile(e.profile), charge |-> e.charge,
            curve |-> ActiveSelection(e), gpu |-> ActiveRange(e), limits |-> e.limits]
  BY DEF HardwareOf
<1>2. env(d.rails) = env(e.rails) /\ ParseProfile(d.profile) = ParseProfile(e.profile)
  OBVIOUS
<1> HIDE DEF env
<1> DEFINE c == ActiveSelection(d)
           g == ActiveRange(d)
<1>3. HardwareOf(d) =
        [envelope |-> env(e.rails), enforced |-> e.enforced,
         profile |-> ParseProfile(e.profile), charge |-> e.charge,
         curve |-> c, gpu |-> g, limits |-> e.limits]
  BY <1>1, <1>2
<1> HIDE DEF c, g
<1>4. ActiveRange(e) = g => HardwareOf(d) = [HardwareOf(e) EXCEPT !.curve = c]
  BY <1>1, <1>3
<1>5. ActiveSelection(e) = c => HardwareOf(d) = [HardwareOf(e) EXCEPT !.gpu = g]
  BY <1>1, <1>3
<1>6. ActiveRange(e) = g /\ ActiveSelection(e) = c => HardwareOf(d) = HardwareOf(e)
  BY <1>1, <1>3
<1>7. QED
  BY <1>4, <1>5, <1>6 DEF c, g

\* A fan in custom mode reads as some curve, the clock in manual as some range.
LEMMA CurveRead ==
  ASSUME NEW d
  PROVE  /\ d.mode["cpu"] = "auto" => ActiveSelection(d) = None
         /\ d.mode["cpu"] # "auto" => ActiveSelection(d) \in Curve
<1>1. MixedCurve \in Curve
  BY MixedCurveAssumption DEF Curve
<1>2. (\E c \in Curve : Stored(d, c)) => (CHOOSE c \in Curve : Stored(d, c)) \in Curve
  OBVIOUS
<1>3. QED
  BY <1>1, <1>2 DEF ActiveSelection

LEMMA StoredIsRead ==
  ASSUME NEW d, NEW c \in Curve, Stored(d, c), d.mode["cpu"] # "auto"
  PROVE  ActiveSelection(d) = c
<1> DEFINE b == CHOOSE x \in Curve : Stored(d, x)
<1>1. Stored(d, b) /\ ActiveSelection(d) = b
  BY DEF ActiveSelection
<1>2. 1 \in 1..Points /\ "cpu" \in Fan
  BY Numbers DEF Fan
<1> HIDE DEF b
<1>3. d.table["cpu"][1].temp = c /\ d.table["cpu"][1].temp = b
  BY <1>1, <1>2 DEF Stored, Whole
<1>4. QED
  BY <1>1, <1>3

LEMMA RangeRead ==
  ASSUME NEW d
  PROVE  /\ d.level = "auto" => ActiveRange(d) = None
         /\ d.level # "auto" /\ d.committed = Freed => ActiveRange(d) = Unmanaged
         /\ \A t \in Tier : d.level # "auto" /\ d.committed = [min |-> t, max |-> t]
                              => ActiveRange(d) = t
<1>1. Stock \notin Tier
  BY BackendAssumption DEF Curve
<1>2. QED
  BY <1>1 DEF ActiveRange, Freed

LEMMA HalfRails ==
  ASSUME Standing, Mid, call.op = "ApplyPowerEnvelope"
  PROVE  HardwareOf(dev) \in HalfWritten(HardwareOf(entry), call)
<1> DEFINE h == HardwareOf(entry)
           w == WrittenEnvelope(h.envelope, call.target)
           env(d) == [rail \in Rail |-> FromWatts(d.rails[rail])]
           with(e, b) == [envelope |-> e, enforced |-> b, profile |-> h.profile,
                          charge |-> h.charge, curve |-> h.curve, gpu |-> h.gpu,
                          limits |-> h.limits]
<1>1. /\ \A f \in Node \ {"rails"} : dev[f] = entry[f]
      /\ \A i \in 1..3 : dev.rails[Rails[i]] =
           IF i < pc.n THEN AsWatts(call.target[Rails[i]]) ELSE entry.rails[Rails[i]]
  BY DEF Mid, RailsMid, SameBut
<1>2. pc.n \in 1..LastRail /\ LastRail \in {2, 3}
  BY RailsHold
<1>3. ActiveSelection(dev) = ActiveSelection(entry) /\ ActiveRange(dev) = ActiveRange(entry)
  BY <1>1, SameCurve, SameRange DEF Node
<1>4. HardwareOf(dev) = with(env(dev), entry.enforced) /\ h = with(env(entry), entry.enforced)
  <2>1. ParseProfile(dev.profile) = ParseProfile(entry.profile)
    BY <1>1 DEF Node
  <2>2. QED
    BY <1>1, <1>3, <2>1 DEF HardwareOf, Node
<1>5. h.envelope = env(entry)
  BY DEF HardwareOf
<1>6. w.spl = FromWatts(AsWatts(call.target.spl)) /\ w.sppt = FromWatts(AsWatts(call.target.sppt))
  BY DEF WrittenEnvelope, WholeWatts
<1>7. /\ dev.rails["spl"] = IF 1 < pc.n THEN AsWatts(call.target.spl) ELSE entry.rails["spl"]
      /\ dev.rails["sppt"] = IF 2 < pc.n THEN AsWatts(call.target.sppt) ELSE entry.rails["sppt"]
      /\ dev.rails["fppt"] = entry.rails["fppt"]
  BY <1>1, <1>2 DEF Rails
<1> HIDE DEF h, w
<1>8. CASE pc.n = 1
  <2>1. env(dev) = env(entry)
    BY <1>7, <1>8 DEF Rail
  <2>2. HardwareOf(dev) = h
    BY <1>4, <2>1
  <2>3. QED
    BY <2>2 DEF HalfWritten, h
<1>9. CASE pc.n = 2
  <2>1. env(dev) = [env(entry) EXCEPT !["spl"] = w.spl]
    <3>1. /\ env(dev)["spl"] = w.spl
          /\ env(dev)["sppt"] = env(entry)["sppt"] /\ env(dev)["fppt"] = env(entry)["fppt"]
      BY <1>6, <1>7, <1>9 DEF Rail
    <3>2. QED
      BY <3>1 DEF Rail
  <2>2. HardwareOf(dev) = [h EXCEPT !.envelope = [h.envelope EXCEPT !.spl = w.spl]]
    BY <1>4, <1>5, <2>1
  <2>3. QED
    BY <2>2 DEF HalfWritten, h, w
<1>10. CASE pc.n = 3
  <2>1. env(dev) = [env(entry) EXCEPT !["spl"] = w.spl, !["sppt"] = w.sppt]
    <3>1. /\ env(dev)["spl"] = w.spl /\ env(dev)["sppt"] = w.sppt
          /\ env(dev)["fppt"] = env(entry)["fppt"]
      BY <1>6, <1>7, <1>10 DEF Rail
    <3>2. QED
      BY <3>1 DEF Rail
  <2> DEFINE v == [h.envelope EXCEPT !.spl = w.spl, !.sppt = w.sppt]
  <2>5. HardwareOf(dev) = with(v, entry.enforced)
    BY <1>4, <1>5, <2>1
  <2> HIDE DEF v
  <2>6. HardwareOf(dev) = [h EXCEPT !.envelope = v]
    BY <1>4, <2>5
  <2>2. HardwareOf(dev) = [h EXCEPT !.envelope = [h.envelope EXCEPT !.spl = w.spl, !.sppt = w.sppt]]
    BY <2>6 DEF v
  <2>3. call.target.fppt # NoFppt
    BY <1>2, <1>10 DEF LastRail
  <2>4. QED
    BY <2>2, <2>3 DEF HalfWritten, h, w
<1>11. QED
  BY <1>2, <1>8, <1>9, <1>10

LEMMA WholeRails ==
  ASSUME Standing, Mid, WriteRail, pc.n = LastRail
  PROVE  HardwareOf(dev') \in Written(HardwareOf(entry), call)
<1> DEFINE h == HardwareOf(entry)
           w == WrittenEnvelope(h.envelope, call.target)
           env(d) == [rail \in Rail |-> FromWatts(d.rails[rail])]
           with(e, b) == [envelope |-> e, enforced |-> b, profile |-> h.profile,
                          charge |-> h.charge, curve |-> h.curve, gpu |-> h.gpu,
                          limits |-> h.limits]
<1>1. call.op = "ApplyPowerEnvelope" /\ dev \in Sysfs
  BY DEF WriteRail, Standing, TypeOK
<1>2. /\ \A f \in Node \ {"rails"} : dev[f] = entry[f]
      /\ \A i \in 1..3 : dev.rails[Rails[i]] =
           IF i < pc.n THEN AsWatts(call.target[Rails[i]]) ELSE entry.rails[Rails[i]]
  BY <1>1 DEF Mid, RailsMid, SameBut
<1>3. /\ dev'["rails"] = [dev.rails EXCEPT ![Rails[pc.n]] = AsWatts(call.target[Rails[pc.n]])]
      /\ dev'["enforced"] = TRUE
      /\ \A g \in Node \ {"rails", "enforced"} : dev'[g] = entry[g]
  <2>1. (dev.enforced \/ pc.n = LastRail) = TRUE
    OBVIOUS
  <2>2. dev'["enforced"] = TRUE
    BY <2>1, RailTypes
  <2>3. QED
    BY <1>2, <2>2, RailTypes
<1>4. LastRail \in {2, 3} /\ (call.target.fppt = NoFppt <=> LastRail = 2)
  BY DEF LastRail
<1>5. dev.rails \in [Rail -> 0..AsWatts(MaxMilliwatts)]
  BY <1>1, SysfsFields
<1>6. /\ dev'.rails["spl"] = AsWatts(call.target.spl)
      /\ dev'.rails["sppt"] = AsWatts(call.target.sppt)
      /\ dev'.rails["fppt"] = IF call.target.fppt = NoFppt THEN entry.rails["fppt"]
                              ELSE AsWatts(call.target.fppt)
  <2>1. CASE LastRail = 2
    BY <1>2, <1>3, <1>4, <1>5, <2>1 DEF Rails, Rail
  <2>2. CASE LastRail = 3
    BY <1>2, <1>3, <1>4, <1>5, <2>2 DEF Rails, Rail
  <2>3. QED
    BY <1>4, <2>1, <2>2
<1>7. h.envelope = env(entry)
  BY DEF HardwareOf
<1>8. env(dev') = w
  <2>1. /\ env(dev')["spl"] = w.spl /\ env(dev')["sppt"] = w.sppt /\ env(dev')["fppt"] = w.fppt
    BY <1>6, <1>7 DEF WrittenEnvelope, WholeWatts, Rail
  <2>2. w = [spl |-> w.spl, sppt |-> w.sppt, fppt |-> w.fppt]
    BY DEF WrittenEnvelope
  <2>3. QED
    BY <2>1, <2>2 DEF Rail
<1>9. ActiveSelection(dev') = ActiveSelection(entry) /\ ActiveRange(dev') = ActiveRange(entry)
  BY <1>3, SameCurve, SameRange DEF Node
<1>10. HardwareOf(dev') = with(env(dev'), TRUE) /\ h = with(env(entry), entry.enforced)
  <2>1. ParseProfile(dev'.profile) = ParseProfile(entry.profile)
    BY <1>3 DEF Node
  <2>2. QED
    BY <1>3, <1>9, <2>1 DEF HardwareOf, Node
<1> HIDE DEF h, w, env
<1>11. HardwareOf(dev') = [h EXCEPT !.envelope = w, !.enforced = TRUE]
  <2>1. HardwareOf(dev') = with(w, TRUE)
    BY <1>8, <1>10
  <2> DEFINE e == env(entry)
             b == entry.enforced
  <2>2. h = with(e, b)
    BY <1>10
  <2> HIDE DEF e, b
  <2>3. [h EXCEPT !.envelope = w, !.enforced = TRUE] = with(w, TRUE)
    <3> DEFINE x == [h EXCEPT !.envelope = w]
    <3>1. x = with(w, b)
      BY <2>2
    <3>2. [h EXCEPT !.envelope = w, !.enforced = TRUE] = [x EXCEPT !.enforced = TRUE]
      BY <2>2
    <3> HIDE DEF x
    <3>3. [x EXCEPT !.enforced = TRUE] = with(w, TRUE)
      <4> DEFINE t == TRUE
      <4> HIDE DEF t
      <4>1. [x EXCEPT !.enforced = t] = with(w, t)
        BY <3>1
      <4>2. QED
        BY <4>1 DEF t
    <3>4. QED
      BY <3>2, <3>3
  <2>4. QED
    BY <2>1, <2>3
<1>12. QED
  BY <1>1, <1>11 DEF Written, h, w

LEMMA HalfFan ==
  ASSUME Standing, Mid, call.op \in {"ApplyFanCurve", "ResetFanCurve"}
  PROVE  HardwareOf(dev) \in HalfWritten(HardwareOf(entry), call)
<1> DEFINE h == HardwareOf(entry)
<1>1. dev \in Sysfs /\ dev.mode \in [Fan -> {"auto", "custom"}]
  BY SysfsFields DEF Standing, TypeOK
<1>2. \A g \in Node \ {"mode", "table"} : dev[g] = entry[g]
  BY DEF Mid, FanMid, SameBut, Node
<1>3. ActiveRange(dev) = ActiveRange(entry)
  BY <1>2, SameRange DEF Node
<1>4. HardwareOf(dev) = [h EXCEPT !.curve = ActiveSelection(dev)]
  BY <1>2, <1>3, SameHardware DEF Node
<1>5. ActiveSelection(dev) = ActiveSelection(entry) => HardwareOf(dev) = h
  BY <1>2, <1>3, SameHardware DEF Node
<1>6. CASE call.op = "ApplyFanCurve"
  <2>1. dev.mode["cpu"] = "auto" => entry.mode["cpu"] = "auto"
    BY <1>6 DEF Mid, FanMid
  <2>2. CASE dev.mode["cpu"] = "auto"
    <3>1. HardwareOf(dev) = h
      BY <1>5, <2>1, <2>2, CurveRead
    <3>2. QED
      BY <1>6, <3>1 DEF HalfWritten
  <2>3. CASE dev.mode["cpu"] # "auto"
    <3>1. ActiveSelection(dev) \in Curve
      BY <2>3, CurveRead
    <3>2. QED
      BY <1>4, <1>6, <3>1 DEF HalfWritten
  <2>4. QED
    BY <2>2, <2>3
<1>7. CASE call.op = "ResetFanCurve"
  <2>1. pc.n \in {1, 2}
    <3>1. pc.at = "mode"
      BY <1>7, PlaceValues DEF Standing, Placed
    <3>2. QED
      BY <3>1, Numbers DEF Standing, TypeOK, Placed
  <2>2. CASE pc.n = 1
    <3>1. dev.mode = entry.mode /\ dev["table"] = entry["table"]
      BY <1>7, <2>2 DEF Mid, FanMid, SameBut, Node
    <3>2. HardwareOf(dev) = h
      BY <1>5, <3>1, SameCurve
    <3>3. QED
      BY <1>7, <3>2 DEF HalfWritten
  <2>3. CASE pc.n = 2
    <3>1. ActiveSelection(dev) = None
      BY <1>7, <2>3, CurveRead DEF Mid, FanMid
    <3>2. QED
      BY <1>4, <1>7, <3>1 DEF HalfWritten
  <2>4. QED
    BY <2>1, <2>2, <2>3
<1>8. QED
  BY <1>6, <1>7

LEMMA HalfClock ==
  ASSUME Standing, Mid, call.op \in Clocks
  PROVE  HardwareOf(dev) \in HalfWritten(HardwareOf(entry), call)
<1> DEFINE h == HardwareOf(entry)
<1>1. /\ dev.level \in {"auto", "manual"} /\ entry.level \in {"auto", "manual"}
      /\ entry.committed \in Clock
  BY SysfsFields DEF Standing, TypeOK
<1>2. /\ \A g \in Node \ {"level", "staged", "committed"} : dev[g] = entry[g]
      /\ dev.level = "auto" => entry.level = "auto"
      /\ ClockFree(dev) /\ ClockFree(entry)
      /\ pc.at = "auto" => dev.committed = Freed
      /\ call.op = "ResetGpuClocks" =>
           dev.level = entry.level /\ (pc.at = "release" => dev.committed = entry.committed)
      /\ call.op = "ApplyGpuClockRange" => dev.committed \in {entry.committed, Freed, Asked}
  BY DEF Mid, ClockMid, SameBut, Clocks
<1>3. ActiveSelection(dev) = ActiveSelection(entry)
  BY <1>2, SameCurve DEF Node
<1>4. HardwareOf(dev) = [h EXCEPT !.gpu = ActiveRange(dev)]
  BY <1>2, <1>3, SameHardware DEF Node
<1>5. ActiveRange(dev) = ActiveRange(entry) => HardwareOf(dev) = h
  BY <1>2, <1>3, SameHardware DEF Node
<1>6. CASE call.op = "ApplyGpuClockRange"
  <2>1. call.tier \in Tier
    BY <1>6, OpTypes, CallFields
  <2>2. ActiveRange(dev) \in {ActiveRange(entry), None, Unmanaged, call.tier}
    <3>1. CASE dev.level = "auto"
      BY <3>1, RangeRead
    <3>2. CASE dev.level # "auto" /\ dev.committed = Freed
      BY <3>2, RangeRead
    <3>3. CASE dev.level # "auto" /\ dev.committed = Asked
      BY <2>1, <3>3, RangeRead DEF Asked
    <3>4. CASE dev.level # "auto" /\ dev.committed = entry.committed /\ dev.committed # Freed
      <4>1. entry.level = "manual" /\ dev.level = "manual"
        BY <1>1, <1>2, <3>4 DEF ClockFree
      <4>2. QED
        BY <3>4, <4>1, SameRange
    <3>5. QED
      BY <1>2, <1>6, <3>1, <3>2, <3>3, <3>4
  <2>3. CASE ActiveRange(dev) = ActiveRange(entry)
    BY <1>5, <1>6, <2>3 DEF HalfWritten
  <2>4. CASE ActiveRange(dev) \in {None, Unmanaged, call.tier}
    BY <1>4, <1>6, <2>4 DEF HalfWritten
  <2>5. QED
    BY <2>2, <2>3, <2>4
<1>7. CASE call.op = "ResetGpuClocks"
  <2>1. pc.at \in {"release", "auto"}
    BY <1>7, PlaceValues DEF Standing, Placed
  <2>2. CASE dev.committed = entry.committed \/ dev.level = "auto"
    <3>1. ActiveRange(dev) = ActiveRange(entry)
      BY <1>2, <1>7, <2>2, SameRange, RangeRead
    <3>2. QED
      BY <1>5, <1>7, <3>1 DEF HalfWritten
  <2>3. CASE dev.committed # entry.committed /\ dev.level # "auto"
    <3>1. ActiveRange(dev) = Unmanaged
      BY <1>2, <1>7, <2>1, <2>3, RangeRead
    <3>2. entry.level # "auto"
      BY <1>2, <1>7, <2>3
    <3>3. h.gpu # None
      <4>1. ActiveRange(entry) \in Tier \cup {Unmanaged}
        BY <3>2 DEF ActiveRange
      <4>2. QED
        BY <4>1, SelectionAssumption DEF HardwareOf, GpuClock
    <3>4. QED
      BY <1>4, <1>7, <3>1, <3>3 DEF HalfWritten
  <2>4. QED
    BY <2>2, <2>3
<1>8. QED
  BY <1>6, <1>7 DEF Clocks

\* Wherever a call stands, the device is one that it may fail with.
LEMMA Half ==
  ASSUME Standing, Mid, call # NoCall
  PROVE  IF call = PersistState THEN HardwareOf(dev) = HardwareOf(entry)
         ELSE HardwareOf(dev) \in HalfWritten(HardwareOf(entry), call)
<1>1. call \in Calls /\ call.op \in Op \ {"none"}
  BY OpTypes
<1>2. CASE call.op \in {"ApplyPlatformProfile", "ApplyChargeThreshold", "PersistState"}
  <2>1. dev = entry
    BY <1>2, SameDevice DEF Mid, Untouched
  <2>2. QED
    BY <1>1, <1>2, <2>1, CallFields DEF HalfWritten
<1>3. CASE call.op \notin {"ApplyPlatformProfile", "ApplyChargeThreshold", "PersistState"}
  <2>1. call # PersistState
    BY <1>3 DEF PersistState
  <2>2. QED
    BY <1>1, <1>3, <2>1, HalfRails, HalfFan, HalfClock DEF Op, Clocks
<1>4. QED
  BY <1>2, <1>3

LEMMA WholeWrite ==
  ASSUME Standing, Mid, WriteProfile \/ WriteThreshold
  PROVE  HardwareOf(dev') \in Written(HardwareOf(entry), call)
<1> DEFINE h == HardwareOf(entry)
<1>1. /\ call.op \in {"ApplyPlatformProfile", "ApplyChargeThreshold"} /\ call \in Calls
      /\ dev = entry /\ dev \in Sysfs
  BY OpTypes, SameDevice DEF WriteProfile, WriteThreshold, At, Mid, Untouched, Standing, TypeOK
<1>2. CASE WriteProfile
  <2> DEFINE written == [dev EXCEPT !["profile"] = TargetString(call.profile)]
             lost == LosesControl(written)
  <2>1. call.op = "ApplyPlatformProfile" /\ call.profile \in Profile
    BY <1>1, <1>2, CallFields DEF WriteProfile, At
  <2>2. /\ written \in Sysfs /\ ParseProfile(written.profile) = call.profile
        /\ \A g \in Node \ {"profile"} : written[g] = entry[g]
    <3>1. TargetString(call.profile) \in Choices /\ ParseProfile(TargetString(call.profile)) = call.profile
      BY <2>1, TargetTypes
    <3>2. written \in Sysfs
      BY <1>1, <3>1, NodeTypes
    <3>3. written["profile"] = TargetString(call.profile)
            /\ \A g \in Node \ {"profile"} : written[g] = dev[g]
      BY <1>1, NodeWrite DEF Node
    <3>4. QED
      BY <1>1, <3>1, <3>2, <3>3
  <2>3. \/ dev' = lost
        \/ dev' = entry /\ written = entry
    BY <1>1, <1>2 DEF WriteProfile
  <2>4. CASE dev' = lost
    <3> HIDE DEF written
    <3>1. /\ lost["enforced"] = FALSE /\ lost["mode"]["cpu"] = "auto"
          /\ \A g \in Node \ {"enforced", "mode"} : lost[g] = written[g]
      BY <2>2, LossTypes DEF Fan
    <3>2. ActiveSelection(lost) = None
      BY <3>1, CurveRead
    <3>3. ActiveRange(lost) = ActiveRange(entry)
      BY <2>2, <3>1, SameRange DEF Node
    <3> HIDE DEF lost
    <3>4. HardwareOf(lost) = DropsControl([h EXCEPT !.profile = call.profile])
      <4> DEFINE env(rails) == [rail \in Rail |-> FromWatts(rails[rail])]
      <4>1. /\ HardwareOf(lost) =
                 [envelope |-> env(lost.rails), enforced |-> lost.enforced,
                  profile |-> ParseProfile(lost.profile), charge |-> lost.charge,
                  curve |-> ActiveSelection(lost), gpu |-> ActiveRange(lost),
                  limits |-> lost.limits]
            /\ h = [envelope |-> env(entry.rails), enforced |-> entry.enforced,
                    profile |-> ParseProfile(entry.profile), charge |-> entry.charge,
                    curve |-> ActiveSelection(entry), gpu |-> ActiveRange(entry),
                    limits |-> entry.limits]
        BY DEF HardwareOf
      <4> HIDE DEF env, h
      <4>2. HardwareOf(lost) =
              [envelope |-> env(entry.rails), enforced |-> FALSE,
               profile |-> call.profile, charge |-> entry.charge,
               curve |-> None, gpu |-> ActiveRange(entry), limits |-> entry.limits]
        BY <2>2, <3>1, <3>2, <3>3, <4>1 DEF Node
      <4> DEFINE x == [h EXCEPT !.profile = call.profile]
                 t == FALSE
      <4>3. x = [envelope |-> env(entry.rails), enforced |-> entry.enforced,
                 profile |-> call.profile, charge |-> entry.charge,
                 curve |-> ActiveSelection(entry), gpu |-> ActiveRange(entry),
                 limits |-> entry.limits]
        BY <4>1
      <4> HIDE DEF x, t
      <4>4. [[x EXCEPT !.enforced = t] EXCEPT !.curve = None] =
              [envelope |-> env(entry.rails), enforced |-> t,
               profile |-> call.profile, charge |-> entry.charge,
               curve |-> None, gpu |-> ActiveRange(entry), limits |-> entry.limits]
        <5> DEFINE y == [x EXCEPT !.enforced = t]
        <5>1. y = [envelope |-> env(entry.rails), enforced |-> t,
                   profile |-> call.profile, charge |-> entry.charge,
                   curve |-> ActiveSelection(entry), gpu |-> ActiveRange(entry),
                   limits |-> entry.limits]
          BY <4>3
        <5> HIDE DEF y
        <5>2. [y EXCEPT !.curve = None] =
                [envelope |-> env(entry.rails), enforced |-> t,
                 profile |-> call.profile, charge |-> entry.charge,
                 curve |-> None, gpu |-> ActiveRange(entry), limits |-> entry.limits]
          BY <5>1
        <5>3. QED
          BY <5>2 DEF y
      <4>5. DropsControl(x) = [[x EXCEPT !.enforced = t] EXCEPT !.curve = None]
        BY <4>3 DEF DropsControl, t
      <4>6. QED
        BY <4>2, <4>4, <4>5 DEF x, t
    <3>5. QED
      BY <2>1, <2>4, <3>4 DEF Written
  <2>5. CASE dev' = entry /\ written = entry
    <3>1. h.profile = call.profile
      BY <2>2, <2>5 DEF HardwareOf
    <3>2. QED
      BY <2>1, <2>5, <3>1 DEF Written
  <2>6. QED
    BY <2>3, <2>4, <2>5
<1>3. CASE WriteThreshold
  <2>1. call.op = "ApplyChargeThreshold" /\ dev' = [entry EXCEPT !["charge"] = call.charge]
    BY <1>1, <1>3 DEF WriteThreshold, At
  <2>2. dev'["charge"] = call.charge /\ \A g \in Node \ {"charge"} : dev'[g] = entry[g]
    BY <1>1, <2>1, NodeWrite DEF Node
  <2>3. ActiveSelection(dev') = ActiveSelection(entry) /\ ActiveRange(dev') = ActiveRange(entry)
    BY <2>2, SameCurve, SameRange DEF Node
  <2>4. HardwareOf(dev') = [h EXCEPT !.charge = call.charge]
    <3> DEFINE env(rails) == [rail \in Rail |-> FromWatts(rails[rail])]
    <3>1. /\ HardwareOf(dev') =
               [envelope |-> env(dev'.rails), enforced |-> dev'.enforced,
                profile |-> ParseProfile(dev'.profile), charge |-> dev'.charge,
                curve |-> ActiveSelection(dev'), gpu |-> ActiveRange(dev'),
                limits |-> dev'.limits]
          /\ h = [envelope |-> env(entry.rails), enforced |-> entry.enforced,
                  profile |-> ParseProfile(entry.profile), charge |-> entry.charge,
                  curve |-> ActiveSelection(entry), gpu |-> ActiveRange(entry),
                  limits |-> entry.limits]
      BY DEF HardwareOf
    <3> HIDE DEF env, h
    <3>2. HardwareOf(dev') =
            [envelope |-> env(entry.rails), enforced |-> entry.enforced,
             profile |-> ParseProfile(entry.profile), charge |-> call.charge,
             curve |-> ActiveSelection(entry), gpu |-> ActiveRange(entry),
             limits |-> entry.limits]
      BY <2>2, <2>3, <3>1 DEF Node
    <3>3. QED
      BY <3>1, <3>2
  <2>5. QED
    BY <2>1, <2>4 DEF Written
<1>4. QED
  BY <1>2, <1>3

LEMMA WholeFan ==
  ASSUME Standing, Mid, (ConfirmCurve \/ SwitchFan) /\ Return("ok")
  PROVE  HardwareOf(dev') \in Written(HardwareOf(entry), call)
<1> DEFINE h == HardwareOf(entry)
<1>1. /\ call.op \in {"ApplyFanCurve", "ResetFanCurve"} /\ call \in Calls /\ call' = NoCall
      /\ call # NoCall /\ dev \in Sysfs /\ FanMid
      /\ dev.mode \in [Fan -> {"auto", "custom"}]
  BY OpTypes, SysfsFields
     DEF ConfirmCurve, SwitchFan, At, Standing, TypeOK, Return, Mid, NoCall
<1>2. \A g \in Node \ {"mode", "table"} : dev[g] = entry[g]
  BY <1>1 DEF FanMid, SameBut, Node
<1>3. CASE ConfirmCurve
  <2>1. /\ call.op = "ApplyFanCurve" /\ call.curve \in Curve /\ dev' = dev
        /\ dev.mode["cpu"] = "custom"
    BY <1>1, <1>3, CallFields DEF ConfirmCurve, At, FanMid, Fan
  <2>2. Stored(dev, call.curve)
    BY <1>3 DEF ConfirmCurve, Return
  <2>3. ActiveSelection(dev) = call.curve
    BY <2>1, <2>2, StoredIsRead
  <2>4. HardwareOf(dev) = [h EXCEPT !.curve = call.curve]
    BY <1>2, <2>3, SameRange, SameHardware DEF Node
  <2>5. QED
    BY <2>1, <2>4 DEF Written
<1>4. CASE SwitchFan
  <2>1. pc.n = 2 /\ call.op = "ResetFanCurve"
    BY <1>1, <1>4, FanTypes, GoesOn DEF SwitchFan, Again, Goto
  <2>2. \A g \in Node \ {"mode", "table"} : dev'[g] = entry[g]
    BY <1>2, <1>4, FanTypes DEF Node
  <2>3. dev'["mode"]["cpu"] = "auto"
    <3>1. dev'["mode"] = [dev.mode EXCEPT !["gpu"] = "auto"]
      BY <1>4, <2>1, FanTypes DEF Fans
    <3>2. QED
      BY <1>1, <2>1, <3>1 DEF FanMid, Fan
  <2>4. ActiveSelection(dev') = None
    BY <2>3, CurveRead
  <2>5. HardwareOf(dev') = [h EXCEPT !.curve = None]
    <3>1. ActiveRange(dev') = ActiveRange(entry)
      BY <2>2, SameRange DEF Node
    <3>2. HardwareOf(dev') = [h EXCEPT !.curve = ActiveSelection(dev')]
      BY <2>2, <3>1, SameHardware DEF Node
    <3>3. QED
      BY <2>4, <3>2
  <2>6. QED
    BY <2>1, <2>5 DEF Written
<1>5. QED
  BY <1>3, <1>4

LEMMA WholeClock ==
  ASSUME Standing, Mid, ConfirmClock /\ Return("ok")
  PROVE  HardwareOf(dev') \in Written(HardwareOf(entry), call)
<1> DEFINE h == HardwareOf(entry)
<1>1. /\ call.op = "ApplyGpuClockRange" /\ call.op \in Clocks /\ call \in Calls
      /\ dev' = dev /\ ClockMid /\ pc.at = "confirm"
  BY OpTypes DEF ConfirmClock, At, Clocked, Clocks, Mid
<1>2. call.tier \in Tier
  BY <1>1, CallFields
<1>3. dev.committed = Asked /\ dev.level = "manual"
  <2>1. call' = NoCall /\ call # NoCall
    BY <1>1 DEF Return, NoCall
  <2>2. QED
    BY <1>1, <2>1, GoesOn DEF ConfirmClock, Goto, Asked, ClockMid
<1>4. ActiveRange(dev) = call.tier
  BY <1>2, <1>3, RangeRead DEF Asked
<1>5. \A g \in Node \ {"level", "staged", "committed"} : dev[g] = entry[g]
  BY <1>1 DEF ClockMid, SameBut, Clocks
<1>6. HardwareOf(dev) = [h EXCEPT !.gpu = call.tier]
  BY <1>4, <1>5, SameCurve, SameHardware DEF Node
<1>7. QED
  BY <1>1, <1>6 DEF Written

LEMMA AutoClock ==
  ASSUME Standing, Mid, SetAuto
  PROVE  /\ call.op = "ResetGpuClocks" => HardwareOf(dev') \in Written(HardwareOf(entry), call)
         /\ call.op # "ResetGpuClocks" =>
              call.op = "ApplyGpuClockRange"
                /\ HardwareOf(dev') \in HalfWritten(HardwareOf(entry), call)
<1> DEFINE h == HardwareOf(entry)
<1>1. call.op \in Clocks /\ dev \in Sysfs /\ ClockMid
  BY OpTypes, PlaceValues DEF SetAuto, Standing, TypeOK, Placed, Op, Clocks, Mid
<1>2. dev' = [dev EXCEPT !["level"] = "auto"]
  BY DEF SetAuto
<1>3. dev'["level"] = "auto" /\ \A g \in Node \ {"level"} : dev'[g] = dev[g]
  BY <1>1, <1>2, NodeWrite DEF Node
<1>4. \A g \in Node \ {"level", "staged", "committed"} : dev'[g] = entry[g]
  BY <1>1, <1>3 DEF ClockMid, SameBut, Clocks
<1>5. ActiveRange(dev') = None
  BY <1>3, RangeRead
<1>6. HardwareOf(dev') = [h EXCEPT !.gpu = None]
  BY <1>4, <1>5, SameCurve, SameHardware DEF Node
<1>7. QED
  BY <1>1, <1>6 DEF Written, HalfWritten, Clocks

\* The instance's operators are those of this module.
LEMMA SameOperators ==
  /\ \A h, e : Promised!Written(h, e) = Written(h, e)
  /\ \A h, e : Promised!HalfWritten(h, e) = HalfWritten(h, e)
  /\ \A h : Promised!DropsControl(h) = DropsControl(h)
  /\ Promised!NoCall = NoCall /\ Promised!PersistState = PersistState
  /\ Promised!Hardware = Hardware
<1>1. \A h : Promised!DropsControl(h) = DropsControl(h)
  BY DEF Promised!DropsControl, DropsControl
<1>2. Promised!NoCall = NoCall /\ Promised!PersistState = PersistState
  BY DEF Promised!NoCall, NoCall, Promised!PersistState, PersistState
<1>3. \A old, e : Promised!WrittenEnvelope(old, e) = WrittenEnvelope(old, e)
  BY DEF Promised!WrittenEnvelope, Promised!WholeWatts, Promised!FromWatts, Promised!AsWatts,
         Promised!NoFppt, WrittenEnvelope, WholeWatts, FromWatts, AsWatts, NoFppt
<1>4. \A h, e : Promised!Written(h, e) = Written(h, e)
  BY <1>1, <1>3 DEF Promised!Written, Written
<1>5. Promised!Curve = Curve
  BY DEF Promised!Curve, Promised!Tier, Curve, Tier
<1>6. \A h, e : Promised!HalfWritten(h, e) = HalfWritten(h, e)
  BY <1>3, <1>5 DEF Promised!HalfWritten, HalfWritten, Promised!NoFppt, NoFppt
<1>7. Promised!Hardware = Hardware
  BY <1>5 DEF Promised!Hardware, Hardware, Promised!Envelope, Envelope, Promised!NoFppt, NoFppt,
              Promised!Profile, Profile, Promised!GpuClock, GpuClock, Promised!Tier, Tier,
              Promised!Limits, Limits
<1>8. QED
  BY <1>1, <1>2, <1>4, <1>6, <1>7

-----------------------------------------------------------------------------
(* Every step is one of DeviceCalls or none of its business.               *)

Mapped == IF call = NoCall THEN HardwareOf(dev) ELSE HardwareOf(entry)

Stutter == Mapped' = Mapped /\ call' = call /\ outcome' = outcome

LEMMA StutterStep ==
  ASSUME Stutter
  PROVE  UNCHANGED Promised!deviceVars
  BY DEF Stutter, Mapped, Promised!deviceVars

LEMMA WhileCalled ==
  ASSUME NEW place, NEW n, GotoNth(place, n), call # NoCall
  PROVE  Stutter
  BY DEF GotoNth, Stutter, Mapped

LEMMA Succeeds ==
  ASSUME call # NoCall, Return("ok"),
         IF call = PersistState THEN HardwareOf(dev') = HardwareOf(entry)
         ELSE HardwareOf(dev') \in Written(HardwareOf(entry), call)
  PROVE  Promised!Succeed
<1>1. Mapped = HardwareOf(entry) /\ Mapped' = HardwareOf(dev')
  BY DEF Mapped, Return
<1>2. QED
  BY <1>1, SameOperators DEF Promised!Succeed, Promised!Ends, Mapped, Return

LEMMA Fails ==
  ASSUME call # NoCall, call # PersistState, Return("error"),
         HardwareOf(dev') \in HalfWritten(HardwareOf(entry), call)
  PROVE  Promised!Fail
<1>1. Mapped = HardwareOf(entry) /\ Mapped' = HardwareOf(dev')
  BY DEF Mapped, Return
<1>2. QED
  BY <1>1, SameOperators DEF Promised!Fail, Promised!Ends, Mapped, Return

LEMMA Dies ==
  ASSUME Standing, Mid, call # NoCall, Return("crash"), dev' = dev
  PROVE  Promised!Die
<1>1. Mapped = HardwareOf(entry) /\ Mapped' = HardwareOf(dev)
  BY DEF Mapped, Return
<1>2. QED
  BY <1>1, Half, SameOperators DEF Promised!Die, Promised!Ends, Mapped, Return

Kept == Promised!Next \/ UNCHANGED Promised!deviceVars

LEMMA AbortKept ==
  ASSUME Standing, Mid, call # NoCall, call # PersistState, Aborts
  PROVE  Kept
BY Half, Fails DEF Aborts, Kept, Promised!Next

LEMMA GotoKept ==
  ASSUME call # NoCall, NEW place, NEW n, GotoNth(place, n)
  PROVE  Kept
BY WhileCalled, StutterStep DEF Kept

LEMMA DeviceKept ==
  ASSUME Standing, Mid, DeviceStep
  PROVE  Kept
<1>1. call # NoCall /\ call # PersistState
  <2>1. pc.at \in {"release", "auto"} => call.op \in Clocks
    BY OpTypes, PlaceValues DEF Standing, Placed, Op, Clocks
  <2>2. call.op \notin {"none", "PersistState"}
    BY <2>1 DEF DeviceStep, WriteRail, FailRail, WriteProfile, WriteThreshold, FailWrite,
                ResolveCurve, WritePoint, SwitchFan, ConfirmCurve, FailFan, ReadConstraints,
                SetManual, StageMin, StageMax, Commit, ConfirmClock, FailClock, Release, SetAuto,
                FailRelease, At, Clocked, Clocks
  <2>3. QED
    BY <2>2 DEF NoCall, PersistState
<1>2. ASSUME NEW how \in {"ok"}, Return(how), HardwareOf(dev') \in Written(HardwareOf(entry), call)
      PROVE  Kept
  BY <1>1, <1>2, Succeeds DEF Kept, Promised!Next
<1>3. ASSUME Return("error"), HardwareOf(dev') \in HalfWritten(HardwareOf(entry), call)
      PROVE  Kept
  BY <1>1, <1>3, Fails DEF Kept, Promised!Next
<1>4. HardwareOf(dev) \in HalfWritten(HardwareOf(entry), call)
  BY <1>1, Half
<1>5. CASE WriteRail
  <2>1. CASE pc.n = LastRail
    BY <1>2, <1>5, <2>1, WholeRails DEF WriteRail
  <2>2. CASE pc.n # LastRail
    BY <1>1, <1>5, <2>2, GotoKept DEF WriteRail
  <2>3. QED
    BY <2>1, <2>2
<1>6. CASE FailRail
  BY <1>1, <1>6, GotoKept, AbortKept DEF FailRail
<1>7. CASE WriteProfile \/ WriteThreshold
  <2>1. Return("ok")
    BY <1>7 DEF WriteProfile, WriteThreshold
  <2>2. QED
    BY <1>2, <1>7, <2>1, WholeWrite
<1>8. CASE FailWrite \/ FailFan
  BY <1>1, <1>8, AbortKept DEF FailWrite, FailFan
<1>9. CASE ResolveCurve
  <2>1. CASE call.curve \in InvalidCurve
    BY <1>3, <1>4, <1>9, <2>1 DEF ResolveCurve
  <2>2. CASE call.curve \notin InvalidCurve
    BY <1>1, <1>9, <2>2, GotoKept DEF ResolveCurve, Goto
  <2>3. QED
    BY <2>1, <2>2
<1>10. CASE WritePoint
  BY <1>1, <1>10, GotoKept DEF WritePoint, Goto, Again
<1>11. CASE SwitchFan
  <2>1. CASE Return("ok")
    BY <1>2, <1>11, <2>1, WholeFan
  <2>2. CASE ~Return("ok")
    BY <1>1, <1>11, <2>2, GotoKept DEF SwitchFan, Goto, Again
  <2>3. QED
    BY <2>1, <2>2
<1>12. CASE ConfirmCurve
  <2>1. CASE Stored(dev, call.curve)
    <3>1. Return("ok")
      BY <1>12, <2>1 DEF ConfirmCurve
    <3>2. QED
      BY <1>2, <1>12, <3>1, WholeFan
  <2>2. CASE ~Stored(dev, call.curve)
    <3>1. Return("error") /\ dev' = dev
      BY <1>12, <2>2 DEF ConfirmCurve
    <3>2. QED
      BY <1>3, <1>4, <3>1
  <2>3. QED
    BY <2>1, <2>2
<1>13. CASE ReadConstraints \/ SetManual \/ StageMin \/ StageMax \/ Commit \/ Release
  BY <1>1, <1>13, GotoKept DEF ReadConstraints, SetManual, StageMin, StageMax, Commit, Release, Goto
<1>14. CASE ConfirmClock
  <2>1. CASE Return("ok")
    BY <1>2, <1>14, <2>1, WholeClock
  <2>2. CASE ~Return("ok")
    BY <1>1, <1>14, <2>2, GotoKept DEF ConfirmClock, Goto
  <2>3. QED
    BY <2>1, <2>2
<1>15. CASE FailClock
  BY <1>1, <1>15, GotoKept, AbortKept DEF FailClock, Goto
<1>16. CASE SetAuto
  <2>1. CASE call.op = "ResetGpuClocks"
    <3>1. Return("ok")
      BY <1>16, <2>1 DEF SetAuto
    <3>2. QED
      BY <1>2, <1>16, <2>1, <3>1, AutoClock
  <2>2. CASE call.op # "ResetGpuClocks"
    <3>1. Return("error")
      BY <1>16, <2>2 DEF SetAuto
    <3>2. QED
      BY <1>3, <1>16, <2>2, <3>1, AutoClock
  <2>3. QED
    BY <2>1, <2>2
<1>17. CASE FailRelease
  BY <1>1, <1>17, AbortKept DEF FailRelease
<1>18. QED
  BY <1>5, <1>6, <1>7, <1>8, <1>9, <1>10, <1>11, <1>12, <1>13, <1>14, <1>15, <1>16, <1>17
     DEF DeviceStep

LEMMA FileKept ==
  ASSUME Standing, Mid, FileStep, dev' = dev
  PROVE  Kept
<1>1. call = PersistState /\ call # NoCall
  BY PlacedFile, OpTypes, CallFields DEF NoCall
<1>2. CASE CreateTmp \/ WriteTmp \/ SyncTmp
  BY <1>1, <1>2, GotoKept DEF CreateTmp, WriteTmp, SyncTmp, Goto
<1>3. CASE RenameTmp \/ FailSave
  <2>1. Return("ok")
    BY <1>3 DEF RenameTmp, FailSave
  <2>2. HardwareOf(dev') = HardwareOf(entry)
    BY <1>1, Half
  <2>3. QED
    BY <1>1, <2>1, <2>2, Succeeds DEF Kept, Promised!Next
<1>4. QED
  BY <1>2, <1>3 DEF FileStep

LEMMA BeginKept ==
  ASSUME Begin
  PROVE  Kept
<1>1. call = NoCall /\ call' \in Calls /\ call' # NoCall /\ entry' = dev /\ dev' = dev
        /\ outcome' = outcome
  BY CallFields DEF Begin
<1>2. Mapped' = Mapped
  BY <1>1 DEF Mapped, HardwareOf, ActiveSelection, ActiveRange, Stored
<1>3. QED
  BY <1>1, <1>2, SameOperators DEF Kept, Promised!Next, Promised!Begin, Mapped

LEMMA LoseKept ==
  ASSUME Standing, Lose
  PROVE  Kept
<1> DEFINE lost == LosesControl(dev)
           h == HardwareOf(dev)
           env(rails) == [rail \in Rail |-> FromWatts(rails[rail])]
           t == FALSE
<1>1. call = NoCall /\ call' = NoCall /\ outcome' = outcome /\ dev' = lost /\ dev \in Sysfs
  BY DEF Lose, Standing, TypeOK
<1>2. /\ lost["enforced"] = FALSE /\ lost["mode"]["cpu"] = "auto"
      /\ \A g \in Node \ {"enforced", "mode"} : lost[g] = dev[g]
  BY <1>1, LossTypes DEF Fan
<1>3. ActiveSelection(lost) = None /\ ActiveRange(lost) = ActiveRange(dev)
  BY <1>2, CurveRead, SameRange DEF Node
<1> HIDE DEF lost
<1>4. /\ HardwareOf(lost) =
           [envelope |-> env(lost.rails), enforced |-> lost.enforced,
            profile |-> ParseProfile(lost.profile), charge |-> lost.charge,
            curve |-> ActiveSelection(lost), gpu |-> ActiveRange(lost), limits |-> lost.limits]
      /\ h = [envelope |-> env(dev.rails), enforced |-> dev.enforced,
              profile |-> ParseProfile(dev.profile), charge |-> dev.charge,
              curve |-> ActiveSelection(dev), gpu |-> ActiveRange(dev), limits |-> dev.limits]
  BY DEF HardwareOf
<1> HIDE DEF env, h, t
<1>5. HardwareOf(lost) =
        [envelope |-> env(dev.rails), enforced |-> t, profile |-> ParseProfile(dev.profile),
         charge |-> dev.charge, curve |-> None, gpu |-> ActiveRange(dev), limits |-> dev.limits]
  BY <1>2, <1>3, <1>4 DEF Node, t
<1> DEFINE x == [h EXCEPT !.enforced = t]
<1>6. x = [envelope |-> env(dev.rails), enforced |-> t, profile |-> ParseProfile(dev.profile),
           charge |-> dev.charge, curve |-> ActiveSelection(dev), gpu |-> ActiveRange(dev),
           limits |-> dev.limits]
  BY <1>4
<1>7. DropsControl(h) = [x EXCEPT !.curve = None]
  BY <1>4 DEF DropsControl, t
<1> HIDE DEF x
<1>8. HardwareOf(lost) = DropsControl(h)
  BY <1>5, <1>6, <1>7
<1>9. Mapped = h /\ Mapped' = HardwareOf(lost)
  BY <1>1 DEF Mapped, h
<1>10. QED
  BY <1>1, <1>8, <1>9, SameOperators DEF Kept, Promised!Next, Promised!Lose, Mapped

LEMMA PowerKept ==
  ASSUME Standing, Mid, Die \/ LosePower
  PROVE  Kept
<1>1. Return("crash") /\ dev' = dev
  BY DEF Die, LosePower
<1>2. CASE call # NoCall
  BY <1>1, <1>2, Dies DEF Kept, Promised!Next
<1>3. CASE call = NoCall
  <2>1. Mapped' = Mapped /\ call' = call /\ outcome' = "crash"
    BY <1>1, <1>3 DEF Mapped, Return
  <2>2. QED
    BY <1>3, <2>1, SameOperators DEF Kept, Promised!Next, Promised!LosePower, Mapped
<1>4. QED
  BY <1>2, <1>3

LEMMA InitKept == Init => Promised!Init
<1> SUFFICES ASSUME Init PROVE Promised!Init
  OBVIOUS
<1>1. call = NoCall /\ outcome = "ok" /\ Mapped = HardwareOf(dev)
  BY DEF Init, Mapped
<1>2. /\ dev.rails = [r \in Rail |-> AsWatts(MaxMilliwatts)] /\ dev.enforced = TRUE
      /\ dev.profile = "balanced" /\ dev.charge = DefaultCharge /\ dev.limits = DeviceRange
      /\ dev.mode["cpu"] = "auto" /\ dev.level = "auto"
  BY DEF Init, Fan
<1>3. ActiveSelection(dev) = None /\ ActiveRange(dev) = None
  BY <1>2, CurveRead, RangeRead
<1>4. ParseProfile(dev.profile) \in Profile
  BY <1>2 DEF ParseProfile, Profile
<1>5. [rail \in Rail |-> FromWatts(dev.rails[rail])] \in Envelope
  <2> DEFINE full == FromWatts(AsWatts(MaxMilliwatts))
  <2>1. full \in Nat
    BY PowerAssumption DEF FromWatts, AsWatts
  <2>2. [rail \in Rail |-> FromWatts(dev.rails[rail])] = [rail \in Rail |-> full]
    BY <1>2
  <2> HIDE DEF full
  <2>3. [rail \in Rail |-> full] = [spl |-> full, sppt |-> full, fppt |-> full]
    BY DEF Rail
  <2>4. QED
    BY <2>1, <2>2, <2>3 DEF Envelope
<1>6. DefaultCharge \in Charge /\ DeviceRange \in Limits
  BY SelectionAssumption, BackendAssumption
<1>7. HardwareOf(dev) \in Hardware
  BY <1>2, <1>3, <1>4, <1>5, <1>6 DEF HardwareOf, Hardware
<1>8. QED
  BY <1>1, <1>7, SameOperators DEF Promised!Init, Mapped

LEMMA StepKept == FileSafe /\ Standing /\ Mid /\ [Next]_vars => Kept
<1> SUFFICES ASSUME Standing, Mid, [Next]_vars PROVE Kept
  OBVIOUS
<1>1. CASE CommitDirectory \/ UNCHANGED vars
  <2>1. UNCHANGED <<dev, call, entry, outcome>>
    BY <1>1 DEF CommitDirectory, vars
  <2>2. Stutter
    BY <2>1 DEF Stutter, Mapped, HardwareOf, ActiveSelection, ActiveRange, Stored
  <2>3. QED
    BY <2>2, StutterStep DEF Kept
<1>2. QED
  BY <1>1, BeginKept, DeviceKept, FileKept, LoseKept, PowerKept DEF Next

\* Every call of the backends, however many of its operations fail or are not
\* stored and wherever the daemon dies or power is lost in it, ends in one of
\* the outcomes the executor's rollback was written for.
THEOREM BackendsKeepPromise == Spec => KeepsPromise
<1>1. FileSafe /\ Standing /\ Mid /\ [Next]_vars => [Promised!Next]_(Promised!deviceVars)
  BY StepKept DEF Kept
<1>2. QED
  BY <1>1, InitSafe, InitMid, InitKept, StepSafe, StepMid, PTL DEF Spec, KeepsPromise, Promised!Spec

-----------------------------------------------------------------------------
(* Fans are only enabled over whole tables.                                *)

\* The n-th write of a curve c has been stored.
PointWritten(d, n, c) ==
  LET p == d.table[FanAt(n)][PointAt(n)] IN
  IF n % 2 = 1 THEN p.temp = c ELSE p.pwm = c

\* Of a fan call in which nothing failed, over fans that were in auto.
TableMid ==
  call.op = "ApplyFanCurve" /\ failed = 0 /\ entry.mode = [f \in Fan |-> "auto"] =>
    /\ pc.at \in {"resolve", "point"} => dev.mode = entry.mode
    /\ pc.at = "point" => \A n \in 1..LastPoint : n < pc.n => PointWritten(dev, n, call.curve)
    /\ pc.at \in {"mode", "confirm"} => \A f \in Fan : Whole(dev.table[f], call.curve)

\* The two writes of point k of a fan.
LEMMA PlacesOfPoint ==
  ASSUME NEW f \in Fan, NEW k \in 1..Points
  PROVE  \E n \in 1..LastPoint :
           /\ n % 2 = 1 /\ FanAt(n) = f /\ PointAt(n) = k
           /\ n + 1 \in 1..LastPoint /\ (n + 1) % 2 = 0
           /\ FanAt(n + 1) = f /\ PointAt(n + 1) = k
<1> DEFINE m == 2 * Points
           i == IF f = "cpu" THEN 0 ELSE 1
           a == 2 * (k - 1)
           n == m * i + a + 1
<1>1. /\ Points \in Nat /\ m \in Nat /\ m >= 2 /\ a \in Nat /\ a + 1 < m /\ i \in {0, 1}
      /\ LastPoint = 2 * m /\ k \in Nat /\ k >= 1
  BY Numbers DEF LastPoint
<1>2. ASSUME NEW b \in {a, a + 1}
      PROVE  (m * i + b) \div m = i /\ (m * i + b) % m = b
  <2> HIDE DEF m, a, i
  <2>1. b \in Nat /\ b < m
    BY <1>1
  <2>2. CASE i = 0
    BY <1>1, <2>1, <2>2
  <2>3. CASE i = 1
    BY <1>1, <2>1, <2>3
  <2>4. QED
    BY <1>1, <2>2, <2>3
<1>3. n - 1 = m * i + a /\ (n + 1) - 1 = m * i + (a + 1)
  <2> DEFINE x == m * i
  <2>1. x \in Nat
    <3> HIDE DEF m, i
    <3>1. QED
      BY <1>1
  <2> HIDE DEF x, a
  <2>2. n = x + a + 1
    BY DEF x
  <2> HIDE DEF n
  <2>3. n - 1 = x + a /\ (n + 1) - 1 = x + (a + 1)
    BY <1>1, <2>1, <2>2
  <2>4. QED
    BY <2>3 DEF x
<1>4. Fans[1 + i] = f
  BY DEF Fans, Fan
<1>5. FanAt(n) = f /\ FanAt(n + 1) = f
  <2> HIDE DEF n, m, i, a
  <2>1. QED
    BY <1>2, <1>3, <1>4 DEF FanAt, m
<1>6. PointAt(n) = k /\ PointAt(n + 1) = k
  <2>1. 1 + a \div 2 = k /\ 1 + (a + 1) \div 2 = k
    BY <1>1
  <2> HIDE DEF n, m, i, a
  <2>2. QED
    BY <1>2, <1>3, <2>1 DEF PointAt, m
<1>7. n \in 1..LastPoint /\ n + 1 \in 1..LastPoint
  <2>1. n = a + 1 \/ n = m + a + 1
    BY <1>1
  <2> HIDE DEF n, m, i, a
  <2>2. QED
    BY <1>1, <2>1
<1>8. n % 2 = 1 /\ (n + 1) % 2 = 0
  <2>1. n = a + 1 \/ n = m + a + 1
    BY <1>1
  <2>2. n = 2 * (k - 1) + 1 \/ n = 2 * (Points + (k - 1)) + 1
    BY <1>1, <2>1
  <2> HIDE DEF n, m, i, a
  <2>3. QED
    BY <1>1, <2>2
<1> HIDE DEF n
<1>9. QED
  BY <1>5, <1>6, <1>7, <1>8

\* All writes stored make both tables whole.
LEMMA WrittenIsWhole ==
  ASSUME NEW d \in Sysfs, NEW c \in Curve, \A n \in 1..LastPoint : PointWritten(d, n, c)
  PROVE  \A f \in Fan : Whole(d.table[f], c)
<1> SUFFICES ASSUME NEW f \in Fan, NEW k \in 1..Points
             PROVE  d.table[f][k] = [temp |-> c, pwm |-> c]
  BY DEF Whole
<1>1. PICK n \in 1..LastPoint :
        /\ n % 2 = 1 /\ FanAt(n) = f /\ PointAt(n) = k
        /\ n + 1 \in 1..LastPoint /\ (n + 1) % 2 = 0
        /\ FanAt(n + 1) = f /\ PointAt(n + 1) = k
  BY PlacesOfPoint
<1>2. PointWritten(d, n, c) /\ PointWritten(d, n + 1, c)
  BY <1>1
<1>3. d.table[f][k].temp = c
  BY <1>1, <1>2 DEF PointWritten
<1>4. d.table[f][k].pwm = c
  BY <1>1, <1>2 DEF PointWritten
<1>5. d.table[f][k] \in Point
  <2>1. d.table \in [Fan -> [1..Points -> Point]]
    BY SysfsFields
  <2>2. d.table[f] \in [1..Points -> Point]
    BY <2>1
  <2>3. QED
    BY <2>2
<1>6. QED
  BY <1>3, <1>4, <1>5 DEF Point

\* A write stores its value and undoes none of the same curve.
LEMMA StoresPoint ==
  ASSUME NEW d \in Sysfs, NEW c \in Curve, NEW n \in 1..LastPoint
  PROVE  /\ PointWritten(StorePoint(d, n, c), n, c)
         /\ \A m \in 1..LastPoint : PointWritten(d, m, c) => PointWritten(StorePoint(d, n, c), m, c)
<1> DEFINE f == FanAt(n)
           k == PointAt(n)
           old == d.table[f][k]
           new == IF n % 2 = 1 THEN [old EXCEPT !.temp = c] ELSE [old EXCEPT !.pwm = c]
           e == StorePoint(d, n, c)
<1>1. f \in Fan /\ k \in 1..Points /\ d.table \in [Fan -> [1..Points -> Point]]
  BY Places, SysfsFields
<1>2. d.table[f] \in [1..Points -> Point]
  BY <1>1
<1>3. old \in Point
  BY <1>1, <1>2
<1>4. /\ new.temp = IF n % 2 = 1 THEN c ELSE old.temp
      /\ new.pwm = IF n % 2 = 1 THEN old.pwm ELSE c
  <2> HIDE DEF old
  <2>1. QED
    BY <1>3 DEF Point
<1>5. e.table = [d.table EXCEPT ![f] = [d.table[f] EXCEPT ![k] = new]]
  <2>1. DOMAIN d = Node
    BY SysfsFields
  <2>2. QED
    BY <1>1, <1>2, <2>1 DEF StorePoint, Node
<1> HIDE DEF e, new, old, f, k
<1>6. \A g \in Fan, j \in 1..Points :
        e.table[g][j] = IF g = f /\ j = k THEN new ELSE d.table[g][j]
  BY <1>1, <1>2, <1>5
<1>7. PointWritten(e, n, c)
  BY <1>1, <1>4, <1>6 DEF PointWritten, f, k
<1>8. ASSUME NEW m \in 1..LastPoint, PointWritten(d, m, c)
      PROVE  PointWritten(e, m, c)
  <2>1. FanAt(m) \in Fan /\ PointAt(m) \in 1..Points
    BY Places
  <2>2. CASE FanAt(m) = f /\ PointAt(m) = k
    <3>1. e.table[FanAt(m)][PointAt(m)] = new
      BY <1>6, <2>1, <2>2
    <3>2. IF m % 2 = 1 THEN old.temp = c ELSE old.pwm = c
      BY <1>8, <2>2 DEF PointWritten, old
    <3>3. IF m % 2 = 1 THEN new.temp = c ELSE new.pwm = c
      BY <1>4, <3>2
    <3>4. QED
      BY <3>1, <3>3 DEF PointWritten
  <2>3. CASE ~(FanAt(m) = f /\ PointAt(m) = k)
    <3>1. e.table[FanAt(m)][PointAt(m)] = d.table[FanAt(m)][PointAt(m)]
      BY <1>6, <2>1, <2>3
    <3>2. QED
      BY <1>8, <3>1 DEF PointWritten
  <2>4. QED
    BY <2>2, <2>3
<1>9. QED
  BY <1>7, <1>8 DEF e

LEMMA TableBegins ==
  ASSUME Begin
  PROVE  TableMid'
<1>1. /\ call' \in Calls /\ pc' = [at |-> FirstStep(call'), n |-> 1]
      /\ dev' = dev /\ entry' = dev
  BY DEF Begin
<1>2. call'.op = "ApplyFanCurve" => pc'.at = "resolve"
  BY <1>1 DEF FirstStep
<1>3. QED
  BY <1>1, <1>2 DEF TableMid

LEMMA TableStep ==
  ASSUME Standing, Mid, TableMid, call.op = "ApplyFanCurve", call' # NoCall,
         ResolveCurve \/ WritePoint \/ SwitchFan \/ ConfirmCurve \/ FailFan
  PROVE  TableMid'
<1>1. dev \in Sysfs /\ pc.n \in 1..LastPoint /\ call \in Calls /\ call.curve \in Curve
  BY OpTypes, CallFields DEF Standing, TypeOK
<1>2. failed \in Nat
  BY Numbers DEF Standing, TypeOK
<1>3. CASE ResolveCurve
  <2>1. Goto("point") /\ Works /\ dev' = dev /\ pc.at = "resolve"
    BY <1>3 DEF ResolveCurve, Return, At
  <2>2. call' = call /\ entry' = entry /\ pc' = [at |-> "point", n |-> 1] /\ failed' = failed
    BY <2>1 DEF Goto, GotoNth, Works
  <2>3. \A n \in 1..LastPoint : ~(n < 1)
    BY Numbers
  <2>4. QED
    BY <2>1, <2>2, <2>3 DEF TableMid
<1>4. CASE WritePoint
  <2>1. /\ pc.at = "point" /\ (Goto("mode") \/ Again)
        /\ pc.n = LastPoint => Goto("mode")
        /\ pc.n # LastPoint => Again
    BY <1>4 DEF WritePoint, At
  <2>2. /\ call' = call /\ entry' = entry
        /\ pc' = IF pc.n = LastPoint THEN [at |-> "mode", n |-> 1]
                 ELSE [at |-> "point", n |-> pc.n + 1]
    BY <1>4, <2>1 DEF Goto, Again, GotoNth, WritePoint, At
  <2>3. CASE dev' = StorePoint(dev, pc.n, call.curve) /\ Works
    <3>1. SUFFICES ASSUME failed = 0, entry.mode = [f \in Fan |-> "auto"]
                   PROVE  /\ pc'.at = "point" => dev'.mode = entry'.mode
                          /\ pc'.at = "point" =>
                               \A n \in 1..LastPoint : n < pc'.n => PointWritten(dev', n, call.curve)
                          /\ pc'.at = "mode" => \A f \in Fan : Whole(dev'.table[f], call.curve)
      BY <2>2, <2>3 DEF TableMid, Works
    <3>2. dev' \in Sysfs /\ dev'["mode"] = dev["mode"]
      BY <1>1, <2>3, TableTypes DEF Node
    <3>3. /\ dev.mode = entry.mode
          /\ \A n \in 1..LastPoint : n < pc.n => PointWritten(dev, n, call.curve)
      BY <1>4, <3>1 DEF TableMid, WritePoint, At
    <3>4. \A n \in 1..LastPoint : n < pc.n => PointWritten(dev', n, call.curve)
      BY <1>1, <2>3, <3>3, StoresPoint
    <3>5. PointWritten(dev', pc.n, call.curve)
      BY <1>1, <2>3, StoresPoint
    <3>6. \A n \in 1..LastPoint : n < pc.n + 1 => n < pc.n \/ n = pc.n
      BY <1>1
    <3>7. CASE pc.n = LastPoint
      <4>1. \A n \in 1..LastPoint : n < pc.n \/ n = pc.n
        BY <1>1, <3>7, Numbers
      <4>2. \A n \in 1..LastPoint : PointWritten(dev', n, call.curve)
        BY <3>4, <3>5, <4>1
      <4>3. \A f \in Fan : Whole(dev'.table[f], call.curve)
        BY <1>1, <3>2, <4>2, WrittenIsWhole
      <4>4. QED
        BY <2>2, <3>7, <4>3
    <3>8. CASE pc.n # LastPoint
      <4>1. pc'.at = "point" /\ pc'.n = pc.n + 1
        BY <2>2, <3>8
      <4>2. dev'.mode = entry'.mode
        BY <2>2, <3>2, <3>3
      <4>3. QED
        BY <3>4, <3>5, <3>6, <4>1, <4>2
    <3>9. QED
      BY <3>7, <3>8
  <2>4. CASE Fault
    <3>1. failed' # 0
      BY <1>2, <2>4 DEF Fault
    <3>2. QED
      BY <3>1 DEF TableMid
  <2>5. QED
    BY <1>4, <2>3, <2>4 DEF WritePoint
<1>5. CASE SwitchFan
  <2>1. /\ \A g \in Node \ {"mode"} : dev'[g] = dev[g]
        /\ pc.at = "mode" /\ Works /\ (Again \/ Goto("confirm"))
    BY <1>5, FanTypes DEF SwitchFan, At
  <2>2. dev'["table"] = dev["table"]
    BY <2>1 DEF Node
  <2>3. /\ call' = call /\ entry' = entry /\ failed' = failed
        /\ pc'.at \in {"mode", "confirm"}
    BY <1>5, FanTypes DEF SwitchFan, At, Works, Again, Goto, GotoNth
  <2>4. QED
    BY <1>5, <2>2, <2>3 DEF TableMid, SwitchFan, At
<1>6. CASE ConfirmCurve \/ FailFan
  BY <1>6 DEF ConfirmCurve, FailFan, Aborts, Return
<1>7. QED
  BY <1>3, <1>4, <1>5, <1>6

LEMMA StepTable == FileSafe /\ Standing /\ Mid /\ TableMid /\ [Next]_vars => TableMid'
<1> SUFFICES ASSUME Standing, Mid, TableMid, [Next]_vars PROVE TableMid'
  OBVIOUS
<1>1. CASE Begin
  BY <1>1, TableBegins
<1>2. CASE call' = NoCall
  BY <1>2 DEF NoCall, TableMid
<1>3. CASE call.op = "ApplyFanCurve" /\ call' # NoCall /\ DeviceStep
  <2>1. ~(WriteRail \/ FailRail \/ WriteProfile \/ WriteThreshold \/ FailWrite)
    BY <1>3 DEF WriteRail, FailRail, WriteProfile, WriteThreshold, FailWrite, At
  <2>2. ~(ReadConstraints \/ SetManual \/ StageMin \/ StageMax \/ Commit \/ ConfirmClock
          \/ FailClock)
    BY <1>3 DEF ReadConstraints, SetManual, StageMin, StageMax, Commit, ConfirmClock,
       FailClock, At, Clocked
  <2>3. ~(Release \/ SetAuto \/ FailRelease)
    BY <1>3, PlaceValues DEF Release, SetAuto, FailRelease, Standing, Placed
  <2>4. QED
    BY <1>3, <2>1, <2>2, <2>3, TableStep DEF DeviceStep
<1>4. CASE call.op # "ApplyFanCurve" /\ call' = call
  BY <1>4 DEF TableMid
<1>5. CASE UNCHANGED <<dev, call, pc, failed, entry>>
  BY <1>5 DEF TableMid
<1>6. Begin \/ call' = NoCall \/ call' = call
  BY DEF Next, DeviceStep, FileStep, WriteRail, FailRail, WriteProfile, WriteThreshold,
     FailWrite, ResolveCurve, WritePoint, SwitchFan, ConfirmCurve, FailFan, ReadConstraints,
     SetManual, StageMin, StageMax, Commit, ConfirmClock, FailClock, Release, SetAuto,
     FailRelease, CreateTmp, WriteTmp, SyncTmp, RenameTmp, FailSave, Die, Lose,
     CommitDirectory, LosePower, vars, Goto, GotoNth, Again, Aborts, Return
<1>7. CASE call.op = "ApplyFanCurve" /\ call' = call /\ ~DeviceStep /\ ~Begin
  <2>1. call # NoCall
    BY <1>7 DEF NoCall
  <2>2. ~FileStep \/ call' = NoCall
    BY <1>7, PlacedFile, <2>1
  <2>3. ~Die /\ ~Lose /\ ~LosePower
    BY <1>7, <2>1 DEF Die, Lose, LosePower, Return
  <2>4. QED
    BY <1>2, <1>5, <1>7, <2>2, <2>3 DEF Next, CommitDirectory, vars
<1>8. QED
  BY <1>1, <1>2, <1>3, <1>4, <1>6, <1>7

\* Where neither fan ran a custom curve, a fan call enables a fan only over a
\* table that is wholly the curve asked for, as long as no operation of the call
\* fails, silently (a value taken without being stored) or not.
THEOREM EnabledIsWhole == Spec => []EnabledWhole
<1>1. Init => TableMid
  BY DEF Init, TableMid, NoCall
<1>2. Standing /\ TableMid => EnabledWhole
  <2> SUFFICES ASSUME Standing, TableMid, call.op = "ApplyFanCurve", failed = 0,
                      entry.mode = [f \in Fan |-> "auto"],
                      NEW f \in Fan, dev.mode[f] = "custom"
               PROVE  Whole(dev.table[f], call.curve)
    BY DEF EnabledWhole
  <2>1. pc.at \in {"resolve", "point", "mode", "confirm"}
    BY PlaceValues DEF Standing, Placed
  <2>2. QED
    BY <2>1 DEF TableMid
<1>3. QED
  BY <1>1, <1>2, InitSafe, InitMid, StepSafe, StepMid, StepTable, PTL DEF Spec
=============================================================================
