---------------------------- MODULE Lock_proofs ----------------------------
(***************************************************************************)
(* The AC lock, the battery snapshot and GPU auto-follow, for every        *)
(* capacity, backend, request mix and bound.                               *)
(*                                                                         *)
(* The argument: every transition but a resume keeps the lock, enters it   *)
(* from an unlocked state with a snapshot of that state, or leaves it with *)
(* the snapshot consumed (ReduceMoves); a resume pins or consumes          *)
(* (ResumeMoves).  LockInv says what that preserves.  Each of these moves  *)
(* is a step of LockPolicy (MoveIsPolicy), so the daemon implements it     *)
(* (PolicyIsFollowed).  FollowInv says that what follows has a clock.      *)
(***************************************************************************)
EXTENDS Daemon_proofs

SameLock(n, s) ==
  /\ n.is_ac_connected = s.is_ac_connected
  /\ n.ac_max_performance = s.ac_max_performance
  /\ n.last_dc_state = s.last_dc_state

PinnedAt(s, e) ==
  /\ s.power_target = e
  /\ s.active_profile = "Performance"
  /\ s.active_fan_curve = "Aggressive"
  /\ ~s.fan_follows_tdp
  /\ s.active_gpu_clock \in {None, "Aggressive"}

\* The three ways from s to n.
Kept(n, s, t) ==
  /\ SameLock(n, s)
  /\ Locked(s) /\ t.op \notin SyncOps => Snapshot(n) = Snapshot(s)

Entered(n, s, e) ==
  /\ ~Locked(s) /\ Locked(n)
  /\ PinnedAt(n, e)
  /\ n.last_dc_state = Snapshot(s)

Left(n, s) ==
  /\ ~Locked(n)
  /\ n.last_dc_state = None
  /\ s.last_dc_state # None => Levers(n) = Levers(s.last_dc_state)

LockShape(s) == s.last_dc_state # None => Locked(s)

-----------------------------------------------------------------------------
(* No lever touches the lock.                                              *)

LEMMA SameLockChain ==
  ASSUME NEW a, NEW b, NEW c, SameLock(b, a), SameLock(c, b)
  PROVE  SameLock(c, a)
  BY DEF SameLock

LEMMA SetPresetKeepsLock ==
  ASSUME NEW s \in ProfileState, NEW lim, NEW cfg
  PROVE  /\ \A e : SameLock(SetEnvelope(s, e, lim, cfg).new_state, s)
         /\ \A w : SameLock(SetSpl(s, w, lim, cfg).new_state, s)
         /\ \A p : SameLock(SetPreset(s, p, lim, cfg).new_state, s)
<1>1. \A e : SameLock(ApplyPowerTarget(s, e, lim, cfg).new_state, s)
  BY DEF ApplyPowerTarget, Output, SameLock, ProfileState
<1>2. SameLock(Rejected(s).new_state, s)
  BY DEF Rejected, SameLock
<1>3. \A e : SameLock(SetEnvelope(s, e, lim, cfg).new_state, s)
  BY <1>1, <1>2 DEF SetEnvelope
<1>4. \A w : SameLock(SetSpl(s, w, lim, cfg).new_state, s)
  BY <1>2, <1>3 DEF SetSpl
<1>5. QED
  BY <1>3, <1>4 DEF SetPreset

LEMMA LeversKeepLock ==
  ASSUME NEW s \in ProfileState, NEW lim, NEW cfg
  PROVE  /\ \A p : SameLock(SetProfile(s, p).new_state, s)
         /\ \A c : SameLock(SetFanCurve(s, c).new_state, s)
         /\ \A c : SameLock(ChargeThresholdChanged(s, c).new_state, s)
         /\ SameLock(EnableFanAuto(s, lim, cfg).new_state, s)
         /\ SameLock(ResetFanCurve(s).new_state, s)
         /\ SameLock(EnableGpuAutoFollow(s, lim, cfg).new_state, s)
         /\ SameLock(ResetGpuClocks(s).new_state, s)
<1>1. \A p : SameLock(SetProfile(s, p).new_state, s)
  BY DEF SetProfile, Output, SameLock, ProfileState
<1>2. \A c : SameLock(SetFanCurve(s, c).new_state, s)
  BY DEF SetFanCurve, Output, SameLock, ProfileState
<1>3. \A c : SameLock(ChargeThresholdChanged(s, c).new_state, s)
  BY DEF ChargeThresholdChanged, Output, SameLock, ProfileState
<1>4. SameLock(EnableFanAuto(s, lim, cfg).new_state, s)
  BY DEF EnableFanAuto, Output, SameLock, ProfileState
<1>5. SameLock(ResetFanCurve(s).new_state, s)
  BY DEF ResetFanCurve, Output, SameLock, ProfileState
<1>6. SameLock(EnableGpuAutoFollow(s, lim, cfg).new_state, s)
  BY DEF EnableGpuAutoFollow, Output, SameLock, ProfileState
<1>7. SameLock(ResetGpuClocks(s).new_state, s)
  BY DEF ResetGpuClocks, Output, SameLock, ProfileState
<1>8. QED
  BY <1>1, <1>2, <1>3, <1>4, <1>5, <1>6, <1>7

LEMMA RestoreDefaultsKeepsLock ==
  ASSUME NEW s \in ProfileState, NEW lim \in Limits, NEW cfg \in Config
  PROVE  SameLock(RestoreDefaults(s, lim, cfg).new_state, s)
<1> DEFINE o1 == SetPreset(s, "Balanced", lim, cfg)
           o2 == SetProfile(o1.new_state, "Performance")
           o3 == ChargeThresholdChanged(o2.new_state, DefaultCharge)
           o4 == EnableFanAuto(o3.new_state, lim, cfg)
           o5 == ResetGpuClocks(o4.new_state)
           fx == o1.effects \o o2.effects \o o3.effects \o o4.effects \o o5.effects
<1>1. OutputOK(o1) /\ SameLock(o1.new_state, s)
  BY SetPresetType, SetPresetKeepsLock DEF TdpPreset
<1> HIDE DEF o1
<1>2. OutputOK(o2) /\ SameLock(o2.new_state, o1.new_state)
  BY <1>1, SetProfileType, LeversKeepLock DEF OutputOK, Profile
<1> HIDE DEF o2
<1>3. OutputOK(o3) /\ SameLock(o3.new_state, o2.new_state)
  BY <1>2, ChargeThresholdType, LeversKeepLock, SelectionAssumption DEF OutputOK
<1> HIDE DEF o3
<1>4. OutputOK(o4) /\ SameLock(o4.new_state, o3.new_state)
  BY <1>3, FollowTypes, LeversKeepLock DEF OutputOK
<1> HIDE DEF o4
<1>5. SameLock(o5.new_state, o4.new_state)
  BY <1>4, LeversKeepLock DEF OutputOK
<1> HIDE DEF o5
<1>6. RestoreDefaults(s, lim, cfg) \in {Output(o5.new_state, fx), Rejected(s)}
  BY DEF RestoreDefaults, o1, o2, o3, o4, o5
<1>7. SameLock(o5.new_state, s)
  BY <1>1, <1>2, <1>3, <1>4, <1>5, SameLockChain DEF SameLock
<1> HIDE DEF fx
<1>8. QED
  BY <1>6, <1>7 DEF Output, Rejected, SameLock

LEMMA UserLeverKeepsLock ==
  ASSUME NEW s \in ProfileState, NEW t \in Transition, IsLockedWrite(t),
         NEW lim \in Limits, NEW cfg \in Config
  PROVE  SameLock(UserLever(s, t, lim, cfg).new_state, s)
<1>1. UserLever(s, t, lim, cfg) \in
        {SetPreset(s, t.preset, lim, cfg), SetSpl(s, t.watts, lim, cfg),
         SetEnvelope(s, t.target, lim, cfg), SetProfile(s, t.profile),
         SetFanCurve(s, t.curve), EnableFanAuto(s, lim, cfg), ResetFanCurve(s),
         EnableGpuAutoFollow(s, lim, cfg), ResetGpuClocks(s),
         RestoreDefaults(s, lim, cfg)}
  BY Zenon DEF UserLever, IsLockedWrite, LockedWriteOps
<1>2. QED
  BY <1>1, SetPresetKeepsLock, LeversKeepLock, RestoreDefaultsKeepsLock

LEMMA PersistedKeeps ==
  ASSUME NEW o, OutputOK(o)
  PROVE  Persisted(o).new_state = o.new_state
  BY DEF Persisted, OutputOK

-----------------------------------------------------------------------------
(* The AC policy.                                                          *)

LEMMA ForcePins ==
  ASSUME NEW s \in ProfileState, NEW lim \in Limits, NEW cfg \in Config
  PROVE  LET n == ForceAcMaxPerformance(s, lim, cfg).new_state IN
         n \in ProfileState /\ SameLock(n, s) /\ PinnedAt(n, MaxEnvelope(lim, cfg))
<1> DEFINE e == MaxEnvelope(lim, cfg)
           gpu == s.active_gpu_clock # None
           n == [s EXCEPT !.power_target = e,
                          !.active_profile = "Performance",
                          !.active_fan_curve = "Aggressive",
                          !.fan_follows_tdp = FALSE,
                          !.active_gpu_clock = IF gpu THEN "Aggressive" ELSE None,
                          !.gpu_follows_tdp = ~gpu /\ @]
<1>1. ForceAcMaxPerformance(s, lim, cfg).new_state = n
  BY DEF ForceAcMaxPerformance, Output
<1>2. n \in ProfileState
  BY <1>1, ForceType DEF OutputOK
<1>3. SameLock(n, s)
  BY DEF SameLock, ProfileState
<1>4. PinnedAt(n, e)
  BY DEF PinnedAt, ProfileState
<1>5. QED
  BY <1>1, <1>2, <1>3, <1>4

LEMMA ForceWithSnapshotEnters ==
  ASSUME NEW s \in ProfileState, NEW snap \in DcSnapshot,
         NEW lim \in Limits, NEW cfg \in Config
  PROVE  LET n == ForceWithSnapshot(s, snap, lim, cfg).new_state IN
         /\ n \in ProfileState
         /\ PinnedAt(n, MaxEnvelope(lim, cfg))
         /\ n.last_dc_state = snap
         /\ n.is_ac_connected = s.is_ac_connected
         /\ n.ac_max_performance = s.ac_max_performance
<1> DEFINE m == ForceAcMaxPerformance(s, lim, cfg).new_state
           n == [m EXCEPT !.last_dc_state = snap]
<1>1. ForceWithSnapshot(s, snap, lim, cfg).new_state = n
  BY DEF ForceWithSnapshot, Output
<1>2. m \in ProfileState /\ SameLock(m, s) /\ PinnedAt(m, MaxEnvelope(lim, cfg))
  BY ForcePins
<1> HIDE DEF m
<1>3. n \in ProfileState
  BY <1>2 DEF ProfileState
<1>4. n.last_dc_state = snap
  BY <1>2 DEF ProfileState
<1>5. PinnedAt(n, MaxEnvelope(lim, cfg))
  BY <1>2 DEF PinnedAt, ProfileState
<1>6. /\ n.is_ac_connected = s.is_ac_connected
      /\ n.ac_max_performance = s.ac_max_performance
  BY <1>2 DEF SameLock, ProfileState
<1>7. QED
  BY <1>1, <1>3, <1>4, <1>5, <1>6

\* The snapshot is consumed, and what the user chose is what it held.
LEMMA RestoreConsumes ==
  ASSUME NEW s \in ProfileState, NEW snap \in DcSnapshot
  PROVE  LET n == RestoreDcState(s, snap).new_state IN
         /\ n.last_dc_state = None
         /\ n.is_ac_connected = s.is_ac_connected
         /\ n.ac_max_performance = s.ac_max_performance
         /\ Levers(n) = Levers(snap)
<1> DEFINE gpu  == s.active_gpu_clock # snap.active_gpu_clock
           tier == snap.active_gpu_clock \in Tier
           clock == IF gpu /\ ~tier THEN None ELSE snap.active_gpu_clock
           n == [s EXCEPT !.last_dc_state = None,
                          !.active_profile = snap.active_profile,
                          !.power_target = snap.power_target,
                          !.active_fan_curve = snap.active_fan_curve,
                          !.fan_follows_tdp = snap.fan_follows_tdp,
                          !.active_gpu_clock = clock,
                          !.gpu_follows_tdp = snap.gpu_follows_tdp]
<1>1. RestoreDcState(s, snap).new_state = n
  BY DEF RestoreDcState, Output
<1>2. /\ n.last_dc_state = None
      /\ n.is_ac_connected = s.is_ac_connected
      /\ n.ac_max_performance = s.ac_max_performance
  BY DEF ProfileState
<1>3. /\ n.active_profile = snap.active_profile
      /\ n.power_target = snap.power_target
      /\ n.active_fan_curve = snap.active_fan_curve
      /\ n.fan_follows_tdp = snap.fan_follows_tdp
      /\ n.active_gpu_clock = clock
      /\ n.gpu_follows_tdp = snap.gpu_follows_tdp
  BY DEF ProfileState
<1> HIDE DEF n
<1>4. None \notin Tier
  BY SelectionAssumption DEF Curve
<1>5. (IF clock \in Tier THEN clock ELSE None)
        = (IF snap.active_gpu_clock \in Tier THEN snap.active_gpu_clock ELSE None)
  BY <1>4
<1> HIDE DEF clock
<1>6. Levers(n) = Levers(snap)
  BY <1>3, <1>5 DEF Levers, Snapshot
<1>7. QED
  BY <1>1, <1>2, <1>6

LEMMA QuietKeepsLock ==
  ASSUME NEW s \in ProfileState, NEW lim \in Limits, NEW cfg \in Config
  PROVE  LET n == QuietDefaults(s, lim, cfg).new_state IN
         n \in ProfileState /\ n.last_dc_state = s.last_dc_state
<1> DEFINE m == [s EXCEPT !.is_ac_connected = FALSE, !.fan_follows_tdp = TRUE]
           o == SetPreset(m, "Balanced", lim, cfg)
<1>1. m \in ProfileState /\ m.last_dc_state = s.last_dc_state
  BY DEF ProfileState
<1>2. QuietDefaults(s, lim, cfg) = Persisted(o)
  BY DEF QuietDefaults
<1> HIDE DEF m
<1>3. OutputOK(o) /\ SameLock(o.new_state, m)
  BY <1>1, SetPresetType, SetPresetKeepsLock DEF TdpPreset
<1> HIDE DEF o
<1>4. QED
  BY <1>1, <1>2, <1>3, PersistedKeeps DEF SameLock, OutputOK

LEMMA WithAc ==
  ASSUME NEW s \in ProfileState, NEW b \in BOOLEAN
  PROVE  LET n == [s EXCEPT !.is_ac_connected = b] IN
         /\ n \in ProfileState
         /\ n.is_ac_connected = b
         /\ n.ac_max_performance = s.ac_max_performance
         /\ n.last_dc_state = s.last_dc_state
         /\ Snapshot(n) = Snapshot(s) /\ Levers(n) = Levers(s)
         /\ \A e : PinnedAt(n, e) <=> PinnedAt(s, e)
<1> DEFINE n == [s EXCEPT !.is_ac_connected = b]
<1>1. /\ n \in ProfileState
      /\ n.is_ac_connected = b
      /\ SameLock(n, [s EXCEPT !.is_ac_connected = b])
  BY DEF ProfileState, SameLock
<1>2. n.ac_max_performance = s.ac_max_performance /\ n.last_dc_state = s.last_dc_state
  BY DEF ProfileState
<1>3. /\ n.power_target = s.power_target /\ n.active_profile = s.active_profile
      /\ n.active_fan_curve = s.active_fan_curve /\ n.fan_follows_tdp = s.fan_follows_tdp
      /\ n.active_gpu_clock = s.active_gpu_clock /\ n.gpu_follows_tdp = s.gpu_follows_tdp
  BY DEF ProfileState
<1> HIDE DEF n
<1>4. Snapshot(n) = Snapshot(s)
  BY <1>3 DEF Snapshot
<1>5. QED
  BY <1>1, <1>2, <1>3, <1>4 DEF n, Levers, PinnedAt

LEMMA WithLock ==
  ASSUME NEW s \in ProfileState, NEW b \in BOOLEAN
  PROVE  LET n == [s EXCEPT !.ac_max_performance = b] IN
         /\ n \in ProfileState
         /\ n.ac_max_performance = b
         /\ n.is_ac_connected = s.is_ac_connected
         /\ n.last_dc_state = s.last_dc_state
         /\ Levers(n) = Levers(s)
         /\ \A e : PinnedAt(n, e) <=> PinnedAt(s, e)
<1> DEFINE n == [s EXCEPT !.ac_max_performance = b]
<1>1. n \in ProfileState /\ n.ac_max_performance = b
  BY DEF ProfileState
<1>2. n.is_ac_connected = s.is_ac_connected /\ n.last_dc_state = s.last_dc_state
  BY DEF ProfileState
<1>3. /\ n.power_target = s.power_target /\ n.active_profile = s.active_profile
      /\ n.active_fan_curve = s.active_fan_curve /\ n.fan_follows_tdp = s.fan_follows_tdp
      /\ n.active_gpu_clock = s.active_gpu_clock /\ n.gpu_follows_tdp = s.gpu_follows_tdp
  BY DEF ProfileState
<1> HIDE DEF n
<1>4. Snapshot(n) = Snapshot(s)
  BY <1>3 DEF Snapshot
<1>5. QED
  BY <1>1, <1>2, <1>3, <1>4 DEF n, Levers, PinnedAt

Moves(n, s, t, e) == Kept(n, s, t) \/ Entered(n, s, e) \/ Left(n, s)

LEMMA AcPowerChangedMoves ==
  ASSUME NEW s \in ProfileState, LockShape(s), NEW t, NEW b \in BOOLEAN,
         NEW lim \in Limits, NEW cfg \in Config
  PROVE  Moves(AcPowerChanged(s, b, lim, cfg).new_state, s, t, MaxEnvelope(lim, cfg))
<1> DEFINE o == AcEdge(s, b, lim, cfg)
           n == [o.new_state EXCEPT !.is_ac_connected = b]
<1>1. s.last_dc_state \in DcSnapshot \cup {None} /\ s.is_ac_connected \in BOOLEAN
  BY StateFields
<1>2. CASE s.is_ac_connected = b
  <2>1. AcPowerChanged(s, b, lim, cfg).new_state = s
    BY <1>2 DEF AcPowerChanged, Output
  <2>2. QED
    BY <2>1 DEF Moves, Kept, SameLock
<1>3. CASE s.is_ac_connected # b /\ ~o.ok
  <2>1. AcPowerChanged(s, b, lim, cfg).new_state = s
    BY <1>3 DEF AcPowerChanged, Rejected
  <2>2. QED
    BY <2>1 DEF Moves, Kept, SameLock
<1>4. CASE s.is_ac_connected # b /\ o.ok
  <2>1. AcPowerChanged(s, b, lim, cfg).new_state = n
    BY <1>4 DEF AcPowerChanged, Output
  <2>2. CASE b /\ s.ac_max_performance
    <3>1. o = ForceWithSnapshot(s, Snapshot(s), lim, cfg)
      BY <2>2 DEF AcEdge
    <3>2. /\ o.new_state \in ProfileState
          /\ PinnedAt(o.new_state, MaxEnvelope(lim, cfg))
          /\ o.new_state.last_dc_state = Snapshot(s)
          /\ o.new_state.ac_max_performance = s.ac_max_performance
      BY <3>1, SnapshotType, ForceWithSnapshotEnters
    <3> HIDE DEF o
    <3>3. Entered(n, s, MaxEnvelope(lim, cfg))
      BY <1>4, <2>2, <3>2, WithAc DEF Entered, Locked
    <3>4. QED
      BY <2>1, <3>3 DEF Moves
  <2>3. CASE b /\ ~s.ac_max_performance
    <3>1. o.new_state = s
      BY <2>3 DEF AcEdge, Output
    <3> HIDE DEF o
    <3>2. Left(n, s)
      BY <2>3, <3>1, WithAc DEF Left, LockShape, Locked
    <3>3. QED
      BY <2>1, <3>2 DEF Moves
  <2>4. CASE ~b /\ s.last_dc_state # None
    <3>1. o = RestoreDcState(s, s.last_dc_state)
      BY <2>4 DEF AcEdge
    <3>2. o.new_state \in ProfileState
      BY <1>1, <2>4, <3>1, RestoreDcType DEF OutputOK
    <3>3. /\ o.new_state.last_dc_state = None
          /\ Levers(o.new_state) = Levers(s.last_dc_state)
      BY <1>1, <2>4, <3>1, RestoreConsumes
    <3> HIDE DEF o
    <3>4. Left(n, s)
      BY <2>4, <3>2, <3>3, WithAc DEF Left, Locked
    <3>5. QED
      BY <2>1, <3>4 DEF Moves
  <2>5. CASE ~b /\ s.last_dc_state = None
    <3>1. o \in {QuietDefaults(s, lim, cfg), Output(s, <<>>)}
      BY <2>5 DEF AcEdge
    <3>2. o.new_state \in ProfileState /\ o.new_state.last_dc_state = None
      BY <2>5, <3>1, QuietKeepsLock DEF Output
    <3> HIDE DEF o
    <3>3. Left(n, s)
      BY <2>5, <3>2, WithAc DEF Left, Locked
    <3>4. QED
      BY <2>1, <3>3 DEF Moves
  <2>6. QED
    BY <2>2, <2>3, <2>4, <2>5
<1>5. QED
  BY <1>2, <1>3, <1>4

LEMMA SetAcMaxPerformanceMoves ==
  ASSUME NEW s \in ProfileState, LockShape(s), NEW t, NEW b \in BOOLEAN,
         NEW lim \in Limits, NEW cfg \in Config
  PROVE  Moves(SetAcMaxPerformance(s, b, lim, cfg).new_state, s, t, MaxEnvelope(lim, cfg))
<1> DEFINE snap == IF s.last_dc_state = None THEN Snapshot(s) ELSE s.last_dc_state
           o == IF ~s.is_ac_connected THEN Output(s, <<PersistState>>)
                ELSE IF b THEN ForceWithSnapshot(s, snap, lim, cfg)
                ELSE IF s.last_dc_state # None THEN RestoreDcState(s, s.last_dc_state)
                ELSE Output(s, <<PersistState>>)
           n == [o.new_state EXCEPT !.ac_max_performance = b]
<1>1. s.last_dc_state \in DcSnapshot \cup {None} /\ s.ac_max_performance \in BOOLEAN
  BY StateFields
<1>2. CASE s.ac_max_performance = b
  <2>1. SetAcMaxPerformance(s, b, lim, cfg).new_state = s
    BY <1>2 DEF SetAcMaxPerformance, Output
  <2>2. QED
    BY <2>1 DEF Moves, Kept, SameLock
<1>3. CASE s.ac_max_performance # b
  <2>1. SetAcMaxPerformance(s, b, lim, cfg).new_state = n
    BY <1>3 DEF SetAcMaxPerformance, Output
  <2>2. CASE s.is_ac_connected /\ b
    <3>1. s.last_dc_state = None
      BY <1>3, <2>2 DEF LockShape, Locked
    <3>2. o = ForceWithSnapshot(s, Snapshot(s), lim, cfg)
      BY <2>2, <3>1
    <3>3. /\ o.new_state \in ProfileState
          /\ PinnedAt(o.new_state, MaxEnvelope(lim, cfg))
          /\ o.new_state.last_dc_state = Snapshot(s)
          /\ o.new_state.is_ac_connected
      BY <2>2, <3>2, SnapshotType, ForceWithSnapshotEnters
    <3> HIDE DEF o
    <3>4. Entered(n, s, MaxEnvelope(lim, cfg))
      BY <1>3, <2>2, <3>3, WithLock DEF Entered, Locked
    <3>5. QED
      BY <2>1, <3>4 DEF Moves
  <2>3. CASE s.is_ac_connected /\ ~b /\ s.last_dc_state # None
    <3>1. o = RestoreDcState(s, s.last_dc_state)
      BY <2>3
    <3>2. o.new_state \in ProfileState
      BY <1>1, <2>3, <3>1, RestoreDcType DEF OutputOK
    <3>3. /\ o.new_state.last_dc_state = None
          /\ Levers(o.new_state) = Levers(s.last_dc_state)
      BY <1>1, <2>3, <3>1, RestoreConsumes
    <3> HIDE DEF o
    <3>4. Left(n, s)
      BY <2>3, <3>2, <3>3, WithLock DEF Left, Locked
    <3>5. QED
      BY <2>1, <3>4 DEF Moves
  <2>4. CASE s.is_ac_connected /\ ~b /\ s.last_dc_state = None
    <3>1. o.new_state = s
      BY <2>4 DEF Output
    <3> HIDE DEF o
    <3>2. Left(n, s)
      BY <2>4, <3>1, WithLock DEF Left, Locked
    <3>3. QED
      BY <2>1, <3>2 DEF Moves
  <2>5. CASE ~s.is_ac_connected
    <3>1. o.new_state = s
      BY <2>5 DEF Output
    <3> HIDE DEF o
    <3>2. Left(n, s)
      BY <2>5, <3>1, WithLock DEF Left, Locked, LockShape
    <3>3. QED
      BY <2>1, <3>2 DEF Moves
  <2>6. QED
    BY <2>2, <2>3, <2>4, <2>5
<1>4. QED
  BY <1>2, <1>3

LEMMA ChargeKeepsLevers ==
  ASSUME NEW s \in ProfileState, NEW c
  PROVE  Snapshot(ChargeThresholdChanged(s, c).new_state) = Snapshot(s)
<1> DEFINE n == [s EXCEPT !.charge_end_threshold = c]
<1>1. ChargeThresholdChanged(s, c).new_state \in {s, n}
  BY DEF ChargeThresholdChanged, Output
<1>2. /\ n.power_target = s.power_target /\ n.active_profile = s.active_profile
      /\ n.active_fan_curve = s.active_fan_curve /\ n.fan_follows_tdp = s.fan_follows_tdp
      /\ n.active_gpu_clock = s.active_gpu_clock /\ n.gpu_follows_tdp = s.gpu_follows_tdp
  BY DEF ProfileState
<1> HIDE DEF n
<1>3. Snapshot(n) = Snapshot(s)
  BY <1>2 DEF Snapshot
<1>4. QED
  BY <1>1, <1>3

LEMMA SyncKeepsLock ==
  ASSUME NEW s \in ProfileState, NEW t \in Sync
  PROVE  SameLock(SyncState(s, t), s)
<1>1. t.op \in SyncOps
  BY DEF Sync, SyncOps
<1>2. SyncState(s, t) \in
        {[s EXCEPT !.power_target = t.target], [s EXCEPT !.active_profile = t.profile],
         [s EXCEPT !.charge_end_threshold = t.charge],
         [s EXCEPT !.active_fan_curve = t.curve], [s EXCEPT !.active_gpu_clock = t.gpu]}
  BY <1>1, Zenon DEF SyncState, SyncOps
<1>3. /\ SameLock([s EXCEPT !.power_target = t.target], s)
      /\ SameLock([s EXCEPT !.active_profile = t.profile], s)
      /\ SameLock([s EXCEPT !.charge_end_threshold = t.charge], s)
      /\ SameLock([s EXCEPT !.active_fan_curve = t.curve], s)
      /\ SameLock([s EXCEPT !.active_gpu_clock = t.gpu], s)
  BY DEF SameLock, ProfileState
<1>4. QED
  BY <1>2, <1>3

\* Every transition but a resume, from a state that holds a snapshot only
\* while locked.
LEMMA ReduceMoves ==
  ASSUME NEW s \in ProfileState, LockShape(s), NEW t \in Transition,
         t.op # "SystemResumed", NEW lim \in Limits, NEW cfg \in Config
  PROVE  Moves(Reduce(s, t, lim, cfg).new_state, s, t, MaxEnvelope(lim, cfg))
<1> DEFINE n == Reduce(s, t, lim, cfg).new_state
<1>1. CASE IsLockedWrite(t) /\ Locked(s)
  <2>1. n = s
    BY <1>1, ReduceArms DEF Output
  <2>2. QED
    BY <2>1 DEF Moves, Kept, SameLock
<1>2. CASE IsLockedWrite(t) /\ ~Locked(s)
  <2>1. n = UserLever(s, t, lim, cfg).new_state
    BY <1>2, ReduceArms, UserLeverType, PersistedKeeps
  <2>2. SameLock(n, s)
    BY <1>2, <2>1, UserLeverKeepsLock
  <2>3. QED
    BY <1>2, <2>2 DEF Moves, Kept
<1>3. CASE t.op = "ChargeThresholdChanged" /\ t.charge \in Charge
  <2>1. n = ChargeThresholdChanged(s, t.charge).new_state
    BY <1>3, ReduceArms, ChargeThresholdType, PersistedKeeps
  <2>2. SameLock(n, s) /\ Snapshot(n) = Snapshot(s)
    BY <2>1, LeversKeepLock, ChargeKeepsLevers
  <2>3. QED
    BY <2>2 DEF Moves, Kept
<1>4. CASE t.op \in SyncOps /\ t \in Sync
  <2>1. n = SyncState(s, t)
    BY <1>4, ReduceArms DEF Output
  <2>2. QED
    BY <1>4, <2>1, SyncKeepsLock DEF Moves, Kept
<1>5. CASE t.op = "AcPowerChanged" /\ t.plugged \in BOOLEAN
  <2>1. Reduce(s, t, lim, cfg) = AcPowerChanged(s, t.plugged, lim, cfg)
    BY <1>5, ReduceArms
  <2>2. QED
    BY <1>5, <2>1, AcPowerChangedMoves
<1>6. CASE t.op = "SetAcMaxPerformance" /\ t.enabled \in BOOLEAN
  <2>1. Reduce(s, t, lim, cfg) = SetAcMaxPerformance(s, t.enabled, lim, cfg)
    BY <1>6, ReduceArms
  <2>2. QED
    BY <1>6, <2>1, SetAcMaxPerformanceMoves
<1>7. CASE t.op \in {"ConfigReload", "Shutdown"}
  <2>1. n = s
    BY <1>7, ReduceArms DEF Output
  <2>2. QED
    BY <2>1 DEF Moves, Kept, SameLock
<1>8. QED
  BY <1>1, <1>2, <1>3, <1>4, <1>5, <1>6, <1>7, OtherTransitions

\* A resume pins every lever of a locked session and leaves none otherwise.
LEMMA ResumeMoves ==
  ASSUME NEW s \in ProfileState, NEW lim \in Limits, NEW cfg \in Config
  PROVE  LET n == SystemResumed(s, lim, cfg).new_state IN
         \/ Locked(s) /\ SameLock(n, s) /\ PinnedAt(n, MaxEnvelope(lim, cfg))
         \/ ~Locked(s) /\ Left(n, s)
<1> DEFINE n == SystemResumed(s, lim, cfg).new_state
<1>1. CASE Locked(s)
  <2>1. n = ForceAcMaxPerformance(s, lim, cfg).new_state
    BY <1>1 DEF SystemResumed, Output, Locked
  <2>2. QED
    BY <1>1, <2>1, ForcePins
<1>2. CASE ~Locked(s) /\ s.last_dc_state # None
  <2>1. n = RestoreDcState(s, s.last_dc_state).new_state
    BY <1>2 DEF SystemResumed, Output, Locked
  <2>2. s.last_dc_state \in DcSnapshot
    BY <1>2, StateFields
  <2>3. QED
    BY <1>2, <2>1, <2>2, RestoreConsumes DEF Left, Locked
<1>3. CASE ~Locked(s) /\ s.last_dc_state = None
  <2> DEFINE clock == IF s.active_gpu_clock # None /\ ~(s.active_gpu_clock \in Tier)
                      THEN None ELSE s.active_gpu_clock
             m == [s EXCEPT !.active_gpu_clock = clock]
  <2>1. SystemResumed(s, lim, cfg) = ReassertAll(s)
    BY <1>3 DEF SystemResumed, Locked
  <2>2. ReassertAll(s).new_state = m
    BY DEF ReassertAll, Output
  <2> HIDE DEF clock
  <2>3. SameLock(m, s)
    BY DEF SameLock, ProfileState
  <2>4. QED
    BY <1>3, <2>1, <2>2, <2>3 DEF Left, Locked, SameLock
<1>4. QED
  BY <1>1, <1>2, <1>3

-----------------------------------------------------------------------------
(* The inductive invariant.                                                *)

NoSyncQueued == \A i \in 1..Len(queue) : queue[i].op \notin SyncOps

\* What the history variable prefs has to do with the state.
PrefsKnown ==
  phase # "off" =>
    /\ state.last_dc_state # None => prefs = Levers(state.last_dc_state)
    /\ state.last_dc_state = None /\ ~Locked(state) => prefs = Levers(state)

\* A locked state is pinned but for the time between a boot and the
\* SystemResumed the boot itself queued; AcLocked is not reported yet then.
PinnedWhileLocked ==
  /\ state.ac_locked => Pinned(state)
  /\ phase = "off" \/ ResumeIsNext \/ (Locked(state) => Pinned(state))

\* No state file claims to be locked, nor the older one a power cut leaves.
FilesUnlocked ==
  /\ disk # None => ~disk.ac_locked
  /\ durable # None => ~durable.ac_locked

LockInv ==
  /\ SnapshotOnlyWhileLocked
  /\ PrefsKnown
  /\ FilesUnlocked
  /\ faults = 0 => NoSyncQueued /\ PinnedWhileLocked

\* What a step that leaves the lock may do, of UnlockRestoresPrefs.
UnlockStep ==
  phase # "off" /\ Locked(state) /\ ~Locked(state') /\ state.last_dc_state # None
    => Levers(state') = prefs

-----------------------------------------------------------------------------
(* Publishing a state, and what a move preserves.                          *)

LEMMA Published ==
  ASSUME NEW s \in ProfileState
  PROVE  LET n == [s EXCEPT !.ac_locked = Locked(s)] IN
         /\ SameLock(n, s) /\ (Locked(n) <=> Locked(s))
         /\ n.ac_locked = Locked(s)
         /\ Snapshot(n) = Snapshot(s) /\ Levers(n) = Levers(s)
         /\ \A e : PinnedAt(n, e) <=> PinnedAt(s, e)
<1> DEFINE n == [s EXCEPT !.ac_locked = Locked(s)]
<1>1. SameLock(n, s)
  BY DEF SameLock, ProfileState
<1>2. n.ac_locked = Locked(s)
  BY DEF ProfileState
<1>3. /\ n.power_target = s.power_target /\ n.active_profile = s.active_profile
      /\ n.active_fan_curve = s.active_fan_curve /\ n.fan_follows_tdp = s.fan_follows_tdp
      /\ n.active_gpu_clock = s.active_gpu_clock /\ n.gpu_follows_tdp = s.gpu_follows_tdp
  BY DEF ProfileState
<1> HIDE DEF n
<1>4. Snapshot(n) = Snapshot(s)
  BY <1>3 DEF Snapshot
<1>5. Levers(n) = Levers(s)
  BY <1>4 DEF Levers
<1>6. \A e : PinnedAt(n, e) <=> PinnedAt(s, e)
  BY <1>3 DEF PinnedAt
<1>7. QED
  BY <1>1, <1>2, <1>4, <1>5, <1>6 DEF n, SameLock, Locked

LEMMA LeversOfSnapshot ==
  ASSUME NEW s
  PROVE  Levers(Snapshot(s)) = Levers(s)
  BY DEF Levers, Snapshot

LEMMA MoveKeeps ==
  ASSUME NEW s, LockShape(s), NEW n, NEW t, NEW e, Moves(n, s, t, e), NEW p,
         ~Locked(s) => p = Levers(s),
         s.last_dc_state # None => p = Levers(s.last_dc_state)
  PROVE  LET q == IF Locked(n) THEN p ELSE Levers(n) IN
         /\ LockShape(n)
         /\ n.last_dc_state # None => q = Levers(n.last_dc_state)
         /\ n.last_dc_state = None /\ ~Locked(n) => q = Levers(n)
         /\ Locked(s) /\ ~Locked(n) /\ s.last_dc_state # None => Levers(n) = p
         /\ t.op \notin SyncOps /\ (Locked(s) => PinnedAt(s, e))
              => (Locked(n) => PinnedAt(n, e))
<1>1. CASE Kept(n, s, t)
  <2>1. (Locked(n) <=> Locked(s)) /\ n.last_dc_state = s.last_dc_state
    BY <1>1 DEF Kept, SameLock, Locked
  <2>2. Snapshot(n) = Snapshot(s) => (PinnedAt(n, e) <=> PinnedAt(s, e))
    BY DEF Snapshot, PinnedAt
  <2>3. QED
    BY <1>1, <2>1, <2>2 DEF LockShape, Kept
<1>2. CASE Entered(n, s, e)
  <2>1. Levers(n.last_dc_state) = Levers(s)
    BY <1>2, LeversOfSnapshot DEF Entered
  <2>2. QED
    BY <1>2, <2>1 DEF Entered, LockShape
<1>3. CASE Left(n, s)
  BY <1>3 DEF Left, LockShape
<1>4. QED
  BY <1>1, <1>2, <1>3 DEF Moves

LEMMA PinnedIsPinnedAt ==
  \A s : Pinned(s) <=> PinnedAt(s, MaxEnvelope(limits, config))
  BY DEF Pinned, PinnedAt

\* At the top of the range the boost rails are the device's, not a multiple.
LEMMA MaxEnvelopeOfAnyConfig ==
  ASSUME NEW lim \in Limits, NEW c, NEW d
  PROVE  MaxEnvelope(lim, c) = MaxEnvelope(lim, d)
<1>1. lim.spl_max \in Nat
  BY DEF Limits
<1>2. QED
  BY <1>1 DEF MaxEnvelope, DeriveBoostedEnvelope, BoostRail

-----------------------------------------------------------------------------
(* The channel.                                                            *)

LEMMA SendKeeps ==
  ASSUME queue \in Seq(Transition), NEW t \in Transition, t.op \notin SyncOps,
         queue' = Append(queue, t), effects' = effects
  PROVE  (ResumeIsNext => ResumeIsNext') /\ (NoSyncQueued => NoSyncQueued')
<1>1. queue # <<>> => Head(Append(queue, t)) = Head(queue) /\ Append(queue, t) # <<>>
  OBVIOUS
<1>2. /\ Len(Append(queue, t)) = Len(queue) + 1 /\ Len(queue) \in Nat
      /\ \A i \in 1..Len(queue) : Append(queue, t)[i] = queue[i]
      /\ Append(queue, t)[Len(queue) + 1] = t
  OBVIOUS
<1>3. QED
  BY <1>1, <1>2 DEF ResumeIsNext, NoSyncQueued

LEMMA ReceiveKeeps ==
  ASSUME queue \in Seq(Transition), queue # <<>>, queue' = Tail(queue), NoSyncQueued
  PROVE  NoSyncQueued' /\ Head(queue).op \notin SyncOps
<1>1. /\ Len(queue) \in Nat \ {0} /\ Head(queue) = queue[1]
      /\ Len(Tail(queue)) = Len(queue) - 1
      /\ \A i \in 1..Len(Tail(queue)) : Tail(queue)[i] = queue[i + 1]
  OBVIOUS
<1>2. QED
  BY <1>1 DEF NoSyncQueued

\* A step that leaves the state, what it is pinned to and the file alone.
LEMMA FrameKeeps ==
  ASSUME LockInv, UNCHANGED <<state, limits, config, phase, disk, durable, prefs>>,
         ResumeIsNext => ResumeIsNext', NoSyncQueued => NoSyncQueued',
         faults' = 0 => faults = 0
  PROVE  LockInv' /\ UnlockStep
<1>1. Pinned(state) => Pinned(state)'
  BY DEF Pinned
<1>2. QED
  BY <1>1 DEF LockInv, FilesUnlocked, SnapshotOnlyWhileLocked, PrefsKnown,
              PinnedWhileLocked, UnlockStep, Locked

-----------------------------------------------------------------------------
(* The executor.                                                           *)

LEMMA ReduceTransitionLock ==
  ASSUME TypeOK, LockInv, ReduceTransition,
         prefs' = IF Locked(state') THEN prefs ELSE Levers(state'),
         durable' \in {durable, disk'}
  PROVE  LockInv' /\ UnlockStep
<1> DEFINE t == Head(queue)
           o == Reduce(state, t, limits, config)
           n == o.new_state
           e == MaxEnvelope(limits, config)
<1>1. /\ phase = "running" /\ queue # <<>> /\ queue' = Tail(queue)
      /\ t.op # "SystemResumed"
      /\ UNCHANGED <<limits, config, disk, faults>>
      /\ ReduceWith(state, t, limits)
  BY DEF ReduceTransition, Receive, Idle
<1>2. t \in Transition /\ state \in ProfileState /\ limits \in Limits /\ config \in Config
  BY <1>1 DEF TypeOK
<1>3. LockShape(state) /\ ~ResumeIsNext
  BY <1>1 DEF LockInv, SnapshotOnlyWhileLocked, LockShape, ResumeIsNext
<1>4. /\ state.last_dc_state # None => prefs = Levers(state.last_dc_state)
      /\ ~Locked(state) => prefs = Levers(state)
  BY <1>1, <1>3 DEF LockInv, PrefsKnown, LockShape
<1>5. faults = 0 => NoSyncQueued' /\ t.op \notin SyncOps
  BY <1>1, ReceiveKeeps DEF LockInv, TypeOK
<1>6. faults = 0 => (Locked(state) => PinnedAt(state, e))
  BY <1>1, <1>3, PinnedIsPinnedAt DEF LockInv, PinnedWhileLocked
<1>7. OutputOK(o) /\ Moves(n, state, t, e)
  BY <1>1, <1>2, <1>3, ReduceType, ReduceMoves
<1>8. state' = IF o.ok THEN [n EXCEPT !.ac_locked = Locked(n)] ELSE state
  BY <1>1 DEF ReduceWith
<1>9. n \in ProfileState
  BY <1>7 DEF OutputOK
<1> HIDE DEF t, o
<1>10. CASE o.ok
  <2> DEFINE q == IF Locked(n) THEN prefs ELSE Levers(n)
  <2>1. /\ LockShape(n)
        /\ n.last_dc_state # None => q = Levers(n.last_dc_state)
        /\ n.last_dc_state = None /\ ~Locked(n) => q = Levers(n)
        /\ Locked(state) /\ ~Locked(n) /\ state.last_dc_state # None => Levers(n) = prefs
        /\ t.op \notin SyncOps /\ (Locked(state) => PinnedAt(state, e))
             => (Locked(n) => PinnedAt(n, e))
    BY <1>3, <1>4, <1>7, MoveKeeps
  <2>2. /\ SameLock(state', n) /\ (Locked(state') <=> Locked(n))
        /\ state'.ac_locked = Locked(n)
        /\ Levers(state') = Levers(n)
        /\ PinnedAt(state', e) <=> PinnedAt(n, e)
    BY <1>8, <1>9, <1>10, Published
  <2>3. prefs' = q
    BY <2>2
  <2> HIDE DEF q, n
  <2>4. faults = 0 => (Locked(state') => Pinned(state)')
    BY <1>1, <1>5, <1>6, <2>1, <2>2 DEF Pinned, PinnedAt
  <2>5. SnapshotOnlyWhileLocked'
    BY <2>1, <2>2 DEF SnapshotOnlyWhileLocked, LockShape, SameLock
  <2>6. PrefsKnown'
    BY <2>1, <2>2, <2>3 DEF PrefsKnown, SameLock
  <2>7. UnlockStep
    BY <2>1, <2>2 DEF UnlockStep
  <2>8. faults' = 0 => NoSyncQueued' /\ PinnedWhileLocked'
    BY <1>1, <1>5, <2>2, <2>4 DEF PinnedWhileLocked
  <2>9. QED
    BY <1>1, <2>5, <2>6, <2>7, <2>8 DEF LockInv, FilesUnlocked
<1>11. CASE ~o.ok
  <2>1. state' = state
    BY <1>8, <1>11
  <2>2. Pinned(state)' <=> Pinned(state)
    BY <1>1, <2>1 DEF Pinned
  <2>3. SnapshotOnlyWhileLocked' /\ PrefsKnown' /\ UnlockStep
    BY <1>3, <1>4, <2>1 DEF SnapshotOnlyWhileLocked, PrefsKnown, UnlockStep, LockShape, Locked
  <2>4. faults' = 0 => NoSyncQueued' /\ PinnedWhileLocked'
    BY <1>1, <1>3, <1>5, <2>1, <2>2 DEF LockInv, PinnedWhileLocked, Locked
  <2>5. QED
    BY <1>1, <2>3, <2>4 DEF LockInv, FilesUnlocked
<1>12. QED
  BY <1>10, <1>11

LEMMA ResumeAccepted ==
  ASSUME NEW s, NEW lim, NEW cfg
  PROVE  SystemResumed(s, lim, cfg).ok
<1>1. ReassertAll(s).ok
  BY DEF ReassertAll, Output
<1>2. QED
  BY <1>1 DEF SystemResumed, Output

LEMMA ReduceResumedLock ==
  ASSUME TypeOK, LockInv, ReduceResumed,
         prefs' = IF Locked(state') THEN prefs ELSE Levers(state'),
         durable' \in {durable, disk'}
  PROVE  LockInv' /\ UnlockStep
<1> DEFINE t == Head(queue)
<1>1. /\ phase = "running" /\ queue # <<>> /\ queue' = Tail(queue)
      /\ t.op = "SystemResumed"
      /\ UNCHANGED <<config, disk>>
  BY DEF ReduceResumed, Receive, Idle
<1>2. t \in Transition /\ state \in ProfileState /\ limits \in Limits /\ config \in Config
      /\ hw.limits \in Limits /\ ac \in BOOLEAN /\ state.is_ac_connected \in BOOLEAN
  BY <1>1, HardwareFields, StateFields DEF TypeOK
<1>3. PICK missed \in SUBSET {"ac", "limits"} :
        LET ac_known == "charge" \in Capability /\ "ac" \notin missed IN
        /\ IF missed = {} THEN UNCHANGED faults ELSE Fault
        /\ limits' = IF "limits" \in missed THEN limits ELSE hw.limits
        /\ ReduceWith([state EXCEPT !.is_ac_connected = IF ac_known THEN ac ELSE @], t, limits')
  BY DEF ReduceResumed
<1> DEFINE b == IF "charge" \in Capability /\ "ac" \notin missed THEN ac
                ELSE state.is_ac_connected
           s == [state EXCEPT !.is_ac_connected = b]
           n == SystemResumed(s, limits', config).new_state
           e == MaxEnvelope(limits', config)
<1>4. faults' = 0 => faults = 0
  BY <1>3 DEF Fault, Faults, TypeOK
<1>5. limits' \in Limits /\ b \in BOOLEAN
  BY <1>2, <1>3
<1>6. /\ s \in ProfileState
      /\ s.last_dc_state = state.last_dc_state
  BY <1>2, <1>5, WithAc
<1>7. ReduceWith(s, t, limits')
  BY <1>3
<1> HIDE DEF s, b, t
<1>8. \/ Locked(s) /\ SameLock(n, s) /\ PinnedAt(n, e)
      \/ ~Locked(s) /\ Left(n, s)
  BY <1>2, <1>5, <1>6, ResumeMoves
<1>9. Reduce(s, t, limits', config) = SystemResumed(s, limits', config)
  BY <1>1, ReduceArms
<1>10. n \in ProfileState /\ SystemResumed(s, limits', config).ok
  BY <1>2, <1>5, <1>6, SystemResumedType, ResumeAccepted DEF OutputOK
<1>11. state' = [n EXCEPT !.ac_locked = Locked(n)]
  BY <1>7, <1>9, <1>10 DEF ReduceWith
<1> HIDE DEF n
<1>12. /\ SameLock(state', n) /\ (Locked(state') <=> Locked(n))
       /\ state'.ac_locked = Locked(n)
       /\ Levers(state') = Levers(n)
       /\ PinnedAt(state', e) <=> PinnedAt(n, e)
  BY <1>10, <1>11, Published
<1>13. PinnedAt(state', e) => Pinned(state)'
  BY <1>1 DEF Pinned, PinnedAt
<1>14. state.last_dc_state # None => prefs = Levers(state.last_dc_state)
  BY <1>1 DEF LockInv, PrefsKnown
<1>15. Locked(n) => PinnedAt(n, e)
  BY <1>8 DEF Left
<1>16. SnapshotOnlyWhileLocked'
  BY <1>8, <1>12 DEF SnapshotOnlyWhileLocked, SameLock, Locked, Left
<1>17. PrefsKnown'
  BY <1>6, <1>8, <1>12, <1>14 DEF PrefsKnown, SameLock, Left, Locked
<1>18. UnlockStep
  BY <1>6, <1>8, <1>12, <1>14 DEF UnlockStep, SameLock, Left, Locked
<1>19. faults' = 0 => NoSyncQueued' /\ PinnedWhileLocked'
  BY <1>1, <1>4, <1>12, <1>13, <1>15, ReceiveKeeps DEF LockInv, TypeOK, PinnedWhileLocked
<1>20. QED
  BY <1>1, <1>16, <1>17, <1>18, <1>19 DEF LockInv, FilesUnlocked

LEMMA ReloadConfigLock ==
  ASSUME TypeOK, LockInv, ReloadConfig,
         prefs' = IF Locked(state') THEN prefs ELSE Levers(state'),
         durable' \in {durable, disk'}
  PROVE  LockInv' /\ UnlockStep
<1>1. /\ phase = "running" /\ queue # <<>> /\ queue' = Tail(queue)
      /\ Head(queue).op = "ConfigReload"
      /\ UNCHANGED <<state, limits, phase, disk, faults>>
  BY DEF ReloadConfig, Receive, Idle
<1>2. ~ResumeIsNext
  BY <1>1 DEF ResumeIsNext
<1>3. Pinned(state)' <=> Pinned(state)
  <2>1. MaxEnvelope(limits, config') = MaxEnvelope(limits, config)
    BY MaxEnvelopeOfAnyConfig DEF TypeOK
  <2>2. QED
    BY <1>1, <2>1 DEF Pinned
<1>4. SnapshotOnlyWhileLocked' /\ PrefsKnown' /\ UnlockStep
  BY <1>1, <1>2 DEF LockInv, SnapshotOnlyWhileLocked, PrefsKnown, UnlockStep, Locked
<1>5. faults' = 0 => NoSyncQueued' /\ PinnedWhileLocked'
  BY <1>1, <1>2, <1>3, ReceiveKeeps DEF LockInv, TypeOK, PinnedWhileLocked, Locked
<1>6. QED
  BY <1>1, <1>4, <1>5 DEF LockInv, FilesUnlocked

\* Dispatching an effect, whatever becomes of it.
LEMMA DispatchLock ==
  ASSUME TypeOK, LockInv,
         ApplyEffect \/ IgnoreEffect \/ FailEffect \/ SkipGpuRange \/ Persist,
         prefs' = IF Locked(state') THEN prefs ELSE Levers(state'),
         durable' \in {durable, disk'}
  PROVE  LockInv' /\ UnlockStep
<1>1. /\ phase # "off" /\ effects # <<>>
      /\ UNCHANGED <<state, limits, config, phase>>
  BY DEF ApplyEffect, IgnoreEffect, FailEffect, SkipGpuRange, Persist, Dispatch
<1>2. ~ResumeIsNext
  BY <1>1 DEF ResumeIsNext
<1>3. faults' = 0 => faults = 0 /\ queue' = queue
  BY DEF ApplyEffect, IgnoreEffect, FailEffect, SkipGpuRange, Persist, Fault, Faults, TypeOK
<1>4. FilesUnlocked'
  <2>1. disk' \in {disk, DiskImage(state)}
    BY DEF ApplyEffect, IgnoreEffect, FailEffect, SkipGpuRange, Persist
  <2>2. ~DiskImage(state).ac_locked
    BY DEF TypeOK, DiskImage, ProfileState
  <2>3. QED
    BY <2>1, <2>2 DEF LockInv, FilesUnlocked
<1>5. Pinned(state)' <=> Pinned(state)
  BY <1>1 DEF Pinned
<1>6. SnapshotOnlyWhileLocked' /\ PrefsKnown' /\ UnlockStep
  BY <1>1, <1>2 DEF LockInv, SnapshotOnlyWhileLocked, PrefsKnown, UnlockStep, Locked
<1>7. faults' = 0 => NoSyncQueued' /\ PinnedWhileLocked'
  BY <1>1, <1>2, <1>3, <1>5 DEF LockInv, PinnedWhileLocked, NoSyncQueued, Locked
<1>8. QED
  BY <1>4, <1>6, <1>7 DEF LockInv

LEMMA ExitLock ==
  ASSUME TypeOK, LockInv, Exit,
         prefs' = IF Locked(state') THEN prefs ELSE Levers(state'),
         durable' \in {durable, disk'}
  PROVE  LockInv' /\ UnlockStep
<1>1. /\ phase' = "off" /\ queue' = <<>>
      /\ UNCHANGED <<state, limits, config, disk, faults>>
  BY DEF Exit
<1>2. Pinned(state)' <=> Pinned(state)
  BY <1>1 DEF Pinned
<1>3. NoSyncQueued'
  BY <1>1 DEF NoSyncQueued
<1>4. SnapshotOnlyWhileLocked' /\ PrefsKnown' /\ UnlockStep
  BY <1>1 DEF SnapshotOnlyWhileLocked, PrefsKnown, UnlockStep, Locked
<1>5. faults' = 0 => NoSyncQueued' /\ PinnedWhileLocked'
  BY <1>1, <1>2, <1>3 DEF LockInv, PinnedWhileLocked
<1>6. QED
  BY <1>1, <1>4, <1>5 DEF LockInv, FilesUnlocked

LEMMA ExecutingLock ==
  ASSUME TypeOK, LockInv, Executing
  PROVE  LockInv' /\ UnlockStep
<1>1. /\ prefs' = IF Locked(state') THEN prefs ELSE Levers(state')
      /\ durable' \in {durable, disk'}
  BY DEF Executing, Surviving
<1>2. QED
  BY <1>1, ReduceTransitionLock, ReduceResumedLock, ReloadConfigLock, DispatchLock, ExitLock
     DEF Executing, ExecutorStep

-----------------------------------------------------------------------------
(* The producers and the world.                                            *)

\* A producer only adds to the tail of the channel, and never a Sync.
LEMMA ProducersKeep ==
  ASSUME TypeOK, Producers
  PROVE  (ResumeIsNext => ResumeIsNext') /\ (NoSyncQueued => NoSyncQueued')
<1>0. effects' = effects
  BY DEF Producers, RequestStep, Terminate, MonitorSeed, MonitorSeedUnread,
     MonitorRead, MonitorSend, ForwardResume, MissResume, executorVars
<1>1. CASE queue' = queue
  BY <1>0, <1>1 DEF ResumeIsNext, NoSyncQueued
<1>2. CASE RequestStep
  <2>1. PICK t \in Requests : Send(t)
    BY <1>2 DEF RequestStep
  <2>2. t \in Transition /\ t.op \notin SyncOps
    BY DaemonAssumption DEF Transition, LockedWrite, FreeRequest, Bare, SyncOps
  <2>3. QED
    BY <1>0, <2>1, <2>2, SendKeeps DEF TypeOK, Send
<1>3. CASE Terminate \/ ForwardResume
  <2>1. PICK t \in {[op |-> "Shutdown"], [op |-> "SystemResumed"]} : Send(t)
    BY <1>3 DEF Terminate, ForwardResume
  <2>2. t \in Transition /\ t.op \notin SyncOps
    BY DEF Transition, SystemEvent, Bare, SyncOps
  <2>3. QED
    BY <1>0, <2>1, <2>2, SendKeeps DEF TypeOK, Send
<1>4. CASE MonitorSend
  <2> DEFINE t == [op |-> "AcPowerChanged", plugged |-> monitor.unsent]
  <2>1. t \in Transition /\ t.op \notin SyncOps
    BY <1>4 DEF MonitorSend, TypeOK, Transition, SystemEvent, SyncOps
  <2>2. Send(t)
    BY <1>4 DEF MonitorSend
  <2> HIDE DEF t
  <2>3. QED
    BY <1>0, <2>1, <2>2, SendKeeps DEF TypeOK, Send
<1>5. QED
  BY <1>1, <1>2, <1>3, <1>4
     DEF Producers, MonitorSeed, MonitorSeedUnread, MonitorRead, MissResume, executorVars

LEMMA ProducersLock ==
  ASSUME TypeOK, LockInv, Producers
  PROVE  LockInv' /\ UnlockStep
<1>1. UNCHANGED <<state, limits, config, phase, disk, durable, prefs, effects>>
  BY DEF Producers, RequestStep, Terminate, MonitorSeed, MonitorSeedUnread,
     MonitorRead, MonitorSend, ForwardResume, MissResume, executorVars, historyVars
<1>2. faults' = 0 => faults = 0
  BY DEF Producers, RequestStep, Terminate, MonitorSeed, MonitorSeedUnread,
     MonitorRead, MonitorSend, ForwardResume, MissResume, executorVars, Fault, Faults, TypeOK
<1>3. (ResumeIsNext => ResumeIsNext') /\ (NoSyncQueued => NoSyncQueued')
  BY ProducersKeep
<1>4. QED
  BY <1>1, <1>2, <1>3, FrameKeeps

\* No state file claims to be locked, so no boot does.
LEMMA BootUnlocked ==
  ASSUME TypeOK, LockInv, Boot
  PROVE  ~state'.ac_locked
<1> PICK missed : state' = BootState(missed)
  BY DEF Boot
<1> DEFINE loaded == IF disk = None \/ "file" \in missed THEN SeededState(missed) ELSE disk
<1>1. loaded \in ProfileState
  BY SeededType DEF TypeOK
<1>2. ~loaded.ac_locked
  BY DEF LockInv, FilesUnlocked, SeededState
<1>3. BootState(missed) = [loaded EXCEPT
        !.is_ac_connected = "charge" \in Capability /\ "ac" \notin missed /\ ac,
        !.active_fan_curve = IF @ = None THEN DefaultCurve ELSE @,
        !.active_profile = DefaultProfile]
  BY DEF BootState
<1> HIDE DEF loaded
<1>4. state'.ac_locked = loaded.ac_locked
  BY <1>1, <1>3 DEF ProfileState
<1>5. QED
  BY <1>2, <1>4

LEMMA WorldLock ==
  ASSUME TypeOK, LockInv, World
  PROVE  LockInv' /\ UnlockStep
<1>1. CASE ChargerEdge \/ Sleep
  <2>1. UNCHANGED <<state, limits, config, phase, disk, durable, prefs, effects, queue, faults>>
    BY <1>1 DEF ChargerEdge, Sleep, historyVars
  <2>2. QED
    BY <2>1, FrameKeeps DEF ResumeIsNext, NoSyncQueued
<1>2. CASE Boot
  <2> PICK missed : state' = BootState(missed)
    BY <1>2 DEF Boot
  <2>1. /\ phase = "off" /\ UNCHANGED <<disk, durable>>
        /\ queue' = <<[op |-> "SystemResumed"]>> /\ effects' = <<>>
        /\ prefs' = PrefsAtBoot(state')
    BY <1>2 DEF Boot
  <2>2. ResumeIsNext'
    BY <2>1 DEF ResumeIsNext
  <2>3. NoSyncQueued'
    BY <2>1 DEF NoSyncQueued, SyncOps
  <2>4. ~state'.ac_locked
    BY <1>2, BootUnlocked
  <2>5. SnapshotOnlyWhileLocked' /\ PrefsKnown' /\ UnlockStep
    BY <2>1, <2>2 DEF SnapshotOnlyWhileLocked, PrefsKnown, PrefsAtBoot, UnlockStep, Locked
  <2>6. PinnedWhileLocked'
    BY <2>2, <2>4 DEF PinnedWhileLocked
  <2>7. QED
    BY <2>1, <2>3, <2>5, <2>6 DEF LockInv, FilesUnlocked
<1>3. CASE Crash \/ PowerCycle
  <2>1. /\ phase' = "off" /\ queue' = <<>>
        /\ UNCHANGED <<state, limits, config, durable, faults>>
        /\ disk' \in {disk, durable}
    BY <1>3 DEF Crash, PowerCycle
  <2>2. Pinned(state)' <=> Pinned(state)
    BY <2>1 DEF Pinned
  <2>3. NoSyncQueued'
    BY <2>1 DEF NoSyncQueued
  <2>4. SnapshotOnlyWhileLocked' /\ PrefsKnown' /\ UnlockStep
    BY <2>1 DEF SnapshotOnlyWhileLocked, PrefsKnown, UnlockStep, Locked
  <2>5. faults' = 0 => NoSyncQueued' /\ PinnedWhileLocked'
    BY <2>1, <2>2, <2>3 DEF LockInv, PinnedWhileLocked
  <2>6. QED
    BY <2>1, <2>4, <2>5 DEF LockInv, FilesUnlocked
<1>4. QED
  BY <1>1, <1>2, <1>3 DEF World

LEMMA InitLock == Init => LockInv
  BY DEF Init, LockInv, FilesUnlocked, SnapshotOnlyWhileLocked, PrefsKnown, NoSyncQueued,
     PinnedWhileLocked, SeededState

LEMMA NextLock == TypeOK /\ LockInv /\ [Next]_vars => LockInv' /\ UnlockStep
<1> SUFFICES ASSUME TypeOK, LockInv, [Next]_vars PROVE LockInv' /\ UnlockStep
  OBVIOUS
<1>1. CASE UNCHANGED vars
  <2>1. UNCHANGED <<state, limits, config, phase, disk, durable, prefs, effects, queue, faults>>
    BY <1>1 DEF vars, executorVars, historyVars
  <2>2. QED
    BY <2>1, FrameKeeps DEF ResumeIsNext, NoSyncQueued
<1>2. QED
  BY <1>1, ExecutingLock, ProducersLock, WorldLock DEF Next

\* The lock invariant holds throughout: without faults no Sync is queued and
\* locked levers are pinned, a snapshot is the preferences from before the
\* lock, and the state file never claims to be locked.
THEOREM LockInvariant == Spec => []LockInv
<1>1. Spec => []TypeOK
  BY DaemonTypes
<1>2. TypeOK /\ LockInv /\ [Next]_vars => LockInv'
  BY NextLock
<1>3. QED
  BY <1>1, <1>2, InitLock, PTL DEF Spec

-----------------------------------------------------------------------------
(* The promises.                                                           *)

\* A battery snapshot exists only in a locked session, or until the boot's
\* own SystemResumed consumes it: failures, crashes and every order of
\* requests, edges and resumes included.
THEOREM SnapshotIsLocked == Spec => []SnapshotOnlyWhileLocked
<1>1. LockInv => SnapshotOnlyWhileLocked
  BY DEF LockInv
<1>2. QED
  BY <1>1, LockInvariant, PTL

\* While nothing has failed, reporting AcLocked means that every lever the
\* daemon reports is at maximum performance, after any config reload and any
\* change of the device's limits.
THEOREM LockPins == Spec => []LockPinsLevers
<1>1. LockInv => LockPinsLevers
  BY DEF LockInv, PinnedWhileLocked, LockPinsLevers
<1>2. QED
  BY <1>1, LockInvariant, PTL

\* Leaving the lock with a snapshot brings back exactly the levers published
\* before the lock was entered.
THEOREM UnlockRestores == Spec => UnlockRestoresPrefs
<1>1. TypeOK /\ LockInv /\ [Next]_vars => UnlockStep
  BY NextLock
<1>2. UnlockStep => [phase # "off" /\ Locked(state) /\ ~Locked(state')
                       /\ state.last_dc_state # None
                     => Levers(state') = prefs]_<<state, prefs>>
  BY DEF UnlockStep
<1>3. QED
  BY <1>1, <1>2, DaemonTypes, LockInvariant, PTL DEF Spec, UnlockRestoresPrefs

-----------------------------------------------------------------------------
(* The daemon implements the lock policy.                                  *)

\* AcLocked is reported exactly while the lock is on, but for a boot whose
\* own SystemResumed is still to come.
ReportsLock ==
  phase # "off" =>
    /\ state.ac_locked => Locked(state)
    /\ Locked(state) => state.ac_locked \/ ResumeIsNext

PolicyStep == Policy!Next \/ UNCHANGED Policy!policyVars

\* The instance's operators are those of this module.
LEMMA PolicyOperators ==
  /\ Policy!DcSnapshot = DcSnapshot
  /\ \A s : Policy!Choice(Snapshot(s)) = Levers(s)
  /\ \A s \in DcSnapshot : Policy!Choice(s) = Levers(s)
  /\ \A s, e : Policy!Forced(Snapshot(s), e) <=> PinnedAt(s, e)
<1>1. Policy!Tier = Tier
  BY DEF Policy!Tier, Tier
<1>2. Policy!DcSnapshot = DcSnapshot
  BY <1>1 DEF Policy!DcSnapshot, DcSnapshot, Policy!Envelope, Envelope, Policy!NoFppt, NoFppt,
              Policy!Profile, Profile, Policy!Curve, Curve, Policy!GpuClock, GpuClock
<1>3. \A s : Policy!Choice(Snapshot(s)) = Levers(s)
  BY <1>1 DEF Policy!Choice, Levers
<1>4. \A s \in DcSnapshot : Snapshot(s) = s
  BY DEF Snapshot, DcSnapshot
<1>5. \A s, e : Policy!Forced(Snapshot(s), e) <=> PinnedAt(s, e)
  BY DEF Policy!Forced, PinnedAt, Snapshot
<1>6. QED
  BY <1>2, <1>3, <1>4, <1>5

-----------------------------------------------------------------------------
(* The steps of the policy.                                                *)

Grows == faults > 0 => faults' > 0

SameCeiling == MaxEnvelope(limits', config') = MaxEnvelope(limits, config)

LEMMA Unmoved ==
  ASSUME LockMode' = LockMode, Snapshot(state') = Snapshot(state), SameCeiling,
         state'.last_dc_state = state.last_dc_state, Grows
  PROVE  PolicyStep
<1>1. CASE (faults' > 0) = (faults > 0)
  BY <1>1 DEF PolicyStep, Policy!policyVars, SameCeiling
<1>2. CASE (faults' > 0) # (faults > 0)
  <2>1. faults' > 0
    BY <1>2 DEF Grows
  <2>2. Policy!Break
    BY <2>1 DEF Policy!Break, SameCeiling
  <2>3. QED
    BY <2>1, <2>2 DEF PolicyStep, Policy!Next
<1>3. QED
  BY <1>1, <1>2

LEMMA Stops ==
  ASSUME LockMode # "down", LockMode' = "down", Grows,
         UNCHANGED <<state, limits, config>>
  PROVE  PolicyStep
<1>1. Policy!Stop
  BY DEF Policy!Stop
<1>2. QED
  BY <1>1 DEF PolicyStep, Policy!Next, Grows

LEMMA Starts ==
  ASSUME LockMode = "down", Snapshot(state') \in DcSnapshot, Grows,
         state'.last_dc_state \in DcSnapshot \cup {None},
         \/ LockMode' = "settling"
         \/ LockMode' = "free" /\ state'.last_dc_state = None
  PROVE  PolicyStep
<1>1. Policy!Start
  BY PolicyOperators DEF Policy!Start
<1>2. QED
  BY <1>1 DEF PolicyStep, Policy!Next, Grows

LEMMA Chooses ==
  ASSUME LockMode = "free", LockMode' = "free", Snapshot(state') \in DcSnapshot, Grows,
         state'.last_dc_state = state.last_dc_state
  PROVE  PolicyStep
<1>1. Policy!Choose
  BY PolicyOperators DEF Policy!Choose
<1>2. QED
  BY <1>1 DEF PolicyStep, Policy!Next, Grows

LEMMA Locks ==
  ASSUME LockMode' = "locked", Grows, PinnedAt(state', MaxEnvelope(limits', config')),
         \/ LockMode = "free" /\ state'.last_dc_state \in {Snapshot(state), None}
         \/ LockMode \in {"settling", "locked"} /\ state'.last_dc_state = state.last_dc_state
  PROVE  PolicyStep
<1>1. Policy!Forced(Snapshot(state'), MaxEnvelope(limits', config'))
  BY PolicyOperators
<1>2. Policy!Lock \/ Policy!LockAgain \/ Policy!Repin
  BY <1>1 DEF Policy!Lock, Policy!LockAgain, Policy!Repin
<1>3. QED
  BY <1>2 DEF PolicyStep, Policy!Next, Grows

LEMMA Unlocks ==
  ASSUME LockMode \in {"locked", "settling"}, LockMode' = "free", Grows,
         Snapshot(state') \in DcSnapshot, state'.last_dc_state = None,
         state.last_dc_state \in DcSnapshot \cup {None},
         state.last_dc_state # None => Levers(state') = Levers(state.last_dc_state)
  PROVE  PolicyStep
<1>1. state.last_dc_state # None =>
        Policy!Choice(Snapshot(state')) = Policy!Choice(state.last_dc_state)
  BY PolicyOperators
<1>2. Policy!Unlock
  BY <1>1, PolicyOperators DEF Policy!Unlock
<1>3. QED
  BY <1>2 DEF PolicyStep, Policy!Next, Grows

LEMMA Corrects ==
  ASSUME LockMode \in {"free", "locked"}, LockMode' = LockMode, Grows, faults > 0,
         Snapshot(state') \in DcSnapshot, SameCeiling,
         state'.last_dc_state = state.last_dc_state
  PROVE  PolicyStep
<1>1. Policy!Correct
  BY PolicyOperators DEF Policy!Correct, SameCeiling
<1>2. QED
  BY <1>1 DEF PolicyStep, Policy!Next, Grows
-----------------------------------------------------------------------------
(* Every step of the daemon is one of the policy or none of its business.  *)

LEMMA FaultsGrow ==
  ASSUME TypeOK, [Next]_vars
  PROVE  Grows
<1>1. faults \in Nat /\ (Fault => faults' = faults + 1) /\ (Faults(2) => faults' = faults + 2)
  BY DEF TypeOK, Fault, Faults
<1>2. faults' = faults \/ Fault \/ Faults(2)
  BY DEF Next, Executing, ExecutorStep, Producers, World, ReloadConfig, ReduceTransition,
         ReduceResumed, ApplyEffect, IgnoreEffect, FailEffect, SkipGpuRange, Persist, Exit,
         RequestStep, Terminate, MonitorSeed, MonitorSeedUnread, MonitorRead,
         MonitorSend, ForwardResume,
         MissResume, ChargerEdge, Sleep, Boot, Crash, PowerCycle, vars, executorVars, Fault
<1>3. QED
  BY <1>1, <1>2 DEF Grows

\* A step that leaves the published state and what it is pinned to alone.
LEMMA QuietStep ==
  ASSUME UNCHANGED <<state, limits, config, phase>>, Grows, ReportsLock,
         ResumeIsNext => ResumeIsNext'
  PROVE  PolicyStep /\ ReportsLock'
<1>1. LockMode' = LockMode
  BY DEF LockMode, Locked
<1>2. PolicyStep
  BY <1>1, Unmoved DEF SameCeiling
<1>3. QED
  BY <1>2 DEF ReportsLock, Locked

LEMMA StateTypes ==
  ASSUME TypeOK
  PROVE  /\ state.last_dc_state \in DcSnapshot \cup {None}
         /\ Snapshot(state) \in DcSnapshot
         /\ state.ac_locked \in BOOLEAN
         /\ None \notin DcSnapshot
<1>1. state \in ProfileState
  BY DEF TypeOK
<1>2. state.ac_locked \in BOOLEAN
  BY <1>1 DEF ProfileState
<1>3. QED
  BY <1>1, <1>2, StateFields, SnapshotType, SnapshotAssumption

\* The modes of a state the executor has just published.
LEMMA PublishedModes ==
  ASSUME phase # "off", state.ac_locked <=> Locked(state), LockShape(state)
  PROVE  LockMode = IF Locked(state) THEN "locked" ELSE "free"
  BY DEF LockMode, LockShape

LEMMA MoveIsPolicy ==
  ASSUME TypeOK, TypeOK', LockShape(state), LockShape(state'), Grows, SameCeiling,
         phase # "off", phase' # "off",
         state.ac_locked <=> Locked(state), state'.ac_locked <=> Locked(state'),
         NEW t, t.op \in SyncOps => faults > 0,
         NEW n, SameLock(state', n), Snapshot(state') = Snapshot(n),
         Moves(n, state, t, MaxEnvelope(limits, config))
  PROVE  PolicyStep
<1> DEFINE e == MaxEnvelope(limits, config)
<1>1. /\ LockMode = IF Locked(state) THEN "locked" ELSE "free"
      /\ LockMode' = IF Locked(state') THEN "locked" ELSE "free"
  BY DEF LockMode, LockShape
<1>2. /\ state.last_dc_state \in DcSnapshot \cup {None}
      /\ Snapshot(state') \in DcSnapshot
  <2>1. state.last_dc_state \in DcSnapshot \cup {None}
    BY StateTypes
  <2>2. state' \in ProfileState
    BY DEF TypeOK
  <2>3. QED
    BY <2>1, <2>2, SnapshotType
<1>3. (Locked(state') <=> Locked(n)) /\ state'.last_dc_state = n.last_dc_state
  BY DEF SameLock, Locked
<1>4. CASE Kept(n, state, t)
  <2>1. /\ Locked(n) <=> Locked(state)
        /\ n.last_dc_state = state.last_dc_state
    BY <1>4 DEF Kept, SameLock, Locked
  <2>2. LockMode' = LockMode /\ LockMode \in {"free", "locked"}
    BY <1>1, <1>3, <2>1
  <2>3. CASE ~Locked(state)
    BY <1>1, <1>2, <1>3, <2>1, <2>2, <2>3, Chooses
  <2>4. CASE Locked(state) /\ t.op \notin SyncOps
    <3>1. Snapshot(state') = Snapshot(state)
      BY <1>4, <2>4 DEF Kept
    <3>2. QED
      BY <1>3, <2>1, <2>2, <3>1, Unmoved
  <2>5. CASE t.op \in SyncOps
    BY <1>2, <1>3, <2>1, <2>2, <2>5, Corrects
  <2>6. QED
    BY <2>3, <2>4, <2>5
<1>5. CASE Entered(n, state, e)
  <2>1. LockMode = "free" /\ LockMode' = "locked" /\ state'.last_dc_state = Snapshot(state)
    BY <1>1, <1>3, <1>5 DEF Entered
  <2>2. PinnedAt(state', MaxEnvelope(limits', config'))
    BY <1>5 DEF Entered, PinnedAt, Snapshot, SameCeiling
  <2>3. QED
    BY <2>1, <2>2, Locks
<1>6. CASE Left(n, state)
  <2>1. LockMode' = "free" /\ state'.last_dc_state = None
    BY <1>1, <1>3, <1>6 DEF Left
  <2>2. CASE Locked(state)
    <3>1. state.last_dc_state # None => Levers(state') = Levers(state.last_dc_state)
      BY <1>6 DEF Left, Levers
    <3>2. QED
      BY <1>1, <1>2, <2>1, <2>2, <3>1, Unlocks
  <2>3. CASE ~Locked(state)
    BY <1>1, <1>2, <2>1, <2>3, Chooses DEF LockShape
  <2>4. QED
    BY <2>2, <2>3
<1>7. QED
  BY <1>4, <1>5, <1>6 DEF Moves
LEMMA MovesShape ==
  ASSUME NEW s, LockShape(s), NEW n, NEW t, NEW e, Moves(n, s, t, e)
  PROVE  LockShape(n)
  BY DEF Moves, Kept, Entered, Left, SameLock, LockShape, Locked

LEMMA ReduceTransitionPolicy ==
  ASSUME TypeOK, TypeOK', LockInv, ReportsLock, Grows, ReduceTransition
  PROVE  PolicyStep /\ ReportsLock'
<1> DEFINE t == Head(queue)
           o == Reduce(state, t, limits, config)
           n == o.new_state
           e == MaxEnvelope(limits, config)
<1>1. /\ phase = "running" /\ queue # <<>> /\ queue' = Tail(queue)
      /\ t.op # "SystemResumed"
      /\ UNCHANGED <<limits, config, disk, faults>>
      /\ ReduceWith(state, t, limits)
  BY DEF ReduceTransition, Receive, Idle
<1>2. t \in Transition /\ state \in ProfileState /\ limits \in Limits /\ config \in Config
  BY <1>1 DEF TypeOK
<1>3. ~ResumeIsNext
  BY <1>1 DEF ResumeIsNext
<1>4. LockShape(state) /\ (state.ac_locked <=> Locked(state))
  BY <1>1, <1>3 DEF LockInv, SnapshotOnlyWhileLocked, LockShape, ReportsLock
<1>5. t.op \in SyncOps => faults > 0
  <2>1. faults \in Nat
    BY DEF TypeOK
  <2>2. faults = 0 => t.op \notin SyncOps
    BY <1>1, ReceiveKeeps DEF LockInv, TypeOK
  <2>3. QED
    BY <2>1, <2>2
<1>6. OutputOK(o) /\ Moves(n, state, t, e)
  BY <1>1, <1>2, <1>4, ReduceType, ReduceMoves
<1>7. state' = IF o.ok THEN [n EXCEPT !.ac_locked = Locked(n)] ELSE state
  BY <1>1 DEF ReduceWith
<1>8. phase' \in {phase, "stopping"}
  BY <1>1 DEF ReduceWith
<1>9. n \in ProfileState /\ LockShape(n)
  BY <1>4, <1>6, MovesShape DEF OutputOK
<1> HIDE DEF t, o
<1>10. CASE o.ok
  <2>1. /\ SameLock(state', n) /\ (Locked(state') <=> Locked(n))
        /\ state'.ac_locked = Locked(n)
        /\ Snapshot(state') = Snapshot(n)
    BY <1>7, <1>9, <1>10, Published
  <2> HIDE DEF n
  <2>2. LockShape(state')
    BY <1>9, <2>1 DEF LockShape, SameLock
  <2>3. PolicyStep
    BY <1>1, <1>4, <1>5, <1>6, <1>8, <2>1, <2>2, MoveIsPolicy DEF SameCeiling
  <2>4. ReportsLock'
    BY <2>1 DEF ReportsLock
  <2>5. QED
    BY <2>3, <2>4
<1>11. CASE ~o.ok
  <2>1. state' = state
    BY <1>7, <1>11
  <2>2. LockMode' = LockMode
    BY <1>1, <1>8, <2>1 DEF LockMode
  <2>3. PolicyStep
    BY <1>1, <2>1, <2>2, Unmoved DEF SameCeiling
  <2>4. QED
    BY <1>4, <2>1, <2>3 DEF ReportsLock
<1>12. QED
  BY <1>10, <1>11

LEMMA ReduceResumedPolicy ==
  ASSUME TypeOK, TypeOK', LockInv, ReportsLock, Grows, ReduceResumed
  PROVE  PolicyStep /\ ReportsLock'
<1> DEFINE t == Head(queue)
<1>1. /\ phase = "running" /\ queue # <<>> /\ t.op = "SystemResumed"
      /\ UNCHANGED config
  BY DEF ReduceResumed, Receive, Idle
<1>2. t \in Transition /\ state \in ProfileState /\ limits \in Limits /\ config \in Config
      /\ hw.limits \in Limits /\ ac \in BOOLEAN /\ state.is_ac_connected \in BOOLEAN
  BY <1>1, HardwareFields, StateFields DEF TypeOK
<1>3. PICK missed \in SUBSET {"ac", "limits"} :
        LET ac_known == "charge" \in Capability /\ "ac" \notin missed IN
        /\ IF missed = {} THEN UNCHANGED faults ELSE Fault
        /\ limits' = IF "limits" \in missed THEN limits ELSE hw.limits
        /\ ReduceWith([state EXCEPT !.is_ac_connected = IF ac_known THEN ac ELSE @], t, limits')
  BY DEF ReduceResumed
<1> DEFINE b == IF "charge" \in Capability /\ "ac" \notin missed THEN ac
                ELSE state.is_ac_connected
           s == [state EXCEPT !.is_ac_connected = b]
           n == SystemResumed(s, limits', config).new_state
           e == MaxEnvelope(limits', config)
<1>4. limits' \in Limits /\ b \in BOOLEAN
  BY <1>2, <1>3
<1>5. /\ s \in ProfileState
      /\ s.last_dc_state = state.last_dc_state
  BY <1>2, <1>4, WithAc
<1>6. ReduceWith(s, t, limits')
  BY <1>3
<1> HIDE DEF s, b, t
<1>7. \/ Locked(s) /\ SameLock(n, s) /\ PinnedAt(n, e)
      \/ ~Locked(s) /\ Left(n, s)
  BY <1>2, <1>4, <1>5, ResumeMoves
<1>8. Reduce(s, t, limits', config) = SystemResumed(s, limits', config)
  BY <1>1, ReduceArms
<1>9. n \in ProfileState /\ SystemResumed(s, limits', config).ok
  BY <1>2, <1>4, <1>5, SystemResumedType, ResumeAccepted DEF OutputOK
<1>10. state' = [n EXCEPT !.ac_locked = Locked(n)] /\ phase' = phase
  BY <1>1, <1>6, <1>8, <1>9 DEF ReduceWith
<1> HIDE DEF n
<1>11. /\ SameLock(state', n) /\ (Locked(state') <=> Locked(n))
       /\ state'.ac_locked = Locked(n)
       /\ Snapshot(state') = Snapshot(n) /\ Levers(state') = Levers(n)
       /\ PinnedAt(state', e) <=> PinnedAt(n, e)
  BY <1>9, <1>10, Published
<1>12. ReportsLock'
  BY <1>11 DEF ReportsLock
<1>13. /\ Snapshot(state') \in DcSnapshot
       /\ state.last_dc_state \in DcSnapshot \cup {None}
       /\ state.ac_locked \in BOOLEAN
  <2>1. state' \in ProfileState
    BY DEF TypeOK
  <2>2. QED
    BY <2>1, StateTypes, SnapshotType
<1>14. LockMode \in {"free", "locked", "settling"}
       /\ (LockMode = "free" => state.last_dc_state = None)
  BY <1>1 DEF LockMode
<1>15. CASE Locked(s) /\ SameLock(n, s) /\ PinnedAt(n, e)
  <2>1. /\ Locked(n) /\ n.last_dc_state = state.last_dc_state
    BY <1>5, <1>15 DEF SameLock, Locked
  <2>2. LockMode' = "locked" /\ state'.last_dc_state = state.last_dc_state
    BY <1>1, <1>10, <1>11, <2>1 DEF LockMode, SameLock
  <2>3. PinnedAt(state', MaxEnvelope(limits', config'))
    BY <1>1, <1>11, <1>15
  <2>4. QED
    BY <1>12, <1>14, <2>2, <2>3, Locks
<1>16. CASE ~Locked(s) /\ Left(n, s)
  <2>1. /\ ~Locked(n) /\ n.last_dc_state = None
        /\ state.last_dc_state # None => Levers(n) = Levers(state.last_dc_state)
    BY <1>5, <1>16 DEF Left
  <2>2. LockMode' = "free" /\ state'.last_dc_state = None
    BY <1>1, <1>10, <1>11, <2>1 DEF LockMode, SameLock
  <2>3. CASE LockMode = "free"
    BY <1>12, <1>13, <1>14, <2>2, <2>3, Chooses
  <2>4. CASE LockMode # "free"
    BY <1>11, <1>12, <1>13, <1>14, <2>1, <2>2, <2>4, Unlocks
  <2>5. QED
    BY <2>3, <2>4
<1>17. QED
  BY <1>7, <1>15, <1>16

LEMMA ExecutorPolicy ==
  ASSUME TypeOK, TypeOK', LockInv, ReportsLock, Grows, ExecutorStep
  PROVE  PolicyStep /\ ReportsLock'
<1>1. CASE ReduceTransition \/ ReduceResumed
  BY <1>1, ReduceTransitionPolicy, ReduceResumedPolicy
<1>2. CASE ReloadConfig
  <2>1. /\ phase = "running" /\ ~ResumeIsNext
        /\ UNCHANGED <<state, limits, phase>>
    BY <1>2 DEF ReloadConfig, Receive, Idle, ResumeIsNext
  <2>2. SameCeiling
    BY <2>1, MaxEnvelopeOfAnyConfig DEF TypeOK, SameCeiling
  <2>3. LockMode' = LockMode
    BY <2>1 DEF LockMode
  <2>4. PolicyStep
    BY <2>1, <2>2, <2>3, Unmoved
  <2>5. QED
    BY <2>1, <2>4 DEF ReportsLock, Locked
<1>3. CASE ApplyEffect \/ IgnoreEffect \/ FailEffect \/ SkipGpuRange \/ Persist
  <2>1. effects # <<>> /\ UNCHANGED <<state, limits, config, phase>>
    BY <1>3 DEF ApplyEffect, IgnoreEffect, FailEffect, SkipGpuRange, Persist, Dispatch
  <2>2. QED
    BY <2>1, QuietStep DEF ResumeIsNext
<1>4. CASE Exit
  <2>1. phase # "off" /\ phase' = "off" /\ UNCHANGED <<state, limits, config>>
    BY <1>4 DEF Exit
  <2>2. LockMode # "down" /\ LockMode' = "down"
    BY <2>1 DEF LockMode
  <2>3. QED
    BY <2>1, <2>2, Stops DEF ReportsLock
<1>5. QED
  BY <1>1, <1>2, <1>3, <1>4 DEF ExecutorStep
LEMMA WorldPolicy ==
  ASSUME TypeOK, TypeOK', LockInv, ReportsLock, Grows, World
  PROVE  PolicyStep /\ ReportsLock'
<1>1. CASE ChargerEdge \/ Sleep
  <2>1. UNCHANGED <<state, limits, config, phase, effects, queue>>
    BY <1>1 DEF ChargerEdge, Sleep
  <2>2. QED
    BY <2>1, QuietStep DEF ResumeIsNext
<1>2. CASE Boot
  <2>1. /\ phase = "off" /\ phase' = "running"
        /\ queue' = <<[op |-> "SystemResumed"]>> /\ effects' = <<>>
    BY <1>2 DEF Boot
  <2>2. ~state'.ac_locked
    BY <1>2, BootUnlocked
  <2>3. ReportsLock'
    BY <2>1, <2>2 DEF ReportsLock, ResumeIsNext
  <2>4. /\ LockMode = "down"
        /\ \/ LockMode' = "settling"
           \/ LockMode' = "free" /\ state'.last_dc_state = None
    BY <2>1, <2>2 DEF LockMode
  <2>5. /\ Snapshot(state') \in DcSnapshot
        /\ state'.last_dc_state \in DcSnapshot \cup {None}
    <3>1. state' \in ProfileState
      BY DEF TypeOK
    <3>2. QED
      BY <3>1, SnapshotType, StateFields
  <2>6. QED
    BY <2>3, <2>4, <2>5, Starts
<1>3. CASE Crash \/ PowerCycle
  <2>1. phase' = "off" /\ UNCHANGED <<state, limits, config>>
    BY <1>3 DEF Crash, PowerCycle
  <2>2. ReportsLock'
    BY <2>1 DEF ReportsLock
  <2>3. LockMode' = "down"
    BY <2>1 DEF LockMode
  <2>4. CASE LockMode = "down"
    BY <2>1, <2>2, <2>3, <2>4, Unmoved DEF SameCeiling
  <2>5. CASE LockMode # "down"
    BY <2>1, <2>2, <2>3, <2>5, Stops
  <2>6. QED
    BY <2>4, <2>5
<1>4. QED
  BY <1>1, <1>2, <1>3 DEF World

LEMMA NextPolicy ==
  ASSUME TypeOK, TypeOK', LockInv, ReportsLock, [Next]_vars
  PROVE  PolicyStep /\ ReportsLock'
<1>1. Grows
  BY FaultsGrow
<1>2. CASE UNCHANGED vars
  <2>1. UNCHANGED <<state, limits, config, phase, effects, queue>>
    BY <1>2 DEF vars, executorVars
  <2>2. QED
    BY <1>1, <2>1, QuietStep DEF ResumeIsNext
<1>3. CASE Producers
  <2>1. UNCHANGED <<state, limits, config, phase>>
    BY <1>3 DEF Producers, RequestStep, Terminate, MonitorSeed, MonitorSeedUnread,
         MonitorRead, MonitorSend,
       ForwardResume, MissResume, executorVars
  <2>2. QED
    BY <1>1, <1>3, <2>1, ProducersKeep, QuietStep
<1>4. CASE Executing
  BY <1>1, <1>4, ExecutorPolicy DEF Executing
<1>5. CASE World
  BY <1>1, <1>5, WorldPolicy
<1>6. QED
  BY <1>2, <1>3, <1>4, <1>5 DEF Next

LEMMA InitPolicy ==
  ASSUME Init, TypeOK
  PROVE  Policy!Init /\ ReportsLock
<1>1. phase = "off" /\ faults = 0 /\ state.last_dc_state = None
  BY DEF Init, SeededState
<1>2. Snapshot(state) \in Policy!DcSnapshot
  BY StateTypes, PolicyOperators
<1>3. QED
  BY <1>1, <1>2 DEF Policy!Init, LockMode, ReportsLock

\* The daemon implements the lock policy, for every capacity, backend,
\* request mix and bound, whatever fails: every step of it starts, stops,
\* chooses, locks, pins again, unlocks or corrects as the policy allows, or
\* leaves the published levers and the kept preferences alone.
THEOREM PolicyIsFollowed == Spec => FollowsPolicy
<1>1. Init /\ TypeOK => Policy!Init /\ ReportsLock
  BY InitPolicy
<1>2. TypeOK /\ TypeOK' /\ LockInv /\ ReportsLock /\ [Next]_vars =>
        ReportsLock' /\ [Policy!Next]_(Policy!policyVars)
  BY NextPolicy DEF PolicyStep
<1>3. QED
  BY <1>1, <1>2, DaemonTypes, LockInvariant, PTL DEF Spec, FollowsPolicy, Policy!Spec

\* The policy alone already promises what LockPinsLevers says of the daemon:
\* whatever implements it reports maximum performance while locked, as long
\* as nothing has failed.
THEOREM PolicyPins ==
  FollowsPolicy => [](LockMode = "locked" /\ ~(faults > 0)
                        => PinnedAt(state, MaxEnvelope(limits, config)))
<1> DEFINE Pins == LockMode = "locked" /\ ~(faults > 0)
                     => Policy!Forced(Snapshot(state), MaxEnvelope(limits, config))
<1>1. Policy!Init => Pins
  BY DEF Policy!Init
<1>2. Pins /\ [Policy!Next]_(Policy!policyVars) => Pins'
  <2> SUFFICES ASSUME Pins, [Policy!Next]_(Policy!policyVars),
                      LockMode' = "locked", ~(faults' > 0)
               PROVE  Policy!Forced(Snapshot(state'), MaxEnvelope(limits', config'))
    OBVIOUS
  <2>1. CASE Policy!Start \/ Policy!Stop \/ Policy!Choose \/ Policy!Unlock
    BY <2>1 DEF Policy!Start, Policy!Stop, Policy!Choose, Policy!Unlock
  <2>2. CASE Policy!Lock \/ Policy!LockAgain \/ Policy!Repin
    BY <2>2 DEF Policy!Lock, Policy!LockAgain, Policy!Repin
  <2>3. CASE (Policy!Correct \/ Policy!Break) /\ ((faults > 0) => (faults' > 0))
    BY <2>3 DEF Policy!Correct, Policy!Break
  <2>4. CASE UNCHANGED Policy!policyVars
    BY <2>4 DEF Policy!policyVars
  <2>5. QED
    BY <2>1, <2>2, <2>3, <2>4 DEF Policy!Next
<1>3. Pins => (LockMode = "locked" /\ ~(faults > 0)
                 => PinnedAt(state, MaxEnvelope(limits, config)))
  BY PolicyOperators
<1>4. QED
  BY <1>1, <1>2, <1>3, PTL DEF FollowsPolicy, Policy!Spec

-----------------------------------------------------------------------------
(* What follows the envelope has a clock.                                  *)

Paired(x) == x.gpu_follows_tdp => x.active_gpu_clock \in Tier

\* Of a state and of the snapshot it holds.
FollowsClock(s) ==
  Paired(s) /\ (s.last_dc_state # None => Paired(s.last_dc_state))

LEMMA SameFollow ==
  ASSUME NEW s, FollowsClock(s), NEW n, n.last_dc_state = s.last_dc_state,
         \/ /\ n.gpu_follows_tdp = s.gpu_follows_tdp
            /\ n.active_gpu_clock = s.active_gpu_clock
         \/ n.active_gpu_clock \in Tier
         \/ ~n.gpu_follows_tdp
  PROVE  FollowsClock(n)
  BY DEF FollowsClock, Paired

LEMMA PresetsKeepClock ==
  ASSUME NEW s \in ProfileState, FollowsClock(s), NEW lim \in Limits, NEW cfg \in Config
  PROVE  /\ \A e : FollowsClock(SetEnvelope(s, e, lim, cfg).new_state)
         /\ \A w : FollowsClock(SetSpl(s, w, lim, cfg).new_state)
         /\ \A p : FollowsClock(SetPreset(s, p, lim, cfg).new_state)
<1>1. ASSUME NEW e PROVE FollowsClock(ApplyPowerTarget(s, e, lim, cfg).new_state)
  <2> DEFINE tier == InferTier(e, lim, cfg)
             fan  == s.fan_follows_tdp /\ s.active_fan_curve # tier
             gpu  == s.gpu_follows_tdp /\ s.active_gpu_clock # tier
             n    == [s EXCEPT !.power_target = e,
                               !.active_fan_curve = IF fan THEN tier ELSE @,
                               !.active_gpu_clock = IF gpu THEN tier ELSE @]
  <2>1. ApplyPowerTarget(s, e, lim, cfg).new_state \in {s, n}
    BY DEF ApplyPowerTarget, Output
  <2>2. tier \in Tier
    BY InferTierType
  <2> HIDE DEF tier, fan, gpu
  <2>3. /\ n.last_dc_state = s.last_dc_state /\ n.gpu_follows_tdp = s.gpu_follows_tdp
        /\ n.active_gpu_clock \in {tier, s.active_gpu_clock}
    BY DEF ProfileState
  <2> HIDE DEF n
  <2>4. FollowsClock(n)
    BY <2>2, <2>3, SameFollow
  <2>5. QED
    BY <2>1, <2>4
<1>2. FollowsClock(Rejected(s).new_state)
  BY DEF Rejected
<1>3. \A e : FollowsClock(SetEnvelope(s, e, lim, cfg).new_state)
  BY <1>1, <1>2 DEF SetEnvelope
<1>4. \A w : FollowsClock(SetSpl(s, w, lim, cfg).new_state)
  BY <1>2, <1>3 DEF SetSpl
<1>5. QED
  BY <1>3, <1>4 DEF SetPreset

LEMMA LeversKeepClock ==
  ASSUME NEW s \in ProfileState, FollowsClock(s), NEW lim \in Limits, NEW cfg \in Config
  PROVE  /\ \A p : FollowsClock(SetProfile(s, p).new_state)
         /\ \A c : FollowsClock(SetFanCurve(s, c).new_state)
         /\ \A c : FollowsClock(ChargeThresholdChanged(s, c).new_state)
         /\ FollowsClock(EnableFanAuto(s, lim, cfg).new_state)
         /\ FollowsClock(ResetFanCurve(s).new_state)
         /\ FollowsClock(EnableGpuAutoFollow(s, lim, cfg).new_state)
         /\ FollowsClock(ResetGpuClocks(s).new_state)
<1> DEFINE Same(n) == /\ n.last_dc_state = s.last_dc_state
                      /\ n.gpu_follows_tdp = s.gpu_follows_tdp
                      /\ n.active_gpu_clock = s.active_gpu_clock
<1>1. \A n : Same(n) => FollowsClock(n)
  BY SameFollow
<1>2. \A p : Same(SetProfile(s, p).new_state)
  BY DEF SetProfile, Output, ProfileState
<1>3. \A c : Same(SetFanCurve(s, c).new_state)
  BY DEF SetFanCurve, Output, ProfileState
<1>4. \A c : Same(ChargeThresholdChanged(s, c).new_state)
  BY DEF ChargeThresholdChanged, Output, ProfileState
<1>5. Same(EnableFanAuto(s, lim, cfg).new_state)
  BY DEF EnableFanAuto, Output, ProfileState
<1>6. Same(ResetFanCurve(s).new_state)
  BY DEF ResetFanCurve, Output, ProfileState
<1> HIDE DEF Same
<1>7. FollowsClock(EnableGpuAutoFollow(s, lim, cfg).new_state)
  <2> DEFINE n == EnableGpuAutoFollow(s, lim, cfg).new_state
  <2>1. FanTier(s, lim, cfg) \in Tier
    BY InferTierType DEF FanTier
  <2>2. n = s \/ (n.last_dc_state = s.last_dc_state /\ n.active_gpu_clock \in Tier)
    BY <2>1 DEF EnableGpuAutoFollow, Output, ProfileState
  <2> HIDE DEF n
  <2>3. FollowsClock(n)
    BY <2>2, SameFollow
  <2>4. QED
    BY <2>3 DEF n
<1>8. FollowsClock(ResetGpuClocks(s).new_state)
  <2> DEFINE n == ResetGpuClocks(s).new_state
  <2>1. n = s \/ (n.last_dc_state = s.last_dc_state /\ ~n.gpu_follows_tdp)
    BY DEF ResetGpuClocks, Output, ProfileState
  <2> HIDE DEF n
  <2>2. FollowsClock(n)
    BY <2>1, SameFollow
  <2>3. QED
    BY <2>2 DEF n
<1>9. QED
  BY <1>1, <1>2, <1>3, <1>4, <1>5, <1>6, <1>7, <1>8

LEMMA RestoreDefaultsKeepClock ==
  ASSUME NEW s \in ProfileState, FollowsClock(s), NEW lim \in Limits, NEW cfg \in Config
  PROVE  FollowsClock(RestoreDefaults(s, lim, cfg).new_state)
<1> DEFINE o1 == SetPreset(s, "Balanced", lim, cfg)
           o2 == SetProfile(o1.new_state, "Performance")
           o3 == ChargeThresholdChanged(o2.new_state, DefaultCharge)
           o4 == EnableFanAuto(o3.new_state, lim, cfg)
           o5 == ResetGpuClocks(o4.new_state)
           fx == o1.effects \o o2.effects \o o3.effects \o o4.effects \o o5.effects
<1>1. OutputOK(o1) /\ FollowsClock(o1.new_state)
  BY SetPresetType, PresetsKeepClock DEF TdpPreset
<1> HIDE DEF o1
<1>2. OutputOK(o2) /\ FollowsClock(o2.new_state)
  BY <1>1, SetProfileType, LeversKeepClock DEF OutputOK, Profile
<1> HIDE DEF o2
<1>3. OutputOK(o3) /\ FollowsClock(o3.new_state)
  BY <1>2, ChargeThresholdType, LeversKeepClock, SelectionAssumption DEF OutputOK
<1> HIDE DEF o3
<1>4. OutputOK(o4) /\ FollowsClock(o4.new_state)
  BY <1>3, FollowTypes, LeversKeepClock DEF OutputOK
<1> HIDE DEF o4
<1>5. FollowsClock(o5.new_state)
  BY <1>4, LeversKeepClock DEF OutputOK
<1> HIDE DEF o5
<1>6. RestoreDefaults(s, lim, cfg) \in {Output(o5.new_state, fx), Rejected(s)}
  BY DEF RestoreDefaults, o1, o2, o3, o4, o5
<1> HIDE DEF fx
<1>7. QED
  BY <1>5, <1>6 DEF Output, Rejected

LEMMA UserLeverKeepsClock ==
  ASSUME NEW s \in ProfileState, FollowsClock(s), NEW t \in Transition, IsLockedWrite(t),
         NEW lim \in Limits, NEW cfg \in Config
  PROVE  FollowsClock(UserLever(s, t, lim, cfg).new_state)
<1>1. UserLever(s, t, lim, cfg) \in
        {SetPreset(s, t.preset, lim, cfg), SetSpl(s, t.watts, lim, cfg),
         SetEnvelope(s, t.target, lim, cfg), SetProfile(s, t.profile),
         SetFanCurve(s, t.curve), EnableFanAuto(s, lim, cfg), ResetFanCurve(s),
         EnableGpuAutoFollow(s, lim, cfg), ResetGpuClocks(s),
         RestoreDefaults(s, lim, cfg)}
  BY Zenon DEF UserLever, IsLockedWrite, LockedWriteOps
<1>2. QED
  BY <1>1, PresetsKeepClock, LeversKeepClock, RestoreDefaultsKeepClock
LEMMA ForceKeepsClock ==
  ASSUME NEW s \in ProfileState, FollowsClock(s), NEW lim \in Limits, NEW cfg \in Config
  PROVE  FollowsClock(ForceAcMaxPerformance(s, lim, cfg).new_state)
<1> DEFINE e == MaxEnvelope(lim, cfg)
           gpu == s.active_gpu_clock # None
           n == [s EXCEPT !.power_target = e,
                          !.active_profile = "Performance",
                          !.active_fan_curve = "Aggressive",
                          !.fan_follows_tdp = FALSE,
                          !.active_gpu_clock = IF gpu THEN "Aggressive" ELSE None,
                          !.gpu_follows_tdp = ~gpu /\ @]
<1>1. ForceAcMaxPerformance(s, lim, cfg).new_state = n
  BY DEF ForceAcMaxPerformance, Output
<1>2. gpu \/ ~s.gpu_follows_tdp
  BY SelectionAssumption DEF FollowsClock, Paired, Curve
<1>3. /\ n.last_dc_state = s.last_dc_state
      /\ n.gpu_follows_tdp = (~gpu /\ s.gpu_follows_tdp)
  BY DEF ProfileState
<1> HIDE DEF n, gpu
<1>4. ~n.gpu_follows_tdp
  BY <1>2, <1>3
<1>5. FollowsClock(n)
  BY <1>3, <1>4, SameFollow
<1>6. QED
  BY <1>1, <1>5

LEMMA ForceWithSnapshotKeepsClock ==
  ASSUME NEW s \in ProfileState, FollowsClock(s), NEW snap, Paired(snap),
         NEW lim \in Limits, NEW cfg \in Config
  PROVE  FollowsClock(ForceWithSnapshot(s, snap, lim, cfg).new_state)
<1> DEFINE m == ForceAcMaxPerformance(s, lim, cfg).new_state
           n == [m EXCEPT !.last_dc_state = snap]
<1>1. ForceWithSnapshot(s, snap, lim, cfg).new_state = n
  BY DEF ForceWithSnapshot, Output
<1>2. m \in ProfileState /\ FollowsClock(m)
  BY ForcePins, ForceKeepsClock
<1> HIDE DEF m
<1>3. /\ n.last_dc_state = snap /\ n.gpu_follows_tdp = m.gpu_follows_tdp
      /\ n.active_gpu_clock = m.active_gpu_clock
  BY <1>2 DEF ProfileState
<1> HIDE DEF n
<1>4. FollowsClock(n)
  BY <1>2, <1>3 DEF FollowsClock, Paired
<1>5. QED
  BY <1>1, <1>4

LEMMA RestoreDcKeepsClock ==
  ASSUME NEW s \in ProfileState, NEW snap \in DcSnapshot, Paired(snap)
  PROVE  FollowsClock(RestoreDcState(s, snap).new_state)
<1> DEFINE gpu  == s.active_gpu_clock # snap.active_gpu_clock
           tier == snap.active_gpu_clock \in Tier
           clock == IF gpu /\ ~tier THEN None ELSE snap.active_gpu_clock
           n == [s EXCEPT !.last_dc_state = None,
                          !.active_profile = snap.active_profile,
                          !.power_target = snap.power_target,
                          !.active_fan_curve = snap.active_fan_curve,
                          !.fan_follows_tdp = snap.fan_follows_tdp,
                          !.active_gpu_clock = clock,
                          !.gpu_follows_tdp = snap.gpu_follows_tdp]
<1>1. RestoreDcState(s, snap).new_state = n
  BY DEF RestoreDcState, Output
<1>2. /\ n.last_dc_state = None
      /\ n.active_gpu_clock = clock
      /\ n.gpu_follows_tdp = snap.gpu_follows_tdp
  BY DEF ProfileState
<1> HIDE DEF n
<1>3. snap.gpu_follows_tdp => clock \in Tier
  BY DEF Paired
<1>4. FollowsClock(n)
  BY <1>2, <1>3 DEF FollowsClock, Paired
<1>5. QED
  BY <1>1, <1>4

LEMMA QuietKeepsClock ==
  ASSUME NEW s \in ProfileState, FollowsClock(s), NEW lim \in Limits, NEW cfg \in Config
  PROVE  FollowsClock(QuietDefaults(s, lim, cfg).new_state)
<1> DEFINE m == [s EXCEPT !.is_ac_connected = FALSE, !.fan_follows_tdp = TRUE]
           o == SetPreset(m, "Balanced", lim, cfg)
<1>1. m \in ProfileState /\ m.last_dc_state = s.last_dc_state
      /\ m.gpu_follows_tdp = s.gpu_follows_tdp /\ m.active_gpu_clock = s.active_gpu_clock
  BY DEF ProfileState
<1>2. QuietDefaults(s, lim, cfg) = Persisted(o)
  BY DEF QuietDefaults
<1> HIDE DEF m
<1>3. FollowsClock(m)
  BY <1>1, SameFollow
<1>4. OutputOK(o) /\ FollowsClock(o.new_state)
  BY <1>1, <1>3, SetPresetType, PresetsKeepClock DEF TdpPreset
<1> HIDE DEF o
<1>5. QED
  BY <1>2, <1>4, PersistedKeeps

LEMMA SnapshotPaired ==
  ASSUME NEW s, FollowsClock(s)
  PROVE  Paired(Snapshot(s))
  BY DEF FollowsClock, Paired, Snapshot

LEMMA AcPowerChangedKeepsClock ==
  ASSUME NEW s \in ProfileState, FollowsClock(s), NEW b \in BOOLEAN,
         NEW lim \in Limits, NEW cfg \in Config
  PROVE  FollowsClock(AcPowerChanged(s, b, lim, cfg).new_state)
<1> DEFINE o == AcEdge(s, b, lim, cfg)
           n == [o.new_state EXCEPT !.is_ac_connected = b]
<1>1. s.last_dc_state \in DcSnapshot \cup {None}
  BY StateFields
<1>2. o.new_state \in ProfileState /\ FollowsClock(o.new_state)
  <2>1. CASE o = ForceWithSnapshot(s, Snapshot(s), lim, cfg)
    BY <2>1, SnapshotType, SnapshotPaired, ForceWithSnapshotEnters, ForceWithSnapshotKeepsClock
  <2>2. CASE o = RestoreDcState(s, s.last_dc_state) /\ s.last_dc_state # None
    BY <1>1, <2>2, RestoreDcType, RestoreDcKeepsClock DEF OutputOK, FollowsClock
  <2>3. CASE o = QuietDefaults(s, lim, cfg)
    BY <2>3, QuietKeepsLock, QuietKeepsClock
  <2>4. CASE o = Output(s, <<>>)
    BY <2>4 DEF Output
  <2>5. QED
    BY <2>1, <2>2, <2>3, <2>4 DEF AcEdge
<1>3. AcPowerChanged(s, b, lim, cfg).new_state \in {s, n}
  BY DEF AcPowerChanged, Output, Rejected
<1> HIDE DEF o
<1>4. /\ n.last_dc_state = o.new_state.last_dc_state
      /\ n.gpu_follows_tdp = o.new_state.gpu_follows_tdp
      /\ n.active_gpu_clock = o.new_state.active_gpu_clock
  BY <1>2 DEF ProfileState
<1> HIDE DEF n
<1>5. FollowsClock(n)
  BY <1>2, <1>4, SameFollow
<1>6. QED
  BY <1>3, <1>5

LEMMA SetAcMaxPerformanceKeepsClock ==
  ASSUME NEW s \in ProfileState, FollowsClock(s), NEW b \in BOOLEAN,
         NEW lim \in Limits, NEW cfg \in Config
  PROVE  FollowsClock(SetAcMaxPerformance(s, b, lim, cfg).new_state)
<1> DEFINE snap == IF s.last_dc_state = None THEN Snapshot(s) ELSE s.last_dc_state
           o == IF ~s.is_ac_connected THEN Output(s, <<PersistState>>)
                ELSE IF b THEN ForceWithSnapshot(s, snap, lim, cfg)
                ELSE IF s.last_dc_state # None THEN RestoreDcState(s, s.last_dc_state)
                ELSE Output(s, <<PersistState>>)
           n == [o.new_state EXCEPT !.ac_max_performance = b]
<1>1. snap \in DcSnapshot /\ Paired(snap)
  BY StateFields, SnapshotType, SnapshotPaired DEF FollowsClock
<1>2. o.new_state \in ProfileState /\ FollowsClock(o.new_state)
  <2>1. CASE o = ForceWithSnapshot(s, snap, lim, cfg)
    BY <1>1, <2>1, ForceWithSnapshotEnters, ForceWithSnapshotKeepsClock
  <2>2. CASE o = RestoreDcState(s, s.last_dc_state) /\ s.last_dc_state # None
    BY <2>2, StateFields, RestoreDcType, RestoreDcKeepsClock DEF OutputOK, FollowsClock
  <2>3. CASE o = Output(s, <<PersistState>>)
    BY <2>3 DEF Output
  <2>4. QED
    BY <2>1, <2>2, <2>3
<1>3. SetAcMaxPerformance(s, b, lim, cfg).new_state \in {s, n}
  BY DEF SetAcMaxPerformance, Output
<1> HIDE DEF o
<1>4. /\ n.last_dc_state = o.new_state.last_dc_state
      /\ n.gpu_follows_tdp = o.new_state.gpu_follows_tdp
      /\ n.active_gpu_clock = o.new_state.active_gpu_clock
  BY <1>2 DEF ProfileState
<1> HIDE DEF n
<1>5. FollowsClock(n)
  BY <1>2, <1>4, SameFollow
<1>6. QED
  BY <1>3, <1>5

LEMMA ResumeKeepsClock ==
  ASSUME NEW s \in ProfileState, FollowsClock(s), NEW lim \in Limits, NEW cfg \in Config
  PROVE  FollowsClock(SystemResumed(s, lim, cfg).new_state)
<1> DEFINE n == SystemResumed(s, lim, cfg).new_state
<1>1. CASE Locked(s)
  <2>1. n = ForceAcMaxPerformance(s, lim, cfg).new_state
    BY <1>1 DEF SystemResumed, Output, Locked
  <2>2. QED
    BY <2>1, ForceKeepsClock
<1>2. CASE ~Locked(s) /\ s.last_dc_state # None
  <2>1. n = RestoreDcState(s, s.last_dc_state).new_state
    BY <1>2 DEF SystemResumed, Output, Locked
  <2>2. QED
    BY <1>2, <2>1, StateFields, RestoreDcKeepsClock DEF FollowsClock
<1>3. CASE ~Locked(s) /\ s.last_dc_state = None
  <2> DEFINE clock == IF s.active_gpu_clock # None /\ ~(s.active_gpu_clock \in Tier)
                      THEN None ELSE s.active_gpu_clock
             m == [s EXCEPT !.active_gpu_clock = clock]
  <2>1. SystemResumed(s, lim, cfg) = ReassertAll(s)
    BY <1>3 DEF SystemResumed, Locked
  <2>2. ReassertAll(s).new_state = m
    BY DEF ReassertAll, Output
  <2>3. s.gpu_follows_tdp => clock \in Tier
    BY DEF FollowsClock, Paired
  <2> HIDE DEF clock
  <2>4. /\ m.last_dc_state = s.last_dc_state /\ m.gpu_follows_tdp = s.gpu_follows_tdp
        /\ m.active_gpu_clock = clock
    BY DEF ProfileState
  <2> HIDE DEF m
  <2>5. FollowsClock(m)
    BY <2>3, <2>4 DEF FollowsClock, Paired
  <2>6. QED
    BY <2>1, <2>2, <2>5
<1>4. QED
  BY <1>1, <1>2, <1>3

\* No transition but the correction of a failed write makes a lever follow
\* the envelope without a clock.
LEMMA ReduceKeepsClock ==
  ASSUME NEW s \in ProfileState, FollowsClock(s), NEW t \in Transition, t.op \notin SyncOps,
         NEW lim \in Limits, NEW cfg \in Config
  PROVE  FollowsClock(Reduce(s, t, lim, cfg).new_state)
<1>1. CASE IsLockedWrite(t) /\ Locked(s)
  BY <1>1, ReduceArms DEF Output
<1>2. CASE IsLockedWrite(t) /\ ~Locked(s)
  BY <1>2, ReduceArms, UserLeverType, PersistedKeeps, UserLeverKeepsClock
<1>3. CASE t.op = "ChargeThresholdChanged" /\ t.charge \in Charge
  BY <1>3, ReduceArms, ChargeThresholdType, PersistedKeeps, LeversKeepClock
<1>4. CASE t.op = "AcPowerChanged" /\ t.plugged \in BOOLEAN
  BY <1>4, ReduceArms, AcPowerChangedKeepsClock
<1>5. CASE t.op = "SystemResumed"
  BY <1>5, ReduceArms, ResumeKeepsClock
<1>6. CASE t.op = "SetAcMaxPerformance" /\ t.enabled \in BOOLEAN
  BY <1>6, ReduceArms, SetAcMaxPerformanceKeepsClock
<1>7. CASE t.op \in {"ConfigReload", "Shutdown"}
  BY <1>7, ReduceArms DEF Output
<1>8. QED
  BY <1>1, <1>2, <1>3, <1>4, <1>5, <1>6, <1>7, OtherTransitions

\* While nothing has failed, neither the published state nor the file, nor the
\* older file a power cut leaves, has a lever that follows the envelope without
\* a clock.
FollowInv ==
  faults = 0 =>
    /\ FollowsClock(state)
    /\ disk # None => FollowsClock(disk)
    /\ durable # None => FollowsClock(durable)

\* The two rewrites of the executor keep what follows what.
LEMMA RewritesKeepClock ==
  ASSUME NEW s \in ProfileState, FollowsClock(s), NEW b
  PROVE  /\ FollowsClock([s EXCEPT !.is_ac_connected = b])
         /\ FollowsClock([s EXCEPT !.ac_locked = b])
         /\ FollowsClock(DiskImage(s))
<1> DEFINE Same(n) == /\ n.last_dc_state = s.last_dc_state
                      /\ n.gpu_follows_tdp = s.gpu_follows_tdp
                      /\ n.active_gpu_clock = s.active_gpu_clock
<1>1. \A n : Same(n) => FollowsClock(n)
  BY SameFollow
<1>2. Same([s EXCEPT !.is_ac_connected = b]) /\ Same([s EXCEPT !.ac_locked = b])
  BY DEF ProfileState
<1>3. Same(DiskImage(s))
  BY DEF ProfileState, DiskImage
<1> HIDE DEF Same
<1>4. QED
  BY <1>1, <1>2, <1>3

LEMMA InitFollow == Init => FollowInv
<1> SUFFICES ASSUME Init PROVE FollowsClock(state) /\ disk = None /\ durable = None
  BY DEF FollowInv
<1>1. state = SeededState({}) /\ disk = None /\ durable = None
  BY DEF Init
<1>2. FollowsClock(SeededState({}))
  BY DEF SeededState, FollowsClock, Paired
<1>3. QED
  BY <1>1, <1>2

\* Reducing a transition that is no rollback, and publishing the result.
LEMMA ReduceWithKeepsClock ==
  ASSUME TypeOK, FollowsClock(state),
         NEW s \in ProfileState, FollowsClock(s), NEW t \in Transition, t.op \notin SyncOps,
         NEW lim \in Limits, ReduceWith(s, t, lim)
  PROVE  FollowsClock(state')
<1> DEFINE o == Reduce(s, t, lim, config)
           n == o.new_state
<1>1. OutputOK(o) /\ FollowsClock(n)
  BY ReduceType, ReduceKeepsClock DEF TypeOK
<1>2. state' = IF o.ok THEN [n EXCEPT !.ac_locked = Locked(n)] ELSE state
  BY DEF ReduceWith
<1> HIDE DEF o
<1>3. n \in ProfileState
  BY <1>1 DEF OutputOK
<1> HIDE DEF n
<1>4. QED
  BY <1>1, <1>2, <1>3, RewritesKeepClock

LEMMA ReducingKeepsClock ==
  ASSUME TypeOK, LockInv, FollowInv, ReduceTransition \/ ReduceResumed, faults' = 0, faults = 0,
         durable' \in {durable, disk'}
  PROVE  FollowInv'
<1> DEFINE t == Head(queue)
<1>1. /\ queue # <<>> /\ queue' = Tail(queue) /\ disk' = disk
      /\ t \in Transition /\ state \in ProfileState /\ limits \in Limits
  BY DEF ReduceTransition, ReduceResumed, Receive, TypeOK
<1>2. t.op \notin SyncOps /\ FollowsClock(state)
  BY <1>1, ReceiveKeeps DEF LockInv, TypeOK, FollowInv
<1>3. FollowsClock(state')
  <2>1. CASE ReduceTransition
    BY <1>1, <1>2, <2>1, ReduceWithKeepsClock DEF ReduceTransition
  <2>2. CASE ReduceResumed
    <3>1. PICK missed \in SUBSET {"ac", "limits"} :
            LET ac_known == "charge" \in Capability /\ "ac" \notin missed IN
            /\ limits' = IF "limits" \in missed THEN limits ELSE hw.limits
            /\ ReduceWith([state EXCEPT !.is_ac_connected = IF ac_known THEN ac ELSE @],
                          t, limits')
      BY <2>2 DEF ReduceResumed
    <3> DEFINE b == IF "charge" \in Capability /\ "ac" \notin missed THEN ac
                    ELSE state.is_ac_connected
               s == [state EXCEPT !.is_ac_connected = b]
    <3>2. limits' \in Limits /\ b \in BOOLEAN
      BY <1>1, <3>1, HardwareFields, StateFields DEF TypeOK
    <3>3. ReduceWith(s, t, limits')
      BY <3>1
    <3> HIDE DEF b
    <3>4. s \in ProfileState /\ FollowsClock(s)
      BY <1>1, <1>2, <3>2, WithAc, RewritesKeepClock
    <3> HIDE DEF s, t
    <3>5. QED
      BY <1>1, <1>2, <3>2, <3>3, <3>4, ReduceWithKeepsClock
  <2>3. QED
    BY <2>1, <2>2
<1>4. QED
  BY <1>1, <1>3 DEF FollowInv

\* A boot starts from the file, if it has one, or from the seeded state.
LEMMA BootKeepsClock ==
  ASSUME TypeOK, FollowInv, Boot, faults' = 0, faults = 0
  PROVE  FollowInv'
<1>1. PICK missed : state' = BootState(missed)
  BY DEF Boot
<1> DEFINE loaded == IF disk = None \/ "file" \in missed THEN SeededState(missed) ELSE disk
           n == [loaded EXCEPT
                  !.is_ac_connected = "charge" \in Capability /\ "ac" \notin missed /\ ac,
                  !.active_fan_curve = IF @ = None THEN DefaultCurve ELSE @,
                  !.active_profile = DefaultProfile]
<1>2. loaded \in ProfileState
  BY SeededType DEF TypeOK
<1>3. FollowsClock(loaded)
  <2>1. FollowsClock(SeededState(missed))
    BY DEF SeededState, FollowsClock, Paired
  <2>2. QED
    BY <2>1 DEF FollowInv
<1>4. state' = n
  BY <1>1 DEF BootState
<1> HIDE DEF loaded
<1>5. /\ n.last_dc_state = loaded.last_dc_state
      /\ n.gpu_follows_tdp = loaded.gpu_follows_tdp
      /\ n.active_gpu_clock = loaded.active_gpu_clock
  BY <1>2 DEF ProfileState
<1> HIDE DEF n
<1>6. FollowsClock(n)
  BY <1>3, <1>5, SameFollow
<1>7. disk' = disk /\ durable' = durable
  BY DEF Boot
<1>8. QED
  BY <1>4, <1>6, <1>7 DEF FollowInv

LEMMA NextFollow == TypeOK /\ LockInv /\ FollowInv /\ [Next]_vars => FollowInv'
<1> SUFFICES ASSUME TypeOK, LockInv, FollowInv, [Next]_vars, faults' = 0 PROVE FollowInv'
  BY DEF FollowInv
<1>1. faults = 0
  BY FaultsGrow DEF Grows, TypeOK
<1>2. CASE /\ UNCHANGED state
            /\ disk' \in {disk, durable, DiskImage(state)}
            /\ durable' \in {durable, disk'}
  <2>1. state \in ProfileState
    BY DEF TypeOK
  <2>2. FollowsClock(DiskImage(state))
    BY <1>1, <2>1, RewritesKeepClock DEF FollowInv
  <2>3. QED
    BY <1>1, <1>2, <2>2 DEF FollowInv
<1>3. CASE Executing
  <2>1. durable' \in {durable, disk'}
    BY <1>3 DEF Executing, Surviving
  <2>2. CASE ReduceTransition \/ ReduceResumed
    BY <1>1, <2>1, <2>2, ReducingKeepsClock
  <2>3. ReloadConfig \/ ApplyEffect \/ IgnoreEffect \/ FailEffect \/ SkipGpuRange \/ Persist
        \/ Exit => UNCHANGED state /\ disk' \in {disk, DiskImage(state)}
    BY DEF ReloadConfig, ApplyEffect, IgnoreEffect, FailEffect, SkipGpuRange, Persist, Exit
  <2>4. QED
    BY <1>2, <1>3, <2>1, <2>2, <2>3 DEF Executing, ExecutorStep
<1>4. CASE Boot
  BY <1>1, <1>4, BootKeepsClock
<1>5. QED
  <2>1. UNCHANGED vars \/ Producers => UNCHANGED <<state, disk, durable>>
    BY DEF vars, executorVars, Producers, RequestStep, Terminate, MonitorSeed,
           MonitorSeedUnread, MonitorRead, MonitorSend, ForwardResume, MissResume
  <2>2. ChargerEdge \/ Sleep \/ Crash \/ PowerCycle
          => UNCHANGED <<state, durable>> /\ disk' \in {disk, durable}
    BY DEF ChargerEdge, Sleep, Crash, PowerCycle
  <2>3. QED
    BY <1>2, <1>3, <1>4, <2>1, <2>2 DEF Next, World

\* An unlocked reset of the GPU clocks, on a state where what follows has a clock.
LEMMA ResetEndsFollow ==
  ASSUME TypeOK, FollowInv
  PROVE  ReduceTransition /\ Head(queue).op = "ResetGpuClocks" /\ ~Locked(state) /\ faults = 0
           => state'.active_gpu_clock = None /\ ~state'.gpu_follows_tdp
<1> SUFFICES ASSUME ReduceTransition, Head(queue).op = "ResetGpuClocks", ~Locked(state),
                    faults = 0
             PROVE  state'.active_gpu_clock = None /\ ~state'.gpu_follows_tdp
  OBVIOUS
<1> DEFINE t == Head(queue)
           o == ResetGpuClocks(state)
           n == o.new_state
<1>1. /\ t.op = "ResetGpuClocks" /\ t \in Transition /\ state \in ProfileState
      /\ limits \in Limits /\ config \in Config
      /\ ReduceWith(state, t, limits)
  BY DEF ReduceTransition, Receive, TypeOK
<1>2. IsLockedWrite(t) /\ UserLever(state, t, limits, config) = o
  BY <1>1 DEF IsLockedWrite, LockedWriteOps, UserLever
<1>3. OutputOK(o) /\ o.ok
  <2>1. OutputOK(o)
    BY <1>1, <1>2, UserLeverType
  <2>2. o.ok
    BY DEF ResetGpuClocks, Output
  <2>3. QED
    BY <2>1, <2>2
<1>4. n.active_gpu_clock = None /\ ~n.gpu_follows_tdp
  <2>1. CASE state.active_gpu_clock = None
    <3>1. n = state
      BY <2>1 DEF ResetGpuClocks, Output
    <3>2. None \notin Tier
      BY SelectionAssumption DEF Curve
    <3>3. ~state.gpu_follows_tdp
      BY <2>1, <3>2 DEF FollowInv, FollowsClock, Paired
    <3> HIDE DEF n
    <3>4. QED
      BY <2>1, <3>1, <3>3
  <2>2. CASE state.active_gpu_clock # None
    BY <1>1, <2>2 DEF ResetGpuClocks, Output, ProfileState
  <2>3. QED
    BY <2>1, <2>2
<1>5. state' = [n EXCEPT !.ac_locked = Locked(n)]
  <2>1. Reduce(state, t, limits, config) = Persisted(o)
    BY <1>2, ReduceArms
  <2>2. Persisted(o).new_state = n /\ Persisted(o).ok
    <3>1. Persisted(o).new_state = n
      BY <1>3, PersistedKeeps
    <3>2. Persisted(o).ok
      BY <1>3 DEF Persisted
    <3>3. QED
      BY <3>1, <3>2
  <2> HIDE DEF n, o
  <2>3. QED
    BY <1>1, <2>1, <2>2 DEF ReduceWith
<1>6. n \in ProfileState
  BY <1>3 DEF OutputOK
<1> HIDE DEF n
<1>7. QED
  BY <1>4, <1>5, <1>6 DEF ProfileState

\* As long as no write has failed, an unlocked ResetGpuClocks always leaves
\* auto-follow off and no clock recorded, after any order of presets, locks,
\* unlocks, resumes, crashes and boots.
THEOREM ResetsEndFollow == Spec => ReleaseEndsFollow
<1>1. TypeOK /\ FollowInv /\ [Next]_vars =>
        [ReduceTransition /\ Head(queue).op = "ResetGpuClocks" /\ ~Locked(state) /\ faults = 0
           => state'.active_gpu_clock = None /\ ~state'.gpu_follows_tdp]_vars
  BY ResetEndsFollow
<1>2. Spec => []TypeOK /\ []LockInv
  BY DaemonTypes, LockInvariant, PTL
<1>3. TypeOK /\ LockInv /\ FollowInv /\ [Next]_vars => FollowInv'
  BY NextFollow
<1>4. Spec => []FollowInv
  BY <1>2, <1>3, InitFollow, PTL DEF Spec
<1>5. QED
  BY <1>1, <1>2, <1>4, PTL DEF Spec, ReleaseEndsFollow
=============================================================================
