-------------------------- MODULE DaemonProperties --------------------------
(***************************************************************************)
(* What hpd promises of its levers, its AC lock, its battery snapshot, its *)
(* state file and its channel.                                             *)
(***************************************************************************)
EXTENDS Daemon

Spent == [requests : 0..MaxRequests, edges : 0..MaxEdges, sleeps : 0..MaxSleeps,
          boots : 0..MaxBoots, crashes : 0..MaxCrashes]

\* The type invariant of the daemon.
TypeOK ==
  /\ state \in ProfileState
  /\ limits \in Limits
  /\ config \in Config
  /\ queue \in Seq(Transition) /\ Len(queue) <= Capacity
  /\ effects \in Seq(Effect)
  /\ phase \in {"off", "running", "stopping"}
  /\ hw \in Hardware
  /\ disk \in ProfileState \cup {None}
  /\ ac \in BOOLEAN
  /\ faults \in 0..MaxFaults
  /\ monitor \in [up : BOOLEAN, last : BOOLEAN \cup {None}, unsent : BOOLEAN \cup {None}]
  /\ resumes \in Nat
  /\ spent \in Spent
  /\ asserted \in {"none", "changed", "all", "rolled", "overtaken"}
  /\ prefs \in DcSnapshot \cup {None}
  /\ durable \in ProfileState \cup {None}
  /\ unsaved \in BOOLEAN

-----------------------------------------------------------------------------
(* The AC lock and the battery snapshot.                                   *)

Pinned(s) ==
  /\ s.power_target = MaxEnvelope(limits, config)
  /\ s.active_profile = "Performance"
  /\ s.active_fan_curve = "Aggressive"
  /\ ~s.fan_follows_tdp
  /\ s.active_gpu_clock \in {None, "Aggressive"}

\* While AcLocked is reported, every lever is at maximum performance, whatever
\* requests were already in the channel, whichever config was reloaded and
\* however the charger, boots and resumes interleaved.  (A failed write may
\* report a lever the lock could not pin.)
LockPinsLevers == state.ac_locked /\ faults = 0 => Pinned(state)

\* A battery snapshot exists only in a locked session: one that outlived its
\* session (a reboot off the charger) is consumed by the boot's own
\* SystemResumed before any other transition, so no later unplug or toggle
\* can replay it over what the user has chosen since.
SnapshotOnlyWhileLocked ==
  phase # "off" /\ state.last_dc_state # None => Locked(state) \/ ResumeIsNext

\* Leaving the lock, by unplugging, by the toggle or across a reboot, brings
\* back exactly the levers that were published before it was entered, once a
\* snapshot was taken: no repeated plug event, resume, toggle or rollback in
\* between replaces the snapshot by forced levers.
UnlockRestoresPrefs ==
  [][ phase # "off" /\ Locked(state) /\ ~Locked(state')
        /\ state.last_dc_state # None
      => Levers(state') = prefs ]_<<state, prefs>>

\* The same whether or not a snapshot was taken, for every lock entered from
\* battery: the preferences of the battery session come back on unplug.
BatteryPrefsRestored ==
  [][ phase # "off" /\ Locked(state) /\ ~Locked(state') /\ prefs # None
      => Levers(state') = prefs ]_<<state, prefs>>

LockMode ==
  IF phase = "off" THEN "down"
  ELSE IF state.ac_locked THEN "locked"
  ELSE IF Locked(state) \/ state.last_dc_state # None THEN "settling"
  ELSE "free"

Policy ==
  INSTANCE LockPolicy WITH
    mode    <- LockMode,
    levers  <- Snapshot(state),
    kept    <- state.last_dc_state,
    ceiling <- MaxEnvelope(limits, config),
    faulty  <- faults > 0

\* The daemon as a whole implements the lock policy: no order of requests,
\* edges, toggles, resumes, corrections, crashes and boots publishes levers
\* the policy does not allow, replaces or loses the preferences it keeps, or
\* changes a locked lever but to pin it again or to correct a failed write.
FollowsPolicy == Policy!Spec

-----------------------------------------------------------------------------
(* State against hardware.                                                 *)

GpuMatches ==
  CASE state.active_gpu_clock = None      -> hw.gpu = None
    [] state.active_gpu_clock = Unmanaged -> hw.gpu # None
    [] OTHER                              -> hw.gpu = state.active_gpu_clock

\* What D-Bus reports is what the backends would read back.
ReportedMatches ==
  /\ WrittenEnvelope(hw.envelope, state.power_target) = hw.envelope
  /\ "profile" \in Capability => hw.profile = state.active_profile
  /\ "charge" \in Capability => hw.charge = state.charge_end_threshold
  /\ "curve" \in Capability => hw.curve = state.active_fan_curve

\* The same of every lever that is reported as set.
SetLeversMatch ==
  /\ WrittenEnvelope(hw.envelope, state.power_target) = hw.envelope
  /\ "profile" \in Capability => hw.profile = state.active_profile
  /\ "charge" \in Capability => hw.charge = state.charge_end_threshold
  /\ "curve" \in Capability /\ state.active_fan_curve # None =>
       hw.curve = state.active_fan_curve
  /\ "gpu" \in Capability /\ state.active_gpu_clock # None => GpuMatches

\* Between transitions, after a boot or a resume that rewrote every lever and
\* until something fails or the machine sleeps again, the device runs what is
\* reported, unset fan curves included, for a daemon in which no write failed
\* and no crash came between a write and its PersistState.
ReassertConverges ==
  Idle /\ asserted = "all" /\ faults = 0 /\ spent.crashes = 0 => ReportedMatches

\* A rollback that was dropped is made up for by the next boot or resume: the
\* device then runs every lever that is reported as set, whatever failed or
\* crashed before, and the controller enforces the envelope: no effect list
\* writes a profile without writing the envelope and the curve again after it.
SetLeversReconcile == Idle /\ asserted = "all" => SetLeversMatch /\ hw.enforced

\* The GPU clock part of ReassertConverges, released clocks included.
GpuConverges ==
  Idle /\ asserted = "all" /\ spent.crashes = 0 /\ faults = 0 /\ "gpu" \in Capability
    => GpuMatches

\* ResetGpuClocks always ends auto-follow as long as no write has failed, also
\* where it finds no clock to release and does nothing: no resume, lock,
\* unlock or reboot leaves a lever that follows the envelope without a clock.
\* (A first GPU write that fails and is rolled back does leave that pair, and
\* auto-follow then survives the reset.)
ReleaseEndsFollow ==
  [][ ReduceTransition /\ Head(queue).op = "ResetGpuClocks" /\ ~Locked(state) /\ faults = 0
      => state'.active_gpu_clock = None /\ ~state'.gpu_follows_tdp ]_vars

Settled == Idle /\ Syncs(queue) = {}

\* After a failed write that nothing overtakes (its rollback is next in the
\* channel and no later effect of its transition writes the same part), the report
\* converges to what the device was left running, half-written rails, mixed
\* curves and released GPU clocks included; where it was the first failure, so
\* do the levers that are reported as unset.
RollbackConverges ==
  Settled /\ asserted = "rolled" =>
    /\ SetLeversMatch
    /\ faults = 1 /\ spent.crashes = 0 =>
         ReportedMatches /\ ("gpu" \in Capability => GpuMatches)

\* The same when other transitions were already in the channel, or a later
\* effect of the same transition repeats the write: the late correction does
\* not replace the report of what was written since.
OvertakenRollbackConverges == Settled /\ asserted = "overtaken" => ReportedMatches

-----------------------------------------------------------------------------
(* The state file.                                                         *)

\* Boot overrides the profile, and the curve when none was stored.
SameOnDisk(s) ==
  LET d == [disk EXCEPT !.active_profile = s.active_profile,
                        !.active_fan_curve = IF @ = None THEN s.active_fan_curve ELSE @]
  IN  d = DiskImage(s)

\* Between transitions nothing the user changed is held in memory only: a
\* crash of the daemon loses at most the transition it interrupts.  (A power
\* cut may bring an older file back, which the boot after it then follows.)
IdleIsDurable == Idle /\ faults = 0 /\ disk # None => SameOnDisk(state)

\* A SIGTERM that is processed leaves state.toml with everything reported at
\* that moment, the corrections of writes that failed before included, which
\* no effect of their own persists; only a save that itself fails excuses it.
ShutdownFlushes ==
  [][ phase = "stopping" /\ phase' = "off" /\ spent' = spent /\ ~unsaved
      => disk = DiskImage(state) ]_<<phase, disk>>

-----------------------------------------------------------------------------
(* Progress.                                                               *)

\* A full channel always drains, failures included: the executor, the only
\* consumer, never waits for room in its own channel.
ChannelDrains == (phase # "off" /\ ~Room) ~> (phase = "off" \/ Room)

\* Every resume the suspend monitor is told of is re-asserted on the device,
\* however full the channel is when the signal arrives.
ResumeReasserts ==
  (phase = "running" /\ asserted = "none" /\ faults = 0)
    ~> (phase # "running" \/ asserted # "none" \/ faults > 0)

\* Once the charger is left alone, the daemon ends up on the right side of the
\* AC lock: boots, resumes and edges that race do not lose the last edge.
ChargerFollowed == <>[](phase = "off" \/ state.is_ac_connected = ac)
=============================================================================
