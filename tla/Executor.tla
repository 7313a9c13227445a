------------------------------ MODULE Executor ------------------------------
(***************************************************************************)
(* The executor of hpd-core: one task that drains the bounded transition   *)
(* channel, reduces each transition, publishes the new state and only then *)
(* dispatches its hardware effects one by one.  A failed write is rolled   *)
(* back by reading the hardware and enqueueing a Sync* transition on the   *)
(* tail of the executor's own channel.                                     *)
(*                                                                         *)
(* hw is the device as the backends write and read it (Devices).           *)
(***************************************************************************)
EXTENDS Devices

CONSTANTS
  Capacity,      \* channel capacity, 32 in the code
  Capability,    \* optional capabilities this backend exposes
  DeviceLimits,  \* ranges the firmware may advertise
  MaxFaults      \* bound on hardware and disk operations that fail

AllCapabilities == {"profile", "charge", "curve", "gpu"}

ASSUME ExecutorAssumption ==
  /\ Capacity \in Nat \ {0}
  /\ Capability \subseteq AllCapabilities
  /\ DeviceLimits \subseteq Limits
  /\ MaxFaults \in Nat
  /\ None \notin ProfileState

VARIABLES
  state,    \* the published ProfileState (watch channel)
  limits,   \* device_limits, cached at start, re-read on resume
  config,   \* RuntimeConfig, swapped by ConfigReload
  queue,    \* the bounded mpsc channel of transitions
  effects,  \* effects of the current transition still to dispatch
  phase,    \* "off", "running", or "stopping" once Shutdown is reduced
  hw,       \* the device
  disk,     \* state.toml, or None
  ac,       \* is the charger physically plugged in
  faults    \* failed operations so far

executorVars == <<state, limits, config, queue, effects, phase, hw, disk, ac, faults>>

\* #[serde(skip)] drops the two AC flags.
DiskImage(s) == [s EXCEPT !.is_ac_connected = FALSE, !.ac_locked = FALSE]

Idle == phase = "running" /\ effects = <<>>

Room == Len(queue) < Capacity

Faults(n) == faults + n <= MaxFaults /\ faults' = faults + n

Fault == Faults(1)

-----------------------------------------------------------------------------
(* Receiving a transition.                                                 *)

Receive == Idle /\ queue # <<>> /\ queue' = Tail(queue)

ReloadConfig ==
  /\ Receive
  /\ Head(queue).op = "ConfigReload"
  /\ config' = Head(queue).config
  /\ UNCHANGED <<state, limits, effects, phase, hw, disk, ac, faults>>

\* Publish first, dispatch after.  A rejected transition is only logged.
ReduceWith(s, t, lim) ==
  LET o == Reduce(s, t, lim, config) IN
  /\ state' = IF o.ok THEN [o.new_state EXCEPT !.ac_locked = Locked(o.new_state)]
              ELSE state
  /\ effects' = o.effects
  /\ phase' = IF t.op = "Shutdown" THEN "stopping" ELSE phase

ReduceTransition ==
  /\ Receive
  /\ Head(queue).op \notin {"ConfigReload", "SystemResumed"}
  /\ ReduceWith(state, Head(queue), limits)
  /\ UNCHANGED <<limits, config, hw, disk, ac, faults>>

\* Mutated ReduceResumed: reduces with the limits of before the re-read.
ReduceResumedOldLimits ==
  /\ Receive
  /\ Head(queue).op = "SystemResumed"
  /\ \E missed \in SUBSET {"ac", "limits"} :
       LET ac_known == "charge" \in Capability /\ "ac" \notin missed IN
       /\ IF missed = {} THEN UNCHANGED faults ELSE Fault
       /\ limits' = IF "limits" \in missed THEN limits ELSE hw.limits
       /\ ReduceWith([state EXCEPT !.is_ac_connected = IF ac_known THEN ac ELSE @],
                     Head(queue), limits)
  /\ UNCHANGED <<config, hw, disk, ac>>

\* Boot and resume trust the hardware over the cached AC state and limits;
\* where a read fails (or there is no charge capability to ask) the cached
\* value stands.
ReduceResumed ==
  /\ Receive
  /\ Head(queue).op = "SystemResumed"
  /\ \E missed \in SUBSET {"ac", "limits"} :
       LET ac_known == "charge" \in Capability /\ "ac" \notin missed IN
       /\ IF missed = {} THEN UNCHANGED faults ELSE Fault
       /\ limits' = IF "limits" \in missed THEN limits ELSE hw.limits
       /\ ReduceWith([state EXCEPT !.is_ac_connected = IF ac_known THEN ac ELSE @],
                     Head(queue), limits')
  /\ UNCHANGED <<config, hw, disk, ac>>

-----------------------------------------------------------------------------
(* Dispatching one effect.                                                 *)

RequiredCapability(e) ==
  CASE e.op = "ApplyPlatformProfile"                   -> {"profile"}
    [] e.op = "ApplyChargeThreshold"                   -> {"charge"}
    [] e.op \in {"ApplyFanCurve", "ResetFanCurve"}       -> {"curve"}
    [] e.op \in {"ApplyGpuClockRange", "ResetGpuClocks"} -> {"gpu"}
    [] OTHER                                           -> {}

Dispatch == phase # "off" /\ effects # <<>> /\ effects' = Tail(effects)

Current == Head(effects)

Supported == RequiredCapability(Current) \subseteq Capability

ApplyEffect ==
  /\ Dispatch
  /\ Current.op # "PersistState"
  /\ Supported
  /\ hw' \in Written(hw, Current)
  /\ UNCHANGED <<state, limits, config, queue, phase, disk, ac, faults>>

\* Mutated IgnoreEffect: a missing capability gives up on the other effects.
IgnoreRemainingEffects ==
  /\ phase # "off"
  /\ effects # <<>>
  /\ effects' = <<>>
  /\ ~Supported
  /\ UNCHANGED <<state, limits, config, queue, phase, hw, disk, ac, faults>>

IgnoreEffect ==
  /\ Dispatch
  /\ ~Supported
  /\ UNCHANGED <<state, limits, config, queue, phase, hw, disk, ac, faults>>

\* Mutated FailEffect: rolls back to what was read before the write.
FailEffectStaleRead ==
  /\ Dispatch
  /\ Current.op # "PersistState"
  /\ Supported
  /\ hw' \in HalfWritten(hw, Current)
  /\ Fault
  /\ queue' = IF Room THEN Append(queue, SyncOf(hw, Current)) ELSE queue
  /\ UNCHANGED <<state, limits, config, phase, disk, ac>>

\* Mutated FailEffect: send().await instead of try_send.
FailEffectBlocking ==
  /\ phase # "off"
  /\ effects # <<>>
  /\ Current.op # "PersistState"
  /\ Supported
  /\ hw' \in HalfWritten(hw, Current)
  /\ Fault
  /\ IF Room
     THEN /\ effects' = Tail(effects)
          /\ queue' = Append(queue, SyncOf(hw', Current))
          /\ UNCHANGED phase
     ELSE effects' = <<>> /\ phase' = "blocked" /\ UNCHANGED queue
  /\ UNCHANGED <<state, limits, config, disk, ac>>

\* try_send: a full channel drops the rollback.  So does a device that can
\* not be read back either, a second failed operation.
FailEffect ==
  /\ Dispatch
  /\ Current.op # "PersistState"
  /\ Supported
  /\ hw' \in HalfWritten(hw, Current)
  /\ \/ /\ Faults(1)
        /\ queue' = IF Room THEN Append(queue, SyncOf(hw', Current)) ELSE queue
     \/ Faults(2) /\ UNCHANGED queue
  /\ UNCHANGED <<state, limits, config, phase, disk, ac>>

\* The live GPU clock constraints cannot be read: skipped, no rollback.
SkipGpuRange ==
  /\ Dispatch
  /\ Current.op = "ApplyGpuClockRange"
  /\ Supported
  /\ Fault
  /\ UNCHANGED <<state, limits, config, queue, phase, hw, disk, ac>>

\* Errors of save are logged and swallowed; the old file then stands.
Persist ==
  /\ Dispatch
  /\ Current.op = "PersistState"
  /\ \/ disk' = DiskImage(state) /\ UNCHANGED faults
     \/ Fault /\ UNCHANGED disk
  /\ UNCHANGED <<state, limits, config, queue, phase, hw, ac>>

\* Mutated Exit: the loop breaks before Shutdown's effects are dispatched.
ExitBeforeDispatch ==
  /\ phase = "stopping"
  /\ effects' = <<>>
  /\ phase' = "off"
  /\ queue' = <<>>
  /\ UNCHANGED <<state, limits, config, hw, disk, ac, faults>>

\* After Shutdown's effects the loop breaks and the channel is dropped.
Exit ==
  /\ phase = "stopping"
  /\ effects = <<>>
  /\ phase' = "off"
  /\ queue' = <<>>
  /\ UNCHANGED <<state, limits, config, effects, hw, disk, ac, faults>>

ExecutorStep ==
  \/ ReloadConfig \/ ReduceTransition \/ ReduceResumed
  \/ ApplyEffect \/ IgnoreEffect \/ FailEffect \/ SkipGpuRange \/ Persist
  \/ Exit

-----------------------------------------------------------------------------
\* Mutated Send: an unbounded channel.
SendUnbounded(t) == phase # "off" /\ queue' = Append(queue, t)

\* A producer's blocking send: waits for room in the channel.
Send(t) == phase # "off" /\ Room /\ queue' = Append(queue, t)
=============================================================================
