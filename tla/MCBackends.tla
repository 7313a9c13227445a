----------------------------- MODULE MCBackends -----------------------------
(* The backends of the ROG Xbox Ally X with a two-point fan table.  The    *)
(* targets are not whole watts, and one has no FPPT.                       *)
EXTENDS Backends

MCRange == [spl_min |-> 7000, spl_max |-> 35000, sppt_min |-> 13000,
            sppt_max |-> 43000, fppt_min |-> 19000, fppt_max |-> 53000]

MCCalls ==
  {ApplyPowerEnvelope([spl |-> 15000, sppt |-> 17250, fppt |-> 19000]),
   ApplyPowerEnvelope([spl |-> 20000, sppt |-> 23000, fppt |-> NoFppt]),
   ApplyChargeThreshold(60), ResetFanCurveEffect, ResetGpuClocksEffect,
   PersistState}
  \cup {ApplyPlatformProfile(p) : p \in {"PowerSaver", "turbo"}}
  \cup {ApplyFanCurve(c) : c \in {"Silent", "mine", "steep"}}
  \cup {ApplyGpuClockRange(t) : t \in {"Silent", "Aggressive"}}
=============================================================================
