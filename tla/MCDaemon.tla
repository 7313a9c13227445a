------------------------------ MODULE MCDaemon ------------------------------
(* Instances of the daemon for TLC.  The limits are those of the ROG Xbox  *)
(* Ally X (RC73XA), in milliwatts.                                         *)
EXTENDS DaemonProperties

Rc73xa == [spl_min |-> 7000, spl_max |-> 35000, sppt_min |-> 13000,
           sppt_max |-> 43000, fppt_min |-> 19000, fppt_max |-> 53000]

\* The same device after a firmware update that lowers the ceilings.
Rc73xaCapped == [Rc73xa EXCEPT !.spl_max = 30000, !.sppt_max = 40000]

MCOneLimit == {Rc73xa}
MCTwoLimits == {Rc73xa, Rc73xaCapped}

MCFactoryEnvelope == [spl |-> 17000, sppt |-> 25000, fppt |-> 30000]

MCConfig == DefaultConfig
BoostedConfig == [DefaultConfig EXCEPT !.sppt_factor = 130, !.fppt_factor = 150]

Op(op) == [op |-> op]
Preset(p) == [op |-> "SetPreset", preset |-> p]
Profiled(p) == [op |-> "SetProfile", profile |-> p]
Lock(b) == [op |-> "SetAcMaxPerformance", enabled |-> b]

\* Every kind of client request once or twice.
AllRequests ==
  {Preset("Eco"), Preset("Max"), Profiled("PowerSaver"), Profiled("turbo"),
   [op |-> "SetSpl", watts |-> 15], [op |-> "SetSpl", watts |-> 60],
   [op |-> "SetEnvelope",
    target |-> [spl |-> 20000, sppt |-> 22000, fppt |-> NoFppt]],
   [op |-> "SetCoolingLevel", curve |-> "Silent"],
   [op |-> "SetCustomFanCurve", curve |-> "mine"],
   [op |-> "ChargeThresholdChanged", charge |-> 60],
   [op |-> "ConfigReload", config |-> BoostedConfig],
   Lock(TRUE), Lock(FALSE)}
  \cup {Op(o) : o \in {"EnableFanAuto", "ResetFanCurve", "EnableGpuAutoFollow",
                       "ResetGpuClocks", "RestoreDefaults"}}

\* The requests the AC lock interacts with.
LockRequests ==
  {Preset("Eco"), Profiled("PowerSaver"), Lock(TRUE), Lock(FALSE),
   Op("EnableGpuAutoFollow"), Op("ResetFanCurve"),
   [op |-> "ConfigReload", config |-> BoostedConfig]}

FewRequests == {Preset("Eco"), Preset("Max"), Lock(FALSE)}

OneRequest == {Preset("Eco")}
GpuRequests == {Op("EnableGpuAutoFollow")}
=============================================================================
