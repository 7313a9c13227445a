------------------------------ MODULE MCSensors ------------------------------
(* Instances of the telemetry calls for TLC: a temperature, whose driver may *)
(* trade places with another one, and the CPU load.                          *)
EXTENDS Sensors, TLC

CONSTANTS amdgpu, asus

Gpu == <<"thermal", amdgpu>>

MCSensors == {Gpu}
MCReads == {<<Gpu, CpuBusy>>, <<CpuBusy>>}

CallerSymmetry == Permutations(Caller)
=============================================================================
