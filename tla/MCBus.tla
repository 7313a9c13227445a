------------------------------- MODULE MCBus -------------------------------
(* Instances of the D-Bus service for TLC.                                 *)
EXTENDS Bus, TLC

\* One of each shape: gated and not, checked before polkit, after, or never,
\* one grant or three.  Clients are interchangeable.
MCSetters ==
  {"set_spl", "set_profile", "set_charge_threshold", "set_ac_max_performance",
   "restore_defaults"}

MCSymmetry == Permutations(Client)
=============================================================================
