---------------------------- MODULE DeviceCalls ----------------------------
(***************************************************************************)
(* What the executor is promised of one backend call: it either succeeds   *)
(* and leaves the device written, or fails and leaves it in one of a few   *)
(* known states, and nothing else happens to the device meanwhile.  The    *)
(* executor's ApplyEffect, FailEffect and Crash are these steps.           *)
(***************************************************************************)
EXTENDS Devices

CONSTANT Calls    \* the effects the backends are called with

NoCall == [op |-> "none"]

VARIABLES
  hw,       \* the device, as it was when the call in progress began
  call,     \* the effect being applied, or NoCall
  outcome   \* how the last call ended

deviceVars == <<hw, call, outcome>>

Init == hw \in Hardware /\ call = NoCall /\ outcome = "ok"

Begin == call = NoCall /\ call' \in Calls /\ UNCHANGED <<hw, outcome>>

Ends(how, outcomes) ==
  /\ call # NoCall
  /\ outcome' = how
  /\ hw' \in IF call = PersistState THEN {hw} ELSE outcomes
  /\ call' = NoCall

Succeed == Ends("ok", Written(hw, call))

\* A save that fails is logged and ends like one that succeeds.
Fail == call # PersistState /\ Ends("error", HalfWritten(hw, call))

Die == Ends("crash", Written(hw, call) \cup HalfWritten(hw, call))

\* Power lost between calls ends a call that is not there.
LosePower == call = NoCall /\ outcome' = "crash" /\ UNCHANGED <<hw, call>>

\* Between calls the controller may lose the envelope and the curve.
Lose == call = NoCall /\ hw' = DropsControl(hw) /\ UNCHANGED <<call, outcome>>

Next == Begin \/ Succeed \/ Fail \/ Die \/ Lose \/ LosePower

Spec == Init /\ [][Next]_deviceVars
=============================================================================
