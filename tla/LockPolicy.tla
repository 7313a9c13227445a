----------------------------- MODULE LockPolicy -----------------------------
(***************************************************************************)
(* What a user is told of the AC lock, without the channel, the device,    *)
(* the file and the charger: the daemon is down, settling after a start,   *)
(* free or locked, and only a few steps may change the published levers.   *)
(* Daemon implements it (DaemonProperties!FollowsPolicy).                  *)
(***************************************************************************)
EXTENDS Reducer

VARIABLES
  mode,     \* "down", "settling", "free" or "locked"
  levers,   \* the published power and cooling levers
  kept,     \* the battery preferences to bring back, or None
  ceiling,  \* the envelope the lock pins
  faulty    \* has any operation failed yet

policyVars == <<mode, levers, kept, ceiling, faulty>>

Forced(l, e) ==
  /\ l.power_target = e
  /\ l.active_profile = "Performance"
  /\ l.active_fan_curve = "Aggressive"
  /\ ~l.fan_follows_tdp
  /\ l.active_gpu_clock \in {None, "Aggressive"}

\* A GPU clock of no tier was never a choice.
Choice(l) == [l EXCEPT !.active_gpu_clock = IF @ \in Tier THEN @ ELSE None]

-----------------------------------------------------------------------------
Init == mode = "down" /\ kept = None /\ levers \in DcSnapshot /\ ~faulty

\* Levers and preferences come from the file or the device.
Start ==
  /\ mode = "down"
  /\ levers' \in DcSnapshot
  /\ \/ mode' = "free" /\ kept' = None
     \/ mode' = "settling" /\ kept' \in DcSnapshot \cup {None}

Stop == mode # "down" /\ mode' = "down" /\ UNCHANGED <<levers, kept, ceiling>>

\* Without a lock the user, or what boots and resumes clean up, may change
\* any lever.
Choose ==
  /\ mode = "free"
  /\ levers' \in DcSnapshot
  /\ UNCHANGED <<mode, kept>>

\* Plugging in or the toggle keeps the preferences of that moment; a resume
\* that finds the charger has none to keep.
Lock ==
  /\ mode = "free"
  /\ mode' = "locked"
  /\ Forced(levers', ceiling')
  /\ kept' \in {levers, None}

\* The first resume after a start goes on with what the last daemon kept.
LockAgain ==
  /\ mode = "settling"
  /\ mode' = "locked"
  /\ Forced(levers', ceiling')
  /\ UNCHANGED kept

\* A resume pins the levers again, to the limits it has just read.
Repin ==
  /\ mode = "locked"
  /\ Forced(levers', ceiling')
  /\ UNCHANGED <<mode, kept>>

\* By unplugging, by the toggle or by a resume that finds no charger.
Unlock ==
  /\ mode \in {"locked", "settling"}
  /\ mode' = "free"
  /\ kept # None => Choice(levers') = Choice(kept)
  /\ levers' \in DcSnapshot
  /\ kept' = None

\* The report follows a write that failed.
Correct ==
  /\ mode \in {"free", "locked"}
  /\ faulty
  /\ levers' \in DcSnapshot
  /\ UNCHANGED <<mode, kept, ceiling>>

Break == faulty' /\ UNCHANGED <<mode, levers, kept, ceiling>>

Next ==
  /\ \/ Start \/ Stop \/ Choose \/ Lock \/ LockAgain \/ Repin \/ Unlock
     \/ Correct \/ Break
  /\ faulty => faulty'

Spec == Init /\ [][Next]_policyVars
=============================================================================
