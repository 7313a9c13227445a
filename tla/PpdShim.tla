------------------------------ MODULE PpdShim ------------------------------
(***************************************************************************)
(* The power-profiles-daemon shim of hpd-dbus: profile holds taken and     *)
(* released over D-Bus, the task that cancels them when something else     *)
(* changed the profile, and the task that releases those of a client that  *)
(* left the bus.  They share the holds and the profile to restore, each    *)
(* behind its own async mutex, and send on the executor's channel.         *)
(*                                                                         *)
(* Of the executor only what the shim can see is kept: it applies requests *)
(* in order, ignores SetProfile under the AC lock, and publishes its state *)
(* after every accepted request, whether or not the profile changed.       *)
(***************************************************************************)
EXTENDS Naturals, Sequences, FiniteSets

CONSTANTS
  Client,        \* bus connections that call the shim
  None,          \* Option::None
  Capacity,      \* capacity of the executor's channel, 32 in the code
  DefaultProfile, \* the profile the daemon boots with
  Others,        \* kinds of requests from outside the shim
  MaxHolds,      \* bound on HoldProfile calls
  MaxOthers      \* bound on ActiveProfile writes and outside requests

Watcher == "watcher"

HeldProfile == {"PowerSaver", "Performance"}
Profile == HeldProfile \cup {"Balanced"}

OtherKind == {"Unrelated", "AcEdge"}

ASSUME ShimAssumption ==
  /\ Watcher \notin Client
  /\ None \notin Profile
  /\ Capacity \in Nat \ {0}
  /\ DefaultProfile \in Profile
  /\ {MaxHolds, MaxOthers} \subseteq Nat
  /\ Others \subseteq OtherKind

VARIABLES
  active,      \* active_profile of the published state
  locked,      \* is the AC lock on
  battery,     \* the profile unplugging brings back
  queue,       \* the executor's channel
  fresh,       \* a publication the reconciler has not seen
  holds,       \* Shared::holds
  snapshot,    \* Shared::pre_hold_profile
  nextCookie,  \* Shared::next_cookie
  task,        \* where each call, and the disconnect watcher, stands
  reconciler,  \* where the override reconciler stands
  connected,   \* clients on the bus
  gone,        \* NameOwnerChanged signals not yet handled
  spent,       \* ActiveProfile writes and outside requests so far
  ended        \* history: cookies released and cookies cancelled

executorVars == <<active, locked, battery, queue>>
sharedVars == <<holds, snapshot, nextCookie>>
busVars == <<connected, gone>>
vars == <<executorVars, fresh, sharedVars, task, reconciler, busVars, spent, ended>>

Task == Client \cup {Watcher}

Hold == [cookie : Nat, profile : HeldProfile, holder : Client]

TaskState ==
  [pc : {"idle", "restoring"}]
  \cup [pc : {"holding"}, cookie : Nat, profile : HeldProfile, seen : Profile]
  \cup [pc : {"sending"}, profile : Profile]
  \cup [pc : {"restored"}, profile : Profile]

Idle == [pc |-> "idle"]
Sending(p) == [pc |-> "sending", profile |-> p]

SetProfile(p) == [op |-> "SetProfile", profile |-> p]

Request ==
  [op : {"SetProfile"}, profile : Profile]
  \cup [op : {"Unrelated", "AcEdge"}]

Room == Len(queue) < Capacity

\* power-saver outranks performance; None when nothing is held.
Effective(hs) ==
  IF \E h \in hs : h.profile = "PowerSaver" THEN "PowerSaver"
  ELSE IF \E h \in hs : h.profile = "Performance" THEN "Performance"
  ELSE None

\* The restored profile is sent with the mutex of the snapshot still held.
SnapshotFree == \A t \in Task : task[t].pc # "restored"

-----------------------------------------------------------------------------
(* Calls.                                                                  *)

\* Mutated HoldProfile: cookies are numbered by the length of the stack.
HoldProfileStackCookie(c, p) ==
  /\ c \in connected
  /\ task[c].pc = "idle"
  /\ nextCookie <= MaxHolds
  /\ task' = [task EXCEPT ![c] = [pc |-> "holding", cookie |-> Cardinality(holds) + 1,
                                  profile |-> p, seen |-> active]]
  /\ nextCookie' = nextCookie + 1
  /\ UNCHANGED <<executorVars, fresh, holds, snapshot, reconciler, busVars, spent, ended>>

\* HoldProfile reads the published profile and takes a cookie before it
\* waits for the locks.
HoldProfile(c, p) ==
  /\ c \in connected
  /\ task[c].pc = "idle"
  /\ nextCookie <= MaxHolds
  /\ task' = [task EXCEPT ![c] = [pc |-> "holding", cookie |-> nextCookie,
                                  profile |-> p, seen |-> active]]
  /\ nextCookie' = nextCookie + 1
  /\ UNCHANGED <<executorVars, fresh, holds, snapshot, reconciler, busVars, spent, ended>>

\* Mutated RegisterHold: only the first hold of a stack applies its profile.
RegisterHoldFirstOnly(c) ==
  /\ task[c].pc = "holding"
  /\ SnapshotFree
  /\ holds' = holds \cup {[cookie |-> task[c].cookie, profile |-> task[c].profile,
                           holder |-> c]}
  /\ snapshot' = IF holds = {} THEN task[c].seen ELSE snapshot
  /\ task' = [task EXCEPT ![c] = IF holds = {} THEN Sending(Effective(holds'))
                                 ELSE Idle]
  /\ UNCHANGED <<executorVars, fresh, nextCookie, reconciler, busVars, spent, ended>>

RegisterHold(c) ==
  /\ task[c].pc = "holding"
  /\ SnapshotFree
  /\ holds' = holds \cup {[cookie |-> task[c].cookie, profile |-> task[c].profile,
                           holder |-> c]}
  /\ snapshot' = IF holds = {} THEN task[c].seen ELSE snapshot
  /\ task' = [task EXCEPT ![c] = Sending(Effective(holds'))]
  /\ UNCHANGED <<executorVars, fresh, nextCookie, reconciler, busVars, spent, ended>>

\* A voluntary release or a disconnect: what is left of the stack is applied
\* again, and a drained stack restores the snapshot.
RemoveHolds(t, removed) ==
  /\ holds' = holds \ removed
  /\ task' = [task EXCEPT ![t] =
       IF removed = {} THEN Idle
       ELSE IF holds' = {} THEN [pc |-> "restoring"]
       ELSE Sending(Effective(holds'))]
  /\ ended' = [ended EXCEPT !.released = @ \cup {h.cookie : h \in removed}]

\* Any client may release any cookie, an unknown one included.
ReleaseProfile(c, cookie) ==
  /\ c \in connected
  /\ task[c].pc = "idle"
  /\ RemoveHolds(c, {h \in holds : h.cookie = cookie})
  /\ UNCHANGED <<executorVars, fresh, snapshot, nextCookie, reconciler, busVars, spent>>

SetActiveProfile(c, p) ==
  /\ c \in connected
  /\ task[c].pc = "idle"
  /\ spent < MaxOthers
  /\ spent' = spent + 1
  /\ task' = [task EXCEPT ![c] = Sending(p)]
  /\ UNCHANGED <<executorVars, fresh, sharedVars, reconciler, busVars, ended>>

\* Mutated SendProfile: an unbounded channel.
SendProfileUnbounded(t) ==
  /\ task[t].pc = "sending"
  /\ queue' = Append(queue, SetProfile(task[t].profile))
  /\ task' = [task EXCEPT ![t] = Idle]
  /\ UNCHANGED <<active, locked, battery, fresh, sharedVars, reconciler, busVars, spent, ended>>

SendProfile(t) ==
  /\ task[t].pc = "sending"
  /\ Room
  /\ queue' = Append(queue, SetProfile(task[t].profile))
  /\ task' = [task EXCEPT ![t] = Idle]
  /\ UNCHANGED <<active, locked, battery, fresh, sharedVars, reconciler, busVars, spent, ended>>

TakeSnapshot(t) ==
  /\ task[t].pc = "restoring"
  /\ SnapshotFree
  /\ snapshot' = None
  /\ task' = [task EXCEPT ![t] = IF snapshot = None THEN Idle
                                 ELSE [pc |-> "restored", profile |-> snapshot]]
  /\ UNCHANGED <<executorVars, fresh, holds, nextCookie, reconciler, busVars, spent, ended>>

SendRestored(t) ==
  /\ task[t].pc = "restored"
  /\ Room
  /\ queue' = Append(queue, SetProfile(task[t].profile))
  /\ task' = [task EXCEPT ![t] = Idle]
  /\ UNCHANGED <<active, locked, battery, fresh, sharedVars, reconciler, busVars, spent, ended>>

-----------------------------------------------------------------------------
(* The holder-disconnect watcher.  A call of a client that leaves is still  *)
(* carried out: each runs as a task of its own.                            *)

Disconnect(c) ==
  /\ c \in connected
  /\ connected' = connected \ {c}
  /\ gone' = Append(gone, c)
  /\ UNCHANGED <<executorVars, fresh, sharedVars, task, reconciler, spent, ended>>

HolderDisconnected ==
  /\ task[Watcher].pc = "idle"
  /\ gone # <<>>
  /\ gone' = Tail(gone)
  /\ RemoveHolds(Watcher, {h \in holds : h.holder = Head(gone)})
  /\ UNCHANGED <<executorVars, fresh, snapshot, nextCookie, reconciler, connected, spent>>

-----------------------------------------------------------------------------
(* The external-override reconciler: borrow the published profile, peek at *)
(* what the holds ask for, remove them all, forget the snapshot, signal.   *)
(* The two mutexes are taken one after the other and each is its own step. *)

BorrowState ==
  /\ reconciler.pc = "waiting"
  /\ fresh
  /\ fresh' = FALSE
  /\ reconciler' = [pc |-> "borrowed", current |-> active]
  /\ UNCHANGED <<executorVars, sharedVars, task, busVars, spent, ended>>

PeekExpected ==
  /\ reconciler.pc = "borrowed"
  /\ reconciler' = IF Effective(holds) \in {None, reconciler.current}
                   THEN [pc |-> "waiting"] ELSE [pc |-> "cancelling"]
  /\ UNCHANGED <<executorVars, fresh, sharedVars, task, busVars, spent, ended>>

\* Mutated CancelHolds: leaves the snapshot for the next release to restore.
CancelHoldsOnly ==
  /\ reconciler.pc = "cancelling"
  /\ holds' = {}
  /\ ended' = [ended EXCEPT !.cancelled = @ \cup {h.cookie : h \in holds}]
  /\ reconciler' = [pc |-> "waiting"]
  /\ UNCHANGED <<executorVars, fresh, snapshot, nextCookie, task, busVars, spent>>

CancelHolds ==
  /\ reconciler.pc = "cancelling"
  /\ holds' = {}
  /\ ended' = [ended EXCEPT !.cancelled = @ \cup {h.cookie : h \in holds}]
  /\ reconciler' = [pc |-> "clearing"]
  /\ UNCHANGED <<executorVars, fresh, snapshot, nextCookie, task, busVars, spent>>

\* ProfileReleased is emitted after this, for each cookie cancelled.
ClearSnapshot ==
  /\ reconciler.pc = "clearing"
  /\ SnapshotFree
  /\ snapshot' = None
  /\ reconciler' = [pc |-> "waiting"]
  /\ UNCHANGED <<executorVars, fresh, holds, nextCookie, task, busVars, spent, ended>>

-----------------------------------------------------------------------------
(* The executor and its other clients.                                     *)

\* Unplugging restores the profile from before the lock, plugging forces
\* maximum performance and user writes are ignored in between.
Reduced(r) ==
  CASE r.op = "Unrelated"  -> [active |-> active, locked |-> locked, battery |-> battery]
    [] r.op = "SetProfile" -> [active |-> IF locked THEN active ELSE r.profile,
                               locked |-> locked, battery |-> battery]
    [] r.op = "AcEdge"     -> [active |-> IF locked THEN battery ELSE "Performance",
                               locked |-> ~locked,
                               battery |-> IF locked THEN battery ELSE active]

Execute ==
  /\ queue # <<>>
  /\ queue' = Tail(queue)
  /\ active' = Reduced(Head(queue)).active
  /\ locked' = Reduced(Head(queue)).locked
  /\ battery' = Reduced(Head(queue)).battery
  /\ fresh' = TRUE
  /\ UNCHANGED <<sharedVars, task, reconciler, busVars, spent, ended>>

OtherTraffic ==
  /\ Room
  /\ spent < MaxOthers
  /\ spent' = spent + 1
  /\ \E kind \in Others : queue' = Append(queue, [op |-> kind])
  /\ UNCHANGED <<active, locked, battery, fresh, sharedVars, task, reconciler, busVars, ended>>

-----------------------------------------------------------------------------
Init ==
  /\ locked \in BOOLEAN
  /\ active = IF locked THEN "Performance" ELSE DefaultProfile
  /\ battery = DefaultProfile
  /\ queue = <<>>
  /\ fresh = FALSE
  /\ holds = {}
  /\ snapshot = None
  /\ nextCookie = 1
  /\ task = [t \in Task |-> Idle]
  /\ reconciler = [pc |-> "waiting"]
  /\ connected = Client
  /\ gone = <<>>
  /\ spent = 0
  /\ ended = [released |-> {}, cancelled |-> {}]

Call(c) ==
  \/ \E p \in HeldProfile : HoldProfile(c, p)
  \/ \E cookie \in 1..MaxHolds : ReleaseProfile(c, cookie)
  \/ \E p \in Profile : SetActiveProfile(c, p)
  \/ Disconnect(c)

TaskStep(t) == SendProfile(t) \/ TakeSnapshot(t) \/ SendRestored(t)

Reconcile == BorrowState \/ PeekExpected \/ CancelHolds \/ ClearSnapshot

Next ==
  \/ \E c \in Client : Call(c) \/ RegisterHold(c)
  \/ \E t \in Task : TaskStep(t)
  \/ HolderDisconnected
  \/ Reconcile
  \/ Execute
  \/ OtherTraffic

Spec == Init /\ [][Next]_vars

-----------------------------------------------------------------------------
(* What the shim promises.                                                 *)

ReconcilerState ==
  [pc : {"waiting", "cancelling", "clearing"}]
  \cup [pc : {"borrowed"}, current : Profile]

Ended == [released : SUBSET Nat, cancelled : SUBSET Nat]

\* The type invariant of the shim.
TypeOK ==
  /\ active \in Profile /\ battery \in Profile
  /\ locked \in BOOLEAN /\ fresh \in BOOLEAN
  /\ queue \in Seq(Request) /\ Len(queue) <= Capacity
  /\ holds \subseteq Hold
  /\ snapshot \in Profile \cup {None}
  /\ nextCookie \in Nat \ {0}
  /\ task \in [Task -> TaskState]
  /\ reconciler \in ReconcilerState
  /\ connected \subseteq Client
  /\ gone \in Seq(Client)
  /\ spent \in Nat
  /\ ended \in Ended

\* A snapshot never outlives its stack of holds: when none is left, whoever
\* removed the last one is about to restore it or to forget it.
SnapshotDrains ==
  holds = {} /\ snapshot # None =>
    \/ \E t \in Task : task[t].pc = "restoring"
    \/ reconciler.pc = "clearing"

Quiet ==
  /\ \A t \in Task : task[t].pc = "idle"
  /\ queue = <<>>
  /\ ~fresh
  /\ reconciler.pc = "waiting"

\* When nothing is left to do, holds that are still listed are in force:
\* however calls, cancellations, disconnects, the AC lock and other clients
\* interleave, no hold is left standing over a profile it did not ask for.
ProfileFollowsHolds == Quiet /\ holds # {} => active = Effective(holds)

\* A cookie names one hold: no two calls get the same one, and a hold that
\* stands was neither released nor cancelled before.
CookiesUnique ==
  /\ \A h, g \in holds : h.cookie = g.cookie => h = g
  /\ \A h \in holds : h.cookie \notin ended.released \cup ended.cancelled
  /\ ended.released \cap ended.cancelled = {}
=============================================================================
