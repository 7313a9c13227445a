--------------------------- MODULE PpdShim_proofs ---------------------------
(***************************************************************************)
(* Proofs about the power-profiles-daemon shim, for any number of clients, *)
(* holds and requests and any capacity of the executor's channel.          *)
(***************************************************************************)
EXTENDS PpdShim, SequenceTheorems, TLAPS

-----------------------------------------------------------------------------
(* Types.                                                                  *)

LEMMA EffectiveTypes ==
  ASSUME NEW hs, hs \subseteq Hold
  PROVE  /\ Effective(hs) \in HeldProfile \cup {None}
         /\ hs # {} => Effective(hs) \in HeldProfile
  BY DEF Effective, Hold, HeldProfile

LEMMA TaskKinds ==
  /\ Idle \in TaskState /\ [pc |-> "restoring"] \in TaskState
  /\ \A p \in Profile : Sending(p) \in TaskState /\ [pc |-> "restored", profile |-> p] \in TaskState
  /\ \A n \in Nat, p \in HeldProfile, q \in Profile :
       [pc |-> "holding", cookie |-> n, profile |-> p, seen |-> q] \in TaskState
  BY DEF Idle, Sending, TaskState

LEMMA TaskFields ==
  ASSUME NEW r \in TaskState
  PROVE  /\ r.pc \in {"idle", "restoring", "holding", "sending", "restored"}
         /\ r.pc = "holding" =>
              r.cookie \in Nat /\ r.profile \in HeldProfile /\ r.seen \in Profile
         /\ r.pc \in {"sending", "restored"} => r.profile \in Profile
  BY DEF TaskState, HeldProfile, Profile

LEMMA SendTypes ==
  ASSUME TypeOK, Room, NEW r \in Request, queue' = Append(queue, r)
  PROVE  queue' \in Seq(Request) /\ Len(queue') <= Capacity
<1>1. queue \in Seq(Request) /\ Len(queue) < Capacity /\ Capacity \in Nat
  BY ShimAssumption DEF TypeOK, Room
<1>2. queue' \in Seq(Request) /\ Len(queue') = Len(queue) + 1 /\ Len(queue) \in Nat
  BY <1>1, AppendProperties, LenProperties
<1>3. QED
  BY <1>1, <1>2

LEMMA RequestKinds ==
  /\ \A p \in Profile : SetProfile(p) \in Request
  /\ \A kind \in {"Unrelated", "AcEdge"} : [op |-> kind] \in Request
  BY DEF SetProfile, Request

LEMMA CallTypes ==
  ASSUME TypeOK, NEW c \in Client,
         \/ \E p \in HeldProfile : HoldProfile(c, p)
         \/ \E p \in Profile : SetActiveProfile(c, p)
         \/ Disconnect(c)
  PROVE  TypeOK'
<1>1. ASSUME NEW p \in HeldProfile, HoldProfile(c, p) PROVE TypeOK'
  <2>1. [pc |-> "holding", cookie |-> nextCookie, profile |-> p, seen |-> active] \in TaskState
    BY TaskKinds DEF TypeOK
  <2>2. task' \in [Task -> TaskState]
    BY <1>1, <2>1 DEF HoldProfile, TypeOK
  <2>3. nextCookie' \in Nat \ {0}
    BY <1>1 DEF HoldProfile, TypeOK
  <2>4. QED
    BY <1>1, <2>2, <2>3 DEF HoldProfile, TypeOK, executorVars, busVars
<1>2. ASSUME NEW p \in Profile, SetActiveProfile(c, p) PROVE TypeOK'
  <2>1. task' \in [Task -> TaskState]
    <3>1. task' = [task EXCEPT ![c] = Sending(p)] /\ task \in [Task -> TaskState]
      BY <1>2 DEF SetActiveProfile, TypeOK
    <3>2. Sending(p) \in TaskState
      BY TaskKinds
    <3>3. QED
      BY <3>1, <3>2
  <2>2. spent' \in Nat
    BY <1>2 DEF SetActiveProfile, TypeOK
  <2>3. UNCHANGED <<active, locked, battery, queue, fresh, holds, snapshot, nextCookie,
                    reconciler, connected, gone, ended>>
    BY <1>2 DEF SetActiveProfile, executorVars, sharedVars, busVars
  <2>4. QED
    BY <2>1, <2>2, <2>3 DEF TypeOK
<1>3. CASE Disconnect(c)
  <2>1. gone' \in Seq(Client) /\ connected' \subseteq Client
    BY <1>3, AppendProperties DEF Disconnect, TypeOK
  <2>2. QED
    BY <1>3, <2>1 DEF Disconnect, TypeOK, executorVars, sharedVars
<1>4. QED
  BY <1>1, <1>2, <1>3

LEMMA RegisterTypes ==
  ASSUME TypeOK, NEW c \in Client, RegisterHold(c)
  PROVE  TypeOK'
<1>1. c \in Task /\ task[c] \in TaskState /\ task[c].pc = "holding"
  BY DEF RegisterHold, Task, TypeOK
<1>2. task[c].cookie \in Nat /\ task[c].profile \in HeldProfile /\ task[c].seen \in Profile
  BY <1>1, TaskFields
<1>3. holds' \subseteq Hold /\ holds' # {}
  <2> DEFINE h == [cookie |-> task[c].cookie, profile |-> task[c].profile, holder |-> c]
  <2>1. h \in Hold
    BY <1>2 DEF Hold
  <2>2. holds' = holds \cup {h} /\ holds \subseteq Hold
    BY DEF RegisterHold, TypeOK
  <2>3. QED
    BY <2>1, <2>2
<1>4. task' \in [Task -> TaskState]
  <2>1. Effective(holds') \in Profile
    BY <1>3, EffectiveTypes DEF Profile
  <2>2. QED
    BY <2>1, TaskKinds DEF RegisterHold, TypeOK
<1>5. snapshot' \in Profile \cup {None}
  BY <1>2 DEF RegisterHold, TypeOK
<1>6. QED
  BY <1>3, <1>4, <1>5 DEF RegisterHold, TypeOK, executorVars, busVars

LEMMA RemoveTypes ==
  ASSUME TypeOK, NEW t \in Task, NEW removed, removed \subseteq holds,
         RemoveHolds(t, removed)
  PROVE  /\ holds' \subseteq Hold
         /\ task' \in [Task -> TaskState]
         /\ ended' \in Ended
<1>1. holds' \subseteq Hold
  BY DEF RemoveHolds, TypeOK
<1>2. holds' # {} => Effective(holds') \in Profile
  BY <1>1, EffectiveTypes DEF Profile
<1>3. task' \in [Task -> TaskState]
  BY <1>2, TaskKinds DEF RemoveHolds, TypeOK
<1>4. {h.cookie : h \in removed} \subseteq Nat
  BY DEF TypeOK, Hold
<1>5. ended' \in Ended
  BY <1>4 DEF RemoveHolds, TypeOK, Ended
<1>6. QED
  BY <1>1, <1>3, <1>5

LEMMA ReleaseTypes ==
  ASSUME TypeOK,
         HolderDisconnected
           \/ \E c \in Client, cookie \in 1..MaxHolds : ReleaseProfile(c, cookie)
  PROVE  TypeOK'
<1>1. ASSUME NEW c \in Client, NEW cookie \in 1..MaxHolds, ReleaseProfile(c, cookie)
      PROVE  TypeOK'
  <2>1. /\ holds' \subseteq Hold /\ task' \in [Task -> TaskState] /\ ended' \in Ended
    BY <1>1, RemoveTypes DEF ReleaseProfile, Task
  <2>2. QED
    BY <1>1, <2>1 DEF ReleaseProfile, TypeOK, executorVars, busVars
<1>2. CASE HolderDisconnected
  <2>1. /\ holds' \subseteq Hold /\ task' \in [Task -> TaskState] /\ ended' \in Ended
    BY <1>2, RemoveTypes DEF HolderDisconnected, Task
  <2>2. gone' \in Seq(Client)
    BY <1>2, HeadTailProperties DEF HolderDisconnected, TypeOK
  <2>3. QED
    BY <1>2, <2>1, <2>2 DEF HolderDisconnected, TypeOK, executorVars
<1>3. QED
  BY <1>1, <1>2

LEMMA TaskStepTypes ==
  ASSUME TypeOK, NEW t \in Task, TaskStep(t)
  PROVE  TypeOK'
<1>1. task[t] \in TaskState
  BY DEF TypeOK
<1>2. CASE SendProfile(t) \/ SendRestored(t)
  <2>1. SetProfile(task[t].profile) \in Request
    BY <1>1, <1>2, TaskFields, RequestKinds DEF SendProfile, SendRestored
  <2>2. queue' \in Seq(Request) /\ Len(queue') <= Capacity
    BY <1>2, <2>1, SendTypes DEF SendProfile, SendRestored
  <2>3. task' \in [Task -> TaskState]
    BY <1>2, TaskKinds DEF SendProfile, SendRestored, TypeOK
  <2>4. QED
    BY <1>2, <2>2, <2>3 DEF SendProfile, SendRestored, TypeOK, sharedVars, busVars
<1>3. CASE TakeSnapshot(t)
  <2>1. task' \in [Task -> TaskState]
    BY <1>3, TaskKinds DEF TakeSnapshot, TypeOK
  <2>2. QED
    BY <1>3, <2>1 DEF TakeSnapshot, TypeOK, executorVars, busVars
<1>4. QED
  BY <1>2, <1>3 DEF TaskStep

LEMMA ReconcileTypes ==
  ASSUME TypeOK, Reconcile
  PROVE  TypeOK'
<1>1. CASE BorrowState
  BY <1>1 DEF BorrowState, TypeOK, ReconcilerState, executorVars, sharedVars, busVars
<1>2. CASE PeekExpected
  BY <1>2 DEF PeekExpected, TypeOK, ReconcilerState, executorVars, sharedVars, busVars
<1>3. CASE CancelHolds
  <2>1. {h.cookie : h \in holds} \subseteq Nat
    BY DEF TypeOK, Hold
  <2>2. ended' \in Ended
    BY <1>3, <2>1 DEF CancelHolds, TypeOK, Ended
  <2>3. QED
    BY <1>3, <2>2 DEF CancelHolds, TypeOK, ReconcilerState, executorVars, busVars
<1>4. CASE ClearSnapshot
  BY <1>4 DEF ClearSnapshot, TypeOK, ReconcilerState, executorVars, busVars
<1>5. QED
  BY <1>1, <1>2, <1>3, <1>4 DEF Reconcile

LEMMA ExecutorTypes ==
  ASSUME TypeOK, Execute \/ OtherTraffic
  PROVE  TypeOK'
<1>1. CASE Execute
  <2>1. /\ queue \in Seq(Request) /\ queue # <<>> /\ Len(queue) <= Capacity
        /\ Capacity \in Nat
    BY <1>1, ShimAssumption DEF Execute, TypeOK
  <2>2. /\ Head(queue) \in Request /\ Tail(queue) \in Seq(Request)
        /\ Len(Tail(queue)) <= Capacity
    BY <2>1
  <2>3. active' \in Profile /\ battery' \in Profile /\ locked' \in BOOLEAN
    BY <1>1, <2>2 DEF Execute, Reduced, Request, TypeOK, Profile, HeldProfile
  <2>4. QED
    BY <1>1, <2>2, <2>3 DEF Execute, TypeOK, sharedVars, busVars
<1>2. CASE OtherTraffic
  <2>1. PICK kind \in Others : queue' = Append(queue, [op |-> kind])
    BY <1>2 DEF OtherTraffic
  <2>2. [op |-> kind] \in Request
    BY ShimAssumption, RequestKinds DEF OtherKind
  <2>3. queue' \in Seq(Request) /\ Len(queue') <= Capacity
    BY <1>2, <2>1, <2>2, SendTypes DEF OtherTraffic
  <2>4. spent' \in Nat
    BY <1>2 DEF OtherTraffic, TypeOK
  <2>5. QED
    BY <1>2, <2>3, <2>4 DEF OtherTraffic, TypeOK, sharedVars, busVars
<1>3. QED
  BY <1>1, <1>2

\* The shim's variables keep their types, and the channel its capacity.
THEOREM ShimTypes == Spec => []TypeOK
<1>1. Init => TypeOK
  <2> SUFFICES ASSUME Init PROVE TypeOK
    OBVIOUS
  <2>1. <<>> \in Seq(Request) /\ <<>> \in Seq(Client) /\ Len(<<>>) <= Capacity
    BY ShimAssumption
  <2>2. task \in [Task -> TaskState] /\ reconciler \in ReconcilerState
    BY TaskKinds DEF Init, ReconcilerState
  <2>3. ended \in Ended
    BY DEF Init, Ended
  <2>4. /\ active \in Profile /\ battery \in Profile /\ locked \in BOOLEAN /\ fresh \in BOOLEAN
        /\ queue = <<>> /\ gone = <<>> /\ holds = {} /\ connected = Client
        /\ snapshot = None /\ nextCookie = 1 /\ spent = 0
    BY ShimAssumption DEF Init, Profile, HeldProfile
  <2>5. QED
    BY <2>1, <2>2, <2>3, <2>4 DEF TypeOK
<1>2. TypeOK /\ [Next]_vars => TypeOK'
  <2> SUFFICES ASSUME TypeOK, [Next]_vars PROVE TypeOK'
    OBVIOUS
  <2>1. ASSUME NEW c \in Client, Call(c) PROVE TypeOK'
    BY <2>1, CallTypes, ReleaseTypes DEF Call
  <2>2. ASSUME NEW c \in Client, RegisterHold(c) PROVE TypeOK'
    BY <2>2, RegisterTypes
  <2>3. ASSUME NEW t \in Task, TaskStep(t) PROVE TypeOK'
    BY <2>3, TaskStepTypes
  <2>4. CASE HolderDisconnected
    BY <2>4, ReleaseTypes
  <2>5. CASE Reconcile
    BY <2>5, ReconcileTypes
  <2>6. CASE Execute \/ OtherTraffic
    BY <2>6, ExecutorTypes
  <2>7. CASE UNCHANGED vars
    BY <2>7 DEF vars, executorVars, sharedVars, busVars, TypeOK
  <2>8. QED
    BY <2>1, <2>2, <2>3, <2>4, <2>5, <2>6, <2>7 DEF Next
<1>3. QED
  BY <1>1, <1>2, PTL DEF Spec

-----------------------------------------------------------------------------
(* The snapshot.                                                           *)

LEMMA RemoveDrains ==
  ASSUME TypeOK, SnapshotDrains, NEW t \in Task, NEW removed,
         task[t].pc = "idle", RemoveHolds(t, removed), UNCHANGED <<snapshot, reconciler>>
  PROVE  SnapshotDrains'
<1>1. removed # {} /\ holds' = {} => task'[t].pc = "restoring"
  BY DEF RemoveHolds, TypeOK
<1>2. removed = {} => holds' = holds
  BY DEF RemoveHolds
<1>3. \A u \in Task : u # t => task'[u] = task[u]
  BY DEF RemoveHolds, TypeOK
<1>4. \A u \in Task : task[u].pc = "restoring" => task'[u].pc = "restoring"
  BY <1>3
<1>5. QED
  BY <1>1, <1>2, <1>4 DEF SnapshotDrains

LEMMA TaskDrains ==
  ASSUME TypeOK, SnapshotDrains, NEW t \in Task, task[t].pc # "restoring",
         \A u \in Task : u # t => task'[u] = task[u],
         UNCHANGED <<holds, snapshot, reconciler>>
  PROVE  SnapshotDrains'
<1>1. \A u \in Task : task[u].pc = "restoring" => task'[u].pc = "restoring"
  OBVIOUS
<1>2. QED
  BY <1>1 DEF SnapshotDrains

\* When the last hold is gone, the profile from before the holds is either
\* about to be restored or about to be forgotten, for any clients and holds.
THEOREM SnapshotsDrain == Spec => []SnapshotDrains
<1>1. Init => SnapshotDrains
  BY DEF Init, SnapshotDrains
<1>2. TypeOK /\ SnapshotDrains /\ [Next]_vars => SnapshotDrains'
  <2> SUFFICES ASSUME TypeOK, SnapshotDrains, [Next]_vars PROVE SnapshotDrains'
    OBVIOUS
  <2>1. ASSUME NEW c \in Client, Call(c) PROVE SnapshotDrains'
    <3>1. c \in Task
      BY DEF Task
    <3>2. CASE \/ \E p \in HeldProfile : HoldProfile(c, p)
               \/ \E p \in Profile : SetActiveProfile(c, p)
      BY <3>1, <3>2, TaskDrains DEF HoldProfile, SetActiveProfile, sharedVars, TypeOK
    <3>3. CASE \E cookie \in 1..MaxHolds : ReleaseProfile(c, cookie)
      BY <3>1, <3>3, RemoveDrains DEF ReleaseProfile
    <3>4. CASE Disconnect(c)
      BY <3>4 DEF Disconnect, sharedVars, SnapshotDrains
    <3>5. QED
      BY <2>1, <3>2, <3>3, <3>4 DEF Call
  <2>2. ASSUME NEW c \in Client, RegisterHold(c) PROVE SnapshotDrains'
    <3>1. holds' # {}
      BY <2>2 DEF RegisterHold
    <3>2. QED
      BY <3>1 DEF SnapshotDrains
  <2>3. ASSUME NEW t \in Task, TaskStep(t) PROVE SnapshotDrains'
    <3>1. CASE SendProfile(t) \/ SendRestored(t)
      BY <3>1, TaskDrains DEF SendProfile, SendRestored, sharedVars, TypeOK
    <3>2. CASE TakeSnapshot(t)
      BY <3>2 DEF TakeSnapshot, SnapshotDrains
    <3>3. QED
      BY <2>3, <3>1, <3>2 DEF TaskStep
  <2>4. CASE HolderDisconnected
    BY <2>4, RemoveDrains DEF HolderDisconnected, Task
  <2>5. CASE Reconcile
    <3>1. CASE BorrowState \/ PeekExpected
      BY <3>1 DEF BorrowState, PeekExpected, sharedVars, SnapshotDrains
    <3>2. CASE CancelHolds
      BY <3>2 DEF CancelHolds, SnapshotDrains
    <3>3. CASE ClearSnapshot
      BY <3>3 DEF ClearSnapshot, SnapshotDrains
    <3>4. QED
      BY <2>5, <3>1, <3>2, <3>3 DEF Reconcile
  <2>6. CASE Execute \/ OtherTraffic \/ UNCHANGED vars
    BY <2>6 DEF Execute, OtherTraffic, vars, sharedVars, SnapshotDrains
  <2>7. QED
    BY <2>1, <2>2, <2>3, <2>4, <2>5, <2>6 DEF Next
<1>3. QED
  BY <1>1, <1>2, ShimTypes, PTL DEF Spec

-----------------------------------------------------------------------------
(* Cookies.  The counter is ahead of every cookie that was given out, and  *)
(* a call that has not registered its hold yet is the only one to know its.*)

Holding(t) == task[t].pc = "holding"

Over == ended.released \cup ended.cancelled

Numbered ==
  /\ CookiesUnique
  /\ \A h \in holds : h.cookie < nextCookie
  /\ \A n \in Over : n < nextCookie
  /\ \A t \in Task : Holding(t) =>
       /\ task[t].cookie < nextCookie
       /\ task[t].cookie \notin Over
       /\ \A h \in holds : h.cookie # task[t].cookie
  /\ \A t, u \in Task :
       Holding(t) /\ Holding(u) /\ task[t].cookie = task[u].cookie => t = u

LEMMA HoldNumbered ==
  ASSUME TypeOK, Numbered, NEW c \in Client, NEW p \in HeldProfile, HoldProfile(c, p)
  PROVE  Numbered'
<1>1. c \in Task /\ task'[c].cookie = nextCookie
      /\ \A u \in Task : u # c => task'[u] = task[u]
  BY DEF HoldProfile, TypeOK, Task
<1>2. nextCookie \in Nat /\ nextCookie' = nextCookie + 1 /\ UNCHANGED <<holds, ended>>
  BY DEF HoldProfile, TypeOK
<1>3. \A h \in holds : h.cookie \in Nat
  BY DEF TypeOK, Hold
<1>4. \A n \in Over : n \in Nat
  BY DEF TypeOK, Ended, Over
<1>5. \A t \in Task : Holding(t) => task[t].cookie \in Nat
  BY TaskFields DEF TypeOK, Holding
<1>6. \A u \in Task : u # c => (Holding(u)' <=> Holding(u))
  BY <1>1 DEF Holding
<1>7. QED
  BY <1>1, <1>2, <1>3, <1>4, <1>5, <1>6 DEF Numbered, CookiesUnique, Over

LEMMA RegisterNumbered ==
  ASSUME TypeOK, Numbered, NEW c \in Client, RegisterHold(c)
  PROVE  Numbered'
<1> DEFINE g == [cookie |-> task[c].cookie, profile |-> task[c].profile, holder |-> c]
<1>1. c \in Task /\ Holding(c) /\ g.cookie = task[c].cookie
  BY DEF RegisterHold, Task, Holding
<1>2. holds' = holds \cup {g} /\ UNCHANGED <<nextCookie, ended>>
  BY DEF RegisterHold
<1>3. \A u \in Task : Holding(u)' => u # c /\ Holding(u) /\ task'[u] = task[u]
  BY DEF RegisterHold, TypeOK, Holding, Sending
<1>4. \A h \in holds : h.cookie # g.cookie
  BY <1>1 DEF Numbered
<1>5. g.cookie < nextCookie /\ g.cookie \notin Over
  BY <1>1 DEF Numbered
<1>6. CookiesUnique'
  BY <1>2, <1>4, <1>5 DEF Numbered, CookiesUnique, Over
<1>7. QED
  BY <1>1, <1>2, <1>3, <1>5, <1>6 DEF Numbered, Over

\* Holds leave the stack and their cookies are over.
LEMMA RemoveNumbered ==
  ASSUME TypeOK, Numbered, NEW removed, removed \subseteq holds,
         holds' = holds \ removed, UNCHANGED nextCookie,
         \A t \in Task : Holding(t)' => Holding(t) /\ task'[t] = task[t],
         \/ /\ ended'.released = ended.released \cup {h.cookie : h \in removed}
            /\ ended'.cancelled = ended.cancelled
         \/ /\ ended'.cancelled = ended.cancelled \cup {h.cookie : h \in removed}
            /\ ended'.released = ended.released
  PROVE  Numbered'
<1> DEFINE cookies == {h.cookie : h \in removed}
<1>1. Over' = Over \cup cookies
  BY DEF Over
<1>2. \A n \in cookies : n < nextCookie /\ n \notin Over
  BY DEF Numbered, CookiesUnique, Over
<1>3. \A h \in holds' : h.cookie \notin cookies
  BY DEF Numbered, CookiesUnique
<1>4. CookiesUnique'
  <2>1. \A h, k \in holds' : h.cookie = k.cookie => h = k
    BY DEF Numbered, CookiesUnique
  <2>2. \A h \in holds' : h.cookie \notin Over'
    BY <1>1, <1>3 DEF Numbered, CookiesUnique, Over
  <2>3. ended'.released \cap ended'.cancelled = {}
    BY <1>2 DEF Numbered, CookiesUnique, Over
  <2>4. QED
    BY <2>1, <2>2, <2>3 DEF CookiesUnique, Over
<1>5. \A t \in Task : Holding(t) => task[t].cookie \notin cookies
  BY DEF Numbered
<1>6. QED
  BY <1>1, <1>2, <1>4, <1>5 DEF Numbered

LEMMA StackNumbered ==
  ASSUME TypeOK, Numbered,
         \/ HolderDisconnected
         \/ \E c \in Client, cookie \in 1..MaxHolds : ReleaseProfile(c, cookie)
         \/ CancelHolds
  PROVE  Numbered'
<1>1. ASSUME NEW t \in Task, NEW removed, removed \subseteq holds, RemoveHolds(t, removed),
             UNCHANGED nextCookie
      PROVE  Numbered'
  <2>1. \A u \in Task : Holding(u)' => Holding(u) /\ task'[u] = task[u]
    BY <1>1 DEF RemoveHolds, TypeOK, Holding, Idle, Sending
  <2>2. /\ ended'.released = ended.released \cup {h.cookie : h \in removed}
        /\ ended'.cancelled = ended.cancelled
    BY <1>1 DEF RemoveHolds, TypeOK, Ended
  <2>3. QED
    BY <1>1, <2>1, <2>2, RemoveNumbered DEF RemoveHolds
<1>2. CASE CancelHolds
  <2>1. /\ ended'.cancelled = ended.cancelled \cup {h.cookie : h \in holds}
        /\ ended'.released = ended.released
    BY <1>2 DEF CancelHolds, TypeOK, Ended
  <2>2. holds' = holds \ holds /\ UNCHANGED <<task, nextCookie>>
    BY <1>2 DEF CancelHolds
  <2>3. QED
    BY <2>1, <2>2, RemoveNumbered DEF Holding
<1>3. QED
  BY <1>1, <1>2 DEF HolderDisconnected, ReleaseProfile, Task

LEMMA FrameNumbered ==
  ASSUME Numbered, UNCHANGED <<holds, nextCookie, ended>>,
         \A t \in Task : Holding(t)' => Holding(t) /\ task'[t] = task[t]
  PROVE  Numbered'
  BY DEF Numbered, CookiesUnique, Over

\* A cookie stands for one hold and ends in one way: no two calls get the
\* same one, and none is both released and cancelled.
THEOREM CookiesAreUnique == Spec => []CookiesUnique
<1>1. Init => Numbered
  BY DEF Init, Numbered, CookiesUnique, Over, Holding, Idle
<1>2. TypeOK /\ Numbered /\ [Next]_vars => Numbered'
  <2> SUFFICES ASSUME TypeOK, Numbered, [Next]_vars PROVE Numbered'
    OBVIOUS
  <2>1. ASSUME NEW c \in Client, Call(c) PROVE Numbered'
    <3>1. CASE \E p \in HeldProfile : HoldProfile(c, p)
      BY <3>1, HoldNumbered
    <3>2. CASE \E p \in Profile : SetActiveProfile(c, p)
      BY <3>2, FrameNumbered DEF SetActiveProfile, sharedVars, TypeOK, Holding, Sending
    <3>3. CASE \E cookie \in 1..MaxHolds : ReleaseProfile(c, cookie)
      BY <3>3, StackNumbered
    <3>4. CASE Disconnect(c)
      BY <3>4, FrameNumbered DEF Disconnect, sharedVars, Holding
    <3>5. QED
      BY <2>1, <3>1, <3>2, <3>3, <3>4 DEF Call
  <2>2. ASSUME NEW c \in Client, RegisterHold(c) PROVE Numbered'
    BY <2>2, RegisterNumbered
  <2>3. ASSUME NEW t \in Task, TaskStep(t) PROVE Numbered'
    BY <2>3, FrameNumbered DEF TaskStep, SendProfile, TakeSnapshot, SendRestored,
                               sharedVars, TypeOK, Holding, Idle
  <2>4. CASE HolderDisconnected \/ CancelHolds
    BY <2>4, StackNumbered
  <2>5. CASE BorrowState \/ PeekExpected \/ ClearSnapshot
    BY <2>5, FrameNumbered DEF BorrowState, PeekExpected, ClearSnapshot, sharedVars, Holding
  <2>6. CASE Execute \/ OtherTraffic \/ UNCHANGED vars
    BY <2>6, FrameNumbered DEF Execute, OtherTraffic, vars, sharedVars, Holding
  <2>7. QED
    BY <2>1, <2>2, <2>3, <2>4, <2>5, <2>6 DEF Next, Reconcile
<1>3. Numbered => CookiesUnique
  BY DEF Numbered
<1>4. QED
  BY <1>1, <1>2, <1>3, ShimTypes, PTL DEF Spec

-----------------------------------------------------------------------------
(* The profile.  When nothing is on its way to the executor and every      *)
(* publication was borrowed, a profile the holds did not ask for is in the *)
(* reconciler's hands.                                                     *)

OnItsWay == \E t \in Task : task[t].pc \in {"sending", "restored"}

Settled == ~fresh /\ queue = <<>> /\ ~OnItsWay

Watched ==
  Settled /\ holds # {} /\ active # Effective(holds) =>
    \/ reconciler.pc = "cancelling"
    \/ reconciler.pc = "borrowed" /\ reconciler.current = active

LEMMA RemoveWatched ==
  ASSUME TypeOK, Watched, NEW t \in Task, task[t].pc = "idle", NEW removed,
         RemoveHolds(t, removed), UNCHANGED <<fresh, queue, active, reconciler>>
  PROVE  Watched'
<1>1. CASE removed = {}
  <2>1. holds' = holds
    BY <1>1 DEF RemoveHolds
  <2>2. \A u \in Task : u # t => task'[u] = task[u]
    BY DEF RemoveHolds, TypeOK
  <2>3. OnItsWay => OnItsWay'
    BY <2>2 DEF OnItsWay
  <2>4. QED
    BY <2>1, <2>3 DEF Watched, Settled
<1>2. CASE removed # {} /\ holds' # {}
  <2>1. task'[t].pc = "sending"
    BY <1>2 DEF RemoveHolds, TypeOK, Sending
  <2>2. OnItsWay'
    BY <2>1 DEF OnItsWay
  <2>3. QED
    BY <2>2 DEF Watched, Settled
<1>3. CASE holds' = {}
  BY <1>3 DEF Watched
<1>4. QED
  BY <1>1, <1>2, <1>3

LEMMA TaskWatched ==
  ASSUME TypeOK, Watched, NEW t \in Task, task[t].pc \notin {"sending", "restored"},
         \A u \in Task : u # t => task'[u] = task[u],
         UNCHANGED <<fresh, queue, active, holds, reconciler>>
  PROVE  Watched'
<1>1. OnItsWay => OnItsWay'
  BY DEF OnItsWay
<1>2. QED
  BY <1>1 DEF Watched, Settled

LEMMA PeekWatched ==
  ASSUME TypeOK, Watched, PeekExpected
  PROVE  Watched'
<1>1. holds # {} => Effective(holds) # None
  BY EffectiveTypes, ShimAssumption DEF TypeOK, Profile
<1>2. UNCHANGED <<fresh, queue, active, holds, task>>
  BY DEF PeekExpected, executorVars, sharedVars
<1>3. reconciler.pc = "borrowed"
      /\ (Effective(holds) \notin {None, reconciler.current} => reconciler'.pc = "cancelling")
  BY DEF PeekExpected
<1>4. (Settled /\ holds # {} /\ active # Effective(holds))'
        <=> (Settled /\ holds # {} /\ active # Effective(holds))
  BY <1>2 DEF Settled, OnItsWay, Effective
<1>5. QED
  BY <1>1, <1>3, <1>4 DEF Watched

LEMMA QueuedWatched ==
  ASSUME queue' # <<>>
  PROVE  Watched'
  BY DEF Watched, Settled

\* Holds that still stand when everything has come to rest are in force.
THEOREM HoldsAreFollowed == Spec => []ProfileFollowsHolds
<1>1. Init => Watched
  BY DEF Init, Watched
<1>2. TypeOK /\ Watched /\ [Next]_vars => Watched'
  <2> SUFFICES ASSUME TypeOK, Watched, [Next]_vars PROVE Watched'
    OBVIOUS
  <2>1. ASSUME NEW c \in Client, Call(c) PROVE Watched'
    <3>1. c \in Task
      BY DEF Task
    <3>2. CASE \/ \E p \in HeldProfile : HoldProfile(c, p)
               \/ \E p \in Profile : SetActiveProfile(c, p)
      BY <3>1, <3>2, TaskWatched DEF HoldProfile, SetActiveProfile, executorVars, sharedVars, TypeOK
    <3>3. CASE \E cookie \in 1..MaxHolds : ReleaseProfile(c, cookie)
      BY <3>1, <3>3, RemoveWatched DEF ReleaseProfile, executorVars
    <3>4. CASE Disconnect(c)
      BY <3>4 DEF Disconnect, executorVars, sharedVars, Watched, Settled, OnItsWay, Effective
    <3>5. QED
      BY <2>1, <3>2, <3>3, <3>4 DEF Call
  <2>2. ASSUME NEW c \in Client, RegisterHold(c) PROVE Watched'
    <3>1. c \in Task /\ task'[c].pc = "sending"
      BY <2>2 DEF RegisterHold, TypeOK, Sending, Task
    <3>2. OnItsWay'
      BY <3>1 DEF OnItsWay
    <3>3. QED
      BY <3>2 DEF Watched, Settled
  <2>3. ASSUME NEW t \in Task, TaskStep(t) PROVE Watched'
    <3>1. CASE SendProfile(t) \/ SendRestored(t)
      <4>1. queue' # <<>>
        BY <3>1 DEF SendProfile, SendRestored, TypeOK
      <4>2. QED
        BY <4>1, QueuedWatched
    <3>2. CASE TakeSnapshot(t)
      BY <3>2, TaskWatched DEF TakeSnapshot, executorVars, TypeOK
    <3>3. QED
      BY <2>3, <3>1, <3>2 DEF TaskStep
  <2>4. CASE HolderDisconnected
    BY <2>4, RemoveWatched DEF HolderDisconnected, executorVars, Task
  <2>5. CASE Reconcile
    <3>1. CASE BorrowState
      BY <3>1 DEF BorrowState, executorVars, Watched
    <3>2. CASE PeekExpected
      BY <3>2, PeekWatched
    <3>3. CASE CancelHolds
      BY <3>3 DEF CancelHolds, Watched
    <3>4. CASE ClearSnapshot
      BY <3>4 DEF ClearSnapshot, executorVars, Watched, Settled, OnItsWay, Effective
    <3>5. QED
      BY <2>5, <3>1, <3>2, <3>3, <3>4 DEF Reconcile
  <2>6. CASE Execute
    BY <2>6 DEF Execute, Watched, Settled
  <2>7. CASE OtherTraffic
    <3>1. queue' # <<>>
      BY <2>7 DEF OtherTraffic, TypeOK
    <3>2. QED
      BY <3>1, QueuedWatched
  <2>8. CASE UNCHANGED vars
    BY <2>8 DEF vars, executorVars, sharedVars, Watched, Settled, OnItsWay, Effective
  <2>9. QED
    BY <2>1, <2>2, <2>3, <2>4, <2>5, <2>6, <2>7, <2>8 DEF Next
<1>3. Watched => ProfileFollowsHolds
  BY DEF Watched, Settled, OnItsWay, ProfileFollowsHolds, Quiet
<1>4. QED
  BY <1>1, <1>2, <1>3, ShimTypes, PTL DEF Spec
=============================================================================
