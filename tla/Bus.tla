-------------------------------- MODULE Bus --------------------------------
(***************************************************************************)
(* The D-Bus service of hpd: setter calls that check the AC lock and their *)
(* arguments, ask polkit, send one transition to the executor and answer   *)
(* before it is reduced; and the task that turns publications of the state *)
(* into PropertiesChanged signals for the clients that mirror it.          *)
(*                                                                         *)
(* Of the state only what tells these apart is kept: one lever the lock    *)
(* pins, the charge threshold it does not, the charger, the preference and *)
(* the lever to put back.  Calls run as tasks of their own; polkit may     *)
(* keep one waiting while the executor and the charger go on.              *)
(***************************************************************************)
EXTENDS Naturals, Sequences, FiniteSets

CONSTANTS
  Client,    \* callers
  Setters,   \* the methods they call
  None,      \* Option::None
  Capacity,  \* capacity of the executor's channel, 32 in the code
  MaxCalls,  \* bounds on setter calls,
  MaxEdges,  \* on charger edges and limit changes
  MaxFaults  \* and on signals that cannot be emitted

LockGated ==
  {"set_spl", "set_preset", "set_profile", "set_cooling_level", "set_fan_auto",
   "reset_fan_curve", "set_fan_curve", "enable_gpu_auto_follow",
   "reset_gpu_clocks", "restore_defaults"}

Method == LockGated \cup {"set_charge_threshold", "set_ac_max_performance"}

\* Refused before polkit is asked: a level, curve or threshold that does not
\* parse or validate, or a capability this device lacks.
ChecksFirst ==
  {"set_charge_threshold", "set_cooling_level", "set_fan_curve", "enable_gpu_auto_follow"}

\* Parsed once polkit has agreed.
ParsesLast == {"set_preset", "set_profile"}

\* What a caller may pass: something this device takes, the top of the range
\* get_hardware_limits answers, which is read once, or anything else.  Nobody
\* checks the watts of set_spl before the reducer does.
Arguments(m) ==
  IF m = "set_spl" THEN {"fits", "ceiling", "outside"}
  ELSE IF m \in ChecksFirst \cup ParsesLast THEN {"fits", "outside"}
  ELSE {"fits"}

PolkitAction == {"SetTdp", "SetCharge", "SetProfile"}

Needs(m) ==
  CASE m \in {"set_spl", "set_preset"} -> <<"SetTdp">>
    [] m = "set_charge_threshold"      -> <<"SetCharge">>
    [] m = "restore_defaults"          -> <<"SetTdp", "SetCharge", "SetProfile">>
    [] OTHER                           -> <<"SetProfile">>

ASSUME BusAssumption ==
  /\ Setters \subseteq Method
  /\ Capacity \in Nat \ {0}
  /\ {MaxCalls, MaxEdges, MaxFaults} \subseteq Nat

VARIABLES
  state,     \* the published state (watch channel)
  narrowed,  \* have the executor's limits changed since the service started
  alive,     \* does the executor still receive
  queue,     \* the executor's channel
  call,      \* each client's call
  emitter,   \* the PropertiesChanged task
  fresh,     \* a publication it has not seen
  mirror,    \* the properties as a client that follows signals knows them
  spent,     \* calls, edges and lost signals so far
  history    \* calls answered with an error; requests sent, and which of them
             \* were reduced, dropped by the reducer or discarded at shutdown;
             \* whether the state moved on while its change was being signalled

callVars == <<call>>
emitterVars == <<emitter, fresh, mirror>>
vars == <<state, narrowed, alive, queue, callVars, emitterVars, spent, history>>

Lever == {"low", "top", "max"}

State ==
  [lever : Lever, charge : {"80", "60"}, ac : BOOLEAN, pref : BOOLEAN,
   dc : Lever \cup {None}]

Locked(s) == s.ac /\ s.pref

\* The properties in the order the emitter compares them.
Property == <<"lever", "charge", "ac", "locked", "pref">>

View(s) == [lever |-> s.lever, charge |-> s.charge, ac |-> s.ac,
            locked |-> Locked(s), pref |-> s.pref]

Room == Len(queue) < Capacity

Idle == [pc |-> "idle"]

Spend(what, max) == spent[what] < max /\ spent' = [spent EXCEPT ![what] = @ + 1]

-----------------------------------------------------------------------------
(* A setter call: id names it in the history, arg is what the caller asked *)
(* for, overtaken says that the lock was entered after it was checked.     *)

Answer(c, id, status) ==
  /\ call' = [call EXCEPT ![c] = Idle]
  /\ history' = IF status = "ok" THEN history
                ELSE [history EXCEPT !.refused = @ \cup {id}]

\* Mutated Invoke: a setter that leaves the lock to the reducer.
InvokeUnchecked(c, m, arg) ==
  LET id == spent.calls IN
  /\ call[c].pc = "idle"
  /\ Spend("calls", MaxCalls)
  /\ IF m \in ChecksFirst /\ arg = "outside" THEN Answer(c, id, "invalid")
     ELSE /\ call' = [call EXCEPT ![c] =
                        [pc |-> "auth", id |-> id, method |-> m, arg |-> arg,
                         asking |-> Needs(m), overtaken |-> FALSE]]
          /\ UNCHANGED history
  /\ UNCHANGED <<state, narrowed, alive, queue, emitterVars>>

\* The lock check, then the checks that come before polkit.
Invoke(c, m, arg) ==
  LET id == spent.calls IN
  /\ call[c].pc = "idle"
  /\ Spend("calls", MaxCalls)
  /\ IF m \in LockGated /\ Locked(state) THEN Answer(c, id, "locked")
     ELSE IF m \in ChecksFirst /\ arg = "outside" THEN Answer(c, id, "invalid")
     ELSE /\ call' = [call EXCEPT ![c] =
                        [pc |-> "auth", id |-> id, method |-> m, arg |-> arg,
                         asking |-> Needs(m), overtaken |-> FALSE]]
          /\ UNCHANGED history
  /\ UNCHANGED <<state, narrowed, alive, queue, emitterVars>>

RequestOf(r) == [op |-> r.method, id |-> r.id, arg |-> r.arg, overtaken |-> r.overtaken]

Authorizing(c) == call[c].pc = "auth" /\ call[c].asking # <<>>

\* Mutated Authorize: restore_defaults sends each lever as soon as it may.
AuthorizePiecemeal(c) ==
  /\ Authorizing(c)
  /\ \/ /\ Room
        /\ call' = [call EXCEPT ![c].asking = Tail(@)]
        /\ queue' = Append(queue, RequestOf(call[c]))
        /\ history' = [history EXCEPT !.sent = @ \cup {call[c].id}]
     \/ Answer(c, call[c].id, "denied") /\ UNCHANGED queue
  /\ UNCHANGED <<state, narrowed, alive, emitterVars, spent>>

\* One question to polkit, which may prompt the user; no answer is a no.
Authorize(c) ==
  /\ Authorizing(c)
  /\ \/ call' = [call EXCEPT ![c].asking = Tail(@)] /\ UNCHANGED history
     \/ Answer(c, call[c].id, "denied")
  /\ UNCHANGED <<state, narrowed, alive, queue, emitterVars, spent>>

\* Mutated SendRequest: does not wait for room in the channel.
SendRequestUnbounded(c) ==
  LET r == call[c] IN
  /\ r.pc = "auth"
  /\ r.asking = <<>>
  /\ alive
  /\ queue' = Append(queue, RequestOf(r))
  /\ call' = [call EXCEPT ![c] = Idle]
  /\ history' = [history EXCEPT !.sent = @ \cup {r.id}]
  /\ UNCHANGED <<state, narrowed, alive, emitterVars, spent>>

\* A request that does not parse is refused; any other is answered with
\* success as soon as the channel has room for it, whatever becomes of it.
SendRequest(c) ==
  LET r == call[c] IN
  /\ r.pc = "auth"
  /\ r.asking = <<>>
  /\ \/ /\ r.method \in ParsesLast /\ r.arg = "outside"
        /\ Answer(c, r.id, "invalid")
        /\ UNCHANGED queue
     \/ /\ r.method \in ParsesLast => r.arg # "outside"
        /\ ~alive
        /\ Answer(c, r.id, "executor down")
        /\ UNCHANGED queue
     \/ /\ r.method \in ParsesLast => r.arg # "outside"
        /\ alive
        /\ Room
        /\ queue' = Append(queue, RequestOf(r))
        /\ call' = [call EXCEPT ![c] = Idle]
        /\ history' = [history EXCEPT !.sent = @ \cup {r.id}]
  /\ UNCHANGED <<state, narrowed, alive, emitterVars, spent>>

-----------------------------------------------------------------------------
(* The executor, as far as the service sees it.                            *)

Levered(s, lever) == [s EXCEPT !.lever = lever]

Forced(s, dc) == [s EXCEPT !.lever = "max", !.dc = dc]

Released(s) == [s EXCEPT !.lever = s.dc, !.dc = None]

\* An unplug without a snapshot falls back to the quiet defaults.
Edge(s) ==
  LET after ==
    IF ~s.ac THEN IF s.pref THEN Forced(s, s.lever) ELSE s
    ELSE IF s.dc # None THEN Released(s)
    ELSE IF s.pref THEN Levered(s, "low")
    ELSE s
  IN [after EXCEPT !.ac = ~s.ac]

Toggle(s) ==
  LET after ==
    IF ~s.ac THEN s
    ELSE IF ~s.pref THEN Forced(s, IF s.dc = None THEN s.lever ELSE s.dc)
    ELSE IF s.dc # None THEN Released(s)
    ELSE s
  IN [after EXCEPT !.pref = ~s.pref]

\* The executor's limits follow the firmware, get_hardware_limits does not.
OutsideLimits(r) ==
  r.op = "set_spl" /\ (r.arg = "outside" \/ (r.arg = "ceiling" /\ narrowed))

Ignored(r) == r.op \in LockGated /\ Locked(state)

\* An error the executor logs; the caller has been answered long before.
Rejected(r) == ~Ignored(r) /\ OutsideLimits(r)

\* set_ac_max_performance is taken to ask for the other value: asking for the
\* same one does nothing.
Reduced(r) ==
  CASE Ignored(r)                      -> state
    [] r.op = "edge"                   -> Edge(state)
    [] r.op = "set_ac_max_performance" -> Toggle(state)
    [] r.op = "set_charge_threshold"   -> [state EXCEPT !.charge = "60"]
    [] r.op = "restore_defaults"       -> [state EXCEPT !.lever = "low", !.charge = "80"]
    [] r.arg = "ceiling"               -> Levered(state, "top")
    [] OTHER                           -> Levered(state, "low")

Entered == ~Locked(state) /\ Locked(state')

Overtake(r) == [r EXCEPT !.overtaken = @ \/ Entered]

Signalling == emitter.pc = "signalling"

\* Published whether or not it changed, unless reduce returns an error.
Execute ==
  /\ alive
  /\ queue # <<>>
  /\ LET r == Head(queue) IN
       /\ state' = IF Rejected(r) THEN state ELSE Reduced(r)
       /\ fresh' = IF Rejected(r) THEN fresh ELSE TRUE
       /\ history' = [history EXCEPT
            !.dropped = IF Rejected(r) \/ Ignored(r) THEN @ \cup {r} ELSE @,
            !.reduced = IF Rejected(r) \/ Ignored(r) THEN @ ELSE @ \cup {r.id},
            !.overlapped = @ \/ (Signalling /\ state' # state)]
  /\ queue' = [i \in DOMAIN Tail(queue) |-> Overtake(Tail(queue)[i])]
  /\ call' = [c \in Client |-> IF call[c].pc = "auth" THEN Overtake(call[c]) ELSE call[c]]
  /\ UNCHANGED <<narrowed, alive, emitter, mirror, spent>>

Waiting == {queue[i].id : i \in 1..Len(queue)}

\* Shutdown, published like any transition: the channel closes behind the
\* executor, with all that was answered and is still in it.
Stop ==
  /\ alive
  /\ alive' = FALSE
  /\ queue' = <<>>
  /\ fresh' = TRUE
  /\ history' = [history EXCEPT !.discarded = Waiting]
  /\ UNCHANGED <<state, narrowed, callVars, emitter, mirror, spent>>

\* The power monitor's edge.
ChargerEdge ==
  /\ alive
  /\ Room
  /\ Spend("edges", MaxEdges)
  /\ queue' = Append(queue, [op |-> "edge", id |-> None, arg |-> "fits", overtaken |-> FALSE])
  /\ UNCHANGED <<state, narrowed, alive, callVars, emitterVars, history>>

\* A resume after which the firmware advertises a lower ceiling.
LimitsChange ==
  /\ alive
  /\ ~narrowed
  /\ Spend("edges", MaxEdges)
  /\ narrowed' = TRUE
  /\ UNCHANGED <<state, alive, queue, callVars, emitterVars, history>>

-----------------------------------------------------------------------------
(* The emitter: wake on a publication, take a copy, and for every property *)
(* that differs from the last copy emit what its getter returns by then.   *)

Wake ==
  /\ emitter.pc = "waiting"
  /\ fresh
  /\ fresh' = FALSE
  /\ emitter' = [emitter EXCEPT !.pc = "signalling", !.new = View(state), !.next = 1]
  /\ UNCHANGED <<state, narrowed, alive, queue, callVars, mirror, spent, history>>

\* Mutated Signal: an else-if chain, one signal per publication.
SignalFirstOnly ==
  LET p == Property[emitter.next] IN
  /\ Signalling
  /\ emitter.next <= Len(Property)
  /\ IF emitter.new[p] = emitter.last[p]
     THEN UNCHANGED <<mirror, spent>> /\ emitter' = [emitter EXCEPT !.next = @ + 1]
     ELSE /\ emitter' = [emitter EXCEPT !.next = Len(Property) + 1]
          /\ \/ mirror' = [mirror EXCEPT ![p] = View(state)[p]] /\ UNCHANGED spent
             \/ Spend("faults", MaxFaults) /\ UNCHANGED mirror
  /\ UNCHANGED <<state, narrowed, alive, queue, callVars, fresh, history>>

\* A signal that cannot be emitted is logged and not repeated.
Signal ==
  LET p == Property[emitter.next] IN
  /\ Signalling
  /\ emitter.next <= Len(Property)
  /\ emitter' = [emitter EXCEPT !.next = @ + 1]
  /\ \/ emitter.new[p] = emitter.last[p] /\ UNCHANGED <<mirror, spent>>
     \/ /\ emitter.new[p] # emitter.last[p]
        /\ \/ mirror' = [mirror EXCEPT ![p] = View(state)[p]] /\ UNCHANGED spent
           \/ Spend("faults", MaxFaults) /\ UNCHANGED mirror
  /\ UNCHANGED <<state, narrowed, alive, queue, callVars, fresh, history>>

Signalled ==
  /\ Signalling
  /\ emitter.next > Len(Property)
  /\ emitter' = [emitter EXCEPT !.pc = "waiting", !.last = emitter.new]
  /\ UNCHANGED <<state, narrowed, alive, queue, callVars, fresh, mirror, spent, history>>

-----------------------------------------------------------------------------
Boot == [lever |-> "top", charge |-> "80", ac |-> FALSE, pref |-> TRUE, dc |-> None]

Init ==
  /\ state \in {Boot, Forced([Boot EXCEPT !.ac = TRUE], None)}
  /\ narrowed = FALSE
  /\ alive = TRUE
  /\ queue = <<>>
  /\ call = [c \in Client |-> Idle]
  /\ emitter = [pc |-> "waiting", last |-> View(state), new |-> View(state), next |-> 1]
  /\ fresh = FALSE
  /\ mirror = View(state)
  /\ spent = [calls |-> 0, edges |-> 0, faults |-> 0]
  /\ history = [refused |-> {}, sent |-> {}, reduced |-> {}, dropped |-> {},
                discarded |-> {}, overlapped |-> FALSE]

Next ==
  \/ \E c \in Client :
       \/ \E m \in Setters : \E arg \in Arguments(m) : Invoke(c, m, arg)
       \/ Authorize(c)
       \/ SendRequest(c)
  \/ Execute \/ Stop \/ ChargerEdge \/ LimitsChange
  \/ Wake \/ Signal \/ Signalled

Spec == Init /\ [][Next]_vars

-----------------------------------------------------------------------------
(* What the service promises its clients.                                  *)

Argument == {"fits", "ceiling", "outside"}

CallState ==
  [pc : {"idle"}]
  \cup [pc : {"auth"}, id : Nat, method : Method, arg : Argument,
        asking : Seq(PolkitAction), overtaken : BOOLEAN]

Request ==
  [op : Method, id : Nat, arg : Argument, overtaken : BOOLEAN]
  \cup [op : {"edge"}, id : {None}, arg : Argument, overtaken : BOOLEAN]

Views == [lever : Lever, charge : {"80", "60"}, ac : BOOLEAN, locked : BOOLEAN,
          pref : BOOLEAN]

EmitterState == [pc : {"waiting", "signalling"}, last : Views, new : Views,
                 next : 1..(Len(Property) + 1)]

Spent == [calls : Nat, edges : Nat, faults : Nat]

Id == Nat \cup {None}

History == [refused : SUBSET Nat, sent : SUBSET Nat, reduced : SUBSET Id,
            dropped : SUBSET Request, discarded : SUBSET Id, overlapped : BOOLEAN]

\* The type invariant of the service.
TypeOK ==
  /\ state \in State
  /\ narrowed \in BOOLEAN /\ alive \in BOOLEAN /\ fresh \in BOOLEAN
  /\ queue \in Seq(Request) /\ Len(queue) <= Capacity
  /\ call \in [Client -> CallState]
  /\ emitter \in EmitterState
  /\ mirror \in Views
  /\ spent \in Spent
  /\ history \in History

\* A call that is answered with an error has changed and will change nothing:
\* no request of it is in the channel, reduced or still to be sent, so that a
\* client may try again.
ErrorMeansUntouched == history.refused \cap history.sent = {}

\* What became of an answered write that neither took effect nor waits.
Excused(id) ==
  \/ id \in history.discarded
  \/ \E r \in history.dropped : r.id = id /\ (r.overtaken \/ OutsideLimits(r))

\* A write that was answered with success is reduced, or waits for it, unless
\* the AC lock was entered after its lock check, during the polkit prompt or
\* in the channel; or it is a set_spl whose watts the executor's limits do not
\* hold, which nothing before the reducer checks; or the daemon was stopped
\* while it waited.
SuccessHasEffect ==
  /\ \A id \in history.sent :
       id \in history.reduced \cup Waiting \/ Excused(id)
  /\ history.discarded # {} => ~alive

Quiet == emitter.pc = "waiting" /\ ~fresh

\* A client that only follows signals ends up with the published state, if no
\* signal was lost and no change landed while an earlier one was being
\* signalled: coalesced publications, changes that undo each other before the
\* emitter wakes and changes of several properties at once lose nothing.
SignalsSuffice ==
  Quiet /\ ~history.overlapped /\ spent.faults = 0 => mirror = View(state)
=============================================================================
